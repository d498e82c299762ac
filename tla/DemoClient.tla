----------------------------- MODULE DemoClient -----------------------------
(***************************************************************************)
(* The program of main.cpp: the main thread, thread1 and thread2, each of  *)
(* which looks for quantums of certain numbers and calls the library in    *)
(* them.  Every call is the action of Scheduler of the same name.          *)
(*                                                                         *)
(* A thread's frame is its code, its local i and its place in its loop:    *)
(*   "catch_up"  if(i < uthread_get_total_quantums()) i = ...              *)
(*   "compare"   if(i == uthread_get_total_quantums())                     *)
(*   "act"       the calls made in this quantum, and i++, which no other   *)
(*               thread can see                                            *)
(* What is printed, and j, which is only printed, are left out.            *)
(***************************************************************************)
EXTENDS Scheduler

CONSTANTS
  MaxQuantums,   \* the run is followed up to this quantum ...
  MaxHasty       \* ... and up to this one if it is hasty

\* main.cpp has three threads and passes 1 to uthread_sleep.
ASSUME DemoAssumption ==
  /\ MAX_THREAD_NUM >= 3
  /\ 1 \in SleepArguments
  /\ MaxQuantums \in Nat \ {0} /\ MaxQuantums < CounterModulus
  /\ MaxHasty \in 1 .. MaxQuantums

VARIABLES
  frame,    \* thread id -> [code, i, at] of its function
  hasty     \* in this run the timer may interrupt a thread anywhere

demoVars == <<vars, frame, hasty>>

Code == {"main", "thread1", "thread2"}

Frame == [code : Code, i : Int,
          at : {"start", "catch_up", "compare", "act"}]

\* main calls uthread_init and sets i to 1.
DemoInit ==
  /\ Init
  /\ frame = [t \in {MAIN_THREAD_ID} |->
                [code |-> "main", i |-> 1, at |-> "catch_up"]]
  /\ hasty \in BOOLEAN

Me == frame[running_thread_id]

LastQuantum == IF hasty THEN MaxHasty ELSE MaxQuantums

\* The running thread goes on from one place of its loop to another.
Step(from, to, i) ==
  /\ process = "running"
  /\ Me.at = from
  /\ frame' = [frame EXCEPT ![running_thread_id].at = to,
                            ![running_thread_id].i = i]
  /\ UNCHANGED hasty

\* int i = uthread_get_total_quantums() of thread1 and thread2.
Start == Step("start", "catch_up", total_quantoms) /\ UNCHANGED vars

CatchUp == Step("catch_up", "compare", Max({Me.i, total_quantoms})) /\ UNCHANGED vars

Compare_AtLeast ==    \* seeded bug: >= for ==
  /\ Step("compare", IF Me.i >= total_quantoms THEN "act" ELSE "catch_up", Me.i)
  /\ UNCHANGED vars

Compare ==
  /\ Step("compare", IF Me.i = total_quantoms THEN "act" ELSE "catch_up", Me.i)
  /\ UNCHANGED vars

-----------------------------------------------------------------------------
At(code, i) == Me.code = code /\ Me.at = "act" /\ Me.i = i

SpawnDemo_NoFunction(code) ==    \* seeded bug: a thread without a function
  /\ uthread_spawn
  /\ frame' = [frame EXCEPT ![running_thread_id].at = "catch_up"]
  /\ UNCHANGED hasty

SpawnDemo_NotCounted(code) ==    \* seeded bug: no i++
  /\ uthread_spawn
  /\ frame' = [t \in ActiveIds' |->
                 IF t \notin ActiveIds
                   THEN [code |-> code, i |-> 0, at |-> "start"]
                   ELSE IF t # running_thread_id THEN frame[t]
                   ELSE [Me EXCEPT !.at = "catch_up"]]
  /\ UNCHANGED hasty

\* The call succeeds and the new thread has the given function.
SpawnDemo(code) ==
  /\ uthread_spawn
  /\ frame' = [t \in ActiveIds' |->
                 IF t \notin ActiveIds
                   THEN [code |-> code, i |-> 0, at |-> "start"]
                   ELSE IF t # running_thread_id THEN frame[t]
                   ELSE [Me EXCEPT !.at = "catch_up", !.i = @ + 1]]
  /\ UNCHANGED hasty

\* A call that leaves the thread its CPU, or gives it back later, and i++.
Acted == Step("act", "catch_up", Me.i + 1)

MainSpawns ==
  \/ At("main", 3) /\ SpawnDemo("thread1")
  \/ At("main", 11) /\ SpawnDemo("thread2")
  \/ /\ At("main", 3) \/ At("main", 11)
     /\ SpawnOutOfMemory
     /\ UNCHANGED <<frame, hasty>>

\* uthread_block(2) fails, or has no effect, unless thread 2 is READY.
MainBlocks ==
  /\ At("main", 14)
  /\ Acted
  /\ IF 2 \in ActiveIds /\ is_ready(active_threads[2])
       THEN BlockOther(2)
       ELSE UNCHANGED vars

\* uthread_resume(2) fails, or has no effect, unless thread 2 is BLOCKED.
Thread1Resumes ==
  /\ At("thread1", 25)
  /\ Acted
  /\ IF 2 \in ActiveIds /\ is_blocked(active_threads[2])
       THEN uthread_resume(2)
       ELSE UNCHANGED vars

Thread1Sleeps ==
  /\ total_quantoms < LastQuantum
  /\ At("thread1", 17)
  /\ Acted
  /\ uthread_sleep(1)

\* In every other quantum a thread only reports.
Reports ==
  /\ Acted
  /\ <<Me.code, Me.i>> \notin {<<"main", 3>>, <<"main", 11>>, <<"main", 14>>,
                               <<"thread1", 17>>, <<"thread1", 25>>}
  /\ UNCHANGED vars

\* The quantum of main.cpp, 100 ms of CPU time, is long: a thread has looked at
\* the number of its quantum and acted on it long before the quantum ends.
Idle == Me.i > total_quantoms

QuantumOver ==
  /\ total_quantoms < LastQuantum
  /\ hasty \/ Idle
  /\ internal_time_handler
  /\ UNCHANGED <<frame, hasty>>

DemoEnds ==
  /\ total_quantoms = LastQuantum \/ process # "running"
  /\ UNCHANGED demoVars

DemoNext ==
  \/ Start \/ CatchUp \/ Compare
  \/ MainSpawns \/ MainBlocks
  \/ Thread1Resumes \/ Thread1Sleeps
  \/ Reports
  \/ QuantumOver
  \/ DemoEnds

DemoSpec == DemoInit /\ [][DemoNext]_demoVars

-----------------------------------------------------------------------------
\* Every frame belongs to a living thread and every thread to a frame.
DemoTypeOK == process = "running" => frame \in [ActiveIds -> Frame]

\* The timetable the threads' choice of quantums is made for, kept as long as
\* no quantum ends before its thread has acted in it.  Thread 2 gets
\* one quantum, the 13th, before main blocks it in the 14th.  The sleep that
\* thread 1 starts in the 17th keeps it off the CPU for two quantums: it is
\* woken as the 19th starts, behind main in the queue.  From the 20th on
\* thread 1 has the even quantums.
Timetable ==
  LET q == total_quantoms
  IN  process = "running" /\ ~ hasty => running_thread_id =
        CASE q <= 3 -> 0
          [] q = 13 -> 2
          [] q \in {18, 19} -> 0
          [] q \in (4 .. 12) \cup (20 .. MaxQuantums) -> 1 - (q % 2)
          [] OTHER -> q % 2

\* main.cpp:19: thread 1 resumes thread 2 in quantum 25.  It does not even if
\* no quantum ends before its thread has acted in it.
ResumedInQuantum25 ==
  process = "running" /\ ~ hasty /\ total_quantoms > 25 =>
    2 \in ActiveIds /\ ~ is_blocked(active_threads[2])

\* Wherever the timer interrupts the threads, each one-time call is made at
\* most once: thread1 and thread2 each exist at most once, so that uthread_spawn
\* never meets the limit, and whoever has the id 2 that main blocks and thread1
\* resumes is thread2.
ThreadsAreWhoTheyAre ==
  process = "running" =>
    /\ ActiveIds \subseteq 0 .. 2
    /\ \A t, u \in ActiveIds : frame[t].code = frame[u].code => t = u
    /\ 2 \in ActiveIds => frame[2].code = "thread2"

\* A thread that acts does so in the quantum it found, or in a later one if it
\* was interrupted in between, never in an earlier one, and no thread is more
\* than one quantum ahead of the clock.
NobodyRunsAhead ==
  \A t \in ActiveIds :
    /\ frame[t].i <= total_quantoms + 1
    /\ frame[t].at = "act" => frame[t].i <= total_quantoms

=============================================================================
