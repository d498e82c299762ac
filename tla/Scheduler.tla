----------------------------- MODULE Scheduler ------------------------------
(***************************************************************************)
(* The class Scheduler (scheduler.h, scheduler.cpp) behind the functions   *)
(* of uthreads.cpp: round-robin scheduling of user-level threads on one    *)
(* CPU.                                                                    *)
(*                                                                         *)
(* One action stands for one call of the library, or for one run of the    *)
(* SIGVTALRM handler, up to the point where a thread's own code runs       *)
(* again.  Taking a call as one step is what the code intends by blocking  *)
(* SIGVTALRM for its whole length.  Every call is made by the RUNNING      *)
(* thread.  A call that only reports an error, or only reads, leaves every *)
(* variable as it is and is a stuttering step here.                        *)
(*                                                                         *)
(* The code keeps pointers to Thread objects in the ready queue and in the *)
(* set of sleepers; a pointer is represented by the thread's id, and the   *)
(* invariants below show that neither ever holds a deleted thread.         *)
(***************************************************************************)
EXTENDS Thread, FiniteSetsExt, SequencesExt

CONSTANTS
  MAX_THREAD_NUM,     \* limit on the number of threads alive at once
  SleepArguments      \* the values passed to uthread_sleep

ASSUME SchedulerAssumption ==
  /\ MAX_THREAD_NUM \in Nat \ {0}
  /\ SleepArguments \subseteq Int

VARIABLES
  process,            \* "running", or how the process ended
  active_threads,     \* thread id -> Thread, for the threads alive
  ready_queue,        \* ids of the READY threads, next to run first
  sleeping_threads,   \* ids of the sleeping threads
  running_thread_id,
  total_quantoms,     \* quantums started since uthread_init
  unused_threads_id,  \* ids given back by terminated threads
  largest_thread_id   \* largest id handed out so far

dispatchVars == <<process, active_threads, ready_queue, sleeping_threads,
                  running_thread_id, total_quantoms>>
idVars == <<unused_threads_id, largest_thread_id>>
vars == <<dispatchVars, idVars>>

MAIN_THREAD_ID == 0

\* exit(0) or exit(1), the failure of an assert, or neither of them yet.
ProcessState == {"running", "exited", "failed", "aborted"}

ActiveIds == DOMAIN active_threads

PossibleIds == 0 .. MAX_THREAD_NUM - 1

\* uthread_init: the constructor turns the caller into the main thread, which
\* takes id 0 from the heap and starts the first quantum.
Init ==
  /\ process = "running"
  /\ active_threads = [t \in {MAIN_THREAD_ID} |-> set_running(NewThread)]
  /\ ready_queue = <<>>
  /\ sleeping_threads = {}
  /\ running_thread_id = MAIN_THREAD_ID
  /\ total_quantoms = Increment(0)
  /\ unused_threads_id = {}
  /\ largest_thread_id = MAIN_THREAD_ID

-----------------------------------------------------------------------------
(***************************************************************************)
(* Starting a quantum.  The parameters are the structures as the caller    *)
(* leaves them when it calls run_topmost_thread_in_ready_queue.            *)
(***************************************************************************)

\* Every sleeper is updated once, whatever the order of the loop.
SleepersUpdated(threads, sleeping) ==
  [t \in DOMAIN threads |->
     IF t \in sleeping THEN update_sleep_value(threads[t]) ELSE threads[t]]

\* A failed assert ends the process; what it leaves in memory is lost.
Abort ==
  /\ process' = "aborted"
  /\ UNCHANGED <<active_threads, ready_queue, sleeping_threads,
                 running_thread_id, total_quantoms>>

\* The front of the queue runs.  With nobody to run the function fails, and
\* its caller goes on.
RunFront(threads, queue, sleeping) ==
  /\ total_quantoms' = Increment(total_quantoms)
  /\ sleeping_threads' = sleeping
  /\ UNCHANGED process
  /\ IF queue = <<>>
       THEN /\ active_threads' = threads
            /\ ready_queue' = queue
            /\ UNCHANGED running_thread_id
       ELSE /\ active_threads' = [threads EXCEPT ![Head(queue)] = set_running(@)]
            /\ ready_queue' = Tail(queue)
            /\ running_thread_id' = Head(queue)

PushWoken_Front(queue, order) == order \o queue    \* seeded bug: push_front

\* push_back of each thread that woke, in the order they were met.
PushWoken(queue, order) == queue \o order

\* The sleepers whose time is over join the queue in the order in which the
\* unordered set yields them, that is, in any order.
run_topmost_thread_in_ready_queue(threads, queue, sleeping) ==
  LET updated == SleepersUpdated(threads, sleeping)
      awake   == {t \in sleeping : ~ is_sleeping(updated[t])}
      joining == {t \in awake : is_ready(updated[t])}
  IN  \E order \in Bijection(1 .. Cardinality(joining), joining) :
        LET longer == PushWoken(queue, order)
        IN  IF /\ \A t \in sleeping : MayUpdateSleepValue(threads[t])
               /\ longer # <<>> => is_ready(updated[Head(longer)])
              THEN RunFront(updated, longer, sleeping \ awake)
              ELSE Abort

-----------------------------------------------------------------------------
(***************************************************************************)
(* Thread ids: a heap of returned ids and the largest one handed out.      *)
(***************************************************************************)
\* seeded bug: a max-heap, the default order of std::priority_queue
generate_thread_id_MaxHeap ==
  IF unused_threads_id # {}
    THEN Max(unused_threads_id)
    ELSE largest_thread_id + 1

generate_thread_id ==
  IF unused_threads_id # {}
    THEN Min(unused_threads_id)
    ELSE largest_thread_id + 1

\* seeded bug: top() without pop()
TakeThreadId_KeepsTop ==
  IF unused_threads_id # {}
    THEN UNCHANGED idVars
    ELSE /\ largest_thread_id' = generate_thread_id
         /\ UNCHANGED unused_threads_id

\* What generate_thread_id leaves behind once it has handed out its id.
TakeThreadId ==
  IF unused_threads_id # {}
    THEN /\ unused_threads_id' = unused_threads_id \ {generate_thread_id}
         /\ UNCHANGED largest_thread_id
    ELSE /\ largest_thread_id' = generate_thread_id
         /\ UNCHANGED unused_threads_id

HasRoom_OffByOne ==    \* seeded bug: > for >=
  Cardinality(ActiveIds) <= MAX_THREAD_NUM

HasRoom == Cardinality(ActiveIds) < MAX_THREAD_NUM

-----------------------------------------------------------------------------
(***************************************************************************)
(* The calls of the RUNNING thread.                                        *)
(***************************************************************************)
Without(threads, tid) == [t \in DOMAIN threads \ {tid} |-> threads[t]]

\* exit() runs the destructor of the scheduler, which deletes every thread.
Exit(how) ==
  /\ process' = how
  /\ active_threads' = [t \in {} |-> NewThread]
  /\ UNCHANGED <<ready_queue, sleeping_threads, running_thread_id,
                 total_quantoms>>

uthread_spawn ==
  /\ process = "running"
  /\ HasRoom
  /\ LET tid == generate_thread_id
     IN  /\ active_threads' = [t \in ActiveIds \cup {tid} |->
                                 IF t = tid THEN NewThread ELSE active_threads[t]]
         /\ ready_queue' = Append(ready_queue, tid)
  /\ TakeThreadId
  /\ UNCHANGED <<process, sleeping_threads, running_thread_id, total_quantoms>>

\* The allocation of the control block fails: the process ends with exit(1).
SpawnOutOfMemory ==
  /\ process = "running"
  /\ HasRoom
  /\ TakeThreadId
  /\ Exit("failed")

TerminateMain ==
  /\ process = "running"
  /\ Exit("exited")
  /\ UNCHANGED idVars

\* terminate_thread on the caller: its control block is deleted and the next
\* thread runs.
TerminateSelf(tid) ==
  /\ process = "running"
  /\ tid \in ActiveIds \ {MAIN_THREAD_ID}
  /\ is_running(active_threads[tid])
  /\ unused_threads_id' = unused_threads_id \cup {tid}
  /\ UNCHANGED largest_thread_id
  /\ run_topmost_thread_in_ready_queue(
       Without(active_threads, tid), ready_queue, sleeping_threads)

\* terminate_thread on another thread.
TerminateOther(tid) ==
  /\ process = "running"
  /\ tid \in ActiveIds \ {MAIN_THREAD_ID}
  /\ LET th == active_threads[tid]
     IN  /\ ~ is_running(th)
         /\ sleeping_threads' =
              IF is_sleeping(th) THEN sleeping_threads \ {tid} ELSE sleeping_threads
         /\ ready_queue' =
              IF is_ready(th) THEN RemoveFirst(ready_queue, tid) ELSE ready_queue
  /\ active_threads' = Without(active_threads, tid)
  /\ unused_threads_id' = unused_threads_id \cup {tid}
  /\ UNCHANGED <<process, running_thread_id, total_quantoms, largest_thread_id>>

\* block_thread on the caller.
BlockSelf(tid) ==
  /\ process = "running"
  /\ tid \in ActiveIds \ {MAIN_THREAD_ID}
  /\ is_running(active_threads[tid])
  /\ IF running_thread_id = tid
       THEN run_topmost_thread_in_ready_queue(
              [active_threads EXCEPT ![tid] = set_block(@)],
              ready_queue, sleeping_threads)
       ELSE Abort
  /\ UNCHANGED idVars

\* block_thread on a READY thread.  A thread that sleeps, or is blocked
\* already, is left as it is and the call still succeeds.
BlockOther(tid) ==
  /\ process = "running"
  /\ tid \in ActiveIds \ {MAIN_THREAD_ID}
  /\ is_ready(active_threads[tid])
  /\ Contains(ready_queue, tid)
  /\ ready_queue' = RemoveFirst(ready_queue, tid)
  /\ active_threads' = [active_threads EXCEPT ![tid] = set_block(@)]
  /\ UNCHANGED <<process, sleeping_threads, running_thread_id, total_quantoms,
                 idVars>>

uthread_resume(tid) ==
  /\ process = "running"
  /\ tid \in ActiveIds
  /\ is_blocked(active_threads[tid])
  /\ LET resumed == unblock(active_threads[tid])
     IN  /\ active_threads' = [active_threads EXCEPT ![tid] = resumed]
         /\ ready_queue' =
              IF is_ready(resumed) THEN Append(ready_queue, tid) ELSE ready_queue
  /\ UNCHANGED <<process, sleeping_threads, running_thread_id, total_quantoms,
                 idVars>>

\* Only a thread other than the main thread may sleep.
uthread_sleep(num_quantums) ==
  /\ process = "running"
  /\ running_thread_id # MAIN_THREAD_ID
  /\ run_topmost_thread_in_ready_queue(
       [active_threads EXCEPT ![running_thread_id] = set_sleep(@, num_quantums)],
       ready_queue,
       sleeping_threads \cup {running_thread_id})
  /\ UNCHANGED idVars

\* seeded bug: push_front for push_back
internal_time_handler_PushFront ==
  /\ process = "running"
  /\ run_topmost_thread_in_ready_queue(
       [active_threads EXCEPT ![running_thread_id] = set_ready(@)],
       <<running_thread_id>> \o ready_queue,
       sleeping_threads)
  /\ UNCHANGED idVars

\* The quantum is over: SIGVTALRM runs the handler on the running thread.
internal_time_handler ==
  /\ process = "running"
  /\ run_topmost_thread_in_ready_queue(
       [active_threads EXCEPT ![running_thread_id] = set_ready(@)],
       Append(ready_queue, running_thread_id),
       sleeping_threads)
  /\ UNCHANGED idVars

\* A process that has ended does nothing more.
Ended ==
  /\ process # "running"
  /\ UNCHANGED vars

-----------------------------------------------------------------------------
Next ==
  \/ uthread_spawn
  \/ SpawnOutOfMemory
  \/ TerminateMain
  \/ \E tid \in ActiveIds :
       \/ TerminateSelf(tid)
       \/ TerminateOther(tid)
       \/ BlockSelf(tid)
       \/ BlockOther(tid)
       \/ uthread_resume(tid)
  \/ \E num_quantums \in SleepArguments : uthread_sleep(num_quantums)
  \/ internal_time_handler
  \/ Ended

Spec == Init /\ [][Next]_vars

\* The RUNNING thread loses the CPU, by a call of its own or to the timer.
QuantumEnds ==
  \/ \E tid \in ActiveIds : TerminateSelf(tid) \/ BlockSelf(tid)
  \/ \E num_quantums \in SleepArguments : uthread_sleep(num_quantums)
  \/ internal_time_handler

\* The timer is re-armed at the start of every quantum and counts down while
\* its thread runs, so a thread that does not give up the CPU is preempted.
LiveSpec == Spec /\ WF_vars(QuantumEnds)

-----------------------------------------------------------------------------
(***************************************************************************)
(* Properties.                                                             *)
(***************************************************************************)

\* The C++ types: the containers hold ids, the map holds control blocks.
Types ==
  /\ process \in ProcessState
  /\ ActiveIds \subseteq Nat
  /\ IsFiniteSet(ActiveIds)
  /\ active_threads \in [ActiveIds -> Thread]
  /\ ready_queue \in Seq(Nat)
  /\ sleeping_threads \subseteq Nat
  /\ running_thread_id \in Nat
  /\ total_quantoms \in Counter
  /\ unused_threads_id \subseteq Nat
  /\ IsFiniteSet(unused_threads_id)
  /\ largest_thread_id \in Nat

\* No id anywhere is beyond what the limit on threads allows.
IdsWithinLimit ==
  ActiveIds \cup ToSet(ready_queue) \cup sleeping_threads
    \cup unused_threads_id \cup {running_thread_id, largest_thread_id}
    \subseteq PossibleIds

\* Every variable keeps to its type and to the limit on threads, whatever was
\* spawned and terminated, also in what a process that has ended leaves behind.
TypeOK == Types /\ IdsWithinLimit

\* The CPU belongs to exactly one thread, the one running_thread_id names,
\* and that thread is alive: the handler and the calls look it up unchecked.
OneRunning ==
  /\ running_thread_id \in ActiveIds
  /\ \A t \in ActiveIds : is_running(active_threads[t]) <=> t = running_thread_id

\* The ready queue holds every READY thread once and nothing else: no READY
\* thread is forgotten, none is queued twice, no deleted thread is queued.
ReadyQueueExact ==
  /\ IsInjective(ready_queue)
  /\ ToSet(ready_queue) = {t \in ActiveIds : is_ready(active_threads[t])}

\* The set of sleepers is exactly the set of threads that sleep, each with a
\* counter that update_sleep_value accepts.
SleepersExact ==
  /\ sleeping_threads = {t \in ActiveIds : is_sleeping(active_threads[t])}
  /\ \A t \in sleeping_threads : MayUpdateSleepValue(active_threads[t])

\* The main thread is alive and always RUNNING or READY.  With the exact
\* queue it follows that whoever gives up the CPU finds somebody to run.
MainIsSchedulable ==
  /\ MAIN_THREAD_ID \in ActiveIds
  /\ \/ is_running(active_threads[MAIN_THREAD_ID])
     \/ is_ready(active_threads[MAIN_THREAD_ID])

\* Every id up to the largest is either in use or waiting in the heap, never
\* both and never lost, and ids stay below the limit on threads.
IdsAccountedFor ==
  /\ ActiveIds \cup unused_threads_id = 0 .. largest_thread_id
  /\ ActiveIds \cap unused_threads_id = {}
  /\ largest_thread_id < MAX_THREAD_NUM

\* While the process lives the structures of the scheduler agree.
Consistent ==
  process = "running" =>
    /\ OneRunning
    /\ ReadyQueueExact
    /\ SleepersExact
    /\ MainIsSchedulable
    /\ IdsAccountedFor

\* No assert of the library ever fails.
NoAssertionFails == process # "aborted"

Position(queue, t) == CHOOSE i \in DOMAIN queue : queue[i] = t
Ahead(queue, t) == {queue[i] : i \in 1 .. Position(queue, t) - 1}

\* The count of quantums is all that tells; CounterModulus has to be at least 2.
NewQuantum == total_quantoms' # total_quantoms

\* In no step of a behaviour does a queued thread fall back or get overtaken.
QueueMovesUp ==
  LET kept == ToSet(ready_queue) \cap ToSet(ready_queue')
      before(t) == Position(ready_queue, t)
      after(t)  == Position(ready_queue', t)
  IN  /\ \A t \in kept : after(t) <= before(t) - (IF NewQuantum THEN 1 ELSE 0)
      /\ \A t \in kept : Ahead(ready_queue', t) \subseteq Ahead(ready_queue, t)
      /\ NewQuantum /\ ready_queue # <<>> =>
           running_thread_id' = Head(ready_queue)

\* Round robin: in no step does a queued thread fall back or get overtaken, by
\* another queued one or by one that joins the queue, and with every new
\* quantum the front of the queue runs while everybody behind it moves up.
RoundRobin == [][process = "running" => QueueMovesUp]_vars

\* uthread_spawn hands out the smallest free id and uthread_terminate gives it
\* back at once: heap and counter together implement SmallestFreeId.
Ids == INSTANCE SmallestFreeId WITH used <- ActiveIds, Limit <- MAX_THREAD_NUM
IdsAreSmallestFree == Ids!Spec

\* Every thread lives by ThreadLifecycle: it is only ever RUNNING, READY,
\* BLOCKED or SLEEPING, a woken or resumed thread waits for its turn, and the
\* CPU is handed on whenever somebody waits for it.
Life ==
  [t \in 0 .. MAX_THREAD_NUM - 1 |->
     IF t \in ActiveIds THEN active_threads[t].state ELSE "GONE"]
Lives == INSTANCE ThreadLifecycle WITH life <- Life, Limit <- MAX_THREAD_NUM
LivesFollowLifecycle == Lives!Spec

\* No starvation: a READY thread runs, unless it is blocked or terminated
\* while it waits or the process ends.
ReadyThreadsRun ==
  \A t \in PossibleIds :
    t \in ToSet(ready_queue) ~>
      t \notin ToSet(ready_queue) \/ process # "running"

\* Every sleep ends, whatever the other threads do.
SleepersWake ==
  \A t \in PossibleIds :
    t \in sleeping_threads ~> t \notin sleeping_threads \/ process # "running"

\* The main thread can be neither blocked nor put to sleep, so the library
\* gives it the CPU again and again.
MainRunsAgain ==
  []<>(running_thread_id = MAIN_THREAD_ID \/ process # "running")

=============================================================================
