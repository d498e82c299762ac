----------------------------- MODULE DemoProofs ------------------------------
(***************************************************************************)
(* Proofs about main.cpp, for every number of quantums and wherever the    *)
(* timer interrupts its threads: who the threads are, and that none of     *)
(* them runs ahead of the clock.                                           *)
(*                                                                         *)
(* A step of the program is one of Scheduler or leaves it alone, so that   *)
(* the structures of the scheduler agree here too.  What the program does  *)
(* is then told by two kinds of steps: those that leave the set of threads *)
(* as it is and move one frame on, and the two calls of uthread_spawn.     *)
(*                                                                         *)
(* The second part follows the threads through the quantums of a run in    *)
(* which each acts before its quantum ends: OnPlan says who runs, who waits*)
(* and who sleeps in which of them.                                        *)
(***************************************************************************)
EXTENDS SchedulingProofs, DemoClient

\* The main thread has passed quantum q and does not meet it again.
MainIsPast(q) == frame[MAIN_THREAD_ID].i > q

\* The threads beside the main thread, each spawned in a quantum of main's that
\* is over: thread1 in the 3rd, if at all, thread2 in the 11th.
SpawnedOnce ==
  \A t \in ActiveIds \ {MAIN_THREAD_ID} :
    \/ t = 1 /\ frame[t].code = "thread1" /\ MainIsPast(3)
    \/ t \in {1, 2} /\ frame[t].code = "thread2" /\ MainIsPast(11)

\* ThreadsAreWhoTheyAre, and why it stays so: no thread terminates, so that no
\* id comes back, and main's i, which never falls, remembers whom it spawned.
WhoTheyAre ==
  process = "running" =>
    /\ unused_threads_id = {}
    /\ frame[MAIN_THREAD_ID].code = "main"
    /\ frame[MAIN_THREAD_ID].at # "start"
    /\ SpawnedOnce
    /\ \A t, u \in ActiveIds : frame[t].code = frame[u].code => t = u

\* The clock of the run does not overflow, so that a thread behind it stays
\* behind it.
ClockIsInRange == total_quantoms <= MaxQuantums

DemoInv == DemoTypeOK /\ NobodyRunsAhead /\ ClockIsInRange /\ WhoTheyAre

Places == {"start", "catch_up", "compare", "act"}

-----------------------------------------------------------------------------
\* A step of the program is a step of the scheduler, or leaves it alone.
LEMMA DemoStepIsStep == [DemoNext]_demoVars => [Next]_vars
<1> SUFFICES ASSUME [DemoNext]_demoVars PROVE [Next]_vars
  OBVIOUS
<1>1. CASE Thread1Sleeps
  BY <1>1, DemoAssumption DEF Thread1Sleeps, Next
<1>2. CASE MainBlocks \/ Thread1Resumes
  BY <1>2 DEF MainBlocks, Thread1Resumes, Next
<1>3. CASE MainSpawns
  BY <1>3 DEF MainSpawns, SpawnDemo, Next
<1>4. CASE QuantumOver
  BY <1>4 DEF QuantumOver, Next
<1>5. CASE Start \/ CatchUp \/ Compare \/ Reports \/ DemoEnds \/ UNCHANGED demoVars
  BY <1>5 DEF Start, CatchUp, Compare, Reports, DemoEnds, demoVars
<1> QED BY <1>1, <1>2, <1>3, <1>4, <1>5 DEF DemoNext

LEMMA DemoFacts ==
  ASSUME IInv, DemoInv, process = "running"
  PROVE  /\ frame \in [ActiveIds -> Frame]
         /\ ActiveIds = 0 .. largest_thread_id /\ largest_thread_id \in Nat
         /\ running_thread_id \in ActiveIds
         /\ MAIN_THREAD_ID \in ActiveIds
         /\ total_quantoms \in Nat
<1>1. /\ ActiveIds \cup unused_threads_id = 0 .. largest_thread_id
      /\ largest_thread_id \in Nat
      /\ running_thread_id \in ActiveIds
      /\ MAIN_THREAD_ID \in ActiveIds
      /\ total_quantoms \in Counter
  BY DEF IInv, Types, Consistent, OneRunning, MainIsSchedulable, IdsAccountedFor
<1>2. Counter \subseteq Nat
  BY CounterModulusIsPositive DEF Counter
<1> QED BY <1>1, <1>2 DEF DemoInv, DemoTypeOK, WhoTheyAre

\* A frame moved on in its loop.
Moved(at, i) == [Me EXCEPT !.at = at, !.i = i]

\* What a step may make of the running thread's frame.
MayMove(at, i) ==
  /\ at \in Places \ {"start"} /\ i \in Int
  /\ i <= total_quantoms + 1
  /\ at = "act" => i <= total_quantoms
  /\ running_thread_id = MAIN_THREAD_ID => i >= Me.i

\* The frame of a thread that goes on in its loop.
LEMMA StepMoves ==
  ASSUME IInv, DemoInv, NEW from, NEW to \in Places, NEW n \in Int,
         Step(from, to, n)
  PROVE  /\ process = "running" /\ Me.at = from /\ Me.i \in Int
         /\ frame' = [frame EXCEPT ![running_thread_id] = Moved(to, n)]
         /\ UNCHANGED hasty
<1>1. process = "running"
  BY DEF Step
<1>2. frame \in [ActiveIds -> Frame] /\ running_thread_id \in ActiveIds
  BY <1>1, DemoFacts
<1> QED BY <1>1, <1>2 DEF Step, Me, Moved, Frame

\* The calls other than uthread_spawn: the threads stay who they are.
LEMMA ThreadsStay ==
  ASSUME IInv, DemoInv, process = "running",
         ActiveIds' = ActiveIds, UNCHANGED unused_threads_id,
         total_quantoms' \in {total_quantoms, total_quantoms + 1},
         total_quantoms' <= MaxQuantums,
         \/ UNCHANGED frame
         \/ \E at, i : /\ MayMove(at, i)
                       /\ frame' = [frame EXCEPT ![running_thread_id] = Moved(at, i)]
  PROVE  DemoInv'
<1> DEFINE r == running_thread_id
<1>1. /\ frame \in [ActiveIds -> Frame]
      /\ r \in ActiveIds /\ MAIN_THREAD_ID \in ActiveIds
      /\ total_quantoms \in Nat
  BY DemoFacts
<1> DEFINE kept ==
             /\ frame' \in [ActiveIds -> Frame]
             /\ \A t \in ActiveIds : /\ frame'[t].code = frame[t].code
                                     /\ frame'[t].i <= total_quantoms + 1
                                     /\ frame'[t].at = "act" => frame'[t].i <= total_quantoms
                                     /\ frame'[t].at = "start" => frame[t].at = "start"
             /\ frame'[MAIN_THREAD_ID].i >= frame[MAIN_THREAD_ID].i
<1>2. kept
  <2>1. CASE UNCHANGED frame
    BY <1>1, <2>1 DEF DemoInv, NobodyRunsAhead, Frame
  <2>2. ASSUME NEW at, NEW i, MayMove(at, i),
               frame' = [frame EXCEPT ![r] = Moved(at, i)]
        PROVE  kept
    <3>1. /\ Moved(at, i) \in Frame
          /\ Moved(at, i).code = frame[r].code
          /\ Moved(at, i).at = at /\ Moved(at, i).i = i
      BY <1>1, <2>2 DEF MayMove, Moved, Me, Frame, Places
    <3>2. \A t \in ActiveIds :
            frame'[t] = IF t = r THEN Moved(at, i) ELSE frame[t]
      BY <1>1, <2>2
    <3> QED
      BY <1>1, <2>2, <3>1, <3>2
      DEF MayMove, Me, DemoInv, NobodyRunsAhead, Frame
  <2> QED BY <2>1, <2>2
<1>3. \A t \in ActiveIds : frame'[t].i \in Int /\ frame[t].i \in Int
  BY <1>1, <1>2 DEF Frame
<1>4. DemoTypeOK'
  BY <1>2 DEF DemoTypeOK
<1>5. NobodyRunsAhead'
  BY <1>1, <1>2, <1>3 DEF NobodyRunsAhead
<1>6. WhoTheyAre'
  <2>1. \A q \in Int : MainIsPast(q) => MainIsPast(q)'
    BY <1>1, <1>2, <1>3 DEF MainIsPast, MAIN_THREAD_ID
  <2> QED BY <1>1, <1>2, <2>1 DEF DemoInv, WhoTheyAre, SpawnedOnce, MAIN_THREAD_ID
<1> QED BY <1>4, <1>5, <1>6 DEF DemoInv, ClockIsInRange

\* A call that ends the quantum: the clock goes on, and the threads stay.
LEMMA QuantumStays ==
  ASSUME IInv, DemoInv, process = "running", total_quantoms < LastQuantum,
         NEW threads, NEW queue, NEW sleeping,
         HandsOver(threads, queue, sleeping), DOMAIN threads = ActiveIds
  PROVE  /\ ActiveIds' = ActiveIds
         /\ total_quantoms' \in {total_quantoms, total_quantoms + 1}
         /\ total_quantoms' <= MaxQuantums
<1>1. /\ total_quantoms \in Nat /\ total_quantoms < MaxQuantums
      /\ MaxQuantums \in Nat /\ MaxQuantums < CounterModulus
      /\ CounterModulus \in Nat
  BY DemoFacts, DemoAssumption, CounterModulusIsPositive DEF LastQuantum
<1>2. Increment(total_quantoms) = total_quantoms + 1
  BY <1>1 DEF Increment
<1>3. CASE Abort
  BY <1>1, <1>3 DEF Abort, ActiveIds
<1>4. CASE QuantumStarted(threads, sleeping)
  BY <1>1, <1>2, <1>4 DEF QuantumStarted, ActiveIds
<1> QED BY <1>3, <1>4, QuantumStarts

-----------------------------------------------------------------------------
\* uthread_spawn: the new thread gets the id after the largest, and main is
\* past the quantum in which it spawned it.
LEMMA SpawnKeepsDemo ==
  ASSUME IInv, DemoInv,
         NEW q \in {3, 11}, NEW code, code = (IF q = 3 THEN "thread1" ELSE "thread2"),
         At("main", q), SpawnDemo(code)
  PROVE  DemoInv'
<1> DEFINE r == running_thread_id
           new == generate_thread_id
           n == largest_thread_id
           i(t) == frame[t].i
<1>1. process = "running" /\ uthread_spawn
  BY DEF SpawnDemo, uthread_spawn
<1>2. /\ frame \in [ActiveIds -> Frame]
      /\ ActiveIds = 0 .. n /\ n \in Nat
      /\ r \in ActiveIds
      /\ total_quantoms \in Nat
      /\ unused_threads_id = {}
  BY <1>1, DemoFacts DEF DemoInv, WhoTheyAre
<1>3. /\ new = n + 1
      /\ ActiveIds' = ActiveIds \cup {new}
      /\ UNCHANGED <<total_quantoms, unused_threads_id>>
      /\ new \notin ActiveIds
  BY <1>1, <1>2 DEF uthread_spawn, generate_thread_id, TakeThreadId, ActiveIds
\* Only main is at work here, as nobody else has its code.
<1>4. /\ r = MAIN_THREAD_ID
      /\ i(r) = q /\ frame[r].at = "act" /\ frame[r].code = "main"
      /\ q <= total_quantoms
  <2>1. frame[r].code = "main" /\ frame[MAIN_THREAD_ID].code = "main"
    BY <1>1 DEF At, Me, DemoInv, WhoTheyAre
  <2>2. MAIN_THREAD_ID \in ActiveIds
    BY <1>1, DemoFacts
  <2> QED BY <1>1, <1>2, <2>1, <2>2
          DEF At, Me, DemoInv, WhoTheyAre, NobodyRunsAhead
<1>5. /\ frame' = [t \in ActiveIds \cup {new} |->
                     IF t \notin ActiveIds
                       THEN [code |-> code, i |-> 0, at |-> "start"]
                       ELSE IF t # r THEN frame[t] ELSE Moved("catch_up", q + 1)]
      /\ Moved("catch_up", q + 1) = [code |-> "main", i |-> q + 1, at |-> "catch_up"]
  <2>1. frame[r] = [code |-> "main", i |-> q, at |-> "act"]
    BY <1>2, <1>4 DEF Frame
  <2>2. /\ Moved("catch_up", q + 1) = [code |-> "main", i |-> q + 1, at |-> "catch_up"]
        /\ [Me EXCEPT !.at = "catch_up", !.i = @ + 1] = Moved("catch_up", q + 1)
    <3>1. ASSUME NEW c
          PROVE  Moved("catch_up", c) = [code |-> "main", i |-> c, at |-> "catch_up"]
      <4>1. Me \in [code : {"main"}, i : {q}, at : {"act"}]
        BY <2>1 DEF Me
      <4>2. Moved("catch_up", c) \in [code : {"main"}, i : {c}, at : {"catch_up"}]
        BY <4>1 DEF Moved
      <4>3. ASSUME NEW x \in [code : {"main"}, i : {c}, at : {"catch_up"}]
            PROVE  x = [code |-> "main", i |-> c, at |-> "catch_up"]
        OBVIOUS
      <4> QED BY <4>2, <4>3
    <3>2. Me.i + 1 = q + 1
      BY <2>1 DEF Me
    <3>3. [Me EXCEPT !.at = "catch_up", !.i = @ + 1] = Moved("catch_up", Me.i + 1)
      BY Zenon DEF Moved
    <3> QED BY <3>1, <3>2, <3>3
  <2> HIDE DEF new
  <2> QED BY <1>3, <2>2 DEF SpawnDemo
<1> HIDE DEF new, n
<1>6. /\ frame'[new] = [code |-> code, i |-> 0, at |-> "start"]
      /\ frame'[r] = [code |-> "main", i |-> q + 1, at |-> "catch_up"]
      /\ \A t \in ActiveIds \ {r} : frame'[t] = frame[t]
  BY <1>2, <1>3, <1>5
<1>7. frame' \in [ActiveIds' -> Frame]
  BY <1>2, <1>3, <1>5, <1>6 DEF Frame, Code
<1>8. NobodyRunsAhead'
  BY <1>2, <1>3, <1>4, <1>6 DEF NobodyRunsAhead, DemoInv
\* Whom main spawned before: nobody by the 3rd quantum, at most thread1 by the
\* 11th.
<1>9. /\ \A t \in ActiveIds \ {r} : t = 1 /\ frame[t].code = "thread1" /\ q = 11
      /\ new \in {1, 2}
  <2>1. ASSUME NEW t \in ActiveIds \ {r}
        PROVE  t = 1 /\ frame[t].code = "thread1" /\ q = 11
    BY <1>1, <1>4 DEF DemoInv, WhoTheyAre, SpawnedOnce, MainIsPast
  <2>2. n <= 1
    <3> SUFFICES ASSUME n >= 2 PROVE FALSE
      BY <1>2
    <3>1. 2 \in ActiveIds /\ r = 0
      BY <1>2, <1>4 DEF MAIN_THREAD_ID
    <3> QED BY <2>1, <3>1
  <2> QED BY <1>2, <1>3, <2>1, <2>2
<1>10. q = 3 => new = 1
  <2> SUFFICES ASSUME q = 3, new = 2 PROVE FALSE
    BY <1>9
  <2>1. 1 \in ActiveIds /\ r = 0
    BY <1>2, <1>3, <1>4 DEF MAIN_THREAD_ID
  <2> QED BY <1>9, <2>1
<1>11. SpawnedOnce'
  <2>1. MainIsPast(q)' /\ (q = 11 => MainIsPast(3)')
    BY <1>4, <1>6 DEF MainIsPast
  <2>2. ASSUME NEW t \in ActiveIds', t # MAIN_THREAD_ID
        PROVE  \/ t = 1 /\ frame'[t].code = "thread1" /\ MainIsPast(3)'
               \/ t \in {1, 2} /\ frame'[t].code = "thread2" /\ MainIsPast(11)'
    <3>1. CASE t = new
      BY <1>6, <1>9, <1>10, <2>1, <3>1
    <3>2. CASE t \in ActiveIds \ {r}
      BY <1>6, <1>9, <2>1, <3>2
    <3> QED BY <1>3, <1>4, <2>2, <3>1, <3>2
  <2> QED BY <2>2 DEF SpawnedOnce, MAIN_THREAD_ID
<1>12. ASSUME NEW t \in ActiveIds', NEW u \in ActiveIds',
              frame'[t].code = frame'[u].code
       PROVE  t = u
  BY <1>3, <1>6, <1>9, <1>12
<1>13. WhoTheyAre'
  BY <1>2, <1>3, <1>4, <1>6, <1>11, <1>12 DEF WhoTheyAre, MAIN_THREAD_ID
<1> QED BY <1>3, <1>7, <1>8, <1>13 DEF DemoInv, DemoTypeOK, ClockIsInRange

LEMMA DemoStepInv == IInv /\ DemoInv /\ [DemoNext]_demoVars => DemoInv'
<1> SUFFICES ASSUME IInv, DemoInv, [DemoNext]_demoVars PROVE DemoInv'
  OBVIOUS
<1> DEFINE r == running_thread_id
<1>1. ASSUME process = "running"
      PROVE  /\ frame \in [ActiveIds -> Frame] /\ r \in ActiveIds
             /\ MAIN_THREAD_ID \in ActiveIds
             /\ total_quantoms \in Nat /\ total_quantoms <= MaxQuantums
             /\ Me \in Frame /\ Me.i \in Int /\ Me.i <= total_quantoms + 1
             /\ Me.at = "act" => Me.i <= total_quantoms
             /\ Me.at = "start" => r # MAIN_THREAD_ID
  <2>1. /\ frame \in [ActiveIds -> Frame] /\ r \in ActiveIds
        /\ MAIN_THREAD_ID \in ActiveIds /\ total_quantoms \in Nat
    BY <1>1, DemoFacts
  <2> QED
    BY <1>1, <2>1
    DEF DemoInv, NobodyRunsAhead, ClockIsInRange, WhoTheyAre, Me, Frame
\* The places of the loop where the library is only read.
<1>2. CASE Start
  <2>1. total_quantoms \in Int /\ Step("start", "catch_up", total_quantoms)
    BY <1>1, <1>2 DEF Start, Step
  <2>2. "catch_up" \in Places \ {"start"}
    BY DEF Places
  <2>3. process = "running" /\ Me.at = "start"
    BY <2>1, <2>2, StepMoves
  <2>4. MayMove("catch_up", total_quantoms)
    BY <1>1, <2>1, <2>2, <2>3 DEF MayMove
  <2> QED BY <1>1, <1>2, <2>1, <2>4, StepMoves, ThreadsStay
          DEF Start, vars, dispatchVars, idVars, Places, ActiveIds
<1>3. CASE CatchUp
  <2> DEFINE n == Max({Me.i, total_quantoms})
  <2>1. Step("catch_up", "compare", n) /\ process = "running"
    BY <1>3 DEF CatchUp, Step
  <2>2. n \in Int /\ n >= Me.i /\ n <= total_quantoms + 1
    BY <1>1, <2>1 DEF Max
  <2> HIDE DEF n
  <2>3. MayMove("compare", n)
    BY <2>2 DEF MayMove, Places
  <2> QED BY <1>1, <1>3, <2>1, <2>2, <2>3, StepMoves, ThreadsStay
          DEF CatchUp, vars, dispatchVars, idVars, Places, ActiveIds
<1>4. CASE Compare
  <2> DEFINE to == IF Me.i = total_quantoms THEN "act" ELSE "catch_up"
  <2>1. Step("compare", to, Me.i) /\ process = "running"
    BY <1>4 DEF Compare, Step
  <2>2. to \in Places
    BY DEF Places
  <2>3. MayMove(to, Me.i)
    BY <1>1, <2>1 DEF MayMove, Places
  <2> HIDE DEF to
  <2> QED BY <1>1, <1>4, <2>1, <2>2, <2>3, StepMoves, ThreadsStay
          DEF Compare, vars, dispatchVars, idVars, ActiveIds
\* The calls and reports made in a quantum.
<1>5. ASSUME Acted
      PROVE  /\ process = "running"
             /\ \E at, i : /\ MayMove(at, i)
                           /\ frame' = [frame EXCEPT ![r] = Moved(at, i)]
  <2>1. process = "running" /\ Step("act", "catch_up", Me.i + 1)
    BY <1>5 DEF Acted, Step
  <2>2. Me.i + 1 \in Int /\ "catch_up" \in Places
    BY <1>1, <2>1 DEF Places
  <2>3. /\ Me.at = "act"
        /\ frame' = [frame EXCEPT ![r] = Moved("catch_up", Me.i + 1)]
    BY <2>1, <2>2, StepMoves
  <2>4. MayMove("catch_up", Me.i + 1)
    BY <1>1, <2>1, <2>2, <2>3 DEF MayMove
  <2> QED BY <2>1, <2>3, <2>4
<1>6. CASE Reports
  BY <1>1, <1>5, <1>6, ThreadsStay DEF Reports, vars, dispatchVars, idVars, ActiveIds
<1>7. CASE MainBlocks
  <2>1. BlockOther(2) \/ UNCHANGED vars
    BY <1>7 DEF MainBlocks
  <2>2. /\ ActiveIds' = ActiveIds
        /\ UNCHANGED <<unused_threads_id, total_quantoms>>
    BY <2>1 DEF BlockOther, vars, dispatchVars, idVars, ActiveIds
  <2> QED BY <1>1, <1>5, <1>7, <2>2, ThreadsStay DEF MainBlocks
<1>8. CASE Thread1Resumes
  <2>1. uthread_resume(2) \/ UNCHANGED vars
    BY <1>8 DEF Thread1Resumes
  <2>2. /\ ActiveIds' = ActiveIds
        /\ UNCHANGED <<unused_threads_id, total_quantoms>>
    BY <2>1 DEF uthread_resume, vars, dispatchVars, idVars, ActiveIds
  <2> QED BY <1>1, <1>5, <1>8, <2>2, ThreadsStay DEF Thread1Resumes
<1>9. CASE Thread1Sleeps
  <2> DEFINE threads == [active_threads EXCEPT ![r] = set_sleep(@, 1)]
             sleeping == sleeping_threads \cup {r}
  <2>1. HandsOver(threads, ready_queue, sleeping) /\ DOMAIN threads = ActiveIds
    BY <1>9, QuantumHandsOver, DemoAssumption DEF Thread1Sleeps, ActiveIds
  <2> HIDE DEF threads, sleeping
  <2>2. /\ ActiveIds' = ActiveIds
        /\ total_quantoms' \in {total_quantoms, total_quantoms + 1}
        /\ total_quantoms' <= MaxQuantums
    BY <1>5, <1>9, <2>1, QuantumStays DEF Thread1Sleeps
  <2>3. UNCHANGED unused_threads_id
    BY <1>9 DEF Thread1Sleeps, uthread_sleep, idVars
  <2> QED BY <1>5, <1>9, <2>2, <2>3, ThreadsStay DEF Thread1Sleeps
<1>10. CASE QuantumOver
  <2> DEFINE threads == [active_threads EXCEPT ![r] = set_ready(@)]
             queue == Append(ready_queue, r)
  <2>1. /\ HandsOver(threads, queue, sleeping_threads)
        /\ DOMAIN threads = ActiveIds
        /\ process = "running"
    BY <1>10, QuantumHandsOver DEF QuantumOver, internal_time_handler, ActiveIds
  <2> HIDE DEF threads, queue
  <2>2. /\ ActiveIds' = ActiveIds
        /\ total_quantoms' \in {total_quantoms, total_quantoms + 1}
        /\ total_quantoms' <= MaxQuantums
    BY <1>10, <2>1, QuantumStays DEF QuantumOver
  <2>3. UNCHANGED <<unused_threads_id, frame>>
    BY <1>10 DEF QuantumOver, internal_time_handler, idVars
  <2> QED BY <2>1, <2>2, <2>3, ThreadsStay
<1>11. CASE MainSpawns
  <2>1. CASE At("main", 3) /\ SpawnDemo("thread1")
    BY <2>1, SpawnKeepsDemo
  <2>2. CASE At("main", 11) /\ SpawnDemo("thread2")
    BY <2>2, SpawnKeepsDemo
  <2>3. CASE SpawnOutOfMemory
    BY <2>3 DEF SpawnOutOfMemory, Exit, ActiveIds, DemoInv, DemoTypeOK,
                NobodyRunsAhead, ClockIsInRange, WhoTheyAre
  <2> QED BY <1>11, <2>1, <2>2, <2>3 DEF MainSpawns
<1>12. CASE DemoEnds \/ UNCHANGED demoVars
  BY <1>12 DEF DemoEnds, demoVars, vars, dispatchVars, idVars, DemoInv,
               DemoTypeOK, NobodyRunsAhead, ClockIsInRange, WhoTheyAre,
               SpawnedOnce, MainIsPast, ActiveIds
<1> QED BY <1>2, <1>3, <1>4, <1>6, <1>7, <1>8, <1>9, <1>10, <1>11, <1>12
        DEF DemoNext

LEMMA DemoInvariance == DemoSpec => [](IInv /\ DemoInv)
<1>1. DemoInit => IInv /\ DemoInv
  <2> SUFFICES ASSUME DemoInit PROVE DemoInv
    BY InitConsistent DEF DemoInit
  <2>1. /\ ActiveIds = {MAIN_THREAD_ID}
        /\ frame = [t \in {MAIN_THREAD_ID} |->
                      [code |-> "main", i |-> 1, at |-> "catch_up"]]
        /\ frame[MAIN_THREAD_ID] = [code |-> "main", i |-> 1, at |-> "catch_up"]
        /\ unused_threads_id = {}
    BY DEF DemoInit, Init, ActiveIds
  <2>2. total_quantoms = 1
    BY DemoAssumption, CounterModulusIsPositive DEF DemoInit, Init, Increment
  <2> QED BY <2>1, <2>2, DemoAssumption
          DEF DemoInv, DemoTypeOK, Frame, Code, NobodyRunsAhead, ClockIsInRange,
              WhoTheyAre, SpawnedOnce
<1>2. IInv /\ DemoInv /\ [DemoNext]_demoVars => (IInv /\ DemoInv)'
  BY DemoStepIsStep, StepConsistent, DemoStepInv
<1> QED BY <1>1, <1>2, PTL DEF DemoSpec

\* main.cpp uses the library as any program may: whatever is proved of Scheduler
\* holds of it.
THEOREM DemoIsScheduler == DemoSpec => Spec
<1>1. DemoInit => Init
  BY DEF DemoInit
<1> QED BY <1>1, DemoStepIsStep, PTL DEF DemoSpec, Spec

\* Every living thread of main.cpp has its frame, and nobody else has one.
THEOREM FramesAreKept == DemoSpec => []DemoTypeOK
BY DemoInvariance, PTL DEF DemoInv

\* Wherever the timer cuts in, thread1 and thread2 are spawned at most once,
\* and id 2, which main blocks and thread1 resumes, can only be thread2's.
THEOREM EachIsSpawnedOnce == DemoSpec => []ThreadsAreWhoTheyAre
<1>1. IInv /\ DemoInv => ThreadsAreWhoTheyAre
  <2> SUFFICES ASSUME IInv, DemoInv, process = "running"
               PROVE  /\ ActiveIds \subseteq 0 .. 2
                      /\ \A t, u \in ActiveIds :
                           frame[t].code = frame[u].code => t = u
                      /\ 2 \in ActiveIds => frame[2].code = "thread2"
    BY DEF ThreadsAreWhoTheyAre
  <2>1. SpawnedOnce /\ (\A t, u \in ActiveIds :
                          frame[t].code = frame[u].code => t = u)
    BY DEF DemoInv, WhoTheyAre
  <2> QED BY <2>1 DEF SpawnedOnce, MAIN_THREAD_ID
<1> QED BY <1>1, DemoInvariance, PTL

\* No thread of main.cpp acts in a quantum that has not begun, however long the
\* program runs.
THEOREM NobodyActsEarly == DemoSpec => []NobodyRunsAhead
BY DemoInvariance, PTL DEF DemoInv

\* The timetable: who runs in quantum q, who lives and who waits, where main's i
\* tells whether main has already acted in it.
Runner(q) ==
  IF q <= 3 \/ q \in {18, 19} THEN 0
  ELSE IF q = 13 THEN 2
  ELSE IF q <= 12 \/ q >= 20 THEN 1 - (q % 2)
  ELSE q % 2

Living(q, i) ==
  IF q < 3 \/ (q = 3 /\ i <= q) THEN {0}
  ELSE IF q < 11 \/ (q = 11 /\ i <= q) THEN {0, 1}
  ELSE {0, 1, 2}

Waiting(q, i) ==
  IF q < 3 \/ (q = 3 /\ i <= q) \/ q = 18 THEN <<>>
  ELSE IF (q = 11 /\ i > q) \/ (q = 14 /\ i <= q) THEN <<1, 2>>
  ELSE IF q = 12 THEN <<2, 0>>
  ELSE IF q = 13 THEN <<0, 1>>
  ELSE <<1 - Runner(q)>>

\* Somebody else has the next quantum.
LEMMA TurnsChange ==
  ASSUME NEW q \in Nat
  PROVE  (q + 1) % 2 = 1 - (q % 2) /\ q % 2 \in {0, 1}
OBVIOUS

\* The timer moves the threads on by one place of the timetable.
LEMMA NextInTurn ==
  ASSUME NEW q \in Nat, q \notin {17, 18},
         NEW i \in Int, i <= q + 1, i > q <=> Runner(q) = 0
  PROVE  LET queue == Append(Waiting(q, i), Runner(q))
         IN  /\ Runner(q + 1) = Head(queue)
             /\ Waiting(q + 1, i) = Tail(queue)
             /\ Living(q + 1, i) = Living(q, i)
<1> DEFINE now   == Waiting(q, i)
           next  == Waiting(q + 1, i)
           moved == /\ Runner(q + 1) = Head(Append(now, Runner(q)))
                    /\ next = Tail(Append(now, Runner(q)))
<1>1. q % 2 \in {0, 1} /\ (q + 1) % 2 = 1 - (q % 2)
  BY TurnsChange
<1>2. Living(q + 1, i) = Living(q, i)
  BY <1>1 DEF Living, Runner
<1> HIDE DEF now, next, moved
<1>3. Runner(q) \in Nat /\ Runner(q + 1) \in Nat
  BY <1>1 DEF Runner
<1>4. ASSUME Runner(q + 1) = Runner(q), now = <<>>, next = <<>>
      PROVE  moved
  BY <1>3, <1>4, ShortQueues DEF moved
<1>5. ASSUME now = <<Runner(q + 1)>>, next = <<Runner(q)>>
      PROVE  moved
  BY <1>3, <1>5, ShortQueues DEF moved
<1>6. ASSUME NEW b \in Nat, now = <<Runner(q + 1), b>>, next = <<b, Runner(q)>>
      PROVE  moved
  BY <1>3, <1>6, ShortQueues DEF moved
<1>7. ASSUME q < 3 PROVE moved
  <2>1. Runner(q + 1) = Runner(q) /\ now = <<>> /\ next = <<>>
    BY <1>7 DEF Runner, Waiting, now, next
  <2> QED BY <1>4, <2>1
<1>8. ASSUME q \in {3, 14} PROVE moved
  <2>1. now = <<Runner(q + 1)>> /\ next = <<Runner(q)>>
    BY <1>8 DEF Runner, Waiting, now, next
  <2> QED BY <1>5, <2>1
<1>9. ASSUME q \in 4 .. 10 \/ q \in {15, 16, 19} \/ q >= 20 PROVE moved
  <2>1. /\ Runner(q + 1) = 1 - Runner(q) /\ 1 - Runner(q + 1) = Runner(q)
        /\ now = <<1 - Runner(q)>> /\ next = <<1 - Runner(q + 1)>>
    BY <1>1, <1>9 DEF Runner, Waiting, now, next
  <2> QED BY <1>5, <2>1
<1>10. ASSUME q = 11 PROVE moved
  <2>1. now = <<Runner(q + 1), 2>> /\ next = <<2, Runner(q)>>
    BY <1>10 DEF Runner, Waiting, now, next
  <2> QED BY <1>6, <2>1
<1>11. ASSUME q = 12 PROVE moved
  <2>1. now = <<Runner(q + 1), 0>> /\ next = <<0, Runner(q)>>
    BY <1>11 DEF Runner, Waiting, now, next
  <2> QED BY <1>6, <2>1
<1>12. ASSUME q = 13 PROVE moved
  <2>1. now = <<Runner(q + 1), 1>> /\ next = <<1, Runner(q)>>
    BY <1>12 DEF Runner, Waiting, now, next
  <2> QED BY <1>6, <2>1
<1>13. \/ q < 3 \/ q \in {3, 14} \/ q \in 4 .. 10 \/ q \in {15, 16, 19} \/ q >= 20
       \/ q \in {11, 12, 13}
  OBVIOUS
<1>14. moved
  BY <1>7, <1>8, <1>9, <1>10, <1>11, <1>12, <1>13
<1> QED BY <1>2, <1>14 DEF moved, now, next

\* What the running thread hands to the dispatcher has every sleeper's counter
\* in order, and whom the dispatcher wakes can join the queue in one order only.
HandsOverTo(threads, queue, sleeping, updated, joining, woken) ==
  /\ HandsOver(threads, queue, sleeping)
  /\ \A t \in sleeping : MayUpdateSleepValue(threads[t])
  /\ updated = SleepersUpdated(threads, sleeping)
  /\ joining = {t \in sleeping : is_ready(updated[t])}
  /\ woken \in Seq(Nat)
  /\ \A order \in Seq(Nat) :
       IsInjective(order) /\ ToSet(order) = joining => order = woken

LEMMA HandedOn ==
  ASSUME IInv, process = "running",
         NEW threads, NEW queue, NEW sleeping, NEW updated, NEW joining, NEW woken,
         HandsOverTo(threads, queue, sleeping, updated, joining, woken)
  PROVE  /\ process' = "running"
         /\ total_quantoms' = Increment(total_quantoms)
         /\ ActiveIds' = DOMAIN threads
         /\ running_thread_id' = Head(queue \o woken)
         /\ ready_queue' = Tail(queue \o woken)
         /\ \A t : t \in sleeping_threads' <=> t \in sleeping /\ is_sleeping(updated[t])
         /\ \A t \in DOMAIN threads \ {running_thread_id'} :
              active_threads'[t] = updated[t]
<1> USE DEF HandsOverTo
<1>1. \E order \in Seq(Nat) : FrontDispatched(threads, queue, sleeping, order)
  BY DispatchOutcome DEF HandsOver
<1>2. PICK order \in Seq(Nat) : FrontDispatched(threads, queue, sleeping, order)
  BY <1>1
<1>3. IsInjective(order) /\ ToSet(order) = joining
  BY <1>2 DEF FrontDispatched
<1>4. order = woken
  BY <1>3
<1>5. /\ process' = "running"
      /\ total_quantoms' = Increment(total_quantoms)
      /\ running_thread_id' = Head(queue \o woken)
      /\ ready_queue' = Tail(queue \o woken)
      /\ sleeping_threads' = {t \in sleeping : is_sleeping(updated[t])}
      /\ active_threads' =
           [t \in DOMAIN threads |->
              IF t = Head(queue \o woken) THEN set_running(updated[t])
                                          ELSE updated[t]]
  BY <1>2, <1>4 DEF FrontDispatched
<1>6. ActiveIds' = DOMAIN threads
  BY <1>5 DEF ActiveIds
<1>7. \A t \in DOMAIN threads \ {running_thread_id'} : active_threads'[t] = updated[t]
  BY <1>5
<1> QED BY <1>5, <1>6, <1>7

\* Nobody, or one thread, can join a queue in one order only.
LEMMA OneOrder ==
  /\ \A order \in Seq(Nat) : IsInjective(order) /\ ToSet(order) = {} => order = <<>>
  /\ \A order \in Seq(Nat) : IsInjective(order) /\ ToSet(order) = {1} => order = << 1 >>
<1>1. 1 \in Nat
  OBVIOUS
<1> QED BY <1>1, HoldsLittle

\* The queues of one or two threads that the timetable meets.
LEMMA Pops ==
  /\ Head(<< 0 >>) = 0 /\ Tail(<< 0 >>) = <<>>
  /\ Head(Append(<<>>, 0) \o << 1 >>) = 0 /\ Tail(Append(<<>>, 0) \o << 1 >>) = << 1 >>
<1>1. 0 \in Nat /\ 1 \in Nat
  OBVIOUS
<1>2. /\ Append(<<>>, 0) = << 0 >>
      /\ Head(Append(<<>>, 0)) = 0 /\ Tail(Append(<<>>, 0)) = <<>>
      /\ Head(Append(<< 0 >>, 1)) = 0 /\ Tail(Append(<< 0 >>, 1)) = << 1 >>
  BY <1>1, ShortQueues
<1>3. << 0 >> \in Seq(Nat)
  OBVIOUS
<1>4. Append(<< 0 >>, 1) = << 0 >> \o << 1 >>
  BY <1>1, <1>3, AppendIsConcat
<1> QED BY <1>2, <1>4

\* The timer, while nobody sleeps: the front of the queue runs and the thread
\* that ran goes to its end.
LEMMA TimerRotates ==
  ASSUME IInv, process = "running", internal_time_handler, sleeping_threads = {}
  PROVE  /\ process' = "running"
         /\ total_quantoms' = Increment(total_quantoms)
         /\ UNCHANGED <<ActiveIds, sleeping_threads, idVars>>
         /\ running_thread_id' = Head(Append(ready_queue, running_thread_id))
         /\ ready_queue' = Tail(Append(ready_queue, running_thread_id))
<1> DEFINE threads == [active_threads EXCEPT ![running_thread_id] = set_ready(@)]
           queue   == Append(ready_queue, running_thread_id)
           updated == SleepersUpdated(threads, sleeping_threads)
<1>1. HandsOver(threads, queue, sleeping_threads) /\ UNCHANGED idVars
  BY QuantumHandsOver DEF internal_time_handler
<1>2. DOMAIN threads = ActiveIds
  BY DEF ActiveIds
<1>3. queue \in Seq(Nat) /\ <<>> \in Seq(Nat)
  BY <1>1 DEF HandsOver, WellFormed
<1> HIDE DEF threads, queue
<1>4. updated = SleepersUpdated(threads, sleeping_threads)
  OBVIOUS
<1> HIDE DEF updated
<1> DEFINE joining == {t \in sleeping_threads : is_ready(updated[t])}
<1>5. /\ joining = {t \in sleeping_threads : is_ready(updated[t])} /\ joining = {}
      /\ \A t \in sleeping_threads : ~ is_sleeping(updated[t])
  OBVIOUS
<1> HIDE DEF joining
<1>6. \A order \in Seq(Nat) :
        IsInjective(order) /\ ToSet(order) = joining => order = <<>>
  BY <1>5, OneOrder
<1>7. \A t \in sleeping_threads : MayUpdateSleepValue(threads[t])
  OBVIOUS
<1> DEFINE none == <<>>
<1>8. none \in Seq(Nat)
  BY <1>3
<1>9. \A order \in Seq(Nat) :
        IsInjective(order) /\ ToSet(order) = joining => order = none
  BY <1>6
<1>10. queue \o none = queue
  BY <1>3, ConcatEmptySeq
<1> HIDE DEF none
<1>11. /\ process' = "running"
       /\ total_quantoms' = Increment(total_quantoms)
       /\ ActiveIds' = ActiveIds
       /\ running_thread_id' = Head(queue)
       /\ ready_queue' = Tail(queue)
       /\ sleeping_threads' = {}
  <2>1. HandsOverTo(threads, queue, sleeping_threads, updated, joining, none)
    BY <1>1, <1>4, <1>5, <1>7, <1>8, <1>9 DEF HandsOverTo
  <2>2. /\ process' = "running"
        /\ total_quantoms' = Increment(total_quantoms)
        /\ ActiveIds' = DOMAIN threads
        /\ running_thread_id' = Head(queue \o none)
        /\ ready_queue' = Tail(queue \o none)
        /\ \A t : t \in sleeping_threads' <=> t \in sleeping_threads /\ is_sleeping(updated[t])
        /\ \A t \in DOMAIN threads \ {running_thread_id'} :
             active_threads'[t] = updated[t]
    BY <2>1, HandedOn
  <2> QED BY <1>2, <1>5, <1>10, <2>2
<1> QED BY <1>1, <1>5, <1>11 DEF queue

\* A sleep that ends as the next quantum starts.
SleepsOut(th) == th.state = "SLEEPING" /\ th.quantoms_left = 0

\* The end of thread1's sleep: main keeps the CPU and thread1 waits behind it.
LEMMA TimerWakes ==
  ASSUME IInv, process = "running", internal_time_handler,
         ready_queue = <<>>, running_thread_id = 0,
         sleeping_threads = {1},
         SleepsOut(active_threads[1])
  PROVE  /\ process' = "running"
         /\ total_quantoms' = Increment(total_quantoms)
         /\ UNCHANGED <<ActiveIds, idVars>>
         /\ running_thread_id' = 0 /\ ready_queue' = << 1 >>
         /\ sleeping_threads' = {}
<1> DEFINE threads  == [active_threads EXCEPT ![0] = set_ready(@)]
           queue    == Append(<<>>, 0)
           sleeping == {1}
           updated  == SleepersUpdated(threads, sleeping)
           woken    == << 1 >>
<1>1. HandsOver(threads, queue, sleeping) /\ UNCHANGED idVars
  BY QuantumHandsOver DEF internal_time_handler
<1>2. /\ DOMAIN threads = ActiveIds /\ 1 \in ActiveIds
      /\ threads[1] = active_threads[1] /\ threads[1] \in Thread
  BY <1>1 DEF ActiveIds, HandsOver, WellFormed
<1> HIDE DEF threads
<1>3. MayUpdateSleepValue(threads[1])
  BY <1>2 DEF SleepsOut, MayUpdateSleepValue, is_sleeping, NOT_SLEEPING
<1>4. updated[1] = update_sleep_value(threads[1])
  BY <1>2 DEF SleepersUpdated
<1>5. is_ready(updated[1]) /\ ~ is_sleeping(updated[1])
  <2> DEFINE rested == [threads[1] EXCEPT !.quantoms_left = NOT_SLEEPING]
  <2>1. rested \in Thread /\ rested.state = "SLEEPING"
    BY <1>2 DEF SleepsOut, Thread, NOT_SLEEPING
  <2>2. updated[1] = wake_up(rested)
    BY <1>2, <1>4 DEF SleepsOut, update_sleep_value
  <2> HIDE DEF rested
  <2>3. wake_up(rested) = [rested EXCEPT !.state = "READY"]
    BY <2>1 DEF wake_up
  <2> QED BY <2>1, <2>2, <2>3 DEF Thread, is_ready, is_sleeping
<1>6. updated = SleepersUpdated(threads, sleeping)
  OBVIOUS
<1> HIDE DEF updated
<1> DEFINE joining == {t \in sleeping : is_ready(updated[t])}
<1>7. /\ joining = {t \in sleeping : is_ready(updated[t])} /\ joining = {1}
      /\ \A t \in sleeping : ~ is_sleeping(updated[t])
      /\ \A t \in sleeping : MayUpdateSleepValue(threads[t])
  BY <1>3, <1>5
<1> HIDE DEF joining
<1>8. woken \in Seq(Nat)
  OBVIOUS
<1>9. \A order \in Seq(Nat) :
        IsInjective(order) /\ ToSet(order) = joining => order = woken
  BY <1>7, OneOrder
<1> HIDE DEF queue, sleeping, woken
<1>10. /\ process' = "running"
       /\ total_quantoms' = Increment(total_quantoms)
       /\ ActiveIds' = ActiveIds
       /\ running_thread_id' = Head(queue \o woken)
       /\ ready_queue' = Tail(queue \o woken)
       /\ sleeping_threads' = {}
  <2>1. HandsOverTo(threads, queue, sleeping, updated, joining, woken)
    BY <1>1, <1>6, <1>7, <1>8, <1>9 DEF HandsOverTo
  <2>2. /\ process' = "running"
        /\ total_quantoms' = Increment(total_quantoms)
        /\ ActiveIds' = DOMAIN threads
        /\ running_thread_id' = Head(queue \o woken)
        /\ ready_queue' = Tail(queue \o woken)
        /\ \A t : t \in sleeping_threads' <=> t \in sleeping /\ is_sleeping(updated[t])
        /\ \A t \in DOMAIN threads \ {running_thread_id'} :
             active_threads'[t] = updated[t]
    BY <2>1, HandedOn
  <2> QED BY <1>2, <1>7, <2>2
<1> QED BY <1>1, <1>7, <1>10, Pops DEF queue, woken

\* thread1 goes to sleep for one quantum more than the one that starts now, and
\* main, which waits, has the CPU for itself.
LEMMA SleepLeavesMain ==
  ASSUME IInv, process = "running", uthread_sleep(1),
         ready_queue = << 0 >>, running_thread_id = 1, sleeping_threads = {}
  PROVE  /\ process' = "running"
         /\ total_quantoms' = Increment(total_quantoms)
         /\ UNCHANGED <<ActiveIds, idVars>>
         /\ running_thread_id' = 0 /\ ready_queue' = <<>>
         /\ sleeping_threads' = {1}
         /\ SleepsOut(active_threads'[1])
<1> DEFINE threads  == [active_threads EXCEPT ![1] = set_sleep(@, 1)]
           queue    == << 0 >>
           sleeping == {1}
           updated  == SleepersUpdated(threads, sleeping)
           woken    == <<>>
<1>1. HandsOver(threads, queue, sleeping) /\ UNCHANGED idVars
  <2>1. 1 \in SleepArguments
    BY DemoAssumption
  <2>2. HandsOver([active_threads EXCEPT ![running_thread_id] = set_sleep(@, 1)],
                   ready_queue, sleeping_threads \cup {running_thread_id})
    BY <2>1, QuantumHandsOver
  <2>3. sleeping_threads \cup {running_thread_id} = {1}
    OBVIOUS
  <2> QED BY <2>2, <2>3 DEF uthread_sleep
<1>2. /\ 1 \in ActiveIds /\ DOMAIN active_threads = ActiveIds
      /\ active_threads[1] \in Thread /\ active_threads[1].state = "RUNNING"
  BY DEF IInv, Types, Consistent, OneRunning, ActiveIds, is_running
<1>3. /\ DOMAIN threads = ActiveIds
      /\ threads[1] \in Thread /\ threads[1].state = "SLEEPING"
      /\ threads[1].quantoms_left = 1
  <2>1. threads[1] = set_sleep(active_threads[1], 1) /\ DOMAIN threads = ActiveIds
    BY <1>2
  <2>2. is_running(active_threads[1])
    BY <1>2 DEF is_running
  <2>3. set_sleep(active_threads[1], 1).state = "SLEEPING"
    BY <1>2 DEF set_sleep, Thread
  <2> QED BY <1>2, <2>1, <2>2, <2>3, SetSleep
<1> HIDE DEF threads
<1>4. MayUpdateSleepValue(threads[1])
  BY <1>3 DEF MayUpdateSleepValue, is_sleeping, NOT_SLEEPING
<1>5. updated[1] = [threads[1] EXCEPT !.quantoms_left = @ - 1]
  BY <1>2, <1>3 DEF SleepersUpdated, update_sleep_value
<1>6. /\ updated[1].state = "SLEEPING" /\ updated[1].quantoms_left = 0
      /\ ~ is_ready(updated[1]) /\ is_sleeping(updated[1])
  BY <1>3, <1>5 DEF is_ready, is_sleeping, Thread
<1>7. updated = SleepersUpdated(threads, sleeping)
  OBVIOUS
<1> HIDE DEF updated
<1> DEFINE joining == {t \in sleeping : is_ready(updated[t])}
<1>8. /\ joining = {t \in sleeping : is_ready(updated[t])} /\ joining = {}
      /\ 1 \in sleeping /\ \A t \in sleeping : t = 1 /\ is_sleeping(updated[t])
      /\ \A t \in sleeping : MayUpdateSleepValue(threads[t])
  BY <1>4, <1>6
<1> HIDE DEF joining
<1>9. woken \in Seq(Nat) /\ queue \in Seq(Nat)
  OBVIOUS
<1>10. queue \o woken = queue
  BY <1>9, ConcatEmptySeq
<1>11. \A order \in Seq(Nat) :
         IsInjective(order) /\ ToSet(order) = joining => order = woken
  BY <1>8, OneOrder
<1> HIDE DEF queue, sleeping, woken
<1>12. /\ process' = "running"
       /\ total_quantoms' = Increment(total_quantoms)
       /\ ActiveIds' = ActiveIds
       /\ running_thread_id' = Head(queue)
       /\ ready_queue' = Tail(queue)
       /\ sleeping_threads' = {1}
       /\ \A t \in ActiveIds \ {running_thread_id'} : active_threads'[t] = updated[t]
  <2>1. HandsOverTo(threads, queue, sleeping, updated, joining, woken)
    BY <1>1, <1>7, <1>8, <1>9, <1>11 DEF HandsOverTo
  <2>2. /\ process' = "running"
        /\ total_quantoms' = Increment(total_quantoms)
        /\ ActiveIds' = DOMAIN threads
        /\ running_thread_id' = Head(queue \o woken)
        /\ ready_queue' = Tail(queue \o woken)
        /\ \A t : t \in sleeping_threads' <=> t \in sleeping /\ is_sleeping(updated[t])
        /\ \A t \in DOMAIN threads \ {running_thread_id'} :
             active_threads'[t] = updated[t]
    BY <2>1, HandedOn
  <2> QED BY <1>3, <1>8, <1>10, <2>2
<1>13. Head(queue) = 0 /\ Tail(queue) = <<>>
  BY Pops DEF queue
<1>14. active_threads'[1] = updated[1]
  BY <1>2, <1>12, <1>13
<1> QED BY <1>1, <1>6, <1>8, <1>12, <1>13, <1>14 DEF SleepsOut

\* The scheduler is where the timetable has it.
QueueOnPlan ==
  LET q == total_quantoms
      i == frame[MAIN_THREAD_ID].i
  IN  /\ running_thread_id = Runner(q)
      /\ ActiveIds = Living(q, i)
      /\ ready_queue = Waiting(q, i)
      /\ sleeping_threads = IF q = 18 THEN {1} ELSE {}
      /\ q = 18 => SleepsOut(active_threads[1])

\* The threads are too: only the running one may be about to act, in the present
\* quantum, and thread1 does not pass the 17th without going to sleep.
FramesOnPlan ==
  LET q == total_quantoms
  IN  /\ Me.at = "act" => Me.i = q
      /\ \A t \in ActiveIds \ {running_thread_id} :
           frame[t].at # "act" /\ frame[t].i <= q
      /\ 1 \in ActiveIds => frame[1].code = "thread1"
      /\ q = 17 => frame[1].i <= 17

OnPlan == process = "running" /\ ~ hasty => QueueOnPlan /\ FramesOnPlan

\* What main has done is all that its i tells, and only in three quantums.
LEMMA MainsDoing ==
  ASSUME NEW q \in Int, NEW i \in Int, NEW j \in Int,
         (i <= q <=> j <= q) \/ q \notin {3, 11, 14}
  PROVE  Living(q, i) = Living(q, j) /\ Waiting(q, i) = Waiting(q, j)
BY DEF Living, Waiting

LEMMA PlanFacts ==
  ASSUME IInv, DemoInv, process = "running"
  PROVE  /\ frame \in [ActiveIds -> Frame]
         /\ running_thread_id \in ActiveIds /\ 0 \in ActiveIds
         /\ total_quantoms \in Nat
         /\ \A t \in ActiveIds : /\ frame[t] \in Frame /\ frame[t].i \in Int
                                 /\ frame[t].i <= total_quantoms + 1
         /\ frame[0].code = "main" /\ frame[0].at # "start"
         /\ \A t, u \in ActiveIds : frame[t].code = frame[u].code => t = u
<1>1. /\ frame \in [ActiveIds -> Frame]
      /\ running_thread_id \in ActiveIds /\ MAIN_THREAD_ID \in ActiveIds
      /\ total_quantoms \in Nat
  BY DemoFacts
<1>2. \A t \in ActiveIds : frame[t] \in Frame /\ frame[t].i \in Int
  BY <1>1 DEF Frame
<1> QED BY <1>1, <1>2 DEF DemoInv, NobodyRunsAhead, WhoTheyAre, MAIN_THREAD_ID

\* The running thread moves on within its quantum.
MovesTo(at, i) ==
  /\ i \in Int
  /\ frame' = [frame EXCEPT ![running_thread_id] = Moved(at, i)]
  /\ at = "act" => i = total_quantoms
  /\ total_quantoms = 17 => i <= 17

LEMMA FramesMove ==
  ASSUME IInv, DemoInv, process = "running", ~ hasty, OnPlan,
         UNCHANGED <<total_quantoms, running_thread_id, ActiveIds>>,
         NEW at, NEW i, MovesTo(at, i)
  PROVE  /\ FramesOnPlan'
         /\ frame'[0].i = IF running_thread_id = 0 THEN i ELSE frame[0].i
<1> USE DEF MovesTo
<1> DEFINE r == running_thread_id
<1>1. /\ frame \in [ActiveIds -> Frame] /\ r \in ActiveIds /\ 0 \in ActiveIds
      /\ frame[r] \in Frame
  BY PlanFacts
<1>2. Moved(at, i).at = at /\ Moved(at, i).i = i /\ Moved(at, i).code = frame[r].code
  BY <1>1 DEF Moved, Me, Frame
<1>3. \A t \in ActiveIds :
        frame'[t] = IF t = r THEN Moved(at, i) ELSE frame[t]
  BY <1>1
<1>4. FramesOnPlan /\ QueueOnPlan
  BY DEF OnPlan
<1>5. total_quantoms = 17 => r = 1
  BY <1>4 DEF QueueOnPlan, Runner
<1> QED BY <1>1, <1>2, <1>3, <1>4, <1>5 DEF FramesOnPlan, Me

\* ... and calls nothing in it.
LEMMA PlanStays ==
  ASSUME IInv, DemoInv, process = "running", ~ hasty, OnPlan, UNCHANGED vars,
         NEW at, NEW i, MovesTo(at, i),
         \/ running_thread_id # 0
         \/ i <= total_quantoms <=> Me.i <= total_quantoms
         \/ total_quantoms \notin {3, 11, 14}
  PROVE  OnPlan'
<1>1. /\ UNCHANGED <<total_quantoms, running_thread_id, ready_queue,
                     sleeping_threads, active_threads>>
      /\ UNCHANGED ActiveIds
  BY DEF vars, dispatchVars, ActiveIds
<1>2. /\ FramesOnPlan'
      /\ frame'[0].i = IF running_thread_id = 0 THEN i ELSE frame[0].i
  BY <1>1, FramesMove
<1>3. /\ total_quantoms \in Int /\ frame[0].i \in Int /\ frame'[0].i \in Int
      /\ \/ frame[0].i <= total_quantoms <=> frame'[0].i <= total_quantoms
         \/ total_quantoms \notin {3, 11, 14}
  BY <1>2, PlanFacts DEF Me, MovesTo
<1>4. /\ Living(total_quantoms, frame[0].i) = Living(total_quantoms, frame'[0].i)
      /\ Waiting(total_quantoms, frame[0].i) = Waiting(total_quantoms, frame'[0].i)
  BY <1>3, MainsDoing
<1>5. QueueOnPlan'
  BY <1>1, <1>4 DEF OnPlan, QueueOnPlan, MAIN_THREAD_ID
<1> QED BY <1>2, <1>5 DEF OnPlan

\* The clock of the run does not overflow.
LEMMA ClockTicks ==
  ASSUME IInv, DemoInv, process = "running", total_quantoms < LastQuantum
  PROVE  Increment(total_quantoms) = total_quantoms + 1
<1>1. /\ total_quantoms \in Nat /\ total_quantoms < MaxQuantums
      /\ MaxQuantums \in Nat /\ MaxQuantums < CounterModulus
      /\ CounterModulus \in Nat
  BY DemoFacts, DemoAssumption, CounterModulusIsPositive DEF LastQuantum
<1> QED BY <1>1 DEF Increment

\* The quantum of a thread that has acted in it is over.
LEMMA TimerOnPlan ==
  ASSUME IInv, DemoInv, ~ hasty, OnPlan, QuantumOver
  PROVE  OnPlan'
<1> DEFINE q == total_quantoms
           i == frame[0].i
           r == running_thread_id
<1>1. /\ process = "running" /\ internal_time_handler /\ q < LastQuantum
      /\ Me.i > q /\ UNCHANGED <<frame, hasty>>
  BY DEF QuantumOver, internal_time_handler, Idle
<1>2. /\ q \in Nat /\ r \in ActiveIds /\ 0 \in ActiveIds /\ i \in Int /\ i <= q + 1
      /\ Me.i \in Int /\ Me.i <= q + 1
      /\ \A t \in ActiveIds : frame[t].i \in Int
  BY <1>1, PlanFacts DEF Me
<1>3. QueueOnPlan /\ FramesOnPlan
  BY <1>1 DEF OnPlan
<1>4. q # 17
  <2> SUFFICES ASSUME q = 17 PROVE FALSE
    OBVIOUS
  <2>1. Runner(17) = 1
    BY DEF Runner
  <2>2. r = 1 /\ 1 \in ActiveIds
    BY <1>2, <1>3, <2>1 DEF QueueOnPlan
  <2>3. frame[1].i <= 17 /\ frame[1].i > 17
    BY <1>1, <1>3, <2>2 DEF FramesOnPlan, Me
  <2> QED BY <1>2, <2>2, <2>3
<1>5. i > q <=> Runner(q) = 0
  BY <1>1, <1>2, <1>3 DEF QueueOnPlan, FramesOnPlan, Me
<1>6. /\ process' = "running" /\ total_quantoms' = q + 1
      /\ UNCHANGED ActiveIds /\ sleeping_threads' = {}
      /\ running_thread_id' = Runner(q + 1)
      /\ ready_queue' = Waiting(q + 1, i)
      /\ Living(q + 1, i) = Living(q, i)
  <2>1. Increment(q) = q + 1
    BY <1>1, ClockTicks
  <2>2. CASE q = 18
    <3>1. /\ ready_queue = <<>> /\ r = 0 /\ sleeping_threads = {1}
          /\ SleepsOut(active_threads[1])
      BY <1>3, <2>2 DEF QueueOnPlan, Runner, Waiting
    <3>2. /\ process' = "running" /\ total_quantoms' = Increment(q)
          /\ UNCHANGED ActiveIds /\ sleeping_threads' = {}
          /\ running_thread_id' = 0 /\ ready_queue' = << 1 >>
      BY <1>1, <3>1, TimerWakes
    <3>3. Runner(19) = 0 /\ Waiting(19, i) = << 1 >> /\ Living(19, i) = Living(18, i)
      BY <1>2 DEF Runner, Waiting, Living
    <3> QED BY <2>1, <2>2, <3>2, <3>3
  <2>3. CASE q # 18
    <3>1. sleeping_threads = {}
      BY <1>3, <2>3 DEF QueueOnPlan
    <3>2. /\ process' = "running" /\ total_quantoms' = Increment(q)
          /\ UNCHANGED <<ActiveIds, sleeping_threads>>
          /\ running_thread_id' = Head(Append(ready_queue, r))
          /\ ready_queue' = Tail(Append(ready_queue, r))
      BY <1>1, <3>1, TimerRotates
    <3>3. r = Runner(q) /\ ready_queue = Waiting(q, i)
      BY <1>3 DEF QueueOnPlan, MAIN_THREAD_ID
    <3>4. /\ Runner(q + 1) = Head(Append(Waiting(q, i), Runner(q)))
          /\ Waiting(q + 1, i) = Tail(Append(Waiting(q, i), Runner(q)))
          /\ Living(q + 1, i) = Living(q, i)
      BY <1>2, <1>4, <1>5, <2>3, NextInTurn
    <3> QED BY <2>1, <3>1, <3>2, <3>3, <3>4
  <2> QED BY <2>2, <2>3
<1>7. QueueOnPlan'
  <2>1. q + 1 # 18 /\ frame'[0].i = i
    BY <1>1, <1>2, <1>4
  <2> QED BY <1>3, <1>6, <2>1 DEF QueueOnPlan, MAIN_THREAD_ID
<1>8. FramesOnPlan'
  <2>1. \A t \in ActiveIds : frame[t].at # "act" /\ frame[t].i <= q + 1
    BY <1>1, <1>2, <1>3 DEF FramesOnPlan, Me
  <2>2. 1 \in ActiveIds => frame[1].i <= q + 1 /\ frame[1].code = "thread1"
    BY <1>3, <2>1 DEF FramesOnPlan
  <2>3. q + 1 = 17 => 1 \in ActiveIds
    BY <1>2, <1>3 DEF QueueOnPlan, Living
  <2>4. running_thread_id' \in ActiveIds
    <3>1. IInv'
      BY <1>1, StepConsistent DEF Next
    <3> QED BY <1>6, <3>1 DEF IInv, Consistent, OneRunning
  <2> QED BY <1>1, <1>2, <1>6, <2>1, <2>2, <2>3, <2>4 DEF FramesOnPlan, Me
<1> QED BY <1>7, <1>8 DEF OnPlan

\* Main spawns thread1 in the 3rd quantum and thread2 in the 11th.
LEMMA SpawnOnPlan ==
  ASSUME IInv, DemoInv, ~ hasty, OnPlan,
         NEW q \in {3, 11}, NEW code, code = (IF q = 3 THEN "thread1" ELSE "thread2"),
         At("main", q), SpawnDemo(code)
  PROVE  OnPlan'
<1> DEFINE new == generate_thread_id
           n == largest_thread_id
<1>1. process = "running" /\ uthread_spawn /\ UNCHANGED hasty
  BY DEF SpawnDemo, uthread_spawn
<1>2. /\ frame \in [ActiveIds -> Frame]
      /\ ActiveIds = 0 .. n /\ n \in Nat
      /\ running_thread_id \in ActiveIds /\ 0 \in ActiveIds
      /\ frame[0].code = "main"
      /\ \A t, u \in ActiveIds : frame[t].code = frame[u].code => t = u
      /\ unused_threads_id = {}
  BY <1>1, DemoFacts, PlanFacts DEF DemoInv, WhoTheyAre
<1>3. QueueOnPlan /\ FramesOnPlan
  BY <1>1 DEF OnPlan
<1>4. /\ running_thread_id = 0 /\ frame[0].i = q /\ frame[0].at = "act"
      /\ total_quantoms = q
  <2>1. running_thread_id = 0
    BY <1>2 DEF At, Me
  <2> QED BY <1>3, <2>1 DEF At, Me, FramesOnPlan
<1>5. /\ new = n + 1
      /\ ActiveIds' = ActiveIds \cup {new}
      /\ ready_queue' = Append(ready_queue, new)
      /\ UNCHANGED <<process, sleeping_threads, running_thread_id, total_quantoms>>
      /\ new \notin ActiveIds
  BY <1>1, <1>2 DEF uthread_spawn, generate_thread_id, TakeThreadId, ActiveIds
<1>6. /\ ActiveIds = IF q = 3 THEN {0} ELSE {0, 1}
      /\ ready_queue = IF q = 3 THEN <<>> ELSE << 1 >>
      /\ sleeping_threads = {}
  <2>1. CASE q = 3
    BY <1>3, <1>4, <2>1 DEF QueueOnPlan, Living, Waiting, MAIN_THREAD_ID
  <2>2. CASE q = 11
    <3>1. Runner(11) = 0
      BY <1>3, <1>4, <2>2 DEF QueueOnPlan
    <3> QED BY <1>3, <1>4, <2>2, <3>1
            DEF QueueOnPlan, Living, Waiting, MAIN_THREAD_ID
  <2> QED BY <2>1, <2>2
<1>7. new = IF q = 3 THEN 1 ELSE 2
  <2>1. CASE q = 3
    <3>1. n = 0
      <4> SUFFICES ASSUME n >= 1 PROVE FALSE
        BY <1>2
      <4>1. 1 \in ActiveIds
        BY <1>2
      <4> QED BY <1>6, <2>1, <4>1
    <3> QED BY <1>5, <2>1, <3>1
  <2>2. CASE q = 11
    <3>1. n = 1
      <4>1. n # 0
        BY <1>2, <1>6, <2>2
      <4> SUFFICES ASSUME n >= 2 PROVE FALSE
        BY <1>2, <4>1
      <4>2. 2 \in ActiveIds
        BY <1>2
      <4> QED BY <1>6, <2>2, <4>2
    <3> QED BY <1>5, <2>2, <3>1
  <2> QED BY <2>1, <2>2
<1> HIDE DEF new, n
<1>8. /\ frame'[0].i = q + 1 /\ frame'[0].at = "catch_up"
      /\ frame'[new] = [code |-> code, i |-> 0, at |-> "start"]
      /\ \A t \in ActiveIds \ {0} : frame'[t] = frame[t]
  <2>1. frame' = [t \in ActiveIds \cup {new} |->
                    IF t \notin ActiveIds
                      THEN [code |-> code, i |-> 0, at |-> "start"]
                      ELSE IF t # 0 THEN frame[t]
                      ELSE [frame[0] EXCEPT !.at = "catch_up", !.i = @ + 1]]
    BY <1>4, <1>5 DEF SpawnDemo, Me
  <2>2. /\ frame'[0] = [frame[0] EXCEPT !.at = "catch_up", !.i = @ + 1]
        /\ frame'[new] = [code |-> code, i |-> 0, at |-> "start"]
        /\ \A t \in ActiveIds \ {0} : frame'[t] = frame[t]
    BY <1>2, <1>5, <2>1
  <2>3. frame[0] \in Frame
    BY <1>2
  <2>4. frame'[0].i = frame[0].i + 1 /\ frame'[0].at = "catch_up"
    BY <2>2, <2>3 DEF Frame
  <2> QED BY <1>4, <2>2, <2>4
<1>9. QueueOnPlan'
  <2>1. CASE q = 3
    <3>1. ActiveIds' = {0, 1} /\ ready_queue' = << 1 >>
      <4>1. Append(<<>>, 1) = << 1 >>
        BY ShortQueues
      <4> QED BY <1>5, <1>6, <1>7, <2>1, <4>1
    <3>2. /\ Runner(3) = 0 /\ Living(3, 4) = {0, 1} /\ Waiting(3, 4) = << 1 >>
      BY DEF Runner, Living, Waiting
    <3> QED BY <1>4, <1>5, <1>6, <1>8, <2>1, <3>1, <3>2 DEF QueueOnPlan, MAIN_THREAD_ID
  <2>2. CASE q = 11
    <3>1. ActiveIds' = {0, 1, 2} /\ ready_queue' = <<1, 2>>
      <4>1. Append(<< 1 >>, 2) = <<1, 2>>
        <5>1. 1 \in Nat /\ 2 \in Nat
          OBVIOUS
        <5> QED BY <5>1, ShortQueues
      <4> QED BY <1>5, <1>6, <1>7, <2>2, <4>1
    <3>2. Living(11, 12) = {0, 1, 2} /\ Waiting(11, 12) = <<1, 2>>
      BY DEF Living, Waiting
    <3>3. Runner(11) = 0
      BY <1>3, <1>4, <2>2 DEF QueueOnPlan
    <3> QED BY <1>4, <1>5, <1>6, <1>8, <2>2, <3>1, <3>2, <3>3
            DEF QueueOnPlan, MAIN_THREAD_ID
  <2> QED BY <2>1, <2>2
<1>10. FramesOnPlan'
  <2>1. \A t \in ActiveIds \ {0} : frame[t].at # "act" /\ frame[t].i <= q
    BY <1>3, <1>4 DEF FramesOnPlan
  <2>2. \A t \in ActiveIds' \ {0} : frame'[t].at # "act" /\ frame'[t].i <= q
    BY <1>5, <1>8, <2>1
  <2>3. 1 \in ActiveIds' => frame'[1].code = "thread1"
    BY <1>3, <1>5, <1>7, <1>8 DEF FramesOnPlan
  <2> QED BY <1>4, <1>5, <1>8, <2>2, <2>3 DEF FramesOnPlan, Me
<1> QED BY <1>9, <1>10 DEF OnPlan

\* thread2 is READY in the 14th quantum, and main blocks it.
LEMMA BlockOnPlan ==
  ASSUME IInv, DemoInv, ~ hasty, OnPlan, MainBlocks
  PROVE  OnPlan'
<1>1. /\ process = "running" /\ At("main", 14) /\ Step("act", "catch_up", Me.i + 1)
      /\ UNCHANGED hasty
  BY DEF MainBlocks, Acted, Step
<1>2. /\ frame[0].code = "main" /\ 0 \in ActiveIds /\ running_thread_id \in ActiveIds
      /\ \A t, u \in ActiveIds : frame[t].code = frame[u].code => t = u
      /\ QueueOnPlan /\ FramesOnPlan
  BY <1>1, PlanFacts DEF OnPlan
<1>3. /\ running_thread_id = 0 /\ Me.i = 14 /\ total_quantoms = 14
      /\ frame[0].i = 14
  BY <1>1, <1>2 DEF At, Me, FramesOnPlan
<1>4. /\ ActiveIds = {0, 1, 2} /\ ready_queue = <<1, 2>> /\ sleeping_threads = {}
      /\ Runner(14) = 0
  <2>1. Living(14, 14) = {0, 1, 2} /\ Waiting(14, 14) = <<1, 2>> /\ Runner(14) = 0
    BY DEF Living, Waiting, Runner
  <2>2. /\ ActiveIds = Living(total_quantoms, frame[0].i)
        /\ ready_queue = Waiting(total_quantoms, frame[0].i)
    BY <1>2 DEF QueueOnPlan, MAIN_THREAD_ID
  <2>3. ActiveIds = {0, 1, 2} /\ ready_queue = <<1, 2>>
    BY <1>3, <2>1, <2>2, Zenon
  <2>4. sleeping_threads = IF total_quantoms = 18 THEN {1} ELSE {}
    BY <1>2 DEF QueueOnPlan
  <2>5. sleeping_threads = {}
    BY <1>3, <2>4
  <2> QED BY <2>1, <2>3, <2>5
<1>5. /\ ToSet(ready_queue) = {1, 2} /\ IsInjective(ready_queue)
      /\ ready_queue \in Seq(Nat)
      /\ ToSet(ready_queue) = {t \in ActiveIds : is_ready(active_threads[t])}
  <2>1. /\ DOMAIN ready_queue = {1, 2} /\ ready_queue[1] = 1 /\ ready_queue[2] = 2
    BY <1>4
  <2>2. ToSet(ready_queue) = {1, 2}
    BY <2>1 DEF ToSet
  <2> QED BY <1>1, <2>2 DEF IInv, Types, Consistent, ReadyQueueExact
<1>6. BlockOther(2)
  <2>1. 2 \in ActiveIds /\ is_ready(active_threads[2])
    BY <1>5
  <2> QED BY <2>1 DEF MainBlocks
<1>7. /\ UNCHANGED <<process, sleeping_threads, running_thread_id, total_quantoms>>
      /\ UNCHANGED ActiveIds
      /\ ready_queue' = RemoveFirst(ready_queue, 2)
  BY <1>6 DEF BlockOther, ActiveIds
<1>8. ready_queue' = << 1 >>
  <2>1. /\ ready_queue' \in Seq(Nat) /\ IsInjective(ready_queue')
        /\ ToSet(ready_queue') = ToSet(ready_queue) \ {2}
    BY <1>5, <1>7, Erase
  <2>2. ToSet(ready_queue') = {1} /\ 1 \in Nat
    BY <1>5, <2>1
  <2> QED BY <2>1, <2>2, HoldsLittle
<1>9. /\ Me.i + 1 = 15 /\ "catch_up" \in Places
      /\ frame' = [frame EXCEPT ![running_thread_id] = Moved("catch_up", 15)]
  <2>1. Me.i + 1 = 15 /\ "catch_up" \in Places
    BY <1>3 DEF Places
  <2> QED BY <1>1, <2>1, StepMoves
<1>10. FramesOnPlan' /\ frame'[0].i = 15
  <2>1. MovesTo("catch_up", 15)
    BY <1>3, <1>9 DEF MovesTo
  <2> QED BY <1>1, <1>3, <1>7, <2>1, FramesMove
<1>11. Living(14, 15) = {0, 1, 2} /\ Waiting(14, 15) = << 1 >>
  BY <1>4 DEF Living, Waiting
<1>12. QueueOnPlan'
  BY <1>3, <1>4, <1>7, <1>8, <1>10, <1>11 DEF QueueOnPlan, MAIN_THREAD_ID
<1> QED BY <1>10, <1>12 DEF OnPlan

\* thread1 goes to sleep in the 17th quantum and leaves main alone.
LEMMA SleepOnPlan ==
  ASSUME IInv, DemoInv, ~ hasty, OnPlan, Thread1Sleeps
  PROVE  OnPlan'
<1>1. /\ process = "running" /\ At("thread1", 17) /\ Step("act", "catch_up", Me.i + 1)
      /\ total_quantoms < LastQuantum /\ uthread_sleep(1)
      /\ UNCHANGED hasty
  BY DEF Thread1Sleeps, Acted, Step
<1>2. /\ frame \in [ActiveIds -> Frame] /\ running_thread_id \in ActiveIds
      /\ QueueOnPlan /\ FramesOnPlan
      /\ 0 \in ActiveIds /\ frame[0].i \in Int /\ frame[0].i <= total_quantoms + 1
  BY <1>1, PlanFacts DEF OnPlan
<1>3. Me.i = 17 /\ total_quantoms = 17
  BY <1>1, <1>2 DEF At, FramesOnPlan
<1>4. running_thread_id = 1 /\ ready_queue = << 0 >> /\ sleeping_threads = {}
  <2>1. Runner(17) = 1 /\ \A i \in Int : Waiting(17, i) = << 0 >>
    BY DEF Runner, Waiting
  <2> QED BY <1>2, <1>3, <2>1 DEF QueueOnPlan, MAIN_THREAD_ID
<1>5. /\ process' = "running" /\ total_quantoms' = 18
      /\ UNCHANGED ActiveIds
      /\ running_thread_id' = 0 /\ ready_queue' = <<>>
      /\ sleeping_threads' = {1} /\ SleepsOut(active_threads'[1])
  BY <1>1, <1>3, <1>4, SleepLeavesMain, ClockTicks
<1>6. /\ Me.i + 1 = 18 /\ "catch_up" \in Places
      /\ frame' = [frame EXCEPT ![1] = Moved("catch_up", 18)]
  <2>1. Me.i + 1 = 18 /\ "catch_up" \in Places
    BY <1>3 DEF Places
  <2> QED BY <1>1, <1>4, <2>1, StepMoves
<1>7. /\ frame'[1] = Moved("catch_up", 18)
      /\ \A t \in ActiveIds \ {1} : frame'[t] = frame[t]
      /\ frame'[1].i = 18 /\ frame'[1].at = "catch_up"
      /\ frame'[1].code = frame[1].code
  <2>1. /\ frame'[1] = Moved("catch_up", 18) /\ Me = frame[1] /\ frame[1] \in Frame
        /\ \A t \in ActiveIds \ {1} : frame'[t] = frame[t]
    BY <1>2, <1>4, <1>6 DEF Me
  <2> QED BY <2>1 DEF Moved, Frame
<1>8. QueueOnPlan'
  <2>1. Runner(18) = 0 /\ Waiting(18, frame[0].i) = <<>>
    BY DEF Runner, Waiting
  <2>2. Living(18, frame[0].i) = Living(17, frame[0].i)
    BY DEF Living
  <2> QED BY <1>2, <1>3, <1>5, <1>7, <2>1, <2>2 DEF QueueOnPlan, MAIN_THREAD_ID
<1>9. FramesOnPlan'
  <2>1. \A t \in ActiveIds \ {1} : frame[t].at # "act" /\ frame[t].i <= 17 /\ frame[t].i \in Int
    BY <1>1, <1>2, <1>3, <1>4, PlanFacts DEF FramesOnPlan
  <2>2. \A t \in ActiveIds : frame'[t].at # "act" /\ frame'[t].i <= 18
    BY <1>7, <2>1
  <2> QED BY <1>2, <1>4, <1>5, <1>7, <2>2 DEF FramesOnPlan, Me
<1> QED BY <1>8, <1>9 DEF OnPlan

LEMMA PlanStep == IInv /\ DemoInv /\ OnPlan /\ [DemoNext]_demoVars => OnPlan'
<1> SUFFICES ASSUME IInv, DemoInv, OnPlan, [DemoNext]_demoVars, process = "running", ~ hasty
             PROVE  OnPlan'
  <2>1. [DemoNext]_demoVars => UNCHANGED hasty
    BY DEF DemoNext, Start, CatchUp, Compare, Step, MainSpawns, SpawnDemo,
           MainBlocks, Thread1Resumes, Thread1Sleeps, Reports, Acted,
           QuantumOver, DemoEnds, demoVars
  <2>2. [DemoNext]_demoVars => process = "running" \/ UNCHANGED process
    BY DEF DemoNext, Start, CatchUp, Compare, Step, MainSpawns, SpawnDemo,
           uthread_spawn, SpawnOutOfMemory, MainBlocks, Thread1Resumes,
           Thread1Sleeps, Reports, Acted, QuantumOver, internal_time_handler,
           DemoEnds, demoVars, vars, dispatchVars
  <2> QED BY <2>1, <2>2 DEF OnPlan
<1> DEFINE q == total_quantoms
           r == running_thread_id
<1>1. /\ frame \in [ActiveIds -> Frame] /\ r \in ActiveIds /\ 0 \in ActiveIds
      /\ q \in Nat /\ Me \in Frame /\ Me.i \in Int /\ Me.i <= q + 1
      /\ frame[0].code = "main" /\ frame[0].at # "start"
      /\ \A t, u \in ActiveIds : frame[t].code = frame[u].code => t = u
      /\ QueueOnPlan /\ FramesOnPlan
  BY PlanFacts DEF Me, OnPlan
<1>2. q = 17 => r = 1 /\ Me.i <= 17 /\ Me.code = "thread1"
  BY <1>1 DEF QueueOnPlan, FramesOnPlan, Me, Runner
\* The places of the loop where the library is only read.
<1>3. CASE Start
  <2>1. q \in Int /\ Step("start", "catch_up", q) /\ UNCHANGED vars
    BY <1>1, <1>3 DEF Start
  <2>2. "catch_up" \in Places
    BY DEF Places
  <2>3. /\ Me.at = "start"
        /\ frame' = [frame EXCEPT ![r] = Moved("catch_up", q)]
    BY <2>1, <2>2, StepMoves
  <2>4. r # 0
    BY <1>1, <2>3 DEF Me
  <2>5. MovesTo("catch_up", q)
    BY <1>1, <2>3 DEF MovesTo
  <2> QED BY <2>1, <2>4, <2>5, PlanStays
<1>4. CASE CatchUp
  <2> DEFINE n == Max({Me.i, total_quantoms})
  <2>1. Step("catch_up", "compare", n) /\ UNCHANGED vars
    BY <1>4 DEF CatchUp
  <2>2. n \in Int /\ (n <= q <=> Me.i <= q) /\ (Me.i <= 17 /\ q = 17 => n <= 17)
    BY <1>1 DEF Max
  <2> HIDE DEF n
  <2>3. frame' = [frame EXCEPT ![r] = Moved("compare", n)]
    <3>1. "compare" \in Places
      BY DEF Places
    <3> QED BY <2>1, <2>2, <3>1, StepMoves
  <2>4. MovesTo("compare", n)
    BY <1>2, <2>2, <2>3 DEF MovesTo
  <2> QED BY <2>1, <2>2, <2>4, PlanStays
<1>5. CASE Compare
  <2> DEFINE to == IF Me.i = q THEN "act" ELSE "catch_up"
  <2>1. Step("compare", to, Me.i) /\ UNCHANGED vars
    BY <1>5 DEF Compare
  <2>2. to \in Places /\ (to = "act" => Me.i = q)
    BY DEF Places
  <2> HIDE DEF to
  <2>3. frame' = [frame EXCEPT ![r] = Moved(to, Me.i)]
    BY <1>1, <2>1, <2>2, StepMoves
  <2>4. MovesTo(to, Me.i)
    BY <1>1, <1>2, <2>2, <2>3 DEF MovesTo
  <2> QED BY <2>1, <2>4, PlanStays
\* The calls and reports made in a quantum.
<1>6. CASE Reports
  <2>1. Step("act", "catch_up", Me.i + 1) /\ UNCHANGED vars
    BY <1>6 DEF Reports, Acted
  <2>2. Me.i + 1 \in Int /\ "catch_up" \in Places
    BY <1>1 DEF Places
  <2>3. /\ Me.at = "act"
        /\ frame' = [frame EXCEPT ![r] = Moved("catch_up", Me.i + 1)]
    BY <2>1, <2>2, StepMoves
  <2>4. Me.i = q
    BY <1>1, <2>3 DEF FramesOnPlan
  <2>5. q = 17 => Me.i + 1 <= 17
    BY <1>2, <1>6, <2>4 DEF Reports
  <2>6. r = 0 => q \notin {3, 11, 14}
    BY <1>1, <1>6, <2>4 DEF Reports, Me
  <2>7. MovesTo("catch_up", Me.i + 1)
    BY <2>2, <2>3, <2>5 DEF MovesTo
  <2> QED BY <2>1, <2>6, <2>7, PlanStays
<1>7. CASE MainSpawns
  <2>1. CASE At("main", 3) /\ SpawnDemo("thread1")
    BY <2>1, SpawnOnPlan
  <2>2. CASE At("main", 11) /\ SpawnDemo("thread2")
    BY <2>2, SpawnOnPlan
  <2>3. CASE SpawnOutOfMemory
    BY <2>3 DEF SpawnOutOfMemory, Exit, OnPlan
  <2> QED BY <1>7, <2>1, <2>2, <2>3 DEF MainSpawns
<1>8. CASE MainBlocks
  BY <1>8, BlockOnPlan
\* thread1 has no quantum with the number in which it would resume thread2.
<1>9. CASE Thread1Resumes
  <2>1. /\ At("thread1", 25) /\ Me.at = "act" /\ Me.code = "thread1"
        /\ Me.i = 25
    BY <1>9 DEF Thread1Resumes, At
  <2>2. q = 25
    BY <1>1, <2>1 DEF FramesOnPlan
  <2>3. Runner(25) = 0
    BY DEF Runner
  <2> QED BY <1>1, <2>1, <2>2, <2>3 DEF QueueOnPlan, Me
<1>10. CASE Thread1Sleeps
  BY <1>10, SleepOnPlan
<1>11. CASE QuantumOver
  BY <1>11, TimerOnPlan
<1>12. CASE DemoEnds \/ UNCHANGED demoVars
  BY <1>12 DEF DemoEnds, demoVars, vars, dispatchVars, OnPlan, QueueOnPlan,
               FramesOnPlan, Me, ActiveIds
<1> QED BY <1>3, <1>4, <1>5, <1>6, <1>7, <1>8, <1>9, <1>10, <1>11, <1>12
        DEF DemoNext

LEMMA PlanInvariance == DemoSpec => [](IInv /\ DemoInv /\ OnPlan)
<1>1. DemoInit => OnPlan
  <2> SUFFICES ASSUME DemoInit PROVE OnPlan
    OBVIOUS
  <2>1. /\ ActiveIds = {0} /\ running_thread_id = 0 /\ ready_queue = <<>>
        /\ sleeping_threads = {}
        /\ frame = [t \in {0} |-> [code |-> "main", i |-> 1, at |-> "catch_up"]]
    BY DEF DemoInit, Init, ActiveIds, MAIN_THREAD_ID
  <2>2. frame[0] = [code |-> "main", i |-> 1, at |-> "catch_up"]
    BY <2>1
  <2>3. total_quantoms = 1
    BY DemoAssumption, CounterModulusIsPositive DEF DemoInit, Init, Increment
  <2>4. Runner(1) = 0 /\ Living(1, 1) = {0} /\ Waiting(1, 1) = <<>>
    BY DEF Runner, Living, Waiting
  <2> QED BY <2>1, <2>2, <2>3, <2>4
          DEF OnPlan, QueueOnPlan, FramesOnPlan, Me, MAIN_THREAD_ID
<1>2. IInv /\ DemoInv /\ OnPlan /\ [DemoNext]_demoVars => OnPlan'
  BY PlanStep
<1> QED BY <1>1, <1>2, DemoInvariance, PTL DEF DemoSpec

\* If no quantum ends before its thread has acted in it, the threads have the
\* quantums that main.cpp chooses its calls for, however long the run is.
THEOREM KeepsTimetable == DemoSpec => []Timetable
<1>1. IInv /\ DemoInv /\ OnPlan => Timetable
  <2> SUFFICES ASSUME IInv, DemoInv, OnPlan, process = "running", ~ hasty
               PROVE  Timetable
    BY DEF Timetable
  <2> DEFINE q == total_quantoms
  <2>1. /\ q \in Nat /\ q <= MaxQuantums /\ MaxQuantums \in Nat
        /\ running_thread_id = Runner(q)
    BY DemoFacts, DemoAssumption DEF OnPlan, QueueOnPlan, DemoInv, ClockIsInRange
  <2>2. q \in (4 .. 12) \cup (20 .. MaxQuantums) <=> q \in 4 .. 12 \/ q >= 20
    BY <2>1
  <2> QED BY <2>1, <2>2 DEF Timetable, Runner
<1> QED BY <1>1, PlanInvariance, PTL

\* Then nobody resumes thread2 once main has blocked it.
THEOREM BlockedForGood ==
  DemoSpec => [](process = "running" /\ ~ hasty /\ total_quantoms > 14 =>
                   2 \in ActiveIds /\ is_blocked(active_threads[2]))
<1>1. IInv /\ DemoInv /\ OnPlan =>
        (process = "running" /\ ~ hasty /\ total_quantoms > 14 =>
           2 \in ActiveIds /\ is_blocked(active_threads[2]))
  <2> SUFFICES ASSUME IInv, DemoInv, OnPlan,
                      process = "running", ~ hasty, total_quantoms > 14
               PROVE  2 \in ActiveIds /\ is_blocked(active_threads[2])
    OBVIOUS
  <2> DEFINE q == total_quantoms
  <2>1. QueueOnPlan /\ q \in Nat /\ frame[0].i \in Int /\ 0 \in ActiveIds
    BY PlanFacts DEF OnPlan
  <2>2. 2 \in ActiveIds
    BY <2>1 DEF QueueOnPlan, Living
  <2>3. Runner(q) \in {0, 1}
    BY <2>1, TurnsChange DEF Runner
  <2>4. /\ active_threads[2] \in Thread
        /\ is_running(active_threads[2]) <=> running_thread_id = 2
        /\ is_ready(active_threads[2]) <=> 2 \in ToSet(ready_queue)
        /\ is_sleeping(active_threads[2]) <=> 2 \in sleeping_threads
    BY <2>2 DEF IInv, Types, Consistent, OneRunning, ReadyQueueExact, SleepersExact
  <2>5. 2 \notin ToSet(ready_queue)
    <3>1. ready_queue = <<>> \/ ready_queue = <<1 - Runner(q)>>
      BY <2>1 DEF QueueOnPlan, Waiting
    <3>2. ASSUME NEW a \in {0, 1}, ready_queue = <<a>> PROVE 2 \notin ToSet(ready_queue)
      <4>1. DOMAIN ready_queue = {1} /\ ready_queue[1] = a
        BY <3>2
      <4> QED BY <4>1 DEF ToSet
    <3>3. ready_queue = <<>> => DOMAIN ready_queue = {}
      OBVIOUS
    <3> QED BY <2>3, <3>1, <3>2, <3>3 DEF ToSet
  <2>6. 2 \notin sleeping_threads /\ running_thread_id # 2
    BY <2>1, <2>3 DEF QueueOnPlan
  <2> QED BY <2>2, <2>4, <2>5, <2>6
          DEF Thread, ThreadState, is_running, is_ready, is_sleeping, is_blocked
<1> QED BY <1>1, PlanInvariance, PTL
==============================================================================
