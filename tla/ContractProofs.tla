--------------------------- MODULE ContractProofs ---------------------------
(***************************************************************************)
(* Proofs that Scheduler keeps the promises of uthreads.h as stated in     *)
(* UThreadsContract: whoever is blocked while awake stays blocked until it *)
(* is resumed, a sleep lasts as many quantums as were asked for, and every *)
(* quantum is counted for one thread.                                      *)
(*                                                                         *)
(* A step of ContractSpec is one of Scheduler that writes the history, or  *)
(* leaves Scheduler alone, so its invariants hold here too.  What is left  *)
(* is that the structures of the scheduler remember what it says.          *)
(***************************************************************************)
EXTENDS SchedulingProofs, UThreadsContract

-----------------------------------------------------------------------------
(***************************************************************************)
(* Counting modulo CounterModulus.                                         *)
(***************************************************************************)

\* % where no more than one period is left over.
LEMMA OnePeriod ==
  \A x \in 0 .. 2 * CounterModulus - 1 :
    x % CounterModulus = IF x < CounterModulus THEN x ELSE x - CounterModulus
<1> DEFINE M == CounterModulus
<1>1. M \in Nat \ {0}
  BY CounterModulusIsPositive
<1> HIDE DEF M
<1>2. \A x \in 0 .. 2 * M - 1 : x % M = IF x < M THEN x ELSE x - M
  BY <1>1
<1> QED BY <1>2 DEF M

\* The quantum that ends a sleep of n more quantums after quantum c.
EndOfSleep(c, n) == (c + 1 + Max({n, 0})) % CounterModulus

\* The end of a sleep, seen from the quantum after the call: a sleep that is
\* not positive ends there, any other one n quantums later, which is not the
\* same quantum.
LEMMA SleepEndsAfter ==
  ASSUME NEW c \in Counter, NEW n \in Int, n < CounterModulus
  PROVE  /\ EndOfSleep(c, n) \in Counter
         /\ ~ (n >= 1) => EndOfSleep(c, n) = Increment(c)
         /\ n >= 1 => /\ EndOfSleep(c, n) # Increment(c)
                      /\ EndOfSleep(c, n) = EndOfSleep(Increment(c), n - 1)
<1> DEFINE M == CounterModulus
           d == Increment(c)
<1>1. /\ M \in Nat \ {0} /\ c \in 0 .. M - 1 /\ n \in Int /\ n < M
      /\ \A x \in 0 .. 2 * M - 1 : x % M = IF x < M THEN x ELSE x - M
  BY CounterModulusIsPositive, OnePeriod DEF Counter
<1>2. \A m \in Int : Max({m, 0}) = IF m >= 0 THEN m ELSE 0
  BY DEF Max
<1>3. /\ d = (c + 1) % M
      /\ d = IF c + 1 < M THEN c + 1 ELSE c + 1 - M
      /\ d \in 0 .. M - 1
  <2> HIDE DEF M
  <2>1. d = (c + 1) % M
    BY DEF Increment, M
  <2> QED BY <1>1, <2>1
<1> HIDE DEF M, d
<1>4. CASE ~ (n >= 1)
  BY <1>1, <1>2, <1>3, <1>4 DEF Counter, EndOfSleep, M, d
<1>5. CASE n >= 1
  <2>1. Max({n, 0}) = n /\ Max({n - 1, 0}) = n - 1
    BY <1>1, <1>2, <1>5
  <2>2. /\ (c + 1 + n) % M \in 0 .. M - 1
        /\ (c + 1 + n) % M # d
        /\ (c + 1 + n) % M = (d + 1 + (n - 1)) % M
    <3> DEFINE x == c + 1 + n
               y == d + 1 + (n - 1)
               u == x % M
               v == y % M
    <3>1. x \in 0 .. 2 * M - 1 /\ y \in 0 .. 2 * M - 1
      BY <1>1, <1>3, <1>5
    <3>2. /\ M \in Nat \ {0} /\ c \in 0 .. M - 1 /\ n \in 1 .. M - 1
          /\ d \in 0 .. M - 1
          /\ d = IF c + 1 < M THEN c + 1 ELSE c + 1 - M
          /\ x = c + 1 + n /\ y = d + n
      BY <1>1, <1>3, <1>5
    <3> HIDE DEF x, y
    <3>3. /\ u = IF x < M THEN x ELSE x - M
          /\ v = IF y < M THEN y ELSE y - M
      BY <1>1, <3>1
    <3> HIDE DEF u, v
    <3>4. u \in 0 .. M - 1 /\ u # d /\ u = v
      BY <3>1, <3>2, <3>3
    <3> QED BY <3>4 DEF u, v, x, y
  <2> QED BY <1>5, <2>1, <2>2 DEF Counter, EndOfSleep, M, d
<1> QED BY <1>4, <1>5

\* Division with remainder.
LEMMA Remainder ==
  ASSUME NEW a \in Int
  PROVE  /\ a % CounterModulus \in 0 .. CounterModulus - 1
         /\ \E q \in Int : a = CounterModulus * q + (a % CounterModulus)
<1>1. a % CounterModulus \in 0 .. CounterModulus - 1
  BY CounterModulusIsPositive
<1>2. a \div CounterModulus \in Int /\ a = CounterModulus * (a \div CounterModulus) + (a % CounterModulus)
  BY CounterModulusIsPositive
<1> QED BY <1>1, <1>2

\* The only multiple of the modulus that is smaller than it is 0.
LEMMA Whole ==
  ASSUME NEW k \in Int, NEW d \in Int, d = CounterModulus * k, -CounterModulus < d, d < CounterModulus
  PROVE  d = 0
<1>1. k >= 1 => CounterModulus * k >= CounterModulus
  BY CounterModulusIsPositive
<1>2. k <= -1 => CounterModulus * k <= -CounterModulus
  BY CounterModulusIsPositive
<1> QED BY <1>1, <1>2, CounterModulusIsPositive

\* Numbers whole periods apart have the same remainder.
LEMMA SameRemainder ==
  ASSUME NEW a \in Int, NEW b \in Int, NEW q \in Int, a = b + CounterModulus * q
  PROVE  a % CounterModulus = b % CounterModulus
<1>1. PICK x \in Int : a = CounterModulus * x + (a % CounterModulus)
  BY Remainder
<1>2. PICK y \in Int : b = CounterModulus * y + (b % CounterModulus)
  BY Remainder
<1>3. a % CounterModulus \in 0 .. CounterModulus - 1 /\ b % CounterModulus \in 0 .. CounterModulus - 1
  BY Remainder
<1> DEFINE r == a % CounterModulus
           s == b % CounterModulus
<1> HIDE DEF r, s
<1>4. r - s = CounterModulus * (q + y - x)
  <2> DEFINE mq == CounterModulus * q
             mx == CounterModulus * x
             my == CounterModulus * y
  <2>1. /\ mq \in Int /\ mx \in Int /\ my \in Int
        /\ CounterModulus * (q + y - x) = mq + my - mx
    BY CounterModulusIsPositive
  <2>2. /\ a = b + mq /\ a = mx + r /\ b = my + s
        /\ r \in Int /\ s \in Int
    BY <1>1, <1>2, <1>3, CounterModulusIsPositive DEF r, s
  <2> HIDE DEF mq, mx, my
  <2> QED BY <2>1, <2>2
<1>5. r - s \in Int /\ -CounterModulus < r - s /\ r - s < CounterModulus /\ q + y - x \in Int
  BY <1>3, CounterModulusIsPositive DEF r, s
<1>6. r - s = 0
  BY <1>4, <1>5, Whole
<1> QED BY <1>3, <1>6, CounterModulusIsPositive DEF r, s

\* It makes no difference whether a summand is reduced first.
LEMMA RemainderOfSum ==
  ASSUME NEW a \in Int, NEW b \in Int
  PROVE  ((a % CounterModulus) + b) % CounterModulus = (a + b) % CounterModulus
<1>1. PICK q \in Int : a = CounterModulus * q + (a % CounterModulus)
  BY Remainder
<1>2. a % CounterModulus \in Int
  BY Remainder, CounterModulusIsPositive
<1> DEFINE r == a % CounterModulus
<1>3. a + b = (r + b) + CounterModulus * q /\ a + b \in Int /\ r + b \in Int
  BY <1>1, <1>2, CounterModulusIsPositive
<1> HIDE DEF r
<1>4. (a + b) % CounterModulus = (r + b) % CounterModulus
  BY <1>3, SameRemainder
<1> QED BY <1>4 DEF r

-----------------------------------------------------------------------------
\* A step seen with its history is a step of the scheduler.
LEMMA ContractStepIsStep == [ContractNext]_contractVars => [Next]_vars
BY DEF ContractNext, Next, Terminate, Block, Resume, Sleep, Other,
       BlockWithoutEffect, ResumeWithoutEffect, contractVars, vars

\* What a new quantum means for the control block of each thread.
LEMMA BlocksAfterQuantum ==
  ASSUME IInv, NeverBoth, process = "running",
         NEW threads, NEW queue, NEW sleeping,
         HandsOver(threads, queue, sleeping),
         QuantumStarted(threads, sleeping)
  PROVE  LET D == DOMAIN threads
         IN  /\ process' = "running"
             /\ total_quantoms' = Increment(total_quantoms)
             /\ ActiveIds' = D /\ D \subseteq ActiveIds
             /\ running_thread_id' \in D
             /\ \A t \in sleeping :
                  /\ t \in D /\ threads[t].quantoms_left \in Int
                  /\ t \in sleeping_threads' <=> threads[t].quantoms_left >= 1
             /\ sleeping_threads' \subseteq sleeping
             /\ \A t \in sleeping_threads' :
                  active_threads'[t]
                    = [threads[t] EXCEPT !.quantoms_left = @ - 1]
             /\ \A t \in D \ sleeping :
                  active_threads'[t] = IF t = running_thread_id'
                                         THEN set_running(threads[t])
                                         ELSE threads[t]
             /\ running_thread_id' \notin sleeping =>
                  is_ready(threads[running_thread_id'])
<1> DEFINE D == DOMAIN threads
           r == running_thread_id
           updated == SleepersUpdated(threads, sleeping)
<1>1. /\ D \subseteq ActiveIds /\ ActiveIds \ {r} \subseteq D
      /\ \A t \in ActiveIds \ {r} : threads[t] = active_threads[t]
      /\ r \in D => threads[r].state \in {"READY", "BLOCKED", "SLEEPING"}
      /\ \A t \in D : threads[t] \in Thread
      /\ sleeping = {t \in D : is_sleeping(threads[t])}
  BY DEF HandsOver, WellFormed
<1>2. /\ process' = "running"
      /\ total_quantoms' = Increment(total_quantoms)
      /\ running_thread_id' \in D
      /\ is_ready(updated[running_thread_id'])
      /\ sleeping_threads' = {t \in sleeping : is_sleeping(updated[t])}
      /\ active_threads' = [t \in D |-> IF t = running_thread_id'
                                          THEN set_running(updated[t])
                                          ELSE updated[t]]
  BY DEF QuantumStarted
<1>3. \A t \in D : updated[t] = IF t \in sleeping
                                  THEN update_sleep_value(threads[t])
                                  ELSE threads[t]
  BY DEF SleepersUpdated
<1> HIDE DEF D, updated
<1>4. ActiveIds' = D
  BY <1>2 DEF ActiveIds
<1>5. ASSUME NEW t \in sleeping
      PROVE  /\ t \in D /\ threads[t] \in Thread /\ threads[t].state = "SLEEPING"
             /\ threads[t].quantoms_left \in Int
             /\ threads[t].quantoms_left >= 1 =>
                  updated[t] = [threads[t] EXCEPT !.quantoms_left = @ - 1]
             /\ t \in sleeping_threads' <=> threads[t].quantoms_left >= 1
  <2>1. /\ t \in D /\ threads[t] \in Thread /\ is_sleeping(threads[t])
        /\ threads[t].quantoms_left \in Int
    BY <1>1 DEF Thread
  <2>2. threads[t].state = "SLEEPING"
    BY <1>1, <2>1 DEF NeverBoth, is_sleeping
  <2>3. CASE threads[t].quantoms_left >= 1
    <3>1. updated[t] = [threads[t] EXCEPT !.quantoms_left = @ - 1]
      BY <1>3, <2>1, <2>3 DEF update_sleep_value
    <3>2. is_sleeping(updated[t])
      BY <2>1, <2>2, <3>1 DEF Thread, is_sleeping
    <3> QED BY <1>2, <2>1, <2>2, <2>3, <3>1, <3>2
  <2>4. CASE ~ (threads[t].quantoms_left >= 1)
    <3> DEFINE rested == [threads[t] EXCEPT !.quantoms_left = NOT_SLEEPING]
    <3>1. rested \in Thread /\ rested.state = "SLEEPING"
      BY <2>1, <2>2 DEF Thread, NOT_SLEEPING
    <3>2. updated[t] = wake_up(rested)
      BY <1>3, <2>1, <2>4 DEF update_sleep_value
    <3> HIDE DEF rested
    <3>3. wake_up(rested) = [rested EXCEPT !.state = "READY"]
      BY <3>1 DEF wake_up
    <3>4. ~ is_sleeping(updated[t])
      BY <3>1, <3>2, <3>3 DEF Thread, is_sleeping
    <3> QED BY <1>2, <2>1, <2>2, <2>4, <3>4
  <2> QED BY <2>3, <2>4
<1>6. ASSUME NEW t \in sleeping_threads'
      PROVE  active_threads'[t] = [threads[t] EXCEPT !.quantoms_left = @ - 1]
  <2>1. t \in sleeping /\ is_sleeping(updated[t])
    BY <1>2
  <2>2. t # running_thread_id' /\ t \in D
    BY <1>2, <1>5, <2>1, StatesExclusive
  <2>3. updated[t] = [threads[t] EXCEPT !.quantoms_left = @ - 1]
    BY <1>5, <2>1
  <2> QED BY <1>2, <2>2, <2>3
<1> QED BY <1>1, <1>2, <1>3, <1>4, <1>5, <1>6 DEF D

-----------------------------------------------------------------------------
(***************************************************************************)
(* uthread_block.                                                          *)
(***************************************************************************)

\* The threads held are alive and simply BLOCKED: with NeverBoth this makes
\* BlockLastsUntilResume inductive.
HeldBlocked ==
  process = "running" =>
    \A t \in held \ ignored :
      t \in ActiveIds /\ active_threads[t].state = "BLOCKED"

\* A new quantum leaves the BLOCKED threads BLOCKED.
LEMMA QuantumKeepsHeld ==
  ASSUME IInv, NeverBoth, NEW threads, NEW queue, NEW sleeping,
         process = "running", HandsOver(threads, queue, sleeping),
         \A t \in held' \ ignored' :
           t \in DOMAIN threads /\ threads[t].state = "BLOCKED"
  PROVE  HeldBlocked'
<1>1. CASE Abort
  BY <1>1 DEF Abort, HeldBlocked
<1>2. CASE QuantumStarted(threads, sleeping)
  <2> SUFFICES ASSUME NEW t \in held' \ ignored'
               PROVE  t \in ActiveIds' /\ active_threads'[t].state = "BLOCKED"
    BY DEF HeldBlocked
  <2>1. t \in DOMAIN threads /\ threads[t].state = "BLOCKED"
    OBVIOUS
  <2>2. t \notin sleeping /\ ~ is_ready(threads[t])
    BY <2>1 DEF HandsOver, WellFormed, is_sleeping, is_ready
  <2>3. /\ ActiveIds' = DOMAIN threads
        /\ \A u \in DOMAIN threads \ sleeping :
             active_threads'[u] = IF u = running_thread_id'
                                    THEN set_running(threads[u])
                                    ELSE threads[u]
        /\ running_thread_id' \notin sleeping =>
             is_ready(threads[running_thread_id'])
    BY <1>2, BlocksAfterQuantum
  <2>4. t # running_thread_id'
    BY <2>2, <2>3
  <2> QED BY <2>1, <2>2, <2>3, <2>4
<1> QED BY <1>1, <1>2, QuantumStarts

LEMMA HeldStep ==
  ASSUME IInv, NeverBoth, [ContractNext]_contractVars, HeldBlocked
  PROVE  HeldBlocked'
<1> DEFINE r == running_thread_id
<1>1. /\ DispatchTypeOK
      /\ process = "running" => ThreadsConsistent
  BY Parts DEF IInv
<1>2. ASSUME process = "running"
      PROVE  /\ r \in ActiveIds /\ active_threads[r].state = "RUNNING"
             /\ \A t \in held \ ignored : t \in ActiveIds \ {r}
             /\ \A t \in held \ ignored : active_threads[t].state = "BLOCKED"
  BY <1>2, LifeFacts DEF HeldBlocked
\* What is held after a step that starts no quantum.
<1>3. ASSUME process = "running",
             \A t \in held' \ ignored' :
               t \in ActiveIds' /\ active_threads'[t].state = "BLOCKED"
      PROVE  HeldBlocked'
  BY <1>3 DEF HeldBlocked
<1>4. ASSUME NEW tid \in ActiveIds, Terminate(tid), TerminateSelf(tid)
      PROVE  HeldBlocked'
  <2> DEFINE threads == Without(active_threads, r)
  <2>1. /\ process = "running"
        /\ HandsOver(threads, ready_queue, sleeping_threads)
    BY <1>4, QuantumHandsOver DEF TerminateSelf
  <2>2. held' \ ignored' \subseteq held \ ignored
    BY <1>4 DEF Terminate, Record
  <2>3. \A t \in held' \ ignored' :
          t \in DOMAIN threads /\ threads[t].state = "BLOCKED"
    BY <1>2, <2>1, <2>2 DEF Without, ActiveIds
  <2> HIDE DEF threads
  <2> QED BY <2>1, <2>3, QuantumKeepsHeld
<1>5. ASSUME NEW tid \in ActiveIds, Terminate(tid), TerminateOther(tid)
      PROVE  HeldBlocked'
  <2>1. /\ process = "running"
        /\ active_threads' = Without(active_threads, tid)
        /\ \A t \in held' \ ignored' : t \in (held \ ignored) \ {tid}
    BY <1>5 DEF Terminate, TerminateOther, Record
  <2> QED BY <1>2, <1>3, <2>1 DEF Without, ActiveIds
<1>6. ASSUME NEW tid \in ActiveIds, Block(tid), BlockSelf(tid)
      PROVE  HeldBlocked'
  <2> DEFINE threads == [active_threads EXCEPT ![r] = set_block(@)]
  <2>1. /\ process = "running" /\ tid = r
        /\ HandsOver(threads, ready_queue, sleeping_threads)
    BY <1>6, QuantumHandsOver DEF BlockSelf
  <2>2. \A t \in held' \ ignored' : t \in (held \ ignored) \cup {r}
    BY <1>6, <2>1 DEF Block, Record
  <2>3. /\ DOMAIN threads = ActiveIds
        /\ \A t \in ActiveIds \ {r} : threads[t] = active_threads[t]
        /\ threads[r].state = "BLOCKED"
    BY <1>1, <1>2, <2>1 DEF set_block, Thread, DispatchTypeOK
  <2>4. \A t \in held' \ ignored' :
          t \in DOMAIN threads /\ threads[t].state = "BLOCKED"
    BY <1>2, <2>1, <2>2, <2>3
  <2> HIDE DEF threads
  <2> QED BY <2>1, <2>4, QuantumKeepsHeld
<1>7. ASSUME NEW tid \in ActiveIds, Block(tid),
             BlockOther(tid) \/ BlockWithoutEffect(tid)
      PROVE  HeldBlocked'
  <2>1. /\ process = "running"
        /\ active_threads[tid] \in Thread
        /\ active_threads[tid].state # "BLOCKED_AND_SLEEPING"
    BY <1>1, <1>7 DEF BlockOther, BlockWithoutEffect, NeverBoth, DispatchTypeOK
  <2>2. CASE is_sleeping(active_threads[tid])
    <3>1. /\ BlockWithoutEffect(tid)
          /\ \A t \in held' \ ignored' : t \in held \ ignored
      BY <1>7, <2>2, StatesExclusive DEF Block, BlockOther, Record
    <3>2. UNCHANGED active_threads
      BY <3>1 DEF BlockWithoutEffect, vars, dispatchVars
    <3> QED BY <1>2, <1>3, <2>1, <3>1, <3>2 DEF ActiveIds
  <2>3. CASE ~ is_sleeping(active_threads[tid])
    <3>1. \A t \in held' \ ignored' : t \in (held \ ignored) \cup {tid}
      BY <1>7, <2>3 DEF Block, Record
    <3>2. /\ ActiveIds' = ActiveIds
          /\ active_threads'[tid].state = "BLOCKED"
          /\ \A t \in ActiveIds \ {tid} : active_threads'[t] = active_threads[t]
      <4>1. CASE BlockOther(tid)
        BY <2>1, <2>3, <4>1
           DEF BlockOther, set_block, Thread, ActiveIds, is_sleeping
      <4>2. CASE BlockWithoutEffect(tid)
        <5>1. active_threads[tid].state = "BLOCKED"
          BY <2>1, <2>3, <4>2
             DEF BlockWithoutEffect, Thread, ThreadState, is_sleeping, is_ready,
                 is_running
        <5> QED BY <4>2, <5>1
                DEF BlockWithoutEffect, vars, dispatchVars, ActiveIds
      <4> QED BY <1>7, <4>1, <4>2
    <3> QED BY <1>2, <1>3, <2>1, <3>1, <3>2
  <2> QED BY <2>2, <2>3
<1>8. ASSUME NEW tid \in ActiveIds, Resume(tid)
      PROVE  HeldBlocked'
  <2>1. /\ process = "running"
        /\ \A t \in held' \ ignored' : t \in (held \ ignored) \ {tid}
    BY <1>8 DEF Resume, uthread_resume, ResumeWithoutEffect, Record
  <2>2. /\ ActiveIds' = ActiveIds
        /\ \A t \in ActiveIds \ {tid} : active_threads'[t] = active_threads[t]
    BY <1>8 DEF Resume, uthread_resume, ResumeWithoutEffect, vars, dispatchVars,
                ActiveIds
  <2> QED BY <1>2, <1>3, <2>1, <2>2
<1>9. ASSUME NEW n \in SleepArguments, Sleep(n)
      PROVE  HeldBlocked'
  <2> DEFINE threads == [active_threads EXCEPT ![r] = set_sleep(@, n)]
  <2>1. /\ process = "running"
        /\ HandsOver(threads, ready_queue, sleeping_threads \cup {r})
    BY <1>9, QuantumHandsOver DEF Sleep, uthread_sleep
  <2>2. held' = held /\ ignored' = ignored
    BY <1>9 DEF Sleep, Record
  <2>3. \A t \in held' \ ignored' :
          t \in DOMAIN threads /\ threads[t].state = "BLOCKED"
    BY <1>2, <2>1, <2>2 DEF ActiveIds
  <2> HIDE DEF threads
  <2> QED BY <2>1, <2>3, QuantumKeepsHeld
<1>10. CASE Other
  <2>1. held' = held /\ ignored' = ignored
    BY <1>10 DEF Other, Record
  <2>2. CASE uthread_spawn
    <3> DEFINE tid == generate_thread_id
    <3>1. /\ process = "running"
          /\ active_threads' = [t \in ActiveIds \cup {tid} |->
                                  IF t = tid THEN NewThread
                                             ELSE active_threads[t]]
      BY <2>2 DEF uthread_spawn
    <3>2. tid \notin ActiveIds
      BY <1>1, <2>2, <3>1, Parts, ConsistentFacts, TakeId DEF uthread_spawn, IInv
    <3> HIDE DEF tid
    <3> QED BY <1>2, <1>3, <2>1, <3>1, <3>2 DEF ActiveIds
  <2>3. CASE SpawnOutOfMemory \/ TerminateMain
    BY <2>3 DEF SpawnOutOfMemory, TerminateMain, Exit, HeldBlocked
  <2>4. CASE internal_time_handler
    <3> DEFINE threads == [active_threads EXCEPT ![r] = set_ready(@)]
    <3>1. /\ process = "running"
          /\ HandsOver(threads, Append(ready_queue, r), sleeping_threads)
      BY <2>4, QuantumHandsOver DEF internal_time_handler
    <3>2. \A t \in held' \ ignored' :
            t \in DOMAIN threads /\ threads[t].state = "BLOCKED"
      BY <1>2, <2>1, <3>1 DEF ActiveIds
    <3> HIDE DEF threads
    <3> QED BY <3>1, <3>2, QuantumKeepsHeld
  <2> QED BY <1>10, <2>2, <2>3, <2>4 DEF Other
<1>11. CASE UNCHANGED contractVars \/ (Ended /\ UNCHANGED historyVars)
  BY <1>11 DEF contractVars, historyVars, Ended, vars, dispatchVars, HeldBlocked,
               ActiveIds
<1>12. ASSUME NEW tid \in ActiveIds,
              Terminate(tid) \/ Block(tid) \/ Resume(tid)
       PROVE  HeldBlocked'
  <2>1. CASE Terminate(tid)
    BY <1>4, <1>5, <2>1 DEF Terminate
  <2>2. CASE Block(tid)
    BY <1>6, <1>7, <2>2 DEF Block
  <2> QED BY <1>8, <1>12, <2>1, <2>2
<1> QED BY <1>9, <1>10, <1>11, <1>12 DEF ContractNext

\* uthread_block, for every number of threads and through every sequence of
\* calls: a thread blocked while awake is blocked until it is resumed or
\* terminated.
THEOREM BlockLasts == ContractSpec => []BlockLastsUntilResume
<1>1. ContractInit => IInv /\ NeverBoth /\ HeldBlocked
  <2>1. Init => NeverBoth
    BY DEF Init, NeverBoth, ActiveIds, set_running, NewThread
  <2> QED BY <2>1, InitConsistent DEF ContractInit, HeldBlocked
<1>2. IInv /\ NeverBoth /\ HeldBlocked /\ [ContractNext]_contractVars
        => (IInv /\ NeverBoth /\ HeldBlocked)'
  BY ContractStepIsStep, StepConsistent, LifecycleStep, HeldStep
<1>3. HeldBlocked => BlockLastsUntilResume
  BY DEF HeldBlocked, BlockLastsUntilResume, is_blocked
<1> QED BY <1>1, <1>2, <1>3, PTL DEF ContractSpec

\* What uthread_block promises is broken for sleepers only: as long as nobody is
\* blocked in its sleep, a blocked thread neither runs nor waits for the CPU
\* before it is resumed.
THEOREM BlockIsBrokenBySleepOnly ==
  ContractSpec /\ [](ignored = {}) => []BlockedThreadsNeverRun
<1>1. BlockLastsUntilResume /\ ignored = {} => BlockedThreadsNeverRun
  BY StatesExclusive DEF BlockLastsUntilResume, BlockedThreadsNeverRun
<1> QED BY <1>1, BlockLasts, PTL

-----------------------------------------------------------------------------
(***************************************************************************)
(* uthread_sleep.                                                          *)
(***************************************************************************)
UntilTypeOK == until \in [PossibleIds -> Counter \cup {Awake}]

\* The counter of a sleeper tells how many more quantums it sleeps through.
SleepsKnown ==
  process = "running" =>
    \A t \in PossibleIds :
      IF t \in sleeping_threads
        THEN /\ active_threads[t].quantoms_left \in 0 .. CounterModulus - 2
             /\ until[t] =
                  EndOfSleep(total_quantoms, active_threads[t].quantoms_left)
        ELSE until[t] = Awake

SleepIInv == UntilTypeOK /\ SleepsKnown

LEMMA RecordUntil ==
  ASSUME IInv', NEW h, NEW i, NEW u \in [PossibleIds -> Counter \cup {Awake}],
         Record(h, i, u)
  PROVE  /\ UntilTypeOK'
         /\ \A t \in PossibleIds :
              until'[t] = IF u[t] = total_quantoms' THEN Awake ELSE u[t]
<1>1. until' = [t \in PossibleIds |->
                  IF u[t] = total_quantoms' THEN Awake ELSE u[t]]
  BY DEF Record
<1> QED BY <1>1 DEF UntilTypeOK

\* A step that starts no quantum lets everybody sleep on, except a sleeper it
\* deletes.
LEMMA SleepersSleepOn ==
  ASSUME IInv, IInv', SleepIInv, process = "running", UNCHANGED total_quantoms,
         NEW h, NEW i, NEW u \in [PossibleIds -> Counter \cup {Awake}],
         Record(h, i, u),
         \A t \in PossibleIds :
           IF t \in sleeping_threads'
             THEN /\ t \in sleeping_threads /\ u[t] = until[t]
                  /\ active_threads'[t] = active_threads[t]
             ELSE u[t] = Awake
  PROVE  SleepIInv'
<1>1. /\ UntilTypeOK'
      /\ \A t \in PossibleIds :
           until'[t] = IF u[t] = total_quantoms' THEN Awake ELSE u[t]
  BY RecordUntil
<1>2. total_quantoms \in Counter /\ CounterModulus \in Nat \ {0}
  BY CounterModulusIsPositive DEF IInv, Types
<1>3. ASSUME NEW t \in PossibleIds, t \in sleeping_threads'
      PROVE  LET n == active_threads'[t].quantoms_left
             IN  /\ n \in 0 .. CounterModulus - 2
                 /\ until'[t] = EndOfSleep(total_quantoms', n)
  <2> DEFINE n == active_threads[t].quantoms_left
             c == total_quantoms
             M == CounterModulus
  <2>1. /\ n \in 0 .. M - 2 /\ u[t] = EndOfSleep(c, n)
        /\ active_threads'[t] = active_threads[t]
    BY <1>3 DEF SleepIInv, SleepsKnown
  <2> HIDE DEF n
  <2>2. EndOfSleep(c, n) # c
    <3> DEFINE x == c + 1 + n
               v == x % M
    <3>1. M \in Nat \ {0} /\ c \in 0 .. M - 1 /\ x \in 0 .. 2 * M - 1
      BY <1>2, <2>1 DEF Counter
    <3>2. v = IF x < M THEN x ELSE x - M
      BY <3>1, OnePeriod
    <3>3. Max({n, 0}) = n
      BY <1>2, <2>1 DEF Max
    <3>4. EndOfSleep(c, n) = v
      BY <3>3 DEF EndOfSleep
    <3> HIDE DEF v
    <3> QED BY <2>1, <3>1, <3>2, <3>4
  <2> QED BY <1>1, <2>1, <2>2 DEF n
<1>4. ASSUME NEW t \in PossibleIds, t \notin sleeping_threads'
      PROVE  until'[t] = Awake
  BY <1>1, <1>4
<1> QED BY <1>1, <1>3, <1>4 DEF SleepIInv, SleepsKnown

\* A new quantum brings every sleeper one quantum nearer to its end and wakes
\* the ones that are there.
LEMMA QuantumShortensSleeps ==
  ASSUME IInv, NeverBoth, IInv', process = "running",
         NEW threads, NEW queue, NEW sleeping,
         HandsOver(threads, queue, sleeping),
         NEW h, NEW i, NEW u \in [PossibleIds -> Counter \cup {Awake}],
         Record(h, i, u),
         \A t \in PossibleIds :
           IF t \in sleeping
             THEN /\ threads[t].quantoms_left < CounterModulus
                  /\ u[t] = EndOfSleep(total_quantoms, threads[t].quantoms_left)
             ELSE u[t] = Awake
  PROVE  SleepIInv'
<1>1. /\ UntilTypeOK'
      /\ \A t \in PossibleIds :
           until'[t] = IF u[t] = total_quantoms' THEN Awake ELSE u[t]
  BY RecordUntil
<1>2. CASE Abort
  BY <1>1, <1>2 DEF Abort, SleepIInv, SleepsKnown
<1>3. CASE QuantumStarted(threads, sleeping)
  <2>1. /\ total_quantoms' = Increment(total_quantoms)
        /\ \A t \in sleeping :
             /\ t \in DOMAIN threads /\ threads[t].quantoms_left \in Int
             /\ t \in sleeping_threads' <=> threads[t].quantoms_left >= 1
        /\ sleeping_threads' \subseteq sleeping
        /\ \A t \in sleeping_threads' :
             active_threads'[t] = [threads[t] EXCEPT !.quantoms_left = @ - 1]
    BY <1>3, BlocksAfterQuantum
  <2>2. total_quantoms \in Counter /\ CounterModulus \in Nat \ {0}
    BY CounterModulusIsPositive DEF IInv, Types
  <2>3. ASSUME NEW t \in PossibleIds, t \in sleeping
        PROVE  IF t \in sleeping_threads'
                 THEN LET n == active_threads'[t].quantoms_left
                      IN  /\ n \in 0 .. CounterModulus - 2
                          /\ until'[t] = EndOfSleep(total_quantoms', n)
                 ELSE until'[t] = Awake
    <3> DEFINE n == threads[t].quantoms_left
    <3>1. /\ n \in Int /\ n < CounterModulus
          /\ u[t] = EndOfSleep(total_quantoms, n)
      BY <2>1, <2>3
    <3> HIDE DEF n
    <3>2. /\ ~ (n >= 1) => u[t] = total_quantoms'
          /\ n >= 1 => /\ u[t] # total_quantoms'
                       /\ u[t] = EndOfSleep(total_quantoms', n - 1)
      BY <2>1, <2>2, <3>1, SleepEndsAfter
    <3>3. CASE t \in sleeping_threads'
      <4>1. n >= 1
        BY <2>1, <2>3, <3>3 DEF n
      <4>2. active_threads'[t].quantoms_left = n - 1
        <5>1. threads[t] \in Thread
          BY <2>1, <2>3 DEF HandsOver, WellFormed
        <5> QED BY <2>1, <3>3, <5>1 DEF Thread, n
      <4> QED BY <1>1, <2>2, <3>1, <3>2, <3>3, <4>1, <4>2
    <3>4. CASE t \notin sleeping_threads'
      BY <1>1, <2>1, <2>3, <3>2, <3>4 DEF n
    <3> QED BY <3>3, <3>4
  <2>4. ASSUME NEW t \in PossibleIds, t \notin sleeping
        PROVE  t \notin sleeping_threads' /\ until'[t] = Awake
    BY <1>1, <2>1, <2>4
  <2>5. SleepsKnown'
    <3>1. \A t \in PossibleIds :
            IF t \in sleeping_threads'
              THEN LET n == active_threads'[t].quantoms_left
                   IN  /\ n \in 0 .. CounterModulus - 2
                       /\ until'[t] = EndOfSleep(total_quantoms', n)
              ELSE until'[t] = Awake
      BY <2>3, <2>4
    <3> QED BY <3>1 DEF SleepsKnown
  <2> QED BY <1>1, <2>5 DEF SleepIInv
<1> QED BY <1>2, <1>3, QuantumStarts

LEMMA SleepStep ==
  ASSUME IInv, NeverBoth, IInv', [ContractNext]_contractVars, SleepIInv
  PROVE  SleepIInv'
<1> DEFINE r == running_thread_id
<1>1. until \in [PossibleIds -> Counter \cup {Awake}]
  BY DEF SleepIInv, UntilTypeOK
<1>2. ASSUME process = "running"
      PROVE  /\ r \in ActiveIds /\ r \notin sleeping_threads
             /\ ActiveIds \subseteq PossibleIds
             /\ sleeping_threads = {t \in ActiveIds : is_sleeping(active_threads[t])}
             /\ \A t \in PossibleIds :
                  IF t \in sleeping_threads
                    THEN /\ active_threads[t].quantoms_left < CounterModulus
                         /\ until[t] = EndOfSleep(total_quantoms,
                                                  active_threads[t].quantoms_left)
                    ELSE until[t] = Awake
  <2>1. /\ r \in ActiveIds /\ active_threads[r].state = "RUNNING"
        /\ ActiveIds \subseteq PossibleIds
    BY <1>2, LifeFacts DEF Lives!ThreadIds, PossibleIds
  <2>2. sleeping_threads = {t \in ActiveIds : is_sleeping(active_threads[t])}
    BY <1>2 DEF IInv, Consistent, SleepersExact
  <2>3. \A n \in 0 .. CounterModulus - 2 : n < CounterModulus
    BY CounterModulusIsPositive
  <2> QED BY <1>2, <2>1, <2>2, <2>3 DEF SleepIInv, SleepsKnown, is_sleeping
<1>3. ASSUME NEW tid \in ActiveIds, Terminate(tid) PROVE SleepIInv'
  <2> DEFINE u == [until EXCEPT ![tid] = Awake]
  <2>1. /\ process = "running"
        /\ Record(held \ {tid}, ignored \ {tid}, u)
        /\ tid \in PossibleIds
    BY <1>2, <1>3 DEF Terminate, TerminateSelf, TerminateOther
  <2>2. /\ u \in [PossibleIds -> Counter \cup {Awake}]
        /\ u[tid] = Awake
        /\ \A t \in PossibleIds \ {tid} : u[t] = until[t]
    BY <1>1, <2>1
  <2> HIDE DEF u
  <2>3. CASE TerminateSelf(tid)
    <3> DEFINE threads == Without(active_threads, r)
    <3>1. tid = r /\ HandsOver(threads, ready_queue, sleeping_threads)
      BY <2>3, QuantumHandsOver
    <3>2. \A t \in PossibleIds :
            IF t \in sleeping_threads
              THEN /\ threads[t].quantoms_left < CounterModulus
                   /\ u[t] = EndOfSleep(total_quantoms, threads[t].quantoms_left)
              ELSE u[t] = Awake
      BY <1>2, <2>1, <2>2, <3>1 DEF Without, ActiveIds
    <3> HIDE DEF threads
    <3> QED BY <2>1, <2>2, <3>1, <3>2, QuantumShortensSleeps
  <2>4. CASE TerminateOther(tid)
    <3>1. /\ UNCHANGED total_quantoms
          /\ sleeping_threads' = sleeping_threads \ {tid}
          /\ active_threads' = Without(active_threads, tid)
      BY <1>2, <2>1, <2>4 DEF TerminateOther
    <3>2. \A t \in PossibleIds :
            IF t \in sleeping_threads'
              THEN /\ t \in sleeping_threads /\ u[t] = until[t]
                   /\ active_threads'[t] = active_threads[t]
              ELSE u[t] = Awake
      BY <1>2, <2>1, <2>2, <3>1 DEF Without, ActiveIds
    <3> QED BY <2>1, <2>2, <3>1, <3>2, SleepersSleepOn
  <2> QED BY <1>3, <2>3, <2>4 DEF Terminate
\* The steps that record no sleep and start no quantum.
<1>4. ASSUME process = "running", UNCHANGED <<total_quantoms, sleeping_threads>>,
             \A t \in sleeping_threads : active_threads'[t] = active_threads[t],
             NEW h, NEW i, Record(h, i, until)
      PROVE  SleepIInv'
  <2>1. \A t \in PossibleIds :
          IF t \in sleeping_threads'
            THEN /\ t \in sleeping_threads /\ until[t] = until[t]
                 /\ active_threads'[t] = active_threads[t]
            ELSE until[t] = Awake
    BY <1>2, <1>4
  <2> QED BY <1>1, <1>4, <2>1, SleepersSleepOn
\* The steps that record no sleep and start a quantum.
<1>5. ASSUME process = "running",
             NEW threads, NEW queue, HandsOver(threads, queue, sleeping_threads),
             NEW h, NEW i, Record(h, i, until)
      PROVE  SleepIInv'
  <2>1. \A t \in ActiveIds \ {r} : threads[t] = active_threads[t]
    BY <1>5 DEF HandsOver
  <2>2. \A t \in PossibleIds :
          IF t \in sleeping_threads
            THEN /\ threads[t].quantoms_left < CounterModulus
                 /\ until[t] = EndOfSleep(total_quantoms, threads[t].quantoms_left)
            ELSE until[t] = Awake
    BY <1>2, <1>5, <2>1
  <2> QED BY <1>1, <1>5, <2>2, QuantumShortensSleeps
<1>6. ASSUME NEW tid \in ActiveIds, Block(tid) PROVE SleepIInv'
  <2>1. /\ process = "running"
        /\ \E h, i : Record(h, i, until)
    BY <1>6 DEF Block, BlockSelf, BlockOther, BlockWithoutEffect
  <2>2. CASE BlockSelf(tid)
    BY <1>5, <2>1, <2>2, QuantumHandsOver
  <2>3. CASE BlockOther(tid)
    <3>1. /\ UNCHANGED <<total_quantoms, sleeping_threads>>
          /\ tid \notin sleeping_threads
          /\ active_threads' = [active_threads EXCEPT ![tid] = set_block(@)]
      BY <1>2, <2>1, <2>3, StatesExclusive DEF BlockOther
    <3>2. \A t \in sleeping_threads : active_threads'[t] = active_threads[t]
      BY <1>2, <2>1, <3>1 DEF ActiveIds
    <3> QED BY <1>4, <2>1, <3>1, <3>2
  <2>4. CASE BlockWithoutEffect(tid)
    BY <1>4, <2>1, <2>4 DEF BlockWithoutEffect, vars, dispatchVars
  <2> QED BY <1>6, <2>2, <2>3, <2>4 DEF Block
<1>7. ASSUME NEW tid \in ActiveIds, Resume(tid) PROVE SleepIInv'
  <2>1. /\ process = "running"
        /\ \E h, i : Record(h, i, until)
        /\ UNCHANGED <<total_quantoms, sleeping_threads>>
    BY <1>7 DEF Resume, uthread_resume, ResumeWithoutEffect, vars, dispatchVars
  <2>2. \A t \in sleeping_threads : active_threads'[t] = active_threads[t]
    <3>1. CASE uthread_resume(tid)
      <4>1. tid \notin sleeping_threads
        BY <1>2, <2>1, <3>1 DEF uthread_resume, NeverBoth, is_blocked, is_sleeping
      <4> QED BY <1>2, <2>1, <3>1, <4>1 DEF uthread_resume, ActiveIds
    <3>2. CASE ResumeWithoutEffect(tid)
      BY <3>2 DEF ResumeWithoutEffect, vars, dispatchVars
    <3> QED BY <1>7, <3>1, <3>2 DEF Resume
  <2> QED BY <1>4, <2>1, <2>2
<1>8. ASSUME NEW n \in SleepArguments, Sleep(n) PROVE SleepIInv'
  <2> DEFINE threads == [active_threads EXCEPT ![r] = set_sleep(@, n)]
             sleeping == sleeping_threads \cup {r}
             u == [until EXCEPT ![r] = SleepEnds(n)]
  <2>1. /\ process = "running"
        /\ HandsOver(threads, ready_queue, sleeping)
        /\ Record(held, ignored, u)
    BY <1>8, QuantumHandsOver DEF Sleep, uthread_sleep
  <2>2. /\ n \in Int /\ n < CounterModulus
        /\ SleepEnds(n) = EndOfSleep(total_quantoms, n)
        /\ SleepEnds(n) \in Counter
    <3>1. /\ n \in Int /\ n < CounterModulus
          /\ total_quantoms \in Counter
      BY SchedulerAssumption, SleepsFitCounter DEF IInv, Types
    <3>2. SleepEnds(n) = EndOfSleep(total_quantoms, n)
      BY DEF SleepEnds, EndOfSleep
    <3> QED BY <3>1, <3>2, SleepEndsAfter
  <2>3. /\ u \in [PossibleIds -> Counter \cup {Awake}]
        /\ u[r] = SleepEnds(n)
        /\ \A t \in PossibleIds \ {r} : u[t] = until[t]
    BY <1>1, <1>2, <2>1, <2>2
  <2>4. /\ threads[r].quantoms_left = n
        /\ \A t \in ActiveIds \ {r} : threads[t] = active_threads[t]
    <3>1. active_threads[r] \in Thread /\ r \in DOMAIN active_threads
      BY <1>2, <2>1 DEF IInv, Types, ActiveIds
    <3> QED BY <3>1 DEF set_sleep, Thread, ActiveIds
  <2>5. \A t \in PossibleIds :
          IF t \in sleeping
            THEN /\ threads[t].quantoms_left < CounterModulus
                 /\ u[t] = EndOfSleep(total_quantoms, threads[t].quantoms_left)
            ELSE u[t] = Awake
    BY <1>2, <2>1, <2>2, <2>3, <2>4
  <2> HIDE DEF threads, sleeping, u
  <2> QED BY <2>1, <2>3, <2>5, QuantumShortensSleeps
<1>9. CASE Other
  <2>1. Record(held, ignored, until)
    BY <1>9 DEF Other
  <2>2. CASE uthread_spawn
    <3> DEFINE tid == generate_thread_id
    <3>1. /\ process = "running"
          /\ active_threads' = [t \in ActiveIds \cup {tid} |->
                                  IF t = tid THEN NewThread
                                             ELSE active_threads[t]]
          /\ UNCHANGED <<total_quantoms, sleeping_threads>>
      BY <2>2 DEF uthread_spawn
    <3>2. tid \notin ActiveIds
      BY <2>2, <3>1, Parts, ConsistentFacts, TakeId DEF uthread_spawn, IInv
    <3> HIDE DEF tid
    <3>3. \A t \in sleeping_threads : active_threads'[t] = active_threads[t]
      BY <1>2, <3>1, <3>2
    <3> QED BY <1>4, <2>1, <3>1, <3>3
  <2>3. CASE SpawnOutOfMemory \/ TerminateMain
    <3>1. process' # "running"
      BY <2>3 DEF SpawnOutOfMemory, TerminateMain, Exit
    <3> QED BY <1>1, <2>1, <3>1, RecordUntil DEF SleepIInv, SleepsKnown
  <2>4. CASE internal_time_handler
    <3>1. process = "running"
      BY <2>4 DEF internal_time_handler
    <3> QED BY <1>5, <2>1, <2>4, <3>1, QuantumHandsOver
  <2> QED BY <1>9, <2>2, <2>3, <2>4 DEF Other
<1>10. CASE UNCHANGED contractVars \/ (Ended /\ UNCHANGED historyVars)
  BY <1>10 DEF contractVars, historyVars, Ended, vars, dispatchVars, SleepIInv,
               UntilTypeOK, SleepsKnown
<1> QED BY <1>3, <1>6, <1>7, <1>8, <1>9, <1>10 DEF ContractNext

\* uthread_sleep, for every width of the counters, every number of threads and
\* through every sequence of calls: a thread sleeps for exactly the quantums it
\* asked for.
THEOREM SleepIsExact == ContractSpec => []SleepsExactly
<1>1. ContractInit => IInv /\ NeverBoth /\ SleepIInv
  <2>1. Init => NeverBoth
    BY DEF Init, NeverBoth, ActiveIds, set_running, NewThread
  <2>2. ContractInit => SleepIInv
    BY DEF ContractInit, Init, SleepIInv, UntilTypeOK, SleepsKnown, PossibleIds
  <2> QED BY <2>1, <2>2, InitConsistent DEF ContractInit
<1>2. IInv /\ NeverBoth /\ SleepIInv /\ [ContractNext]_contractVars
        => (IInv /\ NeverBoth /\ SleepIInv)'
  BY ContractStepIsStep, StepConsistent, LifecycleStep, SleepStep
<1>3. IInv /\ NeverBoth /\ SleepIInv => SleepsExactly
  <2> SUFFICES ASSUME IInv, NeverBoth, SleepIInv, process = "running"
               PROVE  sleeping_threads = {t \in DOMAIN until : until[t] # Awake}
    BY DEF SleepsExactly
  <2>1. /\ sleeping_threads \subseteq PossibleIds
        /\ DOMAIN until = PossibleIds
    BY LifeFacts DEF IInv, Consistent, SleepersExact, Lives!ThreadIds,
                     PossibleIds, SleepIInv, UntilTypeOK
  <2>2. \A t \in PossibleIds : t \in sleeping_threads <=> until[t] # Awake
    <3> SUFFICES ASSUME NEW t \in PossibleIds, t \in sleeping_threads
                 PROVE  until[t] # Awake
      BY DEF SleepIInv, SleepsKnown
    <3> DEFINE n == active_threads[t].quantoms_left
    <3>1. /\ n \in 0 .. CounterModulus - 2
          /\ until[t] = EndOfSleep(total_quantoms, n)
      BY DEF SleepIInv, SleepsKnown
    <3>2. /\ n \in Int /\ n < CounterModulus
          /\ total_quantoms \in Counter
      BY <3>1, CounterModulusIsPositive DEF IInv, Types
    <3> HIDE DEF n
    <3>3. until[t] \in Counter
      BY <3>1, <3>2, SleepEndsAfter
    <3> QED BY <3>3, CounterModulusIsPositive DEF Counter, Awake
  <2> QED BY <2>1, <2>2
<1> QED BY <1>1, <1>2, <1>3, PTL DEF ContractSpec

-----------------------------------------------------------------------------
(***************************************************************************)
(* Sums over finite sets.                                                  *)
(***************************************************************************)

\* Induction on the subsets of a finite set, with the set of those for which
\* the claim holds in the place of a predicate.
LEMMA SubsetInduction ==
  ASSUME NEW S, IsFiniteSet(S), NEW G \in SUBSET SUBSET S,
         \A T \in SUBSET S :
           (\A U \in SUBSET T : U # T => U \in G) => T \in G
  PROVE  G = SUBSET S
<1> DEFINE B == (SUBSET S) \ G
<1> SUFFICES ASSUME B # {} PROVE FALSE
  OBVIOUS
<1>1. IsWellFoundedOn(StrictSubsetOrdering(S), FiniteSubsetsOf(S))
  BY FS_StrictSubsetOrderingWellFounded
<1>2. B \subseteq FiniteSubsetsOf(S)
  BY FS_Subset DEF FiniteSubsetsOf
<1> HIDE DEF B
<1>3. PICK T \in B : \A U \in B : ~ (<<U, T>> \in StrictSubsetOrdering(S))
  BY <1>1, <1>2, WFMin
<1>4. T \in SUBSET S /\ T \notin G
  BY DEF B
<1>5. \A U \in SUBSET T : U # T => U \in G
  BY <1>3, <1>4 DEF StrictSubsetOrdering, B
<1> QED BY <1>4, <1>5

\* The element that a fold takes out of a set.
Some(s) == CHOOSE x \in s : TRUE

\* It takes an element out of every set that has one.
LEMMA SomeElement ==
  ASSUME NEW s, s # {}
  PROVE  /\ Some(s) \in s
         /\ s \ {Some(s)} \in SUBSET s /\ s \ {Some(s)} # s
BY DEF Some

\* g is the function by which the library sums f over the subsets of S.
SumsUp(g, f, S) ==
  g = [s \in SUBSET S |->
         IF s = {} THEN 0 ELSE f[Some(s)] + g[s \ {Some(s)}]]

\* There is at most one such function, whatever the set it is defined for.
LEMMA SumsUpOnce ==
  ASSUME NEW f, NEW S, IsFiniteSet(S), NEW T \in SUBSET S,
         NEW g, SumsUp(g, f, S), NEW h, SumsUp(h, f, T)
  PROVE  \A s \in SUBSET T : g[s] = h[s]
<1> DEFINE G == {s \in SUBSET T : g[s] = h[s]}
<1>1. ASSUME NEW s \in SUBSET T, \A u \in SUBSET s : u # s => u \in G
      PROVE  s \in G
  <2>1. /\ g[s] = IF s = {} THEN 0 ELSE f[Some(s)] + g[s \ {Some(s)}]
        /\ h[s] = IF s = {} THEN 0 ELSE f[Some(s)] + h[s \ {Some(s)}]
    BY DEF SumsUp
  <2>2. s # {} => g[s \ {Some(s)}] = h[s \ {Some(s)}]
    BY <1>1, SomeElement
  <2> QED BY <2>1, <2>2
<1>2. G = SUBSET T
  <2>1. G \in SUBSET SUBSET T /\ IsFiniteSet(T)
    BY FS_Subset
  <2> HIDE DEF G
  <2> QED BY <1>1, <2>1, SubsetInduction
<1> QED BY <1>2

\* There is one for every finite set.
LEMMA SumsUpExists ==
  ASSUME NEW f, NEW S, IsFiniteSet(S), \A x \in S : f[x] \in Int
  PROVE  \E g \in [SUBSET S -> Int] : SumsUp(g, f, S)
<1> DEFINE G == {s \in SUBSET S : \E g \in [SUBSET s -> Int] : SumsUp(g, f, s)}
<1>1. ASSUME NEW s \in SUBSET S, \A u \in SUBSET s : u # s => u \in G
      PROVE  s \in G
  <2> DEFINE sums(u) == CHOOSE g \in [SUBSET u -> Int] : SumsUp(g, f, u)
             sum(u) == sums(u)[u]
             g == [u \in SUBSET s |->
                     IF u # s THEN sum(u)
                     ELSE IF s = {} THEN 0
                     ELSE f[Some(s)] + sum(s \ {Some(s)})]
  <2>1. ASSUME NEW u \in SUBSET s, u # s
        PROVE  /\ sums(u) \in [SUBSET u -> Int] /\ SumsUp(sums(u), f, u)
               /\ sum(u) \in Int
    <3>1. sums(u) \in [SUBSET u -> Int] /\ SumsUp(sums(u), f, u)
      BY <1>1, <2>1
    <3> HIDE DEF sums
    <3> QED BY <3>1
  <2> HIDE DEF sums
  <2>2. ASSUME NEW u \in SUBSET s, u # s, u # {}
        PROVE  sum(u) = f[Some(u)] + sum(u \ {Some(u)})
    <3> DEFINE v == u \ {Some(u)}
    <3>1. v \in SUBSET u /\ v \in SUBSET s /\ v # s /\ IsFiniteSet(u)
      BY <2>2, SomeElement, FS_Subset
    <3>2. SumsUp(sums(u), f, u) /\ SumsUp(sums(v), f, v)
      BY <2>1, <2>2, <3>1
    <3> HIDE DEF v
    <3>3. sums(u)[v] = sums(v)[v]
      <4>1. \A w \in SUBSET v : sums(u)[w] = sums(v)[w]
        BY <3>1, <3>2, SumsUpOnce
      <4> QED BY <4>1
    <3>4. sums(u)[u] = f[Some(u)] + sums(u)[v]
      BY <2>2, <3>2 DEF SumsUp, v
    <3> QED BY <3>3, <3>4 DEF v
  <2>3. {} # s => sum({}) = 0
    BY <2>1 DEF SumsUp
  <2>4. s # {} => /\ f[Some(s)] \in Int
                  /\ s \ {Some(s)} \in SUBSET s /\ s \ {Some(s)} # s
    BY SomeElement
  <2> HIDE DEF sum
  <2>5. g \in [SUBSET s -> Int]
    <3>1. \A u \in SUBSET s : u # s => sum(u) \in Int
      BY <2>1
    <3>2. CASE s = {}
      BY <3>1, <3>2
    <3>3. CASE s # {}
      <4> DEFINE a == f[Some(s)]
                 b == sum(s \ {Some(s)})
      <4>1. a \in Int /\ b \in Int
        BY <2>4, <3>1, <3>3
      <4> HIDE DEF a, b
      <4>2. a + b \in Int
        BY <4>1
      <4> QED BY <3>1, <3>3, <4>2 DEF a, b
    <3> QED BY <3>2, <3>3
  <2>6. /\ \A u \in SUBSET s : u # s => g[u] = sum(u)
        /\ g[s] = IF s = {} THEN 0 ELSE f[Some(s)] + sum(s \ {Some(s)})
    OBVIOUS
  <2> HIDE DEF g
  <2>7. ASSUME NEW u \in SUBSET s
        PROVE  g[u] = IF u = {} THEN 0 ELSE f[Some(u)] + g[u \ {Some(u)}]
    <3>1. CASE u = s
      BY <2>4, <2>6, <3>1
    <3>2. CASE u # s /\ u = {}
      BY <2>3, <2>6, <3>2
    <3>3. CASE u # s /\ u # {}
      <4>1. u \ {Some(u)} \in SUBSET s /\ u \ {Some(u)} # s
        BY <3>3, SomeElement
      <4> QED BY <2>2, <2>6, <3>3, <4>1
    <3> QED BY <3>1, <3>2, <3>3
  <2>8. SumsUp(g, f, s)
    BY <2>5, <2>7 DEF SumsUp
  <2> QED BY <2>5, <2>8
<1>2. G = SUBSET S
  <2>1. G \in SUBSET SUBSET S
    OBVIOUS
  <2> HIDE DEF G
  <2> QED BY <1>1, <2>1, SubsetInduction
<1> QED BY <1>2

\* It is what SumFunctionOnSet computes.
LEMMA SumIs ==
  ASSUME NEW f, NEW S, IsFiniteSet(S), NEW T \in SUBSET S,
         NEW g, SumsUp(g, f, S), \A x \in S : f[x] \in Int
  PROVE  SumFunctionOnSet(f, T) = g[T]
<1> DEFINE h == CHOOSE h : SumsUp(h, f, T)
<1>1. SumFunctionOnSet(f, T) = h[T]
  BY Zenon DEF SumFunctionOnSet, FoldFunctionOnSet, MapThenFoldSet, SumsUp, Some
<1>2. SumsUp(h, f, T)
  <2>1. IsFiniteSet(T)
    BY FS_Subset
  <2>2. \E k : SumsUp(k, f, T)
    BY <2>1, SumsUpExists
  <2> QED BY <2>2
<1> HIDE DEF h
<1> QED BY <1>1, <1>2, SumsUpOnce

\* A sum, taken apart at any of its elements.
LEMMA SumOf ==
  ASSUME NEW f, NEW S, IsFiniteSet(S), \A x \in S : f[x] \in Int
  PROVE  /\ SumFunctionOnSet(f, S) \in Int
         /\ S = {} => SumFunctionOnSet(f, S) = 0
         /\ \A x \in S :
              SumFunctionOnSet(f, S) = f[x] + SumFunctionOnSet(f, S \ {x})
<1>1. PICK g \in [SUBSET S -> Int] : SumsUp(g, f, S)
  BY SumsUpExists
<1>2. \A T \in SUBSET S : SumFunctionOnSet(f, T) = g[T]
  BY <1>1, SumIs
<1>3. \A T \in SUBSET S :
        g[T] = IF T = {} THEN 0 ELSE f[Some(T)] + g[T \ {Some(T)}]
  BY <1>1 DEF SumsUp
<1> DEFINE G == {T \in SUBSET S : \A x \in T : g[T] = f[x] + g[T \ {x}]}
<1>4. ASSUME NEW T \in SUBSET S, \A U \in SUBSET T : U # T => U \in G,
             NEW x \in T
      PROVE  g[T] = f[x] + g[T \ {x}]
  <2> DEFINE y == Some(T)
             R == (T \ {x}) \ {y}
  <2>1. y \in T /\ g[T] = f[y] + g[T \ {y}]
    BY <1>3, SomeElement
  <2> HIDE DEF y
  <2> SUFFICES ASSUME x # y PROVE g[T] = f[x] + g[T \ {x}]
    BY <2>1
  <2>2. T \ {x} \in G /\ T \ {y} \in G
    BY <1>4, <2>1
  <2>3. y \in T \ {x} /\ x \in T \ {y} /\ (T \ {y}) \ {x} = R /\ R \in SUBSET S
    BY <2>1
  <2> HIDE DEF R
  <2>4. g[T \ {x}] = f[y] + g[R] /\ g[T \ {y}] = f[x] + g[R]
    BY <2>2, <2>3 DEF R
  <2>5. f[x] \in Int /\ f[y] \in Int /\ g[R] \in Int
    BY <1>1, <2>1, <2>3
  <2> QED BY <2>1, <2>4, <2>5
<1>5. G = SUBSET S
  <2>1. G \in SUBSET SUBSET S
    OBVIOUS
  <2>2. \A T \in SUBSET S : (\A U \in SUBSET T : U # T => U \in G) => T \in G
    BY <1>4
  <2> HIDE DEF G
  <2> QED BY <2>1, <2>2, SubsetInduction
<1>6. /\ \A x \in S : g[S] = f[x] + g[S \ {x}]
      /\ g[S] \in Int
      /\ S = {} => g[S] = 0
  BY <1>3, <1>5
<1>7. \A x \in S : S \ {x} \in SUBSET S
  OBVIOUS
<1> QED BY <1>2, <1>6, <1>7

\* A sum depends on its summands only.
LEMMA SameSum ==
  ASSUME NEW f, NEW h, NEW S, IsFiniteSet(S),
         \A x \in S : f[x] \in Int /\ h[x] = f[x]
  PROVE  SumFunctionOnSet(h, S) = SumFunctionOnSet(f, S)
<1> DEFINE F(T) == SumFunctionOnSet(f, T)
           H(T) == SumFunctionOnSet(h, T)
           G == {T \in SUBSET S : H(T) = F(T)}
<1>1. ASSUME NEW T \in SUBSET S, \A U \in SUBSET T : U # T => U \in G
      PROVE  T \in G
  <2>1. IsFiniteSet(T) /\ \A x \in T : f[x] \in Int /\ h[x] \in Int
    BY FS_Subset
  <2>2. CASE T = {}
    BY <2>1, <2>2, SumOf
  <2>3. CASE T # {}
    <3>1. PICK x \in T : TRUE
      BY <2>3
    <3>2. F(T) = f[x] + F(T \ {x}) /\ H(T) = h[x] + H(T \ {x})
      BY <2>1, SumOf
    <3>3. T \ {x} \in G
      BY <1>1
    <3> HIDE DEF F, H
    <3> QED BY <3>2, <3>3
  <2> QED BY <2>2, <2>3
<1>2. G = SUBSET S
  <2>1. G \in SUBSET SUBSET S
    OBVIOUS
  <2> HIDE DEF G
  <2> QED BY <1>1, <2>1, SubsetInduction
<1> QED BY <1>2

\* One element less, or none.
LEMMA SumWithout ==
  ASSUME NEW f, NEW S, IsFiniteSet(S), \A x \in S : f[x] \in Int,
         NEW D, D = S \/ \E x \in S : D = S \ {x}
  PROVE  /\ SumFunctionOnSet(f, S \ D) \in Int
         /\ SumFunctionOnSet(f, D) \in Int
         /\ SumFunctionOnSet(f, S)
              = SumFunctionOnSet(f, S \ D) + SumFunctionOnSet(f, D)
<1>1. /\ IsFiniteSet({}) /\ SumFunctionOnSet(f, {}) = 0
      /\ SumFunctionOnSet(f, S) \in Int
  BY FS_EmptySet, SumOf
<1>2. CASE D = S
  BY <1>1, <1>2
<1>3. ASSUME NEW x \in S, D = S \ {x}
      PROVE  /\ SumFunctionOnSet(f, S \ D) = f[x]
             /\ SumFunctionOnSet(f, D) \in Int
             /\ SumFunctionOnSet(f, S) = f[x] + SumFunctionOnSet(f, D)
  <2>1. S \ D = {x} /\ {x} \ {x} = {} /\ IsFiniteSet({x}) /\ f[x] \in Int
    <3>1. S \ D = {x} /\ {x} \ {x} = {}
      BY <1>3
    <3>2. IsFiniteSet({x})
      BY FS_Singleton
    <3>3. f[x] \in Int
      BY <1>3
    <3> QED BY <3>1, <3>2, <3>3
  <2>2. SumFunctionOnSet(f, {x}) = f[x] + SumFunctionOnSet(f, {x} \ {x})
    BY <2>1, SumOf
  <2>3. SumFunctionOnSet(f, {x}) = f[x]
    BY <1>1, <2>1, <2>2
  <2>4. IsFiniteSet(D) /\ \A y \in D : f[y] \in Int
    BY <1>3, FS_Subset
  <2>5. SumFunctionOnSet(f, D) \in Int
    BY <2>4, SumOf
  <2>6. SumFunctionOnSet(f, S) = f[x] + SumFunctionOnSet(f, D)
    BY <1>3, SumOf
  <2> QED BY <2>1, <2>3, <2>5, <2>6
<1> QED BY <1>2, <1>3

\* What is counted stays counted when one element is put aside, in whole
\* periods of the counters ...
LEMMA PutAside ==
  ASSUME NEW f, NEW S, IsFiniteSet(S), \A x \in S : f[x] \in Int,
         NEW D, D = S \/ \E x \in S : D = S \ {x},
         NEW g, \A x \in D : g[x] = f[x],
         NEW a \in Int
  PROVE  (a + SumFunctionOnSet(f, S)) % CounterModulus
           = (((a + SumFunctionOnSet(f, S \ D)) % CounterModulus)
                + SumFunctionOnSet(g, D)) % CounterModulus
<1> DEFINE p == SumFunctionOnSet(f, S \ D)
           s == SumFunctionOnSet(f, D)
<1>1. p \in Int /\ s \in Int /\ SumFunctionOnSet(f, S) = p + s
  BY SumWithout
<1>2. SumFunctionOnSet(g, D) = s
  <2>1. IsFiniteSet(D) /\ D \subseteq S
    BY FS_Subset
  <2> QED BY <2>1, SameSum
<1> HIDE DEF p, s
<1>3. a + (p + s) = (a + p) + s /\ a + p \in Int
  BY <1>1
<1>4. (((a + p) % CounterModulus) + s) % CounterModulus
        = ((a + p) + s) % CounterModulus
  BY <1>1, <1>3, RemainderOfSum
<1> QED BY <1>1, <1>2, <1>3, <1>4 DEF p

\* ... and counts one more if one that stays does.
LEMMA PutAsideAndCount ==
  ASSUME NEW f, NEW S, IsFiniteSet(S), \A x \in S : f[x] \in Int,
         NEW D, D = S \/ \E x \in S : D = S \ {x},
         NEW g, NEW y \in D, g[y] = Increment(f[y]),
         \A x \in D \ {y} : g[x] = f[x],
         NEW a \in Int
  PROVE  Increment((a + SumFunctionOnSet(f, S)) % CounterModulus)
           = (((a + SumFunctionOnSet(f, S \ D)) % CounterModulus)
                + SumFunctionOnSet(g, D)) % CounterModulus
<1> DEFINE p == SumFunctionOnSet(f, S \ D)
           s == SumFunctionOnSet(f, D)
           rest == SumFunctionOnSet(f, D \ {y})
           n == f[y]
           up == (n + 1) % CounterModulus
<1>1. p \in Int /\ s \in Int /\ SumFunctionOnSet(f, S) = p + s
  BY SumWithout
<1>2. IsFiniteSet(D) /\ IsFiniteSet(D \ {y}) /\ D \subseteq S
  BY FS_Subset
<1>3. s = n + rest /\ rest \in Int /\ n \in Int
  BY <1>2, SumOf
<1>4. up \in Int /\ g[y] = up
  <2>1. n + 1 \in Int
    BY <1>3
  <2>2. up \in 0 .. CounterModulus - 1
    BY <2>1, Remainder
  <2> QED BY <2>2, CounterModulusIsPositive DEF Increment
<1>5. SumFunctionOnSet(g, D) = up + rest
  <2>1. \A x \in D : g[x] \in Int
    BY <1>2, <1>4
  <2>2. SumFunctionOnSet(g, D) = g[y] + SumFunctionOnSet(g, D \ {y})
    BY <1>2, <2>1, SumOf
  <2>3. SumFunctionOnSet(g, D \ {y}) = rest
    BY <1>2, SameSum
  <2> QED BY <1>4, <2>2, <2>3
<1> HIDE DEF p, s, rest, n
<1>6. Increment((a + (p + s)) % CounterModulus)
        = ((n + 1) + (a + p + rest)) % CounterModulus
  <2>1. ((((a + (p + s)) % CounterModulus) + 1) % CounterModulus)
          = ((a + (p + s)) + 1) % CounterModulus
    BY <1>1, RemainderOfSum
  <2>2. (a + (p + s)) + 1 = (n + 1) + (a + p + rest)
    BY <1>1, <1>3
  <2> QED BY <2>1, <2>2 DEF Increment
<1>7. (((a + p) % CounterModulus) + (up + rest)) % CounterModulus
        = (up + (a + p + rest)) % CounterModulus
  <2> HIDE DEF up
  <2>1. (((a + p) % CounterModulus) + (up + rest)) % CounterModulus
          = ((a + p) + (up + rest)) % CounterModulus
    BY <1>1, <1>3, <1>4, RemainderOfSum
  <2>2. (a + p) + (up + rest) = up + (a + p + rest)
    BY <1>1, <1>3, <1>4
  <2> QED BY <2>1, <2>2
<1>8. (up + (a + p + rest)) % CounterModulus
        = ((n + 1) + (a + p + rest)) % CounterModulus
  BY <1>1, <1>3, RemainderOfSum
<1> QED BY <1>1, <1>5, <1>6, <1>7, <1>8 DEF p

-----------------------------------------------------------------------------
(***************************************************************************)
(* uthread_get_total_quantums and uthread_get_quantums.                    *)
(***************************************************************************)

\* How many quantums each thread of the map has run.
Ages(threads) == [t \in DOMAIN threads |-> threads[t].age]

\* QuantumsAddUp, and that there is something to add.
Counted ==
  process = "running" =>
    /\ retired \in Int
    /\ total_quantoms =
         (retired + SumFunctionOnSet(Ages(active_threads), ActiveIds))
           % CounterModulus

LEMMA AgesToSum ==
  ASSUME IInv
  PROVE  /\ IsFiniteSet(ActiveIds)
         /\ \A t \in ActiveIds : Ages(active_threads)[t] \in Int
<1>1. \A t \in ActiveIds : active_threads[t].age \in Counter
  BY DEF IInv, Types, Thread
<1>2. Counter \subseteq Int
  BY CounterModulusIsPositive DEF Counter
<1> QED BY <1>1, <1>2 DEF Ages, ActiveIds, IInv, Types

\* No operation on a control block but set_running touches its age.
LEMMA AgeKept ==
  ASSUME NEW th \in Thread
  PROVE  /\ set_ready(th).age = th.age
         /\ set_block(th).age = th.age
         /\ unblock(th).age = th.age
         /\ update_sleep_value(th).age = th.age
         /\ \A n : set_sleep(th, n).age = th.age
         /\ set_running(th).age = Increment(th.age)
<1>1. ASSUME NEW x \in Thread PROVE wake_up(x).age = x.age
  BY <1>1 DEF Thread, wake_up
<1>2. update_sleep_value(th).age = th.age
  <2> DEFINE rested == [th EXCEPT !.quantoms_left = NOT_SLEEPING]
  <2>1. rested \in Thread /\ rested.age = th.age
    BY DEF Thread, NOT_SLEEPING
  <2>2. wake_up(rested).age = th.age
    BY <1>1, <2>1
  <2> QED BY <2>2 DEF Thread, update_sleep_value
<1> QED
  BY <1>2 DEF Thread, set_ready, set_block, unblock, set_sleep, set_running

\* A step that starts no quantum and deletes at most one thread.
LEMMA QuietCounted ==
  ASSUME IInv, Counted, process = "running",
         NEW h, NEW i, NEW u, Record(h, i, u),
         UNCHANGED total_quantoms,
         ActiveIds' = ActiveIds \/ \E t \in ActiveIds : ActiveIds' = ActiveIds \ {t},
         \A t \in ActiveIds' : active_threads'[t].age = active_threads[t].age
  PROVE  Counted'
<1> DEFINE f == Ages(active_threads)
           g == Ages(active_threads')
           S == ActiveIds
           D == ActiveIds'
           gone == SumFunctionOnSet(f, S \ D)
<1>1. IsFiniteSet(S) /\ \A t \in S : f[t] \in Int
  BY AgesToSum
<1>2. D = S \/ \E t \in S : D = S \ {t}
  OBVIOUS
<1>3. \A t \in D : g[t] = f[t]
  BY <1>2 DEF Ages, ActiveIds
<1>4. /\ retired \in Int
      /\ total_quantoms = (retired + SumFunctionOnSet(f, S)) % CounterModulus
      /\ retired' = (retired + gone) % CounterModulus
  BY DEF Counted, Record, Ages, ActiveIds
<1>5. g = Ages(active_threads)' /\ D = (ActiveIds)'
  BY DEF Ages
<1> HIDE DEF f, g, S, D
<1>6. gone \in Int
  BY <1>1, <1>2, SumWithout
<1>7. (retired + SumFunctionOnSet(f, S)) % CounterModulus
        = (((retired + gone) % CounterModulus)
             + SumFunctionOnSet(g, D)) % CounterModulus
  BY <1>1, <1>2, <1>3, <1>4, PutAside
<1> HIDE DEF gone
<1>8. retired' \in Int
  BY <1>4, <1>6, CounterModulusIsPositive
<1> QED BY <1>4, <1>5, <1>7, <1>8 DEF Counted

\* A step that starts a quantum: it counts for the thread that runs.
LEMMA QuantumCounted ==
  ASSUME IInv, Counted, process = "running",
         NEW h, NEW i, NEW u, Record(h, i, u),
         NEW threads, NEW queue, NEW sleeping,
         HandsOver(threads, queue, sleeping),
         running_thread_id \in DOMAIN threads =>
           threads[running_thread_id].age = active_threads[running_thread_id].age
  PROVE  Counted'
<1> SUFFICES ASSUME QuantumStarted(threads, sleeping) PROVE Counted'
  BY QuantumStarts DEF Abort, Counted
<1> DEFINE f == Ages(active_threads)
           g == Ages(active_threads')
           S == ActiveIds
           D == ActiveIds'
           y == running_thread_id'
           gone == SumFunctionOnSet(f, S \ D)
<1>1. IsFiniteSet(S) /\ \A t \in S : f[t] \in Int
  BY AgesToSum
<1>2. /\ D = DOMAIN threads /\ y \in D
      /\ total_quantoms' = Increment(total_quantoms)
      /\ D = S \/ \E t \in S : D = S \ {t}
  <2>1. /\ D = DOMAIN threads /\ y \in D
        /\ total_quantoms' = Increment(total_quantoms)
    BY DEF QuantumStarted, ActiveIds
  <2>2. DOMAIN threads \subseteq S /\ S \ {running_thread_id} \subseteq DOMAIN threads
    BY DEF HandsOver
  <2>3. DOMAIN threads = S \/ DOMAIN threads = S \ {running_thread_id}
    BY <2>2
  <2> QED BY <2>1, <2>2, <2>3
<1>3. ASSUME NEW t \in D
      PROVE  g[t] = IF t = y THEN Increment(f[t]) ELSE f[t]
  <2>1. t \in S /\ threads[t] \in Thread /\ threads[t].age = f[t]
    BY <1>2 DEF HandsOver, WellFormed, Ages, ActiveIds
  <2> DEFINE updated == SleepersUpdated(threads, sleeping)[t]
  <2>2. updated \in Thread /\ updated.age = f[t]
    <3>1. CASE t \in sleeping
      <4> DEFINE th == threads[t]
      <4>1. updated = update_sleep_value(th)
        BY <1>2, <3>1 DEF SleepersUpdated
      <4>2. th \in Thread /\ th.age = f[t] /\ is_sleeping(th)
        BY <1>2, <2>1, <3>1 DEF HandsOver, WellFormed
      <4>4. MayUpdateSleepValue(th)
        BY <3>1 DEF QuantumStarted
      <4> HIDE DEF th, updated
      <4>3. updated \in Thread /\ updated.age = th.age
        BY <4>1, <4>2, <4>4, AgeKept, UpdateSleepValue
      <4> QED BY <4>2, <4>3
    <3>2. CASE t \notin sleeping
      BY <1>2, <2>1, <3>2 DEF SleepersUpdated
    <3> QED BY <3>1, <3>2
  <2>3. active_threads'[t] = IF t = y THEN set_running(updated) ELSE updated
    BY <1>2 DEF QuantumStarted
  <2>4. g[t] = active_threads'[t].age
    BY DEF Ages, ActiveIds
  <2> HIDE DEF updated
  <2> QED BY <2>2, <2>3, <2>4, AgeKept
<1>4. /\ retired \in Int
      /\ total_quantoms = (retired + SumFunctionOnSet(f, S)) % CounterModulus
      /\ retired' = (retired + gone) % CounterModulus
  BY DEF Counted, Record, Ages, ActiveIds
<1>5. g = Ages(active_threads)' /\ D = (ActiveIds)'
  BY DEF Ages
<1> HIDE DEF f, g, S, D, y
<1>6. gone \in Int
  BY <1>1, <1>2, SumWithout
<1>7. Increment((retired + SumFunctionOnSet(f, S)) % CounterModulus)
        = (((retired + gone) % CounterModulus)
             + SumFunctionOnSet(g, D)) % CounterModulus
  <2>1. g[y] = Increment(f[y]) /\ \A t \in D \ {y} : g[t] = f[t]
    BY <1>2, <1>3
  <2>2. y \in D /\ retired \in Int /\ (D = S \/ \E t \in S : D = S \ {t})
    BY <1>2, <1>4
  <2> QED BY <1>1, <2>1, <2>2, PutAsideAndCount, SMTT(60) DEF gone
<1> HIDE DEF gone
<1>8. retired' \in Int
  BY <1>4, <1>6, CounterModulusIsPositive
<1> QED BY <1>2, <1>4, <1>5, <1>7, <1>8 DEF Counted

\* A step that adds a thread: it has not run yet.
LEMMA SpawnCounted ==
  ASSUME IInv, IInv', Counted, process = "running",
         NEW h, NEW i, NEW u, Record(h, i, u),
         UNCHANGED total_quantoms,
         NEW x, x \notin ActiveIds, ActiveIds' = ActiveIds \cup {x},
         active_threads'[x].age = 0,
         \A t \in ActiveIds : active_threads'[t] = active_threads[t]
  PROVE  Counted'
<1> DEFINE f == Ages(active_threads)
           g == Ages(active_threads')
           S == ActiveIds
           D == ActiveIds'
           sum == SumFunctionOnSet(f, S)
<1>1. IsFiniteSet(S) /\ \A t \in S : f[t] \in Int
  BY AgesToSum
<1>2. g[x] = 0 /\ x \in D /\ D \ {x} = S /\ S \ D = {}
  BY DEF Ages, ActiveIds
<1>3. \A t \in S : g[t] = f[t]
  BY DEF Ages, ActiveIds
<1>4. IsFiniteSet(D)
  <2>1. IsFiniteSet(S \cup {x})
    BY <1>1, FS_AddElement
  <2> QED BY <2>1
<1>5. /\ retired \in Int
      /\ total_quantoms = (retired + sum) % CounterModulus
      /\ retired' = (retired + SumFunctionOnSet(f, {})) % CounterModulus
  BY <1>2 DEF Counted, Record, Ages, ActiveIds
<1>6. g = Ages(active_threads)' /\ D = (ActiveIds)'
  BY DEF Ages
<1>7. \A t \in D : g[t] \in Int
  BY <1>1, <1>2, <1>3
<1> HIDE DEF f, g, S, D
<1>8. sum \in Int /\ SumFunctionOnSet(f, {}) = 0
  <2>1. IsFiniteSet({})
    BY FS_EmptySet
  <2> QED BY <1>1, <2>1, SumOf
<1>9. SumFunctionOnSet(g, D) = sum
  <2>1. SumFunctionOnSet(g, D) = g[x] + SumFunctionOnSet(g, D \ {x})
    BY <1>2, <1>4, <1>7, SumOf
  <2>2. SumFunctionOnSet(g, S) = sum
    BY <1>1, <1>3, SameSum
  <2> HIDE DEF sum
  <2>3. SumFunctionOnSet(g, D) = 0 + SumFunctionOnSet(g, S)
    BY <1>2, <2>1, Zenon
  <2> QED BY <1>8, <2>2, <2>3
<1> HIDE DEF sum
<1>10. retired' = retired % CounterModulus /\ retired' \in Int
  BY <1>5, <1>8, CounterModulusIsPositive
<1>11. ((retired % CounterModulus) + sum) % CounterModulus
         = (retired + sum) % CounterModulus
  BY <1>5, <1>8, RemainderOfSum
<1> QED BY <1>5, <1>6, <1>9, <1>10, <1>11 DEF Counted

LEMMA CountedStep ==
  ASSUME IInv, NeverBoth, IInv', [ContractNext]_contractVars, Counted
  PROVE  Counted'
<1> DEFINE r == running_thread_id
<1>1. ASSUME process = "running"
      PROVE  /\ \A t \in ActiveIds : active_threads[t] \in Thread
             /\ r \in ActiveIds
  BY <1>1, LifeFacts DEF IInv, Types
<1>2. ASSUME NEW tid \in ActiveIds, Terminate(tid) PROVE Counted'
  <2>1. /\ process = "running"
        /\ \E h, i, u : Record(h, i, u)
    BY <1>2 DEF Terminate, TerminateSelf, TerminateOther
  <2>2. CASE TerminateSelf(tid)
    <3> DEFINE threads == Without(active_threads, r)
    <3>1. HandsOver(threads, ready_queue, sleeping_threads)
      BY <2>2, QuantumHandsOver
    <3>2. r \notin DOMAIN threads
      BY DEF Without
    <3> HIDE DEF threads
    <3> QED BY <2>1, <3>1, <3>2, QuantumCounted
  <2>3. CASE TerminateOther(tid)
    <3>1. /\ UNCHANGED total_quantoms
          /\ ActiveIds' = ActiveIds \ {tid}
          /\ \A t \in ActiveIds' : active_threads'[t].age = active_threads[t].age
      BY <2>3 DEF TerminateOther, Without, ActiveIds
    <3> QED BY <2>1, <3>1, QuietCounted
  <2> QED BY <1>2, <2>2, <2>3 DEF Terminate
<1>3. ASSUME NEW tid \in ActiveIds, Block(tid) PROVE Counted'
  <2>1. /\ process = "running"
        /\ \E h, i, u : Record(h, i, u)
    BY <1>3 DEF Block, BlockSelf, BlockOther, BlockWithoutEffect
  <2>2. CASE BlockSelf(tid)
    <3> DEFINE threads == [active_threads EXCEPT ![r] = set_block(@)]
    <3>1. HandsOver(threads, ready_queue, sleeping_threads)
      BY <2>2, QuantumHandsOver
    <3>2. threads[r].age = active_threads[r].age
      BY <1>1, <2>1, AgeKept DEF ActiveIds
    <3> HIDE DEF threads
    <3> QED BY <2>1, <3>1, <3>2, QuantumCounted
  <2>3. CASE BlockOther(tid)
    <3>1. /\ UNCHANGED total_quantoms
          /\ active_threads' = [active_threads EXCEPT ![tid] = set_block(@)]
      BY <2>3 DEF BlockOther
    <3>2. /\ ActiveIds' = ActiveIds
          /\ \A t \in ActiveIds : active_threads'[t].age = active_threads[t].age
      BY <1>1, <2>1, <3>1, AgeKept DEF ActiveIds
    <3> QED BY <2>1, <3>1, <3>2, QuietCounted
  <2>4. CASE BlockWithoutEffect(tid)
    <3>1. UNCHANGED <<total_quantoms, active_threads>> /\ ActiveIds' = ActiveIds
      BY <2>4 DEF BlockWithoutEffect, vars, dispatchVars, ActiveIds
    <3> QED BY <2>1, <3>1, QuietCounted
  <2> QED BY <1>3, <2>2, <2>3, <2>4 DEF Block
<1>4. ASSUME NEW tid \in ActiveIds, Resume(tid) PROVE Counted'
  <2>1. /\ process = "running"
        /\ \E h, i, u : Record(h, i, u)
        /\ UNCHANGED total_quantoms
    BY <1>4 DEF Resume, uthread_resume, ResumeWithoutEffect, vars, dispatchVars
  <2>2. /\ ActiveIds' = ActiveIds
        /\ \A t \in ActiveIds : active_threads'[t].age = active_threads[t].age
    <3>1. CASE uthread_resume(tid)
      <4>1. active_threads' = [active_threads EXCEPT ![tid] = unblock(@)]
        BY <3>1 DEF uthread_resume
      <4> QED BY <1>1, <2>1, <4>1, AgeKept DEF ActiveIds
    <3>2. CASE ResumeWithoutEffect(tid)
      BY <3>2 DEF ResumeWithoutEffect, vars, dispatchVars, ActiveIds
    <3> QED BY <1>4, <3>1, <3>2 DEF Resume
  <2> QED BY <2>1, <2>2, QuietCounted
<1>5. ASSUME NEW n \in SleepArguments, Sleep(n) PROVE Counted'
  <2> DEFINE threads == [active_threads EXCEPT ![r] = set_sleep(@, n)]
             sleeping == sleeping_threads \cup {r}
  <2>1. /\ process = "running"
        /\ HandsOver(threads, ready_queue, sleeping)
        /\ \E h, i, u : Record(h, i, u)
    BY <1>5, QuantumHandsOver DEF Sleep, uthread_sleep
  <2>2. threads[r].age = active_threads[r].age
    BY <1>1, <2>1, AgeKept DEF ActiveIds
  <2> HIDE DEF threads, sleeping
  <2> QED BY <2>1, <2>2, QuantumCounted
<1>6. CASE Other
  <2>1. Record(held, ignored, until)
    BY <1>6 DEF Other
  <2>2. CASE uthread_spawn
    <3> DEFINE tid == generate_thread_id
    <3>1. /\ process = "running"
          /\ active_threads' = [t \in ActiveIds \cup {tid} |->
                                  IF t = tid THEN NewThread
                                             ELSE active_threads[t]]
          /\ UNCHANGED total_quantoms
      BY <2>2 DEF uthread_spawn
    <3>2. tid \notin ActiveIds
      BY <2>2, <3>1, Parts, ConsistentFacts, TakeId DEF uthread_spawn, IInv
    <3> HIDE DEF tid
    <3>3. /\ ActiveIds' = ActiveIds \cup {tid}
          /\ active_threads'[tid].age = 0
          /\ \A t \in ActiveIds : active_threads'[t] = active_threads[t]
      BY <3>1, <3>2 DEF ActiveIds, NewThread
    <3> QED BY <2>1, <3>1, <3>2, <3>3, SpawnCounted
  <2>3. CASE SpawnOutOfMemory \/ TerminateMain
    BY <2>3 DEF SpawnOutOfMemory, TerminateMain, Exit, Counted
  <2>4. CASE internal_time_handler
    <3> DEFINE threads == [active_threads EXCEPT ![r] = set_ready(@)]
               queue == Append(ready_queue, r)
    <3>1. /\ process = "running"
          /\ HandsOver(threads, queue, sleeping_threads)
      BY <2>4, QuantumHandsOver DEF internal_time_handler
    <3>2. threads[r].age = active_threads[r].age
      BY <1>1, <3>1, AgeKept DEF ActiveIds
    <3> HIDE DEF threads, queue
    <3> QED BY <2>1, <3>1, <3>2, QuantumCounted
  <2> QED BY <1>6, <2>2, <2>3, <2>4 DEF Other
<1>7. CASE UNCHANGED contractVars \/ (Ended /\ UNCHANGED historyVars)
  BY <1>7 DEF contractVars, historyVars, Ended, vars, dispatchVars, Counted,
              ActiveIds
<1> QED BY <1>2, <1>3, <1>4, <1>5, <1>6, <1>7 DEF ContractNext

\* uthread_get_total_quantums and uthread_get_quantums agree, for every width
\* of the counters, after they have overflowed too: every quantum started was
\* counted for exactly one thread.
THEOREM QuantumsCounted == ContractSpec => []QuantumsAddUp
<1>1. ContractInit => Counted
  <2> SUFFICES ASSUME ContractInit PROVE Counted
    OBVIOUS
  <2> DEFINE f == Ages(active_threads)
             one == Increment(0)
  <2>1. /\ ActiveIds = {MAIN_THREAD_ID} /\ f[MAIN_THREAD_ID] = one
        /\ retired = 0 /\ total_quantoms = one
    BY DEF ContractInit, Init, ActiveIds, Ages, set_running, NewThread
  <2>2. one \in Int /\ (0 + one) % CounterModulus = one
    BY CounterModulusIsPositive DEF Increment
  <2>3. IsFiniteSet({MAIN_THREAD_ID}) /\ IsFiniteSet({})
    BY FS_Singleton, FS_EmptySet
  <2> HIDE DEF f, one
  <2>4. SumFunctionOnSet(f, {MAIN_THREAD_ID})
          = f[MAIN_THREAD_ID]
              + SumFunctionOnSet(f, {MAIN_THREAD_ID} \ {MAIN_THREAD_ID})
    BY <2>1, <2>2, <2>3, SumOf
  <2>5. /\ {MAIN_THREAD_ID} \ {MAIN_THREAD_ID} = {}
        /\ SumFunctionOnSet(f, {}) = 0
    BY <2>3, SumOf
  <2>6. SumFunctionOnSet(f, ActiveIds) = one
    <3>1. SumFunctionOnSet(f, {MAIN_THREAD_ID}) = one + 0
      BY <2>1, <2>4, <2>5, Zenon
    <3> QED BY <2>1, <2>2, <3>1
  <2> QED BY <2>1, <2>2, <2>6 DEF Counted, f
<1>2. ContractInit => IInv /\ NeverBoth
  <2>1. Init => NeverBoth
    BY DEF Init, NeverBoth, ActiveIds, set_running, NewThread
  <2> QED BY <2>1, InitConsistent DEF ContractInit
<1>3. IInv /\ NeverBoth /\ Counted /\ [ContractNext]_contractVars
        => (IInv /\ NeverBoth /\ Counted)'
  BY ContractStepIsStep, StepConsistent, LifecycleStep, CountedStep
<1>4. Counted => QuantumsAddUp
  BY Zenon DEF Counted, QuantumsAddUp, Ages, ActiveIds, SumFunction,
               SumFunctionOnSet, FoldFunction
<1> QED BY <1>1, <1>2, <1>3, <1>4, PTL DEF ContractSpec

-----------------------------------------------------------------------------
(***************************************************************************)
(* Waiting.                                                                *)
(***************************************************************************)

\* Who has had a quantum while t waited is neither t nor one of those that are
\* still ahead of it: with QueueMovesUp this makes NobodyPassesTwice inductive.
InLine(t) ==
  /\ passed[t] \in Seq(PossibleIds) /\ IsInjective(passed[t])
  /\ t \notin ToSet(passed[t])
  /\ ToSet(passed[t]) \cap Ahead(ready_queue, t) = {}

Queued == process = "running" => \A t \in ToSet(ready_queue) : InLine(t)

\* The threads ahead of another one are in the queue and not that one, and the
\* first of the queue is ahead of everybody else.
LEMMA AheadIs ==
  ASSUME NEW q \in Seq(Nat), IsInjective(q), NEW t \in ToSet(q)
  PROVE  /\ Ahead(q, t) \subseteq ToSet(q) \ {t}
         /\ q # <<>>
         /\ Head(q) # t => Head(q) \in Ahead(q, t)
<1> DEFINE i == Position(q, t)
<1>1. /\ Len(q) \in Nat /\ i \in 1 .. Len(q) /\ q[i] = t
      /\ \A m \in 1 .. Len(q) : q[m] \in ToSet(q)
      /\ \A m, n \in 1 .. Len(q) : q[m] = q[n] => m = n
  BY PositionIs, OnePlaceEach, LenProperties DEF ToSet
<1>2. Ahead(q, t) = {q[m] : m \in 1 .. i - 1}
  BY DEF Ahead
<1> HIDE DEF i
<1>3. ASSUME NEW m \in 1 .. i - 1 PROVE q[m] \in ToSet(q) \ {t}
  <2>1. m \in 1 .. Len(q) /\ m # i
    BY <1>1
  <2> QED BY <1>1, <2>1
<1>4. q # <<>> /\ Head(q) = q[1]
  <2>1. Len(<<>>) = 0
    BY EmptySeq
  <2>2. q # <<>>
    BY <1>1, <2>1
  <2> QED BY <2>2, HeadTailProperties
<1>5. Head(q) # t => 1 \in 1 .. i - 1
  BY <1>1, <1>4
<1> QED BY <1>2, <1>3, <1>4, <1>5

\* The queue and the running thread of a consistent state.
LineIsSound ==
  /\ ready_queue \in Seq(Nat) /\ IsInjective(ready_queue)
  /\ ToSet(ready_queue) \subseteq PossibleIds
  /\ running_thread_id \in PossibleIds \ ToSet(ready_queue)

LEMMA LineFacts == IInv /\ process = "running" => LineIsSound
<1> SUFFICES ASSUME IInv, process = "running" PROVE LineIsSound
  OBVIOUS
<1>1. DispatchTypeOK /\ IdTypeOK /\ ThreadsConsistent /\ IdsAccountedFor
  BY Parts DEF IInv
<1>2. ActiveIds \subseteq PossibleIds
  <2>1. ActiveIds \subseteq 0 .. largest_thread_id
    BY <1>1 DEF IdsAccountedFor
  <2>2. largest_thread_id \in Nat /\ largest_thread_id < MAX_THREAD_NUM
    BY <1>1 DEF IdsAccountedFor, IdTypeOK
  <2> QED BY <2>1, <2>2, SchedulerAssumption DEF PossibleIds
<1>3. running_thread_id \in ActiveIds /\ running_thread_id \notin ToSet(ready_queue)
  BY <1>1, ConsistentFacts, StatesExclusive
<1> QED BY <1>1, <1>2, <1>3, ConsistentFacts DEF LineIsSound

\* The same of the next state.
LEMMA LineFactsNext == (IInv /\ process = "running")' => LineIsSound'
BY LineFacts, PTL

LEMMA QueuedStep ==
  ASSUME IInv, IInv', [ContractNext]_contractVars, Queued
  PROVE  Queued'
<1>1. CASE UNCHANGED contractVars \/ (Ended /\ UNCHANGED historyVars)
  BY <1>1 DEF contractVars, historyVars, Ended, vars, dispatchVars, Queued,
              InLine
<1>2. CASE process = "running" /\ \E h, i, u : Record(h, i, u)
  <2> DEFINE y == running_thread_id'
             Q == ready_queue'
  <2> SUFFICES ASSUME process' = "running", NEW t \in ToSet(Q)
               PROVE  InLine(t)'
    BY DEF Queued
  <2>1. /\ Q \in Seq(Nat) /\ IsInjective(Q) /\ t \in PossibleIds
        /\ y \in PossibleIds \ ToSet(Q)
    BY LineFactsNext DEF LineIsSound
  <2>2. Ahead(Q, t) \subseteq ToSet(Q)
    BY <2>1, AheadIs
  <2>3. QueueMovesUp
    BY <1>2, ContractStepIsStep, StepMovesUp
  <2>4. PICK before :
          /\ passed'[t] = IF NewQuantum THEN Append(before, y) ELSE before
          /\ t \in ToSet(ready_queue) => before = passed[t]
          /\ t \notin ToSet(ready_queue) => before = <<>>
    BY <1>2 DEF Record
  <2>5. /\ before \in Seq(PossibleIds) /\ IsInjective(before)
        /\ t \notin ToSet(before)
        /\ ToSet(before) \cap Ahead(Q, t) = {}
        /\ NewQuantum => y \notin ToSet(before)
    <3>1. CASE t \in ToSet(ready_queue)
      <4>1. InLine(t) /\ before = passed[t]
        BY <1>2, <2>4, <3>1 DEF Queued
      <4>2. Ahead(Q, t) \subseteq Ahead(ready_queue, t)
        BY <2>3, <3>1 DEF QueueMovesUp
      <4>3. ASSUME NewQuantum PROVE y \in Ahead(ready_queue, t)
        <5>1. ready_queue \in Seq(Nat) /\ IsInjective(ready_queue)
          BY <1>2, LineFacts DEF LineIsSound
        <5>2. ready_queue # <<>>
          BY <3>1, <5>1, AheadIs
        <5>3. y = Head(ready_queue)
          BY <2>3, <4>3, <5>2 DEF QueueMovesUp
        <5>4. y # t
          BY <2>1
        <5> QED BY <3>1, <5>1, <5>3, <5>4, AheadIs
      <4> QED BY <4>1, <4>2, <4>3 DEF InLine
    <3>2. CASE t \notin ToSet(ready_queue)
      <4>1. before = <<>>
        BY <2>4, <3>2
      <4>2. <<>> \in Seq(PossibleIds) /\ Len(<<>>) = 0 /\ DOMAIN <<>> = 1 .. Len(<<>>)
        BY EmptySeq, LenProperties
      <4>3. IsInjective(<<>>) /\ ToSet(<<>>) = {}
        BY <4>2 DEF IsInjective, ToSet
      <4> QED BY <4>1, <4>2, <4>3
    <3> QED BY <3>1, <3>2
  <2>6. CASE ~ NewQuantum
    BY <2>4, <2>5, <2>6 DEF InLine
  <2>7. CASE NewQuantum
    <3>1. /\ Append(before, y) \in Seq(PossibleIds)
          /\ IsInjective(Append(before, y))
          /\ ToSet(Append(before, y)) = ToSet(before) \cup {y}
      BY <2>1, <2>5, <2>7, PushBack
    <3>2. passed'[t] = Append(before, y)
      BY <2>4, <2>7
    <3>3. y # t /\ y \notin Ahead(Q, t)
      BY <2>1, <2>2
    <3> QED BY <2>5, <3>1, <3>2, <3>3 DEF InLine
  <2> QED BY <2>6, <2>7
<1>3. ContractNext => \/ Ended /\ UNCHANGED historyVars
                      \/ process = "running" /\ \E h, i, u : Record(h, i, u)
  BY DEF ContractNext, Terminate, Block, Resume, Sleep, Other, TerminateSelf,
         TerminateOther, BlockSelf, BlockOther, BlockWithoutEffect,
         uthread_resume, ResumeWithoutEffect, uthread_sleep, uthread_spawn,
         SpawnOutOfMemory, TerminateMain, internal_time_handler
<1> QED BY <1>1, <1>2, <1>3

\* A queue without repetitions holds as many threads as it is long.
LEMMA LengthIsCardinality ==
  ASSUME NEW S, NEW q \in Seq(S), IsInjective(q)
  PROVE  Cardinality(ToSet(q)) = Len(q)
<1>1. Len(q) \in Nat /\ DOMAIN q = 1 .. Len(q) /\ q \in [1 .. Len(q) -> S]
  BY LenProperties
<1>2. q \in Bijection(1 .. Len(q), ToSet(q))
  BY <1>1 DEF Bijection, Injection, Surjection, IsInjective, ToSet
<1>3. ExistsBijection(1 .. Len(q), ToSet(q))
  BY <1>2 DEF ExistsBijection
<1> QED BY <1>1, <1>3, FS_CountingElements

\* Those that passed a thread, those ahead of it and the thread itself are all
\* different, and there are no more than MAX_THREAD_NUM threads.
LEMMA InLineIsBounded ==
  ASSUME IInv, process = "running", NEW t \in ToSet(ready_queue), InLine(t)
  PROVE  Len(passed[t]) + Cardinality(Ahead(ready_queue, t)) < MAX_THREAD_NUM
<1> DEFINE A == ToSet(passed[t])
           B == Ahead(ready_queue, t)
<1>1. /\ passed[t] \in Seq(PossibleIds) /\ IsInjective(passed[t])
      /\ t \notin A /\ A \cap B = {}
  BY DEF InLine
<1>2. Cardinality(A) = Len(passed[t])
  BY <1>1, LengthIsCardinality
<1>3. A \subseteq PossibleIds
  <2>1. passed[t] \in [1 .. Len(passed[t]) -> PossibleIds]
        /\ DOMAIN passed[t] = 1 .. Len(passed[t])
    BY <1>1, LenProperties
  <2> QED BY <2>1 DEF ToSet
<1>4. B \subseteq PossibleIds /\ t \in PossibleIds /\ t \notin B
  BY LineFacts, AheadIs DEF LineIsSound
<1>5. /\ IsFiniteSet(PossibleIds) /\ Cardinality(PossibleIds) = MAX_THREAD_NUM
  <2>1. MAX_THREAD_NUM \in Nat \ {0}
    BY SchedulerAssumption
  <2>2. 0 \in Int /\ MAX_THREAD_NUM - 1 \in Int /\ ~ (0 > MAX_THREAD_NUM - 1)
        /\ (MAX_THREAD_NUM - 1) - 0 + 1 = MAX_THREAD_NUM
    BY <2>1
  <2> QED BY <2>2, FS_Interval DEF PossibleIds
<1> HIDE DEF A, B
<1>6. /\ IsFiniteSet(A) /\ IsFiniteSet(B)
      /\ Cardinality(A) \in Nat /\ Cardinality(B) \in Nat
  BY <1>3, <1>4, <1>5, FS_Subset, FS_CardinalityType
<1>7. /\ IsFiniteSet(A \cup B)
      /\ Cardinality(A \cup B) = Cardinality(A) + Cardinality(B)
  <2>1. /\ IsFiniteSet(A \cup B)
        /\ Cardinality(A \cup B)
             = Cardinality(A) + Cardinality(B) - Cardinality(A \cap B)
    BY <1>6, FS_Union
  <2>2. Cardinality(A \cap B) = 0
    BY <1>1, FS_EmptySet
  <2> QED BY <1>6, <2>1, <2>2
<1>8. /\ IsFiniteSet((A \cup B) \cup {t})
      /\ Cardinality((A \cup B) \cup {t}) = Cardinality(A \cup B) + 1
  BY <1>1, <1>4, <1>7, FS_AddElement
<1>9. Cardinality((A \cup B) \cup {t}) <= MAX_THREAD_NUM
  <2>1. (A \cup B) \cup {t} \in SUBSET PossibleIds
    BY <1>3, <1>4
  <2> QED BY <1>5, <2>1, FS_Subset
<1>10. Cardinality(A) + Cardinality(B) < MAX_THREAD_NUM
  BY <1>6, <1>7, <1>8, <1>9, SchedulerAssumption
<1> QED BY <1>2, <1>10 DEF B

LEMMA QueuedAlways == ContractSpec => [](IInv /\ Queued)
<1>1. ContractInit => IInv /\ Queued
  <2>1. ContractInit => ready_queue = <<>>
    BY DEF ContractInit, Init
  <2>2. ToSet(<<>>) = {}
    <3>1. Len(<<>>) = 0 /\ DOMAIN <<>> = 1 .. Len(<<>>)
      BY EmptySeq, LenProperties
    <3> QED BY <3>1 DEF ToSet
  <2> QED BY <2>1, <2>2, InitConsistent DEF ContractInit, Queued
<1>2. IInv /\ Queued /\ [ContractNext]_contractVars => (IInv /\ Queued)'
  BY ContractStepIsStep, StepConsistent, QueuedStep
<1> QED BY <1>1, <1>2, PTL DEF ContractSpec

\* While a thread waits for the CPU no other one gets it twice, through any
\* sequence of calls and however many threads there are.
THEOREM NobodyPasses == ContractSpec => []NobodyPassesTwice
<1>1. Queued => NobodyPassesTwice
  BY DEF Queued, InLine, NobodyPassesTwice
<1> QED BY <1>1, QueuedAlways, PTL

\* A READY thread runs after MAX_THREAD_NUM - 1 quantums at the latest, and the
\* fewer threads are still ahead of it the more of them it has behind itself.
THEOREM WaitBounded == ContractSpec => []WaitIsBounded
<1>1. IInv /\ Queued => WaitIsBounded
  BY InLineIsBounded DEF Queued, WaitIsBounded
<1> QED BY <1>1, QueuedAlways, PTL

=============================================================================
