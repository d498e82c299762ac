-------------------------- MODULE SchedulerProofs ---------------------------
(***************************************************************************)
(* Proofs about Scheduler, for every limit on the number of threads, every *)
(* width of the counters and every set of arguments of uthread_sleep.      *)
(*                                                                         *)
(* Consistent is inductive together with Types.  Five actions end in      *)
(* run_topmost_thread_in_ready_queue; the lemma Dispatch says once what it *)
(* makes of the structures its callers hand over, and each of the actions  *)
(* has to show only that it hands over structures that are WellFormed.     *)
(***************************************************************************)
EXTENDS Scheduler, QueueLemmas, WellFoundedInduction

\* Counters and thread ids are Types apart from one another, as most actions
\* touch only one group.
DispatchTypeOK ==
  /\ process \in ProcessState
  /\ ActiveIds \subseteq Nat
  /\ IsFiniteSet(ActiveIds)
  /\ active_threads \in [ActiveIds -> Thread]
  /\ ready_queue \in Seq(Nat)
  /\ sleeping_threads \subseteq Nat
  /\ running_thread_id \in Nat
  /\ total_quantoms \in Counter

IdTypeOK ==
  /\ unused_threads_id \subseteq Nat
  /\ IsFiniteSet(unused_threads_id)
  /\ largest_thread_id \in Nat

\* What Consistent says of the structures that the dispatcher changes.
ThreadsConsistent ==
  /\ OneRunning
  /\ ReadyQueueExact
  /\ SleepersExact
  /\ MainIsSchedulable

\* The structures as a caller of run_topmost_thread_in_ready_queue leaves
\* them: consistent except that nobody is RUNNING.
WellFormed(threads, queue, sleeping) ==
  /\ DOMAIN threads \subseteq Nat
  /\ IsFiniteSet(DOMAIN threads)
  /\ threads \in [DOMAIN threads -> Thread]
  /\ queue \in Seq(Nat)
  /\ IsInjective(queue)
  /\ ToSet(queue) = {t \in DOMAIN threads : is_ready(threads[t])}
  /\ sleeping = {t \in DOMAIN threads : is_sleeping(threads[t])}
  /\ \A t \in DOMAIN threads : ~ is_running(threads[t])
  /\ MAIN_THREAD_ID \in DOMAIN threads
  /\ is_ready(threads[MAIN_THREAD_ID])

-----------------------------------------------------------------------------
(***************************************************************************)
(* The methods of Thread.                                                  *)
(***************************************************************************)

\* ++ keeps an int counter within its width.
LEMMA IncrementType == \A c \in Int : Increment(c) \in Counter
BY CounterModulusIsPositive DEF Increment, Counter

\* A thread is in one state, and of the five states only these are told apart.
LEMMA StatesExclusive ==
  ASSUME NEW th
  PROVE  /\ ~ (is_running(th) /\ is_ready(th))
         /\ ~ (is_running(th) /\ is_sleeping(th))
         /\ ~ (is_ready(th) /\ is_sleeping(th))
         /\ ~ (is_blocked(th) /\ (is_running(th) \/ is_ready(th)))
BY DEF is_running, is_ready, is_sleeping, is_blocked

\* The constructor makes a READY thread.
LEMMA NewThreadIsReady == NewThread \in Thread /\ is_ready(NewThread)
BY CounterModulusIsPositive
   DEF NewThread, Thread, ThreadState, Counter, NOT_SLEEPING, is_ready

\* What the setters of the state leave behind.
LEMMA SetState ==
  ASSUME NEW th \in Thread
  PROVE  /\ set_running(th) \in Thread /\ is_running(set_running(th))
         /\ set_ready(th) \in Thread /\ is_ready(set_ready(th))
         /\ ~ is_sleeping(th) =>
              /\ set_block(th) \in Thread
              /\ is_blocked(set_block(th))
              /\ ~ is_sleeping(set_block(th))
<1>1. Increment(th.age) \in Counter
  BY IncrementType, CounterModulusIsPositive DEF Thread, Counter
<1> QED
  BY <1>1 DEF Thread, ThreadState, set_running, set_ready, set_block,
              is_running, is_ready, is_blocked, is_sleeping

\* set_sleep on the running thread puts it to sleep for just num_quantoms.
LEMMA SetSleep ==
  ASSUME NEW th \in Thread, is_running(th), NEW n \in Int
  PROVE  /\ set_sleep(th, n) \in Thread
         /\ is_sleeping(set_sleep(th, n))
         /\ set_sleep(th, n).quantoms_left = n
BY DEF Thread, ThreadState, set_sleep, is_running, is_sleeping

\* Resuming a blocked thread makes it READY, unless it still sleeps.
LEMMA Unblock ==
  ASSUME NEW th \in Thread, is_blocked(th)
  PROVE  /\ unblock(th) \in Thread
         /\ ~ is_running(unblock(th))
         /\ unblock(th).quantoms_left = th.quantoms_left
         /\ is_sleeping(unblock(th)) <=> is_sleeping(th)
BY DEF Thread, ThreadState, unblock, is_blocked, is_running, is_sleeping

\* Counting down never makes a sleeper's counter NOT_SLEEPING without waking
\* it: the next update finds the sleeper as update_sleep_value asserts.
LEMMA UpdateSleepValue ==
  ASSUME NEW th \in Thread, MayUpdateSleepValue(th)
  PROVE  /\ update_sleep_value(th) \in Thread
         /\ ~ is_running(update_sleep_value(th))
         /\ is_sleeping(update_sleep_value(th)) =>
              MayUpdateSleepValue(update_sleep_value(th))
<1>1. CASE th.quantoms_left >= 1
  BY <1>1 DEF MayUpdateSleepValue, Thread, ThreadState, NOT_SLEEPING,
              update_sleep_value, is_running, is_sleeping
<1>2. CASE ~ (th.quantoms_left >= 1)
  <2> DEFINE rested == [th EXCEPT !.quantoms_left = NOT_SLEEPING]
  <2>1. rested \in Thread /\ rested.state = th.state
    BY DEF Thread, NOT_SLEEPING
  <2>2. update_sleep_value(th) = wake_up(rested)
    BY <1>2 DEF update_sleep_value
  <2> HIDE DEF rested
  <2>3. CASE th.state = "SLEEPING"
    <3>1. wake_up(rested) = [rested EXCEPT !.state = "READY"]
      BY <2>1, <2>3 DEF wake_up
    <3> QED
      BY <2>1, <2>2, <3>1 DEF Thread, ThreadState, is_running, is_sleeping
  <2>4. CASE th.state = "BLOCKED_AND_SLEEPING"
    <3>1. wake_up(rested) = [rested EXCEPT !.state = "BLOCKED"]
      BY <2>1, <2>4 DEF wake_up
    <3> QED
      BY <2>1, <2>2, <3>1 DEF Thread, ThreadState, is_running, is_sleeping
  <2> QED BY <2>3, <2>4 DEF MayUpdateSleepValue, is_sleeping
<1> QED BY <1>1, <1>2

-----------------------------------------------------------------------------
(***************************************************************************)
(* run_topmost_thread_in_ready_queue.                                      *)
(***************************************************************************)

\* The dispatcher started a quantum: every sleeper has been updated, those it
\* woke stand behind the queue in the given order, and the front of the queue,
\* which is not empty, runs.
FrontDispatched(threads, queue, sleeping, order) ==
  LET updated == SleepersUpdated(threads, sleeping)
      longer  == queue \o order
  IN  /\ \A t \in sleeping : MayUpdateSleepValue(threads[t])
      /\ \A t \in DOMAIN threads :
           updated[t] \in Thread /\ ~ is_running(updated[t])
      /\ IsInjective(order)
      /\ ToSet(order) = {t \in sleeping : is_ready(updated[t])}
      /\ ToSet(queue) \cap ToSet(order) = {}
      /\ longer \in Seq(Nat)
      /\ IsInjective(longer)
      /\ ToSet(longer) = {t \in DOMAIN threads : is_ready(updated[t])}
      /\ longer # <<>>
      /\ Head(longer) \in ToSet(longer)
      /\ process' = "running"
      /\ total_quantoms' = Increment(total_quantoms)
      /\ running_thread_id' = Head(longer)
      /\ ready_queue' = Tail(longer)
      /\ sleeping_threads' = {t \in sleeping : is_sleeping(updated[t])}
      /\ active_threads' =
           [t \in DOMAIN threads |->
              IF t = Head(longer) THEN set_running(updated[t]) ELSE updated[t]]

\* Handed well-formed structures, the dispatcher starts a quantum, unless a
\* sleeper's counter is not one that update_sleep_value accepts.
LEMMA DispatchOutcome ==
  ASSUME NEW threads, NEW queue, NEW sleeping,
         WellFormed(threads, queue, sleeping),
         process = "running",
         run_topmost_thread_in_ready_queue(threads, queue, sleeping)
  PROVE  \/ Abort /\ ~ (\A t \in sleeping : MayUpdateSleepValue(threads[t]))
         \/ \E order \in Seq(Nat) : FrontDispatched(threads, queue, sleeping, order)
<1> DEFINE D == DOMAIN threads
           updated == SleepersUpdated(threads, sleeping)
           awake   == {t \in sleeping : ~ is_sleeping(updated[t])}
           joining == {t \in awake : is_ready(updated[t])}
<1>1. PICK order \in Bijection(1 .. Cardinality(joining), joining) :
        IF /\ \A t \in sleeping : MayUpdateSleepValue(threads[t])
           /\ queue \o order # <<>> => is_ready(updated[Head(queue \o order)])
          THEN RunFront(updated, queue \o order, sleeping \ awake)
          ELSE Abort
  BY DEF run_topmost_thread_in_ready_queue, PushWoken
<1> DEFINE longer == queue \o order
<1>2. CASE ~ (\A t \in sleeping : MayUpdateSleepValue(threads[t]))
  <2>1. Abort
    BY <1>1, <1>2
  <2> QED BY <1>2, <2>1
<1>3. CASE \A t \in sleeping : MayUpdateSleepValue(threads[t])
  <2>1. /\ DOMAIN updated = D
        /\ updated = [t \in D |-> updated[t]]
        /\ \A t \in D : updated[t] = IF t \in sleeping
                                       THEN update_sleep_value(threads[t])
                                       ELSE threads[t]
    BY DEF SleepersUpdated
  <2>2. /\ D \subseteq Nat /\ IsFiniteSet(D)
        /\ queue \in Seq(Nat) /\ IsInjective(queue)
        /\ ToSet(queue) = {t \in D : is_ready(threads[t])}
        /\ sleeping = {t \in D : is_sleeping(threads[t])}
        /\ MAIN_THREAD_ID \in D /\ is_ready(threads[MAIN_THREAD_ID])
        /\ \A t \in D : threads[t] \in Thread /\ ~ is_running(threads[t])
    BY DEF WellFormed
  <2> HIDE DEF D, updated
  <2>3. \A t \in D : updated[t] \in Thread /\ ~ is_running(updated[t])
    BY <1>3, <2>1, <2>2, UpdateSleepValue
  <2>4. /\ joining \subseteq D
        /\ joining = {t \in sleeping : is_ready(updated[t])}
        /\ joining \cap ToSet(queue) = {}
        /\ ToSet(queue) \cup joining = {t \in D : is_ready(updated[t])}
    <3>1. \A t \in D \ sleeping : is_ready(updated[t]) <=> t \in ToSet(queue)
      BY <2>1, <2>2
    <3>2. \A t \in sleeping : t \notin ToSet(queue)
      BY <2>2, StatesExclusive
    <3>3. \A t \in D : is_ready(updated[t]) => ~ is_sleeping(updated[t])
      BY StatesExclusive
    <3>4. sleeping \subseteq D
      BY <2>2
    <3> QED BY <2>2, <3>1, <3>2, <3>3, <3>4
  <2>5. /\ order \in Seq(Nat) /\ IsInjective(order) /\ ToSet(order) = joining
        /\ longer \in Seq(Nat) /\ IsInjective(longer)
        /\ ToSet(longer) = {t \in D : is_ready(updated[t])}
    <3> HIDE DEF joining
    <3>1. joining \in SUBSET Nat /\ IsFiniteSet(joining)
      BY <2>2, <2>4, FS_Subset
    <3>2. order \in Seq(Nat) /\ IsInjective(order) /\ ToSet(order) = joining
      BY <1>1, <3>1, OrderIsQueue
    <3> HIDE DEF longer
    <3>3. /\ longer \in Seq(Nat) /\ IsInjective(longer)
          /\ ToSet(longer) = ToSet(queue) \cup ToSet(order)
      BY <2>2, <2>4, <3>2, PushBackAll DEF longer
    <3> QED BY <2>4, <3>2, <3>3
  <2> HIDE DEF longer
  <2>6. longer # <<>>
    <3>1. MAIN_THREAD_ID \in ToSet(longer)
      BY <2>1, <2>2, <2>5, StatesExclusive
    <3>2. Len(<<>>) = 0 /\ DOMAIN <<>> = 1 .. Len(<<>>)
      BY EmptySeq, LenProperties
    <3> QED BY <3>1, <3>2 DEF ToSet
  <2> DEFINE front == Head(longer)
  <2>7. front \in ToSet(longer) /\ is_ready(updated[front]) /\ front \in D
    BY <2>5, <2>6, PopFront
  <2>8. RunFront(updated, longer, sleeping \ awake)
    BY <1>1, <1>3, <2>7 DEF longer
  <2> HIDE DEF front
  <2>9. /\ total_quantoms' = Increment(total_quantoms)
        /\ sleeping_threads' = sleeping \ awake
        /\ process' = "running"
        /\ active_threads' = [updated EXCEPT ![front] = set_running(@)]
        /\ ready_queue' = Tail(longer)
        /\ running_thread_id' = front
    BY <2>6, <2>8 DEF RunFront, front
  <2>10. active_threads' = [t \in D |-> IF t = front THEN set_running(updated[t])
                                                     ELSE updated[t]]
    BY <2>1, <2>7, <2>9
  <2>11. sleeping \ awake = {t \in sleeping : is_sleeping(updated[t])}
    OBVIOUS
  <2>12. ToSet(queue) \cap ToSet(order) = {}
    BY <2>4, <2>5
  <2>13. FrontDispatched(threads, queue, sleeping, order)
    BY <1>3, <2>3, <2>4, <2>5, <2>6, <2>7, <2>9, <2>10, <2>11, <2>12
       DEF FrontDispatched, front, longer, updated, D
  <2> QED BY <2>5, <2>13
<1> QED BY <1>2, <1>3

\* Handed well-formed structures, the dispatcher leaves the scheduler in order
\* with somebody RUNNING, and it aborts only where a sleeper's counter is not
\* one that update_sleep_value accepts.
LEMMA Dispatch ==
  ASSUME NEW threads, NEW queue, NEW sleeping,
         WellFormed(threads, queue, sleeping),
         DispatchTypeOK, process = "running",
         run_topmost_thread_in_ready_queue(threads, queue, sleeping)
  PROVE  /\ DispatchTypeOK'
         /\ process' \in {"running", "aborted"}
         /\ process' = "running" =>
              ThreadsConsistent' /\ ActiveIds' = DOMAIN threads
         /\ process' = "aborted" => ActiveIds' = ActiveIds
         /\ (\A t \in sleeping : MayUpdateSleepValue(threads[t])) =>
              process' = "running"
<1> DEFINE D == DOMAIN threads
           updated == SleepersUpdated(threads, sleeping)
<1>1. CASE Abort /\ ~ (\A t \in sleeping : MayUpdateSleepValue(threads[t]))
  BY <1>1 DEF Abort, DispatchTypeOK, ProcessState, ActiveIds
<1>2. CASE \E order \in Seq(Nat) : FrontDispatched(threads, queue, sleeping, order)
  <2>1. PICK order \in Seq(Nat) : FrontDispatched(threads, queue, sleeping, order)
    BY <1>2
  <2> DEFINE longer == queue \o order
             front == Head(longer)
  <2>2. /\ D \subseteq Nat /\ IsFiniteSet(D)
        /\ sleeping = {t \in D : is_sleeping(threads[t])}
        /\ MAIN_THREAD_ID \in D /\ is_ready(threads[MAIN_THREAD_ID])
        /\ \A t \in sleeping : threads[t] \in Thread
        /\ \A t \in D : updated[t] = IF t \in sleeping
                                       THEN update_sleep_value(threads[t])
                                       ELSE threads[t]
    BY DEF WellFormed, SleepersUpdated
  <2> HIDE DEF D, updated, longer
  <2>3. /\ \A t \in sleeping : MayUpdateSleepValue(threads[t])
        /\ \A t \in D : updated[t] \in Thread /\ ~ is_running(updated[t])
        /\ longer \in Seq(Nat) /\ IsInjective(longer) /\ longer # <<>>
        /\ ToSet(longer) = {t \in D : is_ready(updated[t])}
        /\ process' = "running"
        /\ total_quantoms' = Increment(total_quantoms)
        /\ running_thread_id' = front
        /\ ready_queue' = Tail(longer)
        /\ sleeping_threads' = {t \in sleeping : is_sleeping(updated[t])}
        /\ active_threads' = [t \in D |-> IF t = front
                                            THEN set_running(updated[t])
                                            ELSE updated[t]]
    BY <2>1 DEF FrontDispatched, D, updated, longer
  <2>4. /\ Tail(longer) \in Seq(Nat) /\ IsInjective(Tail(longer))
        /\ ToSet(Tail(longer)) = ToSet(longer) \ {front}
        /\ front \in D /\ is_ready(updated[front])
    BY <2>3, PopFront
  <2> HIDE DEF front
  <2>5. /\ DOMAIN active_threads' = D
        /\ active_threads' = [t \in D |-> active_threads'[t]]
        /\ \A t \in D : active_threads'[t] = IF t = front
                                               THEN set_running(updated[t])
                                               ELSE updated[t]
    BY <2>3
  <2>6. /\ active_threads' \in [D -> Thread]
        /\ is_running(active_threads'[front])
        /\ \A t \in D \ {front} : ~ is_running(active_threads'[t])
    <3>1. \A t \in D : active_threads'[t] \in Thread
      BY <2>3, <2>5, SetState
    <3>2. active_threads' \in [D -> Thread]
      BY <2>5, <3>1
    <3> QED BY <2>3, <2>4, <2>5, <3>2, SetState
  <2>7. DispatchTypeOK'
    <3>1. total_quantoms' \in Counter
      BY <2>3, IncrementType DEF DispatchTypeOK, Counter
    <3>2. sleeping_threads' \subseteq Nat /\ front \in Nat
      BY <2>2, <2>3, <2>4
    <3> QED
      BY <2>2, <2>3, <2>4, <2>5, <2>6, <3>1, <3>2
         DEF DispatchTypeOK, ProcessState, ActiveIds
  <2>8. OneRunning'
    BY <2>3, <2>4, <2>5, <2>6 DEF OneRunning, ActiveIds
  <2>9. ReadyQueueExact'
    <3>1. ToSet(ready_queue') = {t \in D : is_ready(active_threads'[t])}
      BY <2>3, <2>4, <2>5, <2>6, StatesExclusive
    <3> QED BY <2>3, <2>4, <2>5, <3>1 DEF ReadyQueueExact, ActiveIds
  <2>10. SleepersExact'
    <3>1. \A t \in D \ sleeping : ~ is_sleeping(updated[t])
      BY <2>2
    <3>2. ~ is_sleeping(updated[front]) /\ ~ is_sleeping(active_threads'[front])
      BY <2>4, <2>6, StatesExclusive
    <3>3. sleeping_threads' = {t \in D : is_sleeping(active_threads'[t])}
      BY <2>2, <2>3, <2>5, <3>1, <3>2
    <3>4. \A t \in sleeping_threads' : MayUpdateSleepValue(active_threads'[t])
      <4> SUFFICES ASSUME NEW t \in sleeping_threads'
                   PROVE  MayUpdateSleepValue(active_threads'[t])
        OBVIOUS
      <4>1. t \in D /\ t \in sleeping /\ t # front /\ is_sleeping(updated[t])
        BY <2>2, <2>3, <3>2
      <4>2. updated[t] = update_sleep_value(threads[t])
        BY <2>2, <4>1
      <4>3. MayUpdateSleepValue(update_sleep_value(threads[t]))
        BY <2>2, <2>3, <4>1, <4>2, UpdateSleepValue
      <4> QED BY <2>5, <4>1, <4>2, <4>3
    <3> QED BY <2>5, <3>3, <3>4 DEF SleepersExact, ActiveIds
  <2>11. MainIsSchedulable'
    <3>1. is_ready(updated[MAIN_THREAD_ID])
      BY <2>2, StatesExclusive
    <3> QED BY <2>2, <2>5, <2>6, <3>1 DEF MainIsSchedulable, ActiveIds
  <2> QED
    BY <2>3, <2>5, <2>7, <2>8, <2>9, <2>10, <2>11
       DEF ThreadsConsistent, ActiveIds, D
<1> QED BY <1>1, <1>2, DispatchOutcome

-----------------------------------------------------------------------------
(***************************************************************************)
(* Thread ids.                                                             *)
(***************************************************************************)

\* The heap is never asked for the top of a set that has none.
LEMMA MinIsLeast ==
  ASSUME NEW S \in SUBSET Nat, S # {}
  PROVE  Min(S) \in S /\ \A y \in S : Min(S) <= y
<1>1. PICK R : IsWellFoundedOn(R, Nat) /\ R = {p \in Nat \X Nat : p[1] < p[2]}
  BY NatLessThanWellFounded DEF OpToRel
<1>2. PICK x \in S : \A y \in S : ~ (<<y, x>> \in R)
  BY <1>1, WFMin
<1>3. ASSUME NEW y \in S PROVE x <= y
  <2>1. <<y, x>> \in Nat \X Nat /\ <<y, x>>[1] = y /\ <<y, x>>[2] = x
    OBVIOUS
  <2>2. ~ (y < x)
    BY <1>1, <1>2, <2>1, Zenon
  <2> QED BY <2>2
<1> QED BY <1>3 DEF Min

\* generate_thread_id hands out the smallest id no living thread has, below
\* the limit as long as there is room for one more thread.
LEMMA TakeId ==
  ASSUME IdTypeOK, ActiveIds \subseteq Nat, IdsAccountedFor, HasRoom,
         TakeThreadId
  PROVE  LET tid == generate_thread_id
         IN  /\ tid \in 0 .. MAX_THREAD_NUM - 1
             /\ tid \notin ActiveIds
             /\ \A smaller \in 0 .. tid - 1 : smaller \in ActiveIds
             /\ IdTypeOK'
             /\ (ActiveIds \cup {tid}) \cup unused_threads_id'
                  = 0 .. largest_thread_id'
             /\ (ActiveIds \cup {tid}) \cap unused_threads_id' = {}
             /\ largest_thread_id' < MAX_THREAD_NUM
<1> DEFINE tid == generate_thread_id
<1>1. /\ unused_threads_id \subseteq Nat /\ IsFiniteSet(unused_threads_id)
      /\ largest_thread_id \in Nat /\ MAX_THREAD_NUM \in Nat
      /\ ActiveIds \cup unused_threads_id = 0 .. largest_thread_id
      /\ ActiveIds \cap unused_threads_id = {}
      /\ largest_thread_id < MAX_THREAD_NUM
  BY SchedulerAssumption DEF IdTypeOK, IdsAccountedFor
<1>2. CASE unused_threads_id # {}
  <2>1. tid = Min(unused_threads_id)
    BY <1>2 DEF generate_thread_id
  <2>2. /\ unused_threads_id' = unused_threads_id \ {tid}
        /\ largest_thread_id' = largest_thread_id
    BY <1>2 DEF TakeThreadId
  <2> HIDE DEF tid
  <2>3. tid \in unused_threads_id /\ \A y \in unused_threads_id : tid <= y
    BY <1>1, <1>2, <2>1, MinIsLeast
  <2>4. tid \in 0 .. largest_thread_id
    BY <1>1, <2>3
  <2>5. tid \in 0 .. MAX_THREAD_NUM - 1 /\ tid \notin ActiveIds
    BY <1>1, <2>3, <2>4
  <2>6. ASSUME NEW smaller \in 0 .. tid - 1 PROVE smaller \in ActiveIds
    <3>1. smaller \in 0 .. largest_thread_id /\ ~ (tid <= smaller)
      BY <1>1, <2>4
    <3> QED BY <1>1, <2>3, <3>1
  <2>7. IdTypeOK'
    BY <1>1, <2>2, FS_RemoveElement DEF IdTypeOK
  <2>8. /\ (ActiveIds \cup {tid}) \cup unused_threads_id'
             = 0 .. largest_thread_id'
        /\ (ActiveIds \cup {tid}) \cap unused_threads_id' = {}
        /\ largest_thread_id' < MAX_THREAD_NUM
    BY <1>1, <2>2, <2>3
  <2> QED BY <2>5, <2>6, <2>7, <2>8 DEF tid
<1>3. CASE unused_threads_id = {}
  <2>1. tid = largest_thread_id + 1
    BY <1>3 DEF generate_thread_id
  <2>2. unused_threads_id' = {} /\ largest_thread_id' = tid
    BY <1>3 DEF TakeThreadId
  <2> HIDE DEF tid
  <2>3. ActiveIds = 0 .. largest_thread_id
    BY <1>1, <1>3
  <2>4. Cardinality(0 .. largest_thread_id) = largest_thread_id + 1
    BY <1>1, FS_Interval
  <2>5. tid < MAX_THREAD_NUM
    BY <1>1, <2>1, <2>3, <2>4 DEF HasRoom
  <2>6. IdTypeOK'
    BY <1>1, <2>1, <2>2, FS_EmptySet DEF IdTypeOK
  <2>7. (0 .. largest_thread_id) \cup {tid} = 0 .. tid
    BY <1>1, <2>1
  <2>8. /\ tid \in 0 .. MAX_THREAD_NUM - 1 /\ tid \notin ActiveIds
        /\ \A smaller \in 0 .. tid - 1 : smaller \in ActiveIds
    BY <1>1, <2>1, <2>3, <2>5
  <2> QED BY <2>2, <2>3, <2>5, <2>6, <2>7, <2>8 DEF tid
<1> QED BY <1>2, <1>3

\* Terminating a thread moves its id to the heap.
LEMMA GiveBackId ==
  ASSUME IdTypeOK, IdsAccountedFor, NEW tid \in ActiveIds,
         unused_threads_id' = unused_threads_id \cup {tid},
         largest_thread_id' = largest_thread_id
  PROVE  /\ IdTypeOK'
         /\ ActiveIds' = ActiveIds \ {tid} => IdsAccountedFor'
<1>1. tid \in Nat
  BY DEF IdsAccountedFor
<1>2. IsFiniteSet(unused_threads_id \cup {tid})
  BY FS_AddElement DEF IdTypeOK
<1>3. IdTypeOK'
  BY <1>1, <1>2 DEF IdTypeOK
<1>4. ASSUME ActiveIds' = ActiveIds \ {tid} PROVE IdsAccountedFor'
  BY <1>4 DEF IdsAccountedFor
<1> QED BY <1>3, <1>4

-----------------------------------------------------------------------------
(***************************************************************************)
(* The callers of the dispatcher hand over well-formed structures, and,    *)
(* except for a sleep of NOT_SLEEPING quantums, no sleeper that            *)
(* update_sleep_value would not accept.                                    *)
(***************************************************************************)

\* A thread leaves the CPU: its control block changes to one that is not
\* RUNNING, the queue and the sleepers change with it, all others are kept.
LEMMA LeaveCPU ==
  ASSUME DispatchTypeOK, ThreadsConsistent,
         NEW th \in Thread, ~ is_running(th),
         running_thread_id = MAIN_THREAD_ID => is_ready(th)
  PROVE  WellFormed(
           [active_threads EXCEPT ![running_thread_id] = th],
           IF is_ready(th) THEN Append(ready_queue, running_thread_id)
                           ELSE ready_queue,
           IF is_sleeping(th) THEN sleeping_threads \cup {running_thread_id}
                              ELSE sleeping_threads)
<1> DEFINE D == ActiveIds
           r == running_thread_id
           threads == [active_threads EXCEPT ![r] = th]
           queue == IF is_ready(th) THEN Append(ready_queue, r) ELSE ready_queue
           sleeping == IF is_sleeping(th) THEN sleeping_threads \cup {r}
                                          ELSE sleeping_threads
<1>1. /\ D \subseteq Nat /\ IsFiniteSet(D)
      /\ \A t \in D : active_threads[t] \in Thread
      /\ r \in D /\ r \in Nat /\ is_running(active_threads[r])
      /\ \A t \in D \ {r} : ~ is_running(active_threads[t])
      /\ ready_queue \in Seq(Nat) /\ IsInjective(ready_queue)
      /\ ToSet(ready_queue) = {t \in D : is_ready(active_threads[t])}
      /\ sleeping_threads = {t \in D : is_sleeping(active_threads[t])}
      /\ MAIN_THREAD_ID \in D
      /\ \/ is_running(active_threads[MAIN_THREAD_ID])
         \/ is_ready(active_threads[MAIN_THREAD_ID])
  BY DEF DispatchTypeOK, ThreadsConsistent, OneRunning, ReadyQueueExact,
         SleepersExact, MainIsSchedulable
<1>2. /\ DOMAIN threads = D
      /\ threads[r] = th
      /\ \A t \in D \ {r} : threads[t] = active_threads[t]
      /\ threads \in [D -> Thread]
  BY <1>1 DEF DispatchTypeOK, ActiveIds
<1> HIDE DEF threads, D
<1>3. r \notin ToSet(ready_queue) /\ r \notin sleeping_threads
  BY <1>1, StatesExclusive
<1>4. /\ queue \in Seq(Nat) /\ IsInjective(queue)
      /\ ToSet(queue) = {t \in D : is_ready(threads[t])}
  <2>1. CASE is_ready(th)
    <3>1. /\ queue \in Seq(Nat) /\ IsInjective(queue)
          /\ ToSet(queue) = ToSet(ready_queue) \cup {r}
      BY <1>1, <1>3, <2>1, PushBack
    <3> QED BY <1>1, <1>2, <2>1, <3>1
  <2>2. CASE ~ is_ready(th)
    BY <1>1, <1>2, <1>3, <2>2
  <2> QED BY <2>1, <2>2
<1>5. sleeping = {t \in D : is_sleeping(threads[t])}
  BY <1>1, <1>2, <1>3
<1> HIDE DEF queue, sleeping
<1>6. \A t \in D : ~ is_running(threads[t])
  BY <1>1, <1>2
<1>7. is_ready(threads[MAIN_THREAD_ID])
  BY <1>1, <1>2
<1> QED BY <1>1, <1>2, <1>4, <1>5, <1>6, <1>7
        DEF WellFormed, queue, sleeping, threads

\* The timer handler.
LEMMA TimerHandsOver ==
  ASSUME DispatchTypeOK, ThreadsConsistent
  PROVE  LET threads == [active_threads EXCEPT ![running_thread_id] = set_ready(@)]
         IN  /\ WellFormed(threads, Append(ready_queue, running_thread_id),
                           sleeping_threads)
             /\ \A t \in sleeping_threads : MayUpdateSleepValue(threads[t])
<1> DEFINE th == set_ready(active_threads[running_thread_id])
<1>1. /\ running_thread_id \in ActiveIds
      /\ active_threads[running_thread_id] \in Thread
      /\ running_thread_id \notin sleeping_threads
      /\ sleeping_threads \subseteq ActiveIds
      /\ \A t \in sleeping_threads : MayUpdateSleepValue(active_threads[t])
  BY StatesExclusive
     DEF DispatchTypeOK, ThreadsConsistent, OneRunning, SleepersExact
<1>2. th \in Thread /\ is_ready(th) /\ ~ is_running(th) /\ ~ is_sleeping(th)
  BY <1>1, SetState, StatesExclusive
<1> HIDE DEF th
<1>3. WellFormed([active_threads EXCEPT ![running_thread_id] = th],
                 Append(ready_queue, running_thread_id), sleeping_threads)
  BY <1>2, LeaveCPU
<1> QED BY <1>1, <1>3 DEF th, ActiveIds

\* uthread_block on the caller.
LEMMA BlockHandsOver ==
  ASSUME DispatchTypeOK, ThreadsConsistent, running_thread_id # MAIN_THREAD_ID
  PROVE  LET threads == [active_threads EXCEPT ![running_thread_id] = set_block(@)]
         IN  /\ WellFormed(threads, ready_queue, sleeping_threads)
             /\ \A t \in sleeping_threads : MayUpdateSleepValue(threads[t])
<1> DEFINE th == set_block(active_threads[running_thread_id])
<1>1. /\ running_thread_id \in ActiveIds
      /\ active_threads[running_thread_id] \in Thread
      /\ ~ is_sleeping(active_threads[running_thread_id])
      /\ running_thread_id \notin sleeping_threads
      /\ sleeping_threads \subseteq ActiveIds
      /\ \A t \in sleeping_threads : MayUpdateSleepValue(active_threads[t])
  BY StatesExclusive
     DEF DispatchTypeOK, ThreadsConsistent, OneRunning, SleepersExact
<1>2. th \in Thread /\ ~ is_ready(th) /\ ~ is_running(th) /\ ~ is_sleeping(th)
  BY <1>1, SetState, StatesExclusive
<1> HIDE DEF th
<1>3. WellFormed([active_threads EXCEPT ![running_thread_id] = th],
                 ready_queue, sleeping_threads)
  BY <1>2, LeaveCPU
<1> QED BY <1>1, <1>3 DEF th, ActiveIds

\* uthread_sleep.
LEMMA SleepHandsOver ==
  ASSUME DispatchTypeOK, ThreadsConsistent, running_thread_id # MAIN_THREAD_ID,
         NEW n \in Int
  PROVE  LET threads  == [active_threads EXCEPT ![running_thread_id] = set_sleep(@, n)]
             sleeping == sleeping_threads \cup {running_thread_id}
         IN  /\ WellFormed(threads, ready_queue, sleeping)
             /\ n # NOT_SLEEPING =>
                  \A t \in sleeping : MayUpdateSleepValue(threads[t])
<1> DEFINE th == set_sleep(active_threads[running_thread_id], n)
<1>1. /\ running_thread_id \in ActiveIds
      /\ active_threads[running_thread_id] \in Thread
      /\ is_running(active_threads[running_thread_id])
      /\ sleeping_threads \subseteq ActiveIds
      /\ \A t \in sleeping_threads : MayUpdateSleepValue(active_threads[t])
  BY DEF DispatchTypeOK, ThreadsConsistent, OneRunning, SleepersExact
<1>2. th \in Thread /\ is_sleeping(th) /\ th.quantoms_left = n
  BY <1>1, SetSleep
<1>3. ~ is_ready(th) /\ ~ is_running(th)
  BY <1>2, StatesExclusive
<1>4. n # NOT_SLEEPING => MayUpdateSleepValue(th)
  BY <1>2 DEF MayUpdateSleepValue
<1> HIDE DEF th
<1>5. WellFormed([active_threads EXCEPT ![running_thread_id] = th],
                 ready_queue, sleeping_threads \cup {running_thread_id})
  BY <1>2, <1>3, LeaveCPU
<1> QED BY <1>1, <1>4, <1>5 DEF th, ActiveIds

\* uthread_terminate on the caller.
LEMMA TerminateHandsOver ==
  ASSUME DispatchTypeOK, ThreadsConsistent, running_thread_id # MAIN_THREAD_ID
  PROVE  LET threads == Without(active_threads, running_thread_id)
         IN  /\ WellFormed(threads, ready_queue, sleeping_threads)
             /\ \A t \in sleeping_threads : MayUpdateSleepValue(threads[t])
             /\ DOMAIN threads = ActiveIds \ {running_thread_id}
<1> DEFINE D == ActiveIds
           r == running_thread_id
           threads == Without(active_threads, r)
<1>1. /\ D \subseteq Nat /\ IsFiniteSet(D)
      /\ \A t \in D : active_threads[t] \in Thread
      /\ r \in D /\ r \in Nat /\ is_running(active_threads[r])
      /\ \A t \in D \ {r} : ~ is_running(active_threads[t])
      /\ ready_queue \in Seq(Nat) /\ IsInjective(ready_queue)
      /\ ToSet(ready_queue) = {t \in D : is_ready(active_threads[t])}
      /\ sleeping_threads = {t \in D : is_sleeping(active_threads[t])}
      /\ \A t \in sleeping_threads : MayUpdateSleepValue(active_threads[t])
      /\ MAIN_THREAD_ID \in D
      /\ \/ is_running(active_threads[MAIN_THREAD_ID])
         \/ is_ready(active_threads[MAIN_THREAD_ID])
  BY DEF DispatchTypeOK, ThreadsConsistent, OneRunning, ReadyQueueExact,
         SleepersExact, MainIsSchedulable
<1>2. /\ DOMAIN threads = D \ {r}
      /\ \A t \in D \ {r} : threads[t] = active_threads[t]
      /\ threads \in [D \ {r} -> Thread]
  BY <1>1 DEF Without, ActiveIds
<1> HIDE DEF threads, D
<1>3. r \notin ToSet(ready_queue) /\ r \notin sleeping_threads
  BY <1>1, StatesExclusive
<1>4. ToSet(ready_queue) = {t \in D \ {r} : is_ready(threads[t])}
  BY <1>1, <1>2, <1>3
<1>5. sleeping_threads = {t \in D \ {r} : is_sleeping(threads[t])}
  BY <1>1, <1>2, <1>3
<1>6. IsFiniteSet(D \ {r}) /\ D \ {r} \subseteq Nat
  BY <1>1, FS_RemoveElement
<1>7. MAIN_THREAD_ID \in D \ {r} /\ is_ready(threads[MAIN_THREAD_ID])
  BY <1>1, <1>2
<1>8. WellFormed(threads, ready_queue, sleeping_threads)
  BY <1>1, <1>2, <1>4, <1>5, <1>6, <1>7 DEF WellFormed
<1>9. \A t \in sleeping_threads : MayUpdateSleepValue(threads[t])
  BY <1>1, <1>2, <1>3
<1> QED BY <1>2, <1>8, <1>9 DEF threads, D

-----------------------------------------------------------------------------
(***************************************************************************)
(* The inductive invariant and the theorems.                               *)
(***************************************************************************)
IInv == Types /\ Consistent

\* The parts in which the proof handles the inductive invariant.
LEMMA Parts ==
  /\ Types <=> DispatchTypeOK /\ IdTypeOK
  /\ Consistent <=>
       (process = "running" => ThreadsConsistent /\ IdsAccountedFor)
BY DEF Types, DispatchTypeOK, IdTypeOK, Consistent, ThreadsConsistent

\* The same of the next state.
LEMMA PartsNext ==
  ASSUME DispatchTypeOK', IdTypeOK',
         process' = "running" => ThreadsConsistent' /\ IdsAccountedFor'
  PROVE  IInv'
BY DEF IInv, Types, DispatchTypeOK, IdTypeOK, Consistent, ThreadsConsistent

\* The state uthread_init leaves is consistent.
LEMMA InitConsistent == Init => IInv
<1> SUFFICES ASSUME Init PROVE IInv
  OBVIOUS
<1> DEFINE main == set_running(NewThread)
<1>1. main \in Thread /\ is_running(main)
  BY NewThreadIsReady, SetState
<1> HIDE DEF main
<1>2. /\ ActiveIds = {0} /\ active_threads = [t \in {0} |-> main]
      /\ active_threads[0] = main
      /\ process = "running" /\ ready_queue = <<>> /\ sleeping_threads = {}
      /\ running_thread_id = 0 /\ total_quantoms = Increment(0)
      /\ unused_threads_id = {} /\ largest_thread_id = 0
  BY DEF Init, MAIN_THREAD_ID, ActiveIds, main
<1>3. ~ is_ready(main) /\ ~ is_sleeping(main)
  BY <1>1, StatesExclusive
<1>4. /\ <<>> \in Seq(Nat) /\ DOMAIN <<>> = {} /\ IsFiniteSet({0})
      /\ IsFiniteSet({})
  <2>1. <<>> \in Seq(Nat) /\ Len(<<>>) = 0
    BY EmptySeq
  <2>2. DOMAIN <<>> = 1 .. 0
    BY <2>1, LenProperties
  <2>3. 1 .. 0 = {}
    OBVIOUS
  <2>4. IsFiniteSet({0}) /\ IsFiniteSet({})
    BY FS_Singleton, FS_EmptySet
  <2> QED BY <2>1, <2>2, <2>3, <2>4
<1>5. IsInjective(<<>>) /\ ToSet(<<>>) = {}
  BY <1>4 DEF IsInjective, ToSet
<1>6. DispatchTypeOK
  BY <1>1, <1>2, <1>4, IncrementType DEF DispatchTypeOK, ProcessState
<1>7. IdTypeOK
  BY <1>2, <1>4 DEF IdTypeOK
<1>8. IdsAccountedFor
  BY <1>2, SchedulerAssumption DEF IdsAccountedFor
<1>9. ThreadsConsistent
  BY <1>1, <1>2, <1>3, <1>5
     DEF ThreadsConsistent, OneRunning, ReadyQueueExact, SleepersExact,
         MainIsSchedulable, MAIN_THREAD_ID
<1> QED BY <1>6, <1>7, <1>8, <1>9, Parts DEF IInv

\* Facts about a consistent scheduler that several actions need.
LEMMA ConsistentFacts ==
  ASSUME DispatchTypeOK, ThreadsConsistent
  PROVE  /\ ActiveIds \subseteq Nat /\ IsFiniteSet(ActiveIds)
         /\ DOMAIN active_threads = ActiveIds
         /\ \A t \in ActiveIds : active_threads[t] \in Thread
         /\ running_thread_id \in ActiveIds
         /\ \A t \in ActiveIds :
              is_running(active_threads[t]) <=> t = running_thread_id
         /\ ready_queue \in Seq(Nat) /\ IsInjective(ready_queue)
         /\ ToSet(ready_queue) = {t \in ActiveIds : is_ready(active_threads[t])}
         /\ sleeping_threads = {t \in ActiveIds : is_sleeping(active_threads[t])}
         /\ \A t \in sleeping_threads : MayUpdateSleepValue(active_threads[t])
         /\ MAIN_THREAD_ID \in ActiveIds
         /\ \/ is_running(active_threads[MAIN_THREAD_ID])
            \/ is_ready(active_threads[MAIN_THREAD_ID])
BY DEF DispatchTypeOK, ThreadsConsistent, OneRunning, ReadyQueueExact,
       SleepersExact, MainIsSchedulable, ActiveIds

\* Exit ends the process in a well-typed state.
LEMMA ExitTypeOK ==
  ASSUME DispatchTypeOK, NEW how \in ProcessState, Exit(how)
  PROVE  DispatchTypeOK'
<1>1. active_threads' = [t \in {} |-> NewThread] /\ ActiveIds' = {}
  BY DEF Exit, ActiveIds
<1>2. active_threads' \in [{} -> Thread] /\ IsFiniteSet({})
  BY <1>1, FS_EmptySet
<1> QED BY <1>1, <1>2 DEF DispatchTypeOK, Exit

\* A new thread is READY, at the end of the queue, under a new id.
LEMMA SpawnConsistent ==
  ASSUME DispatchTypeOK, IdTypeOK, ThreadsConsistent, IdsAccountedFor,
         uthread_spawn
  PROVE  DispatchTypeOK' /\ IdTypeOK' /\ ThreadsConsistent' /\ IdsAccountedFor'
<1> DEFINE tid == generate_thread_id
           D == ActiveIds
<1>1. /\ tid \in Nat /\ tid \notin D /\ IdTypeOK'
      /\ (D \cup {tid}) \cup unused_threads_id' = 0 .. largest_thread_id'
      /\ (D \cup {tid}) \cap unused_threads_id' = {}
      /\ largest_thread_id' < MAX_THREAD_NUM
  BY ConsistentFacts, TakeId DEF uthread_spawn
<1>2. /\ active_threads' = [t \in D \cup {tid} |->
                              IF t = tid THEN NewThread ELSE active_threads[t]]
      /\ ready_queue' = Append(ready_queue, tid)
      /\ UNCHANGED <<process, sleeping_threads, running_thread_id,
                     total_quantoms>>
  BY DEF uthread_spawn
<1> HIDE DEF tid
<1>3. /\ ActiveIds' = D \cup {tid}
      /\ active_threads'[tid] = NewThread
      /\ \A t \in D : active_threads'[t] = active_threads[t]
  BY <1>1, <1>2 DEF ActiveIds
<1> HIDE DEF D
<1>4. /\ D \subseteq Nat /\ IsFiniteSet(D \cup {tid})
      /\ \A t \in D : active_threads[t] \in Thread
  BY ConsistentFacts, FS_AddElement DEF D
<1>5. /\ NewThread \in Thread /\ is_ready(NewThread)
      /\ ~ is_running(NewThread) /\ ~ is_sleeping(NewThread)
  BY NewThreadIsReady, StatesExclusive
<1>6. active_threads' \in [D \cup {tid} -> Thread]
  BY <1>2, <1>4, <1>5
<1>7. tid \notin ToSet(ready_queue)
  BY <1>1, ConsistentFacts DEF D
<1>8. /\ ready_queue' \in Seq(Nat) /\ IsInjective(ready_queue')
      /\ ToSet(ready_queue') = ToSet(ready_queue) \cup {tid}
  BY <1>1, <1>2, <1>7, ConsistentFacts, PushBack
<1>9. DispatchTypeOK'
  BY <1>1, <1>2, <1>3, <1>4, <1>6, <1>8 DEF DispatchTypeOK
<1>10. OneRunning'
  BY <1>1, <1>2, <1>3, <1>5, ConsistentFacts DEF OneRunning, D
<1>11. ReadyQueueExact'
  <2>1. ToSet(ready_queue') =
          {t \in D \cup {tid} : is_ready(active_threads'[t])}
    BY <1>3, <1>5, <1>8, ConsistentFacts DEF D
  <2> QED BY <1>3, <1>8, <2>1 DEF ReadyQueueExact
<1>12. SleepersExact'
  <2>1. sleeping_threads =
          {t \in D \cup {tid} : is_sleeping(active_threads'[t])}
    BY <1>3, <1>5, ConsistentFacts DEF D
  <2>2. \A t \in sleeping_threads : MayUpdateSleepValue(active_threads'[t])
    BY <1>3, ConsistentFacts DEF D
  <2> QED BY <1>2, <1>3, <2>1, <2>2 DEF SleepersExact
<1>13. MainIsSchedulable'
  BY <1>3, ConsistentFacts DEF MainIsSchedulable, D
<1>14. IdsAccountedFor'
  BY <1>1, <1>3 DEF IdsAccountedFor, D
<1> QED BY <1>1, <1>9, <1>10, <1>11, <1>12, <1>13, <1>14
        DEF ThreadsConsistent

\* A thread that is not on the CPU leaves the queue and the set of sleepers
\* together with the map.
LEMMA TerminateOtherConsistent ==
  ASSUME DispatchTypeOK, IdTypeOK, ThreadsConsistent, IdsAccountedFor,
         NEW tid \in ActiveIds, TerminateOther(tid)
  PROVE  DispatchTypeOK' /\ IdTypeOK' /\ ThreadsConsistent' /\ IdsAccountedFor'
<1> DEFINE D == ActiveIds
           th == active_threads[tid]
<1>1. /\ tid # MAIN_THREAD_ID
      /\ ~ is_running(th)
      /\ sleeping_threads' =
           IF is_sleeping(th) THEN sleeping_threads \ {tid} ELSE sleeping_threads
      /\ ready_queue' =
           IF is_ready(th) THEN RemoveFirst(ready_queue, tid) ELSE ready_queue
      /\ active_threads' = Without(active_threads, tid)
      /\ unused_threads_id' = unused_threads_id \cup {tid}
      /\ UNCHANGED <<process, running_thread_id, total_quantoms,
                     largest_thread_id>>
  BY DEF TerminateOther
<1>2. /\ ActiveIds' = D \ {tid}
      /\ \A t \in D \ {tid} : active_threads'[t] = active_threads[t]
      /\ active_threads' = [t \in D \ {tid} |-> active_threads[t]]
  BY <1>1 DEF Without, ActiveIds
<1> HIDE DEF D, th
<1>3. /\ D \ {tid} \subseteq Nat /\ IsFiniteSet(D \ {tid})
      /\ active_threads' \in [D \ {tid} -> Thread]
  BY <1>2, ConsistentFacts, FS_RemoveElement DEF D
<1>4. /\ ready_queue' \in Seq(Nat) /\ IsInjective(ready_queue')
      /\ ToSet(ready_queue') = ToSet(ready_queue) \ {tid}
  <2>1. CASE is_ready(th)
    <3>1. tid \in ToSet(ready_queue)
      BY <2>1, ConsistentFacts DEF th
    <3> QED BY <1>1, <2>1, <3>1, ConsistentFacts, Erase
  <2>2. CASE ~ is_ready(th)
    <3>1. tid \notin ToSet(ready_queue)
      BY <2>2, ConsistentFacts DEF th
    <3> QED BY <1>1, <2>2, <3>1, ConsistentFacts
  <2> QED BY <2>1, <2>2
<1>5. sleeping_threads' = sleeping_threads \ {tid}
  BY <1>1, ConsistentFacts DEF th
<1>6. DispatchTypeOK'
  BY <1>1, <1>2, <1>3, <1>4, <1>5 DEF DispatchTypeOK
<1>7. OneRunning'
  BY <1>1, <1>2, ConsistentFacts DEF OneRunning, D, th
<1>8. ReadyQueueExact'
  <2>1. ToSet(ready_queue') = {t \in D \ {tid} : is_ready(active_threads'[t])}
    BY <1>2, <1>4, ConsistentFacts DEF D
  <2> QED BY <1>2, <1>4, <2>1 DEF ReadyQueueExact
<1>9. SleepersExact'
  <2>1. sleeping_threads' =
          {t \in D \ {tid} : is_sleeping(active_threads'[t])}
    BY <1>2, <1>5, ConsistentFacts DEF D
  <2>2. \A t \in sleeping_threads' : MayUpdateSleepValue(active_threads'[t])
    BY <1>2, <1>5, ConsistentFacts DEF D
  <2> QED BY <1>2, <2>1, <2>2 DEF SleepersExact
<1>10. MainIsSchedulable'
  BY <1>1, <1>2, ConsistentFacts DEF MainIsSchedulable, D
<1>11. IdTypeOK' /\ IdsAccountedFor'
  BY <1>1, <1>2, GiveBackId DEF D
<1> QED BY <1>6, <1>7, <1>8, <1>9, <1>10, <1>11 DEF ThreadsConsistent

\* A READY thread that is blocked leaves the queue.
LEMMA BlockOtherConsistent ==
  ASSUME DispatchTypeOK, ThreadsConsistent,
         NEW tid \in ActiveIds, BlockOther(tid)
  PROVE  DispatchTypeOK' /\ ThreadsConsistent' /\ ActiveIds' = ActiveIds
<1> DEFINE D == ActiveIds
           th == set_block(active_threads[tid])
<1>1. /\ tid # MAIN_THREAD_ID
      /\ is_ready(active_threads[tid])
      /\ ready_queue' = RemoveFirst(ready_queue, tid)
      /\ active_threads' = [active_threads EXCEPT ![tid] = th]
      /\ UNCHANGED <<process, sleeping_threads, running_thread_id,
                     total_quantoms>>
  BY DEF BlockOther
<1>2. th \in Thread /\ ~ is_ready(th) /\ ~ is_running(th) /\ ~ is_sleeping(th)
  BY <1>1, ConsistentFacts, SetState, StatesExclusive
<1>3. /\ ActiveIds' = D
      /\ active_threads'[tid] = th
      /\ \A t \in D \ {tid} : active_threads'[t] = active_threads[t]
      /\ active_threads' \in [D -> Thread]
  BY <1>1, <1>2 DEF DispatchTypeOK, ActiveIds
<1> HIDE DEF D, th
<1>4. /\ ready_queue' \in Seq(Nat) /\ IsInjective(ready_queue')
      /\ ToSet(ready_queue') = ToSet(ready_queue) \ {tid}
  <2>1. tid \in ToSet(ready_queue)
    BY <1>1, ConsistentFacts
  <2> QED BY <1>1, <2>1, ConsistentFacts, Erase
<1>5. DispatchTypeOK'
  BY <1>1, <1>3, <1>4, ConsistentFacts DEF DispatchTypeOK, D
<1>6. OneRunning'
  BY <1>1, <1>2, <1>3, ConsistentFacts, StatesExclusive DEF OneRunning, D
<1>7. ReadyQueueExact'
  <2>1. ToSet(ready_queue') = {t \in D : is_ready(active_threads'[t])}
    BY <1>2, <1>3, <1>4, ConsistentFacts DEF D
  <2> QED BY <1>3, <1>4, <2>1 DEF ReadyQueueExact
<1>8. SleepersExact'
  <2>1. tid \notin sleeping_threads
    BY <1>1, ConsistentFacts, StatesExclusive
  <2>2. sleeping_threads = {t \in D : is_sleeping(active_threads'[t])}
    BY <1>2, <1>3, <2>1, ConsistentFacts DEF D
  <2>3. \A t \in sleeping_threads : MayUpdateSleepValue(active_threads'[t])
    BY <1>3, <2>1, ConsistentFacts DEF D
  <2> QED BY <1>1, <1>3, <2>2, <2>3 DEF SleepersExact
<1>9. MainIsSchedulable'
  BY <1>1, <1>3, ConsistentFacts DEF MainIsSchedulable, D
<1> QED BY <1>3, <1>5, <1>6, <1>7, <1>8, <1>9 DEF ThreadsConsistent, D

\* A resumed thread joins the queue unless it still sleeps.
LEMMA ResumeConsistent ==
  ASSUME DispatchTypeOK, ThreadsConsistent,
         NEW tid \in ActiveIds, uthread_resume(tid)
  PROVE  DispatchTypeOK' /\ ThreadsConsistent' /\ ActiveIds' = ActiveIds
<1> DEFINE D == ActiveIds
           before == active_threads[tid]
           th == unblock(before)
<1>1. /\ is_blocked(before)
      /\ ready_queue' =
           IF is_ready(th) THEN Append(ready_queue, tid) ELSE ready_queue
      /\ active_threads' = [active_threads EXCEPT ![tid] = th]
      /\ UNCHANGED <<process, sleeping_threads, running_thread_id,
                     total_quantoms>>
  BY DEF uthread_resume
<1>2. /\ th \in Thread /\ ~ is_running(th)
      /\ th.quantoms_left = before.quantoms_left
      /\ is_sleeping(th) <=> is_sleeping(before)
      /\ ~ is_running(before) /\ ~ is_ready(before)
  BY <1>1, ConsistentFacts, Unblock, StatesExclusive
<1>3. /\ ActiveIds' = D
      /\ active_threads'[tid] = th
      /\ \A t \in D \ {tid} : active_threads'[t] = active_threads[t]
      /\ active_threads' \in [D -> Thread]
  BY <1>1, <1>2 DEF DispatchTypeOK, ActiveIds
<1> HIDE DEF D, th
<1>4. tid \notin ToSet(ready_queue)
  BY <1>2, ConsistentFacts
<1>5. /\ ready_queue' \in Seq(Nat) /\ IsInjective(ready_queue')
      /\ ToSet(ready_queue') = IF is_ready(th) THEN ToSet(ready_queue) \cup {tid}
                                              ELSE ToSet(ready_queue)
  <2>1. tid \in Nat /\ ready_queue \in Seq(Nat) /\ IsInjective(ready_queue)
    BY ConsistentFacts
  <2>2. CASE is_ready(th)
    BY <1>1, <1>4, <2>1, <2>2, PushBack
  <2>3. CASE ~ is_ready(th)
    BY <1>1, <2>1, <2>3
  <2> QED BY <2>2, <2>3
<1>6. DispatchTypeOK'
  BY <1>1, <1>3, <1>5, ConsistentFacts DEF DispatchTypeOK, D
<1>7. OneRunning'
  BY <1>1, <1>2, <1>3, ConsistentFacts DEF OneRunning, D
<1>8. ReadyQueueExact'
  <2>1. ToSet(ready_queue') = {t \in D : is_ready(active_threads'[t])}
    BY <1>3, <1>4, <1>5, ConsistentFacts DEF D
  <2> QED BY <1>3, <1>5, <2>1 DEF ReadyQueueExact
<1>9. SleepersExact'
  <2>1. sleeping_threads = {t \in D : is_sleeping(active_threads'[t])}
    BY <1>2, <1>3, ConsistentFacts DEF D
  <2>2. \A t \in sleeping_threads : MayUpdateSleepValue(active_threads'[t])
    BY <1>2, <1>3, ConsistentFacts DEF D, MayUpdateSleepValue
  <2> QED BY <1>1, <1>3, <2>1, <2>2 DEF SleepersExact
<1>10. MainIsSchedulable'
  BY <1>2, <1>3, ConsistentFacts DEF MainIsSchedulable, D
<1> QED BY <1>3, <1>6, <1>7, <1>8, <1>9, <1>10 DEF ThreadsConsistent, D

\* The dispatcher after a call that leaves the set of living threads and the
\* ids alone.
LEMMA DispatchKeepsInv ==
  ASSUME NEW threads, NEW queue, NEW sleeping,
         WellFormed(threads, queue, sleeping), DOMAIN threads = ActiveIds,
         DispatchTypeOK, IdTypeOK, IdsAccountedFor, process = "running",
         run_topmost_thread_in_ready_queue(threads, queue, sleeping),
         UNCHANGED idVars
  PROVE  IInv'
<1>1. /\ DispatchTypeOK'
      /\ process' = "running" => ThreadsConsistent' /\ ActiveIds' = ActiveIds
  BY Dispatch
<1>2. IdTypeOK'
  BY DEF IdTypeOK, idVars
<1>3. process' = "running" => IdsAccountedFor'
  BY <1>1 DEF IdsAccountedFor, idVars
<1> QED BY <1>1, <1>2, <1>3, PartsNext

\* Every step of the scheduler keeps the inductive invariant.
LEMMA StepConsistent == IInv /\ [Next]_vars => IInv'
<1> SUFFICES ASSUME IInv, [Next]_vars PROVE IInv'
  OBVIOUS
<1>1. /\ DispatchTypeOK /\ IdTypeOK
      /\ process = "running" => ThreadsConsistent /\ IdsAccountedFor
  BY Parts DEF IInv
<1>2. CASE uthread_spawn
  <2>1. process = "running"
    BY <1>2 DEF uthread_spawn
  <2> QED BY <1>1, <1>2, <2>1, SpawnConsistent, PartsNext
<1>3. CASE SpawnOutOfMemory
  <2>1. DispatchTypeOK' /\ process' = "failed"
    BY <1>1, <1>3, ExitTypeOK DEF SpawnOutOfMemory, Exit, ProcessState
  <2>2. IdTypeOK'
    BY <1>1, <1>3, ConsistentFacts, TakeId DEF SpawnOutOfMemory
  <2> QED BY <2>1, <2>2, PartsNext
<1>4. CASE TerminateMain
  <2>1. DispatchTypeOK' /\ process' = "exited"
    BY <1>1, <1>4, ExitTypeOK DEF TerminateMain, Exit, ProcessState
  <2>2. IdTypeOK'
    BY <1>1, <1>4 DEF TerminateMain, IdTypeOK, idVars
  <2> QED BY <2>1, <2>2, PartsNext
<1>5. ASSUME NEW tid \in ActiveIds, TerminateSelf(tid) PROVE IInv'
  <2>1. /\ process = "running" /\ ThreadsConsistent /\ IdsAccountedFor
        /\ tid = running_thread_id /\ tid # MAIN_THREAD_ID
    BY <1>1, <1>5, ConsistentFacts DEF TerminateSelf
  <2>2. /\ WellFormed(Without(active_threads, tid), ready_queue,
                      sleeping_threads)
        /\ DOMAIN Without(active_threads, tid) = ActiveIds \ {tid}
    BY <1>1, <2>1, TerminateHandsOver
  <2>3. /\ unused_threads_id' = unused_threads_id \cup {tid}
        /\ largest_thread_id' = largest_thread_id
        /\ run_topmost_thread_in_ready_queue(
             Without(active_threads, tid), ready_queue, sleeping_threads)
    BY <1>5 DEF TerminateSelf
  <2>4. /\ DispatchTypeOK'
        /\ process' = "running" =>
             ThreadsConsistent' /\ ActiveIds' = ActiveIds \ {tid}
    BY <1>1, <2>1, <2>2, <2>3, Dispatch
  <2>5. /\ IdTypeOK'
        /\ process' = "running" => IdsAccountedFor'
    BY <1>1, <2>1, <2>3, <2>4, GiveBackId
  <2> QED BY <2>4, <2>5, PartsNext
<1>6. ASSUME NEW tid \in ActiveIds, TerminateOther(tid) PROVE IInv'
  <2>1. process = "running"
    BY <1>6 DEF TerminateOther
  <2> QED BY <1>1, <1>6, <2>1, TerminateOtherConsistent, PartsNext
<1>7. ASSUME NEW tid \in ActiveIds, BlockSelf(tid) PROVE IInv'
  <2>1. /\ process = "running" /\ ThreadsConsistent /\ IdsAccountedFor
        /\ tid = running_thread_id /\ tid # MAIN_THREAD_ID
    BY <1>1, <1>7, ConsistentFacts DEF BlockSelf
  <2> DEFINE threads == [active_threads EXCEPT ![running_thread_id] = set_block(@)]
  <2>2. WellFormed(threads, ready_queue, sleeping_threads)
    BY <1>1, <2>1, BlockHandsOver
  <2>3. /\ run_topmost_thread_in_ready_queue(threads, ready_queue,
                                             sleeping_threads)
        /\ UNCHANGED idVars
    BY <1>7, <2>1 DEF BlockSelf
  <2>4. DOMAIN threads = ActiveIds
    BY DEF ActiveIds
  <2> HIDE DEF threads
  <2> QED BY <1>1, <2>1, <2>2, <2>3, <2>4, DispatchKeepsInv
<1>8. ASSUME NEW tid \in ActiveIds, BlockOther(tid) \/ uthread_resume(tid)
      PROVE  IInv'
  <2>1. process = "running" /\ ThreadsConsistent /\ IdsAccountedFor
    BY <1>1, <1>8 DEF BlockOther, uthread_resume
  <2>2. DispatchTypeOK' /\ ThreadsConsistent' /\ ActiveIds' = ActiveIds
    BY <1>1, <1>8, <2>1, BlockOtherConsistent, ResumeConsistent
  <2>3. UNCHANGED idVars
    BY <1>8 DEF BlockOther, uthread_resume
  <2>4. IdTypeOK' /\ IdsAccountedFor'
    BY <1>1, <2>1, <2>2, <2>3 DEF IdTypeOK, IdsAccountedFor, idVars
  <2> QED BY <2>2, <2>4, PartsNext
<1>9. ASSUME NEW num_quantums \in SleepArguments, uthread_sleep(num_quantums)
      PROVE  IInv'
  <2>1. /\ process = "running" /\ ThreadsConsistent /\ IdsAccountedFor
        /\ running_thread_id # MAIN_THREAD_ID
    BY <1>1, <1>9 DEF uthread_sleep
  <2> DEFINE threads == [active_threads EXCEPT ![running_thread_id] =
                           set_sleep(@, num_quantums)]
             sleeping == sleeping_threads \cup {running_thread_id}
  <2>2. num_quantums \in Int
    BY SchedulerAssumption
  <2>3. WellFormed(threads, ready_queue, sleeping)
    BY <1>1, <2>1, <2>2, SleepHandsOver
  <2>4. /\ run_topmost_thread_in_ready_queue(threads, ready_queue, sleeping)
        /\ UNCHANGED idVars
    BY <1>9 DEF uthread_sleep
  <2>5. DOMAIN threads = ActiveIds
    BY DEF ActiveIds
  <2> HIDE DEF threads, sleeping
  <2> QED BY <1>1, <2>1, <2>3, <2>4, <2>5, DispatchKeepsInv
<1>10. CASE internal_time_handler
  <2>1. process = "running" /\ ThreadsConsistent /\ IdsAccountedFor
    BY <1>1, <1>10 DEF internal_time_handler
  <2> DEFINE threads == [active_threads EXCEPT ![running_thread_id] = set_ready(@)]
             queue == Append(ready_queue, running_thread_id)
  <2>2. WellFormed(threads, queue, sleeping_threads)
    BY <1>1, <2>1, TimerHandsOver
  <2>3. /\ run_topmost_thread_in_ready_queue(threads, queue, sleeping_threads)
        /\ UNCHANGED idVars
    BY <1>10 DEF internal_time_handler
  <2>4. DOMAIN threads = ActiveIds
    BY DEF ActiveIds
  <2> HIDE DEF threads, queue
  <2> QED BY <1>1, <2>1, <2>2, <2>3, <2>4, DispatchKeepsInv
<1>11. CASE UNCHANGED vars
  BY <1>11
     DEF IInv, Types, Consistent, OneRunning, ReadyQueueExact, SleepersExact,
         MainIsSchedulable, IdsAccountedFor, ActiveIds, vars, dispatchVars, idVars
<1> QED
  BY <1>2, <1>3, <1>4, <1>5, <1>6, <1>7, <1>8, <1>9, <1>10, <1>11
     DEF Next, Ended

\* The structures of the scheduler keep to their types and, while the process
\* lives, agree with one another, whatever calls its threads make: this is the
\* inductive invariant behind every theorem below.
THEOREM Invariance == Spec => []IInv
<1>1. Init => IInv
  BY InitConsistent
<1>2. IInv /\ [Next]_vars => IInv'
  BY StepConsistent
<1> QED BY <1>1, <1>2, PTL DEF Spec

\* A dispatcher that ends the process leaves every structure as it was.
LEMMA AbortKeeps ==
  ASSUME NEW threads, NEW queue, NEW sleeping, process = "running",
         run_topmost_thread_in_ready_queue(threads, queue, sleeping),
         process' # "running"
  PROVE  UNCHANGED <<active_threads, ready_queue, sleeping_threads,
                     running_thread_id>>
BY DEF run_topmost_thread_in_ready_queue, RunFront, Abort

\* While the process lives the limit follows from the accounts of the ids; the
\* step that ends it takes no id beyond the limit either.
LEMMA LimitStep ==
  ASSUME IInv, IInv', IdsWithinLimit, [Next]_vars
  PROVE  IdsWithinLimit'
<1>1. CASE process' = "running"
  <2>1. /\ running_thread_id' \in ActiveIds'
        /\ ToSet(ready_queue') \cup sleeping_threads' \subseteq ActiveIds'
        /\ ActiveIds' \cup unused_threads_id' = 0 .. largest_thread_id'
        /\ largest_thread_id' < MAX_THREAD_NUM
    BY <1>1 DEF IInv, Consistent, OneRunning, ReadyQueueExact, SleepersExact,
                IdsAccountedFor
  <2>2. largest_thread_id' \in Nat /\ MAX_THREAD_NUM \in Nat
    BY SchedulerAssumption DEF IInv, Types
  <2>3. /\ 0 .. largest_thread_id' \subseteq PossibleIds
        /\ largest_thread_id' \in PossibleIds
    BY <2>1, <2>2 DEF PossibleIds
  <2> QED BY <2>1, <2>3 DEF IdsWithinLimit
<1>2. CASE UNCHANGED vars
  BY <1>2 DEF vars, dispatchVars, idVars, ActiveIds, IdsWithinLimit
<1>3. CASE process' # "running" /\ process = "running"
  <2>1. SUFFICES /\ ActiveIds' \subseteq ActiveIds
                 /\ UNCHANGED <<ready_queue, sleeping_threads, running_thread_id>>
                 /\ unused_threads_id' \cup {largest_thread_id'} \subseteq PossibleIds
    BY DEF IdsWithinLimit
  <2>2. CASE SpawnOutOfMemory
    <3>1. /\ active_threads' = [t \in {} |-> NewThread]
          /\ UNCHANGED <<ready_queue, sleeping_threads, running_thread_id>>
          /\ HasRoom /\ TakeThreadId
      BY <2>2 DEF SpawnOutOfMemory, Exit
    <3>2. generate_thread_id \in PossibleIds
      BY <1>3, <3>1, TakeId
         DEF IInv, Types, IdTypeOK, Consistent, PossibleIds
    <3>3. unused_threads_id' \cup {largest_thread_id'} \subseteq PossibleIds
      BY <3>1, <3>2 DEF TakeThreadId, idVars, IdsWithinLimit
    <3> QED BY <3>1, <3>3 DEF ActiveIds
  <2>3. CASE TerminateMain
    BY <2>3 DEF TerminateMain, Exit, idVars, ActiveIds, IdsWithinLimit
  <2>4. CASE \E tid \in ActiveIds : TerminateSelf(tid)
    <3>1. PICK tid \in ActiveIds : TerminateSelf(tid)
      BY <2>4
    <3>2. UNCHANGED <<active_threads, ready_queue, sleeping_threads,
                      running_thread_id>>
      BY <1>3, <3>1, AbortKeeps DEF TerminateSelf
    <3>3. /\ unused_threads_id' = unused_threads_id \cup {tid}
          /\ UNCHANGED largest_thread_id
      BY <3>1 DEF TerminateSelf
    <3> QED BY <3>2, <3>3 DEF ActiveIds, IdsWithinLimit
  <2>5. CASE \/ \E tid \in ActiveIds : BlockSelf(tid)
             \/ \E n \in SleepArguments : uthread_sleep(n)
             \/ internal_time_handler
    <3>1. UNCHANGED <<active_threads, ready_queue, sleeping_threads,
                      running_thread_id>>
      <4>1. CASE \E tid \in ActiveIds : BlockSelf(tid)
        <5>1. PICK tid \in ActiveIds : BlockSelf(tid)
          BY <4>1
        <5>2. CASE Abort
          BY <5>2 DEF Abort
        <5>3. CASE ~ Abort
          <6>1. run_topmost_thread_in_ready_queue(
                  [active_threads EXCEPT ![tid] = set_block(@)],
                  ready_queue, sleeping_threads)
            BY <5>1, <5>3 DEF BlockSelf
          <6> QED BY <1>3, <6>1, AbortKeeps
        <5> QED BY <5>2, <5>3
      <4>2. CASE \E n \in SleepArguments : uthread_sleep(n)
        <5>1. PICK n \in SleepArguments : uthread_sleep(n)
          BY <4>2
        <5>2. run_topmost_thread_in_ready_queue(
                [active_threads EXCEPT ![running_thread_id] = set_sleep(@, n)],
                ready_queue, sleeping_threads \cup {running_thread_id})
          BY <5>1 DEF uthread_sleep
        <5> QED BY <1>3, <5>2, AbortKeeps
      <4>3. CASE internal_time_handler
        <5>1. run_topmost_thread_in_ready_queue(
                [active_threads EXCEPT ![running_thread_id] = set_ready(@)],
                Append(ready_queue, running_thread_id), sleeping_threads)
          BY <4>3 DEF internal_time_handler
        <5> QED BY <1>3, <5>1, AbortKeeps
      <4> QED BY <2>5, <4>1, <4>2, <4>3
    <3>2. UNCHANGED idVars
      BY <2>5 DEF BlockSelf, uthread_sleep, internal_time_handler
    <3> QED BY <3>1, <3>2 DEF idVars, ActiveIds, IdsWithinLimit
  <2>6. ~ uthread_spawn /\ ~ Ended
    BY <1>3 DEF uthread_spawn, Ended
  <2>7. \A tid \in ActiveIds :
          ~ TerminateOther(tid) /\ ~ BlockOther(tid) /\ ~ uthread_resume(tid)
    BY <1>3 DEF TerminateOther, BlockOther, uthread_resume
  <2>8. ~ UNCHANGED vars
    BY <1>3 DEF vars, dispatchVars
  <2>9. \/ SpawnOutOfMemory
        \/ TerminateMain
        \/ \E tid \in ActiveIds : TerminateSelf(tid)
        \/ \/ \E tid \in ActiveIds : BlockSelf(tid)
           \/ \E n \in SleepArguments : uthread_sleep(n)
           \/ internal_time_handler
    BY <2>6, <2>7, <2>8, Zenon DEF Next
  <2> QED BY <2>2, <2>3, <2>4, <2>5, <2>9
<1>4. CASE process # "running"
  <2>1. UNCHANGED vars
    BY <1>4 DEF Next, Ended, uthread_spawn, SpawnOutOfMemory, TerminateMain,
                TerminateSelf, TerminateOther, BlockSelf, BlockOther,
                uthread_resume, uthread_sleep, internal_time_handler
  <2> QED BY <1>2, <2>1
<1> QED BY <1>1, <1>2, <1>3, <1>4

\* Every structure of the scheduler keeps to its type, and every id in them to
\* the limit on threads.
THEOREM TypeCorrect == Spec => []TypeOK
<1>1. Init => IdsWithinLimit
  <2>1. ToSet(<<>>) = {}
    BY DEF ToSet
  <2> QED BY <2>1, SchedulerAssumption
          DEF Init, IdsWithinLimit, PossibleIds, ActiveIds, MAIN_THREAD_ID
<1>2. Init => IInv
  BY InitConsistent
<1>3. IInv /\ IdsWithinLimit /\ [Next]_vars => (IInv /\ IdsWithinLimit)'
  BY StepConsistent, LimitStep
<1>4. IInv /\ IdsWithinLimit => TypeOK
  BY DEF IInv, TypeOK
<1> QED BY <1>1, <1>2, <1>3, <1>4, PTL DEF Spec

\* One thread runs; the queue, the set of sleepers and the states of the
\* threads tell the same story; no id is lost or given twice; the main thread
\* can always be scheduled.
THEOREM SchedulerConsistent == Spec => []Consistent
<1>1. IInv => Consistent
  BY DEF IInv
<1> QED BY <1>1, Invariance, PTL

\* In a program that never asks for a sleep of NOT_SLEEPING quantums no assert
\* of the library fails.
THEOREM AssertionsHold ==
  ASSUME NOT_SLEEPING \notin SleepArguments
  PROVE  Spec => []NoAssertionFails
<1>1. Init => NoAssertionFails
  BY DEF Init, NoAssertionFails
<1>2. IInv /\ NoAssertionFails /\ [Next]_vars => NoAssertionFails'
  <2> SUFFICES ASSUME IInv, process # "aborted", [Next]_vars
               PROVE  process' # "aborted"
    BY DEF NoAssertionFails
  <2>1. /\ DispatchTypeOK
        /\ process = "running" => ThreadsConsistent
    BY Parts DEF IInv
  <2>2. CASE uthread_spawn
    BY <2>2 DEF uthread_spawn
  <2>3. CASE SpawnOutOfMemory \/ TerminateMain
    BY <2>3 DEF SpawnOutOfMemory, TerminateMain, Exit
  <2>4. ASSUME NEW tid \in ActiveIds, TerminateSelf(tid)
        PROVE  process' # "aborted"
    <3>1. /\ process = "running" /\ ThreadsConsistent
          /\ tid = running_thread_id /\ tid # MAIN_THREAD_ID
          /\ run_topmost_thread_in_ready_queue(
               Without(active_threads, tid), ready_queue, sleeping_threads)
      BY <2>1, <2>4, ConsistentFacts DEF TerminateSelf
    <3>2. LET threads == Without(active_threads, tid)
          IN  /\ WellFormed(threads, ready_queue, sleeping_threads)
              /\ \A t \in sleeping_threads : MayUpdateSleepValue(threads[t])
      BY <2>1, <3>1, TerminateHandsOver
    <3> QED BY <2>1, <3>1, <3>2, Dispatch
  <2>5. ASSUME NEW tid \in ActiveIds, BlockSelf(tid)
        PROVE  process' # "aborted"
    <3> DEFINE threads == [active_threads EXCEPT ![running_thread_id] = set_block(@)]
    <3>1. /\ process = "running" /\ ThreadsConsistent
          /\ tid = running_thread_id /\ tid # MAIN_THREAD_ID
      BY <2>1, <2>5, ConsistentFacts DEF BlockSelf
    <3>2. run_topmost_thread_in_ready_queue(threads, ready_queue,
                                            sleeping_threads)
      BY <2>5, <3>1 DEF BlockSelf
    <3>3. /\ WellFormed(threads, ready_queue, sleeping_threads)
          /\ \A t \in sleeping_threads : MayUpdateSleepValue(threads[t])
      BY <2>1, <3>1, BlockHandsOver
    <3> HIDE DEF threads
    <3> QED BY <2>1, <3>1, <3>2, <3>3, Dispatch
  <2>6. ASSUME NEW tid \in ActiveIds,
               TerminateOther(tid) \/ BlockOther(tid) \/ uthread_resume(tid)
        PROVE  process' # "aborted"
    BY <2>6 DEF TerminateOther, BlockOther, uthread_resume
  <2>7. ASSUME NEW n \in SleepArguments, uthread_sleep(n)
        PROVE  process' # "aborted"
    <3> DEFINE threads  == [active_threads EXCEPT ![running_thread_id] = set_sleep(@, n)]
               sleeping == sleeping_threads \cup {running_thread_id}
    <3>1. /\ process = "running" /\ ThreadsConsistent
          /\ running_thread_id # MAIN_THREAD_ID
          /\ run_topmost_thread_in_ready_queue(threads, ready_queue, sleeping)
      BY <2>1, <2>7 DEF uthread_sleep
    <3>2. n \in Int /\ n # NOT_SLEEPING
      BY SchedulerAssumption
    <3>3. /\ WellFormed(threads, ready_queue, sleeping)
          /\ \A t \in sleeping : MayUpdateSleepValue(threads[t])
      BY <2>1, <3>1, <3>2, SleepHandsOver
    <3> HIDE DEF threads, sleeping
    <3> QED BY <2>1, <3>1, <3>3, Dispatch
  <2>8. CASE internal_time_handler
    <3> DEFINE threads == [active_threads EXCEPT ![running_thread_id] = set_ready(@)]
               queue   == Append(ready_queue, running_thread_id)
    <3>1. /\ process = "running" /\ ThreadsConsistent
          /\ run_topmost_thread_in_ready_queue(threads, queue, sleeping_threads)
      BY <2>1, <2>8 DEF internal_time_handler
    <3>2. /\ WellFormed(threads, queue, sleeping_threads)
          /\ \A t \in sleeping_threads : MayUpdateSleepValue(threads[t])
      BY <2>1, <3>1, TimerHandsOver
    <3> HIDE DEF threads, queue
    <3> QED BY <2>1, <3>1, <3>2, Dispatch
  <2>9. CASE UNCHANGED vars
    BY <2>9 DEF vars, dispatchVars
  <2> QED
    BY <2>2, <2>3, <2>4, <2>5, <2>6, <2>7, <2>8, <2>9 DEF Next, Ended
<1> QED BY <1>1, <1>2, Invariance, PTL DEF Spec

\* Thread ids as a program sees them: every step of the scheduler takes the
\* smallest free id, gives one back, ends the process or leaves the ids alone.
THEOREM IdsRefinement == Spec => IdsAreSmallestFree
<1>1. Init => Ids!Init
  BY DEF Init, Ids!Init, ActiveIds, MAIN_THREAD_ID
<1>2. IInv /\ [Next]_vars => [Ids!Next]_ActiveIds
  <2> SUFFICES ASSUME IInv, [Next]_vars, ActiveIds' # ActiveIds
               PROVE  Ids!Next
    OBVIOUS
  <2>1. /\ DispatchTypeOK /\ IdTypeOK
        /\ process = "running" => ThreadsConsistent /\ IdsAccountedFor
    BY Parts DEF IInv
  <2>2. CASE uthread_spawn
    <3> DEFINE tid == generate_thread_id
    <3>1. process = "running" /\ ActiveIds' = ActiveIds \cup {tid}
      BY <2>2 DEF uthread_spawn, ActiveIds
    <3>2. 0 \in ActiveIds
      BY <2>1, <3>1, ConsistentFacts DEF MAIN_THREAD_ID
    <3>3. /\ tid \in 0 .. MAX_THREAD_NUM - 1
          /\ tid \notin ActiveIds
          /\ \A smaller \in 0 .. tid - 1 : smaller \in ActiveIds
      BY <2>1, <2>2, <3>1, ConsistentFacts, TakeId DEF uthread_spawn
    <3> HIDE DEF tid
    <3> QED BY <3>1, <3>2, <3>3 DEF Ids!Next, Ids!Acquire
  <2>3. CASE SpawnOutOfMemory \/ TerminateMain
    <3>1. ActiveIds' = {}
      BY <2>3 DEF SpawnOutOfMemory, TerminateMain, Exit, ActiveIds
    <3> QED BY <3>1 DEF Ids!Next, Ids!ReleaseAll
  <2>4. ASSUME NEW tid \in ActiveIds, TerminateSelf(tid)
        PROVE  Ids!Next
    <3>1. /\ process = "running" /\ ThreadsConsistent
          /\ tid = running_thread_id /\ tid # MAIN_THREAD_ID
          /\ run_topmost_thread_in_ready_queue(
               Without(active_threads, tid), ready_queue, sleeping_threads)
      BY <2>1, <2>4, ConsistentFacts DEF TerminateSelf
    <3>2. /\ WellFormed(Without(active_threads, tid), ready_queue,
                        sleeping_threads)
          /\ DOMAIN Without(active_threads, tid) = ActiveIds \ {tid}
      BY <2>1, <3>1, TerminateHandsOver
    <3>3. ActiveIds' = ActiveIds \ {tid}
      BY <2>1, <3>1, <3>2, Dispatch
    <3> QED BY <3>1, <3>3 DEF Ids!Next, Ids!Release, MAIN_THREAD_ID
  <2>5. ASSUME NEW tid \in ActiveIds, TerminateOther(tid)
        PROVE  Ids!Next
    <3>1. ActiveIds' = ActiveIds \ {tid} /\ tid # 0
      BY <2>5 DEF TerminateOther, Without, ActiveIds, MAIN_THREAD_ID
    <3> QED BY <3>1 DEF Ids!Next, Ids!Release
  <2>6. ASSUME NEW tid \in ActiveIds, BlockSelf(tid)
        PROVE  FALSE
    <3> DEFINE threads == [active_threads EXCEPT ![running_thread_id] = set_block(@)]
    <3>1. /\ process = "running" /\ ThreadsConsistent
          /\ tid = running_thread_id /\ tid # MAIN_THREAD_ID
      BY <2>1, <2>6, ConsistentFacts DEF BlockSelf
    <3>2. run_topmost_thread_in_ready_queue(threads, ready_queue,
                                            sleeping_threads)
      BY <2>6, <3>1 DEF BlockSelf
    <3>3. WellFormed(threads, ready_queue, sleeping_threads)
      BY <2>1, <3>1, BlockHandsOver
    <3>4. DOMAIN threads = ActiveIds
      BY DEF ActiveIds
    <3> HIDE DEF threads
    <3> QED BY <2>1, <3>1, <3>2, <3>3, <3>4, Dispatch
  <2>7. ASSUME NEW tid \in ActiveIds, BlockOther(tid) \/ uthread_resume(tid)
        PROVE  FALSE
    BY <2>7 DEF BlockOther, uthread_resume, ActiveIds
  <2>8. ASSUME NEW n \in SleepArguments, uthread_sleep(n)
        PROVE  FALSE
    <3> DEFINE threads  == [active_threads EXCEPT ![running_thread_id] = set_sleep(@, n)]
               sleeping == sleeping_threads \cup {running_thread_id}
    <3>1. /\ process = "running" /\ ThreadsConsistent
          /\ running_thread_id # MAIN_THREAD_ID
          /\ run_topmost_thread_in_ready_queue(threads, ready_queue, sleeping)
      BY <2>1, <2>8 DEF uthread_sleep
    <3>2. n \in Int
      BY SchedulerAssumption
    <3>3. WellFormed(threads, ready_queue, sleeping)
      BY <2>1, <3>1, <3>2, SleepHandsOver
    <3>4. DOMAIN threads = ActiveIds
      BY DEF ActiveIds
    <3> HIDE DEF threads, sleeping
    <3> QED BY <2>1, <3>1, <3>3, <3>4, Dispatch
  <2>9. CASE internal_time_handler
    <3> DEFINE threads == [active_threads EXCEPT ![running_thread_id] = set_ready(@)]
               queue   == Append(ready_queue, running_thread_id)
    <3>1. /\ process = "running" /\ ThreadsConsistent
          /\ run_topmost_thread_in_ready_queue(threads, queue, sleeping_threads)
      BY <2>1, <2>9 DEF internal_time_handler
    <3>2. WellFormed(threads, queue, sleeping_threads)
      BY <2>1, <3>1, TimerHandsOver
    <3>3. DOMAIN threads = ActiveIds
      BY DEF ActiveIds
    <3> HIDE DEF threads, queue
    <3> QED BY <2>1, <3>1, <3>2, <3>3, Dispatch
  <2>10. CASE UNCHANGED vars
    BY <2>10 DEF vars, dispatchVars, ActiveIds
  <2> QED
    BY <2>2, <2>3, <2>4, <2>5, <2>6, <2>7, <2>8, <2>9, <2>10 DEF Next, Ended
<1> QED BY <1>1, <1>2, Invariance, PTL DEF Spec, IdsAreSmallestFree, Ids!Spec

=============================================================================
