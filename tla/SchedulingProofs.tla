-------------------------- MODULE SchedulingProofs --------------------------
(***************************************************************************)
(* Proofs about what a step of Scheduler makes of each thread: the order   *)
(* of the ready queue from one state to the next (RoundRobin), and the     *)
(* life of a thread (LivesFollowLifecycle).                                *)
(*                                                                         *)
(* The four ways to leave the CPU differ only in what they hand to the     *)
(* dispatcher.  HandsOver says what these have in common, QuantumStarts    *)
(* what the dispatcher then does, and the theorems need no more than that. *)
(***************************************************************************)
EXTENDS SchedulerProofs

\* The running thread leaves the CPU: the dispatcher is handed the structures
\* as they are except for what concerns that thread, which is READY, BLOCKED
\* or SLEEPING in them, or gone.
HandsOver(threads, queue, sleeping) ==
  /\ WellFormed(threads, queue, sleeping)
  /\ run_topmost_thread_in_ready_queue(threads, queue, sleeping)
  /\ DOMAIN threads \subseteq ActiveIds
  /\ ActiveIds \ {running_thread_id} \subseteq DOMAIN threads
  /\ \A t \in ActiveIds \ {running_thread_id} : threads[t] = active_threads[t]
  /\ running_thread_id \in DOMAIN threads =>
       threads[running_thread_id].state \in {"READY", "BLOCKED", "SLEEPING"}
  /\ sleeping \ {running_thread_id} = sleeping_threads
  /\ queue \in {ready_queue, Append(ready_queue, running_thread_id)}

\* The four ways to leave the CPU.
LEMMA QuantumHandsOver ==
  ASSUME IInv
  PROVE  /\ \A tid \in ActiveIds : TerminateSelf(tid) =>
              /\ tid = running_thread_id /\ tid # MAIN_THREAD_ID
              /\ HandsOver(Without(active_threads, running_thread_id),
                           ready_queue, sleeping_threads)
         /\ \A tid \in ActiveIds : BlockSelf(tid) =>
              /\ tid = running_thread_id /\ tid # MAIN_THREAD_ID
              /\ HandsOver(
                   [active_threads EXCEPT ![running_thread_id] = set_block(@)],
                   ready_queue, sleeping_threads)
         /\ \A n \in SleepArguments : uthread_sleep(n) =>
              /\ running_thread_id # MAIN_THREAD_ID
              /\ HandsOver(
                   [active_threads EXCEPT ![running_thread_id] = set_sleep(@, n)],
                   ready_queue, sleeping_threads \cup {running_thread_id})
         /\ internal_time_handler =>
              HandsOver(
                [active_threads EXCEPT ![running_thread_id] = set_ready(@)],
                Append(ready_queue, running_thread_id), sleeping_threads)
<1> DEFINE r == running_thread_id
<1>1. /\ DispatchTypeOK
      /\ process = "running" => ThreadsConsistent
  BY Parts DEF IInv
<1>2. ASSUME process = "running"
      PROVE  /\ r \in ActiveIds /\ DOMAIN active_threads = ActiveIds
             /\ active_threads[r] \in Thread /\ is_running(active_threads[r])
             /\ r \notin sleeping_threads
             /\ \A t \in ActiveIds : is_running(active_threads[t]) <=> t = r
  BY <1>1, <1>2, ConsistentFacts, StatesExclusive
<1>3. ASSUME NEW tid \in ActiveIds, TerminateSelf(tid)
      PROVE  /\ tid = r /\ tid # MAIN_THREAD_ID
             /\ HandsOver(Without(active_threads, r), ready_queue,
                          sleeping_threads)
  <2> DEFINE threads == Without(active_threads, r)
  <2>1. process = "running" /\ tid = r /\ tid # MAIN_THREAD_ID
    BY <1>2, <1>3 DEF TerminateSelf
  <2>2. /\ WellFormed(threads, ready_queue, sleeping_threads)
        /\ DOMAIN threads = ActiveIds \ {r}
    BY <1>1, <2>1, TerminateHandsOver
  <2>3. run_topmost_thread_in_ready_queue(threads, ready_queue,
                                          sleeping_threads)
    BY <1>3, <2>1 DEF TerminateSelf
  <2>4. \A t \in ActiveIds \ {r} : threads[t] = active_threads[t]
    BY <1>2, <2>1 DEF Without
  <2> HIDE DEF threads
  <2>5. HandsOver(threads, ready_queue, sleeping_threads)
    BY <1>2, <2>1, <2>2, <2>3, <2>4 DEF HandsOver
  <2> QED BY <2>1, <2>5 DEF threads
<1>4. ASSUME NEW tid \in ActiveIds, BlockSelf(tid)
      PROVE  /\ tid = r /\ tid # MAIN_THREAD_ID
             /\ HandsOver([active_threads EXCEPT ![r] = set_block(@)],
                          ready_queue, sleeping_threads)
  <2> DEFINE threads == [active_threads EXCEPT ![r] = set_block(@)]
  <2>1. process = "running" /\ tid = r /\ tid # MAIN_THREAD_ID
    BY <1>2, <1>4 DEF BlockSelf
  <2>2. WellFormed(threads, ready_queue, sleeping_threads)
    BY <1>1, <2>1, BlockHandsOver
  <2>3. run_topmost_thread_in_ready_queue(threads, ready_queue,
                                          sleeping_threads)
    BY <1>4, <2>1 DEF BlockSelf
  <2>4. /\ DOMAIN threads = ActiveIds
        /\ \A t \in ActiveIds \ {r} : threads[t] = active_threads[t]
        /\ threads[r].state = "BLOCKED"
    BY <1>2, <2>1 DEF set_block, Thread, is_running
  <2> HIDE DEF threads
  <2>5. HandsOver(threads, ready_queue, sleeping_threads)
    BY <1>2, <2>1, <2>2, <2>3, <2>4 DEF HandsOver
  <2> QED BY <2>1, <2>5 DEF threads
<1>5. ASSUME NEW n \in SleepArguments, uthread_sleep(n)
      PROVE  /\ r # MAIN_THREAD_ID
             /\ HandsOver([active_threads EXCEPT ![r] = set_sleep(@, n)],
                          ready_queue, sleeping_threads \cup {r})
  <2> DEFINE threads == [active_threads EXCEPT ![r] = set_sleep(@, n)]
             sleeping == sleeping_threads \cup {r}
  <2>1. /\ process = "running" /\ r # MAIN_THREAD_ID
        /\ run_topmost_thread_in_ready_queue(threads, ready_queue, sleeping)
    BY <1>5 DEF uthread_sleep
  <2>2. n \in Int
    BY SchedulerAssumption
  <2>3. WellFormed(threads, ready_queue, sleeping)
    BY <1>1, <2>1, <2>2, SleepHandsOver
  <2>4. /\ DOMAIN threads = ActiveIds
        /\ \A t \in ActiveIds \ {r} : threads[t] = active_threads[t]
        /\ threads[r].state = "SLEEPING"
    BY <1>2, <2>1 DEF set_sleep, Thread, is_running
  <2> HIDE DEF threads
  <2>5. HandsOver(threads, ready_queue, sleeping)
    BY <1>2, <2>1, <2>3, <2>4 DEF HandsOver
  <2> QED BY <2>1, <2>5 DEF threads
<1>6. ASSUME internal_time_handler
      PROVE  HandsOver([active_threads EXCEPT ![r] = set_ready(@)],
                       Append(ready_queue, r), sleeping_threads)
  <2> DEFINE threads == [active_threads EXCEPT ![r] = set_ready(@)]
  <2>1. /\ process = "running"
        /\ run_topmost_thread_in_ready_queue(
             threads, Append(ready_queue, r), sleeping_threads)
    BY <1>6 DEF internal_time_handler
  <2>2. WellFormed(threads, Append(ready_queue, r), sleeping_threads)
    BY <1>1, <2>1, TimerHandsOver
  <2>3. /\ DOMAIN threads = ActiveIds
        /\ \A t \in ActiveIds \ {r} : threads[t] = active_threads[t]
        /\ threads[r].state = "READY"
    BY <1>2, <2>1 DEF set_ready, Thread
  <2> HIDE DEF threads
  <2>4. HandsOver(threads, Append(ready_queue, r), sleeping_threads)
    BY <1>2, <2>1, <2>2, <2>3 DEF HandsOver
  <2> QED BY <2>4 DEF threads
<1> QED BY <1>3, <1>4, <1>5, <1>6

-----------------------------------------------------------------------------
\* A quantum has started: the thread at the front of the queue runs, or, as
\* nobody else waits, the one that ran before; whoever joins the queue stands
\* behind those that were in it.
QuantumStarted(threads, sleeping) ==
  LET updated == SleepersUpdated(threads, sleeping)
  IN  /\ process' = "running"
      /\ total_quantoms' = Increment(total_quantoms)
      /\ \A t \in sleeping : MayUpdateSleepValue(threads[t])
      /\ \A t \in DOMAIN threads :
           updated[t] \in Thread /\ ~ is_running(updated[t])
      /\ running_thread_id' = IF ready_queue = <<>> THEN running_thread_id
                                                    ELSE Head(ready_queue)
      /\ running_thread_id' \in DOMAIN threads
      /\ is_ready(updated[running_thread_id'])
      /\ sleeping_threads' = {t \in sleeping : is_sleeping(updated[t])}
      /\ active_threads' =
           [t \in DOMAIN threads |->
              IF t = running_thread_id' THEN set_running(updated[t])
                                        ELSE updated[t]]
      /\ \E rest \in Seq(Nat) :
           /\ IsInjective(ready_queue \o rest)
           /\ ready_queue \o rest # <<>>
           /\ ready_queue' = Tail(ready_queue \o rest)

\* What the dispatcher makes of what it is handed.
LEMMA QuantumStarts ==
  ASSUME IInv, NEW threads, NEW queue, NEW sleeping,
         process = "running", HandsOver(threads, queue, sleeping)
  PROVE  \/ Abort /\ ~ (\A t \in sleeping : MayUpdateSleepValue(threads[t]))
         \/ QuantumStarted(threads, sleeping)
<1> DEFINE r == running_thread_id
           updated == SleepersUpdated(threads, sleeping)
<1>1. /\ ActiveIds \subseteq Nat /\ r \in ActiveIds
      /\ MAIN_THREAD_ID \in ActiveIds
      /\ \A t \in ActiveIds : is_running(active_threads[t]) <=> t = r
      /\ ready_queue \in Seq(Nat) /\ IsInjective(ready_queue)
      /\ ToSet(ready_queue) = {t \in ActiveIds : is_ready(active_threads[t])}
      /\ \/ is_running(active_threads[MAIN_THREAD_ID])
         \/ is_ready(active_threads[MAIN_THREAD_ID])
  BY Parts, ConsistentFacts DEF IInv
<1>2. /\ WellFormed(threads, queue, sleeping)
      /\ run_topmost_thread_in_ready_queue(threads, queue, sleeping)
      /\ queue \in {ready_queue, Append(ready_queue, r)}
  BY DEF HandsOver
<1>3. CASE \E order \in Seq(Nat) : FrontDispatched(threads, queue, sleeping, order)
  <2>1. PICK order \in Seq(Nat) : FrontDispatched(threads, queue, sleeping, order)
    BY <1>3
  <2> DEFINE longer == queue \o order
  <2>2. /\ \A t \in sleeping : MayUpdateSleepValue(threads[t])
        /\ \A t \in DOMAIN threads :
             updated[t] \in Thread /\ ~ is_running(updated[t])
        /\ IsInjective(longer) /\ longer # <<>>
        /\ ToSet(longer) = {t \in DOMAIN threads : is_ready(updated[t])}
        /\ Head(longer) \in ToSet(longer)
        /\ process' = "running"
        /\ total_quantoms' = Increment(total_quantoms)
        /\ running_thread_id' = Head(longer)
        /\ ready_queue' = Tail(longer)
        /\ sleeping_threads' = {t \in sleeping : is_sleeping(updated[t])}
        /\ active_threads' =
             [t \in DOMAIN threads |->
                IF t = Head(longer) THEN set_running(updated[t])
                                    ELSE updated[t]]
    BY <2>1 DEF FrontDispatched
  <2>3. PICK rest \in Seq(Nat) :
          /\ longer = ready_queue \o rest
          /\ queue # ready_queue => rest # <<>> /\ Head(rest) = r
    <3>1. CASE queue = ready_queue
      BY <3>1
    <3>2. CASE queue = Append(ready_queue, r)
      <4>1. r \in Nat /\ ready_queue \in Seq(Nat)
        BY <1>1
      <4> HIDE DEF r
      <4> DEFINE behind == <<r>> \o order
      <4>2. /\ behind \in Seq(Nat) /\ behind # <<>> /\ Head(behind) = r
            /\ Append(ready_queue, r) \o order = ready_queue \o behind
        BY <4>1, PushBackThenAll
      <4> HIDE DEF behind
      <4> QED BY <3>2, <4>2
    <3> QED BY <1>2, <3>1, <3>2
  <2> HIDE DEF longer, updated
  <2>4. Head(longer) = IF ready_queue = <<>> THEN r ELSE Head(ready_queue)
    <3>1. CASE ready_queue # <<>>
      BY <1>1, <2>3, <3>1, FrontStays
    <3>2. CASE ready_queue = <<>>
      <4>1. ToSet(ready_queue) = {}
        <5>1. Len(<<>>) = 0 /\ DOMAIN <<>> = 1 .. Len(<<>>)
          BY EmptySeq, LenProperties
        <5> QED BY <3>2, <5>1 DEF ToSet
      <4>2. r = MAIN_THREAD_ID
        BY <1>1, <4>1
      <4>3. r \in ToSet(queue)
        BY <1>2, <4>2 DEF WellFormed
      <4> QED BY <2>3, <3>2, <4>1, <4>3, FrontStays
    <3> QED BY <3>1, <3>2
  <2>5. \E q \in Seq(Nat) : /\ IsInjective(ready_queue \o q)
                            /\ ready_queue \o q # <<>>
                            /\ ready_queue' = Tail(ready_queue \o q)
    BY <2>2, <2>3
  <2>6. /\ Head(longer) \in DOMAIN threads
        /\ is_ready(updated[Head(longer)])
    BY <2>2
  <2> QED BY <2>2, <2>4, <2>5, <2>6 DEF QuantumStarted, updated
<1> QED BY <1>2, <1>3, DispatchOutcome

-----------------------------------------------------------------------------
(***************************************************************************)
(* The order of the ready queue.                                           *)
(***************************************************************************)

\* In a queue without repetitions an element has one position.
LEMMA PositionIs ==
  ASSUME NEW q \in Seq(Nat), IsInjective(q)
  PROVE  /\ \A i \in 1 .. Len(q) : Position(q, q[i]) = i
         /\ \A t \in ToSet(q) :
              Position(q, t) \in 1 .. Len(q) /\ q[Position(q, t)] = t
<1>1. DOMAIN q = 1 .. Len(q)
  BY LenProperties
<1>2. ASSUME NEW i \in 1 .. Len(q) PROVE Position(q, q[i]) = i
  BY <1>1 DEF Position, IsInjective
<1>3. ASSUME NEW t \in ToSet(q)
      PROVE  Position(q, t) \in 1 .. Len(q) /\ q[Position(q, t)] = t
  <2>1. PICK i \in 1 .. Len(q) : q[i] = t
    BY <1>1 DEF ToSet
  <2> QED BY <1>2, <2>1
<1> QED BY <1>2, <1>3

\* The threads that stay queued move up by k places, and before them are only
\* threads that were there already.
MovesUp(q, p, k) ==
  LET kept == ToSet(q) \cap ToSet(p)
  IN  /\ \A t \in kept : Position(p, t) <= Position(q, t) - k
      /\ \A t \in kept : Ahead(p, t) \subseteq Ahead(q, t)

\* It is enough to know where the thread in each place of p came from; places
\* beyond q are those of threads that were not in it.
LEMMA PlacesMoveUp ==
  ASSUME NEW q \in Seq(Nat), IsInjective(q),
         NEW p \in Seq(Nat), IsInjective(p), NEW k \in Nat,
         NEW from \in [1 .. Len(p) -> Nat \ {0}],
         \A j \in 1 .. Len(p) : from[j] \in 1 .. Len(q) => p[j] = q[from[j]],
         \A i \in 1 .. Len(q), j \in 1 .. Len(p) : q[i] = p[j] => i = from[j],
         \A j \in 1 .. Len(p) : j <= from[j] - k,
         \A j, n \in 1 .. Len(p) : j < n => from[j] < from[n]
  PROVE  MovesUp(q, p, k)
<1> SUFFICES ASSUME NEW t \in ToSet(q) \cap ToSet(p)
             PROVE  /\ Position(p, t) <= Position(q, t) - k
                    /\ Ahead(p, t) \subseteq Ahead(q, t)
  BY DEF MovesUp
<1> DEFINE i == Position(q, t)
           j == Position(p, t)
<1>1. /\ Len(q) \in Nat /\ i \in 1 .. Len(q) /\ q[i] = t
      /\ Len(p) \in Nat /\ j \in 1 .. Len(p) /\ p[j] = t
  BY PositionIs, LenProperties
<1>2. /\ Ahead(q, t) = {q[m] : m \in 1 .. i - 1}
      /\ Ahead(p, t) = {p[n] : n \in 1 .. j - 1}
  BY DEF Ahead
<1> HIDE DEF i, j
<1>3. i = from[j]
  BY <1>1
<1>4. ASSUME NEW n \in 1 .. j - 1
      PROVE  p[n] \in Ahead(q, t)
  <2>1. n \in 1 .. Len(p) /\ n < j
    BY <1>1
  <2>2. from[n] \in 1 .. i - 1 /\ from[n] \in 1 .. Len(q)
    <3> DEFINE m == from[n]
    <3>1. m \in Nat \ {0} /\ m < i
      BY <1>1, <1>3, <2>1
    <3>2. i \in 1 .. Len(q) /\ Len(q) \in Nat
      BY <1>1
    <3> HIDE DEF m
    <3>3. m \in 1 .. i - 1 /\ m \in 1 .. Len(q)
      BY <3>1, <3>2
    <3> QED BY <3>3 DEF m
  <2>3. p[n] = q[from[n]]
    BY <2>1, <2>2
  <2> QED BY <1>2, <2>2, <2>3
<1>5. j <= i - k
  BY <1>1, <1>3
<1>6. Ahead(p, t) \subseteq Ahead(q, t)
  BY <1>2, <1>4
<1> QED BY <1>5, <1>6 DEF i, j

\* No two places of an injective queue hold the same thread.
LEMMA OnePlaceEach ==
  ASSUME NEW q \in Seq(Nat), IsInjective(q)
  PROVE  /\ Len(q) \in Nat
         /\ \A i, j \in 1 .. Len(q) : q[i] = q[j] => i = j
<1>1. Len(q) \in Nat /\ DOMAIN q = 1 .. Len(q)
  BY LenProperties
<1> QED BY <1>1 DEF IsInjective

\* Standing still is moving up by 0 places.
LEMMA NobodyMoves ==
  ASSUME NEW q \in Seq(Nat), IsInjective(q)
  PROVE  MovesUp(q, q, 0)
<1> DEFINE from == [j \in 1 .. Len(q) |-> j]
<1>1. Len(q) \in Nat /\ \A i, j \in 1 .. Len(q) : q[i] = q[j] => i = j
  BY OnePlaceEach
<1>2. /\ from \in [1 .. Len(q) -> Nat \ {0}]
      /\ \A j \in 1 .. Len(q) : from[j] = j
  BY <1>1
<1> HIDE DEF from
<1>3. \A j \in 1 .. Len(q) : j <= from[j] - 0
  BY <1>1, <1>2
<1>4. \A j, n \in 1 .. Len(q) : j < n => from[j] < from[n]
  BY <1>2
<1>5. \A i, j \in 1 .. Len(q) : q[i] = q[j] => i = from[j]
  BY <1>1, <1>2
<1>6. \A j \in 1 .. Len(q) : q[j] = q[from[j]]
  BY <1>2
<1> QED BY <1>2, <1>3, <1>4, <1>5, <1>6, PlacesMoveUp

\* Behind a push_back nobody moves.
LEMMA PushMovesNobody ==
  ASSUME NEW q \in Seq(Nat), IsInjective(q), NEW e \in Nat, e \notin ToSet(q)
  PROVE  MovesUp(q, Append(q, e), 0)
<1> DEFINE p == Append(q, e)
           from == [j \in 1 .. Len(p) |-> j]
<1>1. p \in Seq(Nat) /\ IsInjective(p)
  BY PushBack
<1>2. /\ Len(q) \in Nat /\ Len(p) = Len(q) + 1
      /\ \A i \in 1 .. Len(q) : p[i] = q[i]
  BY AppendProperties, LenProperties
<1> HIDE DEF p
<1>3. \A i, j \in 1 .. Len(p) : p[i] = p[j] => i = j
  BY <1>1, OnePlaceEach
<1>4. /\ from \in [1 .. Len(p) -> Nat \ {0}]
      /\ \A j \in 1 .. Len(p) : from[j] = j
  BY <1>2
<1> HIDE DEF from
<1>5. ASSUME NEW i \in 1 .. Len(q), NEW j \in 1 .. Len(p), q[i] = p[j]
      PROVE  i = from[j]
  <2>1. i \in 1 .. Len(p) /\ p[i] = p[j]
    BY <1>2, <1>5
  <2> QED BY <1>3, <1>4, <2>1
<1>6. \A j \in 1 .. Len(p) : j <= from[j] - 0
  BY <1>2, <1>4
<1>7. \A j, n \in 1 .. Len(p) : j < n => from[j] < from[n]
  BY <1>4
<1>8. \A j \in 1 .. Len(p) : from[j] \in 1 .. Len(q) => p[j] = q[from[j]]
  BY <1>2, <1>4
<1>9. MovesUp(q, p, 0)
  BY <1>1, <1>4, <1>5, <1>6, <1>7, <1>8, PlacesMoveUp
<1> QED BY <1>9 DEF p

\* Erasing a thread lets only those behind it move.
LEMMA EraseKeepsOrder ==
  ASSUME NEW q \in Seq(Nat), IsInjective(q), NEW e \in ToSet(q)
  PROVE  MovesUp(q, RemoveFirst(q, e), 0)
<1> DEFINE p == RemoveFirst(q, e)
<1>1. p \in Seq(Nat) /\ IsInjective(p)
  BY Erase
<1>2. PICK k \in 1 .. Len(q) :
        /\ Len(p) = Len(q) - 1
        /\ \A i \in 1 .. Len(q) - 1 : p[i] = IF i < k THEN q[i] ELSE q[i + 1]
  BY EraseMovesUp
<1>3. Len(q) \in Nat /\ \A i, j \in 1 .. Len(q) : q[i] = q[j] => i = j
  BY OnePlaceEach
<1> HIDE DEF p
<1> DEFINE from == [j \in 1 .. Len(p) |-> IF j < k THEN j ELSE j + 1]
<1>4. /\ from \in [1 .. Len(p) -> Nat \ {0}]
      /\ \A j \in 1 .. Len(p) : from[j] = IF j < k THEN j ELSE j + 1
  BY <1>2, <1>3
<1> HIDE DEF from
<1>5. ASSUME NEW j \in 1 .. Len(p)
      PROVE  from[j] \in 1 .. Len(q) /\ p[j] = q[from[j]]
  <2>1. j \in 1 .. Len(q) - 1
    BY <1>2
  <2>2. p[j] = IF j < k THEN q[j] ELSE q[j + 1]
    BY <1>2, <2>1
  <2> QED BY <1>3, <1>4, <2>1, <2>2
<1>6. ASSUME NEW j \in 1 .. Len(p)
      PROVE  j <= from[j] - 0
  <2>1. j \in Int /\ from[j] \in {j, j + 1}
    BY <1>4
  <2> QED BY <2>1
<1>7. ASSUME NEW j \in 1 .. Len(p), NEW n \in 1 .. Len(p), j < n
      PROVE  from[j] < from[n]
  <2>1. /\ j \in Int /\ n \in Int /\ k \in Int
        /\ from[j] = (IF j < k THEN j ELSE j + 1)
        /\ from[n] = (IF n < k THEN n ELSE n + 1)
    BY <1>4
  <2> QED BY <1>7, <2>1
<1>8. \A i \in 1 .. Len(q), j \in 1 .. Len(p) : q[i] = p[j] => i = from[j]
  BY <1>3, <1>5
<1>9. MovesUp(q, p, 0)
  BY <1>1, <1>4, <1>5, <1>6, <1>7, <1>8, PlacesMoveUp
<1> QED BY <1>9 DEF p

\* With a new quantum everybody moves up.
LEMMA PopMovesAll ==
  ASSUME NEW q \in Seq(Nat), IsInjective(q), NEW rest \in Seq(Nat),
         IsInjective(q \o rest), q \o rest # <<>>
  PROVE  MovesUp(q, Tail(q \o rest), 1)
<1> DEFINE l == q \o rest
           p == Tail(l)
           from == [j \in 1 .. Len(p) |-> j + 1]
<1>1. /\ l \in Seq(Nat) /\ Len(q) \in Nat /\ Len(rest) \in Nat
      /\ Len(l) = Len(q) + Len(rest)
      /\ \A i \in 1 .. Len(q) : l[i] = q[i]
  BY ConcatProperties, LenProperties
<1> HIDE DEF l
<1>2. IsInjective(l) /\ l # <<>>
  BY DEF l
<1>3. /\ p \in Seq(Nat) /\ IsInjective(p)
      /\ Len(p) = Len(l) - 1 /\ Len(p) \in Nat
      /\ \A j \in 1 .. Len(p) : p[j] = l[j + 1]
  BY <1>1, <1>2, PopFront, HeadTailProperties, LenProperties
<1>4. \A i, j \in 1 .. Len(l) : l[i] = l[j] => i = j
  BY <1>1, <1>2, OnePlaceEach
<1> HIDE DEF p
<1>5. /\ from \in [1 .. Len(p) -> Nat \ {0}]
      /\ \A j \in 1 .. Len(p) : from[j] = j + 1
  BY <1>3
<1> HIDE DEF from
<1>6. ASSUME NEW i \in 1 .. Len(q), NEW j \in 1 .. Len(p), q[i] = p[j]
      PROVE  i = from[j]
  <2>1. /\ i \in 1 .. Len(l) /\ j + 1 \in 1 .. Len(l)
        /\ l[i] = l[j + 1]
    BY <1>1, <1>3, <1>6
  <2> QED BY <1>4, <1>5, <2>1
<1>7. \A j \in 1 .. Len(p) : j <= from[j] - 1
  BY <1>3, <1>5
<1>8. \A j, n \in 1 .. Len(p) : j < n => from[j] < from[n]
  BY <1>3, <1>5
<1>9. \A j \in 1 .. Len(p) : from[j] \in 1 .. Len(q) => p[j] = q[from[j]]
  BY <1>1, <1>3, <1>5
<1>10. MovesUp(q, p, 1)
  BY <1>1, <1>3, <1>5, <1>6, <1>7, <1>8, <1>9, PlacesMoveUp
<1> QED BY <1>10 DEF p, l

\* Who moves up by one place does not fall back.
LEMMA MovesUpAtLeast ==
  ASSUME NEW q \in Seq(Nat), IsInjective(q), NEW p \in Seq(Nat), IsInjective(p),
         MovesUp(q, p, 1)
  PROVE  MovesUp(q, p, 0)
<1>1. \A t \in ToSet(q) \cap ToSet(p) :
        /\ Position(q, t) \in Int /\ Position(p, t) \in Int
        /\ Position(p, t) <= Position(q, t) - 1
  <2>1. Len(q) \in Nat /\ Len(p) \in Nat
    BY LenProperties
  <2> QED BY <2>1, PositionIs DEF MovesUp
<1>2. \A t \in ToSet(q) \cap ToSet(p) : Position(p, t) <= Position(q, t) - 0
  BY <1>1
<1> QED BY <1>2 DEF MovesUp

\* What is to be shown of a step: the queue moves up by 0 places within a
\* quantum, and by 1 when the front of it starts a new one.
LEMMA QueueMoves ==
  ASSUME \/ /\ UNCHANGED total_quantoms
            /\ MovesUp(ready_queue, ready_queue', 0)
         \/ /\ MovesUp(ready_queue, ready_queue', 0)
            /\ MovesUp(ready_queue, ready_queue', 1)
            /\ ready_queue # <<>> => running_thread_id' = Head(ready_queue)
  PROVE  QueueMovesUp
BY DEF QueueMovesUp, MovesUp, NewQuantum

\* A new quantum moves everybody up and gives the CPU to the front.
LEMMA QuantumMovesUp ==
  ASSUME IInv, NEW threads, NEW queue, NEW sleeping,
         process = "running", HandsOver(threads, queue, sleeping)
  PROVE  QueueMovesUp
<1>1. ready_queue \in Seq(Nat) /\ IsInjective(ready_queue)
  BY Parts, ConsistentFacts DEF IInv
<1>2. CASE Abort
  <2>1. MovesUp(ready_queue, ready_queue', 0)
    BY <1>1, <1>2, NobodyMoves DEF Abort
  <2> QED BY <1>2, <2>1, QueueMoves DEF Abort
<1>3. CASE QuantumStarted(threads, sleeping)
  <2>1. /\ ready_queue # <<>> => running_thread_id' = Head(ready_queue)
        /\ \E rest \in Seq(Nat) : /\ IsInjective(ready_queue \o rest)
                                  /\ ready_queue \o rest # <<>>
                                  /\ ready_queue' = Tail(ready_queue \o rest)
    BY <1>3 DEF QuantumStarted
  <2>2. PICK rest \in Seq(Nat) : /\ IsInjective(ready_queue \o rest)
                                 /\ ready_queue \o rest # <<>>
                                 /\ ready_queue' = Tail(ready_queue \o rest)
    BY <2>1
  <2>3. ready_queue \o rest \in Seq(Nat)
    BY <1>1, ConcatProperties
  <2>4. ready_queue' \in Seq(Nat) /\ IsInjective(ready_queue')
    BY <2>2, <2>3, PopFront
  <2>5. MovesUp(ready_queue, ready_queue', 1)
    BY <1>1, <2>2, PopMovesAll
  <2>6. MovesUp(ready_queue, ready_queue', 0)
    BY <1>1, <2>4, <2>5, MovesUpAtLeast
  <2> QED BY <2>1, <2>5, <2>6, QueueMoves
<1> QED BY <1>2, <1>3, QuantumStarts

\* What every step does to the ready queue.
LEMMA StepMovesUp ==
  ASSUME IInv, [Next]_vars, process = "running"
  PROVE  QueueMovesUp
<1>1. /\ ready_queue \in Seq(Nat) /\ IsInjective(ready_queue)
      /\ ActiveIds \subseteq Nat
      /\ ToSet(ready_queue) = {t \in ActiveIds : is_ready(active_threads[t])}
      /\ DispatchTypeOK /\ IdTypeOK /\ IdsAccountedFor
  BY Parts, ConsistentFacts DEF IInv
<1>2. ASSUME UNCHANGED <<ready_queue, total_quantoms>>
      PROVE  QueueMovesUp
  <2>1. MovesUp(ready_queue, ready_queue', 0)
    BY <1>1, <1>2, NobodyMoves
  <2> QED BY <1>2, <2>1, QueueMoves
<1>3. ASSUME NEW e \in Nat, e \notin ToSet(ready_queue),
             ready_queue' = Append(ready_queue, e), UNCHANGED total_quantoms
      PROVE  QueueMovesUp
  <2>1. MovesUp(ready_queue, ready_queue', 0)
    BY <1>1, <1>3, PushMovesNobody
  <2> QED BY <1>3, <2>1, QueueMoves
<1>4. ASSUME NEW e \in ToSet(ready_queue),
             ready_queue' = RemoveFirst(ready_queue, e), UNCHANGED total_quantoms
      PROVE  QueueMovesUp
  <2>1. MovesUp(ready_queue, ready_queue', 0)
    BY <1>1, <1>4, EraseKeepsOrder
  <2> QED BY <1>4, <2>1, QueueMoves
<1>5. CASE uthread_spawn
  <2> DEFINE tid == generate_thread_id
  <2>1. /\ ready_queue' = Append(ready_queue, tid)
        /\ UNCHANGED total_quantoms /\ HasRoom /\ TakeThreadId
    BY <1>5 DEF uthread_spawn
  <2>2. tid \in Nat /\ tid \notin ActiveIds
    BY <1>1, <2>1, TakeId
  <2> HIDE DEF tid
  <2> QED BY <1>1, <1>3, <2>1, <2>2
<1>6. CASE SpawnOutOfMemory \/ TerminateMain
  BY <1>2, <1>6 DEF SpawnOutOfMemory, TerminateMain, Exit
<1>7. ASSUME NEW tid \in ActiveIds, TerminateOther(tid)
      PROVE  QueueMovesUp
  <2>1. /\ UNCHANGED total_quantoms
        /\ ready_queue' = IF is_ready(active_threads[tid])
                            THEN RemoveFirst(ready_queue, tid) ELSE ready_queue
    BY <1>7 DEF TerminateOther
  <2> QED BY <1>1, <1>2, <1>4, <2>1
<1>8. ASSUME NEW tid \in ActiveIds, BlockOther(tid)
      PROVE  QueueMovesUp
  BY <1>1, <1>4, <1>8 DEF BlockOther
<1>9. ASSUME NEW tid \in ActiveIds, uthread_resume(tid)
      PROVE  QueueMovesUp
  <2>1. /\ UNCHANGED total_quantoms
        /\ is_blocked(active_threads[tid])
        /\ \/ ready_queue' = Append(ready_queue, tid)
           \/ UNCHANGED ready_queue
    BY <1>9 DEF uthread_resume
  <2>2. tid \notin ToSet(ready_queue)
    BY <1>1, <2>1, StatesExclusive
  <2> QED BY <1>1, <1>2, <1>3, <2>1, <2>2
<1>10. ASSUME NEW tid \in ActiveIds, TerminateSelf(tid) \/ BlockSelf(tid)
       PROVE  QueueMovesUp
  BY <1>10, QuantumHandsOver, QuantumMovesUp
<1>11. ASSUME NEW n \in SleepArguments, uthread_sleep(n)
       PROVE  QueueMovesUp
  BY <1>11, QuantumHandsOver, QuantumMovesUp
<1>12. CASE internal_time_handler
  BY <1>12, QuantumHandsOver, QuantumMovesUp
<1>13. CASE UNCHANGED vars
  BY <1>2, <1>13 DEF vars, dispatchVars
<1> QED
  BY <1>5, <1>6, <1>7, <1>8, <1>9, <1>10, <1>11, <1>12, <1>13 DEF Next, Ended

\* Round robin: no queued thread falls back or is overtaken, by a newcomer
\* either, and each new quantum is the front's, with everybody behind it one
\* place nearer.
THEOREM RoundRobinHolds == Spec => RoundRobin
<1>1. IInv /\ [Next]_vars => [process = "running" => QueueMovesUp]_vars
  BY StepMovesUp
<1> QED BY <1>1, Invariance, PTL DEF Spec, RoundRobin

-----------------------------------------------------------------------------
(***************************************************************************)
(* The life of a thread.                                                   *)
(***************************************************************************)

\* A blocked thread is never put to sleep and a sleeping one never blocked,
\* although Thread has a state for a thread that is both.
NeverBoth ==
  \A t \in ActiveIds : active_threads[t].state # "BLOCKED_AND_SLEEPING"

\* A sleeper goes on sleeping or waits for its turn.
LEMMA SleeperUpdated ==
  ASSUME NEW th \in Thread, th.state = "SLEEPING"
  PROVE  update_sleep_value(th).state \in {"SLEEPING", "READY"}
<1>1. CASE th.quantoms_left >= 1
  BY <1>1 DEF Thread, update_sleep_value
<1>2. CASE ~ (th.quantoms_left >= 1)
  <2> DEFINE rested == [th EXCEPT !.quantoms_left = NOT_SLEEPING]
  <2>1. rested \in Thread /\ rested.state = "SLEEPING"
    BY DEF Thread, NOT_SLEEPING
  <2>2. update_sleep_value(th) = wake_up(rested)
    BY <1>2 DEF update_sleep_value
  <2> HIDE DEF rested
  <2>3. wake_up(rested) = [rested EXCEPT !.state = "READY"]
    BY <2>1 DEF wake_up
  <2> QED BY <2>1, <2>2, <2>3 DEF Thread
<1> QED BY <1>1, <1>2

\* What a new quantum means for each thread: one that was READY runs, or the
\* same as before; a sleeper may wake; the one that left the CPU waits, is
\* BLOCKED, sleeps or is gone; all others are in the state they were in.
LEMMA LivesAfterQuantum ==
  ASSUME IInv, NeverBoth, process = "running",
         NEW threads, NEW queue, NEW sleeping,
         HandsOver(threads, queue, sleeping),
         QuantumStarted(threads, sleeping)
  PROVE  LET r == running_thread_id
         IN  /\ ActiveIds' = DOMAIN threads
             /\ running_thread_id' \in DOMAIN threads
             /\ active_threads'[running_thread_id'].state = "RUNNING"
             /\ IF ready_queue = <<>>
                  THEN running_thread_id' = r
                  ELSE /\ running_thread_id' \in ActiveIds \ {r}
                       /\ active_threads[running_thread_id'].state = "READY"
             /\ \A t \in DOMAIN threads \ {r, running_thread_id'} :
                  \/ active_threads'[t].state = active_threads[t].state
                  \/ /\ active_threads[t].state = "SLEEPING"
                     /\ active_threads'[t].state = "READY"
             /\ r \in DOMAIN threads \ {running_thread_id'} =>
                  active_threads'[r].state \in {"READY", "BLOCKED", "SLEEPING"}
<1> DEFINE r == running_thread_id
           D == DOMAIN threads
           updated == SleepersUpdated(threads, sleeping)
<1>1. /\ r \in ActiveIds
      /\ \A t \in ActiveIds : is_running(active_threads[t]) <=> t = r
      /\ ready_queue \in Seq(Nat) /\ IsInjective(ready_queue)
      /\ ToSet(ready_queue) = {t \in ActiveIds : is_ready(active_threads[t])}
  BY Parts, ConsistentFacts DEF IInv
<1>2. /\ D \subseteq ActiveIds /\ ActiveIds \ {r} \subseteq D
      /\ \A t \in ActiveIds \ {r} : threads[t] = active_threads[t]
      /\ r \in D => threads[r].state \in {"READY", "BLOCKED", "SLEEPING"}
      /\ \A t \in D : threads[t] \in Thread
      /\ sleeping = {t \in D : is_sleeping(threads[t])}
  BY DEF HandsOver, WellFormed
<1>3. /\ running_thread_id' = IF ready_queue = <<>> THEN r ELSE Head(ready_queue)
      /\ running_thread_id' \in D
      /\ \A t \in D : updated[t] \in Thread
      /\ active_threads' = [t \in D |-> IF t = running_thread_id'
                                          THEN set_running(updated[t])
                                          ELSE updated[t]]
  BY DEF QuantumStarted
<1>4. \A t \in D : updated[t] = IF t \in sleeping
                                  THEN update_sleep_value(threads[t])
                                  ELSE threads[t]
  BY DEF SleepersUpdated
<1> HIDE DEF D, updated
<1>5. \A t \in D : threads[t].state # "BLOCKED_AND_SLEEPING"
  BY <1>2 DEF NeverBoth
<1>6. \A t \in D : \/ updated[t].state = threads[t].state
                   \/ /\ threads[t].state = "SLEEPING"
                      /\ updated[t].state = "READY"
  <2> SUFFICES ASSUME NEW t \in D, t \in sleeping
               PROVE  \/ updated[t].state = threads[t].state
                      \/ /\ threads[t].state = "SLEEPING"
                         /\ updated[t].state = "READY"
    BY <1>4
  <2>1. threads[t] \in Thread /\ threads[t].state = "SLEEPING"
    BY <1>2, <1>5 DEF is_sleeping
  <2> QED BY <1>4, <2>1, SleeperUpdated
<1>7. /\ ActiveIds' = D
      /\ \A t \in D : active_threads'[t] = IF t = running_thread_id'
                                             THEN set_running(updated[t])
                                             ELSE updated[t]
  BY <1>3 DEF ActiveIds
<1>8. active_threads'[running_thread_id'].state = "RUNNING"
  BY <1>3, <1>7, SetState DEF is_running
<1>9. ready_queue # <<>> =>
        /\ running_thread_id' \in ActiveIds \ {r}
        /\ active_threads[running_thread_id'].state = "READY"
  <2> SUFFICES ASSUME ready_queue # <<>>
               PROVE  /\ running_thread_id' \in ActiveIds \ {r}
                      /\ active_threads[running_thread_id'].state = "READY"
    OBVIOUS
  <2>1. Head(ready_queue) \in ToSet(ready_queue)
    BY <1>1, PopFront
  <2>2. /\ running_thread_id' \in ActiveIds
        /\ is_ready(active_threads[running_thread_id'])
    BY <1>1, <1>3, <2>1
  <2> QED BY <1>1, <2>2, StatesExclusive DEF is_ready
<1>10. \A t \in D \ {r, running_thread_id'} :
         \/ active_threads'[t].state = active_threads[t].state
         \/ /\ active_threads[t].state = "SLEEPING"
            /\ active_threads'[t].state = "READY"
  BY <1>2, <1>6, <1>7
<1>11. r \in D \ {running_thread_id'} =>
         active_threads'[r].state \in {"READY", "BLOCKED", "SLEEPING"}
  BY <1>2, <1>6, <1>7
<1> QED BY <1>3, <1>7, <1>8, <1>9, <1>10, <1>11 DEF D

\* The states of the threads as ThreadLifecycle sees them.
LEMMA LifeFacts ==
  ASSUME IInv, NeverBoth, process = "running"
  PROVE  /\ ActiveIds \subseteq Lives!ThreadIds
         /\ \A t \in Lives!ThreadIds :
              Life[t] = IF t \in ActiveIds THEN active_threads[t].state ELSE "GONE"
         /\ \A t \in ActiveIds :
              /\ active_threads[t].state \in
                   {"RUNNING", "READY", "BLOCKED", "SLEEPING"}
              /\ active_threads[t].state = "RUNNING" <=> t = running_thread_id
              /\ active_threads[t].state = "READY" <=> t \in ToSet(ready_queue)
         /\ ToSet(ready_queue) \subseteq ActiveIds
         /\ running_thread_id \in ActiveIds
         /\ MAIN_THREAD_ID \in ActiveIds
<1>1. DispatchTypeOK /\ IdTypeOK /\ ThreadsConsistent /\ IdsAccountedFor
  BY Parts DEF IInv
<1>2. ActiveIds \subseteq Lives!ThreadIds
  BY <1>1, SchedulerAssumption DEF IdTypeOK, IdsAccountedFor, Lives!ThreadIds
<1>3. \A t \in Lives!ThreadIds :
        Life[t] = IF t \in ActiveIds THEN active_threads[t].state ELSE "GONE"
  BY DEF Life, Lives!ThreadIds
<1>4. \A t \in ActiveIds : active_threads[t].state \in
                             {"RUNNING", "READY", "BLOCKED", "SLEEPING"}
  BY <1>1, ConsistentFacts DEF NeverBoth, Thread, ThreadState
<1> QED BY <1>1, <1>2, <1>3, <1>4, ConsistentFacts DEF is_running, is_ready

\* What a step leaves of the states of the threads.
LEMMA LifeNext ==
  ASSUME NEW D, ActiveIds' = D
  PROVE  /\ Life' = [t \in Lives!ThreadIds |-> Life'[t]]
         /\ \A t \in Lives!ThreadIds :
              Life'[t] = IF t \in D THEN active_threads'[t].state ELSE "GONE"
BY DEF Life, Lives!ThreadIds

\* A step that touches one thread.
LEMMA OneLifeChanges ==
  ASSUME NEW D, ActiveIds' = D,
         NEW tid \in Lives!ThreadIds, NEW state,
         state = IF tid \in D THEN active_threads'[tid].state ELSE "GONE",
         \A t \in Lives!ThreadIds \ {tid} :
           (IF t \in D THEN active_threads'[t].state ELSE "GONE") = Life[t]
  PROVE  Lives!Becomes(tid, state)
<1>1. Life = [t \in Lives!ThreadIds |-> Life[t]]
  BY DEF Life, Lives!ThreadIds
<1>2. /\ Life' = [t \in Lives!ThreadIds |-> Life'[t]]
      /\ \A t \in Lives!ThreadIds \ {tid} : Life'[t] = Life[t]
      /\ Life'[tid] = state
  BY LifeNext
<1>3. Life' = [Life EXCEPT ![tid] = state]
  BY <1>1, <1>2
<1> QED BY <1>3 DEF Lives!Becomes

\* A new quantum is a Switch of ThreadLifecycle.
LEMMA QuantumSwitches ==
  ASSUME IInv, NeverBoth, process = "running", IInv',
         NEW threads, NEW queue, NEW sleeping,
         HandsOver(threads, queue, sleeping),
         QuantumStarted(threads, sleeping)
  PROVE  NeverBoth' /\ Lives!In("RUNNING") # {} /\ Lives!Switch
<1> DEFINE r == running_thread_id
           next == running_thread_id'
           D == DOMAIN threads
           ids == Lives!ThreadIds
           woken == {t \in D \ {r, next} : /\ active_threads[t].state = "SLEEPING"
                                           /\ active_threads'[t].state = "READY"}
           leaves == IF r \notin D THEN "GONE"
                     ELSE IF r = next THEN "READY" ELSE active_threads'[r].state
<1>1. /\ ActiveIds' = D /\ next \in D
      /\ active_threads'[next].state = "RUNNING"
      /\ ready_queue = <<>> => next = r
      /\ ready_queue # <<>> => next \in ActiveIds \ {r}
      /\ ready_queue # <<>> => active_threads[next].state = "READY"
      /\ \A t \in D \ {r, next} :
           \/ active_threads'[t].state = active_threads[t].state
           \/ t \in woken
      /\ r \in D \ {next} =>
           active_threads'[r].state \in {"READY", "BLOCKED", "SLEEPING"}
  BY LivesAfterQuantum
<1>2. D \subseteq ActiveIds /\ ActiveIds \ {r} \subseteq D
  BY DEF HandsOver
<1>3. /\ ActiveIds \subseteq ids /\ r \in ActiveIds /\ MAIN_THREAD_ID \in ActiveIds
      /\ \A t \in ids :
           Life[t] = IF t \in ActiveIds THEN active_threads[t].state ELSE "GONE"
      /\ \A t \in ActiveIds :
           /\ active_threads[t].state \in
                {"RUNNING", "READY", "BLOCKED", "SLEEPING"}
           /\ active_threads[t].state = "RUNNING" <=> t = r
           /\ active_threads[t].state = "READY" <=> t \in ToSet(ready_queue)
  BY LifeFacts
<1>4. /\ Life' = [t \in ids |-> Life'[t]]
      /\ \A t \in ids :
           Life'[t] = IF t \in D THEN active_threads'[t].state ELSE "GONE"
  BY <1>1, LifeNext
<1>5. r = MAIN_THREAD_ID => r \in D /\ leaves = "READY"
  <2>1. process' = "running"
    BY DEF QuantumStarted
  <2>2. /\ MAIN_THREAD_ID \in D
        /\ \/ is_running(active_threads'[MAIN_THREAD_ID])
           \/ is_ready(active_threads'[MAIN_THREAD_ID])
        /\ is_running(active_threads'[MAIN_THREAD_ID]) => MAIN_THREAD_ID = next
    BY <1>1, <2>1 DEF IInv, Consistent, OneRunning, MainIsSchedulable
  <2> QED BY <2>2 DEF is_ready
<1> HIDE DEF D, ids
<1>6. woken \subseteq D
  OBVIOUS
<1>7. \A t \in woken : /\ t \notin {r, next}
                       /\ active_threads[t].state = "SLEEPING"
                       /\ active_threads'[t].state = "READY"
  OBVIOUS
<1> HIDE DEF woken
<1>8. NeverBoth'
  <2> SUFFICES ASSUME NEW t \in D
               PROVE  active_threads'[t].state # "BLOCKED_AND_SLEEPING"
    BY <1>1 DEF NeverBoth
  <2> QED BY <1>1, <1>2, <1>3, <1>7
<1>9. Life' = [t \in ids |-> CASE t = next        -> "RUNNING"
                               [] t = r /\ t # next -> leaves
                               [] t \in woken     -> "READY"
                               [] OTHER           -> Life[t]]
  <2> SUFFICES ASSUME NEW t \in ids
               PROVE  Life'[t] = CASE t = next        -> "RUNNING"
                                   [] t = r /\ t # next -> leaves
                                   [] t \in woken     -> "READY"
                                   [] OTHER           -> Life[t]
    BY <1>4
  <2>1. CASE t = next
    BY <1>1, <1>4, <1>7, <2>1
  <2>2. CASE t = r /\ t # next
    BY <1>4, <1>7, <2>2
  <2>3. CASE t \in woken
    BY <1>4, <1>6, <1>7, <2>3
  <2>4. CASE t \notin woken /\ t # r /\ t # next
    BY <1>1, <1>2, <1>3, <1>4, <2>4
  <2> QED BY <2>1, <2>2, <2>3, <2>4
<1>10. leaves \in IF r = MAIN_THREAD_ID THEN {"READY"}
                  ELSE {"READY", "BLOCKED", "SLEEPING", "GONE"}
  BY <1>1, <1>5
<1> HIDE DEF leaves
<1>11. r \in Lives!In("RUNNING") /\ r \in ids
  BY <1>3 DEF Lives!In, ids
<1>12. woken \in SUBSET Lives!In("SLEEPING")
  BY <1>2, <1>3, <1>6, <1>7 DEF Lives!In, ids
<1>13. next \in IF Lives!In("READY") # {} THEN Lives!In("READY")
                                          ELSE Lives!In("RUNNING")
  <2>1. Lives!In("READY") = ToSet(ready_queue)
    BY <1>3, LifeFacts DEF Lives!In, ids
  <2>2. CASE ready_queue # <<>>
    BY <1>1, <1>3, <2>1, <2>2
  <2>3. CASE ready_queue = <<>>
    <3>1. Len(<<>>) = 0 /\ DOMAIN <<>> = 1 .. Len(<<>>)
      BY EmptySeq, LenProperties
    <3>2. ToSet(ready_queue) = {}
      BY <2>3, <3>1 DEF ToSet
    <3> QED BY <1>1, <1>11, <2>1, <2>3, <3>2
  <2> QED BY <2>2, <2>3
<1>14. Lives!Switch
  BY <1>9, <1>10, <1>11, <1>12, <1>13
     DEF Lives!Switch, Lives!MainThread, MAIN_THREAD_ID, ids
<1> QED BY <1>8, <1>11, <1>14

\* Every step of the scheduler is a step in the life of its threads.
LEMMA LifecycleStep ==
  IInv /\ NeverBoth /\ [Next]_vars => NeverBoth' /\ [Lives!Next]_Life
<1> SUFFICES ASSUME IInv, NeverBoth, [Next]_vars
             PROVE  NeverBoth' /\ [Lives!Next]_Life
  OBVIOUS
<1>1. DispatchTypeOK /\ IInv'
  BY Parts, StepConsistent DEF IInv
<1>2. ASSUME UNCHANGED active_threads
      PROVE  NeverBoth' /\ [Lives!Next]_Life
  BY <1>2 DEF NeverBoth, Life, ActiveIds
<1>3. ASSUME process = "running",
             NEW tid \in Lives!ThreadIds, tid # running_thread_id,
             ActiveIds' = ActiveIds \cup {tid} \/ ActiveIds' = ActiveIds \ {tid},
             \A t \in ActiveIds' \ {tid} : active_threads'[t] = active_threads[t],
             tid \in ActiveIds' =>
               active_threads'[tid].state \in {"READY", "BLOCKED"}
      PROVE  /\ NeverBoth'
             /\ Lives!In("RUNNING") # {}
             /\ Lives!Becomes(tid, IF tid \in ActiveIds'
                                     THEN active_threads'[tid].state ELSE "GONE")
  <2> DEFINE D == ActiveIds'
             state == IF tid \in D THEN active_threads'[tid].state ELSE "GONE"
  <2>1. \A t \in Lives!ThreadIds \ {tid} :
          (IF t \in D THEN active_threads'[t].state ELSE "GONE") = Life[t]
    BY <1>3, LifeFacts
  <2>2. NeverBoth'
    BY <1>3 DEF NeverBoth
  <2>3. running_thread_id \in Lives!In("RUNNING")
    BY <1>3, LifeFacts DEF Lives!In
  <2>4. Lives!Becomes(tid, state)
    BY <2>1, OneLifeChanges
  <2> QED BY <2>2, <2>3, <2>4
<1>4. CASE uthread_spawn
  <2> DEFINE tid == generate_thread_id
  <2>1. /\ process = "running" /\ ActiveIds' = ActiveIds \cup {tid}
        /\ active_threads' = [t \in ActiveIds \cup {tid} |->
                                IF t = tid THEN NewThread ELSE active_threads[t]]
    BY <1>4 DEF uthread_spawn, ActiveIds
  <2>2. tid \in Lives!ThreadIds /\ tid \notin ActiveIds
    BY <1>1, <1>4, <2>1, Parts, ConsistentFacts, TakeId
       DEF uthread_spawn, IInv, Lives!ThreadIds
  <2> HIDE DEF tid
  <2>3. /\ \A t \in ActiveIds' \ {tid} : active_threads'[t] = active_threads[t]
        /\ tid \in ActiveIds' /\ active_threads'[tid].state = "READY"
        /\ tid # running_thread_id
    BY <2>1, <2>2, LifeFacts DEF NewThread
  <2>4. NeverBoth' /\ Lives!In("RUNNING") # {} /\ Lives!Becomes(tid, "READY")
    BY <1>3, <2>1, <2>2, <2>3
  <2>5. tid \in Lives!In("GONE")
    BY <2>1, <2>2, LifeFacts DEF Lives!In
  <2> QED BY <2>4, <2>5 DEF Lives!Next, Lives!Spawn
<1>5. CASE SpawnOutOfMemory \/ TerminateMain
  <2>1. process = "running" /\ ActiveIds' = {}
    BY <1>5 DEF SpawnOutOfMemory, TerminateMain, Exit, ActiveIds
  <2>2. NeverBoth' /\ Lives!Exit
    BY <2>1 DEF NeverBoth, Lives!Exit, Life, Lives!ThreadIds
  <2>3. running_thread_id \in Lives!In("RUNNING")
    BY <2>1, LifeFacts DEF Lives!In
  <2> QED BY <2>2, <2>3 DEF Lives!Next
<1>6. ASSUME NEW tid \in ActiveIds, TerminateOther(tid)
      PROVE  NeverBoth' /\ [Lives!Next]_Life
  <2>1. /\ process = "running" /\ tid # MAIN_THREAD_ID
        /\ ~ is_running(active_threads[tid])
        /\ active_threads' = [t \in ActiveIds \ {tid} |-> active_threads[t]]
        /\ ActiveIds' = ActiveIds \ {tid}
    BY <1>6 DEF TerminateOther, Without, ActiveIds
  <2>2. tid \in Lives!ThreadIds /\ tid # running_thread_id
    BY <2>1, LifeFacts DEF is_running
  <2>3. NeverBoth' /\ Lives!In("RUNNING") # {} /\ Lives!Becomes(tid, "GONE")
    BY <1>3, <2>1, <2>2
  <2>4. tid \notin Lives!In("RUNNING")
    BY <2>1, <2>2, LifeFacts DEF Lives!In
  <2> QED BY <2>1, <2>2, <2>3, <2>4
          DEF Lives!Next, Lives!Kill, Lives!MainThread, MAIN_THREAD_ID
<1>7. ASSUME NEW tid \in ActiveIds, BlockOther(tid)
      PROVE  NeverBoth' /\ [Lives!Next]_Life
  <2>1. /\ process = "running" /\ tid # MAIN_THREAD_ID
        /\ is_ready(active_threads[tid])
        /\ active_threads' = [active_threads EXCEPT ![tid] = set_block(@)]
        /\ active_threads[tid] \in Thread
    BY <1>1, <1>7 DEF BlockOther, DispatchTypeOK
  <2>2. /\ ActiveIds' = ActiveIds
        /\ active_threads'[tid].state = "BLOCKED"
        /\ \A t \in ActiveIds \ {tid} : active_threads'[t] = active_threads[t]
    BY <2>1 DEF ActiveIds, is_ready, set_block, Thread
  <2>3. tid \in Lives!ThreadIds /\ tid # running_thread_id
    BY <2>1, LifeFacts DEF is_ready
  <2>4. NeverBoth' /\ Lives!In("RUNNING") # {} /\ Lives!Becomes(tid, "BLOCKED")
    BY <1>3, <2>1, <2>2, <2>3
  <2>5. tid \in Lives!In("READY")
    BY <2>1, <2>3, LifeFacts DEF Lives!In, is_ready
  <2> QED BY <2>1, <2>4, <2>5
          DEF Lives!Next, Lives!Block, Lives!MainThread, MAIN_THREAD_ID
<1>8. ASSUME NEW tid \in ActiveIds, uthread_resume(tid)
      PROVE  NeverBoth' /\ [Lives!Next]_Life
  <2>1. /\ process = "running"
        /\ is_blocked(active_threads[tid])
        /\ active_threads' = [active_threads EXCEPT ![tid] = unblock(@)]
        /\ active_threads[tid] \in Thread
    BY <1>1, <1>8 DEF uthread_resume, DispatchTypeOK
  <2>2. active_threads[tid].state = "BLOCKED"
    BY <2>1 DEF NeverBoth, is_blocked
  <2>3. unblock(active_threads[tid]).state = "READY"
    <3>1. unblock(active_threads[tid])
            = [active_threads[tid] EXCEPT !.state = "READY"]
      BY <2>1, <2>2 DEF unblock
    <3> QED BY <2>1, <3>1 DEF Thread
  <2>4. /\ ActiveIds' = ActiveIds
        /\ active_threads'[tid].state = "READY"
        /\ \A t \in ActiveIds \ {tid} : active_threads'[t] = active_threads[t]
    BY <2>1, <2>3 DEF ActiveIds
  <2>5. tid \in Lives!ThreadIds /\ tid # running_thread_id
    BY <2>1, <2>2, LifeFacts
  <2>6. NeverBoth' /\ Lives!In("RUNNING") # {} /\ Lives!Becomes(tid, "READY")
    BY <1>3, <2>1, <2>4, <2>5
  <2>7. tid \in Lives!In("BLOCKED")
    BY <2>1, <2>2, <2>5, LifeFacts DEF Lives!In
  <2> QED BY <2>6, <2>7 DEF Lives!Next, Lives!Resume
<1>9. ASSUME NEW threads, NEW queue, NEW sleeping,
             process = "running", HandsOver(threads, queue, sleeping)
      PROVE  NeverBoth' /\ [Lives!Next]_Life
  <2>1. CASE Abort
    BY <1>2, <2>1 DEF Abort
  <2>2. CASE QuantumStarted(threads, sleeping)
    BY <1>1, <1>9, <2>2, QuantumSwitches DEF Lives!Next
  <2> QED BY <1>9, <2>1, <2>2, QuantumStarts
<1>10. ASSUME NEW tid \in ActiveIds, TerminateSelf(tid) \/ BlockSelf(tid)
       PROVE  NeverBoth' /\ [Lives!Next]_Life
  <2>1. process = "running"
    BY <1>10 DEF TerminateSelf, BlockSelf
  <2> QED BY <1>9, <1>10, <2>1, QuantumHandsOver
<1>11. ASSUME NEW n \in SleepArguments, uthread_sleep(n)
       PROVE  NeverBoth' /\ [Lives!Next]_Life
  <2>1. process = "running"
    BY <1>11 DEF uthread_sleep
  <2> QED BY <1>9, <1>11, <2>1, QuantumHandsOver
<1>12. CASE internal_time_handler
  <2>1. process = "running"
    BY <1>12 DEF internal_time_handler
  <2> QED BY <1>9, <1>12, <2>1, QuantumHandsOver
<1>13. CASE UNCHANGED vars
  BY <1>2, <1>13 DEF vars, dispatchVars
<1> QED
  BY <1>4, <1>5, <1>6, <1>7, <1>8, <1>10, <1>11, <1>12, <1>13 DEF Next, Ended

\* No thread is ever blocked and asleep at once: the fifth state of Thread,
\* and with it most of what set_block, set_sleep, unblock and wake_up decide,
\* is never used.
THEOREM FifthStateUnreachable == Spec => []NeverBoth
<1>1. Init => NeverBoth
  BY DEF Init, NeverBoth, ActiveIds, set_running, NewThread
<1> QED BY <1>1, LifecycleStep, Invariance, PTL DEF Spec

\* Whatever calls its threads make, the scheduler lets every one of them live
\* by ThreadLifecycle, and hands on the CPU as that demands.
THEOREM LifecycleRefinement == Spec => LivesFollowLifecycle
<1>1. Init => Lives!Init
  <2>1. set_running(NewThread).state = "RUNNING"
    BY DEF set_running, NewThread
  <2> QED
    BY <2>1 DEF Init, Lives!Init, Life, Lives!ThreadIds, Lives!MainThread,
                ActiveIds, MAIN_THREAD_ID
<1> QED BY <1>1, LifecycleStep, Invariance, FifthStateUnreachable, PTL
        DEF Spec, LivesFollowLifecycle, Lives!Spec

=============================================================================
