-------------------------- MODULE UThreadsContract --------------------------
(***************************************************************************)
(* What uthreads.h promises to the threads that call the library, stated   *)
(* over the steps of Scheduler with history variables.  They record the    *)
(* calls that were made and never constrain a step.                        *)
(***************************************************************************)
EXTENDS Scheduler

VARIABLES
  held,      \* threads whose last successful block was not resumed since
  ignored,   \* those of them that were asleep when they were blocked
  until,     \* thread id -> the quantum that ends its sleep, or Awake
  retired,   \* quantums spent by the threads that were deleted
  passed     \* READY thread -> who had a quantum while it waited, in order

historyVars == <<held, ignored, until, retired, passed>>
contractVars == <<vars, historyVars>>

\* The argument of uthread_sleep is an int, and the largest int is smaller than
\* the number of values of an int: no sleep is as long as the counters' period.
ASSUME SleepsFitCounter == \A n \in SleepArguments : n < CounterModulus

Awake == -1

\* The quantum that ends a sleep of n quantums: the quantum of the call does
\* not count, nor does a negative number of quantums.
SleepEnds(n) == (total_quantoms + 1 + Max({n, 0})) % CounterModulus

ContractInit ==
  /\ Init
  /\ held = {}
  /\ ignored = {}
  /\ until = [t \in 0 .. MAX_THREAD_NUM - 1 |-> Awake]
  /\ retired = 0
  /\ passed = [t \in {} |-> <<>>]

\* The history after a step of the scheduler: h and i are the new values of
\* held and ignored, u tells until when each thread sleeps.
Record(h, i, u) ==
  /\ held' = h
  /\ ignored' = i
  /\ until' = [t \in DOMAIN u |->
                 IF u[t] = total_quantoms' THEN Awake ELSE u[t]]
  /\ retired' =
       (retired + SumFunctionOnSet([t \in ActiveIds |-> active_threads[t].age],
                                   ActiveIds \ ActiveIds')) % CounterModulus
  /\ passed' =
       [t \in ToSet(ready_queue') |->
          LET before == IF t \in ToSet(ready_queue) THEN passed[t] ELSE <<>>
          IN  IF NewQuantum THEN Append(before, running_thread_id') ELSE before]

\* uthread_block and uthread_resume also succeed where they change nothing.
BlockWithoutEffect(tid) ==
  /\ process = "running"
  /\ tid \in ActiveIds \ {MAIN_THREAD_ID}
  /\ ~ is_running(active_threads[tid]) /\ ~ is_ready(active_threads[tid])
  /\ UNCHANGED vars

ResumeWithoutEffect(tid) ==
  /\ process = "running"
  /\ ~ is_blocked(active_threads[tid])
  /\ UNCHANGED vars

Terminate(tid) ==
  /\ TerminateSelf(tid) \/ TerminateOther(tid)
  /\ Record(held \ {tid}, ignored \ {tid}, [until EXCEPT ![tid] = Awake])

Block(tid) ==
  /\ BlockSelf(tid) \/ BlockOther(tid) \/ BlockWithoutEffect(tid)
  /\ Record(held \cup {tid},
            IF is_sleeping(active_threads[tid]) THEN ignored \cup {tid}
                                                ELSE ignored \ {tid},
            until)

Resume(tid) ==
  /\ uthread_resume(tid) \/ ResumeWithoutEffect(tid)
  /\ Record(held \ {tid}, ignored \ {tid}, until)

Sleep(n) ==
  /\ uthread_sleep(n)
  /\ Record(held, ignored, [until EXCEPT ![running_thread_id] = SleepEnds(n)])

Other ==
  /\ \/ uthread_spawn
     \/ SpawnOutOfMemory
     \/ TerminateMain
     \/ internal_time_handler
  /\ Record(held, ignored, until)

ContractNext ==
  \/ \E tid \in ActiveIds : Terminate(tid) \/ Block(tid) \/ Resume(tid)
  \/ \E n \in SleepArguments : Sleep(n)
  \/ Other
  \/ Ended /\ UNCHANGED historyVars

ContractSpec == ContractInit /\ [][ContractNext]_contractVars

-----------------------------------------------------------------------------
\* uthread_sleep: a thread sleeps from its call until exactly num_quantums new
\* quantums have come and gone, whatever calls start those quantums, and is
\* awake from the start of the next one on.
SleepsExactly ==
  process = "running" =>
    sleeping_threads = {t \in DOMAIN until : until[t] # Awake}

\* uthread_block: a thread that was awake when it was blocked stays blocked
\* until it is resumed or terminated, through any sequence of other calls.
BlockLastsUntilResume ==
  process = "running" =>
    \A t \in held \ ignored : is_blocked(active_threads[t])

\* The header's promise for every thread: once uthread_block has succeeded the
\* thread neither runs nor waits for the CPU before it is resumed.
BlockedThreadsNeverRun ==
  process = "running" =>
    \A t \in held : ~ is_ready(active_threads[t]) /\ ~ is_running(active_threads[t])

\* uthread_get_total_quantums and uthread_get_quantums agree: every quantum
\* started belongs to exactly one thread, alive or deleted.
QuantumsAddUp ==
  process = "running" =>
    total_quantoms =
      (retired + SumFunction([t \in ActiveIds |-> active_threads[t].age]))
         % CounterModulus

\* "The thread is added to the end of the READY threads list" (uthreads.h:37,
\* 88), and nobody gets there before it: while a thread waits no other one has
\* the CPU twice, however it came by it and whatever woke, resumed or spawned.
NobodyPassesTwice ==
  process = "running" => \A t \in ToSet(ready_queue) : IsInjective(passed[t])

\* What that is worth: the quantums that a thread has waited and the threads
\* still before it are together fewer than MAX_THREAD_NUM, so that it waits for
\* MAX_THREAD_NUM - 1 quantums at the most.  Of the main thread, which always
\* runs or waits, it says how soon it runs again.
WaitIsBounded ==
  process = "running" =>
    \A t \in ToSet(ready_queue) :
      Len(passed[t]) + Cardinality(Ahead(ready_queue, t)) < MAX_THREAD_NUM

=============================================================================
