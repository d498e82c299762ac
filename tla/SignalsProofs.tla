---------------------------- MODULE SignalsProofs ----------------------------
(***************************************************************************)
(* Proofs about Signals, for every limit on the number of threads, every   *)
(* width of the counters and every set of arguments of uthread_sleep.      *)
(*                                                                         *)
(* Every step of Signals is a step of Scheduler or leaves its variables    *)
(* alone, so the inductive invariant of Scheduler holds here as well.  The *)
(* invariant of Signals adds to it where the contexts of the threads that  *)
(* wait for the CPU lead, and that the thread on the CPU is at home.       *)
(***************************************************************************)
EXTENDS Signals, SchedulerProofs

\* What a jump to t may find: t's own code, or the window, with the mask that
\* the place it leads to expects.
Waits(c, t) ==
  /\ c.at # "none"
  /\ \/ c.stack = t /\ c.under = "code"
     \/ c.at = "handler" /\ c.under = "window"
  /\ c.blocked <=> c.at \in {"leave", "handler"}

\* The context of a Lost thread.
Strays(c, t) == c.at = "handler" /\ ~ (c.stack = t /\ c.under = "code")

\* The CPU is in the program's code, in a call it made, or in a handler that
\* interrupted it.
InOwnCode ==
  \/ cpu.at \in {"code", "call", "leave"}
  \/ cpu.at = "handler" /\ cpu.under = "code"

AtHome ==
  Running /\ InOwnCode =>
    /\ cpu.stack = running_thread_id
    /\ ~ Strays(context[running_thread_id], running_thread_id)

\* The thread that runs needs a context only until the jump to it is over.
ContextsWait ==
  Running =>
    \A t \in ActiveIds :
      t # running_thread_id \/ cpu.at \in {"armed", "window", "handler"} =>
        Waits(context[t], t)

SigInv ==
  /\ IInv
  /\ SignalsTypeOK
  /\ MaskFollowsPoint
  /\ PreemptionIsPrepared
  /\ AtHome
  /\ ContextsWait

-----------------------------------------------------------------------------
(***************************************************************************)
(* What the actions of Scheduler do to the threads that are alive.         *)
(***************************************************************************)
LEMMA ThreadFacts ==
  ASSUME IInv
  PROVE  /\ ActiveIds \subseteq Nat
         /\ running_thread_id \in Nat
         /\ process = "running" => running_thread_id \in ActiveIds
BY DEF IInv, Types, Consistent, OneRunning

\* The same of the next state.
LEMMA ThreadFactsNext ==
  ASSUME IInv'
  PROVE  /\ ActiveIds' \subseteq Nat
         /\ running_thread_id' \in Nat
         /\ process' = "running" => running_thread_id' \in ActiveIds'
BY DEF IInv, Types, Consistent, OneRunning

LEMMA DispatchIds ==
  ASSUME NEW threads, NEW queue, NEW sleeping, process = "running",
         run_topmost_thread_in_ready_queue(threads, queue, sleeping)
  PROVE  \/ process' = "running" /\ ActiveIds' = DOMAIN threads
         \/ process' = "aborted" /\ ActiveIds' = ActiveIds
<1> DEFINE updated == SleepersUpdated(threads, sleeping)
<1>1. DOMAIN updated = DOMAIN threads
  BY DEF SleepersUpdated
<1> HIDE DEF updated
<1>2. PICK longer, awake : RunFront(updated, longer, sleeping \ awake) \/ Abort
  BY DEF run_topmost_thread_in_ready_queue, updated
<1>3. CASE RunFront(updated, longer, sleeping \ awake)
  BY <1>1, <1>3 DEF RunFront, ActiveIds
<1>4. CASE Abort
  BY <1>4 DEF Abort, ActiveIds
<1> QED BY <1>2, <1>3, <1>4

\* A call after which the caller goes on leaves it alive and on the CPU.
LEMMA CallerStays ==
  ASSUME IInv, process = "running",
         \/ uthread_spawn
         \/ \E tid \in ActiveIds :
              TerminateOther(tid) \/ BlockOther(tid) \/ uthread_resume(tid)
  PROVE  /\ IInv'
         /\ process' = "running"
         /\ running_thread_id' = running_thread_id
<1>1. Next
  BY DEF Next
<1>2. process' = process /\ running_thread_id' = running_thread_id
  BY DEF uthread_spawn, TerminateOther, BlockOther, uthread_resume
<1> QED BY <1>1, <1>2, StepConsistent

\* A call or a timer that takes the CPU from its thread leaves everybody alive.
LEMMA CallerSwitches ==
  ASSUME IInv, process = "running",
         \/ \E tid \in ActiveIds : BlockSelf(tid)
         \/ \E num_quantums \in SleepArguments : uthread_sleep(num_quantums)
         \/ internal_time_handler
  PROVE  IInv' /\ ActiveIds' = ActiveIds
<1>1. Next
  BY DEF Next
<1>2. IInv'
  BY <1>1, StepConsistent
<1>3. CASE \E tid \in ActiveIds : BlockSelf(tid)
  <2>1. PICK tid \in ActiveIds : BlockSelf(tid)
    BY <1>3
  <2> DEFINE threads == [active_threads EXCEPT ![tid] = set_block(@)]
  <2>2. DOMAIN threads = ActiveIds
    BY DEF ActiveIds
  <2>3. \/ run_topmost_thread_in_ready_queue(threads, ready_queue, sleeping_threads)
        \/ Abort
    BY <2>1 DEF BlockSelf
  <2> HIDE DEF threads
  <2> QED BY <1>2, <2>2, <2>3, DispatchIds DEF Abort, ActiveIds
<1>4. CASE \E num_quantums \in SleepArguments : uthread_sleep(num_quantums)
  <2>1. PICK n \in SleepArguments : uthread_sleep(n)
    BY <1>4
  <2> DEFINE threads  == [active_threads EXCEPT ![running_thread_id] = set_sleep(@, n)]
             sleeping == sleeping_threads \cup {running_thread_id}
  <2>2. DOMAIN threads = ActiveIds
    BY DEF ActiveIds
  <2>3. run_topmost_thread_in_ready_queue(threads, ready_queue, sleeping)
    BY <2>1 DEF uthread_sleep
  <2> HIDE DEF threads, sleeping
  <2> QED BY <1>2, <2>2, <2>3, DispatchIds
<1>5. CASE internal_time_handler
  <2> DEFINE threads == [active_threads EXCEPT ![running_thread_id] = set_ready(@)]
             queue   == Append(ready_queue, running_thread_id)
  <2>2. DOMAIN threads = ActiveIds
    BY DEF ActiveIds
  <2>3. run_topmost_thread_in_ready_queue(threads, queue, sleeping_threads)
    BY <1>5 DEF internal_time_handler
  <2> HIDE DEF threads, queue
  <2> QED BY <1>2, <2>2, <2>3, DispatchIds
<1> QED BY <1>2, <1>3, <1>4, <1>5

\* A thread that terminates itself is gone and takes nobody with it.
LEMMA CallerTerminates ==
  ASSUME IInv, process = "running",
         NEW tid \in ActiveIds, TerminateSelf(tid)
  PROVE  /\ IInv'
         /\ ActiveIds' \subseteq ActiveIds
         /\ process' = "running" => ActiveIds' = ActiveIds \ {running_thread_id}
<1>1. Next
  BY DEF Next
<1>2. tid = running_thread_id
  BY DEF TerminateSelf, IInv, Consistent, OneRunning
<1>3. /\ DOMAIN Without(active_threads, tid) = ActiveIds \ {tid}
      /\ run_topmost_thread_in_ready_queue(
           Without(active_threads, tid), ready_queue, sleeping_threads)
  BY DEF TerminateSelf, Without, ActiveIds
<1>4. IInv'
  BY <1>1, StepConsistent
<1> QED BY <1>2, <1>3, <1>4, DispatchIds

LEMMA CallerExits ==
  ASSUME IInv, TerminateMain \/ SpawnOutOfMemory
  PROVE  IInv' /\ process' # "running" /\ ActiveIds' = {}
<1>1. Next
  BY DEF Next
<1>2. process' # "running" /\ ActiveIds' = {}
  BY DEF TerminateMain, SpawnOutOfMemory, Exit, ActiveIds
<1> QED BY <1>1, <1>2, StepConsistent

-----------------------------------------------------------------------------
(***************************************************************************)
(* What the actions of Signals do to the contexts.                         *)
(***************************************************************************)
LEMMA LostStrays == \A t : Lost(t) <=> Strays(context[t], t)
BY DEF Lost, LeadsBack, Strays

LEMMA LostStraysNext == \A t : Lost(t)' <=> Strays(context'[t], t)
BY DEF Lost, LeadsBack, Strays

\* A stack that is not given up stays; one that is becomes Deleted.
LEMMA StackMoves ==
  ASSUME NEW stack \in Stacks
  PROVE  /\ StackAfter(stack) \in Stacks
         /\ StackAfter(stack) \in {stack, Deleted}
         /\ stack \in ActiveIds' \/ ActiveIds' = ActiveIds => StackAfter(stack) = stack
BY DEF StackAfter, Stacks, Deleted

LEMMA ContextsMove ==
  ASSUME NEW saved \in [ActiveIds -> Context], ActiveIds' \subseteq Nat,
         ContextsAfter(saved)
  PROVE  /\ context' \in [ActiveIds' -> Context]
         /\ \A t \in ActiveIds' \ ActiveIds :
              Waits(context'[t], t) /\ ~ Strays(context'[t], t)
         /\ \A t \in ActiveIds' \cap ActiveIds :
              /\ Waits(saved[t], t) => Waits(context'[t], t)
              /\ Strays(saved[t], t) <=> Strays(context'[t], t)
<1> DEFINE moved(t) == [saved[t] EXCEPT !.stack = StackAfter(@)]
<1>1. context' = [t \in ActiveIds' |->
                    IF t \in ActiveIds THEN moved(t) ELSE setup_env(t)]
  BY Zenon DEF ContextsAfter
<1>2. ASSUME NEW t \in ActiveIds' \cap ActiveIds
      PROVE  /\ moved(t) \in Context
             /\ Waits(saved[t], t) => Waits(moved(t), t)
             /\ Strays(saved[t], t) <=> Strays(moved(t), t)
  <2>1. saved[t] \in Context
    OBVIOUS
  <2>2. /\ StackAfter(saved[t].stack) \in Stacks
        /\ StackAfter(saved[t].stack) \in {saved[t].stack, Deleted}
        /\ saved[t].stack = t => StackAfter(saved[t].stack) = t
    BY <2>1, StackMoves DEF Context
  <2>3. /\ moved(t) \in Context
        /\ moved(t).at = saved[t].at
        /\ moved(t).under = saved[t].under
        /\ moved(t).blocked = saved[t].blocked
        /\ moved(t).stack = StackAfter(saved[t].stack)
    BY <2>1, <2>2 DEF Context
  <2>4. t # Deleted
    BY DEF Deleted
  <2> HIDE DEF moved
  <2>5. saved[t].stack = t <=> moved(t).stack = t
    BY <2>2, <2>3, <2>4
  <2> QED BY <2>3, <2>5, Zenon DEF Waits, Strays
<1>3. ASSUME NEW t \in ActiveIds' \ ActiveIds
      PROVE  /\ setup_env(t) \in Context
             /\ Waits(setup_env(t), t) /\ ~ Strays(setup_env(t), t)
  BY DEF setup_env, Context, Stacks, Waits, Strays
<1> HIDE DEF moved
<1> QED BY <1>1, <1>2, <1>3, Zenon

-----------------------------------------------------------------------------
(***************************************************************************)
(* The inductive invariant.                                                *)
(***************************************************************************)
LEMMA SignalsInitInv == SignalsInit => SigInv
<1> SUFFICES ASSUME SignalsInit PROVE SigInv
  OBVIOUS
<1>1. IInv
  BY InitConsistent DEF SignalsInit
<1>2. ActiveIds = {MAIN_THREAD_ID} /\ running_thread_id = MAIN_THREAD_ID
  BY DEF SignalsInit, Init, ActiveIds
<1>3. NoContext \in Context /\ ~ Strays(NoContext, MAIN_THREAD_ID)
  BY DEF NoContext, Context, Stacks, MAIN_THREAD_ID, Strays
<1>4. SignalsTypeOK
  BY <1>2, <1>3 DEF SignalsInit, SignalsTypeOK, Cpu, Points, Stacks, MAIN_THREAD_ID
<1>5. MaskFollowsPoint /\ PreemptionIsPrepared
  BY DEF SignalsInit, MaskFollowsPoint, PreemptionIsPrepared
<1>6. AtHome
  BY <1>2, <1>3 DEF SignalsInit, AtHome
<1>7. ContextsWait
  BY <1>2 DEF SignalsInit, ContextsWait
<1> QED BY <1>1, <1>4, <1>5, <1>6, <1>7 DEF SigInv

\* A step that touches neither the scheduler nor a context.
LEMMA SameThreads ==
  ASSUME SigInv, UNCHANGED <<vars, context>>
  PROVE  /\ IInv'
         /\ ActiveIds' = ActiveIds
         /\ process' = process
         /\ running_thread_id' = running_thread_id
         /\ context' \in [ActiveIds' -> Context]
         /\ context' = context
<1>1. IInv'
  BY StepConsistent DEF SigInv
<1>2. /\ process' = process
      /\ running_thread_id' = running_thread_id
      /\ active_threads' = active_threads
  BY DEF vars, dispatchVars
<1>3. ActiveIds' = ActiveIds
  BY <1>2 DEF ActiveIds
<1> QED BY <1>1, <1>2, <1>3 DEF SigInv, SignalsTypeOK

\* Such a step keeps the invariant if the CPU stays at home with its thread, or
\* if it stays, or ends up, where the thread's context is ready to be used.
LEMMA SameThreadsInv ==
  ASSUME SigInv, UNCHANGED <<vars, context>>,
         quantum' \in {"none", "zero", "positive"}, timer' \in {"off", "armed"},
         pending' \in BOOLEAN, blocked' \in BOOLEAN, cpu' \in Cpu,
         MaskFollowsPoint', PreemptionIsPrepared',
         \/ cpu'.at = "undefined"
         \/ cpu' = cpu
         \/ /\ Running /\ InOwnCode
            /\ cpu'.at \in {"code", "call", "leave"} /\ cpu'.stack = cpu.stack
         \/ /\ Running /\ cpu.at \in {"armed", "window", "handler"}
            /\ InOwnCode' =>
                 /\ cpu'.stack = running_thread_id
                 /\ ~ Strays(context[running_thread_id], running_thread_id)
  PROVE  SigInv'
<1>1. /\ IInv'
      /\ ActiveIds' = ActiveIds
      /\ process' = process
      /\ running_thread_id' = running_thread_id
      /\ context' \in [ActiveIds' -> Context]
      /\ context' = context
  BY SameThreads
<1>2. SignalsTypeOK'
  BY <1>1 DEF SignalsTypeOK
<1>3. AtHome'
  BY <1>1 DEF SigInv, AtHome, Running, InOwnCode
<1>4. ContextsWait'
  BY <1>1 DEF SigInv, ContextsWait, Running, InOwnCode
<1> QED BY <1>1, <1>2, <1>3, <1>4 DEF SigInv

\* A step that stops the process needs to keep only the types.
LEMMA StopsInv ==
  ASSUME SignalsTypeOK', IInv', process' # "running"
  PROVE  SigInv'
BY DEF SigInv, MaskFollowsPoint, PreemptionIsPrepared, AtHome, ContextsWait, Running

\* Line 119 is reached with a context ready for everybody alive.
LEMMA DispatchedInv ==
  ASSUME SigInv, Running, IInv', ActiveIds' \subseteq ActiveIds,
         blocked, cpu.stack \in Stacks,
         NEW saved \in [ActiveIds -> Context], Dispatched(saved),
         process' = "running" => \A t \in ActiveIds' : Waits(saved[t], t)
  PROVE  SigInv'
<1>1. ActiveIds' \subseteq Nat
  BY ThreadFactsNext
<1>2. /\ cpu' = [at |-> "armed", stack |-> StackAfter(cpu.stack), under |-> "code"]
      /\ timer' = IF quantum = "positive" THEN "armed" ELSE "off"
      /\ ContextsAfter(saved)
      /\ quantum' = quantum /\ pending' = pending /\ blocked' = blocked
  BY DEF Dispatched, init_timer_for_a_quantom
<1>3. /\ context' \in [ActiveIds' -> Context]
      /\ \A t \in ActiveIds' : Waits(saved[t], t) => Waits(context'[t], t)
  BY <1>1, <1>2, ContextsMove
<1>4. StackAfter(cpu.stack) \in Stacks
  BY StackMoves
<1>5. cpu'.at = "armed" /\ cpu' \in Cpu
  BY <1>2, <1>4 DEF Cpu, Points
<1>6. SignalsTypeOK'
  BY <1>2, <1>3, <1>5 DEF SigInv, SignalsTypeOK
<1>7. MaskFollowsPoint'
  BY <1>2, <1>5 DEF MaskFollowsPoint
<1>8. PreemptionIsPrepared'
  BY <1>2 DEF SigInv, PreemptionIsPrepared
<1>9. AtHome'
  BY <1>5 DEF AtHome, InOwnCode
<1>10. ContextsWait'
  BY <1>3 DEF ContextsWait, Running
<1> QED BY <1>6, <1>7, <1>8, <1>9, <1>10 DEF SigInv

-----------------------------------------------------------------------------
\* The calls that set up the scheduler, enter and leave, and the kernel.
LEMMA QuietSteps ==
  ASSUME SigInv,
         \/ TimerExpires \/ CallEnters \/ uthread_init \/ BuiltWithoutQuantum
         \/ ReadsOrFails \/ CallLeaves \/ UnblockBeforeJump \/ HandlerReturns
  PROVE  SigInv'
<1>1. /\ quantum \in {"none", "zero", "positive"}
      /\ timer \in {"off", "armed"}
      /\ pending \in BOOLEAN
      /\ blocked \in BOOLEAN
      /\ cpu \in Cpu
  BY DEF SigInv, SignalsTypeOK
<1>2. CASE TimerExpires
  BY <1>1, <1>2, SameThreadsInv
     DEF TimerExpires, SigInv, MaskFollowsPoint, PreemptionIsPrepared, Running
<1>3. CASE CallEnters
  <2>1. cpu' \in Cpu /\ cpu'.at = "call" /\ cpu'.stack = cpu.stack
    BY <1>1, <1>3 DEF CallEnters, Cpu, Points
  <2> QED
    BY <1>1, <1>3, <2>1, SameThreadsInv
       DEF CallEnters, SigInv, MaskFollowsPoint, PreemptionIsPrepared, Running,
           InOwnCode
<1>4. CASE uthread_init \/ BuiltWithoutQuantum \/ ReadsOrFails
  <2>1. /\ Running /\ cpu.at = "call" /\ blocked
        /\ UNCHANGED <<vars, context, pending, blocked>>
    BY <1>4
       DEF uthread_init, BuiltWithoutQuantum, ReadsOrFails, getInstance, InCall,
           SigInv, MaskFollowsPoint
  <2>2. cpu' \in Cpu /\ cpu'.at \in {"call", "leave"} /\ cpu'.stack = cpu.stack
    BY <1>1, <1>4, <2>1
       DEF uthread_init, BuiltWithoutQuantum, ReadsOrFails, Cpu, Points
  <2>3. /\ quantum' \in {"none", "zero", "positive"}
        /\ timer' \in {"off", "armed"}
        /\ timer' = "armed" \/ pending <=> quantum' = "positive"
    BY <1>1, <1>4, <2>1
       DEF uthread_init, BuiltWithoutQuantum, ReadsOrFails, getInstance,
           init_timer_for_a_quantom, SigInv, PreemptionIsPrepared
  <2> QED
    BY <1>1, <2>1, <2>2, <2>3, SameThreadsInv
       DEF MaskFollowsPoint, PreemptionIsPrepared, InOwnCode
<1>5. CASE CallLeaves
  <2>1. cpu' \in Cpu /\ cpu'.at = "code" /\ cpu'.stack = cpu.stack
    BY <1>1, <1>5 DEF CallLeaves, Cpu, Points
  <2> QED
    BY <1>1, <1>5, <2>1, SameThreadsInv
       DEF CallLeaves, SigInv, MaskFollowsPoint, PreemptionIsPrepared, Running,
           InOwnCode
<1>6. CASE UnblockBeforeJump
  <2>1. cpu' \in Cpu /\ cpu'.at = "window"
    BY <1>1, <1>6 DEF UnblockBeforeJump, Cpu, Points
  <2> QED
    BY <1>1, <1>6, <2>1, SameThreadsInv
       DEF UnblockBeforeJump, SigInv, MaskFollowsPoint, PreemptionIsPrepared,
           Running, InOwnCode
<1>7. CASE HandlerReturns
  <2>1. /\ cpu' \in Cpu /\ cpu'.at = cpu.under /\ cpu'.stack = cpu.stack
        /\ cpu.under \in {"code", "window"}
    BY <1>1, <1>7 DEF HandlerReturns, Cpu, Points
  <2> QED
    BY <1>1, <1>7, <2>1, SameThreadsInv
       DEF HandlerReturns, SigInv, MaskFollowsPoint, PreemptionIsPrepared,
           Running, InOwnCode, AtHome
<1> QED BY <1>2, <1>3, <1>4, <1>5, <1>6, <1>7

\* The jump: where the context of the thread about to run leads.
LEMMA JumpSteps ==
  ASSUME SigInv, do_jump
  PROVE  SigInv'
<1> DEFINE r  == running_thread_id
           to == context[running_thread_id]
<1>1. /\ Running /\ cpu.at = "window"
      /\ UNCHANGED <<vars, context, quantum, timer, pending>>
      /\ blocked' = to.blocked
      /\ \/ cpu' = [at |-> to.at, stack |-> to.stack, under |-> to.under]
         \/ cpu' = [cpu EXCEPT !.at = "undefined"]
  BY DEF do_jump
<1>2. r \in ActiveIds /\ to \in Context /\ Waits(to, r)
  BY <1>1, ThreadFacts DEF SigInv, SignalsTypeOK, ContextsWait, Running
<1>3. cpu \in Cpu /\ pending \in BOOLEAN
  BY DEF SigInv, SignalsTypeOK
<1>4. CASE cpu' = [cpu EXCEPT !.at = "undefined"]
  <2>1. cpu' \in Cpu /\ cpu'.at = "undefined"
    BY <1>3, <1>4 DEF Cpu, Points
  <2>2. MaskFollowsPoint' /\ PreemptionIsPrepared'
    BY <2>1 DEF MaskFollowsPoint, PreemptionIsPrepared, Running
  <2> QED
    BY <1>1, <1>2, <2>1, <2>2, SameThreadsInv
       DEF SigInv, SignalsTypeOK, Context
<1>5. CASE cpu' = [at |-> to.at, stack |-> to.stack, under |-> to.under]
  <2>1. /\ cpu' \in Cpu
        /\ cpu'.at \in {"code", "leave", "handler"}
        /\ cpu'.at = to.at /\ cpu'.stack = to.stack /\ cpu'.under = to.under
    BY <1>2, <1>5 DEF Context, Cpu, Points, Waits
  <2>2. blocked' \in BOOLEAN /\ (blocked' <=> cpu'.at \in {"leave", "handler"})
    BY <1>1, <1>2, <2>1 DEF Waits, Context
  <2>3. InOwnCode' => cpu'.stack = r /\ ~ Strays(to, r)
    BY <1>2, <2>1 DEF InOwnCode, Waits, Strays
  <2>4. MaskFollowsPoint'
    BY <2>1, <2>2 DEF MaskFollowsPoint
  <2>5. PreemptionIsPrepared'
    BY <1>1, <2>1 DEF SigInv, PreemptionIsPrepared, Running
  <2> QED
    BY <1>1, <2>1, <2>2, <2>3, <2>4, <2>5, SameThreadsInv
       DEF SigInv, SignalsTypeOK
<1> QED BY <1>1, <1>4, <1>5

\* In a call the caller is at home, with the signal blocked, and the context of
\* everybody else is ready.
LEMMA CallFacts ==
  ASSUME SigInv, InCall
  PROVE  /\ process = "running" /\ Running /\ blocked /\ IInv
         /\ cpu.stack = running_thread_id
         /\ ~ Strays(context[running_thread_id], running_thread_id)
         /\ running_thread_id \in ActiveIds
         /\ running_thread_id \in Stacks
         /\ context \in [ActiveIds -> Context]
         /\ cpu \in Cpu
         /\ \A t \in ActiveIds \ {running_thread_id} : Waits(context[t], t)
BY ThreadFacts
   DEF InCall, Running, SigInv, SignalsTypeOK, MaskFollowsPoint, AtHome,
       InOwnCode, ContextsWait, Stacks

LEMMA CallStaysInv ==
  ASSUME SigInv, CallStays
  PROVE  SigInv'
<1> DEFINE r == running_thread_id
<1>1. /\ InCall
      /\ cpu' = [cpu EXCEPT !.at = "leave"]
      /\ ContextsAfter(context)
      /\ UNCHANGED <<quantum, timer, pending, blocked>>
      /\ \/ uthread_spawn
         \/ \E tid \in ActiveIds :
              TerminateOther(tid) \/ BlockOther(tid) \/ uthread_resume(tid)
  BY DEF CallStays
<1>2. /\ process = "running" /\ Running /\ blocked /\ IInv
      /\ cpu.stack = r /\ ~ Strays(context[r], r)
      /\ r \in ActiveIds
      /\ context \in [ActiveIds -> Context]
      /\ cpu \in Cpu
      /\ \A t \in ActiveIds \ {r} : Waits(context[t], t)
  BY <1>1, CallFacts
<1>3. /\ IInv'
      /\ process' = "running"
      /\ running_thread_id' = r
  BY <1>1, <1>2, CallerStays
<1>4. ActiveIds' \subseteq Nat /\ r \in ActiveIds'
  BY <1>3, ThreadFactsNext
<1>5. /\ context' \in [ActiveIds' -> Context]
      /\ \A t \in ActiveIds' \ {r} : Waits(context'[t], t)
      /\ ~ Strays(context'[r], r)
  BY <1>1, <1>2, <1>4, ContextsMove
<1>6. cpu' \in Cpu /\ cpu'.at = "leave" /\ cpu'.stack = r
  BY <1>1, <1>2 DEF Cpu, Points
<1>7. SignalsTypeOK'
  BY <1>1, <1>5, <1>6 DEF SigInv, SignalsTypeOK
<1>8. MaskFollowsPoint' /\ PreemptionIsPrepared'
  BY <1>1, <1>2, <1>6 DEF SigInv, MaskFollowsPoint, PreemptionIsPrepared
<1>9. AtHome'
  BY <1>3, <1>5, <1>6 DEF AtHome
<1>10. ContextsWait'
  BY <1>3, <1>5, <1>6 DEF ContextsWait
<1> QED BY <1>3, <1>7, <1>8, <1>9, <1>10 DEF SigInv

LEMMA CallSwitchesInv ==
  ASSUME SigInv, CallSwitches
  PROVE  SigInv'
<1> DEFINE r     == running_thread_id
           saved == Saving("leave", "code")
<1>1. /\ InCall
      /\ Dispatched(saved)
      /\ \/ \E tid \in ActiveIds : BlockSelf(tid)
         \/ \E num_quantums \in SleepArguments : uthread_sleep(num_quantums)
  BY DEF CallSwitches
<1>2. /\ process = "running" /\ Running /\ blocked /\ IInv
      /\ cpu.stack = r /\ r \in ActiveIds /\ r \in Stacks
      /\ context \in [ActiveIds -> Context]
      /\ \A t \in ActiveIds \ {r} : Waits(context[t], t)
  BY <1>1, CallFacts
<1>3. IInv' /\ ActiveIds' = ActiveIds
  BY <1>1, <1>2, CallerSwitches
<1>4. /\ saved = [context EXCEPT ![r] = save_env("leave", "code")]
      /\ save_env("leave", "code") \in Context
      /\ Waits(save_env("leave", "code"), r)
  BY <1>2 DEF Saving, save_env, Context, Waits, SigInv, SignalsTypeOK
<1> HIDE DEF saved
<1>5. saved \in [ActiveIds -> Context] /\ \A t \in ActiveIds : Waits(saved[t], t)
  BY <1>2, <1>4
<1> QED BY <1>1, <1>2, <1>3, <1>5, DispatchedInv

LEMMA CallTerminatesSelfInv ==
  ASSUME SigInv, CallTerminatesSelf
  PROVE  SigInv'
<1>1. InCall /\ Dispatched(context)
  BY DEF CallTerminatesSelf
<1>2. PICK tid \in ActiveIds : TerminateSelf(tid)
  BY DEF CallTerminatesSelf
<1>3. /\ process = "running" /\ Running /\ blocked /\ IInv
      /\ cpu.stack = running_thread_id /\ running_thread_id \in Stacks
      /\ context \in [ActiveIds -> Context]
      /\ \A t \in ActiveIds \ {running_thread_id} : Waits(context[t], t)
  BY <1>1, CallFacts
<1>4. /\ IInv'
      /\ ActiveIds' \subseteq ActiveIds
      /\ process' = "running" => ActiveIds' = ActiveIds \ {running_thread_id}
  BY <1>2, <1>3, CallerTerminates
<1> QED BY <1>1, <1>3, <1>4, DispatchedInv

LEMMA CallExitsInv ==
  ASSUME SigInv, CallExits
  PROVE  SigInv'
<1>1. /\ InCall
      /\ TerminateMain \/ SpawnOutOfMemory
      /\ cpu' = [cpu EXCEPT !.stack = StackAfter(@)]
      /\ ContextsAfter(context)
      /\ UNCHANGED <<quantum, timer, pending, blocked>>
  BY DEF CallExits
<1>2. IInv /\ cpu \in Cpu /\ context \in [ActiveIds -> Context]
  BY <1>1, CallFacts
<1>3. IInv' /\ process' # "running" /\ ActiveIds' = {}
  BY <1>1, <1>2, CallerExits
<1>4. context' \in [ActiveIds' -> Context]
  BY <1>1, <1>2, <1>3, ContextsMove
<1>5. cpu' \in Cpu
  BY <1>1, <1>2, StackMoves DEF Cpu
<1>6. SignalsTypeOK'
  BY <1>1, <1>4, <1>5 DEF SigInv, SignalsTypeOK
<1> QED BY <1>3, <1>6, StopsInv

\* The handler, which may cut into program code or into the window.
LEMMA HandlerInv ==
  ASSUME SigInv, static_external_time_handler
  PROVE  SigInv'
<1> DEFINE r     == running_thread_id
           place == [at |-> "handler", stack |-> cpu.stack, under |-> cpu.at,
                     blocked |-> TRUE]
<1>1. /\ Running /\ pending /\ ~ blocked
      /\ internal_time_handler
      /\ cpu' = [at |-> "armed", stack |-> cpu.stack, under |-> "code"]
      /\ timer' = IF quantum = "positive" THEN "armed" ELSE "off"
      /\ context' = [context EXCEPT ![r] = place]
      /\ pending' = FALSE /\ blocked' = TRUE /\ quantum' = quantum
  BY DEF static_external_time_handler, Deliverable, init_timer_for_a_quantom
<1>2. /\ process = "running" /\ IInv
      /\ cpu \in Cpu /\ cpu.at \in {"code", "window"}
      /\ context \in [ActiveIds -> Context]
      /\ quantum = "positive"
  BY <1>1
     DEF Running, SigInv, SignalsTypeOK, MaskFollowsPoint, PreemptionIsPrepared,
         Cpu, Points
<1>3. r \in ActiveIds
  BY <1>2, ThreadFacts
<1>4. IInv' /\ ActiveIds' = ActiveIds
  BY <1>1, <1>2, CallerSwitches
<1>5. place \in Context /\ Waits(place, r)
  BY <1>1, <1>2 DEF Context, Cpu, Waits, SigInv, AtHome, InOwnCode
<1>6. \A t \in ActiveIds \ {r} : Waits(context[t], t)
  BY <1>1 DEF SigInv, ContextsWait
<1> HIDE DEF place
<1>7. /\ context' \in [ActiveIds' -> Context]
      /\ \A t \in ActiveIds' : Waits(context'[t], t)
  BY <1>1, <1>2, <1>4, <1>5, <1>6
<1>8. cpu' \in Cpu /\ cpu'.at = "armed"
  BY <1>1, <1>2 DEF Cpu, Points
<1>9. SignalsTypeOK'
  BY <1>1, <1>2, <1>7, <1>8 DEF SignalsTypeOK
<1>10. MaskFollowsPoint' /\ PreemptionIsPrepared'
  BY <1>1, <1>2, <1>8 DEF MaskFollowsPoint, PreemptionIsPrepared
<1>11. AtHome'
  BY <1>8 DEF AtHome, InOwnCode
<1>12. ContextsWait'
  BY <1>7 DEF ContextsWait
<1> QED BY <1>4, <1>9, <1>10, <1>11, <1>12 DEF SigInv

\* Every step of Signals keeps the invariant.
LEMMA SigInvNext == SigInv /\ [SignalsNext]_allVars => SigInv'
<1> SUFFICES ASSUME SigInv, [SignalsNext]_allVars PROVE SigInv'
  OBVIOUS
<1>1. CASE UNCHANGED allVars
  <2>1. UNCHANGED <<vars, context>>
    BY <1>1 DEF allVars, signalVars
  <2>2. /\ IInv' /\ ActiveIds' = ActiveIds /\ process' = process
        /\ running_thread_id' = running_thread_id /\ context' = context
        /\ context' \in [ActiveIds' -> Context]
    BY <2>1, SameThreads
  <2>3. UNCHANGED <<quantum, timer, pending, blocked, cpu>>
    BY <1>1 DEF allVars, signalVars
  <2> QED
    BY <2>2, <2>3
       DEF SigInv, SignalsTypeOK, MaskFollowsPoint, PreemptionIsPrepared, AtHome,
           ContextsWait, Running, InOwnCode
<1> QED
  BY <1>1, QuietSteps, JumpSteps, CallStaysInv, CallSwitchesInv,
     CallTerminatesSelfInv, CallExitsInv, HandlerInv
     DEF SignalsNext, Continues, Stopped

LEMMA SigInvariance == SignalsSpec => []SigInv
BY SignalsInitInv, SigInvNext, PTL DEF SignalsSpec

-----------------------------------------------------------------------------
(***************************************************************************)
(* The theorems.                                                           *)
(***************************************************************************)

\* Signals implements Scheduler: cutting the calls at their mask operations and
\* letting the timer expire anywhere adds no new order of scheduling steps.
THEOREM SignalsImplementScheduler == SignalsSpec => Spec
<1>1. SignalsInit => Init
  BY DEF SignalsInit
<1>2. [SignalsNext]_allVars => [Next]_vars
  <2> SUFFICES ASSUME [SignalsNext]_allVars, vars' # vars PROVE Next
    OBVIOUS
  <2>1. CASE CallStays \/ CallSwitches \/ CallTerminatesSelf \/ CallExits
    BY <2>1 DEF CallStays, CallSwitches, CallTerminatesSelf, CallExits, Next
  <2>2. CASE static_external_time_handler
    BY <2>2 DEF static_external_time_handler, Next
  <2> QED
    BY <2>1, <2>2
       DEF SignalsNext, Continues, CallEnters, TimerExpires, Stopped, allVars,
           uthread_init, BuiltWithoutQuantum, ReadsOrFails, CallLeaves,
           UnblockBeforeJump, do_jump, HandlerReturns
<1> QED BY <1>1, <1>2, PTL DEF SignalsSpec, Spec

\* Types; in particular the main thread's empty context is never jumped to.
THEOREM SignalsTypeCorrect == SignalsSpec => []SignalsTypeOK
BY SigInvariance, PTL DEF SigInv

\* Wherever the CPU is, the signal is blocked exactly if the code there counts
\* on it, whichever way it got there.
THEOREM MaskIsRight == SignalsSpec => []MaskFollowsPoint
BY SigInvariance, PTL DEF SigInv

\* Program code and library calls run on the stack of the RUNNING thread.
THEOREM CallerIsAtHome == SignalsSpec => []CallerIsRunning
<1>1. SigInv => CallerIsRunning
  BY DEF SigInv, AtHome, InOwnCode, CallerIsRunning
<1> QED BY <1>1, SigInvariance, PTL

\* Contexts go astray in the window before do_jump and nowhere else.
THEOREM OnlyTheWindowStrays == SignalsSpec => []StrayOnlyThroughWindow
<1>1. SigInv => StrayOnlyThroughWindow
  BY DEF SigInv, ContextsWait, Waits, StrayOnlyThroughWindow, LeadsBack
<1> QED BY <1>1, SigInvariance, PTL

\* While the process runs, an expiry is to come or pending exactly if
\* uthread_init built the scheduler.
THEOREM TimerIsPrepared == SignalsSpec => []PreemptionIsPrepared
BY SigInvariance, PTL DEF SigInv

\* A thread whose context went astray never comes back to its own code.
THEOREM LostForGood == SignalsSpec => LostThreadsStayLost
<1>1. SigInv /\ [SignalsNext]_allVars =>
        \A t \in ActiveIds \cap ActiveIds' : Strays(context[t], t) => Strays(context'[t], t)
  <2> SUFFICES ASSUME SigInv, [SignalsNext]_allVars, context' # context,
                      NEW t \in ActiveIds \cap ActiveIds', Strays(context[t], t)
               PROVE  Strays(context'[t], t)
    OBVIOUS
  <2>1. SigInv' /\ context \in [ActiveIds -> Context]
    BY SigInvNext DEF SigInv, SignalsTypeOK
  <2>2. ActiveIds' \subseteq Nat
    BY <2>1, ThreadFactsNext DEF SigInv
  <2>3. CASE CallStays \/ CallTerminatesSelf \/ CallExits
    <3>1. ContextsAfter(context)
      BY <2>3 DEF CallStays, CallTerminatesSelf, CallExits, Dispatched
    <3> QED BY <2>1, <2>2, <3>1, ContextsMove
  <2>4. CASE CallSwitches
    <3> DEFINE saved == Saving("leave", "code")
    <3>1. InCall /\ ContextsAfter(saved)
      BY <2>4 DEF CallSwitches, Dispatched
    <3>2. /\ blocked /\ cpu.stack = running_thread_id
          /\ running_thread_id \in Stacks
          /\ ~ Strays(context[running_thread_id], running_thread_id)
      BY <3>1, CallFacts
    <3>3. saved \in [ActiveIds -> Context]
      BY <2>1, <3>2 DEF Saving, save_env, Context
    <3>4. t # running_thread_id /\ saved[t] = context[t]
      BY <2>1, <3>2 DEF Saving
    <3> HIDE DEF saved
    <3> QED BY <2>2, <3>1, <3>3, <3>4, ContextsMove
  <2>5. CASE static_external_time_handler
    <3>1. /\ Running /\ ~ blocked
          /\ context' = [context EXCEPT ![running_thread_id] =
                           [at |-> "handler", stack |-> cpu.stack,
                            under |-> cpu.at, blocked |-> TRUE]]
      BY <2>5 DEF static_external_time_handler, Deliverable
    <3>2. cpu.at = "code" => ~ Strays(context[running_thread_id], running_thread_id)
      BY <3>1 DEF SigInv, AtHome, InOwnCode
    <3>3. cpu.at \in {"code", "window"}
      BY <3>1 DEF SigInv, MaskFollowsPoint, SignalsTypeOK, Running, Cpu, Points
    <3> QED BY <2>1, <3>1, <3>2, <3>3 DEF Strays
  <2> QED
    BY <2>3, <2>4, <2>5
       DEF SignalsNext, Continues, CallEnters, TimerExpires, Stopped, allVars,
           signalVars, uthread_init, BuiltWithoutQuantum, ReadsOrFails, CallLeaves,
           UnblockBeforeJump, do_jump, HandlerReturns
<1>2. SigInv /\ [SignalsNext]_allVars =>
        [\A t \in ActiveIds \cap ActiveIds' : Lost(t) => Lost(t)']_allVars
  BY <1>1, LostStrays, LostStraysNext
<1> QED BY <1>2, SigInvariance, PTL DEF SignalsSpec, LostThreadsStayLost

-----------------------------------------------------------------------------
(***************************************************************************)
(* The processes in which no handler is called in the window.              *)
(***************************************************************************)

\* Every step but the handler's in the window.
UndisturbedNext == SignalsNext /\ ~ HandlerInWindow

\* No context went astray, and no handler has the window to return to.
Straight ==
  process = "running" =>
    /\ cpu.at # "undefined"
    /\ cpu.at = "handler" => cpu.under = "code"
    /\ \A t \in ActiveIds : ~ Strays(context[t], t)

\* Who waits to be jumped to and did not go astray comes back to its own code.
LEMMA StraightWaits ==
  ASSUME NEW c, NEW t, Waits(c, t), ~ Strays(c, t)
  PROVE  c.stack = t /\ c.under = "code"
BY DEF Waits, Strays

\* A step that touches no context keeps everybody straight if it ends neither
\* in the handler nor in an undefined jump.
LEMMA SameContextsStraight ==
  ASSUME SigInv, Straight, UNCHANGED <<vars, context>>,
         process = "running" =>
           /\ cpu'.at # "undefined"
           /\ cpu'.at = "handler" => cpu'.under = "code"
  PROVE  Straight'
<1>1. /\ ActiveIds' = ActiveIds /\ process' = process /\ context' = context
  BY SameThreads
<1> QED BY <1>1 DEF Straight

\* A step after which the contexts are those saved before it.
LEMMA MovedContextsStraight ==
  ASSUME IInv', NEW saved \in [ActiveIds -> Context], ContextsAfter(saved),
         \A t \in ActiveIds' \cap ActiveIds : ~ Strays(saved[t], t),
         process' = "running" => cpu'.at \in {"leave", "armed"}
  PROVE  Straight'
<1>1. ActiveIds' \subseteq Nat
  BY ThreadFactsNext
<1>2. /\ \A t \in ActiveIds' \ ActiveIds : ~ Strays(context'[t], t)
      /\ \A t \in ActiveIds' \cap ActiveIds :
           Strays(saved[t], t) <=> Strays(context'[t], t)
  BY <1>1, ContextsMove
<1>3. \A t \in ActiveIds' : ~ Strays(context'[t], t)
  BY <1>2
<1> QED BY <1>3 DEF Straight

LEMMA StraightStep ==
  ASSUME SigInv, SigInv', Straight, [UndisturbedNext]_allVars
  PROVE  Straight'
<1> DEFINE r == running_thread_id
<1>1. cpu \in Cpu /\ context \in [ActiveIds -> Context] /\ IInv'
  BY DEF SigInv, SignalsTypeOK
<1>2. CASE UNCHANGED allVars \/ Stopped \/ TimerExpires
  <2>1. UNCHANGED <<vars, context, cpu>>
    BY <1>2 DEF allVars, signalVars, Stopped, TimerExpires
  <2> QED BY <2>1, SameContextsStraight DEF Straight
<1>3. CASE CallEnters \/ uthread_init \/ BuiltWithoutQuantum \/ ReadsOrFails
             \/ CallLeaves \/ UnblockBeforeJump
  <2>1. /\ UNCHANGED <<vars, context>>
        /\ cpu'.at \in {"call", "leave", "code", "window"}
    BY <1>1, <1>3 DEF CallEnters, uthread_init, BuiltWithoutQuantum, getInstance,
                      InCall, ReadsOrFails, CallLeaves, UnblockBeforeJump, Cpu
  <2> QED BY <2>1, SameContextsStraight
<1>4. CASE HandlerReturns
  <2>1. /\ UNCHANGED <<vars, context>>
        /\ process = "running" /\ cpu.at = "handler" /\ cpu'.at = cpu.under
    BY <1>4 DEF HandlerReturns, Running
  <2>2. cpu.under = "code"
    BY <2>1 DEF Straight
  <2> QED BY <2>1, <2>2, SameContextsStraight
<1>5. CASE do_jump
  <2> DEFINE to == context[r]
  <2>1. /\ UNCHANGED <<vars, context>> /\ Running /\ cpu.at = "window"
        /\ \/ cpu' = [at |-> to.at, stack |-> to.stack, under |-> to.under]
           \/ ~ LeadsBack(r)
    BY <1>5 DEF do_jump
  <2>2. r \in ActiveIds /\ Waits(to, r) /\ to \in Context
    BY <1>1, <2>1, ThreadFacts DEF SigInv, ContextsWait, Running
  <2>3. ~ Strays(to, r)
    BY <2>1, <2>2 DEF Straight, Running
  <2>4. to.stack = r /\ to.under = "code"
    BY <2>2, <2>3, StraightWaits
  <2>5. cpu' = [at |-> to.at, stack |-> to.stack, under |-> to.under]
    BY <2>1, <2>4 DEF LeadsBack
  <2>6. cpu'.at # "undefined" /\ cpu'.under = "code"
    BY <2>2, <2>4, <2>5 DEF Context
  <2> QED BY <2>1, <2>6, SameContextsStraight
<1>6. CASE CallStays \/ CallTerminatesSelf \/ CallExits
  <2>1. /\ InCall /\ ContextsAfter(context)
        /\ process' = "running" => cpu'.at \in {"leave", "armed"}
    <3>1. CASE CallStays
      BY <1>1, <3>1 DEF CallStays, Cpu
    <3>2. CASE CallTerminatesSelf
      BY <3>2 DEF CallTerminatesSelf, Dispatched
    <3>3. CASE CallExits
      <4>1. InCall /\ ContextsAfter(context) /\ (TerminateMain \/ SpawnOutOfMemory)
        BY <3>3 DEF CallExits
      <4>2. process' # "running"
        BY <4>1, CallFacts, CallerExits
      <4> QED BY <4>1, <4>2
    <3> QED BY <1>6, <3>1, <3>2, <3>3
  <2>2. \A t \in ActiveIds' \cap ActiveIds : ~ Strays(context[t], t)
    BY <2>1, CallFacts DEF Straight
  <2> QED BY <1>1, <2>1, <2>2, MovedContextsStraight
<1>7. CASE CallSwitches
  <2> DEFINE saved == Saving("leave", "code")
  <2>1. InCall /\ ContextsAfter(saved) /\ cpu'.at = "armed"
    BY <1>7 DEF CallSwitches, Dispatched
  <2>2. process = "running" /\ blocked /\ cpu.stack = r /\ r \in Stacks
    BY <2>1, CallFacts
  <2>3. /\ save_env("leave", "code") \in Context
        /\ ~ Strays(save_env("leave", "code"), r)
    BY <2>2 DEF save_env, Context, Strays
  <2>4. saved = [context EXCEPT ![r] = save_env("leave", "code")]
    BY DEF Saving
  <2> HIDE DEF saved
  <2>5. /\ saved \in [ActiveIds -> Context]
        /\ \A t \in ActiveIds : ~ Strays(saved[t], t)
    BY <1>1, <2>2, <2>3, <2>4 DEF Straight
  <2> QED BY <1>1, <2>1, <2>5, MovedContextsStraight
<1>8. CASE static_external_time_handler
  <2> DEFINE place == [at |-> "handler", stack |-> cpu.stack, under |-> cpu.at,
                       blocked |-> TRUE]
  <2>1. /\ Running /\ ~ blocked /\ internal_time_handler
        /\ cpu'.at = "armed"
        /\ context' = [context EXCEPT ![r] = place]
    BY <1>8 DEF static_external_time_handler, Deliverable
  <2>2. cpu.at = "code"
    <3>1. cpu.at # "window"
      <4>1. pending /\ pending' = FALSE
        BY <1>8 DEF static_external_time_handler, Deliverable
      <4>2. UndisturbedNext
        BY <4>1 DEF allVars, signalVars
      <4> QED BY <1>8, <4>2 DEF UndisturbedNext, HandlerInWindow
    <3> QED BY <1>1, <2>1, <3>1
            DEF SigInv, MaskFollowsPoint, Running, Cpu, Points
  <2>3. cpu.stack = r
    BY <2>1, <2>2 DEF SigInv, AtHome, InOwnCode
  <2>4. ~ Strays(place, r)
    BY <2>2, <2>3 DEF Strays
  <2>5. ActiveIds' = ActiveIds /\ process = "running"
    BY <2>1, CallerSwitches DEF SigInv, Running
  <2> HIDE DEF place
  <2>6. \A t \in ActiveIds' : ~ Strays(context'[t], t)
    BY <1>1, <2>1, <2>4, <2>5 DEF Straight
  <2> QED BY <2>1, <2>6 DEF Straight
<1> QED
  BY <1>2, <1>3, <1>4, <1>5, <1>6, <1>7, <1>8
     DEF UndisturbedNext, SignalsNext, Continues

\* uthreads.h says that the main thread uses the regular stack and program
\* counter: so it does in every process in which no handler is called between
\* the unblocking (scheduler.cpp:120) and the jump (scheduler.cpp:121).
THEOREM MainComesBack ==
  SignalsSpec /\ [][~ HandlerInWindow]_allVars => []MainUsesRegularStack
<1>1. SignalsInit => Straight
  <2>1. ~ Strays(NoContext, MAIN_THREAD_ID)
    BY DEF NoContext, Strays
  <2> QED BY <2>1 DEF SignalsInit, Init, ActiveIds, Straight
<1>2. [SignalsNext]_allVars /\ [~ HandlerInWindow]_allVars => [UndisturbedNext]_allVars
  BY DEF UndisturbedNext
<1>3. SigInv /\ SigInv' /\ Straight /\ [UndisturbedNext]_allVars => Straight'
  BY StraightStep
<1>4. SigInv /\ Straight => MainUsesRegularStack
  <2> SUFFICES ASSUME SigInv, Straight, Running,
                      running_thread_id # MAIN_THREAD_ID
               PROVE  LeadsBack(MAIN_THREAD_ID)
    BY DEF MainUsesRegularStack
  <2>1. MAIN_THREAD_ID \in ActiveIds
    BY DEF SigInv, IInv, Consistent, MainIsSchedulable, Running
  <2>2. /\ Waits(context[MAIN_THREAD_ID], MAIN_THREAD_ID)
        /\ ~ Strays(context[MAIN_THREAD_ID], MAIN_THREAD_ID)
    BY <2>1 DEF SigInv, ContextsWait, Straight, Running
  <2> QED BY <2>2, StraightWaits DEF LeadsBack
<1> QED BY <1>1, <1>2, <1>3, <1>4, SigInvariance, PTL DEF SignalsSpec

=============================================================================
