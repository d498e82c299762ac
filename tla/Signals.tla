------------------------------- MODULE Signals -------------------------------
(***************************************************************************)
(* The library at the level of signals and contexts: the SIGVTALRM mask    *)
(* that every function of uthreads.cpp closes and opens, the one-shot      *)
(* timer, the pending signal, and the contexts that save_env, setup_env    *)
(* and do_jump (thread.cpp) save and restore.                              *)
(*                                                                         *)
(* A call is cut at its mask operations.  What it does to the structures   *)
(* in between is the action of Scheduler of the same name, so every step   *)
(* here is a step of Scheduler or leaves its variables alone.              *)
(*                                                                         *)
(* The CPU is at one of these points:                                      *)
(*   "code"       in the code of the program                               *)
(*   "call"       in a library call, after its SIG_BLOCK                   *)
(*   "leave"      in a library call, before its last SIG_UNBLOCK           *)
(*   "armed"      in run_topmost_thread_in_ready_queue, timer set          *)
(*   "window"     there, after SIG_UNBLOCK and before do_jump              *)
(*   "handler"    in the handler, about to return to the point "under" it  *)
(*   "undefined"  after a jump through a stray context; the model stops    *)
(* and on the stack of one of the threads, or on one that was deleted.     *)
(***************************************************************************)
EXTENDS Scheduler

VARIABLES
  quantum,    \* _quantum_usecs: "none" before there is a Scheduler
  timer,      \* ITIMER_VIRTUAL: "armed" or "off"
  pending,    \* SIGVTALRM is pending
  blocked,    \* SIGVTALRM is in the process mask
  cpu,        \* where the CPU is: point, stack, and the point under a handler
  context     \* thread id -> _env

signalVars == <<quantum, timer, pending, blocked, cpu, context>>
allVars == <<vars, signalVars>>

Deleted == -1       \* the stack of a thread that was deleted
Stacks == Nat \cup {Deleted}

Points == {"code", "call", "leave", "armed", "window", "handler", "undefined"}

Cpu == [at : Points, stack : Stacks, under : {"code", "window"}]

\* A jump goes to the entry point, to the end of a call or into the handler.
\* The main thread is born without a context.
Context == [at : {"none", "code", "leave", "handler"}, stack : Stacks,
            under : {"code", "window"}, blocked : BOOLEAN]

NoContext == [at |-> "none", stack |-> MAIN_THREAD_ID, under |-> "code",
              blocked |-> FALSE]

\* seeded bug: no sigemptyset, a new thread starts with the mask of the spawn
setup_env_KeepsMask(tid) ==
  [at |-> "code", stack |-> tid, under |-> "code", blocked |-> blocked]

\* The entry point, on the thread's own stack, with an empty mask.
setup_env(tid) ==
  [at |-> "code", stack |-> tid, under |-> "code", blocked |-> FALSE]

\* What a jump finds: the caller of save_env goes on where it would return.
save_env(at, under) ==
  [at |-> at, stack |-> cpu.stack, under |-> under, blocked |-> blocked]

SignalsInit ==
  /\ Init
  /\ quantum = "none"
  /\ timer = "off"
  /\ pending = FALSE
  /\ blocked = FALSE
  /\ cpu = [at |-> "code", stack |-> MAIN_THREAD_ID, under |-> "code"]
  /\ context = [t \in {MAIN_THREAD_ID} |-> NoContext]

Running == process = "running" /\ cpu.at # "undefined"

-----------------------------------------------------------------------------
(***************************************************************************)
(* The kernel.                                                             *)
(***************************************************************************)
\* seeded bug: only the first quantum is timed, it_interval being 0
init_timer_for_a_quantom_Once(usecs) ==
  timer' = IF usecs = "positive" /\ quantum = "none" THEN "armed" ELSE timer

\* setitimer with an it_interval of 0; a quantum of 0 disarms the timer.
init_timer_for_a_quantom(usecs) ==
  timer' = IF usecs = "positive" THEN "armed" ELSE "off"

TimerExpires ==
  /\ Running
  /\ timer = "armed"
  /\ timer' = "off"
  /\ pending' = TRUE
  /\ UNCHANGED <<vars, quantum, blocked, cpu, context>>

\* The kernel delivers a pending signal before the process executes another
\* instruction with the mask open.
Deliverable == pending /\ ~ blocked

-----------------------------------------------------------------------------
(***************************************************************************)
(* Stacks are deleted with their threads, except the one of the process,   *)
(* on which the main thread runs.                                          *)
(***************************************************************************)
StackAfter(stack) ==
  IF stack \in (ActiveIds \ ActiveIds') \ {MAIN_THREAD_ID} THEN Deleted ELSE stack

\* The contexts after a step of the scheduler, given those just saved.
ContextsAfter(saved) ==
  context' = [t \in ActiveIds' |->
                IF t \in ActiveIds THEN [saved[t] EXCEPT !.stack = StackAfter(@)]
                                   ELSE setup_env(t)]

\* The running thread saved its context at the given point.
Saving(at, under) ==
  [context EXCEPT ![running_thread_id] = save_env(at, under)]

\* seeded bug: the mask is opened before the next thread's timer is set
Dispatched_Unblocked(saved) ==
  /\ cpu' = [at |-> "armed", stack |-> StackAfter(cpu.stack), under |-> "code"]
  /\ init_timer_for_a_quantom(quantum)
  /\ ContextsAfter(saved)
  /\ blocked' = FALSE
  /\ UNCHANGED <<quantum, pending>>

\* The end of run_topmost_thread_in_ready_queue up to line 119.  The queue is
\* never empty (MainIsSchedulable), so there is a thread to run.
Dispatched(saved) ==
  /\ cpu' = [at |-> "armed", stack |-> StackAfter(cpu.stack), under |-> "code"]
  /\ init_timer_for_a_quantom(quantum)
  /\ ContextsAfter(saved)
  /\ UNCHANGED <<quantum, pending, blocked>>

-----------------------------------------------------------------------------
(***************************************************************************)
(* The calls.                                                              *)
(***************************************************************************)
CallEnters_Unmasked ==    \* seeded bug: no SIG_BLOCK
  /\ Running
  /\ cpu.at = "code"
  /\ ~ Deliverable
  /\ cpu' = [cpu EXCEPT !.at = "call"]
  /\ UNCHANGED <<vars, quantum, timer, pending, blocked, context>>

\* change_blockage_status_sigvtalrm(SIG_BLOCK)
CallEnters ==
  /\ Running
  /\ cpu.at = "code"
  /\ ~ Deliverable
  /\ blocked' = TRUE
  /\ cpu' = [cpu EXCEPT !.at = "call"]
  /\ UNCHANGED <<vars, quantum, timer, pending, context>>

InCall == Running /\ cpu.at = "call"

\* The first getInstance builds the scheduler, with the quantum it is given.
getInstance(usecs) ==
  /\ InCall
  /\ quantum = "none"
  /\ quantum' = usecs
  /\ init_timer_for_a_quantom(usecs)

uthread_init ==
  /\ getInstance("positive")
  /\ cpu' = [cpu EXCEPT !.at = "leave"]
  /\ UNCHANGED <<vars, pending, blocked, context>>

\* Any other call that comes first: getInstance() has 0 as its default.
BuiltWithoutQuantum ==
  /\ getInstance("zero")
  /\ UNCHANGED <<vars, pending, blocked, cpu, context>>

\* A call that reports an error or reads a value, and another uthread_init,
\* which changes nothing.
ReadsOrFails ==
  /\ InCall
  /\ cpu' = [cpu EXCEPT !.at = "leave"]
  /\ UNCHANGED <<vars, quantum, timer, pending, blocked, context>>

\* A call after which its caller goes on.
CallStays ==
  /\ InCall
  /\ quantum # "none"
  /\ \/ uthread_spawn
     \/ \E tid \in ActiveIds :
          TerminateOther(tid) \/ BlockOther(tid) \/ uthread_resume(tid)
  /\ cpu' = [cpu EXCEPT !.at = "leave"]
  /\ ContextsAfter(context)
  /\ UNCHANGED <<quantum, timer, pending, blocked>>

\* A call that saves its caller's context and runs another thread.
CallSwitches ==
  /\ InCall
  /\ quantum # "none"
  /\ \/ \E tid \in ActiveIds : BlockSelf(tid)
     \/ \E num_quantums \in SleepArguments : uthread_sleep(num_quantums)
  /\ Dispatched(Saving("leave", "code"))

\* The caller deletes its control block, the stack it stands on included, and
\* goes on to run another thread.
CallTerminatesSelf ==
  /\ InCall
  /\ quantum # "none"
  /\ \E tid \in ActiveIds : TerminateSelf(tid)
  /\ Dispatched(context)

\* exit: the destructor deletes the stack in use unless it is the main one.
CallExits ==
  /\ InCall
  /\ quantum # "none"
  /\ TerminateMain \/ SpawnOutOfMemory
  /\ cpu' = [cpu EXCEPT !.stack = StackAfter(@)]
  /\ ContextsAfter(context)
  /\ UNCHANGED <<quantum, timer, pending, blocked>>

CallLeaves_StillBlocked ==    \* seeded bug: a return without SIG_UNBLOCK
  /\ Running
  /\ cpu.at = "leave"
  /\ cpu' = [cpu EXCEPT !.at = "code"]
  /\ UNCHANGED <<vars, quantum, timer, pending, blocked, context>>

\* change_blockage_status_sigvtalrm(SIG_UNBLOCK), and the return.
CallLeaves ==
  /\ Running
  /\ cpu.at = "leave"
  /\ blocked' = FALSE
  /\ cpu' = [cpu EXCEPT !.at = "code"]
  /\ UNCHANGED <<vars, quantum, timer, pending, context>>

-----------------------------------------------------------------------------
(***************************************************************************)
(* The end of run_topmost_thread_in_ready_queue and the handler.           *)
(***************************************************************************)
UnblockBeforeJump_NoJump ==    \* seeded bug: do_jump is left out
  /\ Running
  /\ cpu.at = "armed"
  /\ blocked' = FALSE
  /\ cpu' = [cpu EXCEPT !.at = "leave"]
  /\ UNCHANGED <<vars, quantum, timer, pending, context>>

\* Line 120.
UnblockBeforeJump ==
  /\ Running
  /\ cpu.at = "armed"
  /\ blocked' = FALSE
  /\ cpu' = [cpu EXCEPT !.at = "window"]
  /\ UNCHANGED <<vars, quantum, timer, pending, context>>

\* A context that was saved by its thread in the thread's own code.
LeadsBack(t) == context[t].stack = t /\ context[t].under = "code"

\* Line 121.  The frames of any other context may have been overwritten since:
\* by the owner of the stack, by a new owner of its memory, or by the calls
\* made after the handler that saved it had returned.
do_jump ==
  /\ Running
  /\ cpu.at = "window"
  /\ ~ Deliverable
  /\ LET to == context[running_thread_id]
     IN  /\ blocked' = to.blocked
         /\ \/ cpu' = [at |-> to.at, stack |-> to.stack, under |-> to.under]
            \/ /\ ~ LeadsBack(running_thread_id)
               /\ cpu' = [cpu EXCEPT !.at = "undefined"]
  /\ UNCHANGED <<vars, quantum, timer, pending, context>>

static_external_time_handler_NotSaved ==    \* seeded bug: no save_env
  /\ Running
  /\ Deliverable
  /\ internal_time_handler
  /\ cpu' = [at |-> "armed", stack |-> cpu.stack, under |-> "code"]
  /\ init_timer_for_a_quantom(quantum)
  /\ pending' = FALSE
  /\ blocked' = TRUE
  /\ UNCHANGED <<quantum, context>>

\* The handler, entered with SIGVTALRM blocked by the kernel, saves the place
\* where it was called in the context of the thread that is RUNNING.
static_external_time_handler ==
  /\ Running
  /\ Deliverable
  /\ internal_time_handler
  /\ cpu' = [at |-> "armed", stack |-> cpu.stack, under |-> "code"]
  /\ init_timer_for_a_quantom(quantum)
  /\ context' = [context EXCEPT ![running_thread_id] =
                   [at |-> "handler", stack |-> cpu.stack, under |-> cpu.at,
                    blocked |-> TRUE]]
  /\ pending' = FALSE
  /\ blocked' = TRUE
  /\ UNCHANGED quantum

\* The kernel restores the mask of the point that was interrupted.
HandlerReturns ==
  /\ Running
  /\ cpu.at = "handler"
  /\ blocked' = FALSE
  /\ cpu' = [at |-> cpu.under, stack |-> cpu.stack, under |-> "code"]
  /\ UNCHANGED <<vars, quantum, timer, pending, context>>

Stopped == ~ Running /\ UNCHANGED allVars

-----------------------------------------------------------------------------
\* The steps that the process takes once it is scheduled, whatever its program.
Continues ==
  \/ uthread_init
  \/ BuiltWithoutQuantum
  \/ ReadsOrFails
  \/ CallStays
  \/ CallSwitches
  \/ CallTerminatesSelf
  \/ CallExits
  \/ CallLeaves
  \/ UnblockBeforeJump
  \/ do_jump
  \/ static_external_time_handler
  \/ HandlerReturns

SignalsNext == Continues \/ CallEnters \/ TimerExpires \/ Stopped

SignalsSpec == SignalsInit /\ [][SignalsNext]_allVars

\* A process that uses the CPU goes on, and its virtual time runs.
SignalsLiveSpec ==
  SignalsSpec /\ WF_allVars(Continues) /\ WF_allVars(TimerExpires)

\* What the thread that gives up the CPU is open to between lines 120 and 121.
HandlerInWindow == cpu.at = "window" /\ static_external_time_handler

-----------------------------------------------------------------------------
(***************************************************************************)
(* Properties.                                                             *)
(***************************************************************************)

\* Every variable keeps to its type; in particular no jump ever uses the
\* zeroed context the main thread is born with.
SignalsTypeOK ==
  /\ quantum \in {"none", "zero", "positive"}
  /\ timer \in {"off", "armed"}
  /\ pending \in BOOLEAN
  /\ blocked \in BOOLEAN
  /\ cpu \in Cpu
  /\ context \in [ActiveIds -> Context]

\* Whichever way a thread comes back to its own code - from a call, from the
\* handler, from a jump to its entry point - the signal is open there, and in
\* a call it is closed until the call leaves.
MaskFollowsPoint ==
  Running =>
    /\ cpu.at \in {"code", "window"} => ~ blocked
    /\ cpu.at \in {"call", "leave", "armed", "handler"} => blocked

\* Program code and library calls run on the stack of the thread that
\* _running_thread_id names, never on another's nor on a deleted one, wherever
\* signals arrived before.
CallerIsRunning ==
  Running /\ cpu.at \in {"code", "call", "leave"} => cpu.stack = running_thread_id

\* A thread that waits for the CPU has a context that leads back to its code
\* on its own stack, with one exception: the handler ran in the window between
\* SIG_UNBLOCK and do_jump of run_topmost_thread_in_ready_queue.
StrayOnlyThroughWindow ==
  Running =>
    \A t \in ActiveIds \ {running_thread_id} :
      /\ context[t].at # "none"
      /\ \/ LeadsBack(t)
         \/ context[t].at = "handler" /\ context[t].under = "window"

\* What that window costs: a thread whose context was saved there never comes
\* back to its own code, however often it gets the CPU.
Lost(t) == context[t].at = "handler" /\ ~ LeadsBack(t)
LostThreadsStayLost ==
  [][\A t \in ActiveIds \cap ActiveIds' : Lost(t) => Lost(t)']_allVars

\* The one-shot timer is set again in time: while the process runs an expiry is
\* always either to come or pending, exactly if uthread_init was the call that
\* built the scheduler.
PreemptionIsPrepared ==
  Running => (timer = "armed" \/ pending <=> quantum = "positive")

\* uthreads.h on the main thread: it uses the regular stack and program
\* counter, so what it left when it lost the CPU leads back there.
MainUsesRegularStack ==
  Running /\ running_thread_id # MAIN_THREAD_ID => LeadsBack(MAIN_THREAD_ID)

\* An expiry that came while the signal was blocked is not lost: every path
\* through a call, a switch or the handler opens the mask again.
SignalHandled == pending ~> ~ pending \/ ~ Running

\* A thread that never calls the library loses the CPU all the same, again and
\* again, once uthread_init has set the quantum.
Preemption ==
  [](quantum = "positive" => <>(cpu.at = "armed" \/ ~ Running))

\* t is back in its own code, or in a call it made that has done its work.
Back(t) ==
  running_thread_id = t /\ cpu.stack = t /\ cpu.at \in {"code", "leave"}

\* What it comes to for a thread: whoever waits for the CPU comes back to its
\* own code, on its own stack - not only in the books of the scheduler -
\* unless it is blocked or terminated meanwhile, the process ends, or the
\* handler overwrote its context in the window.
ReadyThreadsComeBack ==
  \A t \in PossibleIds :
    quantum = "positive" /\ t \in ToSet(ready_queue) ~>
      \/ ~ Running
      \/ t \notin ActiveIds
      \/ is_blocked(active_threads[t])
      \/ Lost(t)
      \/ Back(t)

=============================================================================
