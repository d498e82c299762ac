------------------------------- MODULE Thread -------------------------------
(***************************************************************************)
(* The class Thread (thread.h, thread.cpp): the control block of one       *)
(* user-level thread.  Its methods are written as operators from a control *)
(* block to a control block.  The saved context (_env) and the stack are   *)
(* not part of this module: they never influence a scheduling decision.    *)
(*                                                                         *)
(* The two int counters of the library, a thread's age and the number of   *)
(* quantums started so far, only ever grow by one and are never compared   *)
(* with anything, so they are kept as residues modulo CounterModulus, the  *)
(* 2^32 of a 32-bit int.                                                   *)
(***************************************************************************)
EXTENDS Integers

CONSTANT CounterModulus     \* number of values of an int

ASSUME CounterModulusIsPositive == CounterModulus \in Nat \ {0}

Counter == 0 .. CounterModulus - 1

\* ++ on one of the two counters.  C++ does not define it for the largest int;
\* the builds of the repository (g++ -g, a Debug build) compile it to the
\* machine's increment, which wraps.
Increment(c) == (c + 1) % CounterModulus

NOT_SLEEPING == -1

ThreadState ==
  {"RUNNING", "READY", "BLOCKED", "SLEEPING", "BLOCKED_AND_SLEEPING"}

\* quantoms_left is _quantoms_left_to_sleep, age is _running_quantoms_num.
Thread == [state : ThreadState, quantoms_left : Int, age : Counter]

\* The constructor: a thread is born READY and has not run yet.
NewThread == [state |-> "READY", quantoms_left |-> NOT_SLEEPING, age |-> 0]

-----------------------------------------------------------------------------
is_running(th)  == th.state = "RUNNING"
is_ready(th)    == th.state = "READY"
is_blocked(th)  == th.state \in {"BLOCKED", "BLOCKED_AND_SLEEPING"}
is_sleeping(th) == th.state \in {"SLEEPING", "BLOCKED_AND_SLEEPING"}

set_ready_Forgotten(th) == th    \* seeded bug

set_ready(th) == [th EXCEPT !.state = "READY"]

\* seeded bug: the quantum is not counted for the thread
set_running_Uncounted(th) == [th EXCEPT !.state = "RUNNING"]

set_running(th) == [th EXCEPT !.state = "RUNNING", !.age = Increment(@)]

\* seeded bug: the state of a thread that is awake is kept
set_block_OnlySleepers(th) ==
  [th EXCEPT !.state = IF @ = "SLEEPING" THEN "BLOCKED_AND_SLEEPING" ELSE @]

set_block(th) ==
  [th EXCEPT !.state =
     IF @ = "SLEEPING" THEN "BLOCKED_AND_SLEEPING" ELSE "BLOCKED"]

set_sleep(th, num_quantoms) ==
  [th EXCEPT !.state =
       IF @ = "BLOCKED" THEN "BLOCKED_AND_SLEEPING" ELSE "SLEEPING",
     !.quantoms_left = num_quantoms]

\* Resuming leaves the sleep running, waking up leaves the block in place.
unblock(th) ==
  IF is_blocked(th)
    THEN [th EXCEPT !.state = IF @ = "BLOCKED" THEN "READY" ELSE "SLEEPING"]
    ELSE th

wake_up(th) ==
  [th EXCEPT !.state = CASE @ = "SLEEPING" -> "READY"
                         [] @ = "BLOCKED_AND_SLEEPING" -> "BLOCKED"
                         [] OTHER -> @]

\* The assertion at the head of update_sleep_value.
MayUpdateSleepValue(th) == is_sleeping(th) /\ th.quantoms_left # NOT_SLEEPING

\* seeded bug: > for >=, the last quantum of a sleep is dropped
update_sleep_value_Early(th) ==
  IF th.quantoms_left > 1
    THEN [th EXCEPT !.quantoms_left = @ - 1]
    ELSE wake_up([th EXCEPT !.quantoms_left = NOT_SLEEPING])

\* seeded bug: the counter is never decremented
update_sleep_value_Stuck(th) ==
  IF th.quantoms_left >= 1 THEN th
    ELSE wake_up([th EXCEPT !.quantoms_left = NOT_SLEEPING])

update_sleep_value(th) ==
  IF th.quantoms_left >= 1
    THEN [th EXCEPT !.quantoms_left = @ - 1]
    ELSE wake_up([th EXCEPT !.quantoms_left = NOT_SLEEPING])

=============================================================================
