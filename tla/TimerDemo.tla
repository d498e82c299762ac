------------------------------ MODULE TimerDemo ------------------------------
(***************************************************************************)
(* demos/demo_itimer.c: a loop that waits for a flag and the handler of a  *)
(* periodic timer that sets it, which may interrupt the loop anywhere.     *)
(*                                                                         *)
(* gotit is a plain int that a handler writes: C does not define what the  *)
(* loop reads then.  A compiler either reads it in every round or, as      *)
(* nothing in the loop changes it, only once.                              *)
(***************************************************************************)
EXTENDS Integers, FiniteSetsExt

CONSTANTS
  FirstExpiry,   \* it_value, in seconds of CPU time: 1
  Interval,      \* it_interval: 3
  MaxOwed        \* bound of the counter owed

ASSUME TimerDemoAssumption ==
  FirstExpiry \in Nat \ {0} /\ Interval \in Nat \ {0} /\ MaxOwed \in Nat \ {0}

VARIABLES
  hoisted,    \* the compiler reads gotit only once
  left,       \* seconds to the next expiry
  pending,    \* SIGVTALRM is pending
  handler,    \* "out", or before the next statement of timer_handler
  at,         \* "test", "report" or "clear" in the loop, or "spin"
  gotit,
  owed        \* expiries less reports, up to MaxOwed

demoVars == <<hoisted, left, pending, handler, at, gotit, owed>>

\* sigaction and setitimer have been called.
Init ==
  /\ hoisted \in BOOLEAN
  /\ left = FirstExpiry
  /\ pending = FALSE
  /\ handler = "out"
  /\ at = "test"
  /\ gotit = 0
  /\ owed = 0

\* The process is in its loop.  A pending signal is delivered before anything
\* else is executed.
InLoop == handler = "out" /\ ~ pending

\* A second of CPU time passes; the handler takes far less.
Tick ==
  /\ InLoop
  /\ left > 0
  /\ IF left > 1
       THEN left' = left - 1 /\ UNCHANGED <<pending, owed>>
       ELSE /\ left' = Interval
            /\ pending' = TRUE
            /\ owed' = Min({owed + 1, MaxOwed})
  /\ UNCHANGED <<hoisted, handler, at, gotit>>

Deliver ==
  /\ pending
  /\ pending' = FALSE
  /\ handler' = "set"
  /\ UNCHANGED <<hoisted, left, at, gotit, owed>>

timer_handler ==
  /\ handler # "out"
  /\ IF handler = "set" THEN gotit' = 1 /\ handler' = "print"
                        ELSE handler' = "out" /\ UNCHANGED gotit
  /\ UNCHANGED <<hoisted, left, pending, at, owed>>

Test_ClearsAlways ==    \* seeded bug: gotit = 0 outside the if
  /\ InLoop /\ at = "test"
  /\ at' = IF gotit = 1 THEN "report" ELSE "clear"
  /\ UNCHANGED <<hoisted, left, pending, handler, gotit, owed>>

Test ==
  /\ InLoop /\ at = "test"
  /\ at' = IF gotit = 1 THEN "report" ELSE IF hoisted THEN "spin" ELSE "test"
  /\ UNCHANGED <<hoisted, left, pending, handler, gotit, owed>>

Report ==
  /\ InLoop /\ at = "report"
  /\ at' = "clear"
  /\ owed' = owed - 1
  /\ UNCHANGED <<hoisted, left, pending, handler, gotit>>

Clear_Forgotten ==    \* seeded bug: the flag stays set
  /\ InLoop /\ at = "clear"
  /\ at' = "test"
  /\ UNCHANGED <<hoisted, left, pending, handler, gotit, owed>>

\* A compiler that does not read the flag again knows that it is 0 now.
Clear ==
  /\ InLoop /\ at = "clear"
  /\ gotit' = 0
  /\ at' = IF hoisted THEN "spin" ELSE "test"
  /\ UNCHANGED <<hoisted, left, pending, handler, owed>>

Spin == InLoop /\ at = "spin" /\ UNCHANGED demoVars

Loop == Test \/ Report \/ Clear \/ Spin

Next == Tick \/ Deliver \/ timer_handler \/ Loop

\* The process uses the CPU, so its time passes.  The seconds between two
\* expiries are spent in the loop, which therefore goes on although the handler
\* interrupts it again and again.
Spec ==
  /\ Init /\ [][Next]_demoVars
  /\ WF_demoVars(Tick)
  /\ WF_demoVars(Deliver \/ timer_handler)
  /\ SF_demoVars(Loop)

-----------------------------------------------------------------------------
\* "Got it!" is never printed twice for one expiry, wherever the handler cuts
\* into the loop and whatever the compiler does with the flag.
NeverReportedTwice == owed >= 0

\* If the flag is read in every round, an expiry is followed by a "Got it!",
\* though not always its own: one that sets the flag between the printf and
\* gotit = 0 is lost, and the next one, three seconds later, makes up for it.
ExpiryIsFollowedByReport == pending /\ ~ hoisted ~> at = "report"

=============================================================================
