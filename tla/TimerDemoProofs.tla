--------------------------- MODULE TimerDemoProofs ---------------------------
(***************************************************************************)
(* Proof that demo_itimer.c reports no expiry twice, for every interval of *)
(* its timer and whatever the compiler makes of the flag.                  *)
(***************************************************************************)
EXTENDS TimerDemo, TLAPS

\* A report is on its way: the signal has still to be delivered, the handler
\* to set the flag, or the loop to act on the flag it has seen or will see.
\* The flag does not announce one between the printf and gotit = 0, when the
\* loop is about to clear it unseen.
ReportAhead ==
  \/ pending
  \/ handler = "set"
  \/ gotit = 1 /\ at = "test"
  \/ at = "report"

\* Whatever is on its way is owed.  Several expiries may be on their way with
\* one report between them.
ReportsAreOwed ==
  /\ owed \in Nat
  /\ ReportAhead => owed >= 1

LEMMA CountExpiry ==
  ASSUME NEW n \in Nat
  PROVE  Min({n + 1, MaxOwed}) \in Nat /\ Min({n + 1, MaxOwed}) >= 1
<1>1. MaxOwed \in Nat \ {0}
  BY TimerDemoAssumption
<1>2. Min({n + 1, MaxOwed}) \in {n + 1, MaxOwed}
  BY <1>1 DEF Min
<1> QED BY <1>1, <1>2

LEMMA ReportsStep ==
  ASSUME ReportsAreOwed, [Next]_demoVars
  PROVE  ReportsAreOwed'
<1> USE DEF ReportsAreOwed, ReportAhead
\* An expiry is counted before its signal can be delivered.
<1>1. CASE Tick
  <2>1. CASE left > 1
    BY <1>1, <2>1 DEF Tick
  <2>2. CASE ~ (left > 1)
    BY <1>1, <2>2, CountExpiry DEF Tick
  <2> QED BY <2>1, <2>2
<1>2. CASE Deliver
  BY <1>2 DEF Deliver
<1>3. CASE timer_handler
  BY <1>3 DEF timer_handler
\* The loop runs with no signal pending and outside of the handler, so that
\* after the printf nothing is on its way.
<1>4. CASE Report
  BY <1>4 DEF Report, InLoop
<1>5. CASE Test
  BY <1>5 DEF Test
<1>6. CASE Clear
  BY <1>6 DEF Clear
<1>7. CASE Spin \/ UNCHANGED demoVars
  BY <1>7 DEF Spin, demoVars
<1> QED BY <1>1, <1>2, <1>3, <1>4, <1>5, <1>6, <1>7 DEF Next, Loop

\* "Got it!" is printed at most once per expiry, wherever the handler cuts into
\* the loop and whether or not the compiled loop reads the flag again.
THEOREM ReportedOnce == Spec => []NeverReportedTwice
<1>1. Init => ReportsAreOwed
  BY DEF Init, ReportsAreOwed, ReportAhead
<1>2. ReportsAreOwed => NeverReportedTwice
  BY DEF ReportsAreOwed, NeverReportedTwice
<1> QED BY <1>1, <1>2, ReportsStep, PTL DEF Spec

=============================================================================
