---------------------------- MODULE MCTimerDemo -----------------------------
(* The timer of demo_itimer.c: the first expiry after 1 second, then one     *)
(* every 3 seconds.                                                          *)
EXTENDS TimerDemo

First == 1
Later == 3

=============================================================================
