------------------------------- MODULE MCDemo -------------------------------
(* Instances of DemoClient. *)
EXTENDS DemoClient

\* The one argument that main.cpp passes to uthread_sleep.
DemoSleeps == {1}

=============================================================================
