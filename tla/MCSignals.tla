------------------------------ MODULE MCSignals ------------------------------
(* Small instances of Signals. *)
EXTENDS Signals

\* One sleep that ends with the next quantum and one that lasts.
MCSleepArguments == {0, 1}

=============================================================================
