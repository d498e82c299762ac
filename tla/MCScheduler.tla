---------------------------- MODULE MCScheduler -----------------------------
(***************************************************************************)
(* Small instances of Scheduler.                                           *)
(***************************************************************************)
EXTENDS Scheduler

\* Every kind of argument except the one value the library asserts against.
MCSleepArguments == {-2, 0, 1, 2}

\* The whole range of int in miniature.
AnySleepArguments == {-2, -1, 0, 1}

=============================================================================
