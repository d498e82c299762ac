----------------------------- MODULE MCContract -----------------------------
(* Small instances of UThreadsContract. *)
EXTENDS UThreadsContract

\* No sleep, short ones, and the longest one that fits the counters: with the
\* quantum of the call it ends after one whole period.
MCSleepArguments == {-2, 0, 1, 2, 3}

=============================================================================
