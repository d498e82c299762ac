--------------------------- MODULE SmallestFreeId ---------------------------
(***************************************************************************)
(* What thread ids promise to a program that uses the library: a new       *)
(* thread gets the smallest id that no living thread has, at most Limit    *)
(* threads are alive at once, and an id is free again as soon as its       *)
(* thread is terminated.  The heap of returned ids and the counter behind  *)
(* generate_thread_id are not visible here.                                *)
(***************************************************************************)
EXTENDS Naturals

CONSTANT Limit

VARIABLE used    \* ids of the living threads

Init == used = {0}

\* With Limit threads alive every id below Limit is used and none is handed
\* out.
Acquire(id) ==
  /\ id \notin used
  /\ \A smaller \in 0 .. id - 1 : smaller \in used
  /\ used' = used \cup {id}

\* The main thread keeps id 0 for as long as the process lives.
Release(id) ==
  /\ id \in used \ {0}
  /\ used' = used \ {id}

\* The process ends and takes all its threads along.
ReleaseAll == used' = {}

Next ==
  \/ 0 \in used /\ \E id \in 0 .. Limit - 1 : Acquire(id)
  \/ \E id \in used : Release(id)
  \/ ReleaseAll

Spec == Init /\ [][Next]_used

=============================================================================
