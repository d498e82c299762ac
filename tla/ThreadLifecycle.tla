--------------------------- MODULE ThreadLifecycle ---------------------------
(***************************************************************************)
(* The life of threads as a program sees it: what may happen to a thread   *)
(* in each of its states, and how the CPU passes from one to the next.     *)
(* There are no queues and no counters.  A thread is SLEEPING or BLOCKED,  *)
(* never both.  Scheduler implements this specification.                   *)
(***************************************************************************)
EXTENDS Naturals

CONSTANT Limit      \* number of thread ids

VARIABLE life       \* thread id -> its state, or GONE

ThreadIds == 0 .. Limit - 1
MainThread == 0

LifecycleTypeOK ==
  life \in [ThreadIds -> {"GONE", "READY", "RUNNING", "BLOCKED", "SLEEPING"}]

In(state) == {t \in ThreadIds : life[t] = state}

Init == life = [t \in ThreadIds |-> IF t = MainThread THEN "RUNNING" ELSE "GONE"]

Becomes(t, state) == life' = [life EXCEPT ![t] = state]

Spawn == \E t \in In("GONE") : Becomes(t, "READY")

\* What the RUNNING thread may do to another one.
Block == \E t \in In("READY") \ {MainThread} : Becomes(t, "BLOCKED")
Resume == \E t \in In("BLOCKED") : Becomes(t, "READY")
Kill == \E t \in ThreadIds \ ({MainThread} \cup In("RUNNING")) : Becomes(t, "GONE")

\* The RUNNING thread r leaves the CPU: it waits for its turn, or it blocks,
\* sleeps or ends, which the main thread never does.  Some sleepers wake.  A
\* thread that was READY before runs; only if there is none, r does.
Switch ==
  \E r \in In("RUNNING") :
  \E leaves \in IF r = MainThread THEN {"READY"}
                                  ELSE {"READY", "BLOCKED", "SLEEPING", "GONE"} :
  \E woken \in SUBSET In("SLEEPING") :
  \E next \in IF In("READY") # {} THEN In("READY") ELSE In("RUNNING") :
    life' = [t \in ThreadIds |-> CASE t = next      -> "RUNNING"
                                   [] t = r /\ t # next -> leaves
                                   [] t \in woken   -> "READY"
                                   [] OTHER         -> life[t]]

\* The main thread ends, or any thread finds no memory: the process ends.
Exit == life' = [t \in ThreadIds |-> "GONE"]

Next ==
  /\ In("RUNNING") # {}
  /\ Spawn \/ Block \/ Resume \/ Kill \/ Switch \/ Exit

Spec == Init /\ [][Next]_life

=============================================================================
