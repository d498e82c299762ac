------------------------------ MODULE JumpDemo ------------------------------
(***************************************************************************)
(* demos/demo_jmp.c: two coroutines on two stacks that hand the CPU to one *)
(* another with sigsetjmp and siglongjmp.  The saved program counter and   *)
(* stack pointer are words translated with the C library's key.            *)
(***************************************************************************)
EXTENDS PointerGuard

CONSTANTS
  Address,      \* the words that stand for places in the code and for stacks
  MaxCount      \* the threads count up to this

Threads == {0, 1}

\* Where a sigsetjmp returns or a thread begins, and the three stacks.
Places == {"thread0", "thread1", "setup_thread", "yield"}
StackNames == {"stack0", "stack1", "main"}

ASSUME AddressesAreDistinct ==
  /\ Address \in [Places \cup StackNames -> Word]
  /\ \A p, q \in DOMAIN Address : Address[p] = Address[q] => p = q

ASSUME MaxCountIsNatural == MaxCount \in Nat

VARIABLES
  key,              \* the pointer guard of this process
  env,              \* thread id -> the words under JB_PC and JB_SP
  current_thread,
  i,                \* thread id -> the local variable of its function
  pc,               \* "main", a place just jumped to, "count", "turn" or "hello"
  sp                \* the stack in use

demoVars == <<key, env, current_thread, i, pc, sp>>

\* thread0 yields at every third number, thread1 at every fifth.
Period == [t \in Threads |-> IF t = 0 THEN 3 ELSE 5]
Entry == [t \in Threads |-> IF t = 0 THEN "thread0" ELSE "thread1"]
OwnStack == [t \in Threads |-> IF t = 0 THEN "stack0" ELSE "stack1"]

\* sigsetjmp, in the C library, saves the same two words.
Saved(place) == [pc |-> Mangled(Address[place], key),
                 sp |-> Mangled(Address[sp], key)]

setup_thread_KeepsPC(tid) ==    \* seeded bug: JB_PC is not replaced
  [Saved("setup_thread") EXCEPT
     !.sp = translate_address(Address[OwnStack[tid]], key)]

setup_thread_OneStack(tid) ==    \* seeded bug: both threads on stack0
  [Saved("setup_thread") EXCEPT
     !.sp = translate_address(Address["stack0"], key),
     !.pc = translate_address(Address[Entry[tid]], key)]

setup_thread(tid) ==
  [Saved("setup_thread") EXCEPT
     !.sp = translate_address(Address[OwnStack[tid]], key),
     !.pc = translate_address(Address[Entry[tid]], key)]

\* The one of the names that stands for the address.
Named(names, addr) ==
  IF \E n \in names : Address[n] = addr
    THEN CHOOSE n \in names : Address[n] = addr
    ELSE "nowhere"

\* siglongjmp loads the words of the new context and goes where they lead.
jump_to_thread(tid, envs) ==
  /\ env' = envs
  /\ current_thread' = tid
  /\ pc' = Named(Places, Demangled(envs[tid].pc, key))
  /\ sp' = Named(StackNames, Demangled(envs[tid].sp, key))

-----------------------------------------------------------------------------
Init ==
  /\ key \in Word
  /\ env = [t \in Threads |-> [pc |-> [b \in Bits |-> FALSE],
                               sp |-> [b \in Bits |-> FALSE]]]
  /\ current_thread = -1
  /\ i = [t \in Threads |-> 0]
  /\ pc = "main"
  /\ sp = "main"

main ==
  /\ pc = "main"
  /\ jump_to_thread(0, [t \in Threads |-> setup_thread(t)])
  /\ UNCHANGED <<key, i>>

\* int i = 0 at the head of a thread function.
Begins(t) ==
  /\ pc = Entry[t]
  /\ pc' = "count"
  /\ i' = [i EXCEPT ![t] = 0]
  /\ UNCHANGED <<key, env, current_thread, sp>>

\* The stack knows whose function runs on it.
Counts(t) ==
  /\ pc = "count" /\ sp = OwnStack[t]
  /\ i[t] < MaxCount
  /\ i' = [i EXCEPT ![t] = @ + 1]
  /\ pc' = IF i'[t] % Period[t] = 0 THEN "turn" ELSE "count"
  /\ UNCHANGED <<key, env, current_thread, sp>>

yield_Unsaved ==    \* seeded bug: sigsetjmp is left out
  /\ pc = "turn"
  /\ jump_to_thread(1 - current_thread, env)
  /\ UNCHANGED <<key, i>>

yield ==
  /\ pc = "turn"
  /\ jump_to_thread(1 - current_thread,
                    [env EXCEPT ![current_thread] = Saved("yield")])
  /\ UNCHANGED <<key, i>>

\* sigsetjmp returns for the second time, in yield or, were its program
\* counter not replaced, in setup_thread and so in main.
ReturnsAgain ==
  /\ pc \in {"yield", "setup_thread"}
  /\ pc' = IF pc = "yield" THEN "count" ELSE "hello"
  /\ UNCHANGED <<key, env, current_thread, i, sp>>

AllCounted ==
  /\ pc = "count"
  /\ i[current_thread] >= MaxCount
  /\ UNCHANGED demoVars

Next ==
  \/ main
  \/ \E t \in Threads : Begins(t) \/ Counts(t)
  \/ yield
  \/ ReturnsAgain
  \/ AllCounted

Spec == Init /\ [][Next]_demoVars

-----------------------------------------------------------------------------
\* Every variable keeps to its type; in particular every jump lands at a place
\* in the code and on a stack, whatever the key.
TypeOK ==
  /\ key \in Word
  /\ env \in [Threads -> [pc : Word, sp : Word]]
  /\ current_thread \in {-1} \cup Threads
  /\ i \in [Threads -> 0 .. MaxCount]
  /\ pc \in Places \cup {"main", "count", "turn", "hello"}
  /\ sp \in StackNames

\* Each coroutine runs on its own stack only, and current_thread names it.
EachOnItsStack == pc # "main" => sp = OwnStack[current_thread]

\* yield comes back where it left: neither thread starts over or skips a turn.
\* A thread that waits has stopped at the end of a turn, and thread 0 has had
\* as many turns as thread 1, or is one ahead.
TurnsAlternate ==
  LET turns(t) == i[t] \div Period[t]
      waiting  == 1 - current_thread
  IN  pc \in {"count", "turn"} =>
        /\ i[waiting] % Period[waiting] = 0
        /\ pc = "count" => turns(0) = turns(1) + current_thread

\* main is never come back to: the printf after its jump is dead code.
HelloIsNeverPrinted == pc # "hello"

=============================================================================
