----------------------------- MODULE MCJumpDemo -----------------------------
(* An instance of JumpDemo with words of four bits. *)
EXTENDS JumpDemo

BitsOf(n) == [b \in 0 .. WordSize - 1 |-> (n \div 2^b) % 2 = 1]

SomeAddresses ==
  [thread0 |-> BitsOf(3), thread1 |-> BitsOf(5), setup_thread |-> BitsOf(6),
   yield |-> BitsOf(9), stack0 |-> BitsOf(10), stack1 |-> BitsOf(12),
   main |-> BitsOf(15)]

=============================================================================
