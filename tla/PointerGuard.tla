---------------------------- MODULE PointerGuard ----------------------------
(***************************************************************************)
(* translate_address (utils.h, and again in demos/demo_jmp.c): the C       *)
(* library keeps the stack pointer and the program counter of a sigjmp_buf *)
(* xored with a secret key and rotated, and whoever writes them there by   *)
(* hand must do the same.                                                  *)
(*                                                                         *)
(* A word is a function from bit positions, 0 the lowest, to bits.         *)
(***************************************************************************)
EXTENDS Integers

CONSTANTS
  WordSize,     \* 64, or 32
  Rotation      \* 0x11 in 64 bits, 0x9 in 32 bits

ASSUME RotationIsProper == WordSize \in Nat \ {0} /\ Rotation \in 0 .. WordSize - 1

Bits == 0 .. WordSize - 1
Word == [Bits -> BOOLEAN]

\* The xor and rol instructions, and ror, which undoes rol.
xor(a, b) == [i \in Bits |-> a[i] # b[i]]
rol(a) ==
  [i \in Bits |-> a[IF i < Rotation THEN i + WordSize - Rotation ELSE i - Rotation]]
ror(a) ==
  [i \in Bits |-> a[IF i < WordSize - Rotation THEN i + Rotation
                                              ELSE i + Rotation - WordSize]]

translate_address_Swapped(addr, key) == xor(rol(addr), key)    \* seeded bug

translate_address(addr, key) == rol(xor(addr, key))

\* What the C library does: sigsetjmp to the words it saves, siglongjmp to
\* those it loads.
Mangled(addr, key) == rol(xor(addr, key))
Demangled(word, key) == xor(ror(word), key)

=============================================================================
