-------------------------------- MODULE Ring --------------------------------
(***************************************************************************)
(* Arithmetic on the identifier ring of src/p2p/chord/ring.zig.            *)
(*                                                                         *)
(* Identifiers are 0 .. RingSize - 1 (2^160 in the program).  The shift    *)
(* amount of fingerStart is a u7 there: it is taken modulo ShiftRange,     *)
(* 128 in the program.                                                     *)
(***************************************************************************)
EXTENDS Integers

CONSTANTS RingSize, ShiftRange

ASSUME RingAssumption == RingSize \in Nat \ {0} /\ ShiftRange \in Nat \ {0}

NodeId == 0 .. RingSize - 1

\* b -% a: the subtraction wraps around.
distance(a, b) == IF a <= b THEN b - a ELSE b - a + RingSize

\* x \in (left, right], clockwise.  Equal ends denote one point, not the
\* full circle.
between(x, left, right) ==
  IF left = right THEN x = left
  ELSE IF left < right THEN left < x /\ x <= right
  ELSE left < x \/ x <= right

\* x \in [left, right), clockwise.
betweenLeftInclusive(x, left, right) ==
  IF left = right THEN x = left
  ELSE IF left < right THEN left <= x /\ x < right
  ELSE left <= x \/ x < right

\* id +% 2^shift, the shift truncated to seven bits.
fingerStart(id, index) == (id + 2 ^ (index % ShiftRange)) % RingSize
=============================================================================
