------------------------------ MODULE MCSorter ------------------------------
(* Instances of ExternalSorter for TLC. *)
EXTENDS ExternalSorter

Keys == {1, 2, 3}

(* Every input that fits in one buffer, by one more than one; and inputs   *)
(* of two merge passes: of keys in order, in the reverse order, mixed, and *)
(* all alike but for some.                                                 *)
Short == UNION {[1 .. n -> {1, 2}] : n \in 0 .. 5}
Long == {
  <<1, 1, 2, 2, 2, 2, 3, 3, 3>>,
  <<3, 3, 2, 2, 2, 2, 1, 1, 1>>,
  <<2, 3, 1, 3, 1, 2, 3, 1, 2>>,
  <<3, 1, 3, 1, 2, 2, 1, 3, 2>>,
  <<1, 2, 2, 3, 2, 2, 3, 1, 2>>}
SomeInputs == Short \cup Long
=============================================================================
