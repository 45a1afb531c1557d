------------------------------- MODULE MCDisk -------------------------------
(* Instances of DiskStorageManager for TLC. *)
EXTENDS DiskStorageManager, TLC

Symmetry == Permutations(Value)

(* Nothing is claimed of files torn by a cut flush: their states are       *)
(* reached and checked, not continued.                                     *)
NotTorn == sound

(* In the larger instance one of the two files has failed, not both. *)
OneFailure == ioBad => idxBad = "no"
=============================================================================
