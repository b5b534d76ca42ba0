--------------------------- MODULE MCEpochReclaim ---------------------------
(***************************************************************************)
(* Instances of EpochReclaim: two registries with four boxes, and two     *)
(* participants, of which the first writes and reads.                      *)
(***************************************************************************)
EXTENDS EpochReclaim, TLC

CONSTANTS n1, n2, n3, n4

MCNodes == {n1, n2, n3, n4}

NodeSymmetry == Permutations(MCNodes)

=============================================================================
