---------------------------- MODULE MCCowStorage ----------------------------
(* Small instances of CowStorage for TLC. *)
EXTENDS CowStorage, TLC

CONSTANTS c1, c2

MCSize == c1 :> 1 @@ c2 :> 2

Symmetry == Permutations(Handle) \cup Permutations(Snap) \cup Permutations(JobPath)
=============================================================================
