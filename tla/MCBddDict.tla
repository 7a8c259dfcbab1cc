----------------------------- MODULE MCBddDict -----------------------------
(* Instances of BddDict: owners are interchangeable.                       *)
EXTENDS BddDict, TLC

Symmetry == Permutations(Owner)
=============================================================================
