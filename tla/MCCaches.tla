------------------------------ MODULE MCCaches ------------------------------
(* Instances of Caches: clients and data are alike.                        *)
EXTENDS Caches, TLC

MCDeltas == {-1, 0, 1}

Symmetry == Permutations(Client) \cup Permutations(Data)
=============================================================================
