-------------------------- MODULE MCManagerUpdate ---------------------------
(* Instances of ManagerUpdate for TLC. Discoveries are interchangeable.     *)
EXTENDS ManagerUpdate, TLC

CONSTANTS d1, d2, d3

Symmetry == Permutations(Discoveries)
=============================================================================
