----------------------------- MODULE MCIdentity -----------------------------
(* Instances of Identity for TLC. *)
EXTENDS Identity, TLC

Symmetry == Permutations(Requests)

MaxEvents == 6

(* Bound: any three of the four kinds of events happen as often as their    *)
(* own bounds allow, not all four of them in one behaviour.                 *)
FewEvents == edits + restarts + Len(links) + Len(sessions) <= MaxEvents
=============================================================================
