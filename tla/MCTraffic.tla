----------------------------- MODULE MCTraffic -----------------------------
(* Instances of Traffic for TLC. *)
EXTENDS Traffic, TLC

CONSTANTS a1, a2

OneAccount  == {a1}
TwoAccounts == {a1, a2}
NoLimit     == {0}

Interchangeable == Permutations(Accounts)
=============================================================================
