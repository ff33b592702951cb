----------------------------- MODULE MCRollout -----------------------------
(* Small instances of Rollout. *)
EXTENDS Rollout, TLC

CONSTANTS s1, s2

\* Both orders of two nodes.
TwoNodes == {<<s1, s2>>, <<s2, s1>>}
=============================================================================
