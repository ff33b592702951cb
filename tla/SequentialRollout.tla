------------------------- MODULE SequentialRollout -------------------------
(***************************************************************************)
(* What a platform-update rollout promises: the nodes of an ordered list   *)
(* are updated one at a time, the next one only after the previous one was *)
(* proven; the first node that fails, or a refused admission, stops the    *)
(* rollout for good; it succeeds when nothing is left to do.               *)
(***************************************************************************)
EXTENDS Naturals, Sequences

CONSTANTS Rollouts, Servers

VARIABLES
    order,    \* the planned nodes, in order
    todo,     \* planned nodes that have not been touched
    current,  \* the node being updated (at most one)
    proven,   \* nodes proven healthy
    verdict   \* "none" (not planned), "open", or how the rollout ended

vars == <<order, todo, current, proven, verdict>>

Init ==
    /\ order = [r \in Rollouts |-> <<>>]
    /\ todo = [r \in Rollouts |-> {}]
    /\ current = [r \in Rollouts |-> {}]
    /\ proven = [r \in Rollouts |-> {}]
    /\ verdict = [r \in Rollouts |-> "none"]

\* s comes before t in the plan.
Before(r, s, t) ==
    \E i, j \in DOMAIN order[r] : i < j /\ order[r][i] = s /\ order[r][j] = t

\* Some of the listed nodes may be left out when the plan is made.
Plan(r) ==
    /\ verdict[r] = "none"
    /\ verdict' = [verdict EXCEPT ![r] = "open"]
    /\ order'[r] \in Seq(Servers)
    /\ order' = [order EXCEPT ![r] = order'[r]]
    /\ todo'[r] \subseteq {order'[r][i] : i \in DOMAIN order'[r]}
    /\ todo' = [todo EXCEPT ![r] = todo'[r]]
    /\ UNCHANGED <<current, proven>>

Start(r, s) ==
    /\ verdict[r] = "open"
    /\ current[r] = {}
    /\ s \in todo[r]
    /\ \A t \in todo[r] : ~Before(r, t, s)
    /\ current' = [current EXCEPT ![r] = {s}]
    /\ todo' = [todo EXCEPT ![r] = @ \ {s}]
    /\ UNCHANGED <<order, proven, verdict>>

\* The proof of the last node ends the rollout in the same step.
Prove(r) ==
    /\ verdict[r] = "open"
    /\ current[r] # {}
    /\ proven' = [proven EXCEPT ![r] = @ \cup current[r]]
    /\ current' = [current EXCEPT ![r] = {}]
    /\ verdict' = [verdict EXCEPT ![r] = IF todo[r] = {} THEN "succeeded" ELSE @]
    /\ UNCHANGED <<order, todo>>

\* Nothing had to be done.
Complete(r) ==
    /\ verdict[r] = "open"
    /\ todo[r] = {} /\ current[r] = {}
    /\ verdict' = [verdict EXCEPT ![r] = "succeeded"]
    /\ UNCHANGED <<order, todo, current, proven>>

Stop(r) ==
    /\ verdict[r] = "open"
    /\ \E v \in {"failed", "outcome_unknown"} : verdict' = [verdict EXCEPT ![r] = v]
    /\ current' = [current EXCEPT ![r] = {}]
    /\ UNCHANGED <<order, todo, proven>>

Next ==
    \E r \in Rollouts :
        \/ Plan(r) \/ Prove(r) \/ Complete(r) \/ Stop(r)
        \/ \E s \in Servers : Start(r, s)

Spec == Init /\ [][Next]_vars
=============================================================================
