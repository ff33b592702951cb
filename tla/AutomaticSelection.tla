------------------------- MODULE AutomaticSelection -------------------------
(***************************************************************************)
(* Automatic selection: the node groups, the candidates in them and the    *)
(* selection policy of an account, on top of the transfers it starts.      *)
(*                                                                         *)
(* A selection compares the members of the account's group by what their   *)
(* heartbeats say and either starts a staged transfer (of an account that  *)
(* is deployed) or moves the account at once.  A cooldown keeps an account *)
(* on a node that is still good.                                           *)
(*                                                                         *)
(* All of it happens in one transaction that locks the account; the read   *)
(* before it, and the checks of the transfer service that Transfer leaves  *)
(* out, can only refuse.  Accounts have no protocol preference (transfers  *)
(* exist for VLESS only) and the length of a cooldown does not change.     *)
(***************************************************************************)
EXTENDS Transfer

CONSTANTS
    Groups,             \* node groups
    NoGroup,
    Signals,            \* what heartbeats may say of a node: sets of signals
    Memberships,        \* what a member may be given: enabled, priority, weight
    IdOrder(_),         \* the order of the nodes' identifiers
    Score(_, _, _),     \* external: weightedRendezvousScore(account, node, weight)
    Scenarios           \* groups, policies and bounds a behaviour starts with

SelectionPolicy == [enabled : BOOLEAN, allowDegraded : BOOLEAN, last : {"none", "recent", "old"}]
NotMember == [enabled |-> FALSE]
Strategies == {"priority", "weighted"}

ASSUME SelectionAssumption ==
    /\ NoGroup \notin Groups
    /\ Memberships \subseteq [enabled : BOOLEAN, priority : Nat, weight : Nat]
    /\ \A n \in Nodes : IdOrder(n) \in Nat
    /\ \A n, m \in Nodes : IdOrder(n) = IdOrder(m) => n = m
    /\ \A a \in Accounts, n \in Nodes, m \in Memberships : Score(a, n, m.weight) \in Nat
    /\ \A s \in Scenarios :
          /\ s.group \in [Accounts -> Groups \cup {NoGroup}]
          /\ s.strategy \in [Groups -> Strategies \cup {"absent"}]
          /\ s.members \in [Groups -> [Nodes -> Memberships \cup {NotMember}]]
          /\ s.policy \in [Accounts -> SelectionPolicy]
          /\ \A kind \in {"groups", "policies", "signals", "selections"} : s.budget[kind] \in Nat

VARIABLES
    group,      \* vpn_account_node_groups
    strategy,   \* node_groups.selection_strategy ("absent": no such group)
    members,    \* node_group_members
    signals,    \* what servers and agents say of a node, as signals
    policy,     \* vpn_account_automatic_selection_policies; last: whether
                \* last_selected_at is unset, within the cooldown or before it
    budget,     \* what is left of the bounds
    chosen      \* note: selections of an account, and whether its last one is
                \* within the cooldown

selectionVars == <<group, strategy, members, signals, policy, budget, chosen>>
allVars == <<vars, selectionVars>>

Spend(kind) == budget[kind] > 0 /\ budget' = [budget EXCEPT ![kind] = @ - 1]

SelectionInit ==
    /\ Init
    /\ \E s \in Scenarios :
          /\ group = s.group /\ strategy = s.strategy /\ members = s.members
          /\ policy = s.policy /\ budget = s.budget
    /\ signals = [n \in Nodes |-> {}]
    /\ chosen = [a \in Accounts |-> [times |-> 0, recent |-> FALSE]]

-----------------------------------------------------------------------------
(* Candidates *)

IsMember(g, n) == members[g][n] # NotMember
CandidateSignals(g, n) ==
    signals[n] \cup (IF members[g][n].enabled THEN {} ELSE {"member_disabled"})

(* evaluateCandidate: any signal but a high load makes a node unavailable. *)
Health(g, n) ==
    CASE CandidateSignals(g, n) = {} -> "ready"
      [] CandidateSignals(g, n) = {"high_load"} -> "degraded"
      [] OTHER -> "unavailable"

OfHealth(g, health) == {n \in Nodes : IsMember(g, n) /\ Health(g, n) = health}

(* Degraded nodes are a fallback, where the policy allows them. *)
Pool(g, allowDegraded) ==
    IF OfHealth(g, "ready") # {} THEN OfHealth(g, "ready")
    ELSE IF allowDegraded THEN OfHealth(g, "degraded") ELSE {}

Rank(a, g, n) ==
    IF strategy[g] = "weighted" THEN Score(a, n, members[g][n].weight)
    ELSE members[g][n].priority

SelectCandidate(a, g, allowDegraded) ==
    CHOOSE n \in Pool(g, allowDegraded) : \A m \in Pool(g, allowDegraded) \ {n} :
        \/ Rank(a, g, n) < Rank(a, g, m)
        \/ Rank(a, g, n) = Rank(a, g, m) /\ IdOrder(n) < IdOrder(m)

CurrentEligible(a) ==
    LET n == account[a].server IN
    /\ group[a] # NoGroup /\ IsMember(group[a], n)
    /\ Health(group[a], n) \in {"ready"} \cup (IF policy[a].allowDegraded THEN {"degraded"} ELSE {})

(* evaluateAutomaticSelectionAt *)
Decision(a) ==
    IF group[a] = NoGroup THEN "node_group_required"
    ELSE IF Pool(group[a], policy[a].allowDegraded) = {} THEN "no_eligible_candidate"
    ELSE IF SelectCandidate(a, group[a], policy[a].allowDegraded) = account[a].server THEN "current"
    ELSE IF CurrentEligible(a) /\ policy[a].last = "recent" THEN "cooldown"
    ELSE "selected"

-----------------------------------------------------------------------------
(* Groups, members and policies *)

CreateNodeGroup(g, s) ==
    /\ strategy[g] = "absent"
    /\ Spend("groups")
    /\ strategy' = [strategy EXCEPT ![g] = s]
    /\ UNCHANGED <<vars, group, members, signals, policy, chosen>>

UpdateNodeGroup(g, s) ==
    /\ strategy[g] \notin {"absent", s}
    /\ Spend("groups")
    /\ strategy' = [strategy EXCEPT ![g] = s]
    /\ UNCHANGED <<vars, group, members, signals, policy, chosen>>

(* Refused by a foreign key while an account is assigned to the group. *)
Deletable(g) == \A a \in Accounts : group[a] # g

DeleteNodeGroup(g) ==
    /\ strategy[g] # "absent" /\ Deletable(g)
    /\ Spend("groups")
    /\ strategy' = [strategy EXCEPT ![g] = "absent"]
    /\ members' = [members EXCEPT ![g] = [n \in Nodes |-> NotMember]]
    /\ UNCHANGED <<vars, group, signals, policy, chosen>>

UpsertMember(g, n, member) ==
    /\ strategy[g] # "absent" /\ members[g][n] # member
    /\ Spend("groups")
    /\ members' = [members EXCEPT ![g][n] = member]
    /\ UNCHANGED <<vars, group, strategy, signals, policy, chosen>>

DeleteMember(g, n) ==
    /\ IsMember(g, n)
    /\ Spend("groups")
    /\ members' = [members EXCEPT ![g][n] = NotMember]
    /\ UNCHANGED <<vars, group, strategy, signals, policy, chosen>>

(* Another group than before: the last selection is forgotten. *)
AssignNodeGroup(a, g) ==
    /\ strategy[g] # "absent" /\ group[a] # g
    /\ Spend("policies")
    /\ group' = [group EXCEPT ![a] = g]
    /\ policy' = [policy EXCEPT ![a].last = "none"]
    /\ chosen' = [chosen EXCEPT ![a].recent = FALSE]
    /\ UNCHANGED <<vars, strategy, members, signals>>

(* Without a group there is no automatic selection. *)
DeleteNodeGroupAssignment(a) ==
    /\ group[a] # NoGroup
    /\ Spend("policies")
    /\ group' = [group EXCEPT ![a] = NoGroup]
    /\ policy' = [policy EXCEPT ![a].enabled = FALSE]
    /\ UNCHANGED <<vars, strategy, members, signals, chosen>>

(* What was selected last is kept. *)
UpdatedPolicy(a, enabled, allowDegraded) ==
    [policy[a] EXCEPT !.enabled = enabled, !.allowDegraded = allowDegraded]

UpdateAutomaticSelectionPolicy(a, enabled, allowDegraded) ==
    /\ enabled => group[a] # NoGroup
    /\ UpdatedPolicy(a, enabled, allowDegraded) # policy[a]
    /\ Spend("policies")
    /\ policy' = [policy EXCEPT ![a] = UpdatedPolicy(a, enabled, allowDegraded)]
    /\ UNCHANGED <<vars, group, strategy, members, signals, chosen>>

(* A heartbeat, its absence, a changed capability or a changed load. *)
SignalsChange(n, new) ==
    /\ signals[n] # new
    /\ Spend("signals")
    /\ signals' = [signals EXCEPT ![n] = new]
    /\ UNCHANGED <<vars, group, strategy, members, policy, chosen>>

CooldownElapses(a) ==
    /\ policy[a].last = "recent" \/ chosen[a].recent
    /\ policy' = [policy EXCEPT ![a].last = IF @ = "recent" THEN "old" ELSE @]
    /\ chosen' = [chosen EXCEPT ![a].recent = FALSE]
    /\ UNCHANGED <<vars, group, strategy, members, signals, budget>>

-----------------------------------------------------------------------------
(* ApplyAutomaticSelection *)

(* StartInTransaction returns a transfer that is under way to that node. *)
UnderWay(a, n) ==
    \E t \in DOMAIN transfer : transfer[t].account = a /\ transfer[t].target = n /\ Active(t)

Move(a, n) ==
    IF Deployed(a)
    THEN IF UnderWay(a, n) THEN UNCHANGED vars ELSE Start(a, n)
    ELSE Reassignable(a, n) /\ Reassign(a, n) /\ UNCHANGED edits

(* Mutant: only a move made at once is remembered. *)
Remembered_Direct(a, p) == IF Deployed(a) THEN p ELSE [p EXCEPT !.last = "recent"]

(* Both ways set last_selected_at. *)
Remembered(a, p) == [p EXCEPT !.last = "recent"]

ApplyAutomaticSelection(a) ==
    /\ policy[a].enabled /\ account[a].enabled
    /\ Decision(a) = "selected"
    /\ Spend("selections")
    /\ Move(a, SelectCandidate(a, group[a], policy[a].allowDegraded))
    /\ policy' = [policy EXCEPT ![a] = Remembered(a, @)]
    /\ chosen' = [chosen EXCEPT ![a] = [times |-> @.times + 1, recent |-> TRUE]]
    /\ UNCHANGED <<group, strategy, members, signals>>

-----------------------------------------------------------------------------
Administration ==
    \/ \E g \in Groups, s \in Strategies : CreateNodeGroup(g, s) \/ UpdateNodeGroup(g, s)
    \/ \E g \in Groups : DeleteNodeGroup(g)
    \/ \E g \in Groups, n \in Nodes, m \in Memberships : UpsertMember(g, n, m)
    \/ \E g \in Groups, n \in Nodes : DeleteMember(g, n)
    \/ \E a \in Accounts, g \in Groups : AssignNodeGroup(a, g)
    \/ \E a \in Accounts : DeleteNodeGroupAssignment(a)
    \/ \E a \in Accounts, enabled, degraded \in BOOLEAN :
          UpdateAutomaticSelectionPolicy(a, enabled, degraded)

SelectionNext ==
    \/ Next /\ UNCHANGED selectionVars
    \/ Administration
    \/ \E n \in Nodes, new \in Signals : SignalsChange(n, new)
    \/ \E a \in Accounts : CooldownElapses(a)
    \/ \E a \in Accounts : ApplyAutomaticSelection(a)

SelectionSpec ==
    /\ SelectionInit /\ [][SelectionNext]_allVars
    /\ \A n \in Nodes : WF_allVars(AgentStep(n) /\ UNCHANGED selectionVars)

-----------------------------------------------------------------------------
(* Properties *)

(* Every variable has the shape its table gives it. *)
SelectionTypeOK ==
    /\ TypeOK
    /\ group \in [Accounts -> Groups \cup {NoGroup}]
    /\ strategy \in [Groups -> Strategies \cup {"absent"}]
    /\ members \in [Groups -> [Nodes -> Memberships \cup {NotMember}]]
    /\ signals \in [Nodes -> Signals \cup {{}}]
    /\ policy \in [Accounts -> SelectionPolicy]
    /\ chosen \in [Accounts -> [times : Nat, recent : BOOLEAN]]

(* No account is moved back and forth: a selection takes an account away    *)
(* from a node that is still a good candidate only when the cooldown of its *)
(* last selection is over, also while the transfer that this selection      *)
(* started is under way, rolled back or retried, and whatever is edited     *)
(* meanwhile, unless the account was assigned to a group anew               *)
(* (ApplyAutomaticSelection, AssignNodeGroup).                              *)
CooldownHolds ==
    [][\A a \in Accounts : chosen'[a].times # chosen[a].times /\ CurrentEligible(a) =>
          ~chosen[a].recent]_allVars
=============================================================================
