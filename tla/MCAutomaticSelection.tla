------------------------ MODULE MCAutomaticSelection ------------------------
(* Instances of AutomaticSelection, and with it of Transfer, for TLC. *)
EXTENDS AutomaticSelection, TLC

CONSTANTS n1, n2, a1, g1, g2

MCIdOrder(n) == IF n = n1 THEN 1 ELSE 2

(* The first account prefers the second node, the other one the first. *)
MCScore(a, n, weight) == (IF (a = a1) = (n = n2) THEN 10 ELSE 20) \div weight

MCSignals == {{}, {"high_load"}, {"heartbeat_stale"}}

Member(enabled, priority, weight) ==
    [enabled |-> enabled, priority |-> priority, weight |-> weight]
MCMemberships == {Member(TRUE, 1, 1), Member(TRUE, 2, 5), Member(FALSE, 1, 1)}

NoPolicy == [enabled |-> FALSE, allowDegraded |-> FALSE, last |-> "none"]

(* The first account belongs to a group of both nodes. *)
Scenario(s, budget0) ==
    [group    |-> [a \in Accounts |-> IF a = a1 THEN g1 ELSE NoGroup],
     strategy |-> (g1 :> s) @@ (g2 :> "absent"),
     members  |-> (g1 :> [n \in Nodes |-> IF n = n1 THEN Member(TRUE, 1, 1) ELSE Member(TRUE, 2, 5)])
                  @@ (g2 :> [n \in Nodes |-> NotMember]),
     policy   |-> [a \in Accounts |-> IF a = a1 THEN [NoPolicy EXCEPT !.enabled = TRUE] ELSE NoPolicy],
     budget   |-> budget0]

(* How many edits of groups and policies, changes of signals and selections *)
(* there are, and which of Transfer's steps that nobody owes.               *)
Budget(groups, policies, signs, selections, others) ==
    [groups |-> groups, policies |-> policies, signals |-> signs, selections |-> selections,
     others |-> others]

MCScenarios ==
    {Scenario("priority", Budget(0, 0, 0, 0, {"transfers", "configs", "edits", "faults"})),
     Scenario("priority", Budget(0, 0, 2, 2, {})),
     Scenario("weighted", Budget(0, 0, 1, 2, {})),
     Scenario("priority", Budget(1, 0, 1, 2, {})),
     Scenario("weighted", Budget(0, 1, 0, 1, {})),
     Scenario("weighted", Budget(1, 1, 0, 0, {})),
     Scenario("weighted", Budget(0, 0, 0, 1, {"configs", "edits"}))}

MCNext ==
    /\ SelectionNext
    /\ "edits" \in budget.others \/ UNCHANGED edits
    /\ "faults" \in budget.others \/ UNCHANGED faults
    /\ "transfers" \in budget.others \/ (Len(transfer') > Len(transfer) => chosen' # chosen)
    /\ "configs" \in budget.others \/ (Len(job') > Len(job) => transfer' # transfer)

MCSpec ==
    /\ SelectionInit /\ [][MCNext]_allVars
    /\ \A n \in Nodes : WF_allVars(AgentStep(n) /\ UNCHANGED selectionVars)
=============================================================================
