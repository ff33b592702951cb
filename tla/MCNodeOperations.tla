-------------------------- MODULE MCNodeOperations --------------------------
(* Scenarios: a plan over two nodes with some history, diagnostics of two   *)
(* nodes, operations on one node of each kind of runtime.                   *)
EXTENDS NodeOperations, TLC

CONSTANTS n1, n2, v1, v2

Bare(kind) ==
    [kind |-> kind, binary |-> "none", unit |-> "none", dirs |-> FALSE, config |-> "none",
     masked |-> FALSE, enabled |-> FALSE, running |-> FALSE]
Serving ==
    [kind |-> "package", binary |-> "ours", unit |-> "ours", dirs |-> TRUE,
     config |-> "applied", masked |-> FALSE, enabled |-> TRUE, running |-> TRUE]

Files(staged1, backup1, staged2, backup2) ==
    v1 :> [staged |-> staged1, backup |-> backup1] @@ v2 :> [staged |-> staged2, backup |-> backup2]

Budget(days, applies, plan, services, installs, diagnoses, stops) ==
    [days |-> days, applies |-> applies, plans |-> plan, services |-> services,
     installs |-> installs, diagnostics |-> diagnoses, stops |-> stops]

Both(x, y) == n1 :> x @@ n2 :> y
Unused == Files(0, 0, 0, 0)

Planning(budgets) ==
    [day : {4}, host : {Both(Serving, Serving)}, budget : budgets,
     artifacts : {Both(Files(1, 1, 1, 2), Files(1, 0, 1, 1)), Both(Files(0, 1, 0, 0), Files(1, 1, 3, 3))}]

Installing(budgets) ==
    [day : {3}, artifacts : {Both(Unused, Unused)}, budget : budgets,
     host : {Both(rt, Serving) : rt \in
        {Bare("package"), Bare("tools"), Bare("download"),
         [Bare("download") EXCEPT !.binary = "foreign"]}}]

Diagnosing(budgets) ==
    [day : {3}, artifacts : {Both(Unused, Unused)}, budget : budgets,
     host : {Both(Serving, Bare("tools"))}]

MCScenarios ==
    Planning({Budget(1, 1, 1, 0, 0, 0, 1), Budget(0, 0, 1, 1, 0, 0, 0)})
    \cup Installing({Budget(0, 1, 0, 0, 2, 0, 2), Budget(0, 1, 0, 1, 1, 0, 2)})
    \cup Diagnosing({Budget(0, 0, 0, 0, 0, 2, 1), Budget(0, 0, 0, 1, 0, 1, 1)})
=============================================================================
