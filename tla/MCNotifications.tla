--------------------------- MODULE MCNotifications ---------------------------
(* Scenarios: episodes of one server's checks, the expansion of             *)
(* announcements, a recipient that joins meanwhile, the pairing of chats.   *)
EXTENDS Notifications, TLC

CONSTANTS s1, c1, c2, k1, k2, a1

Sample(capacity, core) == [capacity |-> capacity, core |-> core]
MCSamples == {Sample("low", "active"), Sample("critical", "absent")}

Budget(ticks, faults, pairings, messages, deletions) ==
    [ticks |-> ticks, faults |-> faults, sessions |-> pairings,
     messages |-> messages, deletions |-> deletions]

Recipients(chats) == {[id |-> 1, chat |-> c1]} \cup (IF chats = 2 THEN {[id |-> 2, chat |-> c2]} ELSE {})

MCScenarios ==
    [clock : {1}, recipients : {{}}, budget : {Budget(4, 0, 0, 0, 0), Budget(2, 1, 0, 0, 0)}]
    \cup [clock : {1}, recipients : {Recipients(2)}, budget : {Budget(1, 2, 0, 0, 1)}]
    \cup [clock : {1}, recipients : {Recipients(1)}, budget : {Budget(1, 1, 1, 1, 0)}]
    \cup [clock : {0}, recipients : {{}}, budget : {Budget(0, 1, 2, 3, 1)}]
=============================================================================
