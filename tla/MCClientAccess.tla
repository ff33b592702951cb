--------------------------- MODULE MCClientAccess ---------------------------
(* One node, two accounts, three protocols: two listed per account and the  *)
(* proxy of the node.                                                       *)
EXTENDS ClientAccess, TLC

MCProtocols == <<"vless", "wireguard", "mtproto">>

MCChoices ==
    {[protocol |-> "mtproto", enabled |-> {}],
     [protocol |-> "vless", enabled |-> {"vless", "mtproto"}],
     [protocol |-> "wireguard", enabled |-> {"vless", "wireguard"}]}

Budget(accounts, devices, preferences, nodes, versionEdits, renders, applies) ==
    [accounts |-> accounts, devices |-> devices, preferences |-> preferences,
     nodes |-> nodes, versions |-> versionEdits, renders |-> renders, applies |-> applies]

MCBudgets ==
    {Budget(0, 0, 3, 0, 0, 2, 2),   \* preferences
     Budget(0, 0, 2, 0, 0, 2, 3),   \* preferences, and a rollback
     Budget(1, 0, 1, 0, 0, 2, 2),   \* accounts and preferences
     Budget(0, 0, 1, 1, 0, 2, 2),   \* preferences and settings of the node
     Budget(2, 0, 0, 0, 0, 1, 1),   \* accounts alone
     Budget(0, 0, 1, 0, 1, 2, 2),   \* preferences and the history of versions
     Budget(0, 3, 0, 0, 0, 1, 1)}   \* devices and links

Symmetry == Permutations(Accounts)
=============================================================================
