--------------------------- MODULE MCConfigApply ----------------------------
(* Instances of ConfigApply for TLC: the second version adds a core to the  *)
(* deployed one, the third drops one of them.                               *)
EXTENDS ConfigApply, TLC

CONSTANTS v1, v2, v3, singbox, wireguard

MCSelects == [v \in Versions |->
                CASE v = v1 -> <<singbox>>
                  [] v = v2 -> <<singbox, wireguard>>
                  [] OTHER -> <<wireguard>>]
=============================================================================
