---------------------------- MODULE ClientConfig ----------------------------
(***************************************************************************)
(* What a rendered configuration deploys for the VPN accounts of a node,   *)
(* as operators without state (backend/internal/configs: multi_protocol,   *)
(* client_settings, the adapters).                                         *)
(*                                                                         *)
(* Every protocol but MTProto is deployed per account: its adapter lists   *)
(* the accounts it issues credentials for.  MTProto is one proxy with one  *)
(* secret for the whole node and lists nobody.                             *)
(***************************************************************************)
EXTENDS Naturals, Sequences, FiniteSets

CONSTANTS
    Accounts,
    Protocols   \* accountProtocolOrder: the concrete protocols, in order

ProtocolSet == {Protocols[i] : i \in DOMAIN Protocols}

ASSUME ProtocolsAssumption ==
    /\ Protocols \in Seq(STRING)
    /\ {"vless", "wireguard", "mtproto"} \subseteq ProtocolSet
    /\ ProtocolSet \cap {"auto", "unset"} = {}

(* A preference is a protocol or "auto", the default of the node. *)
Preferences == ProtocolSet \cup {"auto"}
Unset == "unset"

First(set) ==
    Protocols[CHOOSE i \in DOMAIN Protocols :
                /\ Protocols[i] \in set
                /\ \A j \in 1 .. i - 1 : Protocols[j] \notin set]

PerAccount(set) == set \ {"mtproto"}

NormalizeProtocol(p) == IF p = "auto" THEN "vless" ELSE p

PrimaryProtocol(preference, default) ==
    NormalizeProtocol(IF preference = "auto" THEN default ELSE preference)

(* What an account deploys: the protocols an administrator chose, else its  *)
(* primary one.  A primary outside the chosen set gives way to the first.   *)
Selection(preference, chosen, default) ==
    LET primary == PrimaryProtocol(preference, default)
        protocols == IF chosen = {} THEN {primary} ELSE chosen
    IN [protocols |-> protocols,
        primary |-> IF primary \in protocols THEN primary ELSE First(protocols)]

(* The accounts read by the render that the resolution had not seen. *)
DefaultSelection(default) == Selection("auto", {}, default)

(* The cores the render needs: those of the accounts it serves, or that of  *)
(* the default protocol when it serves nobody.                              *)
SelectedCores(selection, served, default) ==
    LET wanted == UNION {selection[a].protocols : a \in served}
    IN IF wanted = {} THEN {NormalizeProtocol(default)} ELSE wanted

(* The accounts the adapter of a protocol issues credentials for. *)
Renderable(p, selection, served) ==
    {a \in served : p # "mtproto" /\ p \in selection[a].protocols}

(* mergeRenderedVPNAccounts: one entry with the protocols of all adapters.  *)
MergedProtocols(cores, selection, served, a) ==
    {p \in cores : a \in Renderable(p, selection, served)}

(* The content of a version: what two renders are compared by.  keys holds  *)
(* the generations of the node's keys that the cores are configured with.   *)
RenderedConfig(selection, served, default, keys) ==
    LET cores == SelectedCores(selection, served, default) IN
    [protocol |-> NormalizeProtocol(default),
     cores    |-> cores,
     keys     |-> [p \in ProtocolSet |-> IF p \in cores THEN keys[p] ELSE 0],
     listed   |-> [a \in Accounts |-> MergedProtocols(cores, selection, served, a)]]

(* ValidateRenderedConfig: only WireGuard cannot be rendered without a key. *)
ValidConfig(config) == "wireguard" \in config.cores => config.keys["wireguard"] # 0

(* A core with nobody to serve does not start, but for the MTProto proxy.   *)
CoreReady(p, config) == p = "mtproto" \/ \E a \in Accounts : p \in config.listed[a]

(* ensureConfigVersionSafeForApply: such a version is stored, not applied.  *)
ServicesReady(config) == ValidConfig(config) /\ \A p \in config.cores : CoreReady(p, config)

(* The entry of an account in client_settings.accounts.  The primary is     *)
(* recorded when the version deploys it; MTProto, of accounts the render    *)
(* served, is deployed by the proxy.                                        *)
AccountDeployment(config, selection, placed, served, a) ==
    LET primary == selection[a].primary IN
    [protocols |-> config.listed[a],
     primary |-> IF a \in placed /\ (\/ primary \in config.listed[a]
                                     \/ /\ primary = "mtproto" /\ a \in served
                                        /\ "mtproto" \in config.cores)
                 THEN primary ELSE Unset]

(* client_settings: what clients need to know of a version.                 *)
ClientSettings(config, selection, placed, served) ==
    [protocol |-> config.protocol,
     keys     |-> config.keys,
     proxy    |-> "mtproto" \in config.cores,
     accounts |-> [a \in Accounts |-> AccountDeployment(config, selection, placed, served, a)]]

(* The settings have an entry for the account. *)
HasEntry(settings, a) ==
    settings.accounts[a].protocols # {} \/ settings.accounts[a].primary # Unset

(* requireDeployed: the protocols of an account that a version deploys. *)
DeployedProtocols(settings, a) ==
    settings.accounts[a].protocols \cup (IF settings.proxy THEN {"mtproto"} ELSE {})
=============================================================================
