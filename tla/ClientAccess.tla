---------------------------- MODULE ClientAccess ----------------------------
(***************************************************************************)
(* The access of VPN accounts to one node: what administrators choose, what*)
(* a render deploys, what a confirmed apply activates and what clients are *)
(* handed (backend/internal/configs, vpnaccounts; the trigger of migration *)
(* 000157).                                                                *)
(*                                                                         *)
(* Preferences are saved at any time; a render reads them in two queries   *)
(* and stores a version in a third transaction; the Agent confirms a       *)
(* version long after; an administrator may apply an older one again.      *)
(* Clients must always be handed exactly what the node's last confirmed    *)
(* version deploys for them.                                               *)
(*                                                                         *)
(* The code compares updated_at of a preference with created_at of a       *)
(* version.  Here at is the number of versions ever stored when the        *)
(* preference was saved: saved no later than version i means at < i.       *)
(* A traffic limit that is exceeded keeps an account out of a render as a  *)
(* suspension does, and transfers place accounts on two nodes: both are    *)
(* left to Traffic and Transfer.                                           *)
(***************************************************************************)
EXTENDS ClientConfig

CONSTANTS
    NodeDefaults,  \* default protocols the node is given (may hold "auto")
    Choices,       \* preferences saved: protocol, enabled ({}: not given)
    Budgets        \* bounds, one chosen for a behaviour: how many requests about
                   \* accounts, devices, preferences, nodes and versions
                   \* administrators make, how many renders and applies they ask for

ASSUME ConstantsAssumption ==
    /\ NodeDefaults \subseteq Preferences /\ NodeDefaults # {}
    /\ Choices \subseteq [protocol : Preferences, enabled : SUBSET ProtocolSet]
    /\ Budgets \subseteq [{"accounts", "devices", "preferences", "nodes",
                            "versions", "renders", "applies"} -> Nat]

VARIABLES
    node,      \* servers: protocol (saved default), at, keys, active (version)
    account,   \* vpn_accounts: status, placed (server_id is the node)
    profile,   \* vpn_client_profiles: exists, protocol, active, at
    rows,      \* vpn_account_protocols: exists, desired, explicit, active, at
    versions,  \* config_versions: config, settings, status, applied, pinned,
               \* stored (FALSE: deleted)
    queue,     \* config_apply_jobs pending or in progress: versions
    render,    \* the render in progress
    device,    \* vpn_account_devices: one device of each account
    tokens,    \* vpn_subscription_tokens: a working one of the account itself
               \* (legacy) or of its device
    issuing,   \* accounts whose device was read as active to issue a link
    budget,    \* what is left of the bounds
    settled,   \* note: accounts on the node when its active version was confirmed
    late       \* note: accounts whose device got a link after its revocation

accountVars == <<account, device, tokens, issuing, late>>
accessVars  == <<profile, rows>>
clientVars == <<node, account, profile, rows, versions, queue, render,
                device, tokens, issuing, budget, settled, late>>

NoProfile == [exists |-> FALSE, protocol |-> "auto", active |-> "vless", at |-> 0]
NoRow == [exists |-> FALSE, desired |-> FALSE, explicit |-> FALSE, active |-> FALSE, at |-> 0]
NoSelection == [protocols |-> {}, primary |-> Unset]
IdleRender == [step |-> "idle"]
Slots == {"legacy", "device"}
NoRows == [p \in ProtocolSet |-> NoRow]
NoLinks == [s \in Slots |-> FALSE]
NoKeys == [p \in ProtocolSet |-> 0]

Now == Len(versions)
Exists(a) == account[a].status \notin {"absent", "deleted"}
Placed == {a \in Accounts : Exists(a) /\ account[a].placed}
Active(a) == account[a].status = "active"
Confirmed == node.active # 0
ActiveSettings == versions[node.active].settings
Spend(kind) == budget[kind] > 0 /\ budget' = [budget EXCEPT ![kind] = @ - 1]

(* The rows of servers, vpn_accounts, vpn_client_profiles,                  *)
(* vpn_account_protocols, config_versions, vpn_account_devices and          *)
(* vpn_subscription_tokens, as the code reads them.                         *)
Server == [protocol : Preferences, at : 0 .. Now, keys : [ProtocolSet -> Nat], active : 0 .. Now]
VPNAccount == [status : {"absent", "created", "active", "suspended", "revoked", "deleted"},
               placed : BOOLEAN]
ClientProfile == [exists : BOOLEAN, protocol : Preferences, active : ProtocolSet, at : 0 .. Now]
AccountProtocol == [exists : BOOLEAN, desired : BOOLEAN, explicit : BOOLEAN, active : BOOLEAN,
                    at : 0 .. Now]
IsConfigVersion(v) ==
    /\ v.status \in {"validated", "validation_failed", "applied"}
    /\ {v.applied, v.pinned, v.stored} \subseteq BOOLEAN
Device == {"absent", "active", "revoked"}
SubscriptionTokens == [Slots -> BOOLEAN]

(* Every account is new or has just been created. *)
AccessInit ==
    /\ node \in [protocol : NodeDefaults, at : {0}, keys : {NoKeys}, active : {0}]
    /\ account \in [Accounts -> {[status |-> "absent", placed |-> FALSE],
                                 [status |-> "active", placed |-> TRUE]}]
    /\ profile = [a \in Accounts |-> NoProfile]
    /\ rows = [a \in Accounts |-> NoRows]
    /\ versions = <<>>
    /\ queue = <<>>
    /\ render = IdleRender
    /\ device = [a \in Accounts |-> "absent"]
    /\ tokens = [a \in Accounts |-> NoLinks]
    /\ issuing = {}
    /\ budget \in Budgets
    /\ settled = {}
    /\ late = {}

-----------------------------------------------------------------------------
(* VPN accounts *)

CreateAccount(a, status, placed) ==
    /\ account[a].status = "absent"
    /\ Spend("accounts")
    /\ account' = [account EXCEPT ![a] = [status |-> status, placed |-> placed]]
    /\ UNCHANGED <<node, accessVars, versions, queue, render, device, tokens, issuing,
                   settled, late>>

WithStatus(accounts, status) ==
    [a \in Accounts |->
        IF a \in accounts /\ Exists(a) THEN [account[a] EXCEPT !.status = status] ELSE account[a]]

WithServer(accounts, placed) ==
    [a \in Accounts |->
        IF a \in accounts /\ Exists(a) THEN [account[a] EXCEPT !.placed = placed] ELSE account[a]]

(* Migration 000159: an account that the active version of its node holds   *)
(* moves only by a staged transfer.                                         *)
Movable(a) == ~(account[a].placed /\ Confirmed /\ HasEntry(ActiveSettings, a))

(* Suspend, Activate, Revoke. *)
SetAccountStatus(a, status) ==
    /\ Exists(a) /\ account[a].status # status
    /\ Spend("accounts")
    /\ account' = WithStatus({a}, status)
    /\ UNCHANGED <<node, accessVars, versions, queue, render, device, tokens, issuing,
                   settled, late>>

(* UpdateAccount: the server of an account. *)
UpdateAccount(a, placed) ==
    /\ Exists(a) /\ account[a].placed # placed
    /\ Movable(a)
    /\ Spend("accounts")
    /\ account' = WithServer({a}, placed)
    /\ settled' = settled \ {a}
    /\ UNCHANGED <<node, accessVars, versions, queue, render, device, tokens, issuing, late>>

(* BulkAction: one transaction for all selected accounts.  One of them that *)
(* cannot move refuses them all.                                            *)
BulkSetStatus(accounts, status) ==
    /\ Cardinality(accounts) > 1
    /\ \E a \in accounts : Exists(a) /\ account[a].status # status
    /\ Spend("accounts")
    /\ account' = WithStatus(accounts, status)
    /\ UNCHANGED <<node, accessVars, versions, queue, render, device, tokens, issuing,
                   settled, late>>

BulkAssignServer(accounts, placed) ==
    LET moved == {a \in accounts : Exists(a) /\ account[a].placed # placed} IN
    /\ Cardinality(accounts) > 1 /\ moved # {}
    /\ \A a \in moved : Movable(a)
    /\ Spend("accounts")
    /\ account' = WithServer(moved, placed)
    /\ settled' = settled \ moved
    /\ UNCHANGED <<node, accessVars, versions, queue, render, device, tokens, issuing, late>>

(* DeleteAccount, or in bulk: profile, protocols, devices and links cascade. *)
DeleteAccounts(accounts) ==
    LET gone == {a \in accounts : Exists(a)} IN
    /\ gone # {}
    /\ Spend("accounts")
    /\ account' = [a \in Accounts |->
          IF a \in gone THEN [status |-> "deleted", placed |-> FALSE] ELSE account[a]]
    /\ profile' = [a \in Accounts |-> IF a \in gone THEN NoProfile ELSE profile[a]]
    /\ rows' = [a \in Accounts |-> IF a \in gone THEN NoRows ELSE rows[a]]
    /\ device' = [a \in Accounts |-> IF a \in gone THEN "absent" ELSE device[a]]
    /\ tokens' = [a \in Accounts |-> IF a \in gone THEN NoLinks ELSE tokens[a]]
    /\ late' = late \ gone
    /\ settled' = settled \ gone
    /\ UNCHANGED <<node, versions, queue, render, issuing>>

-----------------------------------------------------------------------------
(* Devices and links *)

(* CreateDevice inserts the device; its first link is issued afterwards. *)
CreateDevice(a) ==
    /\ Exists(a) /\ device[a] = "absent"
    /\ Spend("devices")
    /\ device' = [device EXCEPT ![a] = "active"]
    /\ UNCHANGED <<node, account, accessVars, versions, queue, render, tokens, issuing,
                   settled, late>>

(* CreateDeviceSubscriptionToken reads the device as active, without a lock. *)
BeginDeviceToken(a) ==
    /\ Exists(a) /\ device[a] = "active"
    /\ a \notin issuing
    /\ Spend("devices")
    /\ issuing' = issuing \cup {a}
    /\ UNCHANGED <<node, account, accessVars, versions, queue, render, device, tokens,
                   settled, late>>

(* The previous link of the device is revoked and a new one inserted; the   *)
(* insert fails when the device is gone.                                    *)
FinishDeviceToken(a) ==
    /\ a \in issuing
    /\ issuing' = issuing \ {a}
    /\ \/ /\ device[a] # "absent"
          /\ tokens' = [tokens EXCEPT ![a]["device"] = TRUE]
          /\ late' = IF device[a] = "revoked" THEN late \cup {a} ELSE late
       \/ UNCHANGED <<tokens, late>>
    /\ UNCHANGED <<node, account, accessVars, versions, queue, render, device, budget,
                   settled>>

(* Mutant: the links of the device are left alone. *)
RevokeDevice_KeepsTokens(a) ==
    /\ device[a] = "active"
    /\ Spend("devices")
    /\ device' = [device EXCEPT ![a] = "revoked"]
    /\ UNCHANGED <<node, account, accessVars, versions, queue, render, tokens, issuing,
                   settled, late>>

(* RevokeDevice: the device and its links in one transaction. *)
RevokeDevice(a) ==
    /\ device[a] = "active"
    /\ Spend("devices")
    /\ device' = [device EXCEPT ![a] = "revoked"]
    /\ tokens' = [tokens EXCEPT ![a]["device"] = FALSE]
    /\ UNCHANGED <<node, account, accessVars, versions, queue, render, issuing,
                   settled, late>>

(* CreateSubscriptionToken: the link of the account itself (device_id NULL).*)
CreateSubscriptionToken(a) ==
    /\ Exists(a)
    /\ Spend("devices")
    /\ tokens' = [tokens EXCEPT ![a]["legacy"] = TRUE]
    /\ UNCHANGED <<node, account, accessVars, versions, queue, render, device, issuing,
                   settled, late>>

RevokeSubscriptionTokens(a) ==
    /\ tokens[a]["legacy"]
    /\ Spend("devices")
    /\ tokens' = [tokens EXCEPT ![a]["legacy"] = FALSE]
    /\ UNCHANGED <<node, account, accessVars, versions, queue, render, device, issuing,
                   settled, late>>

-----------------------------------------------------------------------------
(* Preferences *)

Chosen(a) ==
    {p \in ProtocolSet : rows[a][p].exists /\ rows[a][p].desired /\ rows[a][p].explicit}

(* What the next render deploys for the account. *)
DesiredSelection(a) == Selection(profile[a].protocol, Chosen(a), node.protocol)

(* appliedAccountProtocolsSQL: what the active version of the account's node*)
(* deploys for it; nothing is known without a node or an active version.    *)
AppliedKnown(a) == account[a].placed /\ Confirmed
Applied(a) == IF AppliedKnown(a) THEN ActiveSettings.accounts[a].protocols ELSE {}

(* appliedPrimaryProtocolSQL *)
AppliedPrimary(a) ==
    IF ~AppliedKnown(a) THEN "vless"
    ELSE IF ActiveSettings.accounts[a].primary # Unset THEN ActiveSettings.accounts[a].primary
    ELSE IF Applied(a) # {} THEN First(Applied(a))
    ELSE ActiveSettings.protocol

(* GetOrCreateClientProfile *)
ProfileOf(a) ==
    IF profile[a].exists THEN profile[a]
    ELSE [exists |-> TRUE, protocol |-> "auto", active |-> AppliedPrimary(a), at |-> Now]

(* GetClientProtocolSets: rows for what the node deploys are added on the   *)
(* first read; they are active and not a choice of the administrator.       *)
Seeded(a, cp, current) ==
    LET deployed == IF AppliedKnown(a) THEN Applied(a) ELSE {cp.active}
    IN [p \in ProtocolSet |->
          IF p \in deployed /\ ~current[p].exists
          THEN [exists |-> TRUE, desired |-> TRUE, explicit |-> FALSE, active |-> TRUE,
                at |-> cp.at]
          ELSE current[p]]

(* validateClientProfileRequest, and the checks of the handler: the account  *)
(* has a node; a chosen set holds the primary protocol it stands for.       *)
ValidChoice(a, choice) ==
    /\ a \in Placed
    /\ choice.enabled # {} => PrimaryProtocol(choice.protocol, node.protocol) \in choice.enabled

(* UpdateClientProfileWithProtocols: every protocol gets a row; a new row is*)
(* active when the node deploys it, an old one stays as it is.              *)
ChosenRows(a, cp, enabled) ==
    [p \in ProtocolSet |->
        [exists |-> TRUE, desired |-> p \in enabled, explicit |-> TRUE, at |-> Now,
         active |-> IF rows[a][p].exists THEN rows[a][p].active
                    ELSE IF AppliedKnown(a) /\ p # "mtproto" THEN p \in Applied(a)
                    ELSE cp.active = p]]

(* The first use of WireGuard generates the keys of the node, which is a    *)
(* change of its protocol settings.                                         *)
PreparedNode(requested) ==
    IF "wireguard" \in requested /\ node.keys["wireguard"] = 0
    THEN [node EXCEPT !.keys["wireguard"] = 1, !.at = Now] ELSE node

(* UpdateClientProfile: prepared, saved, and the answer reads the sets. *)
UpdateClientProfile(a, choice) ==
    LET cp == [ProfileOf(a) EXCEPT !.protocol = choice.protocol, !.at = Now]
        requested == IF choice.enabled # {} THEN choice.enabled
                     ELSE {PrimaryProtocol(choice.protocol, node.protocol)}
        saved == IF choice.enabled # {} THEN ChosenRows(a, cp, choice.enabled) ELSE rows[a]
    IN
    /\ ValidChoice(a, choice)
    /\ Spend("preferences")
    /\ node' = PreparedNode(requested)
    /\ profile' = [profile EXCEPT ![a] = cp]
    /\ rows' = [rows EXCEPT ![a] = Seeded(a, cp, saved)]
    /\ UNCHANGED <<accountVars, versions, queue, render, settled>>

(* UpdateProtocolSettings: saved again, even unchanged, the settings are new.*)
UpdateProtocolSettings(protocol) ==
    /\ Spend("nodes")
    /\ node' = [node EXCEPT !.protocol = protocol, !.at = Now]
    /\ UNCHANGED <<accountVars, accessVars, versions, queue, render, settled>>

GenerateRealityKeypair ==
    /\ Spend("nodes")
    /\ node' = [node EXCEPT !.keys["vless"] = @ + 1, !.at = Now]
    /\ UNCHANGED <<accountVars, accessVars, versions, queue, render, settled>>

ConfigureRecommendedReality ==
    /\ Spend("nodes")
    /\ node' = [node EXCEPT !.protocol = "vless", !.keys["vless"] = @ + 1, !.at = Now]
    /\ UNCHANGED <<accountVars, accessVars, versions, queue, render, settled>>

ConfigureRecommendedWireGuard ==
    /\ Spend("nodes")
    /\ node' = [node EXCEPT !.protocol = "wireguard", !.keys["wireguard"] = @ + 1, !.at = Now]
    /\ UNCHANGED <<accountVars, accessVars, versions, queue, render, settled>>

-----------------------------------------------------------------------------
(* Rendering a version *)

(* ResolveServerAccountProtocols: the choices of the accounts on the node. *)
ResolveProtocols ==
    /\ render = IdleRender
    /\ Spend("renders")
    /\ render' = [step |-> "resolved",
                  selection |-> [a \in Accounts |->
                      IF a \in Placed THEN DesiredSelection(a) ELSE NoSelection]]
    /\ UNCHANGED <<node, accountVars, accessVars, versions, queue, settled>>

(* GetServerConfigInfo: the node, its accounts and their status, read later; *)
(* the configuration is built from both.                                    *)
ReadServerConfig ==
    /\ render.step = "resolved"
    /\ LET selection == [a \in Accounts |->
               IF render.selection[a].protocols = {} THEN DefaultSelection(node.protocol)
               ELSE render.selection[a]]
           served == {a \in Placed : Active(a)}
           config == RenderedConfig(selection, served, node.protocol, node.keys)
       IN render' = [step |-> "rendered", config |-> config,
                     settings |-> ClientSettings(config, selection, Placed, served)]
    /\ UNCHANGED <<node, accountVars, accessVars, versions, queue, budget, settled>>

Stored == {i \in DOMAIN versions : versions[i].stored}
Latest == CHOOSE i \in Stored : \A j \in Stored : j <= i

(* A preference of the node or of an account on it is newer than version i. *)
NewerPreference(i) ==
    \/ node.at >= i
    \/ \E a \in Placed :
          \/ profile[a].exists /\ profile[a].at >= i
          \/ \E p \in ProtocolSet : rows[a][p].exists /\ rows[a][p].at >= i

(* Mutant: an equivalent latest version is reused whatever was saved since. *)
Reusable_Always(config) == Stored # {} /\ versions[Latest].config = config

(* CreateConfigVersion reuses the latest version when it is equivalent. *)
Reusable(config) ==
    /\ Stored # {}
    /\ versions[Latest].config = config
    /\ ~NewerPreference(Latest)

(* What the service hands to CreateConfigVersion. *)
RenderedVersion ==
    [config |-> render.config, settings |-> render.settings,
     status |-> IF ValidConfig(render.config) THEN "validated" ELSE "validation_failed",
     applied |-> FALSE, pinned |-> FALSE, stored |-> TRUE]

CreateConfigVersion ==
    /\ render.step = "rendered"
    /\ versions' = IF Reusable(render.config) THEN versions
                   ELSE Append(versions, RenderedVersion)
    /\ render' = IdleRender
    /\ UNCHANGED <<node, accountVars, accessVars, queue, budget, settled>>

-----------------------------------------------------------------------------
(* Versions and apply jobs *)

(* MarkConfigVersionValidated, from any status. *)
ValidateVersion(i) ==
    /\ i \in Stored /\ versions[i].status # "validated"
    /\ ValidConfig(versions[i].config)
    /\ Spend("versions")
    /\ versions' = [versions EXCEPT ![i].status = "validated"]
    /\ UNCHANGED <<node, accountVars, accessVars, queue, render, settled>>

SetVersionPinned(i, pinned) ==
    /\ i \in Stored /\ versions[i].pinned # pinned
    /\ Spend("versions")
    /\ versions' = [versions EXCEPT ![i].pinned = pinned]
    /\ UNCHANGED <<node, accountVars, accessVars, queue, render, settled>>

(* The conditions of the DELETE: neither pinned, nor active, nor queued. *)
Deletable(i) ==
    /\ i \in Stored /\ ~versions[i].pinned
    /\ i # node.active
    /\ \A k \in DOMAIN queue : queue[k] # i

DeleteVersion(i) ==
    /\ Deletable(i)
    /\ Spend("versions")
    /\ versions' = [versions EXCEPT ![i].stored = FALSE]
    /\ UNCHANGED <<node, accountVars, accessVars, queue, render, settled>>

CreateConfigApplyJob(i) ==
    /\ Spend("applies")
    /\ queue' = Append(queue, i)
    /\ UNCHANGED <<node, accountVars, accessVars, versions, render, settled>>

Apply(i) ==
    /\ i \in Stored /\ versions[i].status = "validated"
    /\ ServicesReady(versions[i].config)
    /\ CreateConfigApplyJob(i)

(* Reapply: any version that was once applied, such as for a rollback. *)
Reapply(i) ==
    /\ i \in Stored /\ versions[i].applied
    /\ ServicesReady(versions[i].config)
    /\ CreateConfigApplyJob(i)

(* The Agent reports the oldest job as failed: the node runs what it ran.   *)
ApplyFails ==
    /\ queue # <<>>
    /\ queue' = Tail(queue)
    /\ UNCHANGED <<node, accountVars, accessVars, versions, render, budget, settled>>

(* Mutant: rows of protocols the version does not deploy keep their state.  *)
ActivatedRows_Added(i, a) ==
    LET settings == versions[i].settings
        listed == settings.accounts[a].protocols
    IN
    [p \in ProtocolSet |->
        LET row == rows[a][p] IN
        CASE p # "mtproto" /\ row.exists -> [row EXCEPT !.active = @ \/ p \in listed]
          [] p # "mtproto" /\ ~row.exists /\ p \in listed ->
                [exists |-> TRUE, desired |-> TRUE, explicit |-> FALSE, active |-> TRUE,
                 at |-> i - 1]
          [] p = "mtproto" /\ row.exists /\ ~settings.proxy ->
                [row EXCEPT !.active = FALSE]
          [] p = "mtproto" /\ row.exists /\ settings.proxy /\ row.at < i ->
                [row EXCEPT !.active = row.desired]
          [] OTHER -> row]

(* routegate_mark_config_version_applied, the protocols of an account on the*)
(* node: per account exactly what the version lists, MTProto when the proxy *)
(* runs and the choice is not newer than the version.                       *)
ActivatedRows(i, a) ==
    LET settings == versions[i].settings
        listed == settings.accounts[a].protocols
    IN
    [p \in ProtocolSet |->
        LET row == rows[a][p] IN
        CASE p # "mtproto" /\ row.exists -> [row EXCEPT !.active = p \in listed]
          [] p # "mtproto" /\ ~row.exists /\ p \in listed ->
                [exists |-> TRUE, desired |-> TRUE, explicit |-> FALSE, active |-> TRUE,
                 at |-> i - 1]
          [] p = "mtproto" /\ row.exists /\ ~settings.proxy ->
                [row EXCEPT !.active = FALSE]
          [] p = "mtproto" /\ row.exists /\ settings.proxy /\ row.at < i ->
                [row EXCEPT !.active = row.desired]
          [] OTHER -> row]

(* The primary protocol clients of the account are served with. *)
ActivatedPrimary(i, a) ==
    LET settings == versions[i].settings
        entry == settings.accounts[a]
        cp == profile[a]
    IN CASE HasEntry(settings, a) /\ entry.primary # Unset -> entry.primary
         [] HasEntry(settings, a) /\ entry.primary = Unset ->
              IF cp.active \in DeployedProtocols(settings, a) THEN cp.active
              ELSE First(entry.protocols)
         [] ~HasEntry(settings, a) /\ cp.at < i /\ (cp.protocol # "auto" \/ node.at < i) ->
              PrimaryProtocol(cp.protocol, node.protocol)
         [] OTHER -> cp.active

(* The Agent reports the oldest job as succeeded. *)
ApplySucceeds ==
    /\ queue # <<>>
    /\ LET i == Head(queue) IN
       /\ queue' = Tail(queue)
       /\ node' = [node EXCEPT !.active = i]
       /\ versions' = [versions EXCEPT ![i].status = "applied", ![i].applied = TRUE]
       /\ rows' = [a \in Accounts |-> IF a \in Placed THEN ActivatedRows(i, a) ELSE rows[a]]
       /\ profile' = [a \in Accounts |->
             IF a \in Placed /\ profile[a].exists
             THEN [profile[a] EXCEPT !.active = ActivatedPrimary(i, a)] ELSE profile[a]]
       /\ settled' = Placed
    /\ UNCHANGED <<accountVars, render, budget>>

-----------------------------------------------------------------------------
(* Serving clients *)

ActiveRows(current) == {p \in ProtocolSet : current[p].exists /\ current[p].active}

(* clientConnection: the protocols a client of the account is handed.  One  *)
(* that the node does not deploy withholds all of them.                     *)
Served(a) ==
    LET cp == ProfileOf(a)
        active == ActiveRows(Seeded(a, cp, rows[a]))
        connections == IF active = {} THEN {cp.active} ELSE active
    IN IF /\ a \in Placed /\ Confirmed
          /\ {cp.active} \cup connections \subseteq DeployedProtocols(ActiveSettings, a)
       THEN connections ELSE {}

(* The profile and the rows that are created on the first request. *)
Hydrated(a) ==
    /\ profile' = [profile EXCEPT ![a] = ProfileOf(a)]
    /\ rows' = [rows EXCEPT ![a] = Seeded(a, ProfileOf(a), rows[a])]

(* The page of an administrator asks for the connection. *)
ClientConnection(a) ==
    /\ Exists(a)
    /\ Hydrated(a)
    /\ UNCHANGED <<node, accountVars, versions, queue, render, budget, settled>>

(* FindActiveSubscriptionTokenByHash and the checks behind it: a working    *)
(* link of an account in service.  The device is not looked at.             *)
LinkOpens(a, slot) == tokens[a][slot] /\ Active(a)

(* What a link hands out. *)
HandedOut(a, slot) == IF LinkOpens(a, slot) THEN Served(a) ELSE {}

(* A client fetches its subscription. *)
GetClientSubscription(a, slot) ==
    /\ LinkOpens(a, slot)
    /\ Hydrated(a)
    /\ UNCHANGED <<node, accountVars, versions, queue, render, budget, settled>>

-----------------------------------------------------------------------------
AccountNext ==
    \/ \E a \in Accounts, placed \in BOOLEAN :
         \/ \E status \in {"created", "active"} : CreateAccount(a, status, placed)
         \/ UpdateAccount(a, placed)
    \/ \E a \in Accounts, status \in {"active", "suspended", "revoked"} :
         SetAccountStatus(a, status)
    \/ \E accounts \in SUBSET Accounts :
         \/ \E status \in {"active", "suspended", "revoked"} : BulkSetStatus(accounts, status)
         \/ \E placed \in BOOLEAN : BulkAssignServer(accounts, placed)
         \/ DeleteAccounts(accounts)

DeviceNext ==
    \E a \in Accounts :
        \/ CreateDevice(a)
        \/ BeginDeviceToken(a)
        \/ FinishDeviceToken(a)
        \/ RevokeDevice(a)
        \/ CreateSubscriptionToken(a)
        \/ RevokeSubscriptionTokens(a)

PreferenceNext ==
    \/ \E a \in Accounts, choice \in Choices : UpdateClientProfile(a, choice)
    \/ \E protocol \in NodeDefaults : UpdateProtocolSettings(protocol)
    \/ GenerateRealityKeypair
    \/ ConfigureRecommendedReality
    \/ ConfigureRecommendedWireGuard

VersionNext ==
    \/ ResolveProtocols
    \/ ReadServerConfig
    \/ CreateConfigVersion
    \/ \E i \in DOMAIN versions :
         \/ ValidateVersion(i)
         \/ \E pinned \in BOOLEAN : SetVersionPinned(i, pinned)
         \/ DeleteVersion(i)
         \/ Apply(i)
         \/ Reapply(i)
    \/ ApplyFails
    \/ ApplySucceeds

AccessNext ==
    \/ AccountNext
    \/ DeviceNext
    \/ PreferenceNext
    \/ VersionNext
    \/ \E a \in Accounts : ClientConnection(a)
    \/ \E a \in Accounts, slot \in Slots : GetClientSubscription(a, slot)

AccessSpec == AccessInit /\ [][AccessNext]_clientVars

-----------------------------------------------------------------------------
(* Properties *)

(* Every variable has the shape its table gives it. *)
AccessTypeOK ==
    /\ node \in Server
    /\ account \in [Accounts -> VPNAccount]
    /\ profile \in [Accounts -> ClientProfile]
    /\ rows \in [Accounts -> [ProtocolSet -> AccountProtocol]]
    /\ \A i \in DOMAIN versions : IsConfigVersion(versions[i])
    /\ queue \in Seq(Stored)
    /\ device \in [Accounts -> Device]
    /\ tokens \in [Accounts -> SubscriptionTokens]
    /\ issuing \subseteq Accounts /\ settled \subseteq Placed /\ late \subseteq Accounts

(* Whatever was saved, rendered, rolled back or fetched in between, a client*)
(* of an account that the active version lists is handed exactly the per-   *)
(* account protocols that version deploys for it, and never nothing; one    *)
(* that is served by the MTProto proxy alone is handed that.  (The trigger  *)
(* of migration 000157 against the check of requireDeployed.)  It concerns  *)
(* the accounts that were on the node when the version was confirmed.       *)
DeployedIsServed ==
    \A a \in settled :
        HasEntry(ActiveSettings, a) =>
            /\ Served(a) # {}
            /\ PerAccount(Served(a)) = ActiveSettings.accounts[a].protocols

(* When the latest version is the active one and another render would only  *)
(* give it back, nothing an administrator saved is still pending: an account*)
(* in service is handed every protocol desired for it, and of the protocols *)
(* deployed per account no other.  CreateConfigVersion stores an equivalent *)
(* version again for this.  Not so for an account out of service during the *)
(* render that is wanted on the MTProto proxy alone while its primary       *)
(* protocol is another one: the version has no entry for it, activating it  *)
(* again changes no configuration, and it stays pending until something     *)
(* else changes it.                                                         *)
NothingPending ==
    LET selection == [a \in Accounts |-> DesiredSelection(a)]
        served == {a \in Placed : Active(a)}
        config == RenderedConfig(selection, served, node.protocol, node.keys)
    IN Confirmed /\ node.active = Latest /\ Reusable(config) =>
         \A a \in settled :
            LET desired == DesiredSelection(a).protocols IN
            /\ Active(a)
            /\ \/ HasEntry(ActiveSettings, a)
               \/ PrimaryProtocol(profile[a].protocol, node.protocol) \in desired
            => /\ desired \subseteq Served(a)
               /\ PerAccount(Served(a)) = PerAccount(desired)

(* The link of a revoked device hands out nothing, unless it was being      *)
(* issued when the device was revoked.                                      *)
RevokedDeviceIsCutOff ==
    \A a \in Accounts : device[a] = "revoked" /\ a \notin late => HandedOut(a, "device") = {}
=============================================================================
