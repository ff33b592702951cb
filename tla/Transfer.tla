------------------------------ MODULE Transfer ------------------------------
(***************************************************************************)
(* The staged transfer of a VPN account between two VPN nodes, with the    *)
(* configuration queue it is built on.                                     *)
(*                                                                         *)
(* Manager keeps, per account, the node it is assigned to (server_id, what *)
(* its subscription serves) and, per node, the rendered configuration      *)
(* versions and the last version an Agent confirmed (active).  What the    *)
(* node really runs is `running': it follows the Agent, and Manager learns *)
(* of it only from the reports that arrive.  A transfer prepares the       *)
(* target, switches the assignment and then withdraws the account from the *)
(* node it left, reserving both nodes until it is over.                    *)
(*                                                                         *)
(* A configuration is the set of accounts it lets in; ports, keys and      *)
(* routing are abstracted, as are the reachability and readiness probes,   *)
(* which can only refuse a step (a refused step leaves the state alone).   *)
(***************************************************************************)
EXTENDS Naturals, Sequences, FiniteSets

CONSTANTS
    Nodes,          \* the VPN nodes (table servers)
    Accounts,       \* the VPN accounts (table vpn_accounts)
    None,           \* no work in an Agent's hands
    MaxVersions,    \* bound: configuration versions rendered per node
    MaxJobs,        \* bound: configuration jobs queued
    MaxTransfers,   \* bound: transfers started
    MaxEdits,       \* bound: edits of accounts and changes of limits
    MaxFaults       \* bound: failed applies, lost reports, Agent crashes

ASSUME BoundsAssumption ==
    /\ None \notin Nodes
    /\ {MaxVersions, MaxJobs, MaxTransfers, MaxEdits, MaxFaults} \subseteq Nat
    /\ MaxVersions # 0

VARIABLES
    account,    \* server_id, status and traffic enforcement of each account
    node,       \* versions, active_config_version_id and the runtime of each node
    job,        \* config_apply_jobs, oldest first
    agent,      \* the task each node's Agent is working on
    transfer,   \* vpn_account_transfers, oldest first
    reserved,   \* vpn_account_transfer_nodes: 0, or the transfer holding the node
    edits, faults,
    start       \* history: what the nodes served when each transfer began

vars == <<account, node, job, agent, transfer, reserved, edits, faults, start>>

Versions == 1 .. MaxVersions
Jobs == 1 .. MaxJobs
Transfers == 1 .. MaxTransfers

(* deniesAll marks the listener with no user that only a cleanup renders.  *)
(* outdated is the set of accounts edited after the version was created.   *)
Version == [accounts : SUBSET Accounts, deniesAll : BOOLEAN, outdated : SUBSET Accounts]

Job == [node : Nodes, version : Versions, owner : 0 .. MaxTransfers,
        status : {"pending", "in_progress", "succeeded", "failed"}]

Preparing == {"preparing", "target_applying", "target_ready", "client_refresh_pending"}
Terminal == {"complete", "cancelled", "rolled_back"}

Transfer == [account : Accounts, source : Nodes, target : Nodes,
             sourceVersion : Versions, targetVersion : Versions,
             targetJob : Jobs, cleanupVersion : 0 .. MaxVersions,
             cleanupJob : 0 .. MaxJobs, cutover : BOOLEAN,
             state : Preparing \cup {"source_cleaning", "target_cleaning"} \cup Terminal]

Active(t) == transfer[t].state \notin Terminal

-----------------------------------------------------------------------------
(* Rendering *)

(* Mutant: the source keeps the account through its own cleanup.            *)
Placed_SourceKept(acc, trs, n, a) ==
    \/ acc[a].server = n
    \/ \E t \in DOMAIN trs :
        /\ trs[t].account = a
        /\ n \in {trs[t].source, trs[t].target}
        /\ trs[t].state \notin Terminal

(* accountPlacementSQL: an account is on its own node and, while a transfer *)
(* is preparing, on both; a cleaning node no longer has it.                 *)
Placed(acc, trs, n, a) ==
    \/ acc[a].server = n
    \/ \E t \in DOMAIN trs :
        /\ trs[t].account = a
        /\ \/ n = trs[t].target /\ trs[t].state \in Preparing \cup {"source_cleaning"}
           \/ n = trs[t].source /\ trs[t].state \in Preparing \cup {"target_cleaning"}

Rendered(acc, trs, n) ==
    {a \in Accounts : Placed(acc, trs, n, a) /\ acc[a].enabled /\ ~acc[a].overLimit}

(* Only the render of a transfer's cleaning node adds the empty listener.   *)
Content(acc, trs, n, cleanup) ==
    [accounts |-> Rendered(acc, trs, n),
     deniesAll |-> cleanup /\ Rendered(acc, trs, n) = {}]

(* CreateConfigVersion: an identical render reuses the latest version.      *)
Reusable(versions, content) ==
    /\ versions # <<>>
    /\ versions[Len(versions)].accounts = content.accounts
    /\ versions[Len(versions)].deniesAll = content.deniesAll

WithVersion(versions, content) ==
    IF Reusable(versions, content)
    THEN versions
    ELSE Append(versions, [accounts |-> content.accounts,
                           deniesAll |-> content.deniesAll,
                           outdated |-> {}])

(* ensureConfigVersionSafeForApply: a listener without users is refused     *)
(* unless the cleanup render asked for it.                                  *)
SafeForApply(version) == version.accounts # {} \/ version.deniesAll

-----------------------------------------------------------------------------
(* The guards that the database triggers and the transfer service share *)

(* Mutant: the reservation is written but not enforced.                     *)
NodeGuard_Ignored(n, t) == TRUE

(* routegate_transfer_node_guard, for a caller acting for transfer t (0:   *)
(* any other caller).                                                       *)
NodeGuard(n, t) == reserved[n] \in {0, t}

OpenJobs(n) ==
    {j \in DOMAIN job : job[j].node = n /\ job[j].status \in {"pending", "in_progress"}}

ActiveVersion(n) == node[n].versions[node[n].active]

(* membership(): the version is still the node's applied one, and it has    *)
(* (or no longer has) the account.                                          *)
Membership(n, v, a, present) ==
    /\ node[n].active = v
    /\ (a \in ActiveVersion(n).accounts) = present

(* appliedProof(): this very job succeeded and its version is still active. *)
AppliedProof(n, v, j) == job[j].status = "succeeded" /\ node[n].active = v

(* checkBaseline(): nothing saved on the node waits to be applied.          *)
CheckBaseline(n) ==
    IF node[n].active = 0
    THEN \A a \in Accounts : account[a].server # n
    ELSE Rendered(account, transfer, n) = ActiveVersion(n).accounts

AccountEligible(a) == account[a].enabled /\ ~account[a].overLimit

(* Every edit makes the versions rendered so far older than the account.    *)
Outdate(nodes, a) ==
    [n \in Nodes |->
        LET rendered == nodes[n].versions IN
        [nodes[n] EXCEPT !.versions =
            [v \in DOMAIN rendered |-> [rendered[v] EXCEPT !.outdated = @ \cup {a}]]]]

-----------------------------------------------------------------------------
Init ==
    \E server \in [Accounts -> Nodes] :
        LET on(n) == {a \in Accounts : server[a] = n}
        IN  /\ account = [a \in Accounts |->
                            [server |-> server[a], enabled |-> TRUE, overLimit |-> FALSE]]
            /\ node = [n \in Nodes |->
                        [versions |-> IF on(n) = {} THEN <<>>
                                      ELSE <<[accounts |-> on(n), deniesAll |-> FALSE, outdated |-> {}]>>,
                         active |-> IF on(n) = {} THEN 0 ELSE 1,
                         running |-> on(n)]]
            /\ job = <<>>
            /\ agent = [n \in Nodes |-> None]
            /\ transfer = <<>>
            /\ reserved = [n \in Nodes |-> 0]
            /\ edits = 0
            /\ faults = 0
            /\ start = <<>>

-----------------------------------------------------------------------------
(* Administrators and traffic enforcement *)

(* An account is enabled or disabled: refused while its node is reserved.   *)
SetStatus(a) ==
    /\ edits < MaxEdits
    /\ NodeGuard(account[a].server, 0)
    /\ account' = [account EXCEPT ![a].enabled = ~@]
    /\ node' = Outdate(node, a)
    /\ edits' = edits + 1
    /\ UNCHANGED <<job, agent, transfer, reserved, faults, start>>

(* routegate_transfer_account_guard: a plain reassignment is refused on a   *)
(* reserved node and for an account in its node's confirmed version.        *)
Deployed(a) ==
    LET n == account[a].server
    IN  node[n].active # 0 /\ a \in ActiveVersion(n).accounts

Reassignable(a, n) ==
    /\ account[a].server # n
    /\ NodeGuard(account[a].server, 0)
    /\ NodeGuard(n, 0)
    /\ ~Deployed(a)

Reassign(a, n) ==
    /\ account' = [account EXCEPT ![a].server = n]
    /\ node' = Outdate(node, a)
    /\ UNCHANGED <<job, agent, transfer, reserved, faults, start>>

Assign(a, n) ==
    /\ edits < MaxEdits
    /\ Reassignable(a, n) /\ Reassign(a, n)
    /\ edits' = edits + 1

(* The traffic limit of an account is reached, or lifted: no reservation    *)
(* stands in the way.                                                       *)
EnforceLimit(a) ==
    /\ edits < MaxEdits
    /\ account' = [account EXCEPT ![a].overLimit = ~@]
    /\ start' = [t \in DOMAIN start |->
                    [start[t] EXCEPT !.relimited = @ \cup {a}]]
    /\ edits' = edits + 1
    /\ UNCHANGED <<node, job, agent, transfer, reserved, faults>>

(* Render: allowed at any time, it only adds a version.                     *)
RenderConfig(n) ==
    LET versions == WithVersion(node[n].versions, Content(account, transfer, n, FALSE))
    IN  /\ versions # node[n].versions
        /\ Len(versions) <= MaxVersions
        /\ node' = [node EXCEPT ![n].versions = versions]
        /\ UNCHANGED <<account, job, agent, transfer, reserved, edits, faults, start>>

(* Apply (of a validated version) and Reapply (of one applied before).      *)
ApplyConfig(n, v) ==
    /\ Len(job) < MaxJobs
    /\ v \in DOMAIN node[n].versions
    /\ SafeForApply(node[n].versions[v])
    /\ NodeGuard(n, 0)
    /\ job' = Append(job, [node |-> n, version |-> v, owner |-> 0, status |-> "pending"])
    /\ UNCHANGED <<account, node, agent, transfer, reserved, edits, faults, start>>

-----------------------------------------------------------------------------
(* The transfer service *)

(* queue(): render node n as the transfer now stands, pin the version and   *)
(* append the apply job.  acc, trs, nodes and jobs are the rows as the      *)
(* transaction sees them at that point.                                     *)
Queue(acc, trs, nodes, jobs, n, cleanup, t) ==
    LET versions == WithVersion(nodes[n].versions, Content(acc, trs, n, cleanup))
        j == Len(jobs) + 1
        row == IF cleanup
               THEN [trs[t] EXCEPT !.cleanupVersion = Len(versions), !.cleanupJob = j]
               ELSE [trs[t] EXCEPT !.targetVersion = Len(versions), !.targetJob = j,
                                   !.state = "target_applying"]
    IN  /\ SafeForApply(versions[Len(versions)])
        /\ Len(versions) <= MaxVersions
        /\ j <= MaxJobs
        /\ account' = acc
        /\ node' = [nodes EXCEPT ![n].versions = versions]
        /\ job' = Append(jobs, [node |-> n, version |-> Len(versions), owner |-> t,
                                status |-> "pending"])
        /\ transfer' = [trs EXCEPT ![t] = row]

(* StartInTransaction.  An active transfer of the account is returned as it *)
(* is, or refuses; both nodes must be idle, unreserved and up to date.  The *)
(* baseline checks render, and so may add a version, before the target is   *)
(* rendered with the account.                                               *)
Start(a, target) ==
    LET source == account[a].server
        t == Len(transfer) + 1
        baseline == [n \in Nodes |->
            IF n \in {source, target}
            THEN [node[n] EXCEPT !.versions = WithVersion(@, Content(account, transfer, n, FALSE))]
            ELSE node[n]]
        row == [account |-> a, source |-> source, target |-> target,
                sourceVersion |-> node[source].active, targetVersion |-> 0, targetJob |-> 0,
                cleanupVersion |-> 0, cleanupJob |-> 0, cutover |-> FALSE, state |-> "preparing"]
    IN  /\ Len(transfer) < MaxTransfers
        /\ \A s \in DOMAIN transfer : transfer[s].account = a => ~Active(s)
        /\ source # target
        /\ AccountEligible(a)
        /\ \A n \in {source, target} :
            reserved[n] = 0 /\ OpenJobs(n) = {} /\ CheckBaseline(n)
        /\ node[source].active # 0
        /\ a \in ActiveVersion(source).accounts \ ActiveVersion(source).outdated
        /\ Len(baseline[source].versions) <= MaxVersions
        /\ Queue(account, Append(transfer, row), baseline, job, target, FALSE, t)
        /\ reserved' = [reserved EXCEPT ![source] = t, ![target] = t]
        /\ start' = Append(start,
                [served |-> a \in node[source].running,
                 others |-> [n \in Nodes |-> IF node[n].active = 0 THEN {}
                                             ELSE ActiveVersion(n).accounts \ {a}],
                 relimited |-> {}])
        /\ UNCHANGED <<agent, edits, faults>>

(* The evidence that verify, cutover and cleanup ask for again each time.   *)
TargetProved(t) ==
    LET tr == transfer[t]
    IN  /\ AppliedProof(tr.target, tr.targetVersion, tr.targetJob)
        /\ Membership(tr.target, tr.targetVersion, tr.account, TRUE)

CanVerify(t) ==
    /\ transfer[t].state = "target_applying"
    /\ AccountEligible(transfer[t].account)
    /\ TargetProved(t)

Verify(t) ==
    /\ CanVerify(t)
    /\ transfer' = [transfer EXCEPT ![t].state = "target_ready"]
    /\ UNCHANGED <<account, node, job, agent, reserved, edits, faults, start>>

CanCutover(t) ==
    LET tr == transfer[t]
    IN  /\ tr.state = "target_ready"
        /\ account[tr.account].server = tr.source
        /\ AccountEligible(tr.account)
        /\ TargetProved(t)
        /\ Membership(tr.source, tr.sourceVersion, tr.account, TRUE)

Cutover(t) ==
    /\ CanCutover(t)
    /\ account' = [account EXCEPT ![transfer[t].account].server = transfer[t].target]
    /\ transfer' = [transfer EXCEPT ![t].state = "client_refresh_pending", ![t].cutover = TRUE]
    /\ UNCHANGED <<node, job, agent, reserved, edits, faults, start>>

CanCleanup(t) ==
    LET tr == transfer[t]
    IN  /\ tr.state = "client_refresh_pending"
        /\ account[tr.account].server = tr.target
        /\ TargetProved(t)

(* cleanup: the administrator confirmed that the clients moved.             *)
Cleanup(t) ==
    LET cleaning == [transfer EXCEPT ![t].state = "source_cleaning"]
    IN  /\ CanCleanup(t)
        /\ Queue(account, cleaning, node, job, transfer[t].source, TRUE, t)
        /\ UNCHANGED <<agent, reserved, edits, faults, start>>

CanRollback(t) ==
    LET tr == transfer[t]
    IN  /\ tr.state \in {"target_applying", "target_ready", "client_refresh_pending"}
        /\ job[tr.targetJob].status # "in_progress"
        /\ Membership(tr.source, tr.sourceVersion, tr.account, TRUE)

(* rollback: a job no Agent has claimed yet is cancelled with it.           *)
Cancelled(jobs, j) ==
    IF jobs[j].status = "pending" THEN [jobs EXCEPT ![j].status = "failed"] ELSE jobs

Rollback(t) ==
    LET tr == transfer[t]
        back == [account EXCEPT ![tr.account].server = tr.source]
        cleaning == [transfer EXCEPT ![t].state = "target_cleaning"]
    IN  /\ CanRollback(t)
        /\ Queue(back, cleaning, node, Cancelled(job, tr.targetJob), tr.target, TRUE, t)
        /\ UNCHANGED <<agent, reserved, edits, faults, start>>

CleaningNode(t) ==
    IF transfer[t].state = "source_cleaning" THEN transfer[t].source ELSE transfer[t].target

CanFinish(t) ==
    LET tr == transfer[t]
    IN  /\ tr.state \in {"source_cleaning", "target_cleaning"}
        /\ AppliedProof(CleaningNode(t), tr.cleanupVersion, tr.cleanupJob)
        /\ Membership(CleaningNode(t), tr.cleanupVersion, tr.account, FALSE)

Finish(t) ==
    /\ CanFinish(t)
    /\ transfer' = [transfer EXCEPT ![t].state =
                        CASE @ = "source_cleaning" -> "complete"
                          [] @ = "target_cleaning" /\ transfer[t].cutover -> "rolled_back"
                          [] OTHER -> "cancelled"]
    /\ reserved' = [n \in Nodes |-> IF reserved[n] = t THEN 0 ELSE reserved[n]]
    /\ UNCHANGED <<account, node, job, agent, edits, faults, start>>

(* retry: only a job that ended in failure is queued again.                 *)
CurrentJob(t) ==
    IF transfer[t].state \in {"source_cleaning", "target_cleaning"}
    THEN transfer[t].cleanupJob ELSE transfer[t].targetJob

CanRetry(t) ==
    /\ transfer[t].state \in {"target_applying", "source_cleaning", "target_cleaning"}
    /\ job[CurrentJob(t)].status = "failed"

Retry(t) ==
    LET cleanup == transfer[t].state # "target_applying"
        n == IF cleanup THEN CleaningNode(t) ELSE transfer[t].target
    IN  /\ CanRetry(t)
        /\ Queue(account, transfer, node, job, n, cleanup, t)
        /\ UNCHANGED <<agent, reserved, edits, faults, start>>

-----------------------------------------------------------------------------
(* The Agents *)

(* ClaimNextConfigTask: the oldest pending job of the node.                 *)
Claim(n) ==
    \E j \in DOMAIN job :
        /\ agent[n] = None
        /\ job[j].node = n /\ job[j].status = "pending"
        /\ \A i \in 1 .. j - 1 : ~(job[i].node = n /\ job[i].status = "pending")
        /\ job' = [job EXCEPT ![j].status = "in_progress"]
        /\ agent' = [agent EXCEPT ![n] = [job |-> j, stage |-> "applying"]]
        /\ UNCHANGED <<account, node, transfer, reserved, edits, faults, start>>

Staged(n) == node[n].versions[job[agent[n].job].version].accounts

(* The runtime is promoted, restarted and found listening.                  *)
ApplySucceeds(n) ==
    /\ agent[n] # None /\ agent[n].stage = "applying"
    /\ node' = [node EXCEPT ![n].running = Staged(n)]
    /\ agent' = [agent EXCEPT ![n].stage = "succeeded"]
    /\ UNCHANGED <<account, job, transfer, reserved, edits, faults, start>>

(* An apply that fails rolls back; when that fails too the node keeps the   *)
(* new configuration or serves nobody.                                      *)
ApplyFails(n) ==
    /\ agent[n] # None /\ agent[n].stage = "applying"
    /\ faults < MaxFaults
    /\ faults' = faults + 1
    /\ \E left \in {node[n].running, Staged(n), {}} :
        node' = [node EXCEPT ![n].running = left]
    /\ agent' = [agent EXCEPT ![n].stage = "failed"]
    /\ UNCHANGED <<account, job, transfer, reserved, edits, start>>

(* Mutant: the outcome of the apply is not looked at.                       *)
Report_Optimistic(n) ==
    /\ agent[n] # None /\ agent[n].stage \in {"succeeded", "failed"}
    /\ LET j == agent[n].job
       IN  /\ job[j].status = "in_progress"
           /\ job' = [job EXCEPT ![j].status = "succeeded"]
           /\ node' = [node EXCEPT ![n].active = job[j].version]
    /\ agent' = [agent EXCEPT ![n] = None]
    /\ UNCHANGED <<account, transfer, reserved, edits, faults, start>>

(* CompleteConfigTask, with the triggers that make the version the node's   *)
(* active one.                                                              *)
Report(n) ==
    /\ agent[n] # None /\ agent[n].stage \in {"succeeded", "failed"}
    /\ LET j == agent[n].job
       IN  /\ job[j].status = "in_progress"
           /\ job' = [job EXCEPT ![j].status = agent[n].stage]
           /\ node' = IF agent[n].stage = "succeeded"
                      THEN [node EXCEPT ![n].active = job[j].version] ELSE node
    /\ agent' = [agent EXCEPT ![n] = None]
    /\ UNCHANGED <<account, transfer, reserved, edits, faults, start>>

(* The Agent stops with a job in its hands: at any point of the apply, or   *)
(* with a result that never reaches Manager.                                *)
AgentLost(n) ==
    /\ agent[n] # None
    /\ faults < MaxFaults
    /\ faults' = faults + 1
    /\ agent' = [agent EXCEPT ![n] = None]
    /\ \E left \in IF agent[n].stage = "applying"
                   THEN {node[n].running, Staged(n), {}} ELSE {node[n].running} :
        node' = [node EXCEPT ![n].running = left]
    /\ UNCHANGED <<account, job, transfer, reserved, edits, start>>

(* A later heartbeat, sent by an Agent with nothing in its hands, closes    *)
(* the jobs that were never reported.                                       *)
(* Mutant: only the newest job is looked at.                                *)
Orphans_LastOnly(n) ==
    {j \in DOMAIN job : job[j].node = n /\ job[j].status = "in_progress" /\ j = Len(job)}

Orphans(n) == {j \in DOMAIN job : job[j].node = n /\ job[j].status = "in_progress"}

CloseOrphans(n) ==
    /\ agent[n] = None
    /\ Orphans(n) # {}
    /\ job' = [j \in DOMAIN job |->
                IF j \in Orphans(n) THEN [job[j] EXCEPT !.status = "failed"] ELSE job[j]]
    /\ UNCHANGED <<account, node, agent, transfer, reserved, edits, faults, start>>

-----------------------------------------------------------------------------
Admin ==
    \/ \E a \in Accounts : SetStatus(a)
    \/ \E a \in Accounts, n \in Nodes : Assign(a, n)
    \/ \E a \in Accounts : EnforceLimit(a)
    \/ \E n \in Nodes : RenderConfig(n)
    \/ \E n \in Nodes, v \in Versions : ApplyConfig(n, v)

Operate ==
    \/ \E a \in Accounts, n \in Nodes : Start(a, n)
    \/ \E t \in DOMAIN transfer :
        Verify(t) \/ Cutover(t) \/ Cleanup(t) \/ Rollback(t) \/ Finish(t) \/ Retry(t)

AgentStep(n) == Claim(n) \/ ApplySucceeds(n) \/ Report(n) \/ CloseOrphans(n)

Next ==
    \/ Admin
    \/ Operate
    \/ \E n \in Nodes : AgentStep(n) \/ ApplyFails(n) \/ AgentLost(n)

Spec == Init /\ [][Next]_vars

(* The Agent's loop runs on: it heartbeats, claims, applies and reports.    *)
FairSpec == Spec /\ \A n \in Nodes : WF_vars(AgentStep(n))

-----------------------------------------------------------------------------
(* Properties *)

(* Every variable has the shape its table or structure gives it, jobs and   *)
(* active versions name versions that exist, and a claimed job is in        *)
(* progress for as long as its Agent works on it (config_apply_jobs,        *)
(* servers.active_config_version_id, vpn_account_transfers).                *)
TypeOK ==
    /\ account \in [Accounts -> [server : Nodes, enabled : BOOLEAN, overLimit : BOOLEAN]]
    /\ \A n \in Nodes :
        /\ node[n].versions \in Seq(Version) /\ Len(node[n].versions) <= MaxVersions
        /\ node[n].active \in 0 .. Len(node[n].versions)
        /\ node[n].running \subseteq Accounts
        /\ reserved[n] \in 0 .. Len(transfer)
        /\ agent[n] # None =>
            /\ agent[n].stage \in {"applying", "succeeded", "failed"}
            /\ job[agent[n].job].node = n /\ job[agent[n].job].status = "in_progress"
    /\ job \in Seq(Job) /\ Len(job) <= MaxJobs
    /\ \A j \in DOMAIN job : job[j].version <= Len(node[job[j].node].versions)
    /\ transfer \in Seq(Transfer) /\ Len(transfer) <= MaxTransfers
    /\ edits \in 0 .. MaxEdits /\ faults \in 0 .. MaxFaults

(* A transfer never costs the account its access: if the source really      *)
(* served it when the transfer began, then in every state of the transfer   *)
(* the node its subscription points to really serves it, whatever applies   *)
(* fail, Agents crash, reports get lost and other administrators do; and    *)
(* between cutover and the end of the source's cleanup the target serves it *)
(* unconditionally (Act's cutover, cleanup and rollback, the reservation).  *)
AccessNeverLost ==
    \A t \in DOMAIN transfer :
        LET tr == transfer[t]
        IN  /\ Active(t) /\ start[t].served =>
                 tr.account \in node[account[tr.account].server].running
            /\ tr.state \in {"client_refresh_pending", "source_cleaning"} =>
                 tr.account \in node[tr.target].running

(* A transfer that is over has withdrawn the account: in the step that ends *)
(* it the node it leaves no longer lets the account in, for real and not    *)
(* only in Manager's books (Act's finish: appliedProof and membership).     *)
WithdrawnAtTheEnd ==
    [][\A t \in DOMAIN transfer :
        Active(t) /\ ~Active(t)' =>
            transfer[t].account \notin node'[CleaningNode(t)].running]_vars

(* No job of a transfer deploys anything but the transfer: what it applies  *)
(* on either node differs from what was deployed there when the transfer    *)
(* began only in the account that moves and in accounts whose traffic limit *)
(* was reached or lifted since (checkBaseline, the account guard).          *)
BystandersUntouched ==
    \A j \in DOMAIN job : job[j].owner # 0 =>
        LET t == job[j].owner
            deployed == node[job[j].node].versions[job[j].version].accounts
            before == start[t].others[job[j].node]
        IN  Active(t) => (deployed \ before) \cup (before \ deployed)
                            \subseteq {transfer[t].account} \cup start[t].relimited

(* While a node is reserved nothing but its transfer's own step is queued   *)
(* or in progress on it, and never two steps at once: repeated clicks,      *)
(* retries and other administrators queue no duplicate work                 *)
(* (routegate_transfer_job_guard, the busy check of Start, retry's guard).  *)
ReservationHolds ==
    \A n \in Nodes :
        reserved[n] # 0 =>
            /\ Cardinality(OpenJobs(n)) <= 1
            /\ \A j \in OpenJobs(n) : j = CurrentJob(reserved[n])

(* A transfer is never stuck: unless its job is still open, some step of it *)
(* is allowed, so the reservation of its two nodes can always be ended      *)
(* (the guards of verify, cutover, cleanup, rollback, finish and retry).    *)
NeverWedged ==
    \A t \in DOMAIN transfer : Active(t) =>
        \/ job[CurrentJob(t)].status \in {"pending", "in_progress"}
        \/ CanVerify(t) \/ CanCutover(t) \/ CanCleanup(t) \/ CanRollback(t)
        \/ CanFinish(t)
        \/ CanRetry(t) /\ transfer[t].state # "target_applying"

(* Every configuration job ends: an Agent that crashed or whose report was  *)
(* lost leaves no job in progress for good, and no pending job is starved   *)
(* (ClaimNextConfigTask, the orphan rule of the heartbeat).                 *)
JobsSettle ==
    \A j \in Jobs :
        (j \in DOMAIN job /\ job[j].status \in {"pending", "in_progress"})
            ~> (j \in DOMAIN job /\ job[j].status \in {"succeeded", "failed"})

(* "Bulk/manual API reassignment of deployed accounts is rejected"          *)
(* (docs/guides/safe-account-transfer.md): an account that its node really  *)
(* serves changes node only by a transfer's step.  It does not hold         *)
(* (README, section 4).                                                     *)
ReassignedOnlyByTransfer ==
    [][\A a \in Accounts :
        account[a].server # account'[a].server /\ transfer = transfer' =>
            a \notin node[account[a].server].running]_vars
=============================================================================
