------------------------------ MODULE Rollout ------------------------------
(***************************************************************************)
(* Platform-update rollouts of the Manager (backend/internal/agents,       *)
(* platform_update_rollout_*.go) over several VPN nodes: an administrator  *)
(* persists an ordered plan, and repeated "advance" requests admit one     *)
(* node update at a time and move past it only on durable proof of health. *)
(*                                                                         *)
(* One step is one transaction (they are serialised by the global          *)
(* admission lock), one event of a node, or one heartbeat request.         *)
(* The life of a node's update job is the outside view of PlatformUpdate:  *)
(* it is claimed, may install its version, and gets a terminal status that *)
(* is "succeeded" only if the version was installed.  Direct updates,      *)
(* created outside every rollout, compete for the same nodes.              *)
(***************************************************************************)
EXTENDS Naturals, Sequences, FiniteSets

CONSTANTS
    Rollouts,       \* rollouts, each the one its idempotency key created
    Servers,        \* VPN nodes
    Versions,       \* RouteGate versions
    Compatible,     \* Agent versions EvaluateCompatibility accepts
    Plans,          \* the ordered server lists an administrator may request
    Callers,        \* concurrent "advance" requests
    NoCall,         \* "no request is being handled"
    MaxDisruptions  \* bound on direct updates, registrations, Manager restarts,
                    \* nodes becoming unready, delayed and missing heartbeats

ASSUME RolloutAssumption ==
    /\ Compatible \subseteq Versions
    /\ Plans \subseteq Seq(Servers)
    /\ \A p \in Plans : p # <<>> /\ \A i, j \in DOMAIN p : p[i] = p[j] => i = j
    /\ MaxDisruptions \in Nat

VARIABLES
    rstatus,    \* platform_update_rollouts.status; "absent" before the insert
    target,     \* its target_version
    plan,       \* its servers by position
    entry,      \* platform_update_rollout_entries.status; "none" for non-members
    observed,   \* observed_update_job_count
    bound,      \* platform_update_job_id as an index into jobs[s]; 0 is NULL
    jobs,       \* agent_platform_update_jobs of the node, oldest first
    aver,       \* agents.agent_version
    gen,        \* agents.credential_generation
    hb,         \* last_authenticated_heartbeat_at: none, older than 2 minutes, fresh
    after,      \* the jobs that were terminal when that heartbeat arrived
    ready,      \* server not disabled and Agent reports the update capability
    mver,       \* version of the running Manager
    host,       \* version installed on the node
    net,        \* heartbeat requests that are delayed on their way
    call,       \* what each "advance" request decided to do
    disruptions

rollouts == <<rstatus, target, plan, entry, observed, bound>>
agents   == <<aver, gen, hb, after, ready>>
vars     == <<rollouts, jobs, agents, mver, host, net, call, disruptions>>

(***************************************************************************)
(* Vocabulary                                                              *)
(***************************************************************************)
EndStatuses     == {"succeeded", "failed", "outcome_unknown"}
RolloutStatuses == {"absent", "pending", "running"} \cup EndStatuses
EntryStatuses   == {"none", "queued", "skipped", "updating", "healthy",
                    "failed", "outcome_unknown"}

\* Job rows.  "claimed", "applied" (the node has installed the version and has
\* not reported it) and "lost" (the receipt went with a replaced host) are all
\* in_progress or mutation_dispatched in the table.
ActiveJob   == {"pending", "claimed", "applied", "lost"}
Unresolved  == ActiveJob \cup {"outcome_unknown"}
JobRecords  == [ver: Versions, status: ActiveJob \cup EndStatuses]
Heartbeats  == [server: Servers, ver: Versions, gen: Nat]

Calls == [op: {"health", "admit"}, rollout: Rollouts] \cup {NoCall}

Disruption == disruptions < MaxDisruptions /\ disruptions' = disruptions + 1

(***************************************************************************)
(* Plans and entries                                                       *)
(***************************************************************************)
Position(r, s) == CHOOSE i \in DOMAIN plan[r] : plan[r][i] = s
Members(r)     == {plan[r][i] : i \in DOMAIN plan[r]}
Prior(r, s)    == {t \in Members(r) : Position(r, t) < Position(r, s)}

\* rolloutMayAdvancePastEntry
Passed      == {"none", "healthy", "skipped"}
Finished(e) == \A s \in Servers : e[s] \in Passed
Updating(r) == {s \in Servers : entry[r][s] = "updating"}

\* The rows the admission query can return.
Admissible(r) ==
    {s \in Members(r) : entry[r][s] = "queued" /\ \A t \in Prior(r, s) : entry[r][t] \in Passed}

Interlock(s) == \E i \in DOMAIN jobs[s] : jobs[s][i].status \in Unresolved

\* revalidatePlatformUpdateRolloutEntry: no blockers.
Eligible(s, v) ==
    /\ mver = v
    /\ ready[s]
    /\ aver[s] \in Compatible
    /\ ~Interlock(s)

\* PersistPlatformUpdateRolloutPlanIdempotent: one transaction that snapshots
\* eligibility and the length of every node's update history.  A repeated key
\* changes nothing.
PersistPlan(r, v, p) ==
    LET members == {p[i] : i \in DOMAIN p} IN
    /\ rstatus[r] = "absent"
    /\ rstatus' = [rstatus EXCEPT ![r] = "pending"]
    /\ target' = [target EXCEPT ![r] = v]
    /\ plan' = [plan EXCEPT ![r] = p]
    /\ entry' = [entry EXCEPT ![r] =
          [s \in Servers |-> IF s \notin members THEN "none"
                             ELSE IF Eligible(s, v) THEN "queued" ELSE "skipped"]]
    /\ observed' = [observed EXCEPT ![r] =
          [s \in Servers |-> IF s \in members THEN Len(jobs[s]) ELSE 0]]
    /\ UNCHANGED <<bound, jobs, agents, mver, host, net, call, disruptions>>

(***************************************************************************)
(* Advance: an unlocked look at the rollout, then one transaction          *)
(***************************************************************************)
\* inspectPlatformUpdateRolloutStepState and the choice made from it.
Inspect(c, r) ==
    /\ call[c] = NoCall
    /\ rstatus[r] \in {"pending", "running"}
    /\ call' = [call EXCEPT ![c] =
          [op |-> IF rstatus[r] = "running" /\ Updating(r) # {} THEN "health" ELSE "admit",
           rollout |-> r]]
    /\ UNCHANGED <<rollouts, jobs, agents, mver, host, net, disruptions>>

SetRollout(r, st) == rstatus' = [rstatus EXCEPT ![r] = st]

\* createPlatformUpdateJobTx
CanCreateJob(s) == ready[s] /\ ~Interlock(s)
AppendJob(s, v) == jobs' = [jobs EXCEPT ![s] = Append(@, [ver |-> v, status |-> "pending"])]

\* Mutation: the watermark is not compared.
HistoryUnchanged_NotCompared(r, s) == TRUE

\* No update of the node was recorded since the plan was made.
HistoryUnchanged(r, s) == Len(jobs[s]) = observed[r][s]

\* The node's own update is created and bound in the same transaction; a
\* refused one stops the rollout for good.
AdmitEntry(r, s) ==
    IF HistoryUnchanged(r, s) /\ CanCreateJob(s)
    THEN /\ AppendJob(s, target[r])
         /\ entry' = [entry EXCEPT ![r][s] = "updating"]
         /\ bound' = [bound EXCEPT ![r][s] = Len(jobs[s]) + 1]
         /\ SetRollout(r, "running")
    ELSE SetRollout(r, "failed") /\ UNCHANGED <<entry, bound, jobs>>

\* The Manager must still be at the target version when a node is admitted.
ManagementFirst(r) == mver = target[r]

\* admitPlatformUpdateRolloutMutation, its outcomes in the order of the code.
AdmitTransaction(r) ==
    IF rstatus[r] \notin {"pending", "running"} \/ (rstatus[r] = "running" /\ Updating(r) # {})
    THEN UNCHANGED <<rstatus, entry, bound, jobs>>
    ELSE IF Finished(entry[r])
    THEN SetRollout(r, "succeeded") /\ UNCHANGED <<entry, bound, jobs>>
    ELSE IF ~ManagementFirst(r)
    THEN SetRollout(r, "failed") /\ UNCHANGED <<entry, bound, jobs>>
    ELSE \/ \E s \in Admissible(r) : AdmitEntry(r, s)
         \/ Admissible(r) = {} /\ UNCHANGED <<rstatus, entry, bound, jobs>>

Admit(c) ==
    /\ call[c] # NoCall /\ call[c].op = "admit"
    /\ AdmitTransaction(call[c].rollout)
    /\ call' = [call EXCEPT ![c] = NoCall]
    /\ UNCHANGED <<target, plan, observed, agents, mver, host, net, disruptions>>

\* terminalizePlatformUpdateRolloutHealthTx
Terminalize(r, s, st) ==
    /\ entry' = [entry EXCEPT ![r][s] = st]
    /\ SetRollout(r, st)

\* Mutation: the first healthy node completes the rollout.
CompleteIfFinished_Always(r) == SetRollout(r, "succeeded")

\* completePlatformUpdateRolloutIfFinishedTx, on the entries as they will be.
CompleteIfFinished(r) ==
    rstatus' = [rstatus EXCEPT ![r] = IF Finished(entry'[r]) THEN "succeeded" ELSE @]

\* Mutation: other updates of the node do not matter.
HistoryIsOurs_NotCompared(r, s) == TRUE

\* The bound job is still the only one since the plan.
HistoryIsOurs(r, s) == Len(jobs[s]) = observed[r][s] + 1

\* Mutation: the comparison with completed_at is the wrong way round.
HeartbeatProves_Before(s, k) == hb[s] = "fresh" /\ k \notin after[s]

\* A fresh heartbeat of the current credential that arrived after job k ended.
HeartbeatProves(s, k) == hb[s] = "fresh" /\ k \in after[s]

\* Online (a heartbeat since registration), at the target, compatible.
AgentProves(s, v) == hb[s] # "none" /\ aver[s] = v /\ aver[s] \in Compatible

\* What the bound job's status and the proof say about an updating entry.
JudgeEntry(r, s) ==
    LET k  == bound[r][s]
        st == jobs[s][k].status
    IN
    \/ st \in ActiveJob /\ UNCHANGED <<rstatus, entry>>
    \/ st \in {"failed", "outcome_unknown"} /\ Terminalize(r, s, st)
    \/ /\ st = "succeeded"
       /\ IF ~HistoryIsOurs(r, s)
          THEN Terminalize(r, s, "failed")
          ELSE IF ~Interlock(s) /\ HeartbeatProves(s, k) /\ AgentProves(s, target[r])
          THEN entry' = [entry EXCEPT ![r][s] = "healthy"] /\ CompleteIfFinished(r)
          ELSE UNCHANGED <<rstatus, entry>>

\* ReconcilePlatformUpdateRolloutHealth
HealthTransaction(r) ==
    IF rstatus[r] # "running"
    THEN UNCHANGED <<rstatus, entry>>
    ELSE IF Updating(r) = {}
    THEN UNCHANGED entry /\ CompleteIfFinished(r)
    ELSE \E s \in Updating(r) : JudgeEntry(r, s)

Health(c) ==
    /\ call[c] # NoCall /\ call[c].op = "health"
    /\ HealthTransaction(call[c].rollout)
    /\ call' = [call EXCEPT ![c] = NoCall]
    /\ UNCHANGED <<target, plan, observed, bound, jobs, agents, mver, host, net, disruptions>>

(***************************************************************************)
(* Node update jobs                                                        *)
(***************************************************************************)
\* POST platform-updates for one node.
CreateDirectUpdate(s, v) ==
    /\ CanCreateJob(s)
    /\ AppendJob(s, v)
    /\ Disruption
    /\ UNCHANGED <<rollouts, agents, mver, host, net, call>>

SetJob(s, k, st) == jobs' = [jobs EXCEPT ![s][k].status = st]

ClaimJob(s, k) ==
    /\ jobs[s][k].status = "pending"
    /\ SetJob(s, k, "claimed")
    /\ UNCHANGED <<rollouts, agents, mver, host, net, call, disruptions>>

\* External: the verified updater replaces the installed release.
JobInstalls(s, k) ==
    /\ jobs[s][k].status = "claimed"
    /\ SetJob(s, k, "applied")
    /\ host' = [host EXCEPT ![s] = jobs[s][k].ver]
    /\ UNCHANGED <<rollouts, agents, mver, net, call, disruptions>>

\* The Manager stores the node's report (PlatformUpdate!VerdictMatchesHost);
\* a job that never got a receipt stays in_progress.
CompleteJob(s, k, st) ==
    /\ \/ st = "succeeded" /\ jobs[s][k].status = "applied"
       \/ st = "failed" /\ jobs[s][k].status = "claimed"
       \/ st = "outcome_unknown" /\ jobs[s][k].status \in {"claimed", "applied"}
    /\ SetJob(s, k, st)
    /\ UNCHANGED <<rollouts, agents, mver, host, net, call, disruptions>>

(***************************************************************************)
(* Agents                                                                  *)
(***************************************************************************)
HeartbeatOf(s) == [server |-> s, ver |-> host[s], gen |-> gen[s]]

EndedJobs(s) == {k \in DOMAIN jobs[s] : jobs[s][k].status \in EndStatuses}

\* The heartbeat's bearer token is the node's current one.
Authenticates(m) == m.gen = gen[m.server]

\* UpdateAgentHeartbeat; a heartbeat also re-activates a disabled server.
UpdateAgentHeartbeat(m) ==
    LET s == m.server IN
    /\ IF Authenticates(m)
       THEN /\ aver' = [aver EXCEPT ![s] = m.ver]
            /\ hb' = [hb EXCEPT ![s] = "fresh"]
            /\ after' = [after EXCEPT ![s] = EndedJobs(s)]
            /\ ready' = [ready EXCEPT ![s] = TRUE]
            /\ UNCHANGED gen
       ELSE UNCHANGED agents
    /\ UNCHANGED <<rollouts, jobs, mver, host, call, disruptions>>

Heartbeat(s) == UpdateAgentHeartbeat(HeartbeatOf(s)) /\ UNCHANGED net

\* A heartbeat is delayed, and handled when the node may have moved on.
DelayHeartbeat(s) ==
    /\ net' = net \cup {HeartbeatOf(s)}
    /\ Disruption
    /\ UNCHANGED <<rollouts, jobs, agents, mver, host, call>>

LateHeartbeat(m) == m \in net /\ net' = net \ {m} /\ UpdateAgentHeartbeat(m)

\* What a registration does to the jobs the node had in hand: they stay with
\* the machine that holds the receipts.
JobsAfter(s, replaced) ==
    [k \in DOMAIN jobs[s] |->
        IF replaced /\ jobs[s][k].status \in {"claimed", "applied"}
        THEN [jobs[s][k] EXCEPT !.status = "lost"]
        ELSE jobs[s][k]]

NextGeneration(s) == gen[s] + 1

\* CreateOrReplaceAgentForServer: the same host, or a new one at version v,
\* registers and gets a new credential.
Register(s, v, replaced) ==
    /\ ~replaced => v = host[s]
    /\ host' = [host EXCEPT ![s] = v]
    /\ aver' = [aver EXCEPT ![s] = v]
    /\ gen' = [gen EXCEPT ![s] = NextGeneration(s)]
    /\ hb' = [hb EXCEPT ![s] = "none"]
    /\ after' = [after EXCEPT ![s] = {}]
    /\ ready' = [ready EXCEPT ![s] = TRUE]
    /\ jobs' = [jobs EXCEPT ![s] = JobsAfter(s, replaced)]
    /\ Disruption
    /\ UNCHANGED <<rollouts, mver, net, call>>

\* Two minutes pass without a heartbeat.
HeartbeatAges(s) ==
    /\ hb[s] = "fresh"
    /\ hb' = [hb EXCEPT ![s] = "stale"]
    /\ Disruption
    /\ UNCHANGED <<rollouts, jobs, aver, gen, after, ready, mver, host, net, call>>

\* The server is disabled, or the Agent no longer reports the capability.
NodeUnready(s) ==
    /\ ready[s]
    /\ ready' = [ready EXCEPT ![s] = FALSE]
    /\ Disruption
    /\ UNCHANGED <<rollouts, jobs, aver, gen, hb, after, mver, host, net, call>>

\* The Manager itself is updated (or rolled back) and restarts: requests that
\* were being handled are gone.
ManagerRestarts(v) ==
    /\ mver' = v
    /\ call' = [c \in Callers |-> NoCall]
    /\ Disruption
    /\ UNCHANGED <<rollouts, jobs, agents, host, net>>

(***************************************************************************)
(* Specification                                                           *)
(***************************************************************************)
Init ==
    /\ rstatus = [r \in Rollouts |-> "absent"]
    /\ plan = [r \in Rollouts |-> <<>>]
    /\ entry = [r \in Rollouts |-> [s \in Servers |-> "none"]]
    /\ observed = [r \in Rollouts |-> [s \in Servers |-> 0]]
    /\ bound = [r \in Rollouts |-> [s \in Servers |-> 0]]
    /\ jobs = [s \in Servers |-> <<>>]
    /\ host \in [Servers -> Versions]
    /\ aver = host
    /\ gen = [s \in Servers |-> 1]
    /\ hb = [s \in Servers |-> "fresh"]
    /\ after = [s \in Servers |-> {}]
    /\ ready = [s \in Servers |-> TRUE]
    /\ mver \in Versions
    /\ target = [r \in Rollouts |-> mver]
    /\ net = {}
    /\ call = [c \in Callers |-> NoCall]
    /\ disruptions = 0

JobStep(s) ==
    \E k \in DOMAIN jobs[s] :
        \/ ClaimJob(s, k) \/ JobInstalls(s, k)
        \/ \E st \in EndStatuses : CompleteJob(s, k, st)

Advance(c) == Admit(c) \/ Health(c)

Next ==
    \/ \E r \in Rollouts, v \in Versions, p \in Plans : PersistPlan(r, v, p)
    \/ \E c \in Callers, r \in Rollouts : Inspect(c, r)
    \/ \E c \in Callers : Advance(c)
    \/ \E s \in Servers : JobStep(s) \/ Heartbeat(s) \/ DelayHeartbeat(s)
                         \/ HeartbeatAges(s) \/ NodeUnready(s)
    \/ \E s \in Servers, v \in Versions :
          \/ CreateDirectUpdate(s, v)
          \/ \E replaced \in BOOLEAN : Register(s, v, replaced)
    \/ \E m \in net : LateHeartbeat(m)
    \/ \E v \in Versions : ManagerRestarts(v)

Spec == Init /\ [][Next]_vars

(***************************************************************************)
(* Fairness.  An administrator keeps pressing "advance" while a rollout is  *)
(* open (one request per press, RouteGate never advances by itself),       *)
(* handlers finish, Agents keep heartbeating and working on their jobs.     *)
(* Disruptions are bounded by MaxDisruptions and otherwise unconstrained.   *)
(***************************************************************************)
Fairness ==
    /\ \A c \in Callers : WF_vars(Advance(c))
    /\ \A c \in Callers, r \in Rollouts : WF_vars(Inspect(c, r))
    /\ \A s \in Servers : WF_vars(JobStep(s)) /\ WF_vars(Heartbeat(s))

FairSpec == Spec /\ Fairness

(***************************************************************************)
(* Properties                                                              *)
(***************************************************************************)
\* Every variable has the type its column, file or request has.
TypeOK ==
    /\ rstatus \in [Rollouts -> RolloutStatuses]
    /\ target \in [Rollouts -> Versions]
    /\ \A r \in Rollouts : plan[r] \in Plans \cup {<<>>}
    /\ entry \in [Rollouts -> [Servers -> EntryStatuses]]
    /\ observed \in [Rollouts -> [Servers -> Nat]]
    /\ bound \in [Rollouts -> [Servers -> Nat]]
    /\ jobs \in [Servers -> Seq(JobRecords)]
    /\ aver \in [Servers -> Versions]
    /\ gen \in [Servers -> Nat \ {0}]
    /\ hb \in [Servers -> {"none", "stale", "fresh"}]
    /\ after \in [Servers -> SUBSET Nat]
    /\ ready \in [Servers -> BOOLEAN]
    /\ mver \in Versions
    /\ host \in [Servers -> Versions]
    /\ net \subseteq Heartbeats
    /\ call \in [Callers -> Calls]
    /\ disruptions \in 0..MaxDisruptions

\* The update a rollout starts on a node is the first one since the plan was
\* made, and no two entries of any rollouts share a job: a direct update that
\* ran and ended in between is caught by the history watermark.
BoundJobIsFirstSincePlan ==
    \A r \in Rollouts, s \in Servers : bound[r][s] # 0 =>
        /\ bound[r][s] = observed[r][s] + 1
        /\ jobs[s][bound[r][s]].ver = target[r]
        /\ \A q \in Rollouts \ {r} : bound[q][s] # bound[r][s]

\* A node is declared healthy only while it really runs the target version,
\* although heartbeats arrive late, hosts are replaced and other updates
\* are requested for the same node.
HealthyNodeRunsTarget ==
    [][ \A r \in Rollouts, s \in Servers :
          entry[r][s] = "updating" /\ entry'[r][s] = "healthy" => host[s] = target[r] ]_vars

\* The only ways an open rollout can wait for ever: the machine that had the
\* update in hand, or had finished it, was replaced.
WaitsForReplacedHost(r) ==
    \E s \in Updating(r) : LET job == jobs[s][bound[r][s]] IN
        \/ job.status = "lost"
        \/ job.status = "succeeded" /\ host[s] # target[r]

\* A planned rollout ends, if an administrator keeps advancing it: waiting for a job,
\* a heartbeat or a healthy Agent always ends, unless the host was replaced.  A
\* target that EvaluateCompatibility refuses can never be proven healthy.
RolloutResolves ==
    \A r \in Rollouts :
        rstatus[r] = "pending" /\ target[r] \in Compatible
            ~> rstatus[r] \in EndStatuses \/ WaitsForReplacedHost(r)

\* The plan as an abstract sequence of node updates.
Abstract == INSTANCE SequentialRollout WITH
    order   <- plan,
    todo    <- [r \in Rollouts |-> {s \in Servers : entry[r][s] = "queued"}],
    current <- [r \in Rollouts |-> Updating(r)],
    proven  <- [r \in Rollouts |-> {s \in Servers : entry[r][s] = "healthy"}],
    verdict <- [r \in Rollouts |-> CASE rstatus[r] = "absent" -> "none"
                                       [] rstatus[r] \in {"pending", "running"} -> "open"
                                       [] OTHER -> rstatus[r]]

\* Admission and health reconciliation, interleaved in any way, implement the
\* sequential rollout.
ImplementsSequentialRollout == Abstract!Spec
=============================================================================
