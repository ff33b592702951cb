--------------------------- MODULE PlatformUpdate ---------------------------
(***************************************************************************)
(* The remote software update of ONE VPN node: the Manager's task queue    *)
(* for the node (agent_platform_update_jobs, agent_operation_jobs and      *)
(* config_apply_jobs), the node's Agent process(es) that poll it, the      *)
(* durable receipt the Agent keeps per update job, and the detached        *)
(* systemd unit that mutates the host.                                     *)
(*                                                                         *)
(* Manager  : backend/internal/agents                                      *)
(* Agent    : agent/internal/heartbeat, agent/internal/tasks               *)
(* External : systemd (unit[j]'s life) and the verified updater script     *)
(*            (effect[j], its exit status)                                 *)
(*                                                                         *)
(* One TLA+ step is one database transaction, one receipt-store access or  *)
(* one process event.  Requests to the Manager are processed late or never *)
(* (an HTTP client that timed out has moved on), and a claim whose answer  *)
(* is lost has still been committed.                                       *)
(***************************************************************************)
EXTENDS Naturals, FiniteSets

CONSTANTS
    Jobs,       \* identities of agent_platform_update_jobs rows of the node
    Ops,        \* identities of agent_operation_jobs rows
    Configs,    \* identities of config_apply_jobs rows
    Agents,     \* Agent processes that use the node's token and receipt directory
    None,       \* "no task"
    MaxFaults   \* bound on lost requests and answers, aborts, kills and reboots

Tasks == Ops \cup Configs

ASSUME ConstantsAssumption ==
    /\ MaxFaults \in Nat
    /\ Jobs \cap Tasks = {}
    /\ Ops \cap Configs = {}
    /\ None \notin Jobs \cup Tasks

VARIABLES
    status,       \* job row: status; "absent" before the row is inserted
    dispatched,   \* job row: dispatched_at IS NOT NULL
    fresh,        \* job row under reconciliation: updated_at is less than a second old
    task,         \* status of the ordinary task rows
    pc,           \* what each Agent process is doing
    cur,          \* the task it is doing it for
    mstatus,      \* task.Status the Manager sent with the task
    seen,         \* MutationStarted in the receipt it has read
    phase,        \* receipt: phase; "none" when the file does not exist
    started,      \* receipt: mutationStarted
    staged,       \* the stage directory of the job exists
    unit,         \* transient unit routegate-vpn-update-<job>, and its worker
    effect,       \* what the verified updater did to the host for the job
    launches,     \* how often the updater was started for the job
    net,          \* completion requests on their way to the Manager
    faults

manager == <<status, dispatched, fresh, task>>
agent   == <<pc, cur, mstatus, seen>>
receipt == <<phase, started>>
host    == <<staged, unit, effect, launches>>
vars    == <<manager, agent, receipt, host, net, faults>>

(***************************************************************************)
(* Vocabulary                                                              *)
(***************************************************************************)
JobStatuses    == {"absent", "pending", "in_progress", "mutation_dispatched",
                   "succeeded", "failed", "outcome_unknown"}
ActiveStatuses == {"pending", "in_progress", "mutation_dispatched"}
FinalStatuses  == {"succeeded", "failed", "outcome_unknown"}
TaskStatuses   == {"absent", "pending", "in_progress", "succeeded", "failed"}

Phases      == {"none", "prepared", "mutation_started",
                "succeeded", "failed", "outcome_unknown"}
FinalPhases == {"succeeded", "failed", "outcome_unknown"}

\* The dispatch handler before systemd-run was started, all of it, the
\* reconciliation handler, and every place an Agent process can be.
LaunchPcs    == {"prior", "prepare", "probe", "accept", "stage", "reaccept", "spawn"}
DispatchPcs  == LaunchPcs \cup {"ack"}
ReconcilePcs == {"read", "check", "mark"}
AgentPcs     == {"idle", "exec"} \cup DispatchPcs \cup ReconcilePcs

\* "queued": accepted by systemd, job not run yet; "gone": unit no longer loaded.
\* The worker states after the durable mutation boundary are the Crossed ones.
Crossed    == {"start", "updating", "mark_succeeded", "mark_failed", "mark_unknown"}
Running    == {"accept", "ready", "cross"} \cup Crossed
UnitStates == {"none", "queued", "gone"} \cup Running

Effects == {"none", "running", "applied", "reverted", "torn"}

Messages == [id: Jobs \cup Tasks, envelope: {"succeeded", "failed"},
             evidence: {"none", "pending", "mutation_dispatched"} \cup FinalStatuses]

(***************************************************************************)
(* Manager                                                                 *)
(***************************************************************************)
\* Mutation: the index without dispatched jobs.
Interlocked_MissesDispatched == {"pending", "in_progress", "outcome_unknown"}

\* idx_agent_platform_update_jobs_one_active_per_server: the statuses that
\* keep a second job of the node from being inserted.
Interlocked == ActiveStatuses \cup {"outcome_unknown"}

\* POST platform-updates, and the rollout's admission: createPlatformUpdateJobTx.
CreatePlatformUpdateJob(j) ==
    /\ status[j] = "absent"
    /\ \A k \in Jobs : status[k] \notin Interlocked
    /\ status' = [status EXCEPT ![j] = "pending"]
    /\ UNCHANGED <<dispatched, fresh, task, agent, receipt, host, net, faults>>

\* An ordinary operation or a config application is queued for the node.
CreateTask(t) ==
    /\ task[t] = "absent"
    /\ task' = [task EXCEPT ![t] = "pending"]
    /\ UNCHANGED <<status, dispatched, fresh, agent, receipt, host, net, faults>>

\* updated_at <= now() - interval '1 second'
ThrottleExpires(j) ==
    /\ fresh[j]
    /\ fresh' = [fresh EXCEPT ![j] = FALSE]
    /\ UNCHANGED <<status, dispatched, task, agent, receipt, host, net, faults>>

\* Mutations: dispatched jobs are not reconciled; only a job that was not handed
\* out yet holds ordinary operations back.
ReconcileDue_InProgressOnly  == {j \in Jobs : status[j] = "in_progress" /\ ~fresh[j]}
PlatformUpdateActive_Pending == \E j \in Jobs : status[j] = "pending"

\* The rows each query of ClaimNextAgentOperationTask selects, in its order.
ReconcileDue == {j \in Jobs : status[j] \in {"in_progress", "mutation_dispatched"} /\ ~fresh[j]}
DispatchDue  == {j \in Jobs : status[j] = "pending"}
PlatformUpdateActive == \E j \in Jobs : status[j] \in ActiveStatuses

OpDue(t) ==
    /\ t \in Ops
    /\ task[t] = "pending"
    /\ ReconcileDue = {} /\ DispatchDue = {}
    /\ ~PlatformUpdateActive

\* NextTask falls through to ClaimNextConfigTask whenever the operation query
\* returned no task, for whatever reason it returned none.
ConfigDue(t) ==
    /\ t \in Configs
    /\ task[t] = "pending"
    /\ ReconcileDue = {} /\ DispatchDue = {}
    /\ \A o \in Ops : ~OpDue(o)

\* The answer to a claim reaches the process that polls, or nobody.
Receive(a, id, at, st) ==
    /\ pc[a] = "idle"
    /\ pc' = [pc EXCEPT ![a] = at]
    /\ cur' = [cur EXCEPT ![a] = id]
    /\ mstatus' = [mstatus EXCEPT ![a] = st]
    /\ UNCHANGED <<seen, faults>>

AnswerLost ==
    /\ faults < MaxFaults
    /\ faults' = faults + 1
    /\ UNCHANGED agent

Answer(a, id, at, st) == Receive(a, id, at, st) \/ AnswerLost

\* Read-only task for an update that has already been handed out.
ClaimReconcile(a, j) ==
    /\ j \in ReconcileDue
    /\ fresh' = [fresh EXCEPT ![j] = TRUE]
    /\ Answer(a, j, "read", status[j])
    /\ UNCHANGED <<status, dispatched, task, receipt, host, net>>

\* The one mutation-capable claim.
ClaimDispatch(a, j) ==
    /\ ReconcileDue = {}
    /\ j \in DispatchDue
    /\ status' = [status EXCEPT ![j] = "in_progress"]
    /\ fresh' = [fresh EXCEPT ![j] = TRUE]
    /\ Answer(a, j, "prior", "in_progress")
    /\ UNCHANGED <<dispatched, task, receipt, host, net>>

ClaimTask(a, t) ==
    /\ OpDue(t) \/ ConfigDue(t)
    /\ task' = [task EXCEPT ![t] = "in_progress"]
    /\ Answer(a, t, "exec", "in_progress")
    /\ UNCHANGED <<status, dispatched, fresh, receipt, host, net>>

\* UpdateAgentHeartbeat closes ordinary tasks that have been in_progress for
\* more than five minutes when the (sequential) Agent heartbeats again.
HeartbeatClosesOrphan(a, t) ==
    /\ pc[a] = "idle"
    /\ task[t] = "in_progress"
    /\ task' = [task EXCEPT ![t] = "failed"]
    /\ UNCHANGED <<status, dispatched, fresh, agent, receipt, host, net, faults>>

\* The completions the Manager accepts for a job row in status st, in
\* completeInProgressPlatformUpdate and in the mutation_dispatched branch of
\* CompleteAgentOperationTask.
Accepts(st, m) ==
    \/ st = "in_progress" /\ m.envelope = "failed" /\ m.evidence = "failed"
    \/ st = "in_progress" /\ m.envelope = "succeeded"
    \/ st = "mutation_dispatched" /\ m.envelope = "succeeded"
                                 /\ m.evidence # "mutation_dispatched"

\* Terminal evidence is the new status; evidence that the update is still
\* under way promotes the row to mutation_dispatched.
CompletedStatus(m) ==
    IF m.evidence \in FinalStatuses THEN m.evidence ELSE "mutation_dispatched"

\* Only the failed envelope terminalises a job without dispatched_at.
SetsDispatched(m) == m.envelope = "succeeded"

CompletePlatformUpdate(m) ==
    LET j  == m.id
        ok == Accepts(status[j], m)
    IN
    /\ m \in net
    /\ j \in Jobs
    /\ status' = [status EXCEPT ![j] = IF ok THEN CompletedStatus(m) ELSE @]
    /\ dispatched' = [dispatched EXCEPT ![j] = @ \/ (ok /\ SetsDispatched(m))]
    /\ fresh' = [fresh EXCEPT ![j] = IF ok THEN m.evidence \notin FinalStatuses ELSE @]
    /\ net' = net \ {m}
    /\ UNCHANGED <<task, agent, receipt, host, faults>>

\* Ordinary rows complete from in_progress only; anything else is 404.
CompleteTask(m) ==
    /\ m \in net
    /\ m.id \in Tasks
    /\ task' = [task EXCEPT ![m.id] = IF @ = "in_progress" THEN m.envelope ELSE @]
    /\ net' = net \ {m}
    /\ UNCHANGED <<status, dispatched, fresh, agent, receipt, host, faults>>

(***************************************************************************)
(* The receipt store.  transition() holds the directory's flock from its   *)
(* read to its rename, so one transition is one step.                      *)
(***************************************************************************)
AllowedTransition(from, to) ==
    \/ from = "prepared" /\ to \in {"mutation_started", "failed"}
    \/ from = "mutation_started" /\ to \in FinalPhases

TransitionOk(j, to, mutated) ==
    /\ AllowedTransition(phase[j], to)
    /\ started[j] => mutated
    /\ to = "failed" => phase[j] = (IF mutated THEN "mutation_started" ELSE "prepared")

\* Advance the receipt if the store accepts it, and leave it alone otherwise.
Transition(j, to, mutated) ==
    /\ phase'   = [phase EXCEPT ![j] = IF TransitionOk(j, to, mutated) THEN to ELSE @]
    /\ started' = [started EXCEPT ![j] = IF TransitionOk(j, to, mutated) THEN mutated ELSE @]

MarkPreDispatchFailed(j) == Transition(j, "failed", FALSE)

\* acceptPreparedPlatformUpdateReceipt: only an untouched prepared receipt is
\* runnable; finding an orphaned mutation_started one closes it as unknown.
Runnable(j) == phase[j] = "prepared" /\ ~started[j]

AcceptPrepared(j) ==
    IF phase[j] = "mutation_started"
    THEN Transition(j, "outcome_unknown", TRUE)
    ELSE UNCHANGED receipt

(***************************************************************************)
(* Agent: one process runs one task at a time                              *)
(***************************************************************************)
Go(a, at) == pc' = [pc EXCEPT ![a] = at] /\ UNCHANGED <<cur, mstatus, seen>>

\* The handler returns; its local variables are forgotten.
Idle(a) ==
    /\ pc' = [pc EXCEPT ![a] = "idle"]
    /\ cur' = [cur EXCEPT ![a] = None]
    /\ mstatus' = [mstatus EXCEPT ![a] = "in_progress"]
    /\ seen' = [seen EXCEPT ![a] = FALSE]

Post(id, env, ev) == net' = net \cup {[id |-> id, envelope |-> env, evidence |-> ev]}

\* CompleteTaskFailed with the bounded pre_dispatch_failed report.
PostPreDispatchFailed(a) == Post(cur[a], "failed", "failed") /\ Idle(a)

PriorState(j) == phase[j] # "none" \/ staged[j]

\* PrepareAndStartDetachedPlatformUpdate: any earlier evidence of the job is
\* ambiguity (nothing is posted); a directory that cannot be inspected is a
\* reported failure.
DispatchPrior(a) ==
    /\ pc[a] = "prior"
    /\ \/ /\ IF PriorState(cur[a]) THEN Idle(a) ELSE Go(a, "prepare")
          /\ UNCHANGED net
       \/ PostPreDispatchFailed(a)
    /\ UNCHANGED <<manager, receipt, host, faults>>

\* CreatePrepared links the receipt without replacing an existing one.
DispatchPrepare(a) ==
    LET j == cur[a] IN
    /\ pc[a] = "prepare"
    /\ IF phase[j] = "none"
       THEN phase' = [phase EXCEPT ![j] = "prepared"] /\ Go(a, "probe")
       ELSE UNCHANGED phase /\ Idle(a)
    /\ UNCHANGED <<manager, started, host, net, faults>>

\* A step of the dispatch fails before systemd-run: the failure is recorded
\* and, if it could be recorded, reported.
DispatchFails(a) ==
    LET j == cur[a] IN
    /\ MarkPreDispatchFailed(j)
    /\ IF TransitionOk(j, "failed", FALSE)
       THEN PostPreDispatchFailed(a)
       ELSE Idle(a) /\ UNCHANGED net

DispatchProbe(a) ==
    /\ pc[a] = "probe"
    /\ \/ Go(a, "accept") /\ UNCHANGED <<receipt, net>>
       \/ DispatchFails(a)
    /\ UNCHANGED <<manager, host, faults>>

\* The receipt must still be runnable before staging starts ...
DispatchAccept(a) ==
    /\ pc[a] = "accept"
    /\ AcceptPrepared(cur[a])
    /\ IF Runnable(cur[a]) THEN Go(a, "stage") ELSE Idle(a)
    /\ UNCHANGED <<manager, host, net, faults>>

DispatchStage(a) ==
    /\ pc[a] = "stage"
    /\ \/ /\ staged' = [staged EXCEPT ![cur[a]] = TRUE]
          /\ Go(a, "reaccept")
          /\ UNCHANGED <<receipt, net>>
       \/ DispatchFails(a) /\ UNCHANGED staged
    /\ UNCHANGED <<manager, unit, effect, launches, faults>>

\* ... and again after it, because staging takes minutes.
DispatchReaccept(a) ==
    /\ pc[a] = "reaccept"
    /\ AcceptPrepared(cur[a])
    /\ IF Runnable(cur[a]) THEN Go(a, "spawn") ELSE Idle(a)
    /\ UNCHANGED <<manager, host, net, faults>>

\* StartDetachedPlatformUpdate.  A failure before exec.Start is deterministic
\* and always reported; a failure of Wait leaves open whether systemd took the
\* unit, and nothing is reported.
DispatchSpawn(a) ==
    LET j == cur[a] IN
    /\ pc[a] = "spawn"
    /\ \/ MarkPreDispatchFailed(j) /\ PostPreDispatchFailed(a) /\ UNCHANGED unit
       \/ /\ unit' = [unit EXCEPT ![j] = "queued"]
          /\ Go(a, "ack") \/ Idle(a)
          /\ UNCHANGED <<receipt, net>>
       \/ Idle(a) /\ UNCHANGED <<unit, receipt, net>>
    /\ UNCHANGED <<manager, staged, effect, launches, faults>>

DispatchAck(a) ==
    /\ pc[a] = "ack"
    /\ Post(cur[a], "succeeded", "mutation_dispatched")
    /\ Idle(a)
    /\ UNCHANGED <<manager, receipt, host, faults>>

\* platformUpdateReconciliationUsesFailureEnvelope
FailureEnvelope(a, ph, mutated) == mstatus[a] = "in_progress" /\ ph = "failed" /\ ~mutated

\* projectPlatformUpdateReceipt and processPlatformUpdateReconciliationTask
Report(a, ph, mutated) ==
    Post(cur[a],
         IF FailureEnvelope(a, ph, mutated) THEN "failed" ELSE "succeeded",
         IF ph \in FinalPhases THEN ph ELSE "pending")

\* A receipt that cannot be read is not reported at all.
ReconcileRead(a) ==
    LET j == cur[a] IN
    /\ pc[a] = "read"
    /\ \/ phase[j] = "none" /\ Idle(a) /\ UNCHANGED net
       \/ phase[j] \in FinalPhases /\ Report(a, phase[j], started[j]) /\ Idle(a)
       \/ /\ phase[j] \in {"prepared", "mutation_started"}
          /\ pc' = [pc EXCEPT ![a] = "check"]
          /\ seen' = [seen EXCEPT ![a] = started[j]]
          /\ UNCHANGED <<cur, mstatus, net>>
    /\ UNCHANGED <<manager, receipt, host, faults>>

\* systemctl show: a unit that is still queued is loaded and inactive.
WorkerActive(j) == unit[j] \in Running

ReconcileCheck(a) ==
    /\ pc[a] = "check"
    /\ IF WorkerActive(cur[a])
       THEN Report(a, "prepared", FALSE) /\ Idle(a)
       ELSE Go(a, "mark") /\ UNCHANGED net
    /\ UNCHANGED <<manager, receipt, host, faults>>

\* The verdict is chosen by the receipt as it was read, and refused if the
\* receipt has moved on since.
ReconcileMark(a) ==
    LET j  == cur[a]
        to == IF seen[a] THEN "outcome_unknown" ELSE "failed"
    IN
    /\ pc[a] = "mark"
    /\ Transition(j, to, seen[a])
    /\ IF TransitionOk(j, to, seen[a])
       THEN Report(a, to, seen[a])
       ELSE UNCHANGED net
    /\ Idle(a)
    /\ UNCHANGED <<manager, host, faults>>

\* The ordinary task runs to its end and its result is posted.
ExecuteTask(a) ==
    /\ pc[a] = "exec"
    /\ \E env \in {"succeeded", "failed"} : Post(cur[a], env, "none")
    /\ Idle(a)
    /\ UNCHANGED <<manager, receipt, host, faults>>

(***************************************************************************)
(* The detached worker (RunPlatformUpdateWorker)                           *)
(***************************************************************************)
Unit(j, st) == unit' = [unit EXCEPT ![j] = st] /\ UNCHANGED staged

WorkerStart(j) ==
    /\ unit[j] = "queued"
    /\ Unit(j, "accept")
    /\ UNCHANGED <<manager, agent, receipt, effect, launches, net, faults>>

\* validatedPlatformUpdateStage, then acceptPreparedPlatformUpdateReceipt.
WorkerAccept(j) ==
    /\ unit[j] = "accept"
    /\ IF staged[j] THEN AcceptPrepared(j) ELSE UNCHANGED receipt
    /\ Unit(j, IF staged[j] /\ Runnable(j) THEN "ready" ELSE "gone")
    /\ UNCHANGED <<manager, agent, effect, launches, net, faults>>

\* The runtime is revalidated inside the worker.
WorkerReady(j) ==
    /\ unit[j] = "ready"
    /\ \/ Unit(j, "cross") /\ UNCHANGED receipt
       \/ Unit(j, "gone") /\ MarkPreDispatchFailed(j)
    /\ UNCHANGED <<manager, agent, effect, launches, net, faults>>

\* MarkMutationStarted is the durable boundary: no updater before it.
WorkerCross(j) ==
    /\ unit[j] = "cross"
    /\ Transition(j, "mutation_started", TRUE)
    /\ Unit(j, IF TransitionOk(j, "mutation_started", TRUE) THEN "start" ELSE "gone")
    /\ UNCHANGED <<manager, agent, effect, launches, net, faults>>

WorkerStartsUpdater(j) ==
    /\ unit[j] = "start"
    /\ \/ Unit(j, "mark_failed") /\ UNCHANGED <<effect, launches>>
       \/ /\ Unit(j, "updating")
          /\ effect' = [effect EXCEPT ![j] = "running"]
          /\ launches' = [launches EXCEPT ![j] = @ + 1]
    /\ UNCHANGED <<manager, agent, receipt, net, faults>>

\* External: what the verified updater has done when it exits.  Exit 0 means
\* the release is installed, exit 75 (rollback incomplete) or a signal means
\* nothing is known, any other status means it rolled the host back.
UpdaterOutcomes == {"applied", "reverted", "torn"}

\* Mutation: every unsuccessful exit counts as rolled back.
WaitVerdict_AnyFailure(e) == IF e = "applied" THEN "mark_succeeded" ELSE "mark_failed"

\* platformUpdateWaitOutcomeUnknown and the branches after cmd.Wait.
WaitVerdict(e) ==
    CASE e = "applied"  -> "mark_succeeded"
      [] e = "reverted" -> "mark_failed"
      [] e = "torn"     -> "mark_unknown"

UpdaterExits(j) ==
    /\ unit[j] = "updating"
    /\ \E e \in UpdaterOutcomes :
          /\ effect' = [effect EXCEPT ![j] = e]
          /\ Unit(j, WaitVerdict(e))
    /\ UNCHANGED <<manager, agent, receipt, launches, net, faults>>

WorkerRecords(j) ==
    /\ \/ unit[j] = "mark_succeeded" /\ Transition(j, "succeeded", TRUE)
       \/ unit[j] = "mark_failed"    /\ Transition(j, "failed", TRUE)
       \/ unit[j] = "mark_unknown"   /\ Transition(j, "outcome_unknown", TRUE)
    /\ Unit(j, "gone")
    /\ UNCHANGED <<manager, agent, effect, launches, net, faults>>

(***************************************************************************)
(* Faults                                                                  *)
(***************************************************************************)
Fault == faults < MaxFaults /\ faults' = faults + 1

\* The process dies, or the handler gives up on an I/O error it cannot report.
AgentAborts(a) ==
    /\ pc[a] # "idle"
    /\ Idle(a)
    /\ Fault
    /\ UNCHANGED <<manager, receipt, host, net>>

\* The worker's unit is killed, with the updater if it is running.
WorkerKilled(j) ==
    /\ unit[j] \in Running
    /\ Unit(j, "gone")
    /\ effect' = [effect EXCEPT ![j] = IF @ = "running" THEN "torn" ELSE @]
    /\ Fault
    /\ UNCHANGED <<manager, agent, receipt, launches, net>>

\* Transient units do not survive a reboot; receipts and stages do.
HostReboots ==
    /\ pc' = [a \in Agents |-> "idle"]
    /\ cur' = [a \in Agents |-> None]
    /\ mstatus' = [a \in Agents |-> "in_progress"]
    /\ seen' = [a \in Agents |-> FALSE]
    /\ unit' = [j \in Jobs |-> IF unit[j] = "none" THEN "none" ELSE "gone"]
    /\ effect' = [j \in Jobs |-> IF effect[j] = "running" THEN "torn" ELSE effect[j]]
    /\ Fault
    /\ UNCHANGED <<manager, receipt, staged, launches, net>>

RequestLost(m) ==
    /\ m \in net
    /\ net' = net \ {m}
    /\ Fault
    /\ UNCHANGED <<manager, agent, receipt, host>>

(***************************************************************************)
(* Specification                                                           *)
(***************************************************************************)
Init ==
    /\ status = [j \in Jobs |-> "absent"]
    /\ dispatched = [j \in Jobs |-> FALSE]
    /\ fresh = [j \in Jobs |-> FALSE]
    /\ task = [t \in Tasks |-> "absent"]
    /\ pc = [a \in Agents |-> "idle"]
    /\ cur = [a \in Agents |-> None]
    /\ mstatus = [a \in Agents |-> "in_progress"]
    /\ seen = [a \in Agents |-> FALSE]
    /\ phase = [j \in Jobs |-> "none"]
    /\ started = [j \in Jobs |-> FALSE]
    /\ staged = [j \in Jobs |-> FALSE]
    /\ unit = [j \in Jobs |-> "none"]
    /\ effect = [j \in Jobs |-> "none"]
    /\ launches = [j \in Jobs |-> 0]
    /\ net = {}
    /\ faults = 0

AgentStep(a) ==
    \/ DispatchPrior(a) \/ DispatchPrepare(a) \/ DispatchProbe(a) \/ DispatchAccept(a)
    \/ DispatchStage(a) \/ DispatchReaccept(a) \/ DispatchSpawn(a) \/ DispatchAck(a)
    \/ ReconcileRead(a) \/ ReconcileCheck(a) \/ ReconcileMark(a)
    \/ ExecuteTask(a)

WorkerStep(j) ==
    \/ WorkerStart(j) \/ WorkerAccept(j) \/ WorkerReady(j) \/ WorkerCross(j)
    \/ WorkerStartsUpdater(j) \/ UpdaterExits(j) \/ WorkerRecords(j)

Claim(a) ==
    \/ \E j \in Jobs : ClaimReconcile(a, j) \/ ClaimDispatch(a, j)
    \/ \E t \in Tasks : ClaimTask(a, t)

Complete == \E m \in net : CompletePlatformUpdate(m) \/ CompleteTask(m)

Next ==
    \/ \E j \in Jobs : CreatePlatformUpdateJob(j) \/ ThrottleExpires(j)
                       \/ WorkerStep(j) \/ WorkerKilled(j)
    \/ \E t \in Tasks : CreateTask(t)
    \/ \E a \in Agents : Claim(a) \/ AgentStep(a) \/ AgentAborts(a)
    \/ \E a \in Agents, t \in Tasks : HeartbeatClosesOrphan(a, t)
    \/ Complete
    \/ \E m \in net : RequestLost(m)
    \/ HostReboots

Spec == Init /\ [][Next]_vars

(***************************************************************************)
(* Fairness.  The Agent's ticker keeps polling and a handler that runs ends *)
(* (every step has a timeout), systemd runs queued jobs, the updater        *)
(* exits, the throttle is a clock, and a request that is not lost arrives.  *)
(* Faults are bounded by MaxFaults and nothing is assumed about them.       *)
(***************************************************************************)
Fairness ==
    /\ \A a \in Agents : WF_vars(AgentStep(a)) /\ WF_vars(Claim(a))
    /\ \A j \in Jobs : WF_vars(WorkerStep(j)) /\ WF_vars(ThrottleExpires(j))
    /\ WF_vars(Complete)

FairSpec == Spec /\ Fairness

(***************************************************************************)
(* Properties                                                              *)
(***************************************************************************)
\* Every variable has the type its database column, file or process has.
TypeOK ==
    /\ status \in [Jobs -> JobStatuses]
    /\ dispatched \in [Jobs -> BOOLEAN]
    /\ fresh \in [Jobs -> BOOLEAN]
    /\ task \in [Tasks -> TaskStatuses]
    /\ pc \in [Agents -> AgentPcs]
    /\ cur \in [Agents -> Jobs \cup Tasks \cup {None}]
    /\ mstatus \in [Agents -> {"in_progress", "mutation_dispatched"}]
    /\ seen \in [Agents -> BOOLEAN]
    /\ phase \in [Jobs -> Phases]
    /\ started \in [Jobs -> BOOLEAN]
    /\ staged \in [Jobs -> BOOLEAN]
    /\ unit \in [Jobs -> UnitStates]
    /\ effect \in [Jobs -> Effects]
    /\ launches \in [Jobs -> Nat]
    /\ net \in SUBSET Messages
    /\ faults \in 0..MaxFaults

\* A job the Manager closed as failed without dispatched_at (a deterministic
\* pre-dispatch failure) never touched the host, and never will: neither a
\* unit that systemd had queued nor a late acknowledgement undoes it.
PreDispatchFailureIsHarmless ==
    \A j \in Jobs : status[j] = "failed" /\ ~dispatched[j] => launches[j] = 0

\* The terminal status the Manager stores is what happened on the host:
\* succeeded only if the updater installed the release, failed only if it
\* never ran or rolled back; everything else is outcome_unknown.
VerdictMatchesHost ==
    \A j \in Jobs :
        /\ status[j] = "succeeded" => effect[j] = "applied"
        /\ status[j] = "failed" => effect[j] \in {"none", "reverted"}

\* At most one host mutation per job, and never two updaters at once on the
\* node, whatever the Manager, two Agent processes and systemd interleave.
AtMostOneMutation ==
    /\ \A j \in Jobs : launches[j] <= 1
    /\ \A j, k \in Jobs : effect[j] = "running" /\ effect[k] = "running" => j = k

\* While one update of the node has an unknown outcome no other update runs:
\* the interlock index keeps outcome_unknown rows in its predicate.
NoUpdateOverUnknownOutcome ==
    \A j, k \in Jobs : status[j] = "outcome_unknown" => effect[k] # "running"

\* A node with one Agent process never executes an ordinary Agent operation
\* while the verified updater mutates the host.
OperationsExcludeUpdater ==
    \A a \in Agents, j \in Jobs :
        pc[a] = "exec" /\ cur[a] \in Ops => effect[j] # "running"

\* The same for config applications ("must continue to block a second
\* mutating operation for the same VPN node", remote_update_lifecycle.go).
ConfigsExcludeUpdater ==
    \A a \in Agents, j \in Jobs :
        pc[a] = "exec" /\ cur[a] \in Configs => effect[j] # "running"

\* Evidence only grows: a terminal job row and a terminal receipt are frozen,
\* mutation_started is never cleared, dispatched_at is never unset.
EvidenceIsMonotone ==
    [][ \A j \in Jobs :
          /\ status[j] \in FinalStatuses => status'[j] = status[j] /\ dispatched'[j] = dispatched[j]
          /\ phase[j] \in FinalPhases => phase'[j] = phase[j]
          /\ started[j] => started'[j]
          /\ dispatched[j] => dispatched'[j] ]_vars

\* Once the Agent holds a receipt for a job, the Manager learns a terminal
\* status: acknowledgement loss, crashes and reboots delay it only.
ReceiptedJobResolves ==
    \A j \in Jobs : phase[j] # "none" ~> status[j] \in FinalStatuses

\* "An Agent restart can always reconcile an in_progress task without
\* redispatch" (platform_update_apply.go): every claimed job resolves.
\* It does not hold (README, section 4).
ClaimedJobResolves ==
    \A j \in Jobs : status[j] = "in_progress" ~> status[j] \in FinalStatuses

=============================================================================
