--------------------------- MODULE NodeOperations ---------------------------
(***************************************************************************)
(* The operations of VPN nodes other than configurations and updates:      *)
(* service commands, diagnostics, the installation of runtimes and the     *)
(* cleanup of old artifacts, which administrators plan, confirm and run    *)
(* over all nodes (backend/internal/maintenance, agents and observability; *)
(* agent/internal/runtimecleanup, vpncoreinstall, diagnostics, heartbeat). *)
(*                                                                         *)
(* Every operation is a job of one node, at most one of them active.  The  *)
(* Manager waits for the jobs of a plan as long as its request lives; the  *)
(* Agent works on a job whenever it asks for one, and its report may be    *)
(* lost.  Agents and the Manager stop at any point.                        *)
(*                                                                         *)
(* Of the categories of a plan the Agents' artifacts are modelled, the one *)
(* that spans processes.  The files are named after the configuration      *)
(* version they belong to, so a version that is applied again rewrites     *)
(* them.  A platform update that keeps jobs from being claimed is left to  *)
(* PlatformUpdate.                                                         *)
(***************************************************************************)
EXTENDS RuntimeInstall, Sequences, FiniteSets

CONSTANTS
    Nodes,
    Versions,      \* configuration versions
    Retention,     \* agentRuntimeRetentionDays, in units of the clock
    Scenarios      \* how a behaviour starts, and its bounds, by kind

(* Files are written at different times, and 0 is no time.                  *)
ASSUME ConstantsAssumption ==
    /\ IsFiniteSet(Nodes)
    /\ Retention \in Nat \ {0}
    /\ \A s \in Scenarios :
          /\ s.host \in [Nodes -> Runtime]
          /\ s.day \in Nat \ {0}
          /\ s.artifacts \in [Nodes -> [Versions -> [staged : 0 .. s.day, backup : 0 .. s.day]]]
          /\ \A n \in Nodes : \A v, w \in Versions :
                s.artifacts[n][v].backup = s.artifacts[n][w].backup /\ v # w =>
                    s.artifacts[n][v].backup = 0
          /\ s.budget \in [{"days", "applies", "plans", "services", "installs", "diagnostics",
                            "stops"} -> Nat]

VARIABLES
    day,         \* the time
    artifacts,   \* of a node, by version: when it was last staged and backed up
                 \* (0: no such file)
    host,        \* the runtime of a node
    jobs,        \* agent_operation_jobs
    task,        \* what the Agent of a node is working on
    plans,       \* maintenance_cleanup_plans
    analysis,    \* the request that creates a plan
    execution,   \* the request that executes one
    runs,        \* observability_diagnostic_runs
    sync,        \* the runs that the diagnostic worker has read as ended
    budget,      \* what is left of the bounds
    newest,      \* note: the backup written last on a node (0: none)
    ready        \* note: nodes whose runtime an installation reported as done

managerVars == <<plans, analysis, execution>>
nodeVars == <<day, artifacts, host, newest, ready>>
runVars == <<runs, sync>>
vars == <<day, artifacts, host, jobs, task, plans, analysis, execution, runs, sync, budget,
          newest, ready>>

NoTask == [job |-> 0]
NoRequest == [step |-> "idle"]
Spend(kind) == budget[kind] > 0 /\ budget' = [budget EXCEPT ![kind] = @ - 1]

Artifact == [root : {"staged", "backup"}, version : Versions]
Written(n, f) == artifacts[n][f.version][f.root]
OnDisk(n) == {f \in Artifact : Written(n, f) # 0}

LastBackup(files) ==
    LET backups == {v \in Versions : files[v].backup # 0} IN
    IF backups = {} THEN {}
    ELSE {CHOOSE v \in backups : \A w \in backups : files[w].backup <= files[v].backup}

Init ==
    /\ \E s \in Scenarios :
          /\ day = s.day /\ artifacts = s.artifacts /\ host = s.host /\ budget = s.budget
    /\ jobs = <<>>
    /\ task = [n \in Nodes |-> NoTask]
    /\ plans = <<>>
    /\ analysis = NoRequest /\ execution = NoRequest
    /\ runs = <<>> /\ sync = {}
    /\ newest = [n \in Nodes |-> LastBackup(artifacts[n])]
    /\ ready = {}

-----------------------------------------------------------------------------
(* Jobs *)

JobStatuses == {"pending", "in_progress", "succeeded", "failed"}

ActiveJob(n) == \E i \in DOMAIN jobs : jobs[i].node = n /\ jobs[i].status \in {"pending", "in_progress"}

Job(n, operation, cutoff, candidates) ==
    [node |-> n, operation |-> operation, cutoff |-> cutoff, candidates |-> candidates,
     status |-> "pending", result |-> {}]

(* CreateAgentOperationJob: the unique index admits one active job a node. *)
CreateAgentOperationJob(n, operation) ==
    /\ ~ActiveJob(n)
    /\ jobs' = Append(jobs, Job(n, operation, 0, {}))

CreateVPNCoreOperation(n, operation) ==
    /\ Spend("services")
    /\ CreateAgentOperationJob(n, operation)
    /\ UNCHANGED <<nodeVars, task, managerVars>>

CreateVPNCoreInstallation(n) ==
    /\ Spend("installs")
    /\ CreateAgentOperationJob(n, "install")
    /\ UNCHANGED <<nodeVars, task, managerVars>>

(* CreateAgentOperationJobs: one of each node, in one transaction. *)
JobsAdmitted == \A n \in Nodes : ~ActiveJob(n)
NodeOrder == CHOOSE order \in [1 .. Cardinality(Nodes) -> Nodes] :
                \A i, j \in DOMAIN order : order[i] = order[j] => i = j
CreateJobs(operation, cutoff, candidates) ==
    /\ JobsAdmitted
    /\ jobs' = jobs \o [i \in DOMAIN NodeOrder |->
                           Job(NodeOrder[i], operation, cutoff, candidates[NodeOrder[i]])]
Created == (Len(jobs) + 1) .. (Len(jobs) + Cardinality(Nodes))

(* ClaimNextAgentOperationTask.  The answer may be lost, with the job in    *)
(* progress and no Agent working on it.                                     *)
ClaimTask(n) ==
    /\ task[n] = NoTask
    /\ \E i \in DOMAIN jobs :
          /\ jobs[i].node = n /\ jobs[i].status = "pending"
          /\ jobs' = [jobs EXCEPT ![i].status = "in_progress"]
          /\ task' = [task EXCEPT ![n] = [job |-> i, step |-> "claimed"]]
    /\ UNCHANGED <<nodeVars, managerVars, budget>>

(* UpdateAgentHeartbeat: a job in progress for minutes while its Agent      *)
(* sends heartbeats, which it does between tasks, is closed.                *)
CloseOrphan(n) ==
    /\ task[n] = NoTask
    /\ \E i \in DOMAIN jobs :
          /\ jobs[i].node = n /\ jobs[i].status = "in_progress"
          /\ jobs' = [jobs EXCEPT ![i].status = "failed"]
    /\ UNCHANGED <<nodeVars, task, managerVars, budget>>

(* The Agent has finished a task, and reports it next. *)
Finished(n, status, result) ==
    task' = [task EXCEPT ![n] = [job |-> @.job, step |-> "report", status |-> status,
                                 result |-> result]]

(* CompleteAgentOperationTask: only a job in progress takes the report.  A  *)
(* report that is lost is not repeated.                                     *)
CompleteTask(n) ==
    /\ task[n] # NoTask /\ task[n].step = "report"
    /\ LET i == task[n].job IN
       jobs' \in {jobs} \cup
                 (IF jobs[i].status = "in_progress"
                  THEN {[jobs EXCEPT ![i].status = task[n].status, ![i].result = task[n].result]}
                  ELSE {})
    /\ task' = [task EXCEPT ![n] = NoTask]
    /\ UNCHANGED <<nodeVars, managerVars, budget>>

Working(n, step) == task[n] # NoTask /\ task[n].step = step
Operation(n) == jobs[task[n].job].operation

-----------------------------------------------------------------------------
(* Services and runtimes *)

(* ServiceController: systemctl start, stop, restart. *)
ServiceOperation(n) ==
    /\ Working(n, "claimed") /\ Operation(n) \in {"start", "stop", "restart"}
    /\ \/ /\ Operation(n) = "stop"
          /\ host' = [host EXCEPT ![n].running = FALSE]
          /\ Finished(n, "succeeded", {})
       \/ /\ Operation(n) # "stop"
          /\ host[n].unit # "none" /\ ~host[n].masked /\ host[n].config # "none"
          /\ host' = [host EXCEPT ![n].running = TRUE]
          /\ Finished(n, "succeeded", {})
       \/ /\ host' = [host EXCEPT ![n].running = @ /\ Operation(n) = "start"]
          /\ Finished(n, "failed", {})
    /\ UNCHANGED <<day, artifacts, newest, ready, jobs, managerVars, budget>>

BeginInstall(n) ==
    /\ Working(n, "claimed") /\ Operation(n) = "install"
    /\ task' = [task EXCEPT ![n] = [job |-> @.job, step |-> "installing", in |-> Begun]]
    /\ UNCHANGED <<nodeVars, jobs, managerVars, budget>>

InstallStep(n) ==
    /\ Working(n, "installing") /\ task[n].in.stage \notin {"succeeded", "failed"}
    /\ \E after \in InstallStage(host[n], task[n].in) :
          /\ host' = [host EXCEPT ![n] = after.rt]
          /\ task' = [task EXCEPT ![n].in = after.in]
    /\ UNCHANGED <<day, artifacts, newest, ready, jobs, managerVars, budget>>

EndInstall(n) ==
    /\ Working(n, "installing") /\ task[n].in.stage \in {"succeeded", "failed"}
    /\ Finished(n, task[n].in.stage, {})
    /\ ready' = IF task[n].in.stage = "succeeded" THEN ready \cup {n} ELSE ready
    /\ UNCHANGED <<day, artifacts, host, newest, jobs, managerVars, budget>>

-----------------------------------------------------------------------------
(* Artifacts *)

(* A configuration apply stages the version and, once one was active, backs *)
(* it up under the name of the new version.  A node applies one version     *)
(* after the other, so the files of two applies differ in time.             *)
ConfigApplied(n, v) ==
    /\ task[n] = NoTask
    /\ \A f \in OnDisk(n) : Written(n, f) < day
    /\ Startable(host[n])
    /\ Spend("applies")
    /\ LET first == host[n].config # "applied" IN
       /\ artifacts' = [artifacts EXCEPT ![n][v] =
             [staged |-> day, backup |-> IF first THEN @.backup ELSE day]]
       /\ newest' = IF first THEN newest ELSE [newest EXCEPT ![n] = {v}]
    /\ host' = [host EXCEPT ![n].config = "applied", ![n].running = TRUE]
    /\ UNCHANGED <<day, jobs, task, managerVars, ready>>

NextDay ==
    /\ Spend("days")
    /\ day' = day + 1
    /\ UNCHANGED <<artifacts, host, newest, ready, jobs, task, managerVars>>

(* Cleaner.analyze: older than the cutoff, but never the newest backup. *)
Analyze(n, cutoff) ==
    {f \in OnDisk(n) :
        /\ Written(n, f) < cutoff
        /\ ~(f.root = "backup" /\ f.version \in LastBackup(artifacts[n]))}

(* Mutant: the files of the plan are deleted without another look.          *)
Refused_Never(n, cutoff, requested) == FALSE

(* Cleaner.cleanup looks again: a file of the plan that is still there must *)
(* still be a candidate, or nothing is deleted.                             *)
Refused(n, cutoff, requested) ==
    ~(requested \cap OnDisk(n) \subseteq Analyze(n, cutoff))

(* Mutant: everything that is a candidate by now is deleted. *)
Deletions_AllCurrent(n, cutoff, requested) == Analyze(n, cutoff)

Deletions(n, cutoff, requested) == requested \cap OnDisk(n)

AnalyzeArtifacts(n) ==
    /\ Working(n, "claimed") /\ Operation(n) = "analyze"
    /\ \/ Finished(n, "succeeded", Analyze(n, jobs[task[n].job].cutoff))
       \/ Finished(n, "failed", {})
    /\ UNCHANGED <<nodeVars, jobs, managerVars, budget>>

BeginCleanup(n) ==
    /\ Working(n, "claimed") /\ Operation(n) = "cleanup"
    /\ LET job == jobs[task[n].job] IN
       \/ Finished(n, "failed", {})
       \/ /\ ~Refused(n, job.cutoff, job.candidates)
          /\ task' = [task EXCEPT ![n] = [job |-> @.job, step |-> "cleaning",
                          left |-> Deletions(n, job.cutoff, job.candidates)]]
    /\ UNCHANGED <<nodeVars, jobs, managerVars, budget>>

(* One file after the other; one that cannot be removed ends the task. *)
DeleteArtifact(n) ==
    /\ Working(n, "cleaning")
    /\ \/ /\ task[n].left = {}
          /\ Finished(n, "succeeded", {})
          /\ UNCHANGED artifacts
       \/ /\ task[n].left # {}
          /\ LET f == CHOOSE f \in task[n].left : TRUE IN
             /\ artifacts' = [artifacts EXCEPT ![n][f.version][f.root] = 0]
             /\ task' = [task EXCEPT ![n].left = @ \ {f}]
       \/ /\ task[n].left # {}
          /\ Finished(n, "failed", {})
          /\ UNCHANGED artifacts
    /\ UNCHANGED <<day, host, newest, ready, jobs, managerVars, budget>>

VerifyArtifacts(n) ==
    /\ Working(n, "claimed") /\ Operation(n) = "verify"
    /\ \/ Finished(n, "succeeded", jobs[task[n].job].candidates \cap OnDisk(n))
       \/ Finished(n, "failed", {})
    /\ UNCHANGED <<nodeVars, jobs, managerVars, budget>>

-----------------------------------------------------------------------------
(* Diagnostics *)

Profiles == {"host_overview", "vpn_core_status", "manager_certificate"}

DiagnosticRun(job) == [job |-> job, status |-> "queued", state |-> "none"]

(* DiagnosticRepository.Create: the job and its run in one statement. *)
CreateDiagnostic(n, profile) ==
    /\ Spend("diagnostics")
    /\ CreateAgentOperationJob(n, profile)
    /\ runs' = Append(runs, DiagnosticRun(Len(jobs) + 1))
    /\ UNCHANGED <<nodeVars, task, managerVars, sync>>

(* ExecuteWithOptions: what the collector of a profile may find. *)
Collected(profile, rt) ==
    CASE profile = "host_overview" -> {"unavailable", "ample", "low", "critical"}
      [] profile = "vpn_core_status" ->
            {"unavailable", IF rt.binary = "none" THEN "absent"
                            ELSE IF rt.running THEN "active" ELSE "down"}
      [] profile = "manager_certificate" ->
            {"unavailable", "incomplete", "expired", "early", "untrusted", "expiring", "valid"}

processDiagnosticTask(n) ==
    /\ Working(n, "claimed") /\ Operation(n) \in Profiles
    /\ \E found \in Collected(Operation(n), host[n]) : Finished(n, "succeeded", {found})
    /\ UNCHANGED <<nodeVars, jobs, managerVars, budget>>

(* EvaluateDiagnosticPayload: the state that a finding means; evidence that *)
(* contradicts itself has none.                                             *)
StateOf(found) ==
    CASE found \in {"ample", "active", "valid"} -> "healthy"
      [] found \in {"low", "expiring"} -> "degraded"
      [] found \in {"critical", "absent", "down", "expired", "early", "untrusted"} -> "unhealthy"
      [] found = "unavailable" -> "unknown"
      [] found = "incomplete" -> "refused"

Verdict(job) ==
    LET state == IF job.status = "failed" THEN "refused"
                 ELSE StateOf(CHOOSE found \in job.result : TRUE) IN
    IF state = "refused" THEN [status |-> "failed", state |-> "unknown"]
    ELSE [status |-> "succeeded", state |-> state]

Ended == {"succeeded", "failed"}

(* Mutant: the runs of failed jobs are not read. *)
EndedRuns_Succeeded ==
    {r \in DOMAIN runs : runs[r].status \notin Ended /\ jobs[runs[r].job].status = "succeeded"}

EndedRuns == {r \in DOMAIN runs : runs[r].status \notin Ended /\ jobs[runs[r].job].status \in Ended}

(* SyncSemanticFromAgentJobs: runs whose job is in progress are marked, the *)
(* ones whose job has ended are read; a job that moves on in between is     *)
(* found by the next pass.                                                  *)
SyncRuns ==
    LET begun == {r \in DOMAIN runs : /\ runs[r].status = "queued"
                                      /\ jobs[runs[r].job].status = "in_progress"} IN
    /\ sync = {} /\ begun \cup EndedRuns # {}
    /\ runs' = [r \in DOMAIN runs |->
                   IF r \in begun THEN [runs[r] EXCEPT !.status = "running"] ELSE runs[r]]
    /\ sync' = EndedRuns
    /\ UNCHANGED <<nodeVars, jobs, task, managerVars, budget>>

(* One statement for each; a run that has an outcome keeps it. *)
markDiagnosticTerminal ==
    /\ sync # {}
    /\ LET r == CHOOSE r \in sync : \A q \in sync : r <= q
           verdict == Verdict(jobs[runs[r].job]) IN
       /\ runs' = IF runs[r].status \in Ended THEN runs
                  ELSE [runs EXCEPT ![r].status = verdict.status, ![r].state = verdict.state]
       /\ sync' = sync \ {r}
    /\ UNCHANGED <<nodeVars, jobs, task, managerVars, budget>>

(* A statement fails: the rest is left to the next pass, a second later. *)
SyncFails ==
    /\ sync # {} /\ Spend("stops")
    /\ sync' = {}
    /\ UNCHANGED <<nodeVars, jobs, task, managerVars, runs>>

-----------------------------------------------------------------------------
(* Plans *)

(* wait, for each job of a request. *)
(* Mutant: a job that has failed has ended, too. *)
AllSucceeded_Ended(ids) == \A i \in ids : jobs[i].status \in {"succeeded", "failed"}

AllSucceeded(ids) == \A i \in ids : jobs[i].status = "succeeded"
Results(ids) == [n \in Nodes |-> UNION {jobs[i].result : i \in {j \in ids : jobs[j].node = n}}]

(* CreatePlan: the Agents analyze first. *)
BeginPlan ==
    /\ analysis = NoRequest
    /\ Spend("plans")
    /\ CreateJobs("analyze", day - Retention, [n \in Nodes |-> {}])
    /\ analysis' = [step |-> "waiting", cutoff |-> day - Retention, jobs |-> Created]
    /\ UNCHANGED <<nodeVars, task, plans, execution>>

Plan(cutoff, snapshot) ==
    [status |-> "planned", created |-> day, cutoff |-> cutoff, snapshot |-> snapshot,
     confirmed |-> FALSE]

CreatePlan ==
    /\ analysis # NoRequest /\ AllSucceeded(analysis.jobs)
    /\ plans' = Append(plans, Plan(analysis.cutoff, Results(analysis.jobs)))
    /\ analysis' = NoRequest
    /\ UNCHANGED <<nodeVars, jobs, task, execution, budget>>

(* A failed job, or the end of the request's 75 seconds.  The other jobs    *)
(* stay.                                                                    *)
AbandonPlan ==
    /\ analysis # NoRequest
    /\ analysis' = NoRequest
    /\ UNCHANGED <<nodeVars, jobs, task, plans, execution, budget>>

(* Acquire: a planned one, not expired (15 minutes), while none is running. *)
Acquire(p) ==
    /\ plans[p].status = "planned"
    /\ \/ /\ plans[p].created = day
          /\ \A q \in DOMAIN plans : plans[q].status # "running"
          /\ plans' = [plans EXCEPT ![p].status = "running", ![p].confirmed = TRUE]
          /\ execution' = [step |-> "acquired", plan |-> p]
       \/ /\ plans' = [plans EXCEPT ![p].status = "expired"]
          /\ UNCHANGED execution
    /\ execution = NoRequest
    /\ UNCHANGED <<nodeVars, jobs, task, analysis, budget>>

(* The jobs of a step of the provider; a node that is busy refuses them all.*)
StartJobs(operation, step) ==
    LET plan == plans[execution.plan] IN
    \/ /\ CreateJobs(operation, plan.cutoff, plan.snapshot)
       /\ execution' = [step |-> step, plan |-> execution.plan, jobs |-> Created]
    \/ /\ ~JobsAdmitted
       /\ execution' = [step |-> "failed", plan |-> execution.plan]
       /\ UNCHANGED jobs

StartCleanup ==
    /\ execution.step = "acquired"
    /\ StartJobs("cleanup", "cleaning")
    /\ UNCHANGED <<nodeVars, task, plans, analysis, budget>>

StartVerify ==
    /\ execution.step = "cleaning" /\ AllSucceeded(execution.jobs)
    /\ StartJobs("verify", "verifying")
    /\ UNCHANGED <<nodeVars, task, plans, analysis, budget>>

Verified(ids) == \A n \in Nodes : Results(ids)[n] = {}

EndVerify ==
    /\ execution.step = "verifying" /\ AllSucceeded(execution.jobs)
    /\ execution' = [step |-> IF Verified(execution.jobs) THEN "succeeded" ELSE "failed",
                     plan |-> execution.plan]
    /\ UNCHANGED <<nodeVars, jobs, task, plans, analysis, budget>>

(* A job has failed, or the request has lived for 3 minutes.  A job that is *)
(* pending or in progress stays what it is.                                 *)
StopWaiting ==
    /\ execution.step \in {"cleaning", "verifying"}
    /\ execution' = [step |-> "failed", plan |-> execution.plan]
    /\ UNCHANGED <<nodeVars, jobs, task, plans, analysis, budget>>

(* Complete, Fail: a running plan takes the outcome.  When the statement    *)
(* fails the plan stays running until the next start.                       *)
FinishPlan ==
    /\ execution.step \in {"succeeded", "failed"}
    /\ plans' \in {plans, [plans EXCEPT ![execution.plan].status = execution.step]}
    /\ execution' = NoRequest
    /\ UNCHANGED <<nodeVars, jobs, task, analysis, budget>>

-----------------------------------------------------------------------------
(* Stops *)

(* RecoverInterruptedPlans: a running plan has failed, with an unknown      *)
(* outcome, and is not taken up again.                                      *)
ManagerRestart ==
    /\ Spend("stops")
    /\ analysis' = NoRequest /\ execution' = NoRequest /\ sync' = {}
    /\ plans' = [p \in DOMAIN plans |->
          IF plans[p].status = "running" THEN [plans[p] EXCEPT !.status = "failed"] ELSE plans[p]]
    /\ UNCHANGED <<nodeVars, jobs, task, runs>>

AgentRestart(n) ==
    /\ task[n] # NoTask
    /\ Spend("stops")
    /\ task' = [task EXCEPT ![n] = NoTask]
    /\ UNCHANGED <<nodeVars, jobs, managerVars>>

Reboot(n) ==
    /\ Spend("stops")
    /\ task' = [task EXCEPT ![n] = NoTask]
    /\ host' = [host EXCEPT ![n] = Rebooted(@)]
    /\ UNCHANGED <<day, artifacts, newest, ready, jobs, managerVars>>

-----------------------------------------------------------------------------
Requested(n) ==
    \/ \E operation \in {"start", "stop", "restart"} : CreateVPNCoreOperation(n, operation)
    \/ CreateVPNCoreInstallation(n)
    \/ \E v \in Versions : ConfigApplied(n, v)

AgentStep(n) ==
    \/ ClaimTask(n)
    \/ CloseOrphan(n)
    \/ CompleteTask(n)
    \/ ServiceOperation(n)
    \/ processDiagnosticTask(n)
    \/ BeginInstall(n)
    \/ InstallStep(n)
    \/ EndInstall(n)
    \/ AnalyzeArtifacts(n)
    \/ BeginCleanup(n)
    \/ DeleteArtifact(n)
    \/ VerifyArtifacts(n)

PlanNext ==
    \/ BeginPlan
    \/ CreatePlan
    \/ AbandonPlan
    \/ \E p \in DOMAIN plans : Acquire(p)
    \/ StartCleanup
    \/ StartVerify
    \/ EndVerify
    \/ StopWaiting
    \/ FinishPlan

SyncStep ==
    \/ SyncRuns
    \/ markDiagnosticTerminal

Next ==
    \/ /\ \/ \E n \in Nodes : Requested(n) \/ AgentStep(n) \/ AgentRestart(n) \/ Reboot(n)
          \/ PlanNext
          \/ NextDay
       /\ UNCHANGED runVars
    \/ \E n \in Nodes, profile \in Profiles : CreateDiagnostic(n, profile)
    \/ SyncStep
    \/ SyncFails
    \/ ManagerRestart

(* An Agent that is started again whenever it stops claims, works, reports  *)
(* and sends heartbeats, and the diagnostic worker runs every second.  The  *)
(* requests of administrators owe nothing.                                  *)
Fairness ==
    /\ \A n \in Nodes : WF_vars(AgentStep(n) /\ UNCHANGED runVars)
    /\ WF_vars(SyncStep)

Spec == Init /\ [][Next]_vars /\ Fairness

-----------------------------------------------------------------------------
(* Properties *)

(* Every variable has the shape its table, file or process gives it. *)
TypeOK ==
    /\ day \in Nat
    /\ artifacts \in [Nodes -> [Versions -> [staged : 0 .. day, backup : 0 .. day]]]
    /\ host \in [Nodes -> Runtime]
    /\ \A i \in DOMAIN jobs :
          /\ jobs[i].node \in Nodes
          /\ jobs[i].status \in JobStatuses
          /\ jobs[i].candidates \subseteq Artifact
          /\ jobs[i].operation \notin Profiles => jobs[i].result \subseteq Artifact
    /\ \A r \in DOMAIN runs : /\ runs[r].job \in DOMAIN jobs
                              /\ runs[r].status \in {"queued", "running"} \cup Ended
    /\ sync \subseteq DOMAIN runs
    /\ \A n \in Nodes : task[n].job \in 0 .. Len(jobs)
    /\ \A p \in DOMAIN plans :
          /\ plans[p].status \in {"planned", "running", "succeeded", "failed", "expired"}
          /\ plans[p].snapshot \in [Nodes -> SUBSET Artifact]
    /\ ready \subseteq Nodes

(* The backup written last on a node is never removed, however late the     *)
(* Agent takes up a cleanup and whatever was applied since the analysis     *)
(* (docs/architecture/system-maintenance.md:22).                            *)
NewestBackupKept == \A n \in Nodes : \A v \in newest[n] : artifacts[n][v].backup # 0

Removed(n) == {f \in Artifact : Written(n, f) # 0 /\ artifacts'[n][f.version][f.root] = 0}

(* What is removed from a node was listed for that node in a plan that its  *)
(* creator confirmed, and is older than the cutoff recorded in that plan,   *)
(* also when the plan has failed or was interrupted long ago.               *)
OnlyConfirmedRemoved ==
    [][\A n \in Nodes : \A f \in Removed(n) : \E p \in DOMAIN plans :
          plans[p].confirmed /\ f \in plans[p].snapshot[n] /\ Written(n, f) < plans[p].cutoff]_vars

(* When a plan is reported as succeeded, every file it listed is gone from  *)
(* every node, or was written again by a later apply.                       *)
SucceededIsGone ==
    \A p \in DOMAIN plans : plans[p].status = "succeeded" =>
        \A n \in Nodes : \A f \in plans[p].snapshot[n] :
            Written(n, f) = 0 \/ Written(n, f) >= plans[p].created

(* A runtime whose installation was once reported as done can be started    *)
(* by a configuration apply for ever after: installing it again, also when  *)
(* that is interrupted or fails at any stage, takes nothing away.           *)
ReadyStaysStartable == \A n \in ready : Startable(host[n])

(* No job stays open: not when the claim's answer or the report is lost,    *)
(* nor when the Agent, the host or the Manager stops at any point; and each *)
(* diagnostic run ends with the verdict on what its job has found.          *)
OperationsEnd ==
    <>[](/\ \A i \in DOMAIN jobs : jobs[i].status \in Ended
         /\ \A r \in DOMAIN runs :
               [status |-> runs[r].status, state |-> runs[r].state] = Verdict(jobs[runs[r].job]))
=============================================================================
