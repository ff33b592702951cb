---------------------------- MODULE ConfigApply -----------------------------
(***************************************************************************)
(* How an Agent applies a configuration version to the VPN runtimes of its *)
(* node.  A version selects one or more cores (sing-box, WireGuard,        *)
(* Hysteria2, MTProto), each with a configuration file and a service of    *)
(* its own.  The Agent stages and validates all of them, promotes the      *)
(* files one after the other (keeping a backup named after the version),   *)
(* restarts and checks the services one after the other, and on a failure  *)
(* rolls back what it promoted in reverse order.                           *)
(*                                                                         *)
(* The content of a file is the version it was rendered from.  Staging     *)
(* directories, the wording of reports and what the checks look at are     *)
(* abstracted: a check passes or fails.                                    *)
(***************************************************************************)
EXTENDS Naturals, Sequences, FiniteSets

CONSTANTS
    Versions,       \* the configuration versions of the node
    Initial,        \* the version deployed at the beginning
    Selects,        \* the cores each version selects, in their order
    Absent,         \* no file; a stopped service
    None,           \* no task in the Agent's hands
    ServiceControl, \* ServiceControlEnabled of the Agent's configuration
    MaxJobs,        \* bound: apply jobs queued
    MaxFailures,    \* bound: steps of an apply or of a rollback that fail
    MaxCrashes      \* bound: Agent crashes, lost reports, host restarts

Cores == UNION {{Selects[v][i] : i \in DOMAIN Selects[v]} : v \in Versions}

ASSUME ConfigApplyAssumption ==
    /\ Initial \in Versions
    /\ Absent \notin Versions
    /\ \A v \in Versions :
        /\ Selects[v] \in Seq(Cores) /\ Selects[v] # <<>>
        /\ \A i, j \in DOMAIN Selects[v] : Selects[v][i] = Selects[v][j] => i = j
    /\ ServiceControl \in BOOLEAN
    /\ {MaxJobs, MaxFailures, MaxCrashes} \subseteq Nat

VARIABLES
    file,       \* the active configuration file of each core
    running,    \* the configuration each core's service was last started with
    backup,     \* <version>.previous of each core
    task,       \* processConfigApplyTask's progress
    job,        \* config_apply_jobs of the node, oldest first
    active,     \* servers.active_config_version_id
    failures, crashes,
    before,     \* history: the files when the task began
    verified    \* history: versions that passed every check on each core

vars == <<file, running, backup, task, job, active, failures, crashes, before, verified>>

Content == Versions \cup {Absent}

SelectedBy(v) == {Selects[v][i] : i \in DOMAIN Selects[v]}

-----------------------------------------------------------------------------
Init ==
    /\ file = [c \in Cores |-> IF c \in SelectedBy(Initial) THEN Initial ELSE Absent]
    /\ running = file
    /\ backup = [c \in Cores |-> [v \in Versions |-> Absent]]
    /\ task = None
    /\ job = <<>>
    /\ active = Initial
    /\ failures = 0
    /\ crashes = 0
    /\ before = file
    /\ verified = [c \in Cores |-> IF c \in SelectedBy(Initial) THEN {Initial} ELSE {}]

-----------------------------------------------------------------------------
(* Manager's side of the queue *)

(* Apply and Reapply: a job for any version of the history.                 *)
RequestApply(v) ==
    /\ Len(job) < MaxJobs
    /\ job' = Append(job, [version |-> v, status |-> "pending"])
    /\ UNCHANGED <<file, running, backup, task, active, failures, crashes, before, verified>>

(* Mutant: the newest pending job first (ORDER BY created_at DESC).          *)
Claim_NewestFirst ==
    \E j \in DOMAIN job :
        /\ task = None
        /\ job[j].status = "pending"
        /\ \A i \in j + 1 .. Len(job) : job[i].status # "pending"
        /\ job' = [job EXCEPT ![j].status = "in_progress"]
        /\ task' = [job |-> j, version |-> job[j].version, phase |-> "preparing",
                    next |-> 1, promoted |-> {}, saved |-> {}, clean |-> TRUE]
        /\ before' = file
        /\ UNCHANGED <<file, running, backup, active, failures, crashes, verified>>

(* ClaimNextConfigTask: the oldest pending job of the node.                 *)
Claim ==
    \E j \in DOMAIN job :
        /\ task = None
        /\ job[j].status = "pending"
        /\ \A i \in 1 .. j - 1 : job[i].status # "pending"
        /\ job' = [job EXCEPT ![j].status = "in_progress"]
        /\ task' = [job |-> j, version |-> job[j].version, phase |-> "preparing",
                    next |-> 1, promoted |-> {}, saved |-> {}, clean |-> TRUE]
        /\ before' = file
        /\ UNCHANGED <<file, running, backup, active, failures, crashes, verified>>

(* A heartbeat, which the Agent sends between tasks, closes what was never  *)
(* reported once it is older than the grace period.                         *)
CloseOrphans ==
    /\ task = None
    /\ \E j \in DOMAIN job : job[j].status = "in_progress"
    /\ job' = [j \in DOMAIN job |->
                IF job[j].status = "in_progress" THEN [job[j] EXCEPT !.status = "failed"]
                ELSE job[j]]
    /\ UNCHANGED <<file, running, backup, task, active, failures, crashes, before, verified>>

-----------------------------------------------------------------------------
(* The apply *)

InPhase(p) == task # None /\ task.phase = p

CurrentCore == Selects[task.version][task.next]

LastCore == task.next = Len(Selects[task.version])

Fail == failures < MaxFailures /\ failures' = failures + 1

(* Adapters are selected, and every one stages and validates its file       *)
(* before any file is promoted.                                             *)
Prepare ==
    /\ InPhase("preparing")
    /\ task' = [task EXCEPT !.phase = "promoting"]
    /\ UNCHANGED <<file, running, backup, job, active, failures, crashes, before, verified>>

PrepareFails ==
    /\ InPhase("preparing")
    /\ Fail
    /\ task' = [task EXCEPT !.phase = "failed"]
    /\ UNCHANGED <<file, running, backup, job, active, crashes, before, verified>>

(* Applier.Apply: the active file, if there is one, is saved under the      *)
(* version's name, then replaced.                                           *)
Saved(c) ==
    IF file[c] = Absent THEN backup ELSE [backup EXCEPT ![c][task.version] = file[c]]

AfterPromotion ==
    CASE ~LastCore -> [phase |-> "promoting", next |-> task.next + 1]
      [] LastCore /\ ServiceControl -> [phase |-> "restarting", next |-> 1]
      [] OTHER -> [phase |-> "succeeded", next |-> 1]

Promote ==
    LET c == CurrentCore
    IN  /\ InPhase("promoting")
        /\ backup' = Saved(c)
        /\ file' = [file EXCEPT ![c] = task.version]
        /\ task' = [task EXCEPT !.promoted = @ \cup {c},
                                !.saved = IF file[c] = Absent THEN @ ELSE @ \cup {c},
                                !.phase = AfterPromotion.phase,
                                !.next = AfterPromotion.next]
        /\ UNCHANGED <<running, job, active, failures, crashes, before, verified>>

(* Saving or replacing the file fails: the cores promoted before it are     *)
(* rolled back.                                                             *)
PromoteFails ==
    /\ InPhase("promoting")
    /\ Fail
    /\ backup' \in {backup, Saved(CurrentCore)}
    /\ task' = [task EXCEPT !.phase = "rolling_back", !.next = @ - 1]
    /\ UNCHANGED <<file, running, job, active, crashes, before, verified>>

(* Restart, is-active, is-enabled and the listener check all pass.          *)
Restart ==
    LET c == CurrentCore
    IN  /\ InPhase("restarting")
        /\ running' = [running EXCEPT ![c] = file[c]]
        /\ task' = [task EXCEPT !.phase = IF LastCore THEN "succeeded" ELSE @,
                                !.next = IF LastCore THEN @ ELSE @ + 1]
        /\ verified' = [verified EXCEPT ![c] = @ \cup {file[c]}]
        /\ UNCHANGED <<file, backup, job, active, failures, crashes, before>>

(* Mutant: only the cores restarted before the failing one are rolled back. *)
RestartFails_SparesFailing ==
    LET c == CurrentCore
    IN  /\ InPhase("restarting")
        /\ Fail
        /\ running' \in {[running EXCEPT ![c] = r] : r \in {running[c], file[c], Absent}}
        /\ task' = [task EXCEPT !.phase = "rolling_back", !.next = task.next - 1]
        /\ UNCHANGED <<file, backup, job, active, crashes, before, verified>>

(* One of them fails: the service may be stopped, run the new file or (the  *)
(* unit could not be enabled) still run the old one.                        *)
RestartFails ==
    LET c == CurrentCore
    IN  /\ InPhase("restarting")
        /\ Fail
        /\ running' \in {[running EXCEPT ![c] = r] : r \in {running[c], file[c], Absent}}
        /\ task' = [task EXCEPT !.phase = "rolling_back", !.next = Len(Selects[task.version])]
        /\ UNCHANGED <<file, backup, job, active, crashes, before, verified>>

-----------------------------------------------------------------------------
(* rollbackPreparedRuntimes: from the last promoted core to the first *)

RolledBack(clean) ==
    task' = [task EXCEPT !.phase = IF task.next <= 1 THEN "failed" ELSE @,
                         !.next = IF task.next <= 1 THEN @ ELSE @ - 1,
                         !.clean = @ /\ clean]

(* RollbackApply: the backup is restored, or a file that was not there      *)
(* before is removed; then the service is restarted or stopped.             *)
Restored(c) == IF c \in task.saved THEN backup[c][task.version] ELSE Absent

Rollback ==
    LET c == CurrentCore
    IN  /\ InPhase("rolling_back") /\ task.next > 0
        /\ file' = [file EXCEPT ![c] = Restored(c)]
        /\ running' = [running EXCEPT ![c] = Restored(c)]
        /\ RolledBack(TRUE)
        /\ UNCHANGED <<backup, job, active, failures, crashes, before, verified>>

(* Restoring the file fails and the service is left alone, or the service   *)
(* does not follow the restored file; the other cores are still rolled back.*)
RollbackFails ==
    LET c == CurrentCore
    IN  /\ InPhase("rolling_back") /\ task.next > 0
        /\ Fail
        /\ \/ UNCHANGED <<file, running>>
           \/ /\ file' = [file EXCEPT ![c] = Restored(c)]
              /\ running' \in {[running EXCEPT ![c] = r] : r \in {running[c], Restored(c), Absent}}
        /\ RolledBack(FALSE)
        /\ UNCHANGED <<backup, job, active, crashes, before, verified>>

(* Nothing was promoted: rollback is skipped.                               *)
RollbackNothing ==
    /\ InPhase("rolling_back") /\ task.next = 0
    /\ task' = [task EXCEPT !.phase = "failed"]
    /\ UNCHANGED <<file, running, backup, job, active, failures, crashes, before, verified>>

-----------------------------------------------------------------------------
(* The outcome *)

(* CompleteConfigTask with its triggers: success makes the version active.  *)
Report ==
    /\ task # None /\ task.phase \in {"succeeded", "failed"}
    /\ job[task.job].status = "in_progress"
    /\ job' = [job EXCEPT ![task.job].status = task.phase]
    /\ active' = IF task.phase = "succeeded" THEN task.version ELSE active
    /\ task' = None
    /\ UNCHANGED <<file, running, backup, failures, crashes, before, verified>>

(* The Agent stops in the middle of a task, or its report never arrives.    *)
(* No later start of the Agent looks at what was left behind.               *)
AgentLost ==
    /\ task # None
    /\ crashes < MaxCrashes
    /\ crashes' = crashes + 1
    /\ task' = None
    /\ UNCHANGED <<file, running, backup, job, active, failures, before, verified>>

(* The host restarts: every service comes up with the file it finds.        *)
HostRestarts ==
    /\ crashes < MaxCrashes
    /\ crashes' = crashes + 1
    /\ task' = None
    /\ running' = file
    /\ UNCHANGED <<file, backup, job, active, failures, before, verified>>

Next ==
    \/ \E v \in Versions : RequestApply(v)
    \/ Claim
    \/ CloseOrphans
    \/ Prepare
    \/ PrepareFails
    \/ Promote
    \/ PromoteFails
    \/ Restart
    \/ RestartFails
    \/ Rollback
    \/ RollbackFails
    \/ RollbackNothing
    \/ Report
    \/ AgentLost
    \/ HostRestarts

Spec == Init /\ [][Next]_vars

-----------------------------------------------------------------------------
(* Properties *)

Phases == {"preparing", "promoting", "restarting", "rolling_back", "succeeded", "failed"}

(* Every variable has its shape; a task holds exactly its own job in        *)
(* progress and works on a core its version selects (processConfigApplyTask,*)
(* ClaimNextConfigTask).                                                    *)
TypeOK ==
    /\ file \in [Cores -> Content] /\ running \in [Cores -> Content]
    /\ before \in [Cores -> Content]
    /\ backup \in [Cores -> [Versions -> Content]]
    /\ verified \in [Cores -> SUBSET Versions]
    /\ active \in Versions
    /\ job \in Seq([version : Versions,
                    status : {"pending", "in_progress", "succeeded", "failed"}])
    /\ failures \in 0 .. MaxFailures /\ crashes \in 0 .. MaxCrashes
    /\ task # None =>
        /\ task.phase \in Phases /\ task.clean \in BOOLEAN
        /\ task.job \in DOMAIN job /\ job[task.job].status = "in_progress"
        /\ task.version = job[task.job].version
        /\ task.next \in 0 .. Len(Selects[task.version])
        /\ task.saved \subseteq task.promoted /\ task.promoted \subseteq SelectedBy(task.version)

(* An apply is all or nothing on its node: when the Agent is about to       *)
(* report success every selected core has and runs the version; when it is  *)
(* about to report a failure that rolled back without errors every file is  *)
(* what it was and every core it touched runs the file it had, a core that  *)
(* had none being stopped (processConfigApplyTask,                          *)
(* rollbackPreparedRuntimes, Applier).                                      *)
AllOrNothing ==
    /\ InPhase("succeeded") =>
        \A c \in SelectedBy(task.version) :
            file[c] = task.version /\ (ServiceControl => running[c] = task.version)
    /\ InPhase("failed") /\ task.clean =>
        /\ file = before
        /\ \A c \in task.promoted : running[c] = before[c]

(* What Manager shows as applied is what the node runs: once no job is open *)
(* and the newest one succeeded, every core of the active version has and   *)
(* runs it, however many earlier applies failed, crashed or were closed     *)
(* unreported (active_config_version_id, the orphan rule).                  *)
ConfirmedIsDeployed ==
    (/\ job # <<>> /\ job[Len(job)].status = "succeeded"
     /\ \A i \in DOMAIN job : job[i].status \in {"succeeded", "failed"})
        => /\ active = job[Len(job)].version
           /\ \A c \in SelectedBy(active) :
                file[c] = active /\ (ServiceControl => running[c] = active)

(* The comment on RollbackApply says a rollback acts "instead of leaving a  *)
(* partial multi-runtime deployment behind": after a failed apply whose     *)
(* rollback had no errors, no core it promoted is left with a file that     *)
(* never passed its checks there.  It does not hold (README, section 4).    *)
NothingUnverifiedLeft ==
    InPhase("failed") /\ task.clean =>
        \A c \in task.promoted : file[c] \in verified[c] \cup {Absent}
=============================================================================
