--------------------------- MODULE ManagerUpdate ----------------------------
(***************************************************************************)
(* Manager's update of its own host.  A stage job downloads and verifies a *)
(* release candidate into a private directory; at most MaxRetained         *)
(* candidates are kept and the oldest is evicted in two phases to admit    *)
(* another.  An apply job hands one staged candidate to the root           *)
(* dispatcher over a local socket, with a pin file that keeps the          *)
(* candidate on disk while root may read it, also after Manager itself has *)
(* been stopped by the update.  After a restart Manager closes whatever    *)
(* was open before it serves requests.                                     *)
(*                                                                         *)
(* Discovery results are model values.  Downloads and verification succeed *)
(* or fail; the release descriptors they check are left out.               *)
(***************************************************************************)
EXTENDS Naturals, Sequences, FiniteSets

CONSTANTS
    Discoveries,    \* successful discovery jobs that can be staged
    MaxRetained,    \* maxRetainedStageJobs
    MaxJobs,        \* bound: rows of update_jobs
    MaxFaults       \* bound: failing calls, lost answers, crashes

ASSUME ManagerUpdateAssumption ==
    /\ MaxRetained \in Nat \ {0}
    /\ {MaxJobs, MaxFaults} \subseteq Nat

VARIABLES
    job,        \* update_jobs of operations stage and apply, oldest first
    call,       \* where the handler call of each job is
    lock,       \* the advisory lock routegate-update-stage-admission
    completed,  \* successful stage jobs by completed_at
    dir,        \* the staging directory of each stage job
    pin,        \* .apply-pins
    root,       \* the root dispatcher's work on each candidate
    up,         \* Manager serves requests (recovery is done)
    faults,
    mutations,  \* history: how often root has changed the host per candidate
    unsaved     \* history: jobs whose failure could not be persisted

vars == <<job, call, lock, completed, dir, pin, root, up, faults, mutations, unsaved>>

Ids == 1 .. MaxJobs

Free == [kind |-> "free", job |-> 0, for |-> 0]

IsStage(j) == j \in DOMAIN job /\ job[j].op = "stage"

IsApply(j) == j \in DOMAIN job /\ job[j].op = "apply"

Open(j) == job[j].status \in {"pending", "running"}

Fault == faults < MaxFaults /\ faults' = faults + 1

Init ==
    /\ job = <<>>
    /\ call = [j \in Ids |-> "none"]
    /\ lock = Free
    /\ completed = <<>>
    /\ dir = [j \in Ids |-> "absent"]
    /\ pin = {}
    /\ root = [j \in Ids |-> "idle"]
    /\ up = TRUE
    /\ faults = 0
    /\ mutations = [j \in Ids |-> 0]
    /\ unsaved = {}

-----------------------------------------------------------------------------
(* Admission of a stage job *)

NewJob(op, ref, status) ==
    [op |-> op, ref |-> ref, status |-> status, retention |-> "kept", code |-> "none"]

(* reusableStage: the request is answered with a job that exists.           *)
Reusable(d) ==
    {j \in DOMAIN job : IsStage(j) /\ job[j].ref = d
        /\ (Open(j) \/ (job[j].status = "succeeded" /\ job[j].retention = "kept"))}

(* countRetainedStageJobs *)
Retained ==
    {j \in DOMAIN job : IsStage(j)
        /\ (Open(j) \/ (job[j].status = "succeeded" /\ job[j].retention # "evicted"))}

CanAdmit(d) == up /\ lock = Free /\ Len(job) < MaxJobs /\ Reusable(d) = {}

(* The row is inserted and its handler goes on; or the insert's answer is   *)
(* lost, and the reconciliation finds no row, fails the row, or fails to.   *)
Insert(op, ref, jobs) ==
    \/ /\ job' = Append(jobs, NewJob(op, ref, "pending"))
       /\ call' = [call EXCEPT ![Len(jobs) + 1] = "created"]
       /\ UNCHANGED <<faults, unsaved>>
    \/ /\ Fault
       /\ call' = call
       /\ \/ job' = job /\ unsaved' = unsaved
          \/ job' = Append(jobs, NewJob(op, ref, "failed")) /\ unsaved' = unsaved
          \/ /\ job' = Append(jobs, NewJob(op, ref, "pending"))
             /\ unsaved' = unsaved \cup {Len(jobs) + 1}

CreateStage(d) ==
    /\ CanAdmit(d)
    /\ Cardinality(Retained) < MaxRetained
    /\ Insert("stage", d, job)
    /\ UNCHANGED <<lock, completed, dir, pin, root, up, mutations>>

(* evictionCandidate: one that is being evicted already, else the oldest.   *)
Victims ==
    LET evictable == {i \in DOMAIN completed : job[completed[i]].retention # "evicted"}
        half == {i \in evictable : job[completed[i]].retention = "evicting"}
    IN  IF half # {} THEN half ELSE evictable

IsEvictionCandidate(j) ==
    \E i \in Victims : j = completed[i] /\ \A k \in Victims : i <= k

EvictBegins(d, j) ==
    /\ CanAdmit(d)
    /\ Cardinality(Retained) >= MaxRetained /\ IsEvictionCandidate(j)
    /\ job' = [job EXCEPT ![j].retention = "evicting"]
    /\ lock' = [kind |-> "evict", job |-> j, for |-> d]
    /\ UNCHANGED <<call, completed, dir, pin, root, up, faults, mutations, unsaved>>

(* Mutant: Cleanup does not look at the pin.                                *)
Cleanable_AnyTime(j) == TRUE

(* Cleanup refuses a pinned candidate.                                      *)
Cleanable(j) == j \notin pin

EvictCleans ==
    /\ lock.kind = "evict" /\ Cleanable(lock.job)
    /\ dir' = [dir EXCEPT ![lock.job] = "absent"]
    /\ lock' = [lock EXCEPT !.kind = "evicted"]
    /\ UNCHANGED <<job, call, completed, pin, root, up, faults, mutations, unsaved>>

(* The candidate is pinned, or its files cannot be removed.                 *)
EvictRefused ==
    /\ lock.kind = "evict"
    /\ \/ ~Cleanable(lock.job) /\ faults' = faults
       \/ Fault
    /\ lock' = Free
    /\ UNCHANGED <<job, call, completed, dir, pin, root, up, mutations, unsaved>>

EvictEnds ==
    /\ lock.kind = "evicted"
    /\ Insert("stage", lock.for, [job EXCEPT ![lock.job].retention = "evicted"])
    /\ lock' = Free
    /\ UNCHANGED <<completed, dir, pin, root, up, mutations>>

(* The second transaction of the eviction fails.                            *)
EvictAborts ==
    /\ lock.kind = "evicted"
    /\ Fault
    /\ lock' = Free
    /\ UNCHANGED <<job, call, completed, dir, pin, root, up, mutations, unsaved>>

-----------------------------------------------------------------------------
(* The handler of a stage job *)

At(j, op, where) == j \in DOMAIN job /\ job[j].op = op /\ call[j] = where

Returns(j) == call' = [call EXCEPT ![j] = "none"]

Failed(j, code) == job' = [job EXCEPT ![j].status = "failed", ![j].code = code]

(* failAndCleanup: the job stays open when its files cannot be removed, and *)
(* when its failure cannot be stored.                                       *)
FailAndCleanup(j) ==
    /\ Returns(j)
    /\ \/ /\ dir' = [dir EXCEPT ![j] = "absent"]
          /\ Failed(j, "definite")
          /\ UNCHANGED <<faults, unsaved>>
       \/ /\ Fault
          /\ dir' \in {dir, [dir EXCEPT ![j] = "absent"]}
          /\ unsaved' = unsaved \cup {j}
          /\ UNCHANGED job

StageRuns(j) ==
    /\ At(j, "stage", "created")
    /\ job' = [job EXCEPT ![j].status = "running"]
    /\ call' = [call EXCEPT ![j] = "staging"]
    /\ UNCHANGED <<lock, completed, dir, pin, root, up, faults, mutations, unsaved>>

(* MarkRunning or StageAndVerify fails.                                     *)
StageFails(j) ==
    /\ At(j, "stage", "created") \/ At(j, "stage", "staging")
    /\ FailAndCleanup(j)
    /\ UNCHANGED <<lock, completed, pin, root, up, mutations>>

StageDownloads(j) ==
    /\ At(j, "stage", "staging") /\ dir[j] = "absent"
    /\ dir' = [dir EXCEPT ![j] = "partial"]
    /\ UNCHANGED <<job, call, lock, completed, pin, root, up, faults, mutations, unsaved>>

StageVerified(j) ==
    /\ At(j, "stage", "staging") /\ dir[j] = "partial"
    /\ dir' = [dir EXCEPT ![j] = "final"]
    /\ call' = [call EXCEPT ![j] = "staged"]
    /\ UNCHANGED <<job, lock, completed, pin, root, up, faults, mutations, unsaved>>

Succeeds(j) ==
    /\ job' = [job EXCEPT ![j].status = "succeeded"]
    /\ completed' = IF IsStage(j) THEN Append(completed, j) ELSE completed

(* CompleteStage, its answer read or found again by the reconciliation.     *)
StageCompletes(j) ==
    /\ At(j, "stage", "staged")
    /\ Succeeds(j)
    /\ Returns(j)
    /\ UNCHANGED <<lock, dir, pin, root, up, faults, mutations, unsaved>>

(* CompleteStage fails: not stored, and found not to be; or nothing can be  *)
(* found out and the handler leaves everything as it is.                    *)
StageCompletionFails(j) ==
    /\ At(j, "stage", "staged")
    /\ \/ FailAndCleanup(j) /\ UNCHANGED completed
       \/ /\ Fault
          /\ Returns(j)
          /\ \/ Succeeds(j) /\ UNCHANGED unsaved
             \/ unsaved' = unsaved \cup {j} /\ UNCHANGED <<job, completed>>
          /\ UNCHANGED dir
    /\ UNCHANGED <<lock, pin, root, up, mutations>>

-----------------------------------------------------------------------------
(* The handler of an apply job; it holds the lock until it returns *)

(* applicableStageResult *)
Applicable(s) ==
    IsStage(s) /\ job[s].status = "succeeded" /\ job[s].retention = "kept"

(* Mutant: a candidate may be applied again once its apply has ended.       *)
Unattempted_OpenOnly(s) == \A j \in DOMAIN job : ~(IsApply(j) /\ Open(j))

(* CreateApply: no apply is open and this candidate was never attempted.    *)
Unattempted(s) ==
    \A j \in DOMAIN job : IsApply(j) => ~Open(j) /\ job[j].ref # s

(* The lock is kept for the handler unless the insert fails.                *)
CreateApply(s) ==
    /\ up /\ lock = Free /\ Len(job) < MaxJobs
    /\ Applicable(s) /\ Unattempted(s)
    /\ Insert("apply", s, job)
    /\ lock' = IF call' = call THEN Free ELSE [kind |-> "apply", job |-> Len(job) + 1, for |-> s]
    /\ UNCHANGED <<completed, dir, pin, root, up, mutations>>

ApplyRuns(j) ==
    /\ At(j, "apply", "created")
    /\ job' = [job EXCEPT ![j].status = "running"]
    /\ call' = [call EXCEPT ![j] = "running"]
    /\ UNCHANGED <<lock, completed, dir, pin, root, up, faults, mutations, unsaved>>

(* MarkRunning fails.  Its empty result has replaced the job, so failJob is *)
(* called without an ID and changes nothing.                                *)
ApplyRunFails(j) ==
    /\ At(j, "apply", "created")
    /\ Fault
    /\ job' \in {job, [job EXCEPT ![j].status = "running"]}
    /\ Returns(j) /\ lock' = Free
    /\ UNCHANGED <<completed, dir, pin, root, up, mutations, unsaved>>

(* The handler ends with failJob, which may not get through.                *)
ApplyEnds(j, code) ==
    /\ Returns(j) /\ lock' = Free
    /\ \/ Failed(j, code) /\ UNCHANGED <<faults, unsaved>>
       \/ Fault /\ unsaved' = unsaved \cup {j} /\ UNCHANGED job

ApplyPins(j) ==
    /\ At(j, "apply", "running") /\ job[j].ref \notin pin
    /\ pin' = pin \cup {job[j].ref}
    /\ call' = [call EXCEPT ![j] = "pinned"]
    /\ UNCHANGED <<job, lock, completed, dir, root, up, faults, mutations, unsaved>>

ApplyPinFails(j) ==
    /\ At(j, "apply", "running")
    /\ ApplyEnds(j, "definite")
    /\ UNCHANGED <<completed, dir, pin, root, up, mutations>>

(* The whole request has crossed the socket.                                *)
ApplySends(j) ==
    /\ At(j, "apply", "pinned")
    /\ call' = [call EXCEPT ![j] = "sent"]
    /\ root' = [root EXCEPT ![job[j].ref] = "asked"]
    /\ UNCHANGED <<job, lock, completed, dir, pin, up, faults, mutations, unsaved>>

(* Dialling or writing fails before that.                                   *)
ApplySendFails(j) ==
    /\ At(j, "apply", "pinned")
    /\ ApplyEnds(j, "definite")
    /\ pin' = pin \ {job[j].ref}
    /\ UNCHANGED <<completed, dir, root, up, mutations>>

(* The ends of root's work that the dispatcher answers with ERR: it reports *)
(* only whether the updater's exit status was 0.                            *)
Rejections == {"refused", "restored", "dirty"}

ApplyRejected(j) ==
    /\ At(j, "apply", "sent") /\ root[job[j].ref] \in Rejections
    /\ ApplyEnds(j, "definite")
    /\ pin' = pin \ {job[j].ref}
    /\ UNCHANGED <<completed, dir, root, up, mutations>>

ApplyCompletes(j) ==
    /\ At(j, "apply", "sent") /\ root[job[j].ref] = "ok"
    /\ Succeeds(j)
    /\ Returns(j) /\ lock' = Free
    /\ pin' = pin \ {job[j].ref}
    /\ UNCHANGED <<dir, root, up, faults, mutations, unsaved>>

(* CompleteApply fails.  As in ApplyRunFails the ID is gone: neither the    *)
(* reconciliation nor failJob finds the job.                                *)
ApplyCompletionFails(j) ==
    /\ At(j, "apply", "sent") /\ root[job[j].ref] = "ok"
    /\ Fault
    /\ Succeeds(j) \/ UNCHANGED <<job, completed>>
    /\ Returns(j) /\ lock' = Free
    /\ pin' = pin \ {job[j].ref}
    /\ UNCHANGED <<dir, root, up, mutations, unsaved>>

(* Mutant: a lost answer is taken for a refusal.                            *)
ApplyLost_Definite(j) ==
    /\ At(j, "apply", "sent")
    /\ ApplyEnds(j, "definite")
    /\ pin' = pin \ {job[j].ref}
    /\ UNCHANGED <<completed, dir, root, up, mutations>>

(* The answer does not come in time or is not understood: the outcome is    *)
(* unknown and the pin stays for root to remove.                            *)
ApplyLost(j) ==
    /\ At(j, "apply", "sent")
    /\ ApplyEnds(j, "unknown")
    /\ UNCHANGED <<completed, dir, pin, root, up, mutations>>

-----------------------------------------------------------------------------
(* Manager's process ends, and with it its handlers and the lock.           *)
Stopped ==
    /\ up' = FALSE
    /\ lock' = Free
    /\ call' = [j \in Ids |-> "none"]

(* The root dispatcher, one process per connection, and its updater *)

(* reconstruct_candidate, then the verified updater copies the candidate,   *)
(* verifies the copy and makes a backup.                                    *)
RootBegins(s) ==
    /\ root[s] = "asked" /\ dir[s] = "final"
    /\ root' = [root EXCEPT ![s] = "working"]
    /\ UNCHANGED <<job, call, lock, completed, dir, pin, up, faults, mutations, unsaved>>

(* MUTATED=1 in the updater that has the host's lock.  Its first act is to  *)
(* stop Manager; Manager goes on if the stop fails, or if the host's role   *)
(* marker names a role without a Manager.                                   *)
RootMutates(s) ==
    /\ root[s] = "working" /\ \A t \in Ids : root[t] # "mutating"
    /\ root' = [root EXCEPT ![s] = "mutating"]
    /\ mutations' = [mutations EXCEPT ![s] = @ + 1]
    /\ Stopped \/ UNCHANGED <<call, lock, up>>
    /\ UNCHANGED <<job, completed, dir, pin, faults, unsaved>>

(* How a transaction that has changed the host ends: complete; rolled back; *)
(* or dirty: it could not prove its rollback complete (exit 75), or it was  *)
(* killed and rolled nothing back.                                          *)
TransactionEnds == {"ok", "restored", "dirty"}

(* The request, the candidate or the host is refused before any change, or  *)
(* the transaction ends; the pin is removed.                                *)
RootEnds(s) ==
    /\ \/ root[s] \in {"asked", "working"} /\ root' = [root EXCEPT ![s] = "refused"]
       \/ root[s] = "mutating" /\ \E r \in TransactionEnds : root' = [root EXCEPT ![s] = r]
    /\ pin' = pin \ {s}
    /\ UNCHANGED <<job, call, lock, completed, dir, up, faults, mutations, unsaved>>

-----------------------------------------------------------------------------
(* Stops and recovery *)

(* Manager stops: a crash or a restart.                                     *)
ManagerStops ==
    /\ Fault
    /\ Stopped
    /\ UNCHANGED <<job, completed, dir, pin, root, mutations, unsaved>>

(* The host stops, and root's work with it; pins stay.                      *)
HostStops ==
    /\ Fault
    /\ Stopped
    /\ root' = [s \in Ids |-> IF root[s] \in {"asked", "working", "mutating"}
                                THEN "interrupted" ELSE root[s]]
    /\ UNCHANGED <<job, completed, dir, pin, mutations, unsaved>>

Interrupted == {j \in DOMAIN job : Open(j)}

(* RecoverInterruptedJobs, oldest job first: files are removed before a     *)
(* stage job is failed.                                                     *)
RecoverCleans(j) ==
    /\ ~up /\ j \in Interrupted /\ \A i \in Interrupted : j <= i
    /\ IsStage(j) /\ dir[j] # "absent" /\ Cleanable(j)
    /\ dir' = [dir EXCEPT ![j] = "absent"]
    /\ UNCHANGED <<job, call, lock, completed, pin, root, up, faults, mutations, unsaved>>

RecoverFails(j) ==
    /\ ~up /\ j \in Interrupted /\ \A i \in Interrupted : j <= i
    /\ dir[j] = "absent"
    /\ Failed(j, "unknown")
    /\ UNCHANGED <<call, lock, completed, dir, pin, root, up, faults, mutations, unsaved>>

ManagerServes ==
    /\ ~up /\ Interrupted = {}
    /\ up' = TRUE
    /\ UNCHANGED <<job, call, lock, completed, dir, pin, root, faults, mutations, unsaved>>

-----------------------------------------------------------------------------
Next ==
    \/ \E d \in Discoveries : CreateStage(d)
    \/ \E d \in Discoveries, j \in Ids : EvictBegins(d, j)
    \/ EvictCleans
    \/ EvictRefused
    \/ EvictEnds
    \/ EvictAborts
    \/ \E j \in Ids : StageRuns(j)
    \/ \E j \in Ids : StageFails(j)
    \/ \E j \in Ids : StageDownloads(j)
    \/ \E j \in Ids : StageVerified(j)
    \/ \E j \in Ids : StageCompletes(j)
    \/ \E j \in Ids : StageCompletionFails(j)
    \/ \E s \in Ids : CreateApply(s)
    \/ \E j \in Ids : ApplyRuns(j)
    \/ \E j \in Ids : ApplyRunFails(j)
    \/ \E j \in Ids : ApplyPins(j)
    \/ \E j \in Ids : ApplyPinFails(j)
    \/ \E j \in Ids : ApplySends(j)
    \/ \E j \in Ids : ApplySendFails(j)
    \/ \E j \in Ids : ApplyRejected(j)
    \/ \E j \in Ids : ApplyCompletes(j)
    \/ \E j \in Ids : ApplyCompletionFails(j)
    \/ \E j \in Ids : ApplyLost(j)
    \/ \E s \in Ids : RootBegins(s)
    \/ \E s \in Ids : RootMutates(s)
    \/ \E s \in Ids : RootEnds(s)
    \/ ManagerStops
    \/ HostStops
    \/ \E j \in Ids : RecoverCleans(j)
    \/ \E j \in Ids : RecoverFails(j)
    \/ ManagerServes

Spec == Init /\ [][Next]_vars

-----------------------------------------------------------------------------
(* Properties *)

Places == {"none", "created", "staging", "staged", "running", "pinned", "sent"}

(* Every variable has its shape; only an open job has a handler, and the    *)
(* lock is with the apply that is being handled (Create of both handlers,   *)
(* AcquireStageAdmissionLock).                                              *)
TypeOK ==
    /\ Len(job) <= MaxJobs
    /\ \A j \in DOMAIN job :
        /\ job[j].op \in {"stage", "apply"}
        /\ job[j].ref \in Discoveries \cup DOMAIN job
        /\ job[j].status \in {"pending", "running", "succeeded", "failed"}
        /\ job[j].retention \in {"kept", "evicting", "evicted"}
        /\ job[j].code \in {"none", "definite", "unknown"}
        /\ call[j] # "none" => up /\ Open(j)
        /\ job[j].op = "apply" /\ call[j] # "none" => lock.kind = "apply" /\ lock.job = j
    /\ call \in [Ids -> Places]
    /\ lock.kind \in {"free", "evict", "evicted", "apply"}
    /\ \A i \in DOMAIN completed : IsStage(completed[i])
    /\ dir \in [Ids -> {"absent", "partial", "final"}]
    /\ pin \subseteq Ids /\ unsaved \subseteq Ids
    /\ root \in [Ids -> {"idle", "asked", "working", "mutating", "ok", "interrupted"} \cup Rejections]
    /\ up \in BOOLEAN /\ faults \in 0 .. MaxFaults

(* Root never works from a candidate whose files are gone, whatever Manager *)
(* does meanwhile: restart, recover, evict to admit another candidate       *)
(* (Pin, Cleanup, release_apply_pin).                                       *)
CandidateKept == \A s \in Ids : root[s] = "working" => dir[s] = "final"

(* A candidate is applied to the host at most once, also when the outcome   *)
(* of the first attempt is unknown (CreateApply and its unique index).      *)
AppliedOnce == \A s \in Ids : mutations[s] <= 1

(* A candidate that Manager offers to apply or to reuse is complete on disk *)
(* (reusableStage, applicableStageResult, the two phases of an eviction,    *)
(* reconcileAmbiguousCompletion).                                           *)
RetainedIsComplete == \A s \in DOMAIN job : Applicable(s) => dir[s] = "final"

(* The staging root never holds more than the reserved number of            *)
(* candidates, partial ones included (countRetainedStageJobs,               *)
(* failAndCleanup, recovery).                                               *)
StorageBounded == Cardinality({s \in Ids : dir[s] # "absent"}) <= MaxRetained

(* A verdict of an apply job is about work that is over: success means that *)
(* root finished, and a definite failure that root did not finish and does  *)
(* nothing more with the candidate, whatever answer was lost or came late   *)
(* (errDispatchOutcomeUnknown, startup recovery).  In which state root left *)
(* the host is not said.                                                    *)
OutcomeIsFinal ==
    \A j \in DOMAIN job : IsApply(j) =>
        /\ job[j].status = "succeeded" => root[job[j].ref] = "ok"
        /\ job[j].status = "failed" /\ job[j].code = "definite" =>
            root[job[j].ref] \in {"idle"} \cup Rejections

(* A failure that Manager calls definite left the host as it was.  The      *)
(* updater demands it: its exit 75 is to be classified "as outcome_unknown, *)
(* never as an ordinary failure" (routegate-update-transaction.sh:32-35).   *)
(* The dispatcher answers it with the same ERR, and it does not hold.       *)
DefiniteMeansRestored ==
    \A j \in DOMAIN job :
        IsApply(j) /\ job[j].status = "failed" /\ job[j].code = "definite" =>
            root[job[j].ref] # "dirty"

(* A handler that returns has ended its job: an open apply job without a    *)
(* handler is one whose failure could not be stored.  The stage handler's   *)
(* tests demand it of stage jobs                                            *)
(* (TestCreateStageMarkRunningFailureKeepsCreatedJobIdentity); an open      *)
(* apply job refuses every later apply until Manager restarts.              *)
CallEndsItsJob ==
    up => \A j \in DOMAIN job :
        Open(j) /\ call[j] = "none" => j \in unsaved
=============================================================================
