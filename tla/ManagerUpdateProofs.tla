------------------------- MODULE ManagerUpdateProofs ------------------------
(***************************************************************************)
(* The safety of Manager's own update for any number of jobs, discoveries, *)
(* retained candidates and faults.                                         *)
(***************************************************************************)
EXTENDS ManagerUpdate, SequenceTheorems, FiniteSetTheorems, TLAPS

JobRec ==
    [op : {"stage", "apply"}, ref : Discoveries \cup Ids,
     status : {"pending", "running", "succeeded", "failed"},
     retention : {"kept", "evicting", "evicted"}, code : {"none", "definite", "unknown"}]

\* The table of jobs as a function from its row numbers.
JobsInv ==
    /\ job \in Seq(JobRec)
    /\ Len(job) \in 0 .. MaxJobs
    /\ DOMAIN job = 1 .. Len(job)
    /\ \A j \in DOMAIN job : job[j] \in JobRec

RootStates ==
    {"idle", "asked", "working", "mutating", "ok", "refused", "restored", "dirty", "interrupted"}

\* The other variables.
ShapeInv ==
    /\ call \in [Ids -> Places]
    /\ lock \in [kind : {"free", "evict", "evicted", "apply"},
                 job : 0 .. MaxJobs, for : Discoveries \cup 0 .. MaxJobs]
    /\ dir \in [Ids -> {"absent", "partial", "final"}]
    /\ pin \subseteq Ids /\ unsaved \subseteq Ids
    /\ root \in [Ids -> RootStates]
    /\ mutations \in [Ids -> {0, 1}]
    /\ up \in BOOLEAN /\ faults \in 0 .. MaxFaults

\* A handler belongs to an open job of a Manager that is up; an apply handler
\* holds the lock.
CallInv ==
    \A j \in Ids : call[j] # "none" =>
        /\ j \in DOMAIN job /\ Open(j) /\ up
        /\ job[j].op = "apply" => lock.kind = "apply" /\ lock.job = j

\* An apply job has a successful stage job of its own.
RefInv ==
    \A j \in DOMAIN job :
        /\ job[j].op = "stage" => job[j].ref \in Discoveries
        /\ job[j].op = "apply" =>
            /\ job[j].ref \in DOMAIN job
            /\ job[job[j].ref].op = "stage" /\ job[job[j].ref].status = "succeeded"
            /\ \A i \in DOMAIN job : job[i].op = "apply" /\ job[i].ref = job[j].ref => i = j

\* Root works only for an apply job, under its pin, and changes the host once.
RootInv ==
    \A s \in Ids :
        /\ root[s] # "idle" => \E j \in DOMAIN job : job[j].op = "apply" /\ job[j].ref = s
        /\ root[s] \in {"idle", "asked", "working"} => mutations[s] = 0
        /\ root[s] \in {"asked", "working"} => s \in pin
        /\ root[s] = "working" => dir[s] = "final"

\* Where an apply job is against what root has done with its candidate.
ApplyInv ==
    \A j \in DOMAIN job : job[j].op = "apply" =>
        /\ call[j] \in {"created", "running", "pinned"} => root[job[j].ref] = "idle"
        /\ job[j].status = "succeeded" => root[job[j].ref] = "ok"
        /\ job[j].status = "failed" /\ job[j].code = "definite" =>
            root[job[j].ref] = "idle" \/ root[job[j].ref] \in Rejections
        /\ call[j] = "pinned" => job[j].ref \in pin

\* Where a stage job is against its directory.
StageInv ==
    \A j \in DOMAIN job : job[j].op = "stage" =>
        /\ call[j] = "staged" => dir[j] = "final"
        /\ job[j].status = "succeeded" /\ job[j].retention = "kept" => dir[j] = "final"

\* The order of completion names successful stage jobs.
CompletedInv ==
    /\ completed \in Seq(Nat)
    /\ \A i \in 1 .. Len(completed) :
        /\ completed[i] \in DOMAIN job
        /\ job[completed[i]].op = "stage" /\ job[completed[i]].status = "succeeded"

\* Only a successful stage job is evicted, and only when marked.
EvictInv ==
    lock.kind \in {"evict", "evicted"} =>
        /\ lock.job \in DOMAIN job /\ lock.for \in Discoveries
        /\ job[lock.job].op = "stage" /\ job[lock.job].status = "succeeded"
        /\ job[lock.job].retention = "evicting"
        /\ Len(job) < MaxJobs /\ up

\* The inductive invariant.
Inv ==
    /\ JobsInv /\ ShapeInv /\ CallInv /\ RefInv
    /\ RootInv /\ ApplyInv /\ StageInv /\ CompletedInv /\ EvictInv

(***************************************************************************)
(* Rows of the table                                                       *)
(***************************************************************************)
\* A step that changes no row but j, and of j only the outcome.
OnlyOutcome(j) ==
    /\ DOMAIN job' = DOMAIN job /\ Len(job') = Len(job)
    /\ \A i \in DOMAIN job :
        /\ job'[i].op = job[i].op /\ job'[i].ref = job[i].ref
        /\ job'[i].retention = job[i].retention
        /\ i # j => job'[i].status = job[i].status /\ job'[i].code = job[i].code

\* What an UPDATE of one row leaves of the table.
LEMMA RowUpdated ==
    ASSUME JobsInv, NEW j \in DOMAIN job, NEW r \in JobRec, job' = [job EXCEPT ![j] = r]
    PROVE  /\ JobsInv'
           /\ Len(job') = Len(job) /\ DOMAIN job' = DOMAIN job
           /\ job'[j] = r
           /\ \A i \in DOMAIN job : i # j => job'[i] = job[i]
<1>1. job' \in Seq(JobRec) /\ Len(job') = Len(job)
      /\ \A i \in 1 .. Len(job) : job'[i] = IF i = j THEN r ELSE job[i]
  BY ExceptSeq DEF JobsInv
<1>2. DOMAIN job' = DOMAIN job
  BY <1>1 DEF JobsInv
<1>. QED
  BY <1>1, <1>2 DEF JobsInv

\* MarkRunning, CompleteStage, CompleteApply.
LEMMA StatusUpdated ==
    ASSUME JobsInv, NEW j \in DOMAIN job, NEW v \in {"running", "succeeded"},
           job' = [job EXCEPT ![j].status = v]
    PROVE  JobsInv' /\ OnlyOutcome(j) /\ job'[j].status = v /\ job'[j].code = job[j].code
<1>1. job' = [job EXCEPT ![j] = [job[j] EXCEPT !.status = v]]
  BY DEF JobsInv, JobRec
<1>2. [job[j] EXCEPT !.status = v] \in JobRec
  BY DEF JobsInv, JobRec
<1>3. JobsInv' /\ Len(job') = Len(job) /\ DOMAIN job' = DOMAIN job
      /\ job'[j] = [job[j] EXCEPT !.status = v] /\ \A i \in DOMAIN job : i # j => job'[i] = job[i]
  BY <1>1, <1>2, RowUpdated
<1>4. job[j] \in JobRec
  BY DEF JobsInv
<1>. QED
  BY <1>3, <1>4 DEF JobRec, OnlyOutcome

\* MarkFailed.
LEMMA RowFailed ==
    ASSUME JobsInv, NEW j \in DOMAIN job, NEW v \in {"definite", "unknown"},
           job' = [job EXCEPT ![j].status = "failed", ![j].code = v]
    PROVE  JobsInv' /\ OnlyOutcome(j) /\ job'[j].status = "failed" /\ job'[j].code = v
<1>1. job' = [job EXCEPT ![j] = [job[j] EXCEPT !.status = "failed", !.code = v]]
  BY DEF JobsInv, JobRec
<1>2. [job[j] EXCEPT !.status = "failed", !.code = v] \in JobRec
  BY DEF JobsInv, JobRec
<1>3. JobsInv' /\ Len(job') = Len(job) /\ DOMAIN job' = DOMAIN job
      /\ job'[j] = [job[j] EXCEPT !.status = "failed", !.code = v] /\ \A i \in DOMAIN job : i # j => job'[i] = job[i]
  BY <1>1, <1>2, RowUpdated
<1>4. job[j] \in JobRec
  BY DEF JobsInv
<1>. QED
  BY <1>3, <1>4 DEF JobRec, OnlyOutcome

\* The two statements of an eviction.
LEMMA RetentionUpdated ==
    ASSUME JobsInv, NEW j \in DOMAIN job, NEW v \in {"evicting", "evicted"},
           job' = [job EXCEPT ![j].retention = v]
    PROVE  /\ JobsInv' /\ DOMAIN job' = DOMAIN job /\ Len(job') = Len(job)
           /\ \A i \in DOMAIN job :
                /\ job'[i].op = job[i].op /\ job'[i].ref = job[i].ref
                /\ job'[i].status = job[i].status /\ job'[i].code = job[i].code
                /\ job'[i].retention = IF i = j THEN v ELSE job[i].retention
<1>1. job' = [job EXCEPT ![j] = [job[j] EXCEPT !.retention = v]]
  BY DEF JobsInv, JobRec
<1>2. [job[j] EXCEPT !.retention = v] \in JobRec
  BY DEF JobsInv, JobRec
<1>3. JobsInv' /\ Len(job') = Len(job) /\ DOMAIN job' = DOMAIN job
      /\ job'[j] = [job[j] EXCEPT !.retention = v] /\ \A i \in DOMAIN job : i # j => job'[i] = job[i]
  BY <1>1, <1>2, RowUpdated
<1>4. job[j] \in JobRec
  BY DEF JobsInv
<1>. QED
  BY <1>3, <1>4 DEF JobRec, OnlyOutcome

\* What an INSERT leaves of the table.
LEMMA RowInserted ==
    ASSUME NEW jobs \in Seq(JobRec), Len(jobs) < MaxJobs, NEW r \in JobRec,
           job' = Append(jobs, r)
    PROVE  /\ JobsInv'
           /\ DOMAIN job' = 1 .. Len(jobs) + 1
           /\ job'[Len(jobs) + 1] = r
           /\ \A i \in 1 .. Len(jobs) : job'[i] = jobs[i]
<1>1. job' \in Seq(JobRec) /\ Len(job') = Len(jobs) + 1
      /\ job'[Len(jobs) + 1] = r /\ \A i \in 1 .. Len(jobs) : job'[i] = jobs[i]
  BY AppendProperties
<1>2. DOMAIN job' = 1 .. Len(jobs) + 1
  BY <1>1
<1>3. \A i \in DOMAIN job' : job'[i] \in JobRec
  BY <1>1, ElementOfSeq
<1>4. Len(job') \in 0 .. MaxJobs
  BY <1>1, ManagerUpdateAssumption
<1>. QED
  BY <1>1, <1>2, <1>3, <1>4 DEF JobsInv

\* A handler's last transition, stored or not.
LEMMA RowEnds ==
    ASSUME JobsInv, NEW j \in DOMAIN job, NEW c \in {"definite", "unknown"},
           Failed(j, c) \/ UNCHANGED job
    PROVE  /\ JobsInv' /\ OnlyOutcome(j)
           /\ \/ job'[j].status = "failed" /\ job'[j].code = c
              \/ job'[j].status = job[j].status /\ job'[j].code = job[j].code
<1>1. CASE Failed(j, c)
  BY <1>1, RowFailed DEF Failed
<1>2. CASE UNCHANGED job
  BY <1>2 DEF JobsInv, OnlyOutcome
<1>. QED
  BY <1>1, <1>2

\* A row that was inserted, and whether its handler goes on.
Inserted(op, ref) ==
    /\ Len(job) + 1 \in Ids
    /\ DOMAIN job' = DOMAIN job \cup {Len(job) + 1} /\ Len(job') = Len(job) + 1
    /\ job'[Len(job) + 1].op = op /\ job'[Len(job) + 1].ref = ref
    /\ job'[Len(job) + 1].retention = "kept"
    /\ \A i \in DOMAIN job :
        /\ job'[i].op = job[i].op /\ job'[i].ref = job[i].ref
        /\ job'[i].status = job[i].status /\ job'[i].code = job[i].code
    /\ \/ /\ job'[Len(job) + 1].status = "pending"
          /\ call' = [call EXCEPT ![Len(job) + 1] = "created"]
       \/ /\ job'[Len(job) + 1].status \in {"pending", "failed"}
          /\ job'[Len(job) + 1].code = "none"
          /\ call' = call

\* What the three ways of an INSERT leave, for the table itself and for the
\* table with an evicted row.
LEMMA RowAdmitted ==
    ASSUME JobsInv, ShapeInv, Len(job) < MaxJobs,
           NEW jobs \in Seq(JobRec), Len(jobs) = Len(job),
           \A i \in DOMAIN job :
              /\ jobs[i].op = job[i].op /\ jobs[i].ref = job[i].ref
              /\ jobs[i].status = job[i].status /\ jobs[i].code = job[i].code,
           NEW op \in {"stage", "apply"}, NEW ref \in Discoveries \cup Ids,
           Insert(op, ref, jobs)
    PROVE  /\ JobsInv' /\ faults' \in 0 .. MaxFaults /\ unsaved' \subseteq Ids
           /\ \/ job' = job /\ call' = call
              \/ /\ Inserted(op, ref)
                 /\ \A i \in DOMAIN job : job'[i].retention = jobs[i].retention
<1>1. DOMAIN job = 1 .. Len(job) /\ Len(job) \in Nat /\ Len(job) + 1 \in Ids
  BY ManagerUpdateAssumption DEF JobsInv, Ids
<1>2. faults' \in 0 .. MaxFaults /\ unsaved' \subseteq Ids
  <2>1. faults' \in 0 .. MaxFaults
    BY ManagerUpdateAssumption DEF ShapeInv, Insert, Fault
  <2>2. unsaved' \subseteq Ids
    BY <1>1 DEF ShapeInv, Insert
  <2>. QED
    BY <2>1, <2>2
<1>3. CASE job' = job /\ call' = call
  BY <1>2, <1>3 DEF JobsInv
<1>4. ASSUME NEW v \in {"pending", "failed"}, job' = Append(jobs, NewJob(op, ref, v))
      PROVE  /\ JobsInv' /\ DOMAIN job' = DOMAIN job \cup {Len(job) + 1} /\ Len(job') = Len(job) + 1
             /\ job'[Len(job) + 1] = NewJob(op, ref, v)
             /\ \A i \in DOMAIN job : job'[i] = jobs[i]
  <2>1. NewJob(op, ref, v) \in JobRec
    BY <1>4 DEF NewJob, JobRec
  <2>2. /\ JobsInv' /\ DOMAIN job' = 1 .. Len(jobs) + 1 /\ job'[Len(jobs) + 1] = NewJob(op, ref, v)
        /\ \A i \in 1 .. Len(jobs) : job'[i] = jobs[i]
    BY <1>4, <2>1, RowInserted
  <2>3. Len(job') = Len(job) + 1
    BY <1>4, <2>1, AppendProperties
  <2>. QED
    BY <1>1, <2>2, <2>3
<1>5. CASE /\ job' = Append(jobs, NewJob(op, ref, "pending"))
           /\ call' = [call EXCEPT ![Len(jobs) + 1] = "created"]
  BY <1>1, <1>2, <1>4, <1>5 DEF Inserted, NewJob
<1>6. CASE job' = Append(jobs, NewJob(op, ref, "failed")) /\ call' = call
  BY <1>1, <1>2, <1>4, <1>6 DEF Inserted, NewJob
<1>7. CASE job' = Append(jobs, NewJob(op, ref, "pending")) /\ call' = call
  BY <1>1, <1>2, <1>4, <1>7 DEF Inserted, NewJob
<1>. QED
  BY <1>3, <1>5, <1>6, <1>7 DEF Insert

\* The candidate of an apply job is successful, so an open job is nobody's
\* candidate and its outcome changes no reference.
LEMMA RefKept ==
    ASSUME RefInv, NEW j \in DOMAIN job, Open(j), OnlyOutcome(j)
    PROVE  RefInv'
BY DEF RefInv, OnlyOutcome, Open

\* An open job is not among the completed ones.
LEMMA CompletedKept ==
    ASSUME CompletedInv, NEW j \in DOMAIN job, Open(j), OnlyOutcome(j), UNCHANGED completed
    PROVE  CompletedInv'
<1>1. ASSUME NEW i \in 1 .. Len(completed)
      PROVE  completed[i] \in DOMAIN job /\ completed[i] # j /\ job[completed[i]].op = "stage"
             /\ job[completed[i]].status = "succeeded"
  BY DEF CompletedInv, Open
<1>2. ASSUME NEW i \in 1 .. Len(completed)
      PROVE  completed[i] \in DOMAIN job' /\ job'[completed[i]].op = "stage"
             /\ job'[completed[i]].status = "succeeded"
  BY <1>1 DEF OnlyOutcome
<1>. QED
  BY <1>2 DEF CompletedInv

\* A stage job that succeeds is the latest of the completed ones.
LEMMA CompletedAppended ==
    ASSUME CompletedInv, NEW j \in DOMAIN job, j \in Nat, Open(j), OnlyOutcome(j),
           job[j].op = "stage", job'[j].status = "succeeded", completed' = Append(completed, j)
    PROVE  CompletedInv'
<1>1. completed' \in Seq(Nat) /\ Len(completed') = Len(completed) + 1
      /\ (\A i \in 1 .. Len(completed) : completed'[i] = completed[i])
      /\ completed'[Len(completed) + 1] = j
  BY AppendProperties DEF CompletedInv
<1>2. \A i \in 1 .. Len(completed') : i \in 1 .. Len(completed) \/ i = Len(completed) + 1
  BY <1>1 DEF CompletedInv
<1>3. \A i \in 1 .. Len(completed) :
        /\ completed'[i] \in DOMAIN job'
        /\ job'[completed'[i]].op = "stage" /\ job'[completed'[i]].status = "succeeded"
  <2>. SUFFICES ASSUME NEW i \in 1 .. Len(completed)
                PROVE  /\ completed[i] \in DOMAIN job'
                       /\ job'[completed[i]].op = "stage" /\ job'[completed[i]].status = "succeeded"
    BY <1>1
  <2>1. completed[i] \in DOMAIN job /\ completed[i] # j /\ job[completed[i]].op = "stage"
        /\ job[completed[i]].status = "succeeded"
    BY DEF CompletedInv, Open
  <2>. QED
    BY <2>1 DEF OnlyOutcome
<1>4. j \in DOMAIN job' /\ job'[j].op = "stage" /\ job'[j].status = "succeeded"
  BY DEF OnlyOutcome
<1>. QED
  BY <1>1, <1>2, <1>3, <1>4 DEF CompletedInv

\* The bound on faults.
LEMMA FaultCounted ==
    ASSUME ShapeInv, Fault
    PROVE  faults' \in 0 .. MaxFaults
BY ManagerUpdateAssumption DEF ShapeInv, Fault

\* A pin may go when root does not need it.
LEMMA RootKept ==
    ASSUME RootInv, NEW j \in DOMAIN job, OnlyOutcome(j), UNCHANGED <<root, dir, mutations>>,
           \A s \in pin \ pin' : root[s] \notin {"asked", "working"}
    PROVE  RootInv'
BY DEF RootInv, OnlyOutcome

(***************************************************************************)
(* One lemma per action                                                    *)
(***************************************************************************)
\* The first transition of a stage job.
LEMMA StageRunsStep ==
    ASSUME Inv, NEW j \in Ids, StageRuns(j)
    PROVE  Inv'
<1>. USE ManagerUpdateAssumption DEF Inv, Ids, Open, Places, At, StageRuns
<1>1. DOMAIN job \subseteq Ids /\ Len(job) \in Nat /\ DOMAIN job = 1 .. Len(job)
      /\ j \in DOMAIN job /\ Open(j)
  BY DEF JobsInv, CallInv
<1>2. JobsInv' /\ OnlyOutcome(j) /\ job'[j].status = "running" /\ job'[j].code = job[j].code
  BY <1>1, StatusUpdated
<1>3. ShapeInv'
  BY <1>1, <1>2 DEF ShapeInv, OnlyOutcome
<1>4. CallInv'
  BY <1>1, <1>2 DEF ShapeInv, CallInv, OnlyOutcome
<1>5. RefInv'
  BY <1>1, <1>2, RefKept
<1>6. RootInv'
  BY <1>1, <1>2, RootKept
<1>7. ApplyInv'
  BY <1>1, <1>2 DEF ShapeInv, CallInv, RefInv, RootInv, ApplyInv, OnlyOutcome
<1>8. StageInv'
  BY <1>1, <1>2 DEF ShapeInv, CallInv, StageInv, OnlyOutcome
<1>9. CompletedInv'
  BY <1>1, <1>2, CompletedKept
<1>10. EvictInv'
  BY <1>1, <1>2 DEF ShapeInv, CallInv, EvictInv, OnlyOutcome
<1>. QED
  BY <1>2, <1>3, <1>4, <1>5, <1>6, <1>7, <1>8, <1>9, <1>10

\* The first transition of an apply job.
LEMMA ApplyRunsStep ==
    ASSUME Inv, NEW j \in Ids, ApplyRuns(j)
    PROVE  Inv'
<1>. USE ManagerUpdateAssumption DEF Inv, Ids, Open, Places, At, ApplyRuns
<1>1. DOMAIN job \subseteq Ids /\ Len(job) \in Nat /\ DOMAIN job = 1 .. Len(job)
      /\ j \in DOMAIN job /\ Open(j)
  BY DEF JobsInv, CallInv
<1>2. JobsInv' /\ OnlyOutcome(j) /\ job'[j].status = "running" /\ job'[j].code = job[j].code
  BY <1>1, StatusUpdated
<1>3. ShapeInv'
  BY <1>1, <1>2 DEF ShapeInv, OnlyOutcome
<1>4. CallInv'
  BY <1>1, <1>2 DEF ShapeInv, CallInv, OnlyOutcome
<1>5. RefInv'
  BY <1>1, <1>2, RefKept
<1>6. RootInv'
  BY <1>1, <1>2, RootKept
<1>7. ApplyInv'
  BY <1>1, <1>2 DEF ShapeInv, CallInv, RefInv, RootInv, ApplyInv, OnlyOutcome
<1>8. StageInv'
  BY <1>1, <1>2 DEF ShapeInv, CallInv, StageInv, OnlyOutcome
<1>9. CompletedInv'
  BY <1>1, <1>2, CompletedKept
<1>10. EvictInv'
  BY <1>1, <1>2 DEF ShapeInv, CallInv, EvictInv, OnlyOutcome
<1>. QED
  BY <1>2, <1>3, <1>4, <1>5, <1>6, <1>7, <1>8, <1>9, <1>10

\* Recovery fails an open job without claiming to know the outcome.
LEMMA RecoverFailsStep ==
    ASSUME Inv, NEW j \in Ids, RecoverFails(j)
    PROVE  Inv'
<1>. USE ManagerUpdateAssumption DEF Inv, Ids, Open, Places, RecoverFails, Failed
<1>1. DOMAIN job \subseteq Ids /\ Len(job) \in Nat /\ DOMAIN job = 1 .. Len(job)
      /\ j \in DOMAIN job /\ Open(j)
  BY DEF JobsInv, Interrupted
<1>2. /\ JobsInv' /\ OnlyOutcome(j)
      /\ \/ job'[j].status = "failed" /\ job'[j].code = "unknown"
         \/ job'[j].status = job[j].status /\ job'[j].code = job[j].code
  BY <1>1, RowEnds DEF Failed
<1>3. ShapeInv'
  BY <1>1, <1>2 DEF ShapeInv, OnlyOutcome
<1>4. CallInv'
  BY <1>1, <1>2 DEF ShapeInv, CallInv, OnlyOutcome
<1>5. RefInv'
  BY <1>1, <1>2, RefKept
<1>6. RootInv'
  BY <1>1, <1>2, RootKept
<1>7. ApplyInv'
  BY <1>1, <1>2 DEF ShapeInv, CallInv, RefInv, RootInv, ApplyInv, OnlyOutcome
<1>8. StageInv'
  BY <1>1, <1>2 DEF ShapeInv, CallInv, StageInv, OnlyOutcome
<1>9. CompletedInv'
  BY <1>1, <1>2, CompletedKept
<1>10. EvictInv'
  BY <1>1, <1>2 DEF ShapeInv, CallInv, EvictInv, OnlyOutcome
<1>. QED
  BY <1>2, <1>3, <1>4, <1>5, <1>6, <1>7, <1>8, <1>9, <1>10

\* Root has not been asked.
LEMMA ApplyPinFailsStep ==
    ASSUME Inv, NEW j \in Ids, ApplyPinFails(j)
    PROVE  Inv'
<1>. USE ManagerUpdateAssumption DEF Inv, Ids, Open, Places, At, ApplyPinFails, ApplyEnds, Returns, Free, Fault, Failed
<1>1. DOMAIN job \subseteq Ids /\ Len(job) \in Nat /\ DOMAIN job = 1 .. Len(job)
      /\ j \in DOMAIN job /\ Open(j)
  BY DEF JobsInv, CallInv
<1>2. /\ JobsInv' /\ OnlyOutcome(j)
      /\ \/ job'[j].status = "failed" /\ job'[j].code = "definite"
         \/ job'[j].status = job[j].status /\ job'[j].code = job[j].code
  BY <1>1, RowEnds DEF Failed
<1>3. ShapeInv'
  BY <1>1, <1>2 DEF ShapeInv, OnlyOutcome
<1>4. CallInv'
  BY <1>1, <1>2 DEF ShapeInv, CallInv, OnlyOutcome
<1>5. RefInv'
  BY <1>1, <1>2, RefKept
<1>6. RootInv'
  BY <1>1, <1>2, RootKept
<1>7. ApplyInv'
  BY <1>1, <1>2 DEF ShapeInv, CallInv, RefInv, RootInv, ApplyInv, OnlyOutcome
<1>8. StageInv'
  BY <1>1, <1>2 DEF ShapeInv, CallInv, StageInv, OnlyOutcome
<1>9. CompletedInv'
  BY <1>1, <1>2, CompletedKept
<1>10. EvictInv'
  BY <1>1, <1>2 DEF ShapeInv, CallInv, EvictInv, OnlyOutcome
<1>. QED
  BY <1>2, <1>3, <1>4, <1>5, <1>6, <1>7, <1>8, <1>9, <1>10

\* The outcome stays open, and so does the pin.
LEMMA ApplyLostStep ==
    ASSUME Inv, NEW j \in Ids, ApplyLost(j)
    PROVE  Inv'
<1>. USE ManagerUpdateAssumption DEF Inv, Ids, Open, Places, At, ApplyLost, ApplyEnds, Returns, Free, Fault, Failed
<1>1. DOMAIN job \subseteq Ids /\ Len(job) \in Nat /\ DOMAIN job = 1 .. Len(job)
      /\ j \in DOMAIN job /\ Open(j)
  BY DEF JobsInv, CallInv
<1>2. /\ JobsInv' /\ OnlyOutcome(j)
      /\ \/ job'[j].status = "failed" /\ job'[j].code = "unknown"
         \/ job'[j].status = job[j].status /\ job'[j].code = job[j].code
  BY <1>1, RowEnds DEF Failed
<1>3. ShapeInv'
  BY <1>1, <1>2 DEF ShapeInv, OnlyOutcome
<1>4. CallInv'
  BY <1>1, <1>2 DEF ShapeInv, CallInv, OnlyOutcome
<1>5. RefInv'
  BY <1>1, <1>2, RefKept
<1>6. RootInv'
  BY <1>1, <1>2, RootKept
<1>7. ApplyInv'
  BY <1>1, <1>2 DEF ShapeInv, ApplyInv, OnlyOutcome
<1>8. StageInv'
  BY <1>1, <1>2 DEF ShapeInv, CallInv, StageInv, OnlyOutcome
<1>9. CompletedInv'
  BY <1>1, <1>2, CompletedKept
<1>10. EvictInv'
  BY <1>1, <1>2 DEF ShapeInv, CallInv, EvictInv, OnlyOutcome
<1>. QED
  BY <1>2, <1>3, <1>4, <1>5, <1>6, <1>7, <1>8, <1>9, <1>10

\* Root has not been asked, so nobody needs the pin.
LEMMA ApplySendFailsStep ==
    ASSUME Inv, NEW j \in Ids, ApplySendFails(j)
    PROVE  Inv'
<1>. USE ManagerUpdateAssumption DEF Inv, Ids, Open, Places, At, ApplySendFails, ApplyEnds, Returns, Free, Fault, Failed
<1>1. DOMAIN job \subseteq Ids /\ Len(job) \in Nat /\ DOMAIN job = 1 .. Len(job)
      /\ j \in DOMAIN job /\ Open(j)
  BY DEF JobsInv, CallInv
<1>2. /\ JobsInv' /\ OnlyOutcome(j)
      /\ \/ job'[j].status = "failed" /\ job'[j].code = "definite"
         \/ job'[j].status = job[j].status /\ job'[j].code = job[j].code
  BY <1>1, RowEnds DEF Failed
<1>3. ShapeInv'
  BY <1>1, <1>2 DEF ShapeInv, OnlyOutcome
<1>4. CallInv'
  BY <1>1, <1>2 DEF ShapeInv, CallInv, OnlyOutcome
<1>5. RefInv'
  BY <1>1, <1>2, RefKept
<1>6. RootInv'
  <2>1. job[j].ref \in Ids /\ root[job[j].ref] \notin {"asked", "working"}
    BY <1>1 DEF RefInv, ApplyInv
  <2>. QED
    BY <1>1, <1>2, <2>1, RootKept
<1>7. ApplyInv'
  BY <1>1, <1>2 DEF ShapeInv, CallInv, RefInv, RootInv, ApplyInv, OnlyOutcome
<1>8. StageInv'
  BY <1>1, <1>2 DEF ShapeInv, CallInv, StageInv, OnlyOutcome
<1>9. CompletedInv'
  BY <1>1, <1>2, CompletedKept
<1>10. EvictInv'
  BY <1>1, <1>2 DEF ShapeInv, CallInv, EvictInv, OnlyOutcome
<1>. QED
  BY <1>2, <1>3, <1>4, <1>5, <1>6, <1>7, <1>8, <1>9, <1>10

\* Root has ended, so nobody needs the pin.
LEMMA ApplyRejectedStep ==
    ASSUME Inv, NEW j \in Ids, ApplyRejected(j)
    PROVE  Inv'
<1>. USE ManagerUpdateAssumption DEF Inv, Ids, Open, Places, At, ApplyRejected, Rejections, ApplyEnds, Returns, Free, Fault, Failed
<1>1. DOMAIN job \subseteq Ids /\ Len(job) \in Nat /\ DOMAIN job = 1 .. Len(job)
      /\ j \in DOMAIN job /\ Open(j)
  BY DEF JobsInv, CallInv
<1>2. /\ JobsInv' /\ OnlyOutcome(j)
      /\ \/ job'[j].status = "failed" /\ job'[j].code = "definite"
         \/ job'[j].status = job[j].status /\ job'[j].code = job[j].code
  BY <1>1, RowEnds DEF Failed
<1>3. ShapeInv'
  BY <1>1, <1>2 DEF ShapeInv, OnlyOutcome
<1>4. CallInv'
  BY <1>1, <1>2 DEF ShapeInv, CallInv, OnlyOutcome
<1>5. RefInv'
  BY <1>1, <1>2, RefKept
<1>6. RootInv'
  <2>1. job[j].ref \in Ids /\ root[job[j].ref] \notin {"asked", "working"}
    BY <1>1 DEF RefInv, ApplyInv
  <2>. QED
    BY <1>1, <1>2, <2>1, RootKept
<1>7. ApplyInv'
  BY <1>1, <1>2 DEF ShapeInv, CallInv, RefInv, RootInv, ApplyInv, OnlyOutcome
<1>8. StageInv'
  BY <1>1, <1>2 DEF ShapeInv, CallInv, StageInv, OnlyOutcome
<1>9. CompletedInv'
  BY <1>1, <1>2, CompletedKept
<1>10. EvictInv'
  BY <1>1, <1>2 DEF ShapeInv, CallInv, EvictInv, OnlyOutcome
<1>. QED
  BY <1>2, <1>3, <1>4, <1>5, <1>6, <1>7, <1>8, <1>9, <1>10

\* Files of a candidate that root has not been given.
LEMMA StageDownloadsStep ==
    ASSUME Inv, NEW j \in Ids, StageDownloads(j)
    PROVE  Inv'
<1>. USE ManagerUpdateAssumption DEF Inv, Ids, Open, Places, At, StageDownloads
<1>1. DOMAIN job \subseteq Ids /\ Len(job) \in Nat /\ DOMAIN job = 1 .. Len(job)
      /\ j \in DOMAIN job /\ Open(j)
  BY DEF JobsInv, CallInv
<1>2. JobsInv'
  BY DEF JobsInv
<1>3. ShapeInv'
  BY <1>1, <1>2 DEF ShapeInv
<1>4. CallInv'
  BY <1>1, <1>2 DEF ShapeInv, CallInv
<1>5. RefInv'
  BY <1>1, <1>2 DEF ShapeInv, CallInv, RefInv
<1>6. RootInv'
  BY <1>1, <1>2 DEF ShapeInv, CallInv, RefInv, RootInv, ApplyInv
<1>7. ApplyInv'
  BY <1>1, <1>2 DEF ShapeInv, CallInv, RefInv, RootInv, ApplyInv
<1>8. StageInv'
  BY <1>1, <1>2 DEF ShapeInv, CallInv, StageInv
<1>9. CompletedInv'
  BY <1>1, <1>2 DEF CompletedInv
<1>10. EvictInv'
  BY <1>1, <1>2 DEF ShapeInv, CallInv, EvictInv
<1>. QED
  BY <1>2, <1>3, <1>4, <1>5, <1>6, <1>7, <1>8, <1>9, <1>10

\* The candidate is complete before its job says so.
LEMMA StageVerifiedStep ==
    ASSUME Inv, NEW j \in Ids, StageVerified(j)
    PROVE  Inv'
<1>. USE ManagerUpdateAssumption DEF Inv, Ids, Open, Places, At, StageVerified
<1>1. DOMAIN job \subseteq Ids /\ Len(job) \in Nat /\ DOMAIN job = 1 .. Len(job)
      /\ j \in DOMAIN job /\ Open(j)
  BY DEF JobsInv, CallInv
<1>2. JobsInv'
  BY DEF JobsInv
<1>3. ShapeInv'
  BY <1>1, <1>2 DEF ShapeInv
<1>4. CallInv'
  BY <1>1, <1>2 DEF ShapeInv, CallInv
<1>5. RefInv'
  BY <1>1, <1>2 DEF ShapeInv, CallInv, RefInv
<1>6. RootInv'
  BY <1>1, <1>2 DEF ShapeInv, CallInv, RefInv, RootInv, ApplyInv
<1>7. ApplyInv'
  BY <1>1, <1>2 DEF ShapeInv, CallInv, RefInv, RootInv, ApplyInv
<1>8. StageInv'
  BY <1>1, <1>2 DEF ShapeInv, CallInv, StageInv
<1>9. CompletedInv'
  BY <1>1, <1>2 DEF CompletedInv
<1>10. EvictInv'
  BY <1>1, <1>2 DEF ShapeInv, CallInv, EvictInv
<1>. QED
  BY <1>2, <1>3, <1>4, <1>5, <1>6, <1>7, <1>8, <1>9, <1>10

\* The pin is there before the request is sent.
LEMMA ApplyPinsStep ==
    ASSUME Inv, NEW j \in Ids, ApplyPins(j)
    PROVE  Inv'
<1>. USE ManagerUpdateAssumption DEF Inv, Ids, Open, Places, At, ApplyPins
<1>1. DOMAIN job \subseteq Ids /\ Len(job) \in Nat /\ DOMAIN job = 1 .. Len(job)
      /\ j \in DOMAIN job /\ Open(j)
  BY DEF JobsInv, CallInv
<1>2. JobsInv'
  BY DEF JobsInv
<1>3. ShapeInv'
  <2>1. job[j].ref \in Ids
    BY <1>1 DEF RefInv
  <2>. QED
    BY <2>1 DEF ShapeInv
<1>4. CallInv'
  BY <1>1, <1>2 DEF ShapeInv, CallInv
<1>5. RefInv'
  BY <1>1, <1>2 DEF ShapeInv, CallInv, RefInv
<1>6. RootInv'
  BY <1>1, <1>2 DEF ShapeInv, CallInv, RefInv, RootInv, ApplyInv
<1>7. ApplyInv'
  BY <1>1, <1>2 DEF ShapeInv, CallInv, RefInv, RootInv, ApplyInv
<1>8. StageInv'
  BY <1>1, <1>2 DEF ShapeInv, CallInv, StageInv
<1>9. CompletedInv'
  BY <1>1, <1>2 DEF CompletedInv
<1>10. EvictInv'
  BY <1>1, <1>2 DEF ShapeInv, CallInv, EvictInv
<1>. QED
  BY <1>2, <1>3, <1>4, <1>5, <1>6, <1>7, <1>8, <1>9, <1>10

\* No other apply job has this candidate, so root was idle.
LEMMA ApplySendsStep ==
    ASSUME Inv, NEW j \in Ids, ApplySends(j)
    PROVE  Inv'
<1>. USE ManagerUpdateAssumption DEF Inv, Ids, Open, Places, At, ApplySends
<1>1. DOMAIN job \subseteq Ids /\ Len(job) \in Nat /\ DOMAIN job = 1 .. Len(job)
      /\ j \in DOMAIN job /\ Open(j)
  BY DEF JobsInv, CallInv
<1>2. JobsInv'
  BY DEF JobsInv
<1>3. ShapeInv'
  <2>1. root' \in [Ids -> RootStates]
    BY <1>1 DEF ShapeInv, RootStates
  <2>. QED
    BY <1>1, <2>1 DEF ShapeInv
<1>4. CallInv'
  BY <1>1, <1>2 DEF ShapeInv, CallInv
<1>5. RefInv'
  BY <1>1, <1>2 DEF ShapeInv, CallInv, RefInv
<1>6. RootInv'
  BY <1>1, <1>2 DEF ShapeInv, CallInv, RefInv, RootInv, ApplyInv
<1>7. ApplyInv'
  BY <1>1, <1>2 DEF ShapeInv, CallInv, RefInv, RootInv, ApplyInv
<1>8. StageInv'
  BY <1>1, <1>2 DEF ShapeInv, CallInv, StageInv
<1>9. CompletedInv'
  BY <1>1, <1>2 DEF CompletedInv
<1>10. EvictInv'
  BY <1>1, <1>2 DEF ShapeInv, CallInv, EvictInv
<1>. QED
  BY <1>2, <1>3, <1>4, <1>5, <1>6, <1>7, <1>8, <1>9, <1>10

\* Root reads a pinned candidate that is complete.
LEMMA RootBeginsStep ==
    ASSUME Inv, NEW s \in Ids, RootBegins(s)
    PROVE  Inv'
<1>. USE ManagerUpdateAssumption DEF Inv, Ids, Open, Places, RootBegins
<1>1. DOMAIN job \subseteq Ids /\ Len(job) \in Nat /\ DOMAIN job = 1 .. Len(job)
  BY DEF JobsInv
<1>2. JobsInv'
  BY DEF JobsInv
<1>3. ShapeInv'
  <2>1. root' \in [Ids -> RootStates]
    BY DEF ShapeInv, RootStates
  <2>. QED
    BY <2>1 DEF ShapeInv
<1>4. CallInv'
  BY <1>1, <1>2 DEF ShapeInv, CallInv
<1>5. RefInv'
  BY <1>1, <1>2 DEF ShapeInv, CallInv, RefInv
<1>6. RootInv'
  BY <1>1, <1>2 DEF ShapeInv, CallInv, RefInv, RootInv, ApplyInv
<1>7. ApplyInv'
  BY <1>1, <1>2 DEF ShapeInv, CallInv, RefInv, RootInv, ApplyInv, Rejections
<1>8. StageInv'
  BY <1>1, <1>2 DEF ShapeInv, CallInv, StageInv
<1>9. CompletedInv'
  BY <1>1, <1>2 DEF CompletedInv
<1>10. EvictInv'
  BY <1>1, <1>2 DEF ShapeInv, CallInv, EvictInv
<1>. QED
  BY <1>2, <1>3, <1>4, <1>5, <1>6, <1>7, <1>8, <1>9, <1>10

\* The first transaction of this candidate; Manager and its handlers may be gone.
LEMMA RootMutatesStep ==
    ASSUME Inv, NEW s \in Ids, RootMutates(s)
    PROVE  Inv'
<1>. USE ManagerUpdateAssumption DEF Inv, Ids, Open, Places, Free, Stopped, RootMutates
<1>1. DOMAIN job \subseteq Ids /\ Len(job) \in Nat /\ DOMAIN job = 1 .. Len(job)
  BY DEF JobsInv
<1>2. JobsInv'
  BY DEF JobsInv
<1>3. ShapeInv'
  <2>1. root' \in [Ids -> RootStates]
    BY DEF ShapeInv, RootStates
  <2>2. mutations' \in [Ids -> {0, 1}]
    BY DEF ShapeInv, RootInv
  <2>3. lock' \in [kind : {"free", "evict", "evicted", "apply"},
                  job : 0 .. MaxJobs, for : Discoveries \cup 0 .. MaxJobs]
    BY DEF ShapeInv
  <2>4. call' \in [Ids -> Places] /\ up' \in BOOLEAN
    BY DEF ShapeInv
  <2>. QED
    BY <2>1, <2>2, <2>3, <2>4 DEF ShapeInv
<1>4. CallInv'
  BY <1>1, <1>2 DEF ShapeInv, CallInv
<1>5. RefInv'
  BY <1>1, <1>2 DEF ShapeInv, CallInv, RefInv
<1>6. RootInv'
  BY <1>1, <1>2 DEF ShapeInv, CallInv, RefInv, RootInv, ApplyInv
<1>7. ApplyInv'
  BY <1>1, <1>2 DEF ShapeInv, CallInv, RefInv, RootInv, ApplyInv, Rejections
<1>8. StageInv'
  BY <1>1, <1>2 DEF ShapeInv, CallInv, StageInv
<1>9. CompletedInv'
  BY <1>1, <1>2 DEF CompletedInv
<1>10. EvictInv'
  BY <1>1, <1>2 DEF ShapeInv, CallInv, EvictInv
<1>. QED
  BY <1>2, <1>3, <1>4, <1>5, <1>6, <1>7, <1>8, <1>9, <1>10

\* The pin is removed when root no longer reads.
LEMMA RootEndsStep ==
    ASSUME Inv, NEW s \in Ids, RootEnds(s)
    PROVE  Inv'
<1>. USE ManagerUpdateAssumption DEF Inv, Ids, Open, Places, TransactionEnds, RootEnds
<1>1. DOMAIN job \subseteq Ids /\ Len(job) \in Nat /\ DOMAIN job = 1 .. Len(job)
  BY DEF JobsInv
<1>2. JobsInv'
  BY DEF JobsInv
<1>3. ShapeInv'
  <2>1. root' \in [Ids -> RootStates]
    BY DEF ShapeInv, RootStates
  <2>. QED
    BY <2>1 DEF ShapeInv
<1>4. CallInv'
  BY <1>1, <1>2 DEF ShapeInv, CallInv
<1>5. RefInv'
  BY <1>1, <1>2 DEF ShapeInv, CallInv, RefInv
<1>6. RootInv'
  <2>1. PICK r \in {"refused", "ok", "restored", "dirty"} :
         /\ root' = [root EXCEPT ![s] = r] /\ root[s] \in {"asked", "working", "mutating"}
         /\ root[s] \in {"asked", "working"} <=> r = "refused"
    OBVIOUS
  <2>. QED
    BY <1>1, <2>1 DEF ShapeInv, RootInv
<1>7. ApplyInv'
  BY <1>1, <1>2 DEF ShapeInv, CallInv, RefInv, RootInv, ApplyInv, Rejections
<1>8. StageInv'
  BY <1>1, <1>2 DEF ShapeInv, CallInv, StageInv
<1>9. CompletedInv'
  BY <1>1, <1>2 DEF CompletedInv
<1>10. EvictInv'
  BY <1>1, <1>2 DEF ShapeInv, CallInv, EvictInv
<1>. QED
  BY <1>2, <1>3, <1>4, <1>5, <1>6, <1>7, <1>8, <1>9, <1>10

\* The victim is a successful stage job.
LEMMA EvictBeginsStep ==
    ASSUME Inv, NEW d \in Discoveries, NEW j \in Ids, EvictBegins(d, j)
    PROVE  Inv'
<1>. USE ManagerUpdateAssumption DEF Inv, Ids, Open, Places, EvictBegins, CanAdmit, Free
<1>1. DOMAIN job \subseteq Ids /\ Len(job) \in Nat /\ DOMAIN job = 1 .. Len(job)
      /\ j \in DOMAIN job /\ job[j].op = "stage" /\ job[j].status = "succeeded"
  BY DEF JobsInv, IsEvictionCandidate, Victims, CompletedInv
<1>2. /\ JobsInv' /\ DOMAIN job' = DOMAIN job /\ Len(job') = Len(job)
      /\ \A i \in DOMAIN job :
             /\ job'[i].op = job[i].op /\ job'[i].ref = job[i].ref
             /\ job'[i].status = job[i].status /\ job'[i].code = job[i].code
             /\ job'[i].retention = IF i = j THEN "evicting" ELSE job[i].retention
  BY <1>1, RetentionUpdated
<1>3. ShapeInv'
  BY <1>1, <1>2 DEF ShapeInv
<1>4. CallInv'
  BY <1>1, <1>2 DEF ShapeInv, CallInv
<1>5. RefInv'
  BY <1>1, <1>2 DEF ShapeInv, CallInv, RefInv
<1>6. RootInv'
  BY <1>1, <1>2 DEF ShapeInv, CallInv, RefInv, RootInv, ApplyInv
<1>7. ApplyInv'
  BY <1>1, <1>2 DEF ShapeInv, CallInv, RefInv, RootInv, ApplyInv
<1>8. StageInv'
  BY <1>1, <1>2 DEF ShapeInv, CallInv, StageInv
<1>9. CompletedInv'
  BY <1>1, <1>2 DEF CompletedInv
<1>10. EvictInv'
  BY <1>1, <1>2 DEF ShapeInv, CallInv, EvictInv
<1>. QED
  BY <1>2, <1>3, <1>4, <1>5, <1>6, <1>7, <1>8, <1>9, <1>10

\* A pinned candidate is not cleaned, so root does not work from it.
LEMMA EvictCleansStep ==
    ASSUME Inv, EvictCleans
    PROVE  Inv'
<1>. USE ManagerUpdateAssumption DEF Inv, Ids, Open, Places, Cleanable, EvictCleans
<1>1. DOMAIN job \subseteq Ids /\ Len(job) \in Nat /\ DOMAIN job = 1 .. Len(job)
  BY DEF JobsInv
<1>2. JobsInv'
  BY DEF JobsInv
<1>3. ShapeInv'
  BY <1>1, <1>2 DEF ShapeInv
<1>4. CallInv'
  BY <1>1, <1>2 DEF ShapeInv, CallInv
<1>5. RefInv'
  BY <1>1, <1>2 DEF ShapeInv, CallInv, RefInv
<1>6. RootInv'
  BY <1>1, <1>2 DEF ShapeInv, CallInv, RefInv, RootInv, ApplyInv
<1>7. ApplyInv'
  BY <1>1, <1>2 DEF ShapeInv, CallInv, RefInv, RootInv, ApplyInv
<1>8. StageInv'
  <2>1. lock.job \in DOMAIN job /\ job[lock.job].retention = "evicting" /\ call[lock.job] = "none"
    BY <1>1 DEF CallInv, EvictInv
  <2>. QED
    BY <1>1, <2>1 DEF ShapeInv, StageInv
<1>9. CompletedInv'
  BY <1>1, <1>2 DEF CompletedInv
<1>10. EvictInv'
  BY <1>1, <1>2 DEF ShapeInv, CallInv, EvictInv
<1>. QED
  BY <1>2, <1>3, <1>4, <1>5, <1>6, <1>7, <1>8, <1>9, <1>10

\* The victim stays marked.
LEMMA EvictRefusedStep ==
    ASSUME Inv, EvictRefused
    PROVE  Inv'
<1>. USE ManagerUpdateAssumption DEF Inv, Ids, Open, Places, Free, Fault, EvictRefused
<1>1. DOMAIN job \subseteq Ids /\ Len(job) \in Nat /\ DOMAIN job = 1 .. Len(job)
  BY DEF JobsInv
<1>2. JobsInv'
  BY DEF JobsInv
<1>3. ShapeInv'
  BY <1>1, <1>2 DEF ShapeInv
<1>4. CallInv'
  BY <1>1, <1>2 DEF ShapeInv, CallInv
<1>5. RefInv'
  BY <1>1, <1>2 DEF ShapeInv, CallInv, RefInv
<1>6. RootInv'
  BY <1>1, <1>2 DEF ShapeInv, CallInv, RefInv, RootInv, ApplyInv
<1>7. ApplyInv'
  BY <1>1, <1>2 DEF ShapeInv, CallInv, RefInv, RootInv, ApplyInv
<1>8. StageInv'
  BY <1>1, <1>2 DEF ShapeInv, CallInv, StageInv
<1>9. CompletedInv'
  BY <1>1, <1>2 DEF CompletedInv
<1>10. EvictInv'
  BY <1>1, <1>2 DEF ShapeInv, CallInv, EvictInv
<1>. QED
  BY <1>2, <1>3, <1>4, <1>5, <1>6, <1>7, <1>8, <1>9, <1>10

\* The victim stays marked.
LEMMA EvictAbortsStep ==
    ASSUME Inv, EvictAborts
    PROVE  Inv'
<1>. USE ManagerUpdateAssumption DEF Inv, Ids, Open, Places, Free, Fault, EvictAborts
<1>1. DOMAIN job \subseteq Ids /\ Len(job) \in Nat /\ DOMAIN job = 1 .. Len(job)
  BY DEF JobsInv
<1>2. JobsInv'
  BY DEF JobsInv
<1>3. ShapeInv'
  BY <1>1, <1>2 DEF ShapeInv
<1>4. CallInv'
  BY <1>1, <1>2 DEF ShapeInv, CallInv
<1>5. RefInv'
  BY <1>1, <1>2 DEF ShapeInv, CallInv, RefInv
<1>6. RootInv'
  BY <1>1, <1>2 DEF ShapeInv, CallInv, RefInv, RootInv, ApplyInv
<1>7. ApplyInv'
  BY <1>1, <1>2 DEF ShapeInv, CallInv, RefInv, RootInv, ApplyInv
<1>8. StageInv'
  BY <1>1, <1>2 DEF ShapeInv, CallInv, StageInv
<1>9. CompletedInv'
  BY <1>1, <1>2 DEF CompletedInv
<1>10. EvictInv'
  BY <1>1, <1>2 DEF ShapeInv, CallInv, EvictInv
<1>. QED
  BY <1>2, <1>3, <1>4, <1>5, <1>6, <1>7, <1>8, <1>9, <1>10

\* Handlers and the lock are gone; jobs, files, pins and root are not.
LEMMA ManagerStopsStep ==
    ASSUME Inv, ManagerStops
    PROVE  Inv'
<1>. USE ManagerUpdateAssumption DEF Inv, Ids, Open, Places, Free, Fault, Stopped, ManagerStops
<1>1. DOMAIN job \subseteq Ids /\ Len(job) \in Nat /\ DOMAIN job = 1 .. Len(job)
  BY DEF JobsInv
<1>2. JobsInv'
  BY DEF JobsInv
<1>3. ShapeInv'
  <2>1. up' \in BOOLEAN
    OBVIOUS
  <2>2. lock' \in [kind : {"free", "evict", "evicted", "apply"},
                  job : 0 .. MaxJobs, for : Discoveries \cup 0 .. MaxJobs]
    OBVIOUS
  <2>3. call' \in [Ids -> Places] /\ faults' \in 0 .. MaxFaults
    BY DEF ShapeInv
  <2>4. root' \in [Ids -> RootStates]
    BY DEF ShapeInv, RootStates
  <2>. QED
    BY <2>1, <2>2, <2>3, <2>4 DEF ShapeInv
<1>4. CallInv'
  BY <1>1, <1>2 DEF ShapeInv, CallInv
<1>5. RefInv'
  BY <1>1, <1>2 DEF ShapeInv, CallInv, RefInv
<1>6. RootInv'
  BY <1>1, <1>2 DEF ShapeInv, CallInv, RefInv, RootInv, ApplyInv
<1>7. ApplyInv'
  BY <1>1, <1>2 DEF ShapeInv, CallInv, RefInv, RootInv, ApplyInv
<1>8. StageInv'
  BY <1>1, <1>2 DEF ShapeInv, CallInv, StageInv
<1>9. CompletedInv'
  BY <1>1, <1>2 DEF CompletedInv
<1>10. EvictInv'
  BY <1>1, <1>2 DEF ShapeInv, CallInv, EvictInv
<1>. QED
  BY <1>2, <1>3, <1>4, <1>5, <1>6, <1>7, <1>8, <1>9, <1>10

\* Root stops as well and never resumes.
LEMMA HostStopsStep ==
    ASSUME Inv, HostStops
    PROVE  Inv'
<1>. USE ManagerUpdateAssumption DEF Inv, Ids, Open, Places, Free, Fault, Stopped, HostStops
<1>1. DOMAIN job \subseteq Ids /\ Len(job) \in Nat /\ DOMAIN job = 1 .. Len(job)
  BY DEF JobsInv
<1>2. JobsInv'
  BY DEF JobsInv
<1>3. ShapeInv'
  <2>1. up' \in BOOLEAN
    OBVIOUS
  <2>2. lock' \in [kind : {"free", "evict", "evicted", "apply"},
                  job : 0 .. MaxJobs, for : Discoveries \cup 0 .. MaxJobs]
    OBVIOUS
  <2>3. call' \in [Ids -> Places] /\ faults' \in 0 .. MaxFaults
    BY DEF ShapeInv
  <2>4. root' \in [Ids -> RootStates]
    BY DEF ShapeInv, RootStates
  <2>. QED
    BY <2>1, <2>2, <2>3, <2>4 DEF ShapeInv
<1>4. CallInv'
  BY <1>1, <1>2 DEF ShapeInv, CallInv
<1>5. RefInv'
  BY <1>1, <1>2 DEF ShapeInv, CallInv, RefInv
<1>6. RootInv'
  BY <1>1, <1>2 DEF ShapeInv, CallInv, RefInv, RootInv, ApplyInv
<1>7. ApplyInv'
  BY <1>1, <1>2 DEF ShapeInv, CallInv, RefInv, RootInv, ApplyInv, Rejections
<1>8. StageInv'
  BY <1>1, <1>2 DEF ShapeInv, CallInv, StageInv
<1>9. CompletedInv'
  BY <1>1, <1>2 DEF CompletedInv
<1>10. EvictInv'
  BY <1>1, <1>2 DEF ShapeInv, CallInv, EvictInv
<1>. QED
  BY <1>2, <1>3, <1>4, <1>5, <1>6, <1>7, <1>8, <1>9, <1>10

\* Only files of an open job, which root was never given.
LEMMA RecoverCleansStep ==
    ASSUME Inv, NEW j \in Ids, RecoverCleans(j)
    PROVE  Inv'
<1>. USE ManagerUpdateAssumption DEF Inv, Ids, Open, Places, IsStage, Cleanable, RecoverCleans
<1>1. DOMAIN job \subseteq Ids /\ Len(job) \in Nat /\ DOMAIN job = 1 .. Len(job)
      /\ j \in DOMAIN job /\ Open(j)
  BY DEF JobsInv, Interrupted
<1>2. JobsInv'
  BY DEF JobsInv
<1>3. ShapeInv'
  BY <1>1, <1>2 DEF ShapeInv
<1>4. CallInv'
  BY <1>1, <1>2 DEF ShapeInv, CallInv
<1>5. RefInv'
  BY <1>1, <1>2 DEF ShapeInv, CallInv, RefInv
<1>6. RootInv'
  BY <1>1, <1>2 DEF ShapeInv, CallInv, RefInv, RootInv, ApplyInv
<1>7. ApplyInv'
  BY <1>1, <1>2 DEF ShapeInv, CallInv, RefInv, RootInv, ApplyInv
<1>8. StageInv'
  BY <1>1, <1>2 DEF ShapeInv, CallInv, StageInv
<1>9. CompletedInv'
  BY <1>1, <1>2 DEF CompletedInv
<1>10. EvictInv'
  BY <1>1, <1>2 DEF ShapeInv, CallInv, EvictInv
<1>. QED
  BY <1>2, <1>3, <1>4, <1>5, <1>6, <1>7, <1>8, <1>9, <1>10

\* Serving again changes nothing else.
LEMMA ManagerServesStep ==
    ASSUME Inv, ManagerServes
    PROVE  Inv'
<1>. USE ManagerUpdateAssumption DEF Inv, Ids, Open, Places, ManagerServes
<1>1. DOMAIN job \subseteq Ids /\ Len(job) \in Nat /\ DOMAIN job = 1 .. Len(job)
  BY DEF JobsInv
<1>2. JobsInv'
  BY DEF JobsInv
<1>3. ShapeInv'
  BY <1>1, <1>2 DEF ShapeInv
<1>4. CallInv'
  BY <1>1, <1>2 DEF ShapeInv, CallInv
<1>5. RefInv'
  BY <1>1, <1>2 DEF ShapeInv, CallInv, RefInv
<1>6. RootInv'
  BY <1>1, <1>2 DEF ShapeInv, CallInv, RefInv, RootInv, ApplyInv
<1>7. ApplyInv'
  BY <1>1, <1>2 DEF ShapeInv, CallInv, RefInv, RootInv, ApplyInv
<1>8. StageInv'
  BY <1>1, <1>2 DEF ShapeInv, CallInv, StageInv
<1>9. CompletedInv'
  BY <1>1, <1>2 DEF CompletedInv
<1>10. EvictInv'
  BY <1>1, <1>2 DEF ShapeInv, CallInv, EvictInv
<1>. QED
  BY <1>2, <1>3, <1>4, <1>5, <1>6, <1>7, <1>8, <1>9, <1>10

\* Files of an open job are removed, which root was never given; the job is
\* failed only without them.
LEMMA FailAndCleanupStep ==
    ASSUME Inv, NEW j \in Ids, j \in DOMAIN job, Open(j), job[j].op = "stage",
           FailAndCleanup(j), UNCHANGED <<lock, completed, pin, root, up, mutations>>
    PROVE  Inv'
<1>. USE ManagerUpdateAssumption DEF Inv, Ids, Open, Places, FailAndCleanup, Returns, Fault, Failed
<1>1. DOMAIN job \subseteq Ids /\ Len(job) \in Nat /\ DOMAIN job = 1 .. Len(job)
      /\ j \in DOMAIN job /\ Open(j)
  BY DEF JobsInv
<1>2. /\ JobsInv' /\ OnlyOutcome(j)
      /\ \/ job'[j].status = "failed" /\ job'[j].code = "definite"
         \/ job'[j].status = job[j].status /\ job'[j].code = job[j].code
  BY <1>1, RowEnds DEF Failed
<1>3. ShapeInv'
  <2>1. dir' \in [Ids -> {"absent", "partial", "final"}]
    BY DEF ShapeInv
  <2>2. faults' \in 0 .. MaxFaults /\ unsaved' \subseteq Ids
    BY FaultCounted DEF ShapeInv
  <2>3. call' \in [Ids -> Places]
    BY DEF ShapeInv
  <2>. QED
    BY <2>1, <2>2, <2>3 DEF ShapeInv
<1>4. CallInv'
  BY <1>1, <1>2 DEF ShapeInv, CallInv, OnlyOutcome
<1>5. RefInv'
  BY <1>1, <1>2, RefKept
<1>6. RootInv'
  <2>1. root[j] # "working"
    BY <1>1 DEF RefInv, RootInv
  <2>2. dir' = dir \/ dir' = [dir EXCEPT ![j] = "absent"]
    OBVIOUS
  <2>3. \A s \in Ids : root[s] = "working" => dir'[s] = "final"
    BY <1>1, <2>1, <2>2 DEF ShapeInv, RootInv
  <2>. QED
    BY <1>1, <1>2, <2>3 DEF RootInv, OnlyOutcome
<1>7. ApplyInv'
  BY <1>1, <1>2 DEF ShapeInv, ApplyInv, OnlyOutcome
<1>8. StageInv'
  BY <1>1, <1>2 DEF ShapeInv, CallInv, StageInv, OnlyOutcome
<1>9. CompletedInv'
  BY <1>1, <1>2, CompletedKept
<1>10. EvictInv'
  BY <1>1, <1>2 DEF ShapeInv, CallInv, EvictInv, OnlyOutcome
<1>. QED
  BY <1>2, <1>3, <1>4, <1>5, <1>6, <1>7, <1>8, <1>9, <1>10

\* MarkRunning or the download fails.
LEMMA StageFailsStep ==
    ASSUME Inv, NEW j \in Ids, StageFails(j)
    PROVE  Inv'
<1>1. j \in DOMAIN job /\ Open(j) /\ job[j].op = "stage"
  BY DEF Inv, CallInv, StageFails, At
<1>. QED
  BY <1>1, FailAndCleanupStep DEF StageFails

\* CompleteStage is stored: the candidate is complete.
LEMMA StageSucceedsStep ==
    ASSUME Inv, NEW j \in Ids, At(j, "stage", "staged"), Succeeds(j), Returns(j),
           UNCHANGED <<lock, dir, pin, root, up, mutations>>,
           faults' \in 0 .. MaxFaults, unsaved' \subseteq Ids
    PROVE  Inv'
<1>. USE ManagerUpdateAssumption DEF Inv, Ids, Open, Places, At, Succeeds, Returns, IsStage
<1>1. DOMAIN job \subseteq Ids /\ Len(job) \in Nat /\ DOMAIN job = 1 .. Len(job)
      /\ j \in DOMAIN job /\ Open(j)
  BY DEF JobsInv, CallInv
<1>2. JobsInv' /\ OnlyOutcome(j) /\ job'[j].status = "succeeded" /\ job'[j].code = job[j].code
  BY <1>1, StatusUpdated
<1>3. ShapeInv'
  BY <1>1, <1>2 DEF ShapeInv, OnlyOutcome
<1>4. CallInv'
  BY <1>1, <1>2 DEF ShapeInv, CallInv, OnlyOutcome
<1>5. RefInv'
  BY <1>1, <1>2, RefKept
<1>6. RootInv'
  BY <1>1, <1>2, RootKept
<1>7. ApplyInv'
  BY <1>1, <1>2 DEF ShapeInv, CallInv, RefInv, RootInv, ApplyInv, OnlyOutcome
<1>8. StageInv'
  BY <1>1, <1>2 DEF ShapeInv, CallInv, StageInv, OnlyOutcome
<1>9. CompletedInv'
  BY <1>1, <1>2, CompletedAppended
<1>10. EvictInv'
  BY <1>1, <1>2 DEF ShapeInv, CallInv, EvictInv, OnlyOutcome
<1>. QED
  BY <1>2, <1>3, <1>4, <1>5, <1>6, <1>7, <1>8, <1>9, <1>10

\* The successful end of a stage job.
LEMMA StageCompletesStep ==
    ASSUME Inv, NEW j \in Ids, StageCompletes(j)
    PROVE  Inv'
BY StageSucceedsStep DEF StageCompletes, Inv, ShapeInv

\* The handler returns without having found out what was stored.
LEMMA StageLeftStep ==
    ASSUME Inv, NEW j \in Ids, At(j, "stage", "staged"), Returns(j),
           UNCHANGED <<job, completed, lock, dir, pin, root, up, mutations>>,
           faults' \in 0 .. MaxFaults, unsaved' \subseteq Ids
    PROVE  Inv'
<1>. USE ManagerUpdateAssumption DEF Inv, Ids, Open, Places, At, Returns
<1>1. DOMAIN job \subseteq Ids /\ Len(job) \in Nat /\ DOMAIN job = 1 .. Len(job)
      /\ j \in DOMAIN job /\ Open(j)
  BY DEF JobsInv, CallInv
<1>2. JobsInv'
  BY DEF JobsInv
<1>3. ShapeInv'
  BY <1>1, <1>2 DEF ShapeInv
<1>4. CallInv'
  BY <1>1, <1>2 DEF ShapeInv, CallInv
<1>5. RefInv'
  BY <1>1, <1>2 DEF ShapeInv, CallInv, RefInv
<1>6. RootInv'
  BY <1>1, <1>2 DEF ShapeInv, CallInv, RefInv, RootInv, ApplyInv
<1>7. ApplyInv'
  BY <1>1, <1>2 DEF ShapeInv, CallInv, RefInv, RootInv, ApplyInv
<1>8. StageInv'
  BY <1>1, <1>2 DEF ShapeInv, CallInv, StageInv
<1>9. CompletedInv'
  BY <1>1, <1>2 DEF CompletedInv
<1>10. EvictInv'
  BY <1>1, <1>2 DEF ShapeInv, CallInv, EvictInv
<1>. QED
  BY <1>2, <1>3, <1>4, <1>5, <1>6, <1>7, <1>8, <1>9, <1>10

\* The apply handler returns and its job stays as it is.
LEMMA ApplyLeftStep ==
    ASSUME Inv, NEW j \in Ids, At(j, "apply", call[j]), call[j] # "none", Returns(j), lock' = Free,
           pin' \in {pin, pin \ {job[j].ref}}, root[job[j].ref] \notin {"asked", "working"},
           UNCHANGED <<job, completed, dir, root, up, mutations>>,
           faults' \in 0 .. MaxFaults, unsaved' \subseteq Ids
    PROVE  Inv'
<1>. USE ManagerUpdateAssumption DEF Inv, Ids, Open, Places, At, Returns, Free
<1>1. DOMAIN job \subseteq Ids /\ Len(job) \in Nat /\ DOMAIN job = 1 .. Len(job)
      /\ j \in DOMAIN job /\ Open(j)
  BY DEF JobsInv, CallInv
<1>2. JobsInv'
  BY DEF JobsInv
<1>3. ShapeInv'
  BY <1>1, <1>2 DEF ShapeInv
<1>4. CallInv'
  BY <1>1, <1>2 DEF ShapeInv, CallInv
<1>5. RefInv'
  BY <1>1, <1>2 DEF ShapeInv, CallInv, RefInv
<1>6. RootInv'
  BY <1>1, <1>2 DEF ShapeInv, CallInv, RefInv, RootInv, ApplyInv
<1>7. ApplyInv'
  BY <1>1, <1>2 DEF ShapeInv, CallInv, RefInv, RootInv, ApplyInv
<1>8. StageInv'
  BY <1>1, <1>2 DEF ShapeInv, CallInv, StageInv
<1>9. CompletedInv'
  BY <1>1, <1>2 DEF CompletedInv
<1>10. EvictInv'
  BY <1>1, <1>2 DEF ShapeInv, CallInv, EvictInv
<1>. QED
  BY <1>2, <1>3, <1>4, <1>5, <1>6, <1>7, <1>8, <1>9, <1>10

\* Root has finished, so nobody needs the pin.
LEMMA ApplySucceedsStep ==
    ASSUME Inv, NEW j \in Ids, At(j, "apply", "sent"), root[job[j].ref] = "ok", Succeeds(j),
           Returns(j), lock' = Free, pin' = pin \ {job[j].ref},
           UNCHANGED <<dir, root, up, mutations>>,
           faults' \in 0 .. MaxFaults, unsaved' \subseteq Ids
    PROVE  Inv'
<1>. USE ManagerUpdateAssumption DEF Inv, Ids, Open, Places, At, Succeeds, Returns, IsStage, Free
<1>1. DOMAIN job \subseteq Ids /\ Len(job) \in Nat /\ DOMAIN job = 1 .. Len(job)
      /\ j \in DOMAIN job /\ Open(j)
  BY DEF JobsInv, CallInv
<1>2. JobsInv' /\ OnlyOutcome(j) /\ job'[j].status = "succeeded" /\ job'[j].code = job[j].code
  BY <1>1, StatusUpdated
<1>3. ShapeInv'
  BY <1>1, <1>2 DEF ShapeInv, OnlyOutcome
<1>4. CallInv'
  BY <1>1, <1>2 DEF ShapeInv, CallInv, OnlyOutcome
<1>5. RefInv'
  BY <1>1, <1>2, RefKept
<1>6. RootInv'
  <2>1. job[j].ref \in Ids /\ root[job[j].ref] \notin {"asked", "working"}
    BY <1>1 DEF RefInv, ApplyInv
  <2>. QED
    BY <1>1, <1>2, <2>1, RootKept
<1>7. ApplyInv'
  BY <1>1, <1>2 DEF ShapeInv, CallInv, RefInv, RootInv, ApplyInv, OnlyOutcome
<1>8. StageInv'
  BY <1>1, <1>2 DEF ShapeInv, CallInv, StageInv, OnlyOutcome
<1>9. CompletedInv'
  BY <1>1, <1>2, CompletedKept
<1>10. EvictInv'
  BY <1>1, <1>2 DEF ShapeInv, CallInv, EvictInv, OnlyOutcome
<1>. QED
  BY <1>2, <1>3, <1>4, <1>5, <1>6, <1>7, <1>8, <1>9, <1>10

\* MarkRunning is stored and its answer lost.
LEMMA ApplyRunsAndLeavesStep ==
    ASSUME Inv, NEW j \in Ids, At(j, "apply", "created"), job' = [job EXCEPT ![j].status = "running"],
           Returns(j), lock' = Free,
           UNCHANGED <<completed, dir, pin, root, up, mutations>>,
           faults' \in 0 .. MaxFaults, unsaved' \subseteq Ids
    PROVE  Inv'
<1>. USE ManagerUpdateAssumption DEF Inv, Ids, Open, Places, At, Returns, Free
<1>1. DOMAIN job \subseteq Ids /\ Len(job) \in Nat /\ DOMAIN job = 1 .. Len(job)
      /\ j \in DOMAIN job /\ Open(j)
  BY DEF JobsInv, CallInv
<1>2. JobsInv' /\ OnlyOutcome(j) /\ job'[j].status = "running" /\ job'[j].code = job[j].code
  BY <1>1, StatusUpdated
<1>3. ShapeInv'
  BY <1>1, <1>2 DEF ShapeInv, OnlyOutcome
<1>4. CallInv'
  BY <1>1, <1>2 DEF ShapeInv, CallInv, OnlyOutcome
<1>5. RefInv'
  BY <1>1, <1>2, RefKept
<1>6. RootInv'
  BY <1>1, <1>2, RootKept
<1>7. ApplyInv'
  BY <1>1, <1>2 DEF ShapeInv, CallInv, RefInv, RootInv, ApplyInv, OnlyOutcome
<1>8. StageInv'
  BY <1>1, <1>2 DEF ShapeInv, CallInv, StageInv, OnlyOutcome
<1>9. CompletedInv'
  BY <1>1, <1>2, CompletedKept
<1>10. EvictInv'
  BY <1>1, <1>2 DEF ShapeInv, CallInv, EvictInv, OnlyOutcome
<1>. QED
  BY <1>2, <1>3, <1>4, <1>5, <1>6, <1>7, <1>8, <1>9, <1>10

\* CompleteStage fails, or its answer is lost.
LEMMA StageCompletionFailsStep ==
    ASSUME Inv, NEW j \in Ids, StageCompletionFails(j)
    PROVE  Inv'
<1>1. j \in DOMAIN job /\ Open(j) /\ job[j].op = "stage" /\ unsaved \cup {j} \subseteq Ids
  BY DEF Inv, CallInv, ShapeInv, StageCompletionFails, At
<1>2. CASE FailAndCleanup(j) /\ UNCHANGED completed
  BY <1>1, <1>2, FailAndCleanupStep DEF StageCompletionFails
<1>3. CASE Fault /\ Returns(j) /\ Succeeds(j) /\ UNCHANGED <<unsaved, dir>>
  BY <1>1, <1>3, FaultCounted, StageSucceedsStep DEF StageCompletionFails, Inv
<1>4. CASE Fault /\ Returns(j) /\ unsaved' = unsaved \cup {j} /\ UNCHANGED <<job, completed, dir>>
  BY <1>1, <1>4, FaultCounted, StageLeftStep DEF StageCompletionFails, Inv
<1>. QED
  BY <1>2, <1>3, <1>4 DEF StageCompletionFails

\* MarkRunning fails, or its answer is lost.
LEMMA ApplyRunFailsStep ==
    ASSUME Inv, NEW j \in Ids, ApplyRunFails(j)
    PROVE  Inv'
<1>1. faults' \in 0 .. MaxFaults /\ unsaved' \subseteq Ids
  BY FaultCounted DEF Inv, ShapeInv, ApplyRunFails
<1>2. root[job[j].ref] = "idle"
  BY DEF Inv, ApplyInv, ApplyRunFails, At
<1>3. CASE UNCHANGED job
  BY <1>1, <1>2, <1>3, ApplyLeftStep DEF ApplyRunFails, At
<1>4. CASE job' = [job EXCEPT ![j].status = "running"]
  BY <1>1, <1>4, ApplyRunsAndLeavesStep DEF ApplyRunFails
<1>. QED
  BY <1>3, <1>4 DEF ApplyRunFails

\* The successful end of an apply job.
LEMMA ApplyCompletesStep ==
    ASSUME Inv, NEW j \in Ids, ApplyCompletes(j)
    PROVE  Inv'
BY ApplySucceedsStep DEF ApplyCompletes, Inv, ShapeInv

\* CompleteApply fails, or its answer is lost.
LEMMA ApplyCompletionFailsStep ==
    ASSUME Inv, NEW j \in Ids, ApplyCompletionFails(j)
    PROVE  Inv'
<1>1. faults' \in 0 .. MaxFaults /\ unsaved' \subseteq Ids
  BY FaultCounted DEF Inv, ShapeInv, ApplyCompletionFails
<1>2. CASE Succeeds(j)
  BY <1>1, <1>2, ApplySucceedsStep DEF ApplyCompletionFails
<1>3. CASE UNCHANGED <<job, completed>>
  BY <1>1, <1>3, ApplyLeftStep DEF ApplyCompletionFails, At
<1>. QED
  BY <1>2, <1>3 DEF ApplyCompletionFails

\* The insert failed; the lock is given back.
LEMMA NothingInsertedStep ==
    ASSUME Inv, UNCHANGED <<job, call>>, lock.kind # "apply", lock' = Free,
           UNCHANGED <<completed, dir, pin, root, up, mutations>>,
           faults' \in 0 .. MaxFaults, unsaved' \subseteq Ids
    PROVE  Inv'
<1>. USE ManagerUpdateAssumption DEF Inv, Ids, Open, Places, Free
<1>1. DOMAIN job \subseteq Ids /\ Len(job) \in Nat /\ DOMAIN job = 1 .. Len(job)
  BY DEF JobsInv
<1>2. JobsInv'
  BY DEF JobsInv
<1>3. ShapeInv'
  BY <1>1, <1>2 DEF ShapeInv
<1>4. CallInv'
  BY <1>1, <1>2 DEF ShapeInv, CallInv
<1>5. RefInv'
  BY <1>1, <1>2 DEF ShapeInv, CallInv, RefInv
<1>6. RootInv'
  BY <1>1, <1>2 DEF ShapeInv, CallInv, RefInv, RootInv, ApplyInv
<1>7. ApplyInv'
  BY <1>1, <1>2 DEF ShapeInv, CallInv, RefInv, RootInv, ApplyInv
<1>8. StageInv'
  BY <1>1, <1>2 DEF ShapeInv, CallInv, StageInv
<1>9. CompletedInv'
  BY <1>1, <1>2 DEF CompletedInv
<1>10. EvictInv'
  BY <1>1, <1>2 DEF ShapeInv, CallInv, EvictInv
<1>. QED
  BY <1>2, <1>3, <1>4, <1>5, <1>6, <1>7, <1>8, <1>9, <1>10

\* A new stage job has no directory, no root and no apply job.
LEMMA StageInsertedStep ==
    ASSUME Inv, NEW d \in Discoveries, Inserted("stage", d), JobsInv', up, lock.kind # "apply", lock' = Free,
           \A i \in DOMAIN job : job'[i].retention \in {job[i].retention, "evicted"},
           UNCHANGED <<completed, dir, pin, root, up, mutations>>,
           faults' \in 0 .. MaxFaults, unsaved' \subseteq Ids
    PROVE  Inv'
<1>. USE ManagerUpdateAssumption DEF Inv, Ids, Open, Places, Free
<1>. DEFINE n == Len(job) + 1
<1>1. DOMAIN job \subseteq Ids /\ Len(job) \in Nat /\ DOMAIN job = 1 .. Len(job)
      /\ n \in Ids /\ n \notin DOMAIN job /\ call[n] = "none"
  BY DEF JobsInv, CallInv, ShapeInv, Inserted
<1>2. /\ JobsInv' /\ DOMAIN job' = DOMAIN job \cup {n}
      /\ \A i \in DOMAIN job : /\ job'[i].op = job[i].op /\ job'[i].ref = job[i].ref
                              /\ job'[i].status = job[i].status /\ job'[i].code = job[i].code
      /\ \A i \in Ids : i # n => call'[i] = call[i]
      /\ call'[n] \in {"none", "created"}
      /\ call'[n] = "created" => job'[n].status = "pending"
      /\ job'[n].status \in {"pending", "failed"}
      /\ job'[n].op = "stage" /\ job'[n].ref = d
      /\ job'[n].status = "pending" \/ job'[n].code = "none"
  BY <1>1 DEF ShapeInv, Inserted
<1>3. ShapeInv'
  <2>1. lock' \in [kind : {"free", "evict", "evicted", "apply"},
                  job : 0 .. MaxJobs, for : Discoveries \cup 0 .. MaxJobs]
    OBVIOUS
  <2>2. call' \in [Ids -> Places]
    BY <1>1 DEF ShapeInv, Inserted
  <2>. QED
    BY <2>1, <2>2 DEF ShapeInv
<1>4. CallInv'
  <2>1. ASSUME NEW i \in Ids, call'[i] # "none", i # n
        PROVE  i \in DOMAIN job' /\ job'[i].status \in {"pending", "running"} /\ job'[i].op # "apply"
    BY <1>1, <1>2, <2>1 DEF CallInv
  <2>2. up'
    OBVIOUS
  <2>. QED
    BY <1>1, <1>2, <2>1, <2>2 DEF CallInv
<1>5. RefInv'
  BY <1>1, <1>2 DEF RefInv
<1>6. RootInv'
  BY <1>1, <1>2 DEF RootInv
<1>7. ApplyInv'
  BY <1>1, <1>2 DEF ApplyInv, RefInv, RootInv
<1>8. StageInv'
  <2>1. \A i \in DOMAIN job : call[i] = call'[i] /\ i # n
    BY <1>1, <1>2
  <2>. QED
    BY <1>1, <1>2, <2>1 DEF StageInv
<1>9. CompletedInv'
  <2>1. ASSUME NEW i \in 1 .. Len(completed)
        PROVE  completed[i] \in DOMAIN job' /\ job'[completed[i]].op = "stage"
               /\ job'[completed[i]].status = "succeeded"
    BY <1>2 DEF CompletedInv
  <2>. QED
    BY <2>1 DEF CompletedInv
<1>10. EvictInv'
  BY <1>1, <1>2 DEF EvictInv
<1>. QED
  BY <1>2, <1>3, <1>4, <1>5, <1>6, <1>7, <1>8, <1>9, <1>10

\* A new apply job is the first of its candidate, so root was never asked.
LEMMA ApplyInsertedStep ==
    ASSUME Inv, NEW s \in Ids, Inserted("apply", s), JobsInv', up, lock = Free, s \in DOMAIN job,
           job[s].op = "stage", job[s].status = "succeeded",
           \A j \in DOMAIN job : job[j].op = "apply" => job[j].ref # s,
           \A i \in DOMAIN job : job'[i].retention = job[i].retention,
           \/ call' = call /\ lock' = Free
           \/ call' # call /\ lock' = [kind |-> "apply", job |-> Len(job) + 1, for |-> s],
           UNCHANGED <<completed, dir, pin, root, up, mutations>>,
           faults' \in 0 .. MaxFaults, unsaved' \subseteq Ids
    PROVE  Inv'
<1>. USE ManagerUpdateAssumption DEF Inv, Ids, Open, Places, Free
<1>. DEFINE n == Len(job) + 1
<1>1. DOMAIN job \subseteq Ids /\ Len(job) \in Nat /\ DOMAIN job = 1 .. Len(job)
      /\ n \in Ids /\ n \notin DOMAIN job /\ call[n] = "none"
  BY DEF JobsInv, CallInv, ShapeInv, Inserted
<1>2. /\ JobsInv' /\ DOMAIN job' = DOMAIN job \cup {n}
      /\ \A i \in DOMAIN job : /\ job'[i].op = job[i].op /\ job'[i].ref = job[i].ref
                              /\ job'[i].status = job[i].status /\ job'[i].code = job[i].code
      /\ \A i \in Ids : i # n => call'[i] = call[i]
      /\ call'[n] \in {"none", "created"}
      /\ call'[n] = "created" => job'[n].status = "pending"
      /\ job'[n].status \in {"pending", "failed"}
      /\ job'[n].op = "apply" /\ job'[n].ref = s
      /\ job'[n].status = "pending" \/ job'[n].code = "none"
      /\ call'[n] = "created" => lock'.kind = "apply" /\ lock'.job = n
  BY <1>1 DEF ShapeInv, Inserted
<1>3. ShapeInv'
  <2>1. lock' \in [kind : {"free", "evict", "evicted", "apply"},
                  job : 0 .. MaxJobs, for : Discoveries \cup 0 .. MaxJobs]
    BY <1>1
  <2>2. call' \in [Ids -> Places]
    BY <1>1 DEF ShapeInv, Inserted
  <2>. QED
    BY <2>1, <2>2 DEF ShapeInv
<1>4. CallInv'
  <2>1. ASSUME NEW i \in Ids, call'[i] # "none", i # n
        PROVE  i \in DOMAIN job' /\ job'[i].status \in {"pending", "running"} /\ job'[i].op # "apply"
    BY <1>1, <1>2, <2>1 DEF CallInv
  <2>2. up'
    OBVIOUS
  <2>. QED
    BY <1>1, <1>2, <2>1, <2>2 DEF CallInv
<1>5. RefInv'
  BY <1>1, <1>2 DEF RefInv
<1>6. RootInv'
  BY <1>1, <1>2 DEF RootInv
<1>7. ApplyInv'
  <2>1. ASSUME NEW i \in DOMAIN job, job[i].op = "apply"
        PROVE  call[i] = call'[i] /\ job[i].ref \in DOMAIN job /\ i # n
    BY <1>1, <1>2, <2>1 DEF RefInv
  <2>2. root[s] = "idle"
    BY DEF RootInv
  <2>. QED
    BY <1>1, <1>2, <2>1, <2>2 DEF ApplyInv
<1>8. StageInv'
  BY <1>1, <1>2 DEF StageInv
<1>9. CompletedInv'
  <2>1. ASSUME NEW i \in 1 .. Len(completed)
        PROVE  completed[i] \in DOMAIN job' /\ job'[completed[i]].op = "stage"
               /\ job'[completed[i]].status = "succeeded"
    BY <1>2 DEF CompletedInv
  <2>. QED
    BY <2>1 DEF CompletedInv
<1>10. EvictInv'
  BY <1>1, <1>2 DEF EvictInv
<1>. QED
  BY <1>2, <1>3, <1>4, <1>5, <1>6, <1>7, <1>8, <1>9, <1>10

\* A stage job is admitted without an eviction.
LEMMA CreateStageStep ==
    ASSUME Inv, NEW d \in Discoveries, CreateStage(d)
    PROVE  Inv'
<1>1. job \in Seq(JobRec) /\ Len(job) < MaxJobs /\ Insert("stage", d, job)
  BY DEF Inv, JobsInv, CreateStage, CanAdmit
<1>2. /\ JobsInv' /\ faults' \in 0 .. MaxFaults /\ unsaved' \subseteq Ids
      /\ \/ job' = job /\ call' = call
         \/ /\ Inserted("stage", d)
            /\ \A i \in DOMAIN job : job'[i].retention = job[i].retention
  BY <1>1, RowAdmitted DEF Inv
<1>3. up /\ lock.kind # "apply" /\ lock' = Free /\ UNCHANGED <<completed, dir, pin, root, up, mutations>>
  BY DEF CreateStage, CanAdmit, Free
<1>4. CASE job' = job /\ call' = call
  BY <1>2, <1>3, <1>4, NothingInsertedStep
<1>5. CASE Inserted("stage", d) /\ \A i \in DOMAIN job : job'[i].retention = job[i].retention
  BY <1>2, <1>3, <1>5, StageInsertedStep
<1>. QED
  BY <1>2, <1>4, <1>5

\* A stage job is admitted in the place of the evicted one.
LEMMA EvictEndsStep ==
    ASSUME Inv, EvictEnds
    PROVE  Inv'
<1>. DEFINE jobs == [job EXCEPT ![lock.job].retention = "evicted"]
           evicted == [job[lock.job] EXCEPT !.retention = "evicted"]
<1>1. /\ lock.job \in DOMAIN job /\ lock.for \in Discoveries /\ Len(job) < MaxJobs /\ up
      /\ lock.kind # "apply" /\ lock' = Free /\ UNCHANGED <<completed, dir, pin, root, up, mutations>>
  BY DEF Inv, EvictInv, EvictEnds
<1>2. jobs = [job EXCEPT ![lock.job] = evicted] /\ evicted \in JobRec /\ job[lock.job] \in JobRec
  BY <1>1 DEF Inv, JobsInv, JobRec
<1>3. /\ jobs \in Seq(JobRec) /\ Len(jobs) = Len(job)
      /\ \A i \in DOMAIN job : jobs[i] = IF i = lock.job THEN evicted ELSE job[i]
  <2>1. job \in Seq(JobRec) /\ DOMAIN job = 1 .. Len(job)
    BY DEF Inv, JobsInv
  <2>. QED
    BY <1>1, <1>2, <2>1, ExceptSeq
<1>4. \A i \in DOMAIN job :
        /\ jobs[i].op = job[i].op /\ jobs[i].ref = job[i].ref
        /\ jobs[i].status = job[i].status /\ jobs[i].code = job[i].code
        /\ jobs[i].retention \in {job[i].retention, "evicted"}
  <2>1. evicted.op = job[lock.job].op /\ evicted.ref = job[lock.job].ref
        /\ evicted.status = job[lock.job].status /\ evicted.code = job[lock.job].code
        /\ evicted.retention = "evicted"
    BY <1>2 DEF JobRec
  <2>. HIDE DEF jobs, evicted
  <2>. QED
    BY <1>3, <2>1
<1>5. Insert("stage", lock.for, jobs)
  BY DEF EvictEnds
<1>. HIDE DEF jobs
<1>6. /\ JobsInv' /\ faults' \in 0 .. MaxFaults /\ unsaved' \subseteq Ids
      /\ \/ job' = job /\ call' = call
         \/ /\ Inserted("stage", lock.for)
            /\ \A i \in DOMAIN job : job'[i].retention = jobs[i].retention
  BY <1>1, <1>3, <1>4, <1>5, RowAdmitted DEF Inv
<1>7. CASE job' = job /\ call' = call
  BY <1>1, <1>6, <1>7, NothingInsertedStep
<1>8. CASE /\ Inserted("stage", lock.for)
           /\ \A i \in DOMAIN job : job'[i].retention = jobs[i].retention
  BY <1>1, <1>4, <1>6, <1>8, StageInsertedStep
<1>. QED
  BY <1>6, <1>7, <1>8

\* An apply job is admitted; the lock goes to its handler or is given back.
LEMMA CreateApplyStep ==
    ASSUME Inv, NEW s \in Ids, CreateApply(s)
    PROVE  Inv'
<1>1. job \in Seq(JobRec) /\ Len(job) < MaxJobs /\ Insert("apply", s, job)
  BY DEF Inv, JobsInv, CreateApply
<1>2. /\ JobsInv' /\ faults' \in 0 .. MaxFaults /\ unsaved' \subseteq Ids
      /\ \/ job' = job /\ call' = call
         \/ /\ Inserted("apply", s)
            /\ \A i \in DOMAIN job : job'[i].retention = job[i].retention
  BY <1>1, RowAdmitted DEF Inv
<1>3. /\ up /\ lock = Free /\ lock.kind # "apply" /\ UNCHANGED <<completed, dir, pin, root, up, mutations>>
      /\ s \in DOMAIN job /\ job[s].op = "stage" /\ job[s].status = "succeeded"
      /\ \A j \in DOMAIN job : job[j].op = "apply" => job[j].ref # s
  BY DEF CreateApply, Applicable, Unattempted, IsStage, IsApply, Free
<1>4. lock' = IF call' = call THEN Free ELSE [kind |-> "apply", job |-> Len(job) + 1, for |-> s]
  BY DEF CreateApply
<1>5. CASE job' = job /\ call' = call
  BY <1>2, <1>3, <1>4, <1>5, NothingInsertedStep
<1>6. CASE Inserted("apply", s) /\ \A i \in DOMAIN job : job'[i].retention = job[i].retention
  BY <1>2, <1>3, <1>4, <1>6, ApplyInsertedStep
<1>. QED
  BY <1>2, <1>5, <1>6

(***************************************************************************)
(* The invariant and what follows from it                                  *)
(***************************************************************************)
\* A Manager without jobs satisfies the invariant.
LEMMA InitInv ==
    Init => Inv
<1>. SUFFICES ASSUME Init PROVE Inv
  OBVIOUS
<1>. USE ManagerUpdateAssumption DEF Init, Ids
<1>1. JobsInv
  BY EmptySeq DEF JobsInv
<1>2. ShapeInv
  <2>1. up \in BOOLEAN
    OBVIOUS
  <2>2. lock \in [kind : {"free", "evict", "evicted", "apply"},
                 job : 0 .. MaxJobs, for : Discoveries \cup 0 .. MaxJobs]
    BY DEF Free
  <2>. QED
    BY <2>1, <2>2 DEF ShapeInv, RootStates, Places
<1>3. CallInv /\ RefInv /\ RootInv /\ ApplyInv /\ StageInv /\ EvictInv
  BY DEF CallInv, RefInv, RootInv, ApplyInv, StageInv, EvictInv, Free
<1>4. CompletedInv
  BY EmptySeq DEF CompletedInv
<1>. QED
  BY <1>1, <1>2, <1>3, <1>4 DEF Inv

\* Every step preserves the invariant.
LEMMA NextInv ==
    Inv /\ [Next]_vars => Inv'
<1>. SUFFICES ASSUME Inv, [Next]_vars PROVE Inv'
  OBVIOUS
<1>2. ASSUME NEW d \in Discoveries, CreateStage(d) PROVE Inv'
  BY <1>2, CreateStageStep
<1>3. ASSUME NEW d \in Discoveries, NEW j \in Ids, EvictBegins(d, j) PROVE Inv'
  BY <1>3, EvictBeginsStep
<1>4. ASSUME EvictCleans PROVE Inv'
  BY <1>4, EvictCleansStep
<1>5. ASSUME EvictRefused PROVE Inv'
  BY <1>5, EvictRefusedStep
<1>6. ASSUME EvictEnds PROVE Inv'
  BY <1>6, EvictEndsStep
<1>7. ASSUME EvictAborts PROVE Inv'
  BY <1>7, EvictAbortsStep
<1>8. ASSUME NEW j \in Ids, StageRuns(j) PROVE Inv'
  BY <1>8, StageRunsStep
<1>9. ASSUME NEW j \in Ids, StageFails(j) PROVE Inv'
  BY <1>9, StageFailsStep
<1>10. ASSUME NEW j \in Ids, StageDownloads(j) PROVE Inv'
  BY <1>10, StageDownloadsStep
<1>11. ASSUME NEW j \in Ids, StageVerified(j) PROVE Inv'
  BY <1>11, StageVerifiedStep
<1>12. ASSUME NEW j \in Ids, StageCompletes(j) PROVE Inv'
  BY <1>12, StageCompletesStep
<1>13. ASSUME NEW j \in Ids, StageCompletionFails(j) PROVE Inv'
  BY <1>13, StageCompletionFailsStep
<1>14. ASSUME NEW s \in Ids, CreateApply(s) PROVE Inv'
  BY <1>14, CreateApplyStep
<1>15. ASSUME NEW j \in Ids, ApplyRuns(j) PROVE Inv'
  BY <1>15, ApplyRunsStep
<1>16. ASSUME NEW j \in Ids, ApplyRunFails(j) PROVE Inv'
  BY <1>16, ApplyRunFailsStep
<1>17. ASSUME NEW j \in Ids, ApplyPins(j) PROVE Inv'
  BY <1>17, ApplyPinsStep
<1>18. ASSUME NEW j \in Ids, ApplyPinFails(j) PROVE Inv'
  BY <1>18, ApplyPinFailsStep
<1>19. ASSUME NEW j \in Ids, ApplySends(j) PROVE Inv'
  BY <1>19, ApplySendsStep
<1>20. ASSUME NEW j \in Ids, ApplySendFails(j) PROVE Inv'
  BY <1>20, ApplySendFailsStep
<1>21. ASSUME NEW j \in Ids, ApplyRejected(j) PROVE Inv'
  BY <1>21, ApplyRejectedStep
<1>22. ASSUME NEW j \in Ids, ApplyCompletes(j) PROVE Inv'
  BY <1>22, ApplyCompletesStep
<1>23. ASSUME NEW j \in Ids, ApplyCompletionFails(j) PROVE Inv'
  BY <1>23, ApplyCompletionFailsStep
<1>24. ASSUME NEW j \in Ids, ApplyLost(j) PROVE Inv'
  BY <1>24, ApplyLostStep
<1>25. ASSUME NEW s \in Ids, RootBegins(s) PROVE Inv'
  BY <1>25, RootBeginsStep
<1>26. ASSUME NEW s \in Ids, RootEnds(s) PROVE Inv'
  BY <1>26, RootEndsStep
<1>27. ASSUME ManagerStops PROVE Inv'
  BY <1>27, ManagerStopsStep
<1>28. ASSUME HostStops PROVE Inv'
  BY <1>28, HostStopsStep
<1>29. ASSUME NEW j \in Ids, RecoverCleans(j) PROVE Inv'
  BY <1>29, RecoverCleansStep
<1>30. ASSUME NEW j \in Ids, RecoverFails(j) PROVE Inv'
  BY <1>30, RecoverFailsStep
<1>31. ASSUME ManagerServes PROVE Inv'
  BY <1>31, ManagerServesStep
<1>32. ASSUME NEW s \in Ids, RootMutates(s) PROVE Inv'
  BY <1>32, RootMutatesStep
<1>1. CASE UNCHANGED vars
  <2>. USE <1>1 DEF Inv, vars, Open
  <2>1. JobsInv'
    BY DEF JobsInv
  <2>2. ShapeInv'
    BY DEF ShapeInv
  <2>3. CallInv'
    BY DEF CallInv
  <2>4. RefInv'
    BY DEF RefInv
  <2>5. RootInv'
    BY DEF RootInv
  <2>6. ApplyInv'
    BY DEF ApplyInv
  <2>7. StageInv'
    BY DEF StageInv
  <2>8. CompletedInv'
    BY DEF CompletedInv
  <2>9. EvictInv'
    BY DEF EvictInv
  <2>. QED
    BY <2>1, <2>2, <2>3, <2>4, <2>5, <2>6, <2>7, <2>8, <2>9
<1>. QED
  BY <1>1, <1>2, <1>3, <1>4, <1>5, <1>6, <1>7, <1>8, <1>9, <1>10, <1>11, <1>12,
     <1>13, <1>14, <1>15, <1>16, <1>17, <1>18, <1>19, <1>20, <1>21, <1>22, <1>23,
     <1>24, <1>25, <1>26, <1>27, <1>28, <1>29, <1>30, <1>31, <1>32 DEF Next

\* The invariant holds in every reachable state.
LEMMA Invariance ==
    Spec => []Inv
BY InitInv, NextInv, PTL DEF Spec

\* Every variable keeps its shape, and an apply handler holds the admission lock
\* from the insert of its job to its return, crashes and lost answers included.
THEOREM TypeCorrect ==
    Spec => []TypeOK
<1>1. Inv => TypeOK
  <2>. SUFFICES ASSUME Inv PROVE TypeOK
    OBVIOUS
  <2>1. \A j \in DOMAIN job :
          /\ job[j].op \in {"stage", "apply"}
          /\ job[j].status \in {"pending", "running", "succeeded", "failed"}
          /\ job[j].retention \in {"kept", "evicting", "evicted"}
          /\ job[j].code \in {"none", "definite", "unknown"}
    BY DEF Inv, JobsInv, JobRec
  <2>2. \A j \in DOMAIN job : job[j].ref \in Discoveries \cup DOMAIN job
    BY <2>1 DEF Inv, RefInv
  <2>3. \A j \in DOMAIN job : call[j] # "none" =>
          up /\ Open(j) /\ (job[j].op = "apply" => lock.kind = "apply" /\ lock.job = j)
    <3>1. DOMAIN job \subseteq Ids
      BY ManagerUpdateAssumption DEF Inv, JobsInv, Ids
    <3>. QED
      BY <3>1 DEF Inv, CallInv
  <2>4. \A i \in DOMAIN completed : IsStage(completed[i])
    BY DEF Inv, CompletedInv, IsStage
  <2>5. Len(job) <= MaxJobs
    BY ManagerUpdateAssumption DEF Inv, JobsInv
  <2>6. lock.kind \in {"free", "evict", "evicted", "apply"}
    BY DEF Inv, ShapeInv
  <2>7. /\ call \in [Ids -> Places] /\ dir \in [Ids -> {"absent", "partial", "final"}]
        /\ pin \subseteq Ids /\ unsaved \subseteq Ids
        /\ root \in [Ids -> {"idle", "asked", "working", "mutating", "ok", "interrupted"} \cup Rejections]
        /\ up \in BOOLEAN /\ faults \in 0 .. MaxFaults
    BY DEF Inv, ShapeInv, RootStates, Rejections
  <2>. QED
    BY <2>1, <2>2, <2>3, <2>4, <2>5, <2>6, <2>7 DEF TypeOK
<1>. QED
  BY <1>1, Invariance, PTL

\* Root never works from a candidate whose files are gone: the pin outlives
\* Manager, and neither an eviction nor recovery touches a pinned directory.
THEOREM RootKeepsCandidate ==
    Spec => []CandidateKept
<1>1. Inv => CandidateKept
  BY DEF Inv, RootInv, CandidateKept
<1>. QED
  BY <1>1, Invariance, PTL

\* A candidate changes the host at most once, whatever is lost or restarted.
THEOREM CandidateAppliedOnce ==
    Spec => []AppliedOnce
<1>1. Inv => AppliedOnce
  BY DEF Inv, ShapeInv, AppliedOnce
<1>. QED
  BY <1>1, Invariance, PTL

\* A candidate that may be applied or reused is complete on disk, also when an
\* eviction stopped half-way.
THEOREM OfferedIsComplete ==
    Spec => []RetainedIsComplete
<1>1. Inv => RetainedIsComplete
  BY DEF Inv, StageInv, RetainedIsComplete, Applicable, IsStage
<1>. QED
  BY <1>1, Invariance, PTL

\* The verdict of an apply job is about work that is over: root finished what is
\* called a success, and did not finish and never takes up again what is called a
\* definite failure.  The state of the host after such a failure is not claimed.
THEOREM ApplyOutcomeFinal ==
    Spec => []OutcomeIsFinal
<1>1. Inv => OutcomeIsFinal
  BY DEF Inv, ApplyInv, OutcomeIsFinal, IsApply, Rejections
<1>. QED
  BY <1>1, Invariance, PTL

(***************************************************************************)
(* The storage                                                             *)
(***************************************************************************)
\* A directory belongs to a retained job; there are no more of these than places;
\* an open job was never evicted; between the two transactions of an eviction the
\* victim has no directory.
StorageInv ==
    /\ \A s \in Ids : dir[s] # "absent" => s \in Retained
    /\ Cardinality(Retained) <= MaxRetained
    /\ \A j \in DOMAIN job : IsStage(j) /\ Open(j) => job[j].retention = "kept"
    /\ lock.kind = "evicted" => dir[lock.job] = "absent"

\* Retained jobs can be counted.
LEMMA RetainedFinite ==
    ASSUME JobsInv
    PROVE  IsFiniteSet(Retained) /\ Retained \subseteq DOMAIN job /\ DOMAIN job \subseteq Ids
<1>1. DOMAIN job = 1 .. Len(job) /\ Len(job) \in 0 .. MaxJobs
  BY DEF JobsInv
<1>2. IsFiniteSet(Ids) /\ DOMAIN job \subseteq Ids
  BY <1>1, FS_Interval, ManagerUpdateAssumption DEF Ids
<1>3. Retained \subseteq DOMAIN job
  BY DEF Retained
<1> QED
  BY <1>2, <1>3, FS_Subset

\* Fewer retained jobs fit where more did.
LEMMA FewerFit ==
    ASSUME JobsInv, JobsInv', StorageInv, Retained' \subseteq Retained
    PROVE  Cardinality(Retained') <= MaxRetained
<1>1. Cardinality(Retained') <= Cardinality(Retained)
  BY RetainedFinite, FS_Subset
<1>2. Cardinality(Retained') \in Nat /\ Cardinality(Retained) \in Nat
  BY RetainedFinite, FS_Subset, FS_CardinalityType
<1> QED
  BY <1>1, <1>2, ManagerUpdateAssumption DEF StorageInv

\* A handler changes the outcome of its own job; it removes the directory before
\* it gives the job up.
LEMMA HandlerStores ==
    ASSUME Inv, JobsInv', StorageInv, NEW j \in DOMAIN job, Open(j), OnlyOutcome(j),
           \A i \in Ids : dir'[i] # "absent" => dir[i] # "absent" \/ (i = j /\ IsStage(j)),
           IsStage(j) /\ job'[j].status = "failed" => dir'[j] = "absent",
           job'[j].status \in {"pending", "running", "succeeded", "failed"},
           lock'.kind = "evicted" => lock' = lock
    PROVE  StorageInv'
<1>1. DOMAIN job' = DOMAIN job /\ DOMAIN job \subseteq Ids
  BY RetainedFinite DEF Inv, OnlyOutcome
<1>2. Retained' \subseteq Retained
  BY <1>1 DEF Retained, IsStage, OnlyOutcome, Open
<1>3. ASSUME NEW s \in Ids, dir'[s] # "absent" PROVE s \in Retained'
  <2>1. s \in Retained
    BY <1>3, <1>1 DEF StorageInv, Retained
  <2>2. CASE s # j
    BY <2>1, <2>2, <1>1 DEF Retained, IsStage, OnlyOutcome, Open
  <2>3. CASE s = j
    <3>1. IsStage(j) /\ job'[j].status # "failed" /\ job[j].retention = "kept"
      BY <2>1, <2>3, <1>3 DEF Retained, StorageInv
    <3> QED
      BY <3>1, <2>3, <1>1 DEF Retained, IsStage, OnlyOutcome, Open
  <2> QED
    BY <2>2, <2>3
<1>4. \A i \in DOMAIN job' : (IsStage(i) /\ Open(i))' => job'[i].retention = "kept"
  BY <1>1 DEF StorageInv, IsStage, Open, OnlyOutcome
<1>5. lock'.kind = "evicted" => dir'[lock'.job] = "absent"
  <2> SUFFICES ASSUME lock'.kind = "evicted" PROVE dir'[lock'.job] = "absent"
    OBVIOUS
  <2>1. lock' = lock /\ lock.job \in Ids /\ lock.job # j
    BY <1>1 DEF Inv, EvictInv, Open
  <2> QED
    BY <2>1 DEF StorageInv
<1>6. Cardinality(Retained') <= MaxRetained
  BY <1>2, FewerFit DEF Inv
<1> QED
  BY <1>3, <1>4, <1>5, <1>6 DEF StorageInv

\* A step that leaves the table alone and adds no directory.
LEMMA TableStays ==
    ASSUME Inv, StorageInv, job' = job,
           \A i \in Ids : dir'[i] # "absent" => dir[i] # "absent",
           lock'.kind = "evicted" => dir'[lock'.job] = "absent"
    PROVE  StorageInv'
<1>1. Retained' = Retained
  BY DEF Retained, IsStage, Open
<1>2. \A i \in DOMAIN job' : (IsStage(i) /\ Open(i))' => job'[i].retention = "kept"
  BY DEF StorageInv, IsStage, Open
<1> QED
  BY <1>1, <1>2 DEF StorageInv

\* The handler of a stage job.
LEMMA StageStores ==
    ASSUME Inv, Inv', StorageInv, NEW j \in Ids,
           \/ StageRuns(j) \/ StageFails(j) \/ StageDownloads(j) \/ StageVerified(j)
           \/ StageCompletes(j) \/ StageCompletionFails(j)
    PROVE  StorageInv'
<1>1. j \in DOMAIN job /\ job[j].op = "stage" /\ IsStage(j) /\ call[j] # "none" /\ Open(j)
  BY DEF StageRuns, StageFails, StageDownloads, StageVerified, StageCompletes,
         StageCompletionFails, At, IsStage, Inv, CallInv
<1>2. lock' = lock
  BY DEF StageRuns, StageFails, StageDownloads, StageVerified, StageCompletes,
         StageCompletionFails
<1>3. JobsInv /\ JobsInv' /\ job[j].status \in {"pending", "running"}
  BY <1>1 DEF Inv, Open
<1>4. \A i \in Ids : dir'[i] # "absent" => dir[i] # "absent" \/ i = j
  <2>1. dir \in [Ids -> {"absent", "partial", "final"}]
    BY DEF Inv, ShapeInv
  <2>2. \/ dir' = dir
        \/ \E d \in {"absent", "partial", "final"} : dir' = [dir EXCEPT ![j] = d]
    BY DEF StageRuns, StageFails, StageDownloads, StageVerified, StageCompletes,
           StageCompletionFails, FailAndCleanup
  <2> QED
    BY <2>1, <2>2
<1>5. /\ OnlyOutcome(j)
      /\ job'[j].status \in {"pending", "running", "succeeded", "failed"}
      /\ job'[j].status = "failed" => dir'[j] = "absent"
  <2>1. CASE \E v \in {"running", "succeeded"} : job' = [job EXCEPT ![j].status = v]
    BY <1>1, <1>3, <2>1, StatusUpdated
  <2>2. CASE Failed(j, "definite") /\ dir' = [dir EXCEPT ![j] = "absent"]
    BY <1>1, <1>3, <2>2, RowFailed DEF Failed, Inv, ShapeInv
  <2>3. CASE job' = job
    BY <1>1, <1>3, <2>3 DEF OnlyOutcome
  <2> QED
    BY <2>1, <2>2, <2>3 DEF StageRuns, StageFails, StageDownloads, StageVerified,
       StageCompletes, StageCompletionFails, FailAndCleanup, Succeeds
<1> QED
  BY <1>1, <1>2, <1>3, <1>4, <1>5, HandlerStores

\* The handler of an apply job: no directory changes, and no stage job.
LEMMA ApplyStores ==
    ASSUME Inv, Inv', StorageInv, NEW j \in Ids,
           \/ ApplyRuns(j) \/ ApplyRunFails(j) \/ ApplyPins(j) \/ ApplyPinFails(j)
           \/ ApplySends(j) \/ ApplySendFails(j) \/ ApplyRejected(j) \/ ApplyCompletes(j)
           \/ ApplyCompletionFails(j) \/ ApplyLost(j)
    PROVE  StorageInv'
<1> USE DEF ApplyRuns, ApplyRunFails, ApplyPins, ApplyPinFails, ApplySends, ApplySendFails,
            ApplyRejected, ApplyCompletes, ApplyCompletionFails, ApplyLost
<1>1. j \in DOMAIN job /\ job[j].op = "apply" /\ ~IsStage(j) /\ call[j] # "none" /\ Open(j)
  BY DEF At, IsStage, Inv, CallInv
<1>2. lock' = lock \/ lock' = Free
  BY DEF ApplyEnds
<1>3. dir' = dir
  OBVIOUS
<1>4. JobsInv /\ JobsInv' /\ job[j].status \in {"pending", "running"}
  BY <1>1 DEF Inv, Open
<1>5. /\ OnlyOutcome(j)
      /\ job'[j].status \in {"pending", "running", "succeeded", "failed"}
  <2>1. CASE \E v \in {"running", "succeeded"} : job' = [job EXCEPT ![j].status = v]
    BY <1>1, <1>4, <2>1, StatusUpdated
  <2>2. CASE Failed(j, "definite") \/ Failed(j, "unknown")
    BY <1>1, <1>4, <2>2, RowFailed DEF Failed
  <2>3. CASE job' = job
    BY <1>1, <1>4, <2>3 DEF OnlyOutcome
  <2> QED
    BY <2>1, <2>2, <2>3 DEF ApplyEnds, Succeeds
<1> QED
  BY <1>1, <1>2, <1>3, <1>4, <1>5, HandlerStores DEF Free

\* The recovery removes the files before it fails the job.
LEMMA RecoveryStores ==
    ASSUME Inv, Inv', StorageInv, NEW j \in Ids, RecoverCleans(j) \/ RecoverFails(j)
    PROVE  StorageInv'
<1>1. j \in DOMAIN job /\ Open(j) /\ lock' = lock
  BY DEF RecoverCleans, RecoverFails, Interrupted
<1>2. dir \in [Ids -> {"absent", "partial", "final"}] /\ JobsInv /\ JobsInv'
  BY DEF Inv, ShapeInv
<1>3. CASE RecoverCleans(j)
  <2>1. job' = job /\ dir' = [dir EXCEPT ![j] = "absent"]
    BY <1>3 DEF RecoverCleans
  <2>2. OnlyOutcome(j) /\ job'[j].status \in {"pending", "running", "succeeded", "failed"}
    BY <1>1, <2>1 DEF OnlyOutcome, Open
  <2> QED
    BY <1>1, <1>2, <2>1, <2>2, HandlerStores
<1>4. CASE RecoverFails(j)
  <2>1. Failed(j, "unknown") /\ dir' = dir /\ dir[j] = "absent"
    BY <1>4 DEF RecoverFails
  <2>2. OnlyOutcome(j) /\ job'[j].status = "failed"
    BY <1>1, <1>2, <2>1, RowFailed DEF Failed
  <2> QED
    BY <1>1, <1>2, <2>1, <2>2, HandlerStores
<1> QED
  BY <1>3, <1>4

\* Marking the victim leaves it retained until its files are gone.
LEMMA EvictBeginsStores ==
    ASSUME Inv, Inv', StorageInv, NEW d \in Discoveries, NEW j \in Ids, EvictBegins(d, j)
    PROVE  StorageInv'
<1>1. j \in DOMAIN job /\ job[j].status = "succeeded" /\ job[j].retention # "evicted"
  <2>1. PICK i \in Victims : j = completed[i]
    BY DEF EvictBegins, IsEvictionCandidate
  <2>2. i \in DOMAIN completed /\ job[completed[i]].retention # "evicted"
    BY <2>1 DEF Victims
  <2>3. DOMAIN completed = 1 .. Len(completed)
    BY DEF Inv, CompletedInv
  <2> QED
    BY <2>1, <2>2, <2>3 DEF Inv, CompletedInv
<1>2. job' = [job EXCEPT ![j].retention = "evicting"] /\ dir' = dir /\ lock'.kind # "evicted"
  BY DEF EvictBegins
<1>3. /\ JobsInv' /\ DOMAIN job' = DOMAIN job
      /\ \A i \in DOMAIN job :
           /\ job'[i].op = job[i].op /\ job'[i].status = job[i].status
           /\ job'[i].retention = IF i = j THEN "evicting" ELSE job[i].retention
  BY <1>1, <1>2, RetentionUpdated DEF Inv
<1>4. Retained' = Retained
  BY <1>1, <1>3 DEF Retained, IsStage, Open
<1>5. \A i \in DOMAIN job' : (IsStage(i) /\ Open(i))' => job'[i].retention = "kept"
  BY <1>1, <1>3 DEF StorageInv, IsStage, Open
<1> QED
  BY <1>2, <1>4, <1>5 DEF StorageInv

\* An inserted stage job takes one more place, and has no directory yet.
LEMMA StageInserted ==
    ASSUME Inv, Inv', StorageInv, NEW d \in Discoveries, Inserted("stage", d),
           dir' = dir, lock'.kind # "evicted", NEW gone \in SUBSET Retained,
           \A i \in gone : dir[i] = "absent" /\ job'[i].retention = "evicted" /\ ~Open(i),
           \A i \in DOMAIN job \ gone : job'[i].retention = job[i].retention,
           Cardinality(Retained \ gone) < MaxRetained
    PROVE  StorageInv'
<1> DEFINE n == Len(job) + 1
<1>1. /\ DOMAIN job' = DOMAIN job \cup {n} /\ n \notin DOMAIN job
      /\ job'[n].op = "stage" /\ job'[n].retention = "kept"
      /\ \A i \in DOMAIN job : job'[i].op = job[i].op /\ job'[i].status = job[i].status
  BY DEF Inserted, Inv, JobsInv
<1> HIDE DEF n
<1>2. Retained' \subseteq (Retained \ gone) \cup {n}
  BY <1>1 DEF Retained, IsStage, Open
<1>3. Cardinality(Retained') <= MaxRetained
  <2> DEFINE rest == Retained \ gone
             more == rest \cup {n}
  <2>1. IsFiniteSet(rest) /\ Retained' \subseteq more /\ Cardinality(rest) < MaxRetained
    BY <1>2, RetainedFinite, FS_Subset DEF Inv
  <2> HIDE DEF rest
  <2>2. IsFiniteSet(more) /\ Cardinality(more) \in {Cardinality(rest), Cardinality(rest) + 1}
    BY <2>1, FS_AddElement
  <2> HIDE DEF more
  <2>3. Cardinality(Retained') <= Cardinality(more) /\ IsFiniteSet(Retained')
    BY <2>1, <2>2, FS_Subset
  <2>4. Cardinality(rest) \in Nat /\ Cardinality(more) \in Nat /\ Cardinality(Retained') \in Nat
    BY <2>1, <2>2, <2>3, FS_CardinalityType
  <2> QED
    BY <2>1, <2>2, <2>3, <2>4, ManagerUpdateAssumption
<1>4. ASSUME NEW s \in Ids, dir'[s] # "absent" PROVE s \in Retained'
  <2>1. s \in Retained /\ s \notin gone
    BY <1>4 DEF StorageInv
  <2> QED
    BY <2>1, <1>1 DEF Retained, IsStage, Open
<1>5. \A i \in DOMAIN job' : (IsStage(i) /\ Open(i))' => job'[i].retention = "kept"
  <2> SUFFICES ASSUME NEW i \in DOMAIN job', IsStage(i)', Open(i)'
               PROVE  job'[i].retention = "kept"
    OBVIOUS
  <2>1. CASE i = n
    BY <1>1, <2>1
  <2>2. CASE i # n
    BY <1>1, <2>2 DEF StorageInv, IsStage, Open
  <2> QED
    BY <2>1, <2>2
<1> QED
  BY <1>3, <1>4, <1>5 DEF StorageInv

\* There is a place, or none is needed.
LEMMA CreateStageStores ==
    ASSUME Inv, Inv', StorageInv, NEW d \in Discoveries, CreateStage(d)
    PROVE  StorageInv'
<1>1. /\ job \in Seq(JobRec) /\ Len(job) < MaxJobs /\ Insert("stage", d, job)
      /\ lock' = lock /\ lock = Free /\ dir' = dir /\ Cardinality(Retained) < MaxRetained
  BY DEF Inv, JobsInv, CreateStage, CanAdmit
<1>2. \/ job' = job
      \/ Inserted("stage", d) /\ \A i \in DOMAIN job : job'[i].retention = job[i].retention
  BY <1>1, RowAdmitted DEF Inv
<1>3. lock'.kind # "evicted"
  BY <1>1 DEF Free
<1>4. CASE job' = job
  BY <1>1, <1>3, <1>4, TableStays
<1>5. CASE Inserted("stage", d) /\ \A i \in DOMAIN job : job'[i].retention = job[i].retention
  <2> DEFINE gone == {}
  <2>1. Cardinality(Retained \ gone) < MaxRetained
    <3>1. Retained \ gone = Retained
      OBVIOUS
    <3> QED
      BY <1>1, <3>1
  <2>2. \A i \in DOMAIN job \ gone : job'[i].retention = job[i].retention
    BY <1>5
  <2>3. gone \in SUBSET Retained
    OBVIOUS
  <2>4. \A i \in gone : dir[i] = "absent" /\ job'[i].retention = "evicted" /\ ~Open(i)
    OBVIOUS
  <2>5. Inserted("stage", d) /\ dir' = dir
    BY <1>1, <1>5
  <2> HIDE DEF gone
  <2> QED
    BY <1>3, <2>1, <2>2, <2>3, <2>4, <2>5, StageInserted
<1> QED
  BY <1>2, <1>4, <1>5

\* The place of the victim, whose directory is gone, is the one that is taken.
LEMMA EvictEndsStores ==
    ASSUME Inv, Inv', StorageInv, EvictEnds
    PROVE  StorageInv'
<1> DEFINE jobs == [job EXCEPT ![lock.job].retention = "evicted"]
           evicted == [job[lock.job] EXCEPT !.retention = "evicted"]
<1>1. /\ lock.job \in DOMAIN job /\ lock.for \in Discoveries /\ Len(job) < MaxJobs
      /\ job[lock.job].op = "stage" /\ job[lock.job].status = "succeeded"
      /\ job[lock.job].retention = "evicting" /\ dir[lock.job] = "absent"
      /\ lock'.kind # "evicted" /\ dir' = dir
  BY DEF Inv, EvictInv, EvictEnds, StorageInv, Free
<1>2. jobs = [job EXCEPT ![lock.job] = evicted] /\ evicted \in JobRec /\ job[lock.job] \in JobRec
  BY <1>1 DEF Inv, JobsInv, JobRec
<1>3. /\ jobs \in Seq(JobRec) /\ Len(jobs) = Len(job)
      /\ \A i \in DOMAIN job : jobs[i] = IF i = lock.job THEN evicted ELSE job[i]
  <2>1. job \in Seq(JobRec) /\ DOMAIN job = 1 .. Len(job)
    BY DEF Inv, JobsInv
  <2> QED
    BY <1>1, <1>2, <2>1, ExceptSeq
<1>4. \A i \in DOMAIN job :
        /\ jobs[i].op = job[i].op /\ jobs[i].ref = job[i].ref
        /\ jobs[i].status = job[i].status /\ jobs[i].code = job[i].code
        /\ jobs[i].retention = IF i = lock.job THEN "evicted" ELSE job[i].retention
  <2>1. evicted.op = job[lock.job].op /\ evicted.ref = job[lock.job].ref
        /\ evicted.status = job[lock.job].status /\ evicted.code = job[lock.job].code
        /\ evicted.retention = "evicted"
    BY <1>2 DEF JobRec
  <2> HIDE DEF jobs, evicted
  <2> QED
    BY <1>3, <2>1
<1>5. Insert("stage", lock.for, jobs)
  BY DEF EvictEnds
<1> HIDE DEF jobs
<1>6. \/ job' = job
      \/ /\ Inserted("stage", lock.for)
         /\ \A i \in DOMAIN job : job'[i].retention = jobs[i].retention
  BY <1>1, <1>3, <1>4, <1>5, RowAdmitted DEF Inv
<1>7. CASE job' = job
  BY <1>1, <1>7, TableStays
<1>8. CASE /\ Inserted("stage", lock.for)
           /\ \A i \in DOMAIN job : job'[i].retention = jobs[i].retention
  <2>1. lock.job \in Retained /\ ~Open(lock.job)
    BY <1>1 DEF Retained, IsStage, Open
  <2>2. Cardinality(Retained \ {lock.job}) = Cardinality(Retained) - 1
    BY <2>1, RetainedFinite, FS_RemoveElement DEF Inv
  <2>3. Cardinality(Retained) \in Nat
    BY RetainedFinite, FS_CardinalityType DEF Inv
  <2>4. Cardinality(Retained \ {lock.job}) < MaxRetained
    BY <2>2, <2>3, ManagerUpdateAssumption DEF StorageInv
  <2>5. job'[lock.job].retention = "evicted"
        /\ \A i \in DOMAIN job \ {lock.job} : job'[i].retention = job[i].retention
    BY <1>1, <1>4, <1>8
  <2> QED
    BY <1>1, <1>8, <2>1, <2>4, <2>5, StageInserted
<1> QED
  BY <1>6, <1>7, <1>8

\* An apply job takes no place.
LEMMA CreateApplyStores ==
    ASSUME Inv, Inv', StorageInv, NEW s \in Ids, CreateApply(s)
    PROVE  StorageInv'
<1>1. job \in Seq(JobRec) /\ Len(job) < MaxJobs /\ Insert("apply", s, job) /\ dir' = dir
  BY DEF Inv, JobsInv, CreateApply
<1>2. \/ job' = job
      \/ Inserted("apply", s) /\ \A i \in DOMAIN job : job'[i].retention = job[i].retention
  BY <1>1, RowAdmitted DEF Inv
<1>3. lock'.kind # "evicted"
  BY DEF CreateApply, Free
<1>4. CASE job' = job
  BY <1>1, <1>3, <1>4, TableStays
<1>5. CASE Inserted("apply", s) /\ \A i \in DOMAIN job : job'[i].retention = job[i].retention
  <2>1. /\ DOMAIN job' = DOMAIN job \cup {Len(job) + 1} /\ Len(job) + 1 \notin DOMAIN job
        /\ job'[Len(job) + 1].op = "apply"
        /\ \A i \in DOMAIN job : job'[i].op = job[i].op /\ job'[i].status = job[i].status
    BY <1>5 DEF Inserted, Inv, JobsInv
  <2>2. Retained' = Retained
    BY <1>5, <2>1 DEF Retained, IsStage, Open
  <2>3. \A i \in DOMAIN job' : (IsStage(i) /\ Open(i))' => job'[i].retention = "kept"
    BY <1>5, <2>1 DEF StorageInv, IsStage, Open
  <2> QED
    BY <1>1, <1>3, <2>2, <2>3 DEF StorageInv
<1> QED
  BY <1>2, <1>4, <1>5

\* Steps of an eviction, of root and of a stop that store nothing.
LEMMA OthersStore ==
    ASSUME Inv, StorageInv,
           \/ EvictCleans \/ EvictRefused \/ EvictAborts \/ ManagerStops \/ HostStops
           \/ ManagerServes \/ UNCHANGED vars
           \/ \E s \in Ids : RootBegins(s) \/ RootMutates(s) \/ RootEnds(s)
    PROVE  StorageInv'
<1>1. CASE EvictCleans
  <2>1. lock.job \in Ids /\ dir \in [Ids -> {"absent", "partial", "final"}]
    BY <1>1, RetainedFinite DEF EvictCleans, Inv, EvictInv, ShapeInv
  <2>2. dir' = [dir EXCEPT ![lock.job] = "absent"] /\ lock'.job = lock.job /\ job' = job
    BY <1>1 DEF EvictCleans, Inv, ShapeInv
  <2> QED
    BY <2>1, <2>2, TableStays
<1>2. CASE EvictRefused \/ EvictAborts \/ ManagerStops \/ HostStops
  BY <1>2, TableStays DEF EvictRefused, EvictAborts, ManagerStops, HostStops, Stopped, Free
<1>3. CASE ManagerServes \/ UNCHANGED vars \/ \E s \in Ids : RootBegins(s) \/ RootMutates(s) \/ RootEnds(s)
  BY <1>3, TableStays DEF ManagerServes, vars, RootBegins, RootMutates, RootEnds, Stopped, Free, StorageInv
<1> QED
  BY <1>1, <1>2, <1>3

\* Every step keeps the storage within its bound.
LEMMA StorageNext ==
    Inv /\ Inv' /\ StorageInv /\ [Next]_vars => StorageInv'
<1> SUFFICES ASSUME Inv, Inv', StorageInv, [Next]_vars PROVE StorageInv'
  OBVIOUS
<1>1. ASSUME NEW d \in Discoveries, CreateStage(d) PROVE StorageInv'
  BY <1>1, CreateStageStores
<1>2. ASSUME NEW d \in Discoveries, NEW j \in Ids, EvictBegins(d, j) PROVE StorageInv'
  BY <1>2, EvictBeginsStores
<1>3. ASSUME EvictEnds PROVE StorageInv'
  BY <1>3, EvictEndsStores
<1>4. ASSUME NEW s \in Ids, CreateApply(s) PROVE StorageInv'
  BY <1>4, CreateApplyStores
<1>5. ASSUME NEW j \in Ids,
             \/ StageRuns(j) \/ StageFails(j) \/ StageDownloads(j) \/ StageVerified(j)
             \/ StageCompletes(j) \/ StageCompletionFails(j)
      PROVE  StorageInv'
  BY <1>5, StageStores
<1>6. ASSUME NEW j \in Ids,
             \/ ApplyRuns(j) \/ ApplyRunFails(j) \/ ApplyPins(j) \/ ApplyPinFails(j)
             \/ ApplySends(j) \/ ApplySendFails(j) \/ ApplyRejected(j) \/ ApplyCompletes(j)
             \/ ApplyCompletionFails(j) \/ ApplyLost(j)
      PROVE  StorageInv'
  BY <1>6, ApplyStores
<1>7. ASSUME NEW j \in Ids, RecoverCleans(j) \/ RecoverFails(j) PROVE StorageInv'
  BY <1>7, RecoveryStores
<1>8. ASSUME \/ EvictCleans \/ EvictRefused \/ EvictAborts \/ ManagerStops \/ HostStops
             \/ ManagerServes \/ UNCHANGED vars
             \/ \E s \in Ids : RootBegins(s) \/ RootMutates(s) \/ RootEnds(s)
      PROVE  StorageInv'
  BY <1>8, OthersStore
<1> QED
  BY <1>1, <1>2, <1>3, <1>4, <1>5, <1>6, <1>7, <1>8 DEF Next

\* The staging root never holds more candidates than its places, partial ones and
\* those of interrupted evictions, failed inserts and crashes included.
THEOREM StagingBounded ==
    Spec => []StorageBounded
<1>1. Init => StorageInv
  <2> SUFFICES ASSUME Init PROVE StorageInv
    OBVIOUS
  <2>1. DOMAIN job = {} /\ Retained = {}
    BY DEF Init, Retained
  <2>2. Cardinality(Retained) = 0
    BY <2>1, FS_EmptySet
  <2> QED
    BY <2>1, <2>2, ManagerUpdateAssumption DEF Init, StorageInv, Free, IsStage
<1>2. Inv /\ StorageInv => StorageBounded
  <2> SUFFICES ASSUME Inv, StorageInv PROVE StorageBounded
    OBVIOUS
  <2> DEFINE stored == {s \in Ids : dir[s] # "absent"}
  <2>1. stored \subseteq Retained
    BY DEF StorageInv
  <2>2. IsFiniteSet(Retained)
    BY RetainedFinite DEF Inv
  <2>3. Cardinality(stored) <= Cardinality(Retained) /\ IsFiniteSet(stored)
    BY <2>1, <2>2, FS_Subset
  <2>4. Cardinality(stored) \in Nat /\ Cardinality(Retained) \in Nat
    BY <2>2, <2>3, FS_CardinalityType
  <2> QED
    BY <2>3, <2>4, ManagerUpdateAssumption DEF StorageInv, StorageBounded
<1> QED
  BY <1>1, <1>2, Invariance, StorageNext, PTL DEF Spec
=============================================================================
