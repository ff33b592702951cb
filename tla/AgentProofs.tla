---------------------------- MODULE AgentProofs -----------------------------
(***************************************************************************)
(* What the Manager may rely on of an Agent, for any versions, cores, jobs,*)
(* accounts, batches, failures and crashes.                                *)
(*                                                                         *)
(* ConfigApply: an apply is all or nothing, and what the Manager confirms  *)
(* is deployed.                                                            *)
(* Traffic: no byte is charged twice, and none is lost.                    *)
(***************************************************************************)
EXTENDS ConfigApply, Traffic, SequenceTheorems, FiniteSetTheorems, WellFoundedInduction, TLAPS

(***************************************************************************)
(* Configuration versions on a node                                        *)
(***************************************************************************)
JobRec == [version : Versions, status : {"pending", "in_progress", "succeeded", "failed"}]

TaskRec == [job : Nat, version : Versions, phase : Phases, next : Nat,
            promoted : SUBSET Cores, saved : SUBSET Cores, clean : BOOLEAN]

\* The variables other than the task.
ShapeInv ==
    /\ file \in [Cores -> Content] /\ running \in [Cores -> Content]
    /\ before \in [Cores -> Content]
    /\ backup \in [Cores -> [Versions -> Content]]
    /\ verified \in [Cores -> SUBSET Versions]
    /\ active \in Versions
    /\ job \in Seq(JobRec)
    /\ failures \in 0 .. MaxFailures /\ crashes \in 0 .. MaxCrashes

\* Jobs are taken in their order; the one in the Agent's hands is in progress and
\* everything behind it still waits.
QueueInv ==
    /\ \A i, j \in DOMAIN job : i < j /\ job[j].status # "pending" => job[i].status # "pending"
    /\ task # None =>
        /\ task \in TaskRec /\ task.job \in DOMAIN job
        /\ job[task.job].status = "in_progress" /\ task.version = job[task.job].version
        /\ \A k \in DOMAIN job : k > task.job => job[k].status = "pending"

\* The first i cores of a version.
First(v, i) == {Selects[v][k] : k \in 1 .. i}

\* Where the apply is, and which cores it has promoted.
ProgressInv ==
    task # None =>
        /\ task.next \in 0 .. Len(Selects[task.version])
        /\ task.saved \subseteq task.promoted /\ task.promoted \subseteq SelectedBy(task.version)
        /\ task.phase \in {"preparing", "promoting", "restarting"} => task.next >= 1
        /\ task.phase = "preparing" => task.promoted = {} /\ task.next = 1
        /\ task.phase = "promoting" => task.promoted = First(task.version, task.next - 1)
        /\ task.phase \in {"restarting", "succeeded"} => task.promoted = SelectedBy(task.version)
        /\ task.phase = "rolling_back" => First(task.version, task.next) \subseteq task.promoted

\* What is on the node, phase by phase.
NodeInv ==
    task # None =>
        /\ task.phase \in {"preparing", "promoting", "restarting", "succeeded"} =>
              \A c \in Cores :
                  file[c] = IF c \in task.promoted THEN task.version ELSE before[c]
        /\ task.phase = "restarting" =>
              \A c \in First(task.version, task.next - 1) : running[c] = task.version
        /\ task.phase = "succeeded" /\ ServiceControl =>
              \A c \in task.promoted : running[c] = task.version
        /\ task.phase = "rolling_back" /\ task.clean =>
              \A c \in Cores \ First(task.version, task.next) :
                  file[c] = before[c] /\ (c \in task.promoted => running[c] = before[c])
        /\ task.phase = "failed" /\ task.clean =>
              \A c \in Cores : file[c] = before[c] /\ (c \in task.promoted => running[c] = before[c])

\* The backups of the promoted cores hold what was there before.
BackupInv ==
    task # None /\ task.phase \in {"preparing", "promoting", "restarting", "rolling_back"} =>
        \A c \in task.promoted : Restored(c) = before[c]

\* Once the newest job that was taken has succeeded, its version is deployed.
DeployedInv ==
    \A m \in DOMAIN job :
        job[m].status = "succeeded" /\ (\A k \in DOMAIN job : k > m => job[k].status = "pending")
        => /\ active = job[m].version
           /\ \A c \in SelectedBy(active) :
                 file[c] = active /\ (ServiceControl => running[c] = active)

\* The inductive invariant.
Inv == ShapeInv /\ QueueInv /\ ProgressInv /\ NodeInv /\ BackupInv /\ DeployedInv

(***************************************************************************)
(* Versions and their cores                                                *)
(***************************************************************************)
\* A version selects at least one core, each of them once.
LEMMA Selection ==
    ASSUME NEW v \in Versions
    PROVE  /\ Len(Selects[v]) \in Nat /\ Len(Selects[v]) >= 1
           /\ DOMAIN Selects[v] = 1 .. Len(Selects[v])
           /\ \A i \in 1 .. Len(Selects[v]) : Selects[v][i] \in Cores
           /\ \A i, j \in 1 .. Len(Selects[v]) : Selects[v][i] = Selects[v][j] => i = j
<1>1. Selects[v] \in Seq(Cores) /\ Selects[v] # <<>>
      /\ \A i, j \in DOMAIN Selects[v] : Selects[v][i] = Selects[v][j] => i = j
  BY ConfigApplyAssumption
<1>. QED
  BY <1>1, LenProperties, EmptySeq, ElementOfSeq

\* The cores of a version one after the other.
LEMMA FirstCores ==
    ASSUME NEW v \in Versions
    PROVE  /\ SelectedBy(v) = First(v, Len(Selects[v])) /\ First(v, 0) = {}
           /\ SelectedBy(v) \subseteq Cores
           /\ \A i \in 1 .. Len(Selects[v]) :
                 /\ First(v, i) = First(v, i - 1) \cup {Selects[v][i]}
                 /\ Selects[v][i] \notin First(v, i - 1)
                 /\ Selects[v][i] \in Cores /\ Selects[v][i] \in SelectedBy(v)
<1>1. SelectedBy(v) = First(v, Len(Selects[v])) /\ First(v, 0) = {} /\ SelectedBy(v) \subseteq Cores
  BY Selection DEF SelectedBy, First
<1>2. ASSUME NEW i \in 1 .. Len(Selects[v])
      PROVE  /\ First(v, i) = First(v, i - 1) \cup {Selects[v][i]}
             /\ Selects[v][i] \notin First(v, i - 1)
             /\ Selects[v][i] \in Cores /\ Selects[v][i] \in SelectedBy(v)
  <2>1. 1 .. i = (1 .. i - 1) \cup {i} /\ i \notin 1 .. i - 1 /\ 1 .. i - 1 \subseteq 1 .. Len(Selects[v])
    BY Selection
  <2>. QED
    BY <2>1, Selection DEF First, SelectedBy
<1>. QED
  BY <1>1, <1>2

(***************************************************************************)
(* The queue                                                               *)
(***************************************************************************)
\* The rows of the queue.
LEMMA Queue ==
    ASSUME ShapeInv
    PROVE  /\ Len(job) \in Nat /\ DOMAIN job = 1 .. Len(job)
           /\ \A j \in DOMAIN job : job[j] \in JobRec
  BY LenProperties, ElementOfSeq DEF ShapeInv

\* UPDATE of one row of the queue.
LEMMA JobReplaced ==
    ASSUME ShapeInv, NEW j \in DOMAIN job, NEW new \in JobRec, job' = [job EXCEPT ![j] = new]
    PROVE  /\ job' \in Seq(JobRec) /\ DOMAIN job' = DOMAIN job /\ job'[j] = new
           /\ \A i \in DOMAIN job : i # j => job'[i] = job[i]
<1>1. job \in Seq(JobRec) /\ DOMAIN job = 1 .. Len(job)
  BY Queue DEF ShapeInv
<1>2. /\ job' \in Seq(JobRec)
      /\ \A k \in 1 .. Len(job) : job'[k] = IF k = j THEN new ELSE job[k]
  BY <1>1, ExceptSeq
<1>. QED
  BY <1>1, <1>2

\* UPDATE of the status of one job.
LEMMA JobSet ==
    ASSUME ShapeInv, NEW j \in DOMAIN job, NEW st \in {"in_progress", "succeeded", "failed"},
           job' = [job EXCEPT ![j].status = st]
    PROVE  /\ job' \in Seq(JobRec) /\ DOMAIN job' = DOMAIN job
           /\ job'[j].status = st /\ job'[j].version = job[j].version
           /\ \A i \in DOMAIN job : i # j => job'[i] = job[i]
<1>. DEFINE new == [job[j] EXCEPT !.status = st]
<1>1. new \in JobRec /\ new.status = st /\ new.version = job[j].version
  BY Queue DEF JobRec
<1>2. job' = [job EXCEPT ![j] = new]
  OBVIOUS
<1>. HIDE DEF new
<1>3. job' \in Seq(JobRec) /\ DOMAIN job' = DOMAIN job /\ job'[j] = new
      /\ \A i \in DOMAIN job : i # j => job'[i] = job[i]
  BY <1>1, <1>2, JobReplaced, Zenon
<1>. QED
  BY <1>1, <1>3, Zenon

\* While the Agent has a job in its hands no finished job is the newest one taken.
LEMMA Busy ==
    ASSUME ShapeInv, QueueInv, task # None, UNCHANGED job
    PROVE  DeployedInv'
<1>1. task.job \in DOMAIN job /\ job[task.job].status = "in_progress"
      /\ \A k \in DOMAIN job : k > task.job => job[k].status = "pending"
  BY DEF QueueInv
<1>2. \A m \in DOMAIN job : m \in Nat
  BY Queue
<1>3. ASSUME NEW m \in DOMAIN job, job[m].status = "succeeded",
             \A k \in DOMAIN job : k > m => job[k].status = "pending"
      PROVE  FALSE
  <2>1. ~(task.job > m) /\ ~(m > task.job)
    BY <1>1, <1>3
  <2>2. m = task.job
    BY <1>1, <1>2, <2>1
  <2>. QED
    BY <1>1, <1>3, <2>2
<1>. QED
  BY <1>3 DEF DeployedInv

\* A step of the task that leaves the queue alone.
LEMMA TaskMoves ==
    ASSUME Inv, task # None, task' \in TaskRec, task'.job = task.job, task'.version = task.version,
           UNCHANGED job
    PROVE  QueueInv' /\ DeployedInv'
<1>1. DeployedInv'
  BY Busy DEF Inv
<1>2. QueueInv'
  BY DEF Inv, QueueInv
<1>. QED
  BY <1>1, <1>2

\* An apply job is queued.
LEMMA RequestApplyStep ==
    ASSUME Inv, NEW v \in Versions, RequestApply(v)
    PROVE  Inv'
<1>. DEFINE new == [version |-> v, status |-> "pending"]
<1>1. new \in JobRec /\ new.status = "pending"
  BY DEF JobRec
<1>2. job' = Append(job, new)
      /\ UNCHANGED <<file, running, backup, task, active, failures, crashes, before, verified>>
  BY DEF RequestApply
<1>. HIDE DEF new
<1>3. /\ job \in Seq(JobRec) /\ Len(job) \in Nat /\ DOMAIN job = 1 .. Len(job)
  BY Queue DEF Inv, ShapeInv
<1>4. /\ job' \in Seq(JobRec) /\ Len(job') = Len(job) + 1
      /\ \A i \in 1 .. Len(job) : job'[i] = job[i]
      /\ job'[Len(job) + 1] = new
  BY <1>1, <1>2, <1>3, AppendProperties
<1>5. DOMAIN job' = 1 .. Len(job) + 1
  BY <1>4, LenProperties
<1>6. ShapeInv'
  BY <1>2, <1>4 DEF Inv, ShapeInv
<1>7. QueueInv'
  BY <1>1, <1>2, <1>3, <1>4, <1>5 DEF Inv, QueueInv
<1>8. ProgressInv' /\ NodeInv' /\ BackupInv'
  BY <1>2 DEF Inv, ProgressInv, NodeInv, BackupInv, Restored
<1>9. DeployedInv'
  <2>. SUFFICES ASSUME NEW m \in DOMAIN job', job'[m].status = "succeeded",
                       \A k \in DOMAIN job' : k > m => job'[k].status = "pending"
                PROVE  /\ active' = job'[m].version
                       /\ \A c \in SelectedBy(active') :
                             file'[c] = active' /\ (ServiceControl => running'[c] = active')
    BY DEF DeployedInv
  <2>1. m \in DOMAIN job /\ job'[m] = job[m]
    BY <1>1, <1>3, <1>4, <1>5
  <2>2. \A k \in DOMAIN job : k > m => job[k].status = "pending"
    BY <1>3, <1>4, <1>5
  <2>. QED
    BY <1>2, <2>1, <2>2 DEF Inv, DeployedInv
<1>. QED
  BY <1>6, <1>7, <1>8, <1>9 DEF Inv

\* The oldest waiting job is taken: everything behind it waits too.
LEMMA ClaimStep ==
    ASSUME Inv, Claim
    PROVE  Inv'
<1>1. PICK j \in DOMAIN job :
          /\ task = None /\ job[j].status = "pending"
          /\ \A i \in 1 .. j - 1 : job[i].status # "pending"
          /\ job' = [job EXCEPT ![j].status = "in_progress"]
          /\ task' = [job |-> j, version |-> job[j].version, phase |-> "preparing",
                      next |-> 1, promoted |-> {}, saved |-> {}, clean |-> TRUE]
          /\ before' = file
          /\ UNCHANGED <<file, running, backup, active, failures, crashes, verified>>
  BY Zenon DEF Claim
<1>2. /\ Len(job) \in Nat /\ DOMAIN job = 1 .. Len(job) /\ job[j].version \in Versions
  BY Queue DEF Inv, JobRec
<1>3. /\ job' \in Seq(JobRec) /\ DOMAIN job' = DOMAIN job
      /\ job'[j].status = "in_progress" /\ job'[j].version = job[j].version
      /\ \A i \in DOMAIN job : i # j => job'[i] = job[i]
  BY <1>1, JobSet, Zenon DEF Inv
<1>4. task' \in TaskRec /\ task'.job = j /\ task'.version = job[j].version
      /\ task'.phase = "preparing" /\ task'.next = 1 /\ task'.promoted = {} /\ task'.saved = {}
  <2>1. task' = [job |-> j, version |-> job[j].version, phase |-> "preparing",
                 next |-> 1, promoted |-> {}, saved |-> {}, clean |-> TRUE]
    BY <1>1
  <2>2. j \in Nat /\ "preparing" \in Phases
    BY <1>2 DEF Phases
  <2>. HIDE <1>1
  <2>. QED
    BY <1>2, <2>1, <2>2 DEF TaskRec
<1>5. /\ \A i \in 1 .. j - 1 : job[i].status # "pending"
      /\ job[j].status = "pending" /\ before' = file
      /\ UNCHANGED <<file, running, backup, active, failures, crashes, verified>>
  BY <1>1
<1>6. ShapeInv'
  BY <1>3, <1>5 DEF Inv, ShapeInv
<1>7. \A k \in DOMAIN job : k > j => job[k].status = "pending"
  BY <1>2, <1>5 DEF Inv, QueueInv
<1>8. QueueInv'
  <2>1. \A a, b \in DOMAIN job : a < b /\ job'[b].status # "pending" => job'[a].status # "pending"
    <3>. SUFFICES ASSUME NEW a \in DOMAIN job, NEW b \in DOMAIN job, a < b,
                         job'[b].status # "pending", a # j
                  PROVE  job[a].status # "pending"
      BY <1>3
    <3>1. CASE b = j
      BY <1>2, <1>5, <3>1
    <3>2. CASE b # j
      BY <1>3, <3>2 DEF Inv, QueueInv
    <3>. QED
      BY <3>1, <3>2
  <2>2. \A k \in DOMAIN job : k > j => job'[k].status = "pending"
    BY <1>2, <1>3, <1>7
  <2>. QED
    BY <1>3, <1>4, <2>1, <2>2 DEF QueueInv
<1>9. ProgressInv'
  <2>1. First(job[j].version, 0) = {} /\ Len(Selects[job[j].version]) \in Nat
        /\ Len(Selects[job[j].version]) >= 1
    BY <1>2, FirstCores, Selection
  <2>. QED
    BY <1>4, <2>1 DEF ProgressInv
<1>10. NodeInv' /\ BackupInv'
  BY <1>4, <1>5 DEF NodeInv, BackupInv
<1>11. DeployedInv'
  <2>1. ASSUME NEW m \in DOMAIN job, job'[m].status = "succeeded",
               \A k \in DOMAIN job : k > m => job'[k].status = "pending"
        PROVE  FALSE
    <3>1. ~(j > m) /\ m # j
      BY <1>3, <2>1
    <3>2. m > j
      BY <1>2, <3>1
    <3>. QED
      BY <1>3, <1>7, <2>1, <3>2
  <2>. QED
    BY <1>3, <2>1 DEF DeployedInv
<1>. QED
  BY <1>6, <1>8, <1>9, <1>10, <1>11 DEF Inv

\* What was never reported is closed.
LEMMA CloseOrphansStep ==
    ASSUME Inv, CloseOrphans
    PROVE  Inv'
<1>1. task = None /\ UNCHANGED <<file, running, backup, task, active, failures, crashes, before, verified>>
  BY DEF CloseOrphans
<1>2. DOMAIN job = 1 .. Len(job) /\ Len(job) \in Nat /\ \A j \in DOMAIN job : job[j] \in JobRec
  BY Queue DEF Inv
<1>3. job' = [j \in DOMAIN job |-> IF job[j].status = "in_progress"
                                   THEN [job[j] EXCEPT !.status = "failed"] ELSE job[j]]
  BY DEF CloseOrphans
<1>4. \A j \in DOMAIN job :
          /\ [job[j] EXCEPT !.status = "failed"] \in JobRec
          /\ [job[j] EXCEPT !.status = "failed"].status = "failed"
  BY <1>2 DEF JobRec
<1>5. DOMAIN job' = DOMAIN job
  BY <1>3
<1>6. \A j \in DOMAIN job :
          \/ job'[j] = job[j]
          \/ job'[j] \in JobRec /\ job'[j].status = "failed" /\ job[j].status = "in_progress"
  BY <1>3, <1>4, Zenon
<1>. HIDE <1>3, <1>4
<1>7. job' \in Seq(JobRec)
  <2>1. job' = [j \in DOMAIN job |-> job'[j]]
    BY <1>3
  <2>2. \A j \in DOMAIN job : job'[j] \in JobRec
    BY <1>2, <1>6
  <2>3. job' \in [1 .. Len(job) -> JobRec]
    BY <1>2, <2>1, <2>2
  <2>. QED
    BY <1>2, <2>3, IsASeq, SeqDef
<1>8. ShapeInv'
  BY <1>1, <1>7 DEF Inv, ShapeInv
<1>9. QueueInv'
  BY <1>1, <1>5, <1>6 DEF Inv, QueueInv
<1>10. ProgressInv' /\ NodeInv' /\ BackupInv'
  BY <1>1 DEF ProgressInv, NodeInv, BackupInv
<1>11. DeployedInv'
  <2>. SUFFICES ASSUME NEW m \in DOMAIN job, job'[m].status = "succeeded",
                       \A k \in DOMAIN job : k > m => job'[k].status = "pending"
                PROVE  /\ active = job'[m].version
                       /\ \A c \in SelectedBy(active) :
                             file[c] = active /\ (ServiceControl => running[c] = active)
    BY <1>1, <1>5 DEF DeployedInv
  <2>1. job'[m] = job[m]
    BY <1>6
  <2>2. \A k \in DOMAIN job : k > m => job[k].status = "pending"
    BY <1>6
  <2>. QED
    BY <2>1, <2>2 DEF Inv, DeployedInv
<1>. QED
  BY <1>8, <1>9, <1>10, <1>11 DEF Inv

(***************************************************************************)
(* The apply                                                               *)
(***************************************************************************)
\* What the task in the Agent's hands looks like.
LEMMA TaskShape ==
    ASSUME Inv, task # None
    PROVE  /\ task \in TaskRec /\ task.version \in Versions /\ task.next \in Nat
           /\ task.next \in 0 .. Len(Selects[task.version])
           /\ Len(Selects[task.version]) \in Nat /\ Len(Selects[task.version]) >= 1
           /\ task.saved \subseteq task.promoted /\ task.promoted \subseteq SelectedBy(task.version)
           /\ SelectedBy(task.version) \subseteq Cores
<1>1. task \in TaskRec /\ task.next \in 0 .. Len(Selects[task.version])
      /\ task.saved \subseteq task.promoted /\ task.promoted \subseteq SelectedBy(task.version)
  BY DEF Inv, QueueInv, ProgressInv
<1>2. task.version \in Versions /\ task.next \in Nat
  BY <1>1 DEF TaskRec
<1>. QED
  BY <1>1, <1>2, Selection, FirstCores

\* A failure is counted.
LEMMA FailCounts ==
    ASSUME Inv, Fail
    PROVE  failures' \in 0 .. MaxFailures
  BY ConfigApplyAssumption DEF Inv, ShapeInv, Fail

\* Every file is staged and validated.
LEMMA PrepareStep ==
    ASSUME Inv, Prepare
    PROVE  Inv'
<1>1. task # None /\ task.phase = "preparing" /\ task' = [task EXCEPT !.phase = "promoting"]
      /\ UNCHANGED <<file, running, backup, job, active, failures, crashes, before, verified>>
  BY DEF Prepare, InPhase
<1>2. task \in TaskRec /\ task.version \in Versions
  BY <1>1, TaskShape
<1>3. task' \in TaskRec /\ task'.job = task.job /\ task'.version = task.version
      /\ task'.phase = "promoting" /\ task'.next = task.next /\ task'.promoted = task.promoted
      /\ task'.saved = task.saved
  BY <1>1, <1>2 DEF TaskRec, Phases
<1>4. UNCHANGED <<file, running, backup, job, active, failures, crashes, before, verified>>
      /\ task # None /\ task.phase = "preparing"
  BY <1>1
<1>. HIDE <1>1
<1>5. ShapeInv'
  BY <1>4 DEF Inv, ShapeInv
<1>6. QueueInv' /\ DeployedInv'
  BY <1>3, <1>4, TaskMoves
<1>7. ProgressInv'
  <2>1. task.next = 1 /\ task.promoted = {} /\ task.next - 1 = 0
    BY <1>4 DEF Inv, ProgressInv
  <2>2. First(task.version, task.next - 1) = {}
    BY <1>2, <2>1, FirstCores
  <2>. QED
    BY <1>3, <1>4, <2>1, <2>2 DEF Inv, ProgressInv
<1>8. NodeInv'
  BY <1>3, <1>4 DEF Inv, NodeInv
<1>9. BackupInv'
  BY <1>3, <1>4 DEF Inv, BackupInv, Restored
<1>. QED
  BY <1>5, <1>6, <1>7, <1>8, <1>9 DEF Inv

\* A file does not pass its validation: nothing was promoted.
LEMMA PrepareFailsStep ==
    ASSUME Inv, PrepareFails
    PROVE  Inv'
<1>1. task # None /\ task.phase = "preparing" /\ task' = [task EXCEPT !.phase = "failed"]
      /\ UNCHANGED <<file, running, backup, job, active, crashes, before, verified>>
      /\ failures' \in 0 .. MaxFailures
  BY FailCounts DEF PrepareFails, InPhase
<1>2. task \in TaskRec /\ task.version \in Versions
  BY <1>1, TaskShape
<1>3. task' \in TaskRec /\ task'.job = task.job /\ task'.version = task.version
      /\ task'.phase = "failed" /\ task'.next = task.next /\ task'.promoted = task.promoted
      /\ task'.saved = task.saved
  BY <1>1, <1>2 DEF TaskRec, Phases
<1>4. UNCHANGED <<file, running, backup, job, active, crashes, before, verified>>
      /\ task # None /\ task.phase = "preparing" /\ failures' \in 0 .. MaxFailures
  BY <1>1
<1>. HIDE <1>1
<1>5. ShapeInv'
  BY <1>4 DEF Inv, ShapeInv
<1>6. QueueInv' /\ DeployedInv'
  BY <1>3, <1>4, TaskMoves
<1>7. ProgressInv'
  BY <1>3, <1>4 DEF Inv, ProgressInv
<1>8. NodeInv' /\ BackupInv'
  BY <1>3, <1>4 DEF Inv, NodeInv, ProgressInv, BackupInv
<1>. QED
  BY <1>5, <1>6, <1>7, <1>8 DEF Inv

\* The core the apply is at, and the ones before it.
LEMMA AtCore ==
    ASSUME Inv, task # None, task.next >= 1
    PROVE  /\ CurrentCore \in Cores /\ CurrentCore \in SelectedBy(task.version)
           /\ First(task.version, task.next) = First(task.version, task.next - 1) \cup {CurrentCore}
           /\ CurrentCore \notin First(task.version, task.next - 1)
<1>1. task.version \in Versions /\ task.next \in 1 .. Len(Selects[task.version])
  BY TaskShape
<1>. QED
  BY <1>1, FirstCores DEF CurrentCore

\* The backup of one core is written.
LEMMA BackupWritten ==
    ASSUME Inv, task # None, NEW c \in Cores, backup' = Saved(c)
    PROVE  /\ backup' \in [Cores -> [Versions -> Content]]
           /\ \A d \in Cores : d # c => backup'[d] = backup[d]
           /\ file[c] # Absent => backup'[c][task.version] = file[c]
<1>1. backup \in [Cores -> [Versions -> Content]] /\ file[c] \in Content /\ task.version \in Versions
  BY TaskShape DEF Inv, ShapeInv
<1>2. CASE file[c] = Absent
  BY <1>1, <1>2 DEF Saved
<1>3. CASE file[c] # Absent
  <2>. DEFINE row == [backup[c] EXCEPT ![task.version] = file[c]]
  <2>1. row \in [Versions -> Content] /\ row[task.version] = file[c]
    BY <1>1
  <2>2. backup' = [backup EXCEPT ![c] = row]
    BY <1>3 DEF Saved
  <2>. HIDE DEF row
  <2>. QED
    BY <1>1, <2>1, <2>2
<1>. QED
  BY <1>2, <1>3
\* Where the apply goes after a file was promoted.
LEMMA AfterPromotionCases ==
    \/ ~LastCore /\ AfterPromotion.phase = "promoting" /\ AfterPromotion.next = task.next + 1
    \/ LastCore /\ ServiceControl /\ AfterPromotion.phase = "restarting" /\ AfterPromotion.next = 1
    \/ LastCore /\ ~ServiceControl /\ AfterPromotion.phase = "succeeded" /\ AfterPromotion.next = 1
<1>1. CASE ~LastCore
  BY <1>1 DEF AfterPromotion
<1>2. CASE LastCore /\ ServiceControl
  BY <1>2 DEF AfterPromotion
<1>3. CASE LastCore /\ ~ServiceControl
  BY <1>3 DEF AfterPromotion
<1>. QED
  BY <1>1, <1>2, <1>3

\* A file is saved and replaced.
LEMMA PromoteStep ==
    ASSUME Inv, Promote
    PROVE  Inv'
<1>. DEFINE c == CurrentCore
            v == task.version
            ph == AfterPromotion.phase
            nx == AfterPromotion.next
            pr == task.promoted \cup {c}
            sv == IF file[c] = Absent THEN task.saved ELSE task.saved \cup {c}
<1>1. /\ task # None /\ task.phase = "promoting" /\ backup' = Saved(c)
      /\ file' = [file EXCEPT ![c] = v]
      /\ task' = [task EXCEPT !.promoted = pr, !.saved = sv, !.phase = ph, !.next = nx]
      /\ UNCHANGED <<running, job, active, failures, crashes, before, verified>>
  BY DEF Promote, InPhase
<1>2. /\ task \in TaskRec /\ v \in Versions /\ Len(Selects[v]) \in Nat /\ task.next \in Nat
      /\ task.next \in 1 .. Len(Selects[v]) /\ task.promoted = First(v, task.next - 1)
      /\ task.saved \subseteq task.promoted /\ task.promoted \subseteq SelectedBy(v)
      /\ SelectedBy(v) \subseteq Cores /\ SelectedBy(v) = First(v, Len(Selects[v]))
      /\ First(v, 0) = {}
  <2>1. task.next >= 1 /\ task.promoted = First(v, task.next - 1)
    BY <1>1 DEF Inv, ProgressInv
  <2>. QED
    BY <1>1, <2>1, TaskShape, FirstCores
<1>3. /\ c \in Cores /\ c \in SelectedBy(v) /\ pr = First(v, task.next) /\ c \notin task.promoted
  BY <1>1, <1>2, AtCore
<1>4. /\ ph \in Phases /\ nx \in Nat
      /\ \/ ph = "promoting" /\ nx = task.next + 1 /\ task.next # Len(Selects[v])
         \/ ph = "restarting" /\ nx = 1 /\ task.next = Len(Selects[v])
         \/ ph = "succeeded" /\ nx = 1 /\ task.next = Len(Selects[v]) /\ ~ServiceControl
  BY <1>2, AfterPromotionCases DEF Phases, LastCore
<1>5. pr \in SUBSET Cores /\ sv \in SUBSET Cores /\ sv \subseteq pr
  BY <1>2, <1>3
<1>6. /\ file[c] = before[c]
      /\ \A d \in Cores : file[d] = IF d \in task.promoted THEN v ELSE before[d]
  BY <1>1, <1>3 DEF Inv, NodeInv
<1>7. /\ file' \in [Cores -> Content]
      /\ \A d \in Cores : file'[d] = IF d = c THEN v ELSE file[d]
  BY <1>1, <1>2, <1>3 DEF Inv, ShapeInv, Content
<1>8. /\ backup' \in [Cores -> [Versions -> Content]]
      /\ \A d \in Cores : d # c => backup'[d] = backup[d]
      /\ file[c] # Absent => backup'[c][v] = file[c]
  BY <1>1, <1>3, BackupWritten, Zenon
<1>. HIDE DEF c, ph, nx, pr, sv
<1>9. task' \in TaskRec /\ task'.job = task.job /\ task'.version = v /\ task'.phase = ph
      /\ task'.next = nx /\ task'.promoted = pr /\ task'.saved = sv
  BY <1>1, <1>2, <1>4, <1>5 DEF TaskRec
<1>10. UNCHANGED <<running, job, active, failures, crashes, before, verified>>
       /\ task # None /\ task.phase = "promoting"
  BY <1>1
<1>. HIDE <1>1
<1>11. ShapeInv'
  BY <1>7, <1>8, <1>10 DEF Inv, ShapeInv
<1>12. QueueInv' /\ DeployedInv'
  BY <1>9, <1>10, TaskMoves
<1>13. pr \subseteq SelectedBy(v) /\ (ph = "promoting" => pr = First(v, nx - 1))
       /\ (ph # "promoting" => pr = SelectedBy(v))
  BY <1>2, <1>3, <1>4 DEF pr
<1>14. ProgressInv'
  BY <1>2, <1>4, <1>5, <1>9, <1>13 DEF ProgressInv
<1>15. NodeInv'
  <2>1. \A d \in Cores : file'[d] = IF d \in pr THEN v ELSE before[d]
    BY <1>6, <1>7 DEF pr
  <2>2. First(v, 1 - 1) = {}
    BY <1>2
  <2>. QED
    BY <1>4, <1>9, <1>10, <2>1, <2>2 DEF NodeInv
<1>16. BackupInv'
  <2>1. ASSUME NEW d \in pr
        PROVE  (IF d \in sv THEN backup'[d][v] ELSE Absent) = before[d]
    <3>1. CASE d = c
      BY <1>2, <1>3, <1>6, <1>8, <3>1 DEF sv
    <3>2. CASE d # c
      <4>1. d \in task.promoted /\ d \in Cores /\ (d \in sv <=> d \in task.saved)
        BY <1>2, <2>1, <3>2 DEF pr, sv
      <4>2. (IF d \in task.saved THEN backup[d][v] ELSE Absent) = before[d]
        BY <1>10, <4>1 DEF Inv, BackupInv, Restored
      <4>. QED
        BY <1>8, <3>2, <4>1, <4>2
    <3>. QED
      BY <3>1, <3>2
  <2>. QED
    BY <1>9, <1>10, <2>1 DEF BackupInv, Restored
<1>. QED
  BY <1>11, <1>12, <1>14, <1>15, <1>16 DEF Inv

\* Promoting a file fails: the cores before it are rolled back.
LEMMA PromoteFailsStep ==
    ASSUME Inv, PromoteFails
    PROVE  Inv'
<1>. DEFINE c == CurrentCore
            v == task.version
            nx == task.next - 1
<1>1. /\ task # None /\ task.phase = "promoting" /\ backup' \in {backup, Saved(c)}
      /\ task' = [task EXCEPT !.phase = "rolling_back", !.next = nx]
      /\ UNCHANGED <<file, running, job, active, crashes, before, verified>>
      /\ failures' \in 0 .. MaxFailures
  BY FailCounts DEF PromoteFails, InPhase
<1>2. /\ task \in TaskRec /\ v \in Versions /\ Len(Selects[v]) \in Nat /\ task.next \in Nat
      /\ task.next \in 1 .. Len(Selects[v]) /\ task.promoted = First(v, task.next - 1)
      /\ task.saved \subseteq task.promoted /\ task.promoted \subseteq SelectedBy(v)
      /\ SelectedBy(v) \subseteq Cores
  <2>1. task.next >= 1 /\ task.promoted = First(v, task.next - 1)
    BY <1>1 DEF Inv, ProgressInv
  <2>. QED
    BY <1>1, <2>1, TaskShape
<1>3. c \in Cores /\ c \notin task.promoted
  BY <1>1, <1>2, AtCore
<1>4. /\ backup' \in [Cores -> [Versions -> Content]]
      /\ \A d \in Cores : d # c => backup'[d] = backup[d]
  <2>1. CASE backup' = backup
    BY <2>1 DEF Inv, ShapeInv
  <2>2. CASE backup' = Saved(c)
    BY <1>1, <1>3, <2>2, BackupWritten, Zenon
  <2>. QED
    BY <1>1, <2>1, <2>2
<1>5. nx \in Nat /\ nx \in 0 .. Len(Selects[v]) /\ "rolling_back" \in Phases
  BY <1>2 DEF Phases
<1>. HIDE DEF c
<1>6. task' \in TaskRec /\ task'.job = task.job /\ task'.version = v /\ task'.phase = "rolling_back"
      /\ task'.next = nx /\ task'.promoted = task.promoted /\ task'.saved = task.saved
  BY <1>1, <1>2, <1>5 DEF TaskRec
<1>7. UNCHANGED <<file, running, job, active, crashes, before, verified>>
      /\ task # None /\ task.phase = "promoting" /\ failures' \in 0 .. MaxFailures
  BY <1>1
<1>. HIDE <1>1
<1>8. ShapeInv'
  BY <1>4, <1>7 DEF Inv, ShapeInv
<1>9. QueueInv' /\ DeployedInv'
  BY <1>6, <1>7, TaskMoves
<1>10. ProgressInv'
  BY <1>2, <1>5, <1>6 DEF ProgressInv
<1>11. NodeInv'
  BY <1>2, <1>6, <1>7 DEF Inv, NodeInv
<1>12. BackupInv'
  <2>1. \A d \in task.promoted : d \in Cores /\ d # c /\ Restored(d) = before[d]
    BY <1>2, <1>3, <1>7 DEF Inv, BackupInv
  <2>. QED
    BY <1>4, <1>6, <1>7, <2>1 DEF BackupInv, Restored
<1>. QED
  BY <1>8, <1>9, <1>10, <1>11, <1>12 DEF Inv
\* What holds while services are restarted.
LEMMA Restarting ==
    ASSUME Inv, task # None, task.phase = "restarting"
    PROVE  /\ task.next \in 1 .. Len(Selects[task.version])
           /\ task.promoted = SelectedBy(task.version)
           /\ task.promoted = First(task.version, Len(Selects[task.version]))
           /\ CurrentCore \in Cores /\ CurrentCore \in task.promoted
           /\ First(task.version, task.next) = First(task.version, task.next - 1) \cup {CurrentCore}
           /\ \A d \in Cores : file[d] = IF d \in task.promoted THEN task.version ELSE before[d]
           /\ \A d \in First(task.version, task.next - 1) : running[d] = task.version
           /\ \A d \in task.promoted : Restored(d) = before[d]
<1>1. task.next >= 1 /\ task.promoted = SelectedBy(task.version)
  BY DEF Inv, ProgressInv
<1>2. task.next \in 1 .. Len(Selects[task.version]) /\ task.version \in Versions
  BY <1>1, TaskShape
<1>3. /\ \A d \in Cores : file[d] = IF d \in task.promoted THEN task.version ELSE before[d]
      /\ \A d \in First(task.version, task.next - 1) : running[d] = task.version
  BY DEF Inv, NodeInv
<1>4. \A d \in task.promoted : Restored(d) = before[d]
  BY DEF Inv, BackupInv
<1>5. SelectedBy(task.version) = First(task.version, Len(Selects[task.version]))
  BY <1>2, FirstCores
<1>. QED
  BY <1>1, <1>2, <1>3, <1>4, <1>5, AtCore

\* A service is restarted and passes its checks.
LEMMA RestartStep ==
    ASSUME Inv, Restart
    PROVE  Inv'
<1>. DEFINE c == CurrentCore
            v == task.version
            ph == IF LastCore THEN "succeeded" ELSE task.phase
            nx == IF LastCore THEN task.next ELSE task.next + 1
<1>1. /\ task # None /\ task.phase = "restarting"
      /\ running' = [running EXCEPT ![c] = file[c]]
      /\ task' = [task EXCEPT !.phase = ph, !.next = nx]
      /\ verified' = [verified EXCEPT ![c] = verified[c] \cup {file[c]}]
      /\ UNCHANGED <<file, backup, job, active, failures, crashes, before>>
  BY DEF Restart, InPhase
<1>2. /\ task \in TaskRec /\ v \in Versions /\ Len(Selects[v]) \in Nat /\ task.next \in Nat
      /\ task.saved \subseteq task.promoted
  BY <1>1, TaskShape
<1>3. /\ task.next \in 1 .. Len(Selects[v])
      /\ task.promoted = SelectedBy(v) /\ task.promoted = First(v, Len(Selects[v]))
      /\ c \in Cores /\ c \in task.promoted
      /\ First(v, task.next) = First(v, task.next - 1) \cup {c}
      /\ \A d \in Cores : file[d] = IF d \in task.promoted THEN v ELSE before[d]
      /\ \A d \in First(v, task.next - 1) : running[d] = v
      /\ \A d \in task.promoted : Restored(d) = before[d]
  BY <1>1, Restarting
<1>4. task.promoted \subseteq Cores /\ file[c] = v
  BY <1>2, <1>3, FirstCores
<1>5. /\ ph \in Phases /\ nx \in Nat /\ nx \in 1 .. Len(Selects[v])
      /\ \/ ph = "succeeded" /\ task.next = Len(Selects[v])
         \/ ph = "restarting" /\ nx - 1 = task.next
  BY <1>1, <1>2, <1>3 DEF Phases, LastCore
<1>6. running' \in [Cores -> Content] /\ \A d \in Cores : running'[d] = IF d = c THEN v ELSE running[d]
  BY <1>1, <1>2, <1>3, <1>4 DEF Inv, ShapeInv, Content
<1>7. verified' \in [Cores -> SUBSET Versions]
  BY <1>1, <1>2, <1>3, <1>4 DEF Inv, ShapeInv
<1>. HIDE DEF c, ph, nx
<1>8. task' \in TaskRec /\ task'.job = task.job /\ task'.version = v /\ task'.phase = ph
      /\ task'.next = nx /\ task'.promoted = task.promoted /\ task'.saved = task.saved
  BY <1>1, <1>2, <1>5 DEF TaskRec
<1>9. UNCHANGED <<file, backup, job, active, failures, crashes, before>>
      /\ task # None /\ task.phase = "restarting"
  BY <1>1
<1>. HIDE <1>1
<1>10. ShapeInv'
  BY <1>6, <1>7, <1>9 DEF Inv, ShapeInv
<1>11. QueueInv' /\ DeployedInv'
  BY <1>8, <1>9, TaskMoves
<1>12. ProgressInv'
  <2>1. task.promoted \subseteq SelectedBy(v) /\ task.promoted = SelectedBy(v)
    BY <1>3
  <2>2. nx \in 0 .. Len(Selects[v]) /\ nx >= 1 /\ ph \in {"succeeded", "restarting"}
    BY <1>2, <1>5
  <2>. HIDE <1>3, <1>5
  <2>. QED
    BY <1>2, <1>8, <2>1, <2>2 DEF ProgressInv
<1>13. NodeInv'
  <2>1. First(v, task.next) \subseteq Cores
    <3>1. First(v, task.next) \subseteq First(v, Len(Selects[v]))
      BY <1>2, <1>3 DEF First
    <3>. QED
      BY <1>3, <1>4, <3>1
  <2>2. \A d \in First(v, task.next) : running'[d] = v
    BY <1>3, <1>6, <2>1
  <2>. QED
    BY <1>3, <1>5, <1>8, <1>9, <2>2 DEF NodeInv
<1>14. BackupInv'
  BY <1>3, <1>8, <1>9 DEF BackupInv, Restored
<1>. QED
  BY <1>10, <1>11, <1>12, <1>13, <1>14 DEF Inv

\* A service does not come up: every core is rolled back.
LEMMA RestartFailsStep ==
    ASSUME Inv, RestartFails
    PROVE  Inv'
<1>. DEFINE c == CurrentCore
            v == task.version
            nx == Len(Selects[task.version])
<1>1. /\ task # None /\ task.phase = "restarting"
      /\ running' \in {[running EXCEPT ![c] = r] : r \in {running[c], file[c], Absent}}
      /\ task' = [task EXCEPT !.phase = "rolling_back", !.next = nx]
      /\ UNCHANGED <<file, backup, job, active, crashes, before, verified>>
      /\ failures' \in 0 .. MaxFailures
  BY FailCounts DEF RestartFails, InPhase
<1>2. /\ task \in TaskRec /\ v \in Versions /\ nx \in Nat /\ task.saved \subseteq task.promoted
  BY <1>1, TaskShape
<1>3. /\ task.promoted = SelectedBy(v) /\ task.promoted = First(v, nx)
      /\ c \in Cores /\ c \in task.promoted
      /\ \A d \in Cores : file[d] = IF d \in task.promoted THEN v ELSE before[d]
      /\ \A d \in task.promoted : Restored(d) = before[d]
  BY <1>1, Restarting
<1>4. running' \in [Cores -> Content]
  <2>1. PICK r \in {running[c], file[c], Absent} : running' = [running EXCEPT ![c] = r]
    BY <1>1
  <2>2. r \in Content
    BY <1>3 DEF Inv, ShapeInv, Content
  <2>. QED
    BY <2>1, <2>2 DEF Inv, ShapeInv
<1>. HIDE DEF c, nx
<1>5. task' \in TaskRec /\ task'.job = task.job /\ task'.version = v /\ task'.phase = "rolling_back"
      /\ task'.next = nx /\ task'.promoted = task.promoted /\ task'.saved = task.saved
  BY <1>1, <1>2 DEF TaskRec, Phases
<1>6. UNCHANGED <<file, backup, job, active, crashes, before, verified>>
      /\ task # None /\ failures' \in 0 .. MaxFailures
  BY <1>1
<1>. HIDE <1>1
<1>7. ShapeInv'
  BY <1>4, <1>6 DEF Inv, ShapeInv
<1>8. QueueInv' /\ DeployedInv'
  BY <1>5, <1>6, TaskMoves
<1>9. ProgressInv'
  <2>1. task.promoted \subseteq SelectedBy(v) /\ First(v, nx) \subseteq task.promoted
    BY <1>3
  <2>2. nx \in 0 .. Len(Selects[v])
    BY <1>2 DEF nx
  <2>. HIDE <1>3
  <2>. QED
    BY <1>2, <1>5, <2>1, <2>2 DEF ProgressInv
<1>10. NodeInv'
  BY <1>3, <1>5, <1>6 DEF NodeInv
<1>11. BackupInv'
  BY <1>3, <1>5, <1>6 DEF BackupInv, Restored
<1>. QED
  BY <1>7, <1>8, <1>9, <1>10, <1>11 DEF Inv

(***************************************************************************)
(* The rollback                                                            *)
(***************************************************************************)
\* The core that is rolled back.
LEMMA RollingBack ==
    ASSUME Inv, task # None, task.phase = "rolling_back", task.next > 0
    PROVE  /\ task.next \in 1 .. Len(Selects[task.version])
           /\ CurrentCore \in Cores /\ CurrentCore \in task.promoted
           /\ First(task.version, task.next) = First(task.version, task.next - 1) \cup {CurrentCore}
           /\ First(task.version, task.next - 1) \subseteq task.promoted
           /\ Restored(CurrentCore) = before[CurrentCore]
           /\ before[CurrentCore] \in Content
<1>1. First(task.version, task.next) \subseteq task.promoted
  BY DEF Inv, ProgressInv
<1>2. task.next >= 1 /\ task.next \in 1 .. Len(Selects[task.version])
  BY TaskShape
<1>3. \A d \in task.promoted : Restored(d) = before[d]
  BY DEF Inv, BackupInv
<1>4. CurrentCore \in Cores
      /\ First(task.version, task.next) = First(task.version, task.next - 1) \cup {CurrentCore}
  BY <1>2, AtCore
<1>. QED
  BY <1>1, <1>2, <1>3, <1>4 DEF Inv, ShapeInv

\* One core was rolled back, cleanly or not; a core that was is as it was before.
LEMMA OneRolledBack ==
    ASSUME Inv, task # None, task.phase = "rolling_back", task.next > 0,
           NEW ok \in BOOLEAN, RolledBack(ok),
           file' \in [Cores -> Content], running' \in [Cores -> Content],
           \A d \in Cores : d # CurrentCore => file'[d] = file[d] /\ running'[d] = running[d],
           ok => file'[CurrentCore] = before[CurrentCore] /\ running'[CurrentCore] = before[CurrentCore],
           failures' \in 0 .. MaxFailures,
           UNCHANGED <<backup, job, active, crashes, before, verified>>
    PROVE  Inv'
<1>. DEFINE c == CurrentCore
            v == task.version
            ph == IF task.next <= 1 THEN "failed" ELSE task.phase
            nx == IF task.next <= 1 THEN task.next ELSE task.next - 1
            cl == task.clean /\ ok
<1>1. task' = [task EXCEPT !.phase = ph, !.next = nx, !.clean = cl]
  BY DEF RolledBack
<1>2. /\ task \in TaskRec /\ v \in Versions /\ Len(Selects[v]) \in Nat /\ task.next \in Nat
      /\ task.saved \subseteq task.promoted /\ task.promoted \subseteq SelectedBy(v)
  BY TaskShape
<1>3. /\ task.next \in 1 .. Len(Selects[v]) /\ c \in Cores /\ c \in task.promoted
      /\ First(v, task.next) = First(v, task.next - 1) \cup {c}
      /\ First(v, task.next - 1) \subseteq task.promoted
  BY RollingBack
<1>4. First(v, 0) = {}
  BY <1>2, FirstCores
<1>5. /\ ph \in Phases /\ nx \in Nat /\ nx \in 0 .. Len(Selects[v])
      /\ \/ ph = "failed" /\ task.next - 1 = 0
         \/ ph = "rolling_back" /\ nx = task.next - 1
  BY <1>2, <1>3 DEF Phases
<1>6. cl \in BOOLEAN
  BY <1>2 DEF TaskRec
<1>7. cl => task.clean /\ ok
  OBVIOUS
<1>. HIDE DEF c, ph, nx, cl
<1>8. task' \in TaskRec /\ task'.job = task.job /\ task'.version = v /\ task'.phase = ph
      /\ task'.next = nx /\ task'.promoted = task.promoted /\ task'.saved = task.saved
  BY <1>1, <1>2, <1>5, <1>6 DEF TaskRec
<1>9. task'.clean = cl
  BY <1>1, <1>2, <1>6 DEF TaskRec
<1>. HIDE <1>1
<1>10. ShapeInv'
  BY DEF Inv, ShapeInv
<1>11. QueueInv' /\ DeployedInv'
  BY <1>8, TaskMoves
<1>12. ProgressInv'
  BY <1>2, <1>3, <1>5, <1>8 DEF ProgressInv
<1>13. cl => \A d \in Cores \ First(v, task.next - 1) :
                 file'[d] = before[d] /\ (d \in task.promoted => running'[d] = before[d])
  <2>. SUFFICES ASSUME cl, NEW d \in Cores \ First(v, task.next - 1)
                PROVE  file'[d] = before[d] /\ (d \in task.promoted => running'[d] = before[d])
    OBVIOUS
  <2>1. CASE d = c
    BY <1>7, <2>1 DEF c
  <2>2. CASE d # c
    <3>1. d \in Cores \ First(v, task.next)
      BY <1>3, <2>2
    <3>2. file[d] = before[d] /\ (d \in task.promoted => running[d] = before[d])
      BY <1>7, <3>1 DEF Inv, NodeInv
    <3>. QED
      BY <2>2, <3>2 DEF c
  <2>. QED
    BY <2>1, <2>2
<1>14. NodeInv'
  BY <1>4, <1>5, <1>8, <1>9, <1>13 DEF NodeInv
<1>15. BackupInv'
  BY <1>8 DEF Inv, BackupInv, Restored
<1>. QED
  BY <1>10, <1>11, <1>12, <1>14, <1>15 DEF Inv
\* A core is rolled back.
LEMMA RollbackStep ==
    ASSUME Inv, Rollback
    PROVE  Inv'
<1>. DEFINE c == CurrentCore
<1>1. /\ task # None /\ task.phase = "rolling_back" /\ task.next > 0
      /\ file' = [file EXCEPT ![c] = Restored(c)]
      /\ running' = [running EXCEPT ![c] = Restored(c)]
      /\ RolledBack(TRUE)
      /\ UNCHANGED <<backup, job, active, failures, crashes, before, verified>>
  BY DEF Rollback, InPhase
<1>2. c \in Cores /\ Restored(c) = before[c] /\ before[c] \in Content
  BY <1>1, RollingBack
<1>3. file \in [Cores -> Content] /\ running \in [Cores -> Content] /\ failures \in 0 .. MaxFailures
  BY DEF Inv, ShapeInv
<1>4. /\ file' \in [Cores -> Content] /\ running' \in [Cores -> Content]
      /\ \A d \in Cores : d # c => file'[d] = file[d] /\ running'[d] = running[d]
      /\ file'[c] = before[c] /\ running'[c] = before[c]
  BY <1>1, <1>2, <1>3
<1>5. failures' \in 0 .. MaxFailures
  BY <1>1, <1>3
<1>. QED
  BY <1>1, <1>4, <1>5, OneRolledBack, Zenon

\* A core is not rolled back, or its service does not follow.
LEMMA RollbackFailsStep ==
    ASSUME Inv, RollbackFails
    PROVE  Inv'
<1>. DEFINE c == CurrentCore
<1>1. /\ task # None /\ task.phase = "rolling_back" /\ task.next > 0
      /\ \/ UNCHANGED <<file, running>>
         \/ /\ file' = [file EXCEPT ![c] = Restored(c)]
            /\ running' \in {[running EXCEPT ![c] = r] : r \in {running[c], Restored(c), Absent}}
      /\ RolledBack(FALSE)
      /\ UNCHANGED <<backup, job, active, crashes, before, verified>>
      /\ failures' \in 0 .. MaxFailures
  BY FailCounts DEF RollbackFails, InPhase
<1>2. c \in Cores /\ Restored(c) = before[c] /\ before[c] \in Content
  BY <1>1, RollingBack
<1>3. file \in [Cores -> Content] /\ running \in [Cores -> Content]
  BY DEF Inv, ShapeInv
<1>4. /\ file' \in [Cores -> Content] /\ running' \in [Cores -> Content]
      /\ \A d \in Cores : d # c => file'[d] = file[d] /\ running'[d] = running[d]
  <2>1. CASE UNCHANGED <<file, running>>
    BY <1>3, <2>1
  <2>2. CASE /\ file' = [file EXCEPT ![c] = Restored(c)]
             /\ running' \in {[running EXCEPT ![c] = r] : r \in {running[c], Restored(c), Absent}}
    <3>1. PICK r \in {running[c], Restored(c), Absent} : running' = [running EXCEPT ![c] = r]
      BY <2>2
    <3>2. r \in Content
      BY <1>2, <1>3 DEF Content
    <3>. QED
      BY <1>2, <1>3, <2>2, <3>1, <3>2
  <2>. QED
    BY <1>1, <2>1, <2>2
<1>. QED
  BY <1>1, <1>4, OneRolledBack, Zenon

\* There was nothing to roll back.
LEMMA RollbackNothingStep ==
    ASSUME Inv, RollbackNothing
    PROVE  Inv'
<1>1. task # None /\ task.phase = "rolling_back" /\ task.next = 0
      /\ task' = [task EXCEPT !.phase = "failed"]
      /\ UNCHANGED <<file, running, backup, job, active, failures, crashes, before, verified>>
  BY DEF RollbackNothing, InPhase
<1>2. task \in TaskRec /\ task.version \in Versions
  BY <1>1, TaskShape
<1>3. task' \in TaskRec /\ task'.job = task.job /\ task'.version = task.version
      /\ task'.phase = "failed" /\ task'.next = task.next /\ task'.promoted = task.promoted
      /\ task'.saved = task.saved
  BY <1>1, <1>2 DEF TaskRec, Phases
<1>4. task'.clean = task.clean
  BY <1>1, <1>2 DEF TaskRec
<1>5. UNCHANGED <<file, running, backup, job, active, failures, crashes, before, verified>>
      /\ task # None /\ task.phase = "rolling_back" /\ task.next = 0
  BY <1>1
<1>. HIDE <1>1
<1>6. ShapeInv'
  BY <1>5 DEF Inv, ShapeInv
<1>7. QueueInv' /\ DeployedInv'
  BY <1>3, <1>5, TaskMoves
<1>8. ProgressInv'
  BY <1>3, <1>5 DEF Inv, ProgressInv
<1>9. NodeInv'
  <2>1. First(task.version, task.next) = {}
    BY <1>2, <1>5, FirstCores
  <2>. QED
    BY <1>3, <1>4, <1>5, <2>1 DEF Inv, NodeInv
<1>10. BackupInv'
  BY <1>3 DEF BackupInv
<1>. QED
  BY <1>6, <1>7, <1>8, <1>9, <1>10 DEF Inv

(***************************************************************************)
(* The outcome                                                             *)
(***************************************************************************)
\* The Agent has no task any more: nothing is said of one.
LEMMA NoTask ==
    ASSUME Inv, task' = None, UNCHANGED job
    PROVE  QueueInv' /\ ProgressInv' /\ NodeInv' /\ BackupInv'
  BY DEF Inv, QueueInv, ProgressInv, NodeInv, BackupInv

\* The outcome reaches the Manager.
LEMMA ReportStep ==
    ASSUME Inv, Report
    PROVE  Inv'
<1>. DEFINE n == task.job
            ph == task.phase
            v == task.version
<1>1. /\ task # None /\ ph \in {"succeeded", "failed"}
      /\ job' = [job EXCEPT ![n].status = ph]
      /\ active' = IF ph = "succeeded" THEN v ELSE active
      /\ task' = None
      /\ UNCHANGED <<file, running, backup, failures, crashes, before, verified>>
  BY DEF Report
<1>2. /\ n \in DOMAIN job /\ job[n].status = "in_progress" /\ v = job[n].version
      /\ \A k \in DOMAIN job : k > n => job[k].status = "pending"
      /\ \A i, j \in DOMAIN job : i < j /\ job[j].status # "pending" => job[i].status # "pending"
  BY <1>1 DEF Inv, QueueInv
<1>3. v \in Versions
  BY <1>1, TaskShape
<1>4. /\ job' \in Seq(JobRec) /\ DOMAIN job' = DOMAIN job
      /\ job'[n].status = ph /\ job'[n].version = job[n].version
      /\ \A i \in DOMAIN job : i # n => job'[i] = job[i]
  BY <1>1, <1>2, JobSet, Zenon DEF Inv
<1>5. /\ active' = IF ph = "succeeded" THEN v ELSE active
      /\ task' = None /\ task # None /\ ph \in {"succeeded", "failed"}
      /\ UNCHANGED <<file, running, backup, failures, crashes, before, verified>>
  BY <1>1
<1>6. ph = "succeeded" =>
          \A c \in SelectedBy(v) : file[c] = v /\ (ServiceControl => running[c] = v)
  <2>1. ph = "succeeded" => task.promoted = SelectedBy(v) /\ SelectedBy(v) \subseteq Cores
    BY <1>5, TaskShape DEF Inv, ProgressInv
  <2>. QED
    BY <1>5, <2>1 DEF Inv, NodeInv
<1>7. DOMAIN job \subseteq Nat
  BY Queue DEF Inv
<1>. HIDE <1>1
<1>. HIDE DEF n, ph, v
<1>8. ShapeInv'
  BY <1>3, <1>4, <1>5 DEF Inv, ShapeInv
<1>9. QueueInv'
  BY <1>2, <1>4, <1>5 DEF QueueInv
<1>10. ProgressInv' /\ NodeInv' /\ BackupInv'
  BY <1>5 DEF ProgressInv, NodeInv, BackupInv
<1>11. DeployedInv'
  <2>. SUFFICES ASSUME NEW m \in DOMAIN job, job'[m].status = "succeeded",
                       \A k \in DOMAIN job : k > m => job'[k].status = "pending"
                PROVE  /\ active' = job'[m].version
                       /\ \A c \in SelectedBy(active') :
                             file[c] = active' /\ (ServiceControl => running[c] = active')
    BY <1>4, <1>5 DEF DeployedInv
  <2>1. ~(n > m)
    BY <1>2, <1>4, <1>5
  <2>2. ~(m > n)
    BY <1>2, <1>4
  <2>3. m = n
    BY <1>2, <1>7, <2>1, <2>2
  <2>. QED
    BY <1>2, <1>4, <1>5, <1>6, <2>3
<1>. QED
  BY <1>8, <1>9, <1>10, <1>11 DEF Inv

\* The Agent or its report is lost.
LEMMA AgentLostStep ==
    ASSUME Inv, AgentLost
    PROVE  Inv'
<1>1. /\ task # None /\ task' = None /\ crashes < MaxCrashes /\ crashes' = crashes + 1
      /\ UNCHANGED <<file, running, backup, job, active, failures, before, verified>>
  BY DEF AgentLost
<1>2. ShapeInv'
  BY <1>1, ConfigApplyAssumption DEF Inv, ShapeInv
<1>3. DeployedInv'
  BY <1>1, Busy DEF Inv
<1>. QED
  BY <1>1, <1>2, <1>3, NoTask DEF Inv

\* The host restarts: the services follow their files.
LEMMA HostRestartsStep ==
    ASSUME Inv, HostRestarts
    PROVE  Inv'
<1>1. /\ task' = None /\ crashes < MaxCrashes /\ crashes' = crashes + 1 /\ running' = file
      /\ UNCHANGED <<file, backup, job, active, failures, before, verified>>
  BY DEF HostRestarts
<1>2. ShapeInv'
  BY <1>1, ConfigApplyAssumption DEF Inv, ShapeInv
<1>3. DeployedInv'
  <2>1. CASE task # None
    BY <1>1, <2>1, Busy DEF Inv
  <2>2. CASE task = None
    BY <1>1 DEF Inv, DeployedInv
  <2>. QED
    BY <2>1, <2>2
<1>. QED
  BY <1>1, <1>2, <1>3, NoTask DEF Inv

(***************************************************************************)
(* The theorems                                                            *)
(***************************************************************************)
\* Nothing was asked for yet, and the first version is deployed.
LEMMA InvInit ==
    ASSUME Init
    PROVE  Inv
<1>1. ShapeInv
  <2>1. file \in [Cores -> Content] /\ running \in [Cores -> Content] /\ before \in [Cores -> Content]
    BY ConfigApplyAssumption DEF Init, Content
  <2>2. backup \in [Cores -> [Versions -> Content]]
    BY DEF Init, Content
  <2>3. verified \in [Cores -> SUBSET Versions]
    BY ConfigApplyAssumption DEF Init
  <2>4. job \in Seq(JobRec)
    BY EmptySeq DEF Init
  <2>5. active \in Versions /\ failures \in 0 .. MaxFailures /\ crashes \in 0 .. MaxCrashes
    BY ConfigApplyAssumption DEF Init
  <2>. QED
    BY <2>1, <2>2, <2>3, <2>4, <2>5 DEF ShapeInv
<1>2. task = None /\ DOMAIN job = {}
  BY EmptySeq DEF Init
<1>. QED
  BY <1>1, <1>2 DEF Inv, QueueInv, ProgressInv, NodeInv, BackupInv, DeployedInv

\* No step breaks the inductive invariant.
LEMMA InvNext ==
    ASSUME Inv, [Next]_vars
    PROVE  Inv'
<1>1. ASSUME NEW v \in Versions, RequestApply(v) PROVE Inv'
  BY <1>1, RequestApplyStep
<1>2. CASE Claim
  BY <1>2, ClaimStep
<1>3. CASE CloseOrphans
  BY <1>3, CloseOrphansStep
<1>4. CASE Prepare \/ PrepareFails
  BY <1>4, PrepareStep, PrepareFailsStep
<1>5. CASE Promote \/ PromoteFails
  BY <1>5, PromoteStep, PromoteFailsStep
<1>6. CASE Restart \/ RestartFails
  BY <1>6, RestartStep, RestartFailsStep
<1>7. CASE Rollback \/ RollbackFails \/ RollbackNothing
  BY <1>7, RollbackStep, RollbackFailsStep, RollbackNothingStep
<1>8. CASE Report \/ AgentLost \/ HostRestarts
  BY <1>8, ReportStep, AgentLostStep, HostRestartsStep
<1>9. CASE UNCHANGED vars
  BY <1>9 DEF vars, Inv, ShapeInv, QueueInv, ProgressInv, NodeInv, BackupInv, Restored, DeployedInv
<1>. QED
  BY <1>1, <1>2, <1>3, <1>4, <1>5, <1>6, <1>7, <1>8, <1>9 DEF Next

\* The inductive invariant holds in every state.
THEOREM Invariance == Spec => []Inv
<1>1. Init => Inv
  BY InvInit
<1>2. Inv /\ [Next]_vars => Inv'
  BY InvNext
<1>. QED
  BY <1>1, <1>2, PTL DEF Spec

\* Every variable has its shape; a task holds its own job in progress and works on a core
\* its version selects (processConfigApplyTask, ClaimNextConfigTask).
THEOREM TypeCorrect == Spec => []TypeOK
<1>1. Inv => TypeOK
  <2>. SUFFICES ASSUME Inv
                PROVE  TypeOK
    OBVIOUS
  <2>1. task # None => task.phase \in Phases
    BY DEF Inv, QueueInv, TaskRec
  <2>2. task # None => task.clean \in BOOLEAN
    BY DEF Inv, QueueInv, TaskRec
  <2>3. job \in Seq([version : Versions, status : {"pending", "in_progress", "succeeded", "failed"}])
    BY DEF Inv, ShapeInv, JobRec
  <2>. QED
    BY <2>1, <2>2, <2>3 DEF Inv, ShapeInv, QueueInv, ProgressInv, TypeOK
<1>. QED
  BY <1>1, Invariance, PTL

\* An apply is all or nothing: a task about to report success has deployed its version on
\* every core it selects, and one about to report a failure that rolled back without
\* errors has put back every file and every service it touched
\* (processConfigApplyTask, rollbackPreparedRuntimes, Applier).
THEOREM AppliesAllOrNothing == Spec => []AllOrNothing
<1>1. Inv => AllOrNothing
  <2>. SUFFICES ASSUME Inv
                PROVE  AllOrNothing
    OBVIOUS
  <2>1. ASSUME InPhase("succeeded")
        PROVE  \A c \in SelectedBy(task.version) :
                   file[c] = task.version /\ (ServiceControl => running[c] = task.version)
    <3>1. task # None /\ task.phase = "succeeded"
      BY <2>1 DEF InPhase
    <3>2. task.promoted = SelectedBy(task.version) /\ SelectedBy(task.version) \subseteq Cores
      BY <3>1, TaskShape DEF Inv, ProgressInv
    <3>. QED
      BY <3>1, <3>2 DEF Inv, NodeInv
  <2>2. ASSUME InPhase("failed"), task.clean
        PROVE  file = before /\ \A c \in task.promoted : running[c] = before[c]
    <3>1. task # None /\ task.phase = "failed"
      BY <2>2 DEF InPhase
    <3>2. \A c \in Cores : file[c] = before[c] /\ (c \in task.promoted => running[c] = before[c])
      BY <2>2, <3>1 DEF Inv, NodeInv
    <3>3. file \in [Cores -> Content] /\ before \in [Cores -> Content]
      BY DEF Inv, ShapeInv
    <3>4. file = before
      BY <3>2, <3>3
    <3>5. task.promoted \subseteq Cores
      BY <3>1, TaskShape
    <3>. QED
      BY <3>2, <3>4, <3>5
  <2>. QED
    BY <2>1, <2>2 DEF AllOrNothing
<1>. QED
  BY <1>1, Invariance, PTL

\* What the Manager shows as applied is what the node has and runs, once no job is open
\* and the newest one succeeded (active_config_version_id, the orphan rule).
THEOREM ConfirmedDeployed == Spec => []ConfirmedIsDeployed
<1>1. Inv => ConfirmedIsDeployed
  <2>. SUFFICES ASSUME Inv, job # <<>>, job[Len(job)].status = "succeeded"
                PROVE  /\ active = job[Len(job)].version
                       /\ \A c \in SelectedBy(active) :
                             file[c] = active /\ (ServiceControl => running[c] = active)
    BY DEF ConfirmedIsDeployed
  <2>1. Len(job) \in DOMAIN job /\ \A k \in DOMAIN job : ~(k > Len(job))
    BY Queue, EmptySeq, LenProperties DEF Inv, ShapeInv
  <2>. QED
    BY <2>1 DEF Inv, DeployedInv
<1>. QED
  BY <1>1, Invariance, PTL

(***************************************************************************)
(* The traffic of the accounts                                             *)
(***************************************************************************)
(***************************************************************************)
(* Sums of rows                                                            *)
(***************************************************************************)
\* The order of the natural numbers, as a relation.
LEMMA LessThan == \A x, y \in Nat : <<y, x>> \in OpToRel(<, Nat) <=> y < x
<1>1. ASSUME NEW x \in Nat, NEW y \in Nat
      PROVE  <<y, x>> \in OpToRel(<, Nat) <=> y < x
  BY DEF OpToRel
<1> QED
  BY <1>1

\* A set of natural numbers has a least one.
LEMMA LeastNumber ==
    ASSUME NEW T \in SUBSET Nat, T # {}
    PROVE  \E x \in T : \A y \in T : x <= y
<1> DEFINE R == OpToRel(<, Nat)
<1>1. IsWellFoundedOn(R, Nat)
  BY NatLessThanWellFounded
<1>2. \A x, y \in Nat : <<y, x>> \in R <=> y < x
  BY LessThan
<1> HIDE DEF R
<1>3. PICK x \in T : \A y \in T : ~(<<y, x>> \in R)
  BY <1>1, WFMin, Zenon
<1>4. \A y \in T : ~(y < x)
  BY <1>2, <1>3, Zenon
<1>5. \A y \in T : x <= y
  BY <1>4
<1> QED
  BY <1>5

\* Of the finite sets of a collection, one has the fewest elements.
LEMMA SmallestSet ==
    ASSUME NEW C, C # {}, \A T \in C : IsFiniteSet(T)
    PROVE  \E T \in C : \A U \in C : ~(U \subseteq T /\ U # T)
<1> DEFINE sizes == {Cardinality(T) : T \in C}
<1>1. sizes \in SUBSET Nat /\ sizes # {}
  BY FS_CardinalityType
<1>2. PICK k \in sizes : \A l \in sizes : k <= l
  BY <1>1, LeastNumber, Zenon
<1>3. PICK T \in C : k = Cardinality(T)
  BY <1>2
<1>4. ASSUME NEW U \in C, U \subseteq T, U # T PROVE FALSE
  <2>1. Cardinality(U) < Cardinality(T)
    <3>1. IsFiniteSet(T) /\ U \in SUBSET T
      BY <1>4
    <3>2. Cardinality(U) <= Cardinality(T) /\ Cardinality(U) # Cardinality(T)
      BY <1>4, <3>1, FS_Subset
    <3> QED
      BY <1>4, <3>2, FS_CardinalityType
  <2>2. Cardinality(U) \in Nat /\ Cardinality(T) \in Nat /\ Cardinality(T) <= Cardinality(U)
    BY <1>2, <1>3, FS_CardinalityType
  <2> QED
    BY <2>1, <2>2
<1> QED
  BY <1>4

\* The equation of the sums of the subsets of S: one row is taken off at a time.
Sums(g, S) ==
    g = [s \in SUBSET S |-> IF s = {} THEN 0
                            ELSE LET x == CHOOSE x \in s : TRUE IN x.bytes + g[s \ {x}]]

\* The sum is a solution of that equation, taken for the whole set.
LEMMA BytesChosen ==
    ASSUME NEW S
    PROVE  Bytes(S) = (CHOOSE g : Sums(g, S))[S]
<1>1. Bytes(S) =
        (CHOOSE iter : iter = [s \in SUBSET S |->
            IF s = {} THEN 0 ELSE LET x == CHOOSE x \in s : TRUE IN x.bytes + iter[s \ {x}]])[S]
  BY DEF Bytes, MapThenSumSet, MapThenFoldSet
<1> QED
  BY <1>1 DEF Sums

\* Two solutions agree where both are defined.
LEMMA SumsAgree ==
    ASSUME NEW S, NEW T, NEW g, NEW h, Sums(g, S), Sums(h, T),
           NEW s, s \subseteq S, s \subseteq T, IsFiniteSet(s)
    PROVE  g[s] = h[s]
<1> DEFINE C == {r \in SUBSET s : g[r] # h[r]}
<1> SUFFICES ASSUME C # {} PROVE FALSE
  OBVIOUS
<1>1. \A r \in C : IsFiniteSet(r)
  BY FS_Subset
<1>2. PICK r \in C : \A u \in C : ~(u \subseteq r /\ u # r)
  <2> HIDE DEF C
  <2> QED
    BY <1>1, SmallestSet
<1>3. r \in SUBSET S /\ r \in SUBSET T
  OBVIOUS
<1>4. r # {}
  BY <1>3 DEF Sums
<1> DEFINE x == CHOOSE x \in r : TRUE
<1>5. x \in r
  BY <1>4
<1>6. g[r \ {x}] = h[r \ {x}]
  BY <1>2, <1>5
<1>7. g[r] = x.bytes + g[r \ {x}] /\ h[r] = x.bytes + h[r \ {x}]
  BY <1>3, <1>4 DEF Sums
<1> QED
  BY <1>6, <1>7

\* The equation has a solution for every finite set.
LEMMA SumsExist ==
    ASSUME NEW S, IsFiniteSet(S)
    PROVE  \E g : Sums(g, S)
<1> DEFINE C == {s \in SUBSET S : ~\E g : Sums(g, s)}
<1> SUFFICES ASSUME C # {} PROVE FALSE
  OBVIOUS
<1>1. \A s \in C : IsFiniteSet(s)
  BY FS_Subset
<1>2. PICK T \in C : \A u \in C : ~(u \subseteq T /\ u # T)
  <2> HIDE DEF C
  <2> QED
    BY <1>1, SmallestSet
<1>3. IsFiniteSet(T) /\ \A u \in SUBSET T : u # T => \E g : Sums(g, u)
  BY <1>1, <1>2
<1> DEFINE pick(s) == CHOOSE x \in s : TRUE
           sol(s) == CHOOSE g : Sums(g, s)
           total == [s \in SUBSET T |-> IF s = {} THEN 0 ELSE pick(s).bytes + sol(s \ {pick(s)})[s \ {pick(s)}]]
<1>4. \A s \in SUBSET T : s # {} => pick(s) \in s
  OBVIOUS
<1>5. \A s \in SUBSET T : s # T => Sums(sol(s), s)
  BY <1>3
<1>6. \A s \in SUBSET T : s # T => total[s] = sol(s)[s]
  <2> SUFFICES ASSUME NEW s \in SUBSET T, s # T PROVE total[s] = sol(s)[s]
    OBVIOUS
  <2>1. Sums(sol(s), s)
    BY <1>5
  <2>2. CASE s = {}
    <3>1. total[s] = 0
      BY <2>2
    <3>2. sol(s)[s] = 0
      <4> HIDE DEF sol
      <4> QED
        BY <2>1, <2>2 DEF Sums
    <3> QED
      BY <3>1, <3>2
  <2>3. CASE s # {}
    <3> DEFINE r == s \ {pick(s)}
    <3>1. pick(s) \in s /\ r \in SUBSET T /\ r # T /\ r \subseteq s /\ IsFiniteSet(r)
      BY <1>3, <1>4, <2>3, FS_Subset
    <3>2. Sums(sol(r), r)
      BY <1>5, <3>1
    <3>3. sol(s)[s] = pick(s).bytes + sol(s)[r]
      <4> HIDE DEF sol
      <4> QED
        BY <2>1, <2>3 DEF Sums
    <3>4. sol(s)[r] = sol(r)[r]
      <4> HIDE DEF sol, r, pick
      <4> QED
        BY <2>1, <3>1, <3>2, SumsAgree
    <3>5. total[s] = pick(s).bytes + sol(r)[r]
      BY <2>3
    <3> QED
      BY <3>3, <3>4, <3>5
  <2> QED
    BY <2>2, <2>3
<1>7. \A s \in SUBSET T : s # {} => total[s] = pick(s).bytes + total[s \ {pick(s)}]
  <2> SUFFICES ASSUME NEW s \in SUBSET T, s # {} PROVE total[s] = pick(s).bytes + total[s \ {pick(s)}]
    OBVIOUS
  <2> DEFINE r == s \ {pick(s)}
  <2>1. r \in SUBSET T /\ r # T
    BY <1>4
  <2>2. total[r] = sol(r)[r]
    <3> HIDE DEF total, r, sol
    <3> QED
      BY <1>6, <2>1
  <2>3. total[s] = pick(s).bytes + sol(r)[r]
    <3> HIDE DEF sol, pick
    <3> QED
      OBVIOUS
  <2> QED
    BY <2>2, <2>3
<1>8. Sums(total, T)
  <2>1. \A s \in SUBSET T : total[s] = IF s = {} THEN 0 ELSE pick(s).bytes + total[s \ {pick(s)}]
    <3>1. total[{}] = 0
      OBVIOUS
    <3> HIDE DEF total, pick
    <3> QED
      BY <1>7, <3>1
  <2>2. total = [s \in SUBSET T |-> total[s]]
    OBVIOUS
  <2> HIDE DEF total
  <2>3. total = [s \in SUBSET T |-> IF s = {} THEN 0 ELSE pick(s).bytes + total[s \ {pick(s)}]]
    <3> HIDE DEF pick
    <3> QED
      BY <2>1, <2>2
  <2> QED
    BY <2>3 DEF Sums
<1> QED
  BY <1>8

\* The sum of a finite set takes one row off.
LEMMA BytesStep ==
    ASSUME NEW S, IsFiniteSet(S)
    PROVE  /\ S = {} => Bytes(S) = 0
           /\ S # {} => LET x == CHOOSE x \in S : TRUE IN Bytes(S) = x.bytes + Bytes(S \ {x})
<1> DEFINE g == CHOOSE g : Sums(g, S)
<1>1. Sums(g, S) /\ Bytes(S) = g[S]
  BY SumsExist, BytesChosen
<1> HIDE DEF g
<1>2. ASSUME S = {} PROVE Bytes(S) = 0
  BY <1>1, <1>2 DEF Sums
<1>3. ASSUME S # {} PROVE LET x == CHOOSE x \in S : TRUE IN Bytes(S) = x.bytes + Bytes(S \ {x})
  <2> DEFINE x == CHOOSE x \in S : TRUE
             r == S \ {x}
             h == CHOOSE h : Sums(h, r)
  <2>1. IsFiniteSet(r) /\ r \subseteq S
    BY FS_Subset
  <2>2. Sums(h, r) /\ Bytes(r) = h[r]
    <3> HIDE DEF r
    <3> QED
      BY <2>1, SumsExist, BytesChosen
  <2>3. g[r] = h[r]
    <3> HIDE DEF r, h
    <3> QED
      BY <1>1, <2>1, <2>2, SumsAgree
  <2>4. g[S] = x.bytes + g[r]
    BY <1>1, <1>3 DEF Sums
  <2> QED
    BY <1>1, <2>2, <2>3, <2>4
<1> QED
  BY <1>2, <1>3

\* Rows of natural numbers of bytes.
Summable(S) == IsFiniteSet(S) /\ \A e \in S : e.bytes \in Nat

\* Their sum is a natural number.
LEMMA BytesNat ==
    ASSUME NEW S, Summable(S)
    PROVE  Bytes(S) \in Nat
<1> DEFINE C == {s \in SUBSET S : Bytes(s) \notin Nat}
<1> SUFFICES ASSUME C # {} PROVE FALSE
  BY DEF Summable
<1>1. \A s \in SUBSET S : IsFiniteSet(s)
  BY FS_Subset DEF Summable
<1>2. PICK s \in C : \A u \in C : ~(u \subseteq s /\ u # s)
  <2>1. \A u \in C : IsFiniteSet(u)
    BY <1>1
  <2> HIDE DEF C
  <2> QED
    BY <2>1, SmallestSet
<1>3. s # {}
  <2>1. Bytes({}) = 0
    BY FS_EmptySet, BytesStep
  <2> QED
    BY <2>1
<1> DEFINE x == CHOOSE x \in s : TRUE
<1>4. x \in s /\ x.bytes \in Nat
  BY <1>3 DEF Summable
<1>5. Bytes(s \ {x}) \in Nat
  BY <1>2, <1>4
<1>6. Bytes(s) = x.bytes + Bytes(s \ {x})
  BY <1>1, <1>3, BytesStep
<1> QED
  BY <1>4, <1>5, <1>6

\* Any row may be the one that is taken off.
LEMMA BytesRemove ==
    ASSUME NEW S, Summable(S), NEW y \in S
    PROVE  Bytes(S) = y.bytes + Bytes(S \ {y})
<1> DEFINE C == {s \in SUBSET S : \E z \in s : Bytes(s) # z.bytes + Bytes(s \ {z})}
<1> SUFFICES ASSUME C # {} PROVE FALSE
  OBVIOUS
<1>1. \A s \in SUBSET S : IsFiniteSet(s) /\ Summable(s) /\ Bytes(s) \in Nat
  BY FS_Subset, BytesNat DEF Summable
<1>2. PICK s \in C : \A u \in C : ~(u \subseteq s /\ u # s)
  <2>1. \A u \in C : IsFiniteSet(u)
    BY <1>1
  <2> HIDE DEF C
  <2> QED
    BY <2>1, SmallestSet
<1>3. PICK z \in s : Bytes(s) # z.bytes + Bytes(s \ {z})
  OBVIOUS
<1> DEFINE x == CHOOSE x \in s : TRUE
<1>4. x \in s /\ x.bytes \in Nat /\ z.bytes \in Nat
  BY <1>3 DEF Summable
<1>5. Bytes(s) = x.bytes + Bytes(s \ {x})
  BY <1>1, <1>3, BytesStep
<1> HIDE DEF x
<1>6. x # z
  BY <1>3, <1>5
<1>7. Bytes(s \ {x}) = z.bytes + Bytes((s \ {x}) \ {z})
  <2> DEFINE r == s \ {x}
  <2>1. r \in SUBSET S /\ r \subseteq s /\ r # s /\ z \in r
    BY <1>3, <1>4, <1>6
  <2>2. r \notin C
    BY <1>2, <2>1
  <2> HIDE DEF r
  <2>3. Bytes(r) = z.bytes + Bytes(r \ {z})
    BY <2>1, <2>2
  <2> QED
    BY <2>3 DEF r
<1>8. Bytes(s \ {z}) = x.bytes + Bytes((s \ {z}) \ {x})
  <2> DEFINE r == s \ {z}
  <2>1. r \in SUBSET S /\ r \subseteq s /\ r # s /\ x \in r
    BY <1>3, <1>4, <1>6
  <2>2. r \notin C
    BY <1>2, <2>1
  <2> HIDE DEF r
  <2>3. Bytes(r) = x.bytes + Bytes(r \ {x})
    BY <2>1, <2>2
  <2> QED
    BY <2>3 DEF r
<1>9. (s \ {x}) \ {z} = (s \ {z}) \ {x} /\ Bytes((s \ {x}) \ {z}) \in Nat
  BY <1>1
<1> DEFINE rest == Bytes((s \ {x}) \ {z})
<1>10. Bytes(s) = x.bytes + (z.bytes + rest) /\ z.bytes + Bytes(s \ {z}) = z.bytes + (x.bytes + rest)
  BY <1>5, <1>7, <1>8, <1>9
<1>11. rest \in Nat
  BY <1>9
<1> HIDE DEF rest
<1>12. x.bytes + (z.bytes + rest) = z.bytes + (x.bytes + rest)
  BY <1>4, <1>11
<1> QED
  BY <1>3, <1>10, <1>12

\* The sum of disjoint sets is the sum of their sums.
LEMMA BytesUnion ==
    ASSUME NEW S, NEW T, Summable(S), Summable(T), S \cap T = {}
    PROVE  Bytes(S \cup T) = Bytes(S) + Bytes(T)
<1> DEFINE C == {u \in SUBSET T : Bytes(S \cup u) # Bytes(S) + Bytes(u)}
<1> SUFFICES ASSUME C # {} PROVE FALSE
  OBVIOUS
<1>1. \A u \in SUBSET T : Summable(u) /\ Summable(S \cup u)
  BY FS_Subset, FS_Union DEF Summable
<1>2. PICK u \in C : \A v \in C : ~(v \subseteq u /\ v # u)
  <2>1. \A v \in C : IsFiniteSet(v)
    BY <1>1 DEF Summable
  <2> HIDE DEF C
  <2> QED
    BY <2>1, SmallestSet
<1>3. Bytes(S) \in Nat /\ Bytes(u) \in Nat
  BY <1>1, BytesNat
<1>4. CASE u = {}
  <2>1. S \cup u = S /\ Bytes(u) = 0
    BY <1>4, FS_EmptySet, BytesStep
  <2>2. Bytes(S \cup u) = Bytes(S)
    BY <2>1, Zenon
  <2>3. Bytes(S) + Bytes(u) = Bytes(S)
    BY <1>3, <2>1
  <2> QED
    BY <2>2, <2>3
<1>5. CASE u # {}
  <2>1. PICK y \in u : TRUE
    BY <1>5
  <2> DEFINE v == u \ {y}
  <2>2. Bytes(S \cup v) = Bytes(S) + Bytes(v)
    BY <1>2
  <2>3. Bytes(u) = y.bytes + Bytes(v)
    BY <1>1, BytesRemove
  <2>4. (S \cup u) \ {y} = S \cup v
    BY <2>1
  <2>5. Bytes(S \cup u) = y.bytes + Bytes(S \cup v)
    BY <1>1, <2>4, BytesRemove
  <2>6. y.bytes \in Nat /\ Bytes(v) \in Nat
    BY <1>1, BytesNat DEF Summable
  <2> QED
    BY <1>3, <2>2, <2>3, <2>5, <2>6
<1> QED
  BY <1>4, <1>5

(***************************************************************************)
(* The invariant                                                           *)
(***************************************************************************)
\* The last number the Manager has accepted of a stream.
LastSeq(s) == IF s \in DOMAIN checkpoint THEN checkpoint[s].seq ELSE 0

\* The outbox file and the Agent's copy, as far as they exist.
Boxes == {disk, mem} \ {Nothing}

\* Numbers: an account has used what its counter shows, and more.
CounterInv ==
    /\ \A a \in Accounts : base[a] <= used[a]
    /\ streams = 0 => disk = Nothing /\ mem = Nothing /\ recorded = [a \in Accounts |-> 0]

\* The batches of a stream are numbered, one batch per number, and none is ahead
\* of the next number the Manager accepts.
SentInv ==
    /\ DOMAIN checkpoint \subseteq 1 .. streams
    /\ \A m \in sent :
          /\ m.stream \in 1 .. streams /\ m.events # NoEvents
          /\ m.seq <= LastSeq(m.stream) + 1
    /\ \A m, n \in sent : m.stream = n.stream /\ m.seq = n.seq => m = n

\* A box is of the latest stream.  Its batch is the next one of the stream, or
\* the last one when the Agent has not written down the answer.
BoxInv(b) ==
    /\ b.stream = streams /\ b.seq # 0
    /\ DOMAIN b.pending \subseteq DOMAIN b.last
    /\ \/ LastSeq(streams) = b.seq - 1
       \/ LastSeq(streams) = b.seq /\ b.pending # NoEvents
    /\ \A m \in sent :
          m.stream = streams => \/ m.seq < b.seq
                                \/ m.seq = b.seq /\ m.events = b.pending
    /\ \A a \in DOMAIN b.last : b.last[a] <= used[a]

\* The batch that is being sent is the one of the file, or the file is past it.
AgentInv ==
    /\ \A b \in Boxes : BoxInv(b)
    /\ mem \in Boxes /\ disk \in Boxes /\ mem.pending # NoEvents =>
          mem.seq < disk.seq \/ (mem.seq = disk.seq /\ mem.pending = disk.pending)
    /\ pc # "idle" => mem \in Boxes /\ mem.pending # NoEvents
    /\ pc = "ack" => LastSeq(streams) = mem.seq

\* A transaction has its stream to itself, and its batch stays the next one.
ReportInv ==
    /\ \A t \in reports :
          /\ t.request \in sent
          /\ t.request.seq = LastSeq(t.request.stream) + 1
    /\ \A t, u \in reports : t.request.stream = u.request.stream => t = u

\* Bytes of the box's batch that the Manager has not recorded.
Waiting(b, a) == IF a \in DOMAIN b.pending /\ LastSeq(b.stream) < b.seq THEN b.pending[a] ELSE 0

\* While the counters run and the first outbox survives, each baseline has moved
\* over what is recorded or waits.
LossInv ==
    streams = 1 /\ (\A a \in Accounts : base[a] = 0) =>
        \A b \in Boxes, a \in Accounts :
            IF a \in DOMAIN b.last THEN b.last[a] - first[a] = recorded[a] + Waiting(b, a)
                                   ELSE recorded[a] = 0

\* The bytes that an account has used are divided among the streams: beyond what
\* is recorded, what the outstanding batch of each stream may still add ends
\* before that of the next one begins, and the latest box before its counters do.
Divides(cut, a) ==
    /\ recorded[a] <= cut[0]
    /\ \A s \in 1 .. streams :
          /\ cut[s - 1] <= cut[s]
          /\ \A m \in sent :
                m.stream = s /\ m.seq = LastSeq(s) + 1 /\ a \in DOMAIN m.events =>
                    cut[s - 1] + m.events[a] <= cut[s]
    /\ cut[streams] <= used[a]
    /\ \A b \in Boxes :
          /\ cut[streams - 1] + Waiting(b, a) <= used[a]
          /\ a \in DOMAIN b.last => cut[streams - 1] + Waiting(b, a) <= base[a] + b.last[a]

CutInv == \A a \in Accounts : \E cut \in [0 .. streams -> Nat] : Divides(cut, a)

\* Each row is of a batch that was accepted; the daily total is their sum.
SumInv ==
    /\ IsFiniteSet(events)
    /\ \A e \in events : e.seq <= LastSeq(e.stream)
    /\ daily = archived + Bytes(events)

TrafficInv ==
    /\ TrafficTypeOK
    /\ CounterInv /\ SentInv /\ AgentInv /\ ReportInv
    /\ LossInv /\ CutInv /\ SumInv

(***************************************************************************)
(* Shapes                                                                  *)
(***************************************************************************)
\* Events by account, as functions.
LEMMA EventsShape ==
    ASSUME NEW S
    PROVE  /\ \A e \in Events(S) : DOMAIN e \subseteq Accounts /\ e \in [DOMAIN e -> S]
           /\ \A D \in SUBSET Accounts : \A e \in [D -> S] : e \in Events(S)
  BY DEF Events

\* The fields of a box.
LEMMA BoxShape ==
    ASSUME TrafficTypeOK, NEW b \in Boxes
    PROVE  /\ b \in Box
           /\ b.stream \in Nat /\ b.seq \in Nat
           /\ DOMAIN b.last \subseteq Accounts
           /\ \A a \in DOMAIN b.last : b.last[a] \in 0 .. MaxBytes
           /\ DOMAIN b.pending \subseteq Accounts
           /\ \A a \in DOMAIN b.pending : b.pending[a] \in Positive
<1>1. b \in Box
  BY DEF TrafficTypeOK, Boxes
<1>2. b.stream \in Nat /\ b.seq \in Nat /\ b.last \in Events(0 .. MaxBytes) /\ b.pending \in Events(Positive)
  BY <1>1 DEF Box
<1> QED
  BY <1>1, <1>2, EventsShape

\* The fields of a request.
LEMMA RequestShape ==
    ASSUME TrafficTypeOK, NEW m \in sent
    PROVE  /\ m.stream \in Nat /\ m.seq \in Nat /\ m.events \in Events(Positive)
           /\ DOMAIN m.events \subseteq Accounts
           /\ \A a \in DOMAIN m.events : m.events[a] \in Positive
           /\ m = [stream |-> m.stream, seq |-> m.seq, events |-> m.events]
<1>1. m \in Request
  BY DEF TrafficTypeOK
<1>2. m.events \in Events(Positive)
  BY <1>1 DEF Request
<1> QED
  BY <1>1, <1>2, EventsShape DEF Request

\* What the Manager has accepted of a stream is a number.
LEMMA LastSeqNat ==
    ASSUME TrafficTypeOK, NEW s
    PROVE  LastSeq(s) \in Nat
  BY DEF TrafficTypeOK, LastSeq

\* What the collector makes of the counters.
LEMMA UsageShape ==
    ASSUME TrafficTypeOK, CounterInv, mem # Nothing, NEW seen \in SUBSET Accounts
    PROVE  /\ \A a \in Accounts : Counter(a) \in 0 .. MaxBytes
           /\ Baselines(seen) \in Events(0 .. MaxBytes)
           /\ UsageEvents(seen) \in Events(Positive)
           /\ DOMAIN Baselines(seen) = DOMAIN mem.last \cup seen
           /\ DOMAIN UsageEvents(seen) = {a \in seen \cap DOMAIN mem.last : Counter(a) > mem.last[a]}
           /\ DOMAIN mem.last \subseteq Accounts
<1>1. mem \in Boxes
  BY DEF Boxes
<1>2. \A a \in Accounts : Counter(a) \in 0 .. MaxBytes
  BY TrafficAssumption DEF TrafficTypeOK, CounterInv, Counter
<1>3. /\ DOMAIN mem.last \subseteq Accounts
      /\ \A a \in DOMAIN mem.last : mem.last[a] \in 0 .. MaxBytes
  BY <1>1, BoxShape
<1>4. Baselines(seen) \in [DOMAIN mem.last \cup seen -> 0 .. MaxBytes]
  BY <1>2, <1>3 DEF Baselines
<1> DEFINE grown == {a \in seen \cap DOMAIN mem.last : Counter(a) > mem.last[a]}
<1>5. UsageEvents(seen) \in [grown -> Positive]
  <2>1. \A a \in DOMAIN mem.last : Grown(a) <=> Counter(a) > mem.last[a]
    BY <1>2, <1>3 DEF Grown, Delta
  <2>2. \A a \in grown : Delta(a) \in Positive
    BY <1>2, <1>3, <2>1, TrafficAssumption DEF Delta, Positive
  <2>3. {a \in seen \cap DOMAIN mem.last : Grown(a)} = grown
    BY <2>1
  <2> QED
    BY <2>2, <2>3 DEF UsageEvents
<1> QED
  BY <1>2, <1>3, <1>4, <1>5, EventsShape

\* A box that is saved is a box.
LEMMA SaveShape ==
    ASSUME TrafficTypeOK, NEW box \in Box, Save(box)
    PROVE  /\ disk' \in Box \cup {Nothing} /\ mem' \in Box \cup {Nothing} /\ faults' \in 0 .. MaxFaults
           /\ \/ disk' = box /\ mem' = box
              \/ disk' \in {disk, box} /\ mem' = mem
<1>1. /\ disk \in Box \cup {Nothing} /\ mem \in Box \cup {Nothing}
      /\ faults \in 0 .. MaxFaults /\ MaxFaults \in Nat
  BY TrafficAssumption DEF TrafficTypeOK
<1>2. \/ disk' = box /\ mem' = box /\ faults' = faults
      \/ disk' \in {disk, box} /\ mem' = mem /\ faults < MaxFaults /\ faults' = faults + 1
  BY DEF Save, Fault
<1> QED
  BY <1>1, <1>2

\* The box that Prepare writes.
Prepared(seen) == [mem EXCEPT !.last = Baselines(seen), !.pending = UsageEvents(seen)]

\* Its fields, and those of the box that Acknowledge writes.
LEMMA WrittenShape ==
    ASSUME TrafficTypeOK, CounterInv, mem \in Boxes, NEW seen \in SUBSET Accounts
    PROVE  /\ Prepared(seen) \in Box
           /\ Prepared(seen).stream = mem.stream /\ Prepared(seen).seq = mem.seq
           /\ Prepared(seen).last = Baselines(seen) /\ Prepared(seen).pending = UsageEvents(seen)
           /\ Acknowledged(mem) \in Box
           /\ Acknowledged(mem).stream = mem.stream /\ Acknowledged(mem).seq = mem.seq + 1
           /\ Acknowledged(mem).last = mem.last /\ Acknowledged(mem).pending = NoEvents
<1>1. mem \in Box /\ mem # Nothing
  BY BoxShape DEF Boxes
<1>2. Baselines(seen) \in Events(0 .. MaxBytes) /\ UsageEvents(seen) \in Events(Positive)
  BY <1>1, UsageShape
<1>3. NoEvents \in Events(Positive)
  <2>1. NoEvents \in [{} -> Positive]
    BY DEF NoEvents
  <2> QED
    BY <2>1, EventsShape
<1>4. ASSUME NEW l \in Events(0 .. MaxBytes), NEW p \in Events(Positive), NEW q \in Nat
      PROVE  /\ [mem EXCEPT !.last = l, !.pending = p] \in Box
             /\ [mem EXCEPT !.pending = p, !.seq = q] \in Box
  BY <1>1 DEF Box
<1>5. mem.stream \in Nat /\ mem.seq \in Nat /\ mem.seq + 1 \in Nat
  BY <1>1 DEF Box
<1>6. Prepared(seen) \in Box /\ Acknowledged(mem) \in Box
  BY <1>2, <1>3, <1>4, <1>5 DEF Prepared, Acknowledged
<1>7. /\ Prepared(seen).stream = mem.stream /\ Prepared(seen).seq = mem.seq
      /\ Prepared(seen).last = Baselines(seen) /\ Prepared(seen).pending = UsageEvents(seen)
  BY <1>1, <1>2 DEF Prepared, Box
<1>8. /\ Acknowledged(mem).stream = mem.stream /\ Acknowledged(mem).seq = mem.seq + 1
      /\ Acknowledged(mem).last = mem.last /\ Acknowledged(mem).pending = NoEvents
  BY <1>1, <1>3 DEF Acknowledged, Box
<1> QED
  BY <1>6, <1>7, <1>8

\* The requests keep their shape.
LEMMA SendShape ==
    ASSUME TrafficTypeOK, mem \in Boxes
    PROVE  [stream |-> mem.stream, seq |-> mem.seq, events |-> mem.pending] \in Request
  BY BoxShape DEF Box, Request

\* The status that a report computes.
LEMMA NextStateShape ==
    ASSUME TrafficTypeOK, NEW m \in sent
    PROVE  NextState(m) \in Events(Status)
<1> DEFINE next(a) == Evaluate(limit[a], Total(a) + m.events[a])
<1>1. \A a : next(a) \in Status
  BY DEF Evaluate, Status
<1> HIDE DEF next
<1>2. {b \in DOMAIN m.events : next(b) # enforced[b]} \in SUBSET Accounts
  BY RequestShape
<1>3. [a \in {b \in DOMAIN m.events : next(b) # enforced[b]} |-> next(a)] \in Events(Status)
  BY <1>1, <1>2, EventsShape
<1> QED
  BY <1>3 DEF NextState, next

\* The Agent's steps keep every shape.
LEMMA AgentTypes ==
    ASSUME TrafficTypeOK, CounterInv, AgentInv,
           \/ AgentStep \/ RequestFails \/ AgentRestarts \/ FileLost
           \/ RuntimeRestarts \/ \E a \in Accounts : Transfer(a)
    PROVE  TrafficTypeOK'
<1>1. CASE OpenOutbox
  <2>1. mem' \in Box \cup {Nothing} /\ streams' \in Nat
    <3>1. CASE disk = Nothing
      <4>1. NoEvents \in Events(Positive) /\ NoEvents \in Events(0 .. MaxBytes)
        <5>1. NoEvents \in [{} -> Positive] /\ NoEvents \in [{} -> 0 .. MaxBytes]
          BY DEF NoEvents
        <5> QED
          BY <5>1, EventsShape
      <4> QED
        BY <1>1, <3>1, <4>1 DEF TrafficTypeOK, OpenOutbox, Box
    <3> QED
      BY <1>1, <3>1 DEF TrafficTypeOK, OpenOutbox
  <2> QED
    BY <1>1, <2>1 DEF TrafficTypeOK, OpenOutbox, node, usage, limits, budget
<1>2. CASE Send
  <2>1. sent' \subseteq Request
    <3>1. mem \in Boxes
      BY <1>2 DEF Send, Boxes
    <3> QED
      BY <1>2, <3>1, SendShape DEF TrafficTypeOK, Send
  <2> QED
    BY <1>2, <2>1 DEF TrafficTypeOK, Send, node, usage, limits, budget
<1>3. CASE Acknowledge
  <2>1. mem \in Boxes /\ Acknowledged(mem) \in Box
    BY <1>3, WrittenShape DEF Acknowledge, AgentInv
  <2>2. disk' \in Box \cup {Nothing} /\ mem' \in Box \cup {Nothing} /\ faults' \in 0 .. MaxFaults
    BY <1>3, <2>1, SaveShape DEF Acknowledge
  <2> QED
    BY <1>3, <2>2 DEF TrafficTypeOK, Acknowledge, node, usage, limits
<1>4. ASSUME NEW seen \in SUBSET Accounts, PrepareBatch(seen) PROVE TrafficTypeOK'
  <2>1. mem \in Boxes /\ Prepared(seen) \in Box /\ Save(Prepared(seen))
    BY <1>4, WrittenShape DEF PrepareBatch, Boxes, Prepared
  <2>2. disk' \in Box \cup {Nothing} /\ mem' \in Box \cup {Nothing} /\ faults' \in 0 .. MaxFaults
    BY <2>1, SaveShape
  <2>3. first' \in [Accounts -> 0 .. MaxBytes]
    BY <1>4 DEF TrafficTypeOK, PrepareBatch
  <2> QED
    BY <1>4, <2>2, <2>3 DEF TrafficTypeOK, PrepareBatch, node, usage, limits
<1>5. CASE RequestFails \/ AgentRestarts \/ FileLost
  BY <1>5, TrafficAssumption
  DEF TrafficTypeOK, RequestFails, AgentRestarts, FileLost, Fault, node, usage, limits
<1>6. CASE RuntimeRestarts
  BY <1>6, TrafficAssumption DEF TrafficTypeOK, RuntimeRestarts, Fault, outbox, usage, limits
<1>7. ASSUME NEW a \in Accounts, Transfer(a) PROVE TrafficTypeOK'
  BY <1>7, TrafficAssumption DEF TrafficTypeOK, Transfer, outbox, usage, limits, budget
<1> QED
  BY <1>1, <1>2, <1>3, <1>4, <1>5, <1>6, <1>7 DEF AgentStep

\* The steps of the Manager's database do.
ManagerStep ==
    \/ \E m \in sent : Process(m)
    \/ \E t \in reports : ReportCommit(t)
    \/ \E e \in events : Archive(e)
    \/ \E a \in Accounts :
          Move(a) \/ Delete(a) \/ UpsertCommit(a) \/ \E lim \in Limits : UpsertLimit(a, lim)

\* The rows of a batch have positive bytes, and there are finitely many.
LEMMA RowsShape ==
    ASSUME TrafficTypeOK, NEW m \in sent
    PROVE  /\ Rows(m) \subseteq [account : Accounts, stream : Nat, seq : Nat, bytes : Positive]
           /\ \A e \in Rows(m) : e.stream = m.stream /\ e.seq = m.seq
           /\ IsFiniteSet(Rows(m))
<1>1. /\ m.stream \in Nat /\ m.seq \in Nat /\ DOMAIN m.events \subseteq Accounts
      /\ \A a \in DOMAIN m.events : m.events[a] \in Positive
  BY RequestShape
<1>2. IsFiniteSet(DOMAIN m.events)
  BY <1>1, TrafficAssumption, FS_Subset
<1> DEFINE row(a) == [account |-> a, stream |-> m.stream, seq |-> m.seq, bytes |-> m.events[a]]
           table == [a \in DOMAIN m.events |-> row(a)]
<1>3. IsFiniteSet({table[a] : a \in DOMAIN m.events})
  <2>1. table \in Surjection(DOMAIN m.events, {table[a] : a \in DOMAIN m.events})
    BY DEF Surjection
  <2> QED
    BY <1>2, <2>1, FS_Surjection
<1>4. Rows(m) = {table[a] : a \in DOMAIN m.events}
  BY DEF Rows
<1>5. /\ Rows(m) \subseteq [account : Accounts, stream : Nat, seq : Nat, bytes : Positive]
      /\ \A e \in Rows(m) : e.stream = m.stream /\ e.seq = m.seq
  BY <1>1 DEF Rows
<1>6. IsFiniteSet(Rows(m))
  BY <1>3, <1>4
<1> QED
  BY <1>5, <1>6

\* ... keep every shape too.
LEMMA ManagerTypes ==
    ASSUME TrafficTypeOK, ReportInv, daily' \in Nat, archived' \in Nat, ManagerStep
    PROVE  TrafficTypeOK'
<1>1. ASSUME NEW m \in sent, ReportRepeated(m) \/ ReportRefused(m) PROVE TrafficTypeOK'
  BY <1>1 DEF TrafficTypeOK, ReportRepeated, ReportRefused, Answer, node, usage, limits, budget
<1>2. ASSUME NEW m \in sent, ReportEvaluate(m) PROVE TrafficTypeOK'
  <2>1. reports' \subseteq [request : Request, status : Events(Status)]
    BY <1>2, NextStateShape DEF TrafficTypeOK, ReportEvaluate
  <2> QED
    BY <1>2, <2>1 DEF TrafficTypeOK, ReportEvaluate, node, outbox, usage, limits, budget
<1>3. ASSUME NEW t \in reports, ReportCommit(t) PROVE TrafficTypeOK'
  <2> DEFINE m == t.request
  <2>1. m \in sent /\ t.status \in Events(Status)
    BY DEF ReportInv, TrafficTypeOK
  <2>2. /\ m.stream \in Nat /\ m.seq \in Nat /\ m.events \in Events(Positive)
        /\ \A a \in DOMAIN m.events : m.events[a] \in Nat
    BY <2>1, RequestShape DEF Positive
  <2>3. \A s \in DOMAIN checkpoint' : checkpoint'[s] \in [seq : Nat, events : Events(Positive)]
    BY <1>3, <2>2 DEF TrafficTypeOK, ReportCommit
  <2>4. events' \subseteq [account : Accounts, stream : Nat, seq : Nat, bytes : Positive]
    BY <1>3, <2>1, RowsShape DEF TrafficTypeOK, ReportCommit
  <2>5. recorded' \in [Accounts -> Nat]
    BY <1>3, <2>2 DEF TrafficTypeOK, ReportCommit
  <2>6. enforced' \in [Accounts -> Status]
    <3>1. \A a \in DOMAIN t.status : t.status[a] \in Status
      BY <2>1, EventsShape
    <3> QED
      BY <1>3, <3>1 DEF TrafficTypeOK, ReportCommit
  <2>7. reports' \subseteq reports /\ pc' \in {"idle", "wait", "ack"}
    BY <1>3 DEF TrafficTypeOK, ReportCommit, Answer
  <2> QED
    BY <1>3, <2>3, <2>4, <2>5, <2>6, <2>7 DEF TrafficTypeOK, ReportCommit, node, budget
<1>4. ASSUME NEW e \in events, Archive(e) PROVE TrafficTypeOK'
  BY <1>4, TrafficAssumption DEF TrafficTypeOK, Archive, Change, node, outbox, limits
<1>5. ASSUME NEW a \in Accounts, Move(a) PROVE TrafficTypeOK'
  BY <1>5, TrafficAssumption DEF TrafficTypeOK, Move, Change, node, outbox, usage, limits
<1>6. ASSUME NEW a \in Accounts, Delete(a) PROVE TrafficTypeOK'
  BY <1>6, TrafficAssumption DEF TrafficTypeOK, Delete, Change, node, outbox, Status
<1>7. ASSUME NEW a \in Accounts, UpsertCommit(a) PROVE TrafficTypeOK'
  <2>1. upsert[a] \in [limit : Limits, status : Status]
    BY <1>7 DEF TrafficTypeOK, UpsertCommit
  <2> QED
    BY <1>7, <2>1 DEF TrafficTypeOK, UpsertCommit, node, outbox, usage, budget
<1>8. ASSUME NEW a \in Accounts, NEW lim \in Limits, UpsertLimit(a, lim) PROVE TrafficTypeOK'
  <2>1. [limit |-> lim, status |-> Evaluate(lim, Total(a))] \in [limit : Limits, status : Status]
    BY DEF Evaluate, Status
  <2> QED
    BY <1>8, <2>1, TrafficAssumption DEF TrafficTypeOK, UpsertLimit, Change, node, outbox, usage, limits
<1> QED
  BY <1>1, <1>2, <1>3, <1>4, <1>5, <1>6, <1>7, <1>8 DEF ManagerStep, Process

(***************************************************************************)
(* The daily total                                                         *)
(***************************************************************************)
\* A report moves the checkpoint of its stream on, and no other.
LEMMA CommitSeq ==
    ASSUME NEW t \in reports, ReportCommit(t), NEW s
    PROVE  LastSeq(s)' = IF s = t.request.stream THEN t.request.seq ELSE LastSeq(s)
  BY DEF ReportCommit, LastSeq

\* The rows are finitely many, and what they carry is numbers.
LEMMA RowsSummable ==
    ASSUME TrafficTypeOK, SumInv, NEW S \in SUBSET events
    PROVE  Summable(S) /\ Bytes(S) \in Nat
<1>1. Summable(S)
  BY FS_Subset DEF Summable, SumInv, TrafficTypeOK, Positive
<1> QED
  BY <1>1, BytesNat

\* Taking rows out of the table takes their sum off.
LEMMA RowsTaken ==
    ASSUME TrafficTypeOK, SumInv, NEW S \in SUBSET events
    PROVE  Bytes(events) = Bytes(S) + Bytes(events \ S)
<1>1. Summable(S) /\ Summable(events \ S)
  BY RowsSummable
<1>2. Bytes(S \cup (events \ S)) = Bytes(S) + Bytes(events \ S)
  BY <1>1, BytesUnion
<1>3. S \cup (events \ S) = events
  OBVIOUS
<1> QED
  BY <1>2, <1>3

\* A committed report adds its rows to the daily totals exactly once.
LEMMA SumCommit ==
    ASSUME TrafficTypeOK, SumInv, SentInv, ReportInv, NEW t \in reports, ReportCommit(t)
    PROVE  SumInv' /\ daily' \in Nat
<1> DEFINE m == t.request
<1>1. /\ m \in sent /\ m.seq = LastSeq(m.stream) + 1 /\ LastSeq(m.stream) \in Nat
      /\ \A s : LastSeq(s)' = IF s = m.stream THEN m.seq ELSE LastSeq(s)
  BY CommitSeq, LastSeqNat DEF ReportInv
<1>2. /\ IsFiniteSet(Rows(m)) /\ \A e \in Rows(m) : e.stream = m.stream /\ e.seq = m.seq
      /\ \A e \in Rows(m) : e.bytes \in Nat
  BY <1>1, RowsShape DEF Positive
<1>3. events' = events \cup Rows(m) /\ daily' = daily + Bytes(Rows(m)) /\ archived' = archived
  BY DEF ReportCommit
<1>4. events \cap Rows(m) = {}
  <2> SUFFICES ASSUME NEW e \in events, e \in Rows(m) PROVE FALSE
    OBVIOUS
  <2>1. e.seq <= LastSeq(m.stream) /\ e.seq = LastSeq(m.stream) + 1
    BY <1>1, <1>2 DEF SumInv
  <2> QED
    BY <1>1, <2>1
<1>5. Summable(events) /\ Bytes(events) \in Nat /\ Summable(Rows(m))
  BY <1>2, RowsSummable DEF Summable
<1>6. Bytes(events') = Bytes(events) + Bytes(Rows(m)) /\ Bytes(Rows(m)) \in Nat
  BY <1>3, <1>4, <1>5, BytesUnion, BytesNat
<1>7. daily' = archived' + Bytes(events') /\ daily' \in Nat
  BY <1>3, <1>5, <1>6 DEF SumInv, TrafficTypeOK
<1>8. IsFiniteSet(events')
  BY <1>2, <1>3, FS_Union DEF SumInv
<1>9. \A e \in events' : e.seq <= LastSeq(e.stream)'
  <2>1. ASSUME NEW e \in events PROVE e.seq <= LastSeq(e.stream)'
    <3>1. e.seq <= LastSeq(e.stream) /\ e.seq \in Nat
      BY DEF SumInv, TrafficTypeOK
    <3> QED
      BY <1>1, <3>1
  <2>2. ASSUME NEW e \in Rows(m) PROVE e.seq <= LastSeq(e.stream)'
    <3>1. e.seq = m.seq /\ LastSeq(e.stream)' = m.seq /\ m.seq \in Nat
      BY <1>1, <1>2
    <3> QED
      BY <3>1
  <2> QED
    BY <1>3, <2>1, <2>2
<1> QED
  BY <1>7, <1>8, <1>9 DEF SumInv

\* Rows deleted with an account, or archived, leave the totals with their bytes.
LEMMA SumTaken ==
    ASSUME TrafficTypeOK, SumInv, UNCHANGED checkpoint,
           \/ \E a \in Accounts : Delete(a)
           \/ \E e \in events : Archive(e)
    PROVE  SumInv' /\ daily' \in Nat /\ archived' \in Nat
<1>1. \A s : LastSeq(s)' = LastSeq(s)
  BY DEF LastSeq
<1>2. ASSUME NEW gone \in SUBSET events, events' = events \ gone, archived' \in Nat,
             daily' - archived' = daily - archived - Bytes(gone), daily' \in Int
      PROVE  SumInv' /\ daily' \in Nat
  <2>1. IsFiniteSet(events')
    BY <1>2, FS_Difference, FS_Subset DEF SumInv
  <2>2. Bytes(events) = Bytes(gone) + Bytes(events')
    BY <1>2, RowsTaken
  <2>3. Bytes(gone) \in Nat /\ Bytes(events') \in Nat
    BY <1>2, RowsSummable
  <2>4. daily' = archived' + Bytes(events') /\ daily' \in Nat
    BY <1>2, <2>2, <2>3 DEF SumInv, TrafficTypeOK
  <2> QED
    BY <1>1, <1>2, <2>1, <2>4 DEF SumInv
<1>3. ASSUME NEW a \in Accounts, Delete(a) PROVE SumInv' /\ daily' \in Nat /\ archived' \in Nat
  <2> DEFINE gone == {e \in events : e.account = a}
  <2>1. Bytes(gone) \in Nat
    BY RowsSummable
  <2>2. /\ events' = events \ gone /\ archived' = archived
        /\ daily' = daily - Bytes(gone) /\ daily \in Nat /\ archived \in Nat
    BY <1>3 DEF Delete, DeletedBytes, Total, TrafficTypeOK
  <2>3. archived' \in Nat /\ daily' - archived' = daily - archived - Bytes(gone) /\ daily' \in Int
    BY <2>1, <2>2
  <2> QED
    BY <1>2, <2>2, <2>3
<1>4. ASSUME NEW cutoff \in events, Archive(cutoff)
      PROVE  SumInv' /\ daily' \in Nat /\ archived' \in Nat
  <2> DEFINE old == {e \in events : Older(e, cutoff)}
  <2>1. Bytes(old) \in Nat
    BY RowsSummable
  <2>2. /\ events' = events \ old /\ archived' = archived + Bytes(old)
        /\ daily' = daily /\ daily \in Nat /\ archived \in Nat
    BY <1>4 DEF Archive, TrafficTypeOK
  <2>3. archived' \in Nat /\ daily' - archived' = daily - archived - Bytes(old) /\ daily' \in Int
    BY <2>1, <2>2
  <2> QED
    BY <1>2, <2>2, <2>3
<1> QED
  BY <1>3, <1>4

\* The daily total is the sum of the rows there are and of those that the
\* retention removed, whatever a step does.
LEMMA SumNext ==
    ASSUME TrafficTypeOK, SumInv, SentInv, ReportInv, TrafficNext
    PROVE  SumInv' /\ daily' \in Nat /\ archived' \in Nat
<1>1. ASSUME NEW t \in reports, ReportCommit(t) PROVE SumInv' /\ daily' \in Nat /\ archived' \in Nat
  BY <1>1, SumCommit DEF ReportCommit, TrafficTypeOK
<1>2. ASSUME (\E a \in Accounts : Delete(a)) \/ (\E e \in events : Archive(e))
      PROVE  SumInv' /\ daily' \in Nat /\ archived' \in Nat
  <2>1. UNCHANGED checkpoint
    BY <1>2 DEF Delete, Archive
  <2> QED
    BY <1>2, <2>1, SumTaken
<1>3. ASSUME UNCHANGED usage PROVE SumInv' /\ daily' \in Nat /\ archived' \in Nat
  BY <1>3 DEF usage, SumInv, LastSeq, TrafficTypeOK
<1>4. CASE AgentStep \/ RuntimeRestarts \/ RequestFails \/ AgentRestarts \/ FileLost
  <2>1. UNCHANGED usage
    BY <1>4 DEF AgentStep, OpenOutbox, Send, Acknowledge, PrepareBatch, RuntimeRestarts, RequestFails,
                AgentRestarts, FileLost
  <2> QED
    BY <1>3, <2>1
<1>5. ASSUME NEW m \in sent, Process(m) PROVE UNCHANGED usage
  BY <1>5 DEF Process, ReportRepeated, ReportRefused, ReportEvaluate
<1>6. ASSUME NEW a \in Accounts,
             \/ Transfer(a) \/ Move(a) \/ UpsertCommit(a)
             \/ \E lim \in Limits : UpsertLimit(a, lim)
      PROVE  UNCHANGED usage
  BY <1>6 DEF Transfer, Move, UpsertCommit, UpsertLimit
<1> QED
  BY <1>1, <1>2, <1>3, <1>4, <1>5, <1>6 DEF TrafficNext

(***************************************************************************)
(* Streams and boxes                                                       *)
(***************************************************************************)
\* Counters only grow, and without a stream nothing is recorded.
LEMMA CounterNext ==
    ASSUME TrafficTypeOK, CounterInv, SentInv, AgentInv, ReportInv, TrafficNext
    PROVE  CounterInv'
<1>1. /\ used \in [Accounts -> 0 .. MaxBytes] /\ base \in [Accounts -> 0 .. MaxBytes]
      /\ streams \in Nat /\ MaxBytes \in Nat
  BY TrafficAssumption DEF TrafficTypeOK
<1>2. CASE RuntimeRestarts \/ \E a \in Accounts : Transfer(a)
  <2>1. \A a \in Accounts : base'[a] <= used'[a]
    BY <1>1, <1>2 DEF CounterInv, RuntimeRestarts, Transfer
  <2> QED
    BY <1>2, <2>1 DEF CounterInv, RuntimeRestarts, Transfer, outbox, usage
<1>3. ASSUME NEW t \in reports, ReportCommit(t) PROVE CounterInv'
  <2>1. streams # 0
    BY <1>1 DEF ReportInv, SentInv
  <2> QED
    BY <1>3, <2>1 DEF CounterInv, ReportCommit, node
<1>4. CASE AgentStep \/ RequestFails \/ AgentRestarts \/ FileLost
  <2>1. CASE OpenOutbox
    BY <1>1, <2>1 DEF CounterInv, OpenOutbox, node, usage
  <2>2. ASSUME NEW seen \in SUBSET Accounts, PrepareBatch(seen) PROVE CounterInv'
    BY <2>2 DEF CounterInv, PrepareBatch, node, usage
  <2>3. CASE Acknowledge \/ Send
    BY <2>3 DEF CounterInv, AgentInv, Boxes, Acknowledge, Send, node, usage
  <2>4. CASE RequestFails \/ AgentRestarts \/ FileLost
    BY <2>4 DEF CounterInv, RequestFails, AgentRestarts, FileLost, node, usage
  <2> QED
    BY <1>4, <2>1, <2>2, <2>3, <2>4 DEF AgentStep
<1>5. ASSUME NEW m \in sent, Process(m) PROVE CounterInv'
  BY <1>5 DEF CounterInv, Process, ReportRepeated, ReportRefused, ReportEvaluate, node, outbox, usage
<1>6. CASE (\E e \in events : Archive(e)) \/ \E a \in Accounts : Delete(a)
  BY <1>6 DEF CounterInv, Archive, Delete, node, outbox
<1>7. ASSUME NEW a \in Accounts, Move(a) \/ UpsertCommit(a) \/ \E lim \in Limits : UpsertLimit(a, lim)
      PROVE CounterInv'
  BY <1>7 DEF CounterInv, Move, UpsertCommit, UpsertLimit, node, outbox, usage
<1> QED
  BY <1>2, <1>3, <1>4, <1>5, <1>6, <1>7 DEF TrafficNext

\* A box stays what it is while requests and checkpoints stay.
LEMMA BoxKept ==
    ASSUME TrafficTypeOK, AgentInv, UNCHANGED <<streams, sent, checkpoint>>, Boxes' \subseteq Boxes,
           \A a \in Accounts : used[a] <= used'[a] /\ used'[a] \in Nat
    PROVE  \A b \in Boxes' : BoxInv(b)'
<1> SUFFICES ASSUME NEW b \in Boxes' PROVE BoxInv(b)'
  OBVIOUS
<1>1. BoxInv(b) /\ b \in Boxes
  BY DEF AgentInv
<1>2. /\ DOMAIN b.last \subseteq Accounts /\ \A a \in DOMAIN b.last : b.last[a] \in Nat
      /\ \A a \in Accounts : used[a] \in Nat
  BY <1>1, BoxShape DEF TrafficTypeOK
<1>3. \A s : LastSeq(s)' = LastSeq(s)
  BY DEF LastSeq
<1>4. \A a \in DOMAIN b.last : b.last[a] <= used'[a]
  BY <1>1, <1>2 DEF BoxInv
<1> QED
  BY <1>1, <1>3, <1>4 DEF BoxInv

\* Steps that leave requests, checkpoints and transactions alone, and write no box.
LEMMA QuietStep ==
    ASSUME TrafficTypeOK, SentInv, AgentInv, ReportInv,
           \/ RuntimeRestarts \/ (\E a \in Accounts : Transfer(a))
           \/ RequestFails \/ AgentRestarts \/ FileLost
           \/ (\E e \in events : Archive(e))
           \/ \E a \in Accounts :
                 Move(a) \/ Delete(a) \/ UpsertCommit(a) \/ \E lim \in Limits : UpsertLimit(a, lim)
    PROVE  SentInv' /\ AgentInv' /\ ReportInv'
<1>1. UNCHANGED <<streams, sent, checkpoint, reports>>
  BY DEF RuntimeRestarts, Transfer, RequestFails, AgentRestarts, FileLost, Archive, Move, Delete,
         UpsertCommit, UpsertLimit, outbox, usage
<1>2. /\ used \in [Accounts -> Nat]
      /\ \A a \in Accounts : used[a] <= used'[a] /\ used'[a] \in Nat
  <2>1. used \in [Accounts -> Nat]
    BY DEF TrafficTypeOK
  <2>2. CASE \E a \in Accounts : Transfer(a)
    BY <2>1, <2>2 DEF Transfer
  <2>3. CASE UNCHANGED used
    BY <2>1, <2>3
  <2> QED
    BY <2>1, <2>2, <2>3
    DEF RuntimeRestarts, RequestFails, AgentRestarts, FileLost, Archive, Move, Delete,
        UpsertCommit, UpsertLimit, node
<1>3. /\ disk' \in {disk, Nothing} /\ mem' \in {mem, Nothing}
      /\ \/ pc' = pc /\ mem' = mem /\ disk' = disk
         \/ pc' = "idle"
  BY DEF RuntimeRestarts, Transfer, RequestFails, AgentRestarts, FileLost, Archive, Move, Delete,
         UpsertCommit, UpsertLimit, outbox
<1>4. Boxes' \subseteq Boxes
  BY <1>3 DEF Boxes
<1>5. \A b \in Boxes' : BoxInv(b)'
  BY <1>1, <1>2, <1>4, BoxKept
<1>6. \A s : LastSeq(s)' = LastSeq(s)
  BY <1>1 DEF LastSeq
<1>7. AgentInv'
  BY <1>1, <1>3, <1>5, <1>6 DEF AgentInv, Boxes
<1>8. SentInv' /\ ReportInv'
  BY <1>1, <1>6 DEF SentInv, ReportInv
<1> QED
  BY <1>7, <1>8

\* The Agent opens its file, or begins a stream.
LEMMA OpenStep ==
    ASSUME TrafficTypeOK, CounterInv, SentInv, AgentInv, ReportInv, OpenOutbox
    PROVE  SentInv' /\ AgentInv' /\ ReportInv'
<1>1. UNCHANGED <<sent, checkpoint, reports, used, pc, disk>> /\ pc = "idle" /\ mem = Nothing
  BY DEF OpenOutbox, AgentInv, Boxes, usage, node
<1>2. \A s : LastSeq(s)' = LastSeq(s)
  BY <1>1 DEF LastSeq
<1>3. CASE disk # Nothing
  <2>1. mem' = disk /\ streams' = streams /\ Boxes' \subseteq Boxes
    BY <1>1, <1>3 DEF OpenOutbox, Boxes
  <2>2. \A b \in Boxes' : BoxInv(b)'
    <3>1. \A a \in Accounts : used[a] <= used'[a] /\ used'[a] \in Nat
      BY <1>1 DEF TrafficTypeOK
    <3> QED
      BY <1>1, <2>1, <3>1, BoxKept
  <2>3. AgentInv'
    BY <1>1, <1>2, <2>1, <2>2 DEF AgentInv
  <2> QED
    BY <1>1, <1>2, <2>1, <2>3 DEF SentInv, ReportInv
<1>4. CASE disk = Nothing
  <2>1. /\ streams' = streams + 1 /\ streams \in Nat
        /\ mem' = [stream |-> streams', seq |-> 1, last |-> NoEvents, pending |-> NoEvents]
    BY <1>4 DEF OpenOutbox, TrafficTypeOK
  <2>2. DOMAIN checkpoint \subseteq 1 .. streams /\ \A m \in sent : m.stream \in 1 .. streams
    BY DEF SentInv
  <2>3. SentInv' /\ ReportInv'
    <3>1. DOMAIN checkpoint \subseteq 1 .. streams' /\ \A m \in sent : m.stream \in 1 .. streams'
      BY <2>1, <2>2
    <3> QED
      BY <1>1, <1>2, <3>1 DEF SentInv, ReportInv
  <2>4. LastSeq(streams)' = 0 /\ \A m \in sent : m.stream # streams'
    BY <1>1, <2>1, <2>2 DEF LastSeq
  <2>5. Boxes' \subseteq {mem'}
    BY <1>1, <1>4 DEF Boxes
  <2>6. \A b \in Boxes' : BoxInv(b)'
    <3>1. ASSUME NEW b, b = mem' PROVE BoxInv(b)'
      <4>1. b.stream = streams' /\ b.seq = 1 /\ b.last = NoEvents /\ b.pending = NoEvents
        BY <2>1, <3>1
      <4>2. DOMAIN NoEvents = {}
        BY DEF NoEvents
      <4> QED
        BY <1>1, <2>4, <4>1, <4>2 DEF BoxInv
    <3> QED
      BY <2>5, <3>1
  <2>7. AgentInv'
    BY <1>1, <2>1, <2>6 DEF AgentInv
  <2> QED
    BY <2>3, <2>7
<1> QED
  BY <1>3, <1>4

\* A box that is written has to fit; the others stay what they are.
LEMMA BoxWritten ==
    ASSUME NEW box, BoxInv(box), \A b \in Boxes : BoxInv(b),
           UNCHANGED <<streams, sent, checkpoint, used>>, disk' \in {disk, box}, mem' \in {mem, box}
    PROVE  \A b \in Boxes' : BoxInv(b)'
<1> SUFFICES ASSUME NEW b \in Boxes' PROVE BoxInv(b)'
  OBVIOUS
<1>1. BoxInv(b)
  BY DEF Boxes
<1>2. \A s : LastSeq(s)' = LastSeq(s)
  BY DEF LastSeq
<1> QED
  BY <1>1, <1>2 DEF BoxInv

\* Prepare replaces an empty batch; no request has its number.
LEMMA BatchStep ==
    ASSUME TrafficTypeOK, CounterInv, SentInv, AgentInv, ReportInv, NEW seen \in SUBSET Accounts, PrepareBatch(seen)
    PROVE  SentInv' /\ AgentInv' /\ ReportInv'
<1> DEFINE box == Prepared(seen)
<1>1. /\ mem \in Boxes /\ mem.pending = NoEvents /\ pc' = "idle"
      /\ UNCHANGED <<streams, sent, checkpoint, reports, used>> /\ Save(box)
  BY DEF PrepareBatch, Boxes, Prepared, node, usage
<1>2. /\ box \in Box /\ box.stream = mem.stream /\ box.seq = mem.seq
      /\ box.last = Baselines(seen) /\ box.pending = UsageEvents(seen)
  BY <1>1, WrittenShape
<1>3. \/ disk' = box /\ mem' = box
      \/ disk' \in {disk, box} /\ mem' = mem
  BY <1>1, <1>2, SaveShape
<1>4. BoxInv(mem)
  BY <1>1 DEF AgentInv
<1>5. BoxInv(box)
  <2>1. /\ DOMAIN UsageEvents(seen) \subseteq DOMAIN Baselines(seen)
        /\ \A a \in DOMAIN Baselines(seen) : Baselines(seen)[a] <= used[a]
    <3>1. \A a \in Accounts : Counter(a) <= used[a]
      BY DEF Counter, TrafficTypeOK
    <3>2. mem # Nothing /\ DOMAIN mem.last \subseteq Accounts
      BY <1>1, UsageShape DEF Boxes
    <3>3. \A a \in DOMAIN Baselines(seen) : Baselines(seen)[a] <= used[a]
      BY <1>4, <3>1, <3>2 DEF Baselines, BoxInv
    <3>4. DOMAIN UsageEvents(seen) \subseteq DOMAIN Baselines(seen)
      BY <3>2, UsageShape
    <3> QED
      BY <3>3, <3>4
  <2>2. \A m \in sent : m.stream = streams => m.seq < mem.seq
    BY <1>1, <1>4 DEF BoxInv, SentInv
  <2>3. LastSeq(streams) = mem.seq - 1 /\ mem.seq # 0 /\ mem.stream = streams
    BY <1>1, <1>4 DEF BoxInv
  <2> HIDE DEF box
  <2> QED
    BY <1>2, <2>1, <2>2, <2>3 DEF BoxInv
<1> HIDE DEF box
<1>6. \A b \in Boxes' : BoxInv(b)'
  BY <1>1, <1>3, <1>5, BoxWritten DEF AgentInv
<1>7. \A s : LastSeq(s)' = LastSeq(s)
  BY <1>1 DEF LastSeq
<1>8. mem' \in Boxes' /\ disk' \in Boxes' /\ mem'.pending # NoEvents => mem' = disk'
  BY <1>1, <1>3
<1>9. AgentInv'
  BY <1>1, <1>6, <1>8 DEF AgentInv
<1> QED
  BY <1>1, <1>7, <1>9 DEF SentInv, ReportInv

\* Acknowledge moves on to the next number, which no request has.
LEMMA AcknowledgeStep ==
    ASSUME TrafficTypeOK, CounterInv, SentInv, AgentInv, ReportInv, Acknowledge
    PROVE  SentInv' /\ AgentInv' /\ ReportInv'
<1> DEFINE box == Acknowledged(mem)
<1>1. /\ mem \in Boxes /\ LastSeq(streams) = mem.seq /\ pc' = "idle" /\ mem.pending # NoEvents
      /\ UNCHANGED <<streams, sent, checkpoint, reports, used>> /\ Save(box)
  BY DEF Acknowledge, AgentInv, node, usage
<1>2. /\ box \in Box /\ box.stream = mem.stream /\ box.seq = mem.seq + 1
      /\ box.last = mem.last /\ box.pending = NoEvents
  BY <1>1, WrittenShape
<1>3. \/ disk' = box /\ mem' = box
      \/ disk' \in {disk, box} /\ mem' = mem
  BY <1>1, <1>2, SaveShape
<1>4. BoxInv(mem) /\ mem.seq \in Nat
  BY <1>1, BoxShape DEF AgentInv
<1> HIDE DEF box
<1>5. BoxInv(box)
  <2>1. DOMAIN box.pending = {}
    BY <1>2 DEF NoEvents
  <2>2. \A m \in sent : m.seq \in Nat
    BY RequestShape
  <2>3. \A m \in sent : m.stream = streams => m.seq < box.seq
    BY <1>2, <1>4, <2>2 DEF BoxInv
  <2> QED
    BY <1>1, <1>2, <1>4, <2>1, <2>3 DEF BoxInv
<1>6. \A b \in Boxes' : BoxInv(b)'
  BY <1>1, <1>3, <1>5, BoxWritten DEF AgentInv
<1>7. \A s : LastSeq(s)' = LastSeq(s)
  BY <1>1 DEF LastSeq
<1>8. AgentInv'
  <2>1. CASE mem' = box
    BY <1>1, <1>2, <1>6, <2>1 DEF AgentInv
  <2>2. CASE mem' = mem /\ disk' = box
    BY <1>1, <1>2, <1>4, <1>6, <2>2 DEF AgentInv
  <2>3. CASE mem' = mem /\ disk' = disk
    BY <1>1, <1>6, <2>3 DEF AgentInv, Boxes
  <2> QED
    BY <1>3, <2>1, <2>2, <2>3
<1> QED
  BY <1>1, <1>7, <1>8 DEF SentInv, ReportInv

\* A request that is sent again is the one that was sent.
LEMMA SendStep ==
    ASSUME TrafficTypeOK, CounterInv, SentInv, AgentInv, ReportInv, Send
    PROVE  SentInv' /\ AgentInv' /\ ReportInv'
<1> DEFINE n == [stream |-> mem.stream, seq |-> mem.seq, events |-> mem.pending]
<1>1. /\ mem \in Boxes /\ mem.pending # NoEvents /\ sent' = sent \cup {n}
      /\ UNCHANGED <<streams, disk, mem, checkpoint, reports, used>> /\ pc' = "wait"
  BY DEF Send, Boxes, node, usage
<1>2. n.stream = mem.stream /\ n.seq = mem.seq /\ n.events = mem.pending
  OBVIOUS
<1>3. BoxInv(mem) /\ mem.seq \in Nat /\ streams \in Nat
  BY <1>1, BoxShape DEF AgentInv, TrafficTypeOK
<1>4. streams # 0
  BY <1>1 DEF CounterInv, Boxes
<1>5. \A s : LastSeq(s)' = LastSeq(s)
  BY <1>1 DEF LastSeq
<1>6. \A m \in sent : m.stream = mem.stream /\ m.seq = mem.seq => m = n
  <2> SUFFICES ASSUME NEW m \in sent, m.stream = mem.stream, m.seq = mem.seq PROVE m = n
    OBVIOUS
  <2>1. m.events = mem.pending
    BY <1>3 DEF BoxInv
  <2> QED
    BY <2>1, RequestShape
<1> HIDE DEF n
<1>7. SentInv'
  <2>1. n.stream \in 1 .. streams /\ n.events # NoEvents /\ n.seq <= LastSeq(n.stream) + 1
    <3>1. mem.seq <= LastSeq(streams) + 1 /\ mem.stream = streams
      BY <1>3, LastSeqNat DEF BoxInv
    <3> QED
      BY <1>1, <1>2, <1>3, <1>4, <3>1
  <2>2. \A m, o \in sent' : m.stream = o.stream /\ m.seq = o.seq => m = o
    BY <1>1, <1>2, <1>6 DEF SentInv
  <2> QED
    BY <1>1, <1>5, <2>1, <2>2 DEF SentInv
<1>8. \A b \in Boxes' : BoxInv(b)'
  <2> SUFFICES ASSUME NEW b \in Boxes' PROVE BoxInv(b)'
    OBVIOUS
  <2>1. BoxInv(b) /\ b \in Boxes
    BY <1>1 DEF Boxes, AgentInv
  <2>2. mem.seq < b.seq \/ (mem.seq = b.seq /\ mem.pending = b.pending)
    BY <1>1, <2>1 DEF AgentInv, Boxes
  <2>3. \A m \in sent' :
          m.stream = streams => \/ m.seq < b.seq
                                \/ m.seq = b.seq /\ m.events = b.pending
    BY <1>1, <1>2, <2>1, <2>2 DEF BoxInv
  <2> QED
    BY <1>1, <1>5, <2>1, <2>3 DEF BoxInv
<1>9. AgentInv'
  BY <1>1, <1>8 DEF AgentInv, Boxes
<1> QED
  BY <1>1, <1>5, <1>7, <1>9 DEF ReportInv

\* The boxes do not change with the transactions.
LEMMA BoxUntouched ==
    ASSUME \A b \in Boxes : BoxInv(b), UNCHANGED <<streams, sent, checkpoint, used, disk, mem>>
    PROVE  Boxes' = Boxes /\ \A b \in Boxes' : BoxInv(b)'
<1>1. \A s : LastSeq(s)' = LastSeq(s)
  BY DEF LastSeq
<1>2. Boxes' = Boxes
  BY DEF Boxes
<1> QED
  BY <1>1, <1>2 DEF BoxInv

\* A positive answer is for the batch that the Manager has accepted.
LEMMA ProcessStep ==
    ASSUME TrafficTypeOK, SentInv, AgentInv, ReportInv, NEW m \in sent, Process(m)
    PROVE  SentInv' /\ AgentInv' /\ ReportInv'
<1>1. UNCHANGED <<streams, sent, checkpoint, used, disk, mem>>
  BY DEF Process, ReportRepeated, ReportRefused, ReportEvaluate, node, usage, outbox
<1>2. Boxes' = Boxes /\ \A b \in Boxes' : BoxInv(b)'
  BY <1>1, BoxUntouched DEF AgentInv
<1>3. \A s : LastSeq(s)' = LastSeq(s)
  BY <1>1 DEF LastSeq
<1>4. Checkpoint(m).seq = LastSeq(m.stream)
  BY DEF Checkpoint, LastSeq
<1>5. /\ pc' # "idle" => pc # "idle"
      /\ pc' = "ack" => pc = "ack" \/ (LastSeq(streams) = mem.seq)
  <2>1. CASE ReportRepeated(m)
    <3>1. LastSeq(m.stream) = m.seq
      BY <1>4, <2>1 DEF ReportRepeated, Repeated
    <3>2. pc = "wait" => mem.stream = streams
      BY DEF AgentInv, BoxInv
    <3> QED
      BY <2>1, <3>1, <3>2 DEF ReportRepeated, Answer
  <2>2. CASE ReportRefused(m)
    BY <2>2 DEF ReportRefused, Answer
  <2>3. CASE ReportEvaluate(m)
    BY <2>3 DEF ReportEvaluate, outbox
  <2> QED
    BY <2>1, <2>2, <2>3 DEF Process
<1>6. AgentInv'
  BY <1>1, <1>2, <1>3, <1>5 DEF AgentInv
<1>7. ReportInv'
  <2>1. CASE reports' = reports
    BY <1>1, <1>3, <2>1 DEF ReportInv
  <2>2. CASE ReportEvaluate(m)
    <3>1. reports' = reports \cup {[request |-> m, status |-> NextState(m)]}
      BY <2>2 DEF ReportEvaluate
    <3>2. \A t \in reports : t.request.stream # m.stream
      BY <2>2 DEF ReportEvaluate, Locked
    <3>3. m.seq = LastSeq(m.stream) + 1
      BY <1>4, <2>2 DEF ReportEvaluate, Fresh
    <3> QED
      BY <1>1, <1>3, <3>1, <3>2, <3>3 DEF ReportInv
  <2> QED
    BY <2>1, <2>2 DEF Process, ReportRepeated, ReportRefused
<1> QED
  BY <1>1, <1>3, <1>6, <1>7 DEF SentInv

\* The batch that is accepted of the latest stream is the one of the boxes.
LEMMA LatestBatch ==
    ASSUME TrafficTypeOK, AgentInv, ReportInv, NEW t \in reports, t.request.stream = streams, NEW b \in Boxes
    PROVE  t.request.seq = b.seq /\ t.request.events = b.pending /\ LastSeq(streams) = b.seq - 1
<1>1. BoxInv(b) /\ b.seq \in Nat /\ LastSeq(streams) \in Nat
  BY BoxShape, LastSeqNat DEF AgentInv
<1>2. t.request \in sent /\ t.request.seq = LastSeq(streams) + 1
  BY DEF ReportInv
<1>3. t.request.seq < b.seq \/ (t.request.seq = b.seq /\ t.request.events = b.pending)
  BY <1>1, <1>2 DEF BoxInv
<1> QED
  BY <1>1, <1>2, <1>3 DEF BoxInv

\* The batch that is accepted is the one the boxes call the next.
LEMMA CommitStep ==
    ASSUME TrafficTypeOK, SentInv, AgentInv, ReportInv, NEW t \in reports, ReportCommit(t)
    PROVE  SentInv' /\ AgentInv' /\ ReportInv'
<1> DEFINE m == t.request
<1>1. /\ m \in sent /\ m.seq = LastSeq(m.stream) + 1 /\ LastSeq(m.stream) \in Nat
      /\ \A s : LastSeq(s)' = IF s = m.stream THEN m.seq ELSE LastSeq(s)
      /\ \A s : LastSeq(s) \in Nat
  BY CommitSeq, LastSeqNat DEF ReportInv
<1>2. /\ UNCHANGED <<streams, sent, used, disk, mem>> /\ reports' = reports \ {t}
      /\ DOMAIN checkpoint' = DOMAIN checkpoint \cup {m.stream}
      /\ Answer(m, TRUE)
  BY DEF ReportCommit, node
<1>3. m.stream \in 1 .. streams /\ m.events # NoEvents
  BY <1>1 DEF SentInv
<1> HIDE DEF m
<1>4. SentInv'
  <2>1. \A n \in sent : n.seq <= LastSeq(n.stream)' + 1
    <3> SUFFICES ASSUME NEW n \in sent PROVE n.seq <= LastSeq(n.stream)' + 1
      OBVIOUS
    <3>1. n.seq <= LastSeq(n.stream) + 1 /\ n.seq \in Nat /\ LastSeq(n.stream) \in Nat
      BY LastSeqNat, RequestShape DEF SentInv
    <3> QED
      BY <1>1, <3>1
  <2> QED
    BY <1>2, <1>3, <2>1 DEF SentInv
<1>5. ASSUME NEW b \in Boxes PROVE BoxInv(b)' /\ (m.stream = streams => LastSeq(streams) = b.seq - 1)
  <2>1. BoxInv(b) /\ b.seq \in Nat
    BY BoxShape DEF AgentInv
  <2>2. CASE m.stream # streams
    BY <1>1, <1>2, <2>1, <2>2 DEF BoxInv
  <2>3. CASE m.stream = streams
    <3>1. m.seq = b.seq /\ m.events = b.pending /\ LastSeq(streams) = b.seq - 1
      BY <2>3, LatestBatch DEF m
    <3>2. LastSeq(streams)' = b.seq /\ b.pending # NoEvents
      BY <1>1, <1>2, <1>3, <2>3, <3>1
    <3> QED
      BY <1>2, <2>1, <3>1, <3>2 DEF BoxInv
  <2> QED
    BY <2>2, <2>3
<1>6. Boxes' = Boxes
  BY <1>2 DEF Boxes
<1>7. /\ pc' # "idle" => pc # "idle"
      /\ pc' = "ack" => LastSeq(streams)' = mem.seq
  <2>1. pc # "idle" => mem \in Boxes /\ mem.stream = streams /\ mem.seq \in Nat
    BY BoxShape DEF AgentInv, BoxInv
  <2>2. CASE pc = "ack"
    <3>1. LastSeq(streams) = mem.seq /\ m.stream # streams /\ pc' = "ack"
      BY <1>2, <1>5, <2>1, <2>2 DEF AgentInv, Answer
    <3> QED
      BY <1>1, <1>2, <2>2, <3>1
  <2>3. CASE pc # "ack"
    BY <1>1, <1>2, <2>1, <2>3 DEF Answer
  <2> QED
    BY <2>2, <2>3
<1>8. AgentInv'
  BY <1>2, <1>5, <1>6, <1>7 DEF AgentInv
<1>9. ReportInv'
  BY <1>1, <1>2 DEF ReportInv, m
<1> QED
  BY <1>4, <1>8, <1>9

\* Whatever step is taken, streams, requests and boxes agree.
LEMMA StreamsNext ==
    ASSUME TrafficTypeOK, CounterInv, SentInv, AgentInv, ReportInv, TrafficNext
    PROVE  SentInv' /\ AgentInv' /\ ReportInv'
<1>1. CASE AgentStep
  BY <1>1, OpenStep, SendStep, AcknowledgeStep, BatchStep DEF AgentStep
<1>2. CASE (\E m \in sent : Process(m)) \/ \E t \in reports : ReportCommit(t)
  BY <1>2, ProcessStep, CommitStep
<1> QED
  BY <1>1, <1>2, QuietStep DEF TrafficNext

(***************************************************************************)
(* Nothing is lost                                                         *)
(***************************************************************************)
\* What waits is a number of bytes.
LEMMA WaitingNat ==
    ASSUME TrafficTypeOK, NEW b \in Boxes, NEW a
    PROVE  Waiting(b, a) \in Nat
  BY BoxShape DEF Waiting, Positive

\* Steps that write no box, record nothing and keep the baselines.
LEMMA LossKept ==
    ASSUME TrafficTypeOK, CounterInv, LossInv, UNCHANGED <<streams, checkpoint, first, recorded>>,
           Boxes' \subseteq Boxes, base' = base \/ base' = used
    PROVE  LossInv'
<1> SUFFICES ASSUME streams' = 1, \A a \in Accounts : base'[a] = 0, NEW b \in Boxes', NEW a \in Accounts
             PROVE  IF a \in DOMAIN b.last THEN b.last[a] - first'[a] = recorded'[a] + Waiting(b, a)'
                                           ELSE recorded'[a] = 0
  BY DEF LossInv
<1>1. \A c \in Accounts : base[c] = 0
  <2>1. \A c \in Accounts : base[c] \in Nat /\ used[c] \in Nat /\ base[c] <= used[c]
    BY DEF TrafficTypeOK, CounterInv
  <2> QED
    BY <2>1
<1>2. Waiting(b, a)' = Waiting(b, a)
  BY DEF Waiting, LastSeq
<1> QED
  BY <1>1, <1>2 DEF LossInv

\* Beginning the first stream, or opening the file.
LEMMA LossOpen ==
    ASSUME TrafficTypeOK, CounterInv, LossInv, OpenOutbox
    PROVE  LossInv'
<1>1. UNCHANGED <<checkpoint, first, recorded, base, disk>>
  BY DEF OpenOutbox, usage, node
<1>2. CASE disk # Nothing
  <2>1. UNCHANGED streams /\ Boxes' \subseteq Boxes
    BY <1>1, <1>2 DEF OpenOutbox, Boxes
  <2> QED
    BY <1>1, <2>1, LossKept
<1>3. CASE disk = Nothing
  <2>1. streams' = 1 => recorded = [a \in Accounts |-> 0]
    BY <1>3 DEF OpenOutbox, CounterInv, TrafficTypeOK
  <2>2. \A b \in Boxes' : b.last = NoEvents
    BY <1>1, <1>3 DEF OpenOutbox, Boxes
  <2>3. DOMAIN NoEvents = {}
    BY DEF NoEvents
  <2> QED
    BY <1>1, <2>1, <2>2, <2>3 DEF LossInv
<1> QED
  BY <1>2, <1>3

\* The baselines move over the growth that becomes the batch.
LEMMA LossPrepare ==
    ASSUME TrafficTypeOK, CounterInv, SentInv, AgentInv, LossInv, NEW seen \in SUBSET Accounts, PrepareBatch(seen)
    PROVE  LossInv'
<1> DEFINE box == Prepared(seen)
<1>1. /\ mem \in Boxes /\ mem # Nothing /\ mem.pending = NoEvents
      /\ UNCHANGED <<streams, checkpoint, used, base, recorded>> /\ Save(box)
      /\ first' = IF disk' = disk THEN first
                  ELSE [a \in Accounts |-> IF a \in seen \ DOMAIN mem.last THEN used[a] ELSE first[a]]
  BY DEF PrepareBatch, Boxes, Prepared, node, usage
<1>2. /\ box \in Box /\ box.stream = mem.stream /\ box.seq = mem.seq
      /\ box.last = Baselines(seen) /\ box.pending = UsageEvents(seen)
  BY <1>1, WrittenShape
<1>3. \/ disk' = box /\ mem' = box
      \/ disk' \in {disk, box} /\ mem' = mem
  BY <1>1, <1>2, SaveShape
<1>4. /\ BoxInv(mem) /\ LastSeq(streams) = mem.seq - 1 /\ mem.stream = streams /\ mem.seq \in Nat
      /\ \A a : Waiting(mem, a) = 0
  <2>1. BoxInv(mem) /\ DOMAIN mem.pending = {}
    BY <1>1 DEF AgentInv, NoEvents
  <2> QED
    BY <1>1, <2>1, BoxShape DEF BoxInv, Waiting
<1> HIDE DEF box
<1>5. CASE disk' = disk
  <2>1. Boxes' \subseteq Boxes
    BY <1>3, <1>5 DEF Boxes
  <2> QED
    BY <1>1, <1>5, <2>1, LossKept
<1>6. CASE disk' # disk
  <2>1. /\ Boxes' \subseteq {box, mem}
        /\ first' = [a \in Accounts |-> IF a \in seen \ DOMAIN mem.last THEN used[a] ELSE first[a]]
    BY <1>1, <1>3, <1>6 DEF Boxes
  <2> SUFFICES ASSUME streams = 1, \A a \in Accounts : base[a] = 0, NEW b \in {box, mem}, NEW a \in Accounts
               PROVE  IF a \in DOMAIN b.last THEN b.last[a] - first'[a] = recorded[a] + Waiting(b, a)'
                                             ELSE recorded[a] = 0
    BY <1>1, <2>1 DEF LossInv
  <2>2. /\ used[a] \in Nat /\ recorded[a] \in Nat /\ first[a] \in Nat /\ Counter(a) = used[a]
        /\ \A c \in DOMAIN mem.last : c \in Accounts /\ mem.last[c] \in Nat /\ mem.last[c] <= used[c]
    BY <1>1, <1>4, BoxShape DEF TrafficTypeOK, Counter, BoxInv
  <2>3. IF a \in DOMAIN mem.last THEN mem.last[a] - first[a] = recorded[a] ELSE recorded[a] = 0
    BY <1>1, <1>4, <2>2 DEF LossInv
  <2>4. Waiting(b, a)' = Waiting(b, a)
    BY <1>1 DEF Waiting, LastSeq
  <2>5. CASE b = mem
    BY <1>4, <2>1, <2>2, <2>3, <2>4, <2>5
  <2>6. CASE b = box
    <3>1. /\ DOMAIN UsageEvents(seen) = {c \in seen \cap DOMAIN mem.last : Counter(c) > mem.last[c]}
          /\ DOMAIN Baselines(seen) = DOMAIN mem.last \cup seen
      BY <1>1, UsageShape
    <3>2. Waiting(box, a) = IF a \in DOMAIN UsageEvents(seen) THEN UsageEvents(seen)[a] ELSE 0
      BY <1>2, <1>4 DEF Waiting
    <3>3. a \in DOMAIN UsageEvents(seen) => UsageEvents(seen)[a] = used[a] - mem.last[a]
      BY <2>2, <3>1 DEF UsageEvents, Delta
    <3>4. Waiting(box, a) = IF a \in seen \cap DOMAIN mem.last THEN used[a] - mem.last[a] ELSE 0
      BY <2>2, <3>1, <3>2, <3>3
    <3>5. \A c \in DOMAIN Baselines(seen) :
            Baselines(seen)[c] = IF c \in seen THEN Counter(c) ELSE mem.last[c]
      BY DEF Baselines
    <3>6. CASE a \in seen
      BY <1>2, <2>1, <2>2, <2>3, <2>4, <2>6, <3>1, <3>4, <3>5, <3>6
    <3>7. CASE a \notin seen
      BY <1>2, <2>1, <2>2, <2>3, <2>4, <2>6, <3>1, <3>4, <3>5, <3>7
    <3> QED
      BY <3>6, <3>7
  <2> QED
    BY <2>5, <2>6
<1> QED
  BY <1>5, <1>6

\* The answer is written down when the batch is recorded.
LEMMA LossAcknowledge ==
    ASSUME TrafficTypeOK, CounterInv, AgentInv, LossInv, Acknowledge
    PROVE  LossInv'
<1> DEFINE box == Acknowledged(mem)
<1>1. /\ mem \in Boxes /\ LastSeq(streams) = mem.seq
      /\ UNCHANGED <<streams, checkpoint, first, base, recorded>> /\ Save(box)
  BY DEF Acknowledge, AgentInv, node, usage
<1>2. box \in Box /\ box.last = mem.last /\ box.pending = NoEvents
  BY <1>1, WrittenShape
<1>3. Boxes' \subseteq Boxes \cup {box}
  BY <1>1, <1>2, SaveShape DEF Boxes
<1>4. \A a : Waiting(mem, a) = 0 /\ Waiting(box, a) = 0
  <2>1. mem.stream = streams /\ mem.seq \in Nat
    BY <1>1, BoxShape DEF AgentInv, BoxInv
  <2> QED
    BY <1>1, <1>2, <2>1 DEF Waiting, NoEvents
<1> HIDE DEF box
<1>5. \A b, a : Waiting(b, a)' = Waiting(b, a)
  BY <1>1 DEF Waiting, LastSeq
<1> QED
  BY <1>1, <1>2, <1>3, <1>4, <1>5 DEF LossInv

\* What waited is recorded.
LEMMA LossCommit ==
    ASSUME TrafficTypeOK, SentInv, AgentInv, ReportInv, LossInv, NEW t \in reports, ReportCommit(t)
    PROVE  LossInv'
<1> DEFINE m == t.request
<1>1. /\ m \in sent /\ LastSeq(m.stream)' = m.seq
      /\ UNCHANGED <<streams, first, base, disk, mem>>
      /\ \A a \in Accounts : recorded'[a] = recorded[a] + (IF a \in DOMAIN m.events THEN m.events[a] ELSE 0)
  BY CommitSeq DEF ReportInv, ReportCommit, node
<1> SUFFICES ASSUME streams = 1, \A a \in Accounts : base[a] = 0, NEW b \in Boxes, NEW a \in Accounts
             PROVE  IF a \in DOMAIN b.last THEN b.last[a] - first[a] = recorded'[a] + Waiting(b, a)'
                                           ELSE recorded'[a] = 0
  BY <1>1 DEF LossInv, Boxes
<1>2. m.stream = streams
  BY <1>1 DEF SentInv
<1>3. m.seq = b.seq /\ m.events = b.pending /\ LastSeq(streams) = b.seq - 1 /\ b.seq \in Nat
  BY <1>2, LatestBatch, BoxShape
<1>4. b.stream = streams /\ DOMAIN b.pending \subseteq DOMAIN b.last
  BY DEF AgentInv, BoxInv
<1> HIDE DEF m
<1>5. Waiting(b, a)' = 0
  BY <1>1, <1>2, <1>3, <1>4 DEF Waiting
<1>6. Waiting(b, a) = IF a \in DOMAIN m.events THEN m.events[a] ELSE 0
  BY <1>3, <1>4 DEF Waiting
<1>7. recorded'[a] = recorded[a] + Waiting(b, a) /\ recorded[a] \in Nat /\ Waiting(b, a) \in Nat
  BY <1>1, <1>6, WaitingNat DEF TrafficTypeOK
<1>8. IF a \in DOMAIN b.last THEN b.last[a] - first[a] = recorded[a] + Waiting(b, a)
                             ELSE recorded[a] = 0 /\ Waiting(b, a) = 0
  BY <1>3, <1>4, <1>6 DEF LossInv
<1> QED
  BY <1>5, <1>7, <1>8

\* What the baselines have moved over is accounted for after every step.
LEMMA LossNext ==
    ASSUME TrafficTypeOK, CounterInv, SentInv, AgentInv, ReportInv, LossInv, TrafficNext
    PROVE  LossInv'
<1>1. CASE OpenOutbox \/ Acknowledge \/ \E seen \in SUBSET Accounts : PrepareBatch(seen)
  BY <1>1, LossOpen, LossAcknowledge, LossPrepare
<1>2. CASE \E t \in reports : ReportCommit(t)
  BY <1>2, LossCommit
<1>3. ASSUME UNCHANGED <<streams, checkpoint, first, recorded>>,
             disk' \in {disk, Nothing}, mem' \in {mem, Nothing}, base' = base \/ base' = used
      PROVE  LossInv'
  <2>1. Boxes' \subseteq Boxes
    BY <1>3 DEF Boxes
  <2> QED
    BY <1>3, <2>1, LossKept
<1>4. CASE Send \/ RuntimeRestarts \/ RequestFails \/ AgentRestarts \/ FileLost
  <2>1. /\ UNCHANGED <<streams, checkpoint, first, recorded>>
        /\ disk' \in {disk, Nothing} /\ mem' \in {mem, Nothing} /\ (base' = base \/ base' = used)
    BY <1>4 DEF Send, RuntimeRestarts, RequestFails, AgentRestarts, FileLost, node, outbox, usage
  <2> QED
    BY <1>3, <2>1
<1>5. ASSUME NEW m \in sent, Process(m) PROVE LossInv'
  <2>1. UNCHANGED <<streams, checkpoint, first, recorded, disk, mem, base>>
    BY <1>5 DEF Process, ReportRepeated, ReportRefused, ReportEvaluate, node, outbox, usage
  <2> QED
    BY <1>3, <2>1
<1>6. CASE \E e \in events : Archive(e)
  <2>1. UNCHANGED <<streams, checkpoint, first, recorded, disk, mem, base>>
    BY <1>6 DEF Archive, node, outbox
  <2> QED
    BY <1>3, <2>1
<1>7. ASSUME NEW a \in Accounts,
             \/ Transfer(a) \/ Move(a) \/ Delete(a) \/ UpsertCommit(a)
             \/ \E lim \in Limits : UpsertLimit(a, lim)
      PROVE  LossInv'
  <2>1. UNCHANGED <<streams, checkpoint, first, recorded, disk, mem, base>>
    BY <1>7 DEF Transfer, Move, Delete, UpsertCommit, UpsertLimit, node, outbox, usage
  <2> QED
    BY <1>3, <2>1
<1> QED
  BY <1>1, <1>2, <1>4, <1>5, <1>6, <1>7 DEF TrafficNext, AgentStep

(***************************************************************************)
(* Nothing is charged twice                                                *)
(***************************************************************************)
\* Steps that write no box and send and record nothing.
LEMMA CutKept ==
    ASSUME TrafficTypeOK, CounterInv, CutInv, UNCHANGED <<streams, sent, checkpoint, recorded>>, Boxes' \subseteq Boxes,
           \A a \in Accounts : /\ used[a] <= used'[a] /\ used'[a] \in Nat
                               /\ base[a] <= base'[a] /\ base'[a] \in Nat
    PROVE  CutInv'
<1> SUFFICES ASSUME NEW a \in Accounts, NEW cut \in [0 .. streams -> Nat], Divides(cut, a)
             PROVE  Divides(cut, a)'
  BY DEF CutInv
<1>1. \A s : LastSeq(s)' = LastSeq(s)
  BY DEF LastSeq
<1>2. cut[streams] \in Nat /\ used[a] \in Nat /\ base[a] \in Nat /\ streams \in Nat
  BY DEF TrafficTypeOK
<1>3. cut[streams] <= used'[a]
  BY <1>2 DEF Divides
<1>4. ASSUME NEW b \in Boxes'
      PROVE  /\ cut[streams - 1] + Waiting(b, a)' <= used'[a]
             /\ a \in DOMAIN b.last => cut[streams - 1] + Waiting(b, a)' <= base'[a] + b.last[a]
  <2>1. b \in Boxes /\ Waiting(b, a)' = Waiting(b, a) /\ Waiting(b, a) \in Nat
    BY <1>1, WaitingNat DEF Waiting
  <2>2. streams # 0 /\ cut[streams - 1] \in Nat
    BY <2>1, <1>2 DEF CounterInv, Boxes
  <2>3. a \in DOMAIN b.last => b.last[a] \in Nat
    BY <2>1, BoxShape
  <2> QED
    BY <1>2, <2>1, <2>2, <2>3 DEF Divides
<1> QED
  BY <1>1, <1>3, <1>4 DEF Divides

\* A box that is written has to fit between the stream's beginning and the counters.
LEMMA CutWritten ==
    ASSUME TrafficTypeOK, CutInv, NEW box,
           UNCHANGED <<streams, sent, checkpoint, recorded, used, base>>,
           disk' \in {disk, box}, mem' \in {mem, box},
           \A a \in Accounts : \A cut \in [0 .. streams -> Nat] :
               Divides(cut, a) =>
                   /\ cut[streams - 1] + Waiting(box, a) <= used[a]
                   /\ a \in DOMAIN box.last => cut[streams - 1] + Waiting(box, a) <= base[a] + box.last[a]
    PROVE  CutInv'
<1> SUFFICES ASSUME NEW a \in Accounts, NEW cut \in [0 .. streams -> Nat], Divides(cut, a)
             PROVE  Divides(cut, a)'
  BY DEF CutInv
<1>1. (\A s : LastSeq(s)' = LastSeq(s)) /\ \A b : Waiting(b, a)' = Waiting(b, a)
  BY DEF LastSeq, Waiting
<1>2. Boxes' \subseteq Boxes \cup {box}
  BY DEF Boxes
<1>3. ASSUME NEW b \in Boxes'
      PROVE  /\ cut[streams - 1] + Waiting(b, a)' <= used[a]
             /\ a \in DOMAIN b.last => cut[streams - 1] + Waiting(b, a)' <= base[a] + b.last[a]
  <2>1. CASE b = box
    BY <1>1, <2>1
  <2>2. CASE b # box
    BY <1>1, <1>2, <2>2 DEF Divides
  <2> QED
    BY <2>1, <2>2
<1> QED
  BY <1>1, <1>3 DEF Divides

\* The new batch ends where the counters are.
LEMMA CutPrepare ==
    ASSUME TrafficTypeOK, CounterInv, AgentInv, CutInv, NEW seen \in SUBSET Accounts, PrepareBatch(seen)
    PROVE  CutInv'
<1> DEFINE box == Prepared(seen)
<1>1. /\ mem \in Boxes /\ mem # Nothing /\ mem.pending = NoEvents
      /\ UNCHANGED <<streams, sent, checkpoint, used, base, recorded>> /\ Save(box)
  BY DEF PrepareBatch, Boxes, Prepared, node, usage
<1>2. /\ box \in Box /\ box.stream = mem.stream /\ box.seq = mem.seq
      /\ box.last = Baselines(seen) /\ box.pending = UsageEvents(seen)
  BY <1>1, WrittenShape
<1>3. disk' \in {disk, box} /\ mem' \in {mem, box}
  BY <1>1, <1>2, SaveShape
<1>4. /\ BoxInv(mem) /\ \A a : Waiting(mem, a) = 0
      /\ streams \in Nat \ {0}
  <2>1. BoxInv(mem) /\ DOMAIN mem.pending = {}
    BY <1>1 DEF AgentInv, NoEvents
  <2>2. \A a : Waiting(mem, a) = 0
    BY <2>1 DEF Waiting
  <2>3. streams \in Nat \ {0}
    BY <1>1 DEF CounterInv, TrafficTypeOK
  <2> QED
    BY <2>1, <2>2, <2>3
<1>5. /\ DOMAIN UsageEvents(seen) = {c \in seen \cap DOMAIN mem.last : Counter(c) > mem.last[c]}
      /\ DOMAIN Baselines(seen) = DOMAIN mem.last \cup seen
      /\ \A c \in DOMAIN UsageEvents(seen) : UsageEvents(seen)[c] = Counter(c) - mem.last[c]
      /\ \A c \in DOMAIN Baselines(seen) :
            Baselines(seen)[c] = IF c \in seen THEN Counter(c) ELSE mem.last[c]
  BY <1>1, UsageShape DEF UsageEvents, Delta, Baselines
<1> HIDE DEF box
<1>6. ASSUME NEW a \in Accounts, NEW cut \in [0 .. streams -> Nat], Divides(cut, a)
      PROVE  /\ cut[streams - 1] + Waiting(box, a) <= used[a]
             /\ a \in DOMAIN box.last => cut[streams - 1] + Waiting(box, a) <= base[a] + box.last[a]
  <2>1. /\ used[a] \in Nat /\ base[a] \in Nat /\ Counter(a) = used[a] - base[a]
        /\ a \in DOMAIN mem.last => mem.last[a] \in Nat
        /\ cut[streams - 1] \in Nat
    <3>1. a \in DOMAIN mem.last => mem.last[a] \in 0 .. MaxBytes
      BY <1>1, BoxShape
    <3>2. used[a] \in 0 .. MaxBytes /\ base[a] \in 0 .. MaxBytes
      BY DEF TrafficTypeOK
    <3>3. streams - 1 \in 0 .. streams
      BY <1>4
    <3> QED
      BY <3>1, <3>2, <3>3, TrafficAssumption DEF Counter
  <2>2. /\ cut[streams - 1] <= used[a]
        /\ a \in DOMAIN mem.last => cut[streams - 1] <= base[a] + mem.last[a]
    BY <1>1, <1>4, <1>6, <2>1 DEF Divides
  <2>3. a \in DOMAIN UsageEvents(seen) =>
          a \in seen /\ a \in DOMAIN mem.last /\ UsageEvents(seen)[a] = Counter(a) - mem.last[a]
    BY <1>5
  <2>4. Waiting(box, a) \in {0, UsageEvents(seen)[a]} /\ (a \notin DOMAIN UsageEvents(seen) => Waiting(box, a) = 0)
    BY <1>2 DEF Waiting
  <2>5. cut[streams - 1] + Waiting(box, a) <= used[a]
    BY <2>1, <2>2, <2>3, <2>4
  <2>6. ASSUME a \in DOMAIN box.last
        PROVE  cut[streams - 1] + Waiting(box, a) <= base[a] + box.last[a]
    <3>1. CASE a \in seen
      <4>1. box.last[a] = used[a] - base[a]
        BY <1>2, <1>5, <2>1, <2>6, <3>1
      <4>2. base[a] + box.last[a] = used[a]
        BY <2>1, <4>1
      <4> QED
        BY <2>5, <4>2
    <3>2. CASE a \notin seen
      BY <1>2, <1>5, <2>1, <2>2, <2>3, <2>4, <2>6, <3>2
    <3> QED
      BY <3>1, <3>2
  <2> QED
    BY <2>5, <2>6
<1> QED
  BY <1>1, <1>3, <1>6, CutWritten

\* The acknowledged box has no batch.
LEMMA CutAcknowledge ==
    ASSUME TrafficTypeOK, CounterInv, AgentInv, CutInv, Acknowledge
    PROVE  CutInv'
<1> DEFINE box == Acknowledged(mem)
<1>1. /\ mem \in Boxes /\ LastSeq(streams) = mem.seq
      /\ UNCHANGED <<streams, sent, checkpoint, used, base, recorded>> /\ Save(box)
  BY DEF Acknowledge, AgentInv, node, usage
<1>2. box \in Box /\ box.last = mem.last /\ box.pending = NoEvents
  BY <1>1, WrittenShape
<1>3. disk' \in {disk, box} /\ mem' \in {mem, box}
  BY <1>1, <1>2, SaveShape
<1>4. \A a : Waiting(mem, a) = 0 /\ Waiting(box, a) = 0
  <2>1. mem.stream = streams /\ mem.seq \in Nat
    BY <1>1, BoxShape DEF AgentInv, BoxInv
  <2> QED
    BY <1>1, <1>2, <2>1 DEF Waiting, NoEvents
<1> HIDE DEF box
<1>5. ASSUME NEW a \in Accounts, NEW cut \in [0 .. streams -> Nat], Divides(cut, a)
      PROVE  /\ cut[streams - 1] + Waiting(box, a) <= used[a]
             /\ a \in DOMAIN box.last => cut[streams - 1] + Waiting(box, a) <= base[a] + box.last[a]
  BY <1>1, <1>2, <1>4, <1>5 DEF Divides
<1> QED
  BY <1>1, <1>3, <1>5, CutWritten

\* The request that is sent for the first time gets the end of its stream.
LEMMA CutSend ==
    ASSUME TrafficTypeOK, CounterInv, SentInv, AgentInv, CutInv, Send
    PROVE  CutInv'
<1> DEFINE n == [stream |-> mem.stream, seq |-> mem.seq, events |-> mem.pending]
<1>1. /\ mem \in Boxes /\ sent' = sent \cup {n}
      /\ UNCHANGED <<streams, disk, mem, checkpoint, recorded, used, base>>
  BY DEF Send, Boxes, node, usage
<1>2. /\ n.stream = streams /\ n.seq = mem.seq /\ n.events = mem.pending
      /\ mem.stream = streams /\ mem.seq \in Nat /\ streams \in Nat \ {0}
  BY <1>1, BoxShape DEF AgentInv, BoxInv, CounterInv, TrafficTypeOK, Boxes
<1> HIDE DEF n
<1> SUFFICES ASSUME NEW a \in Accounts, NEW cut \in [0 .. streams -> Nat], Divides(cut, a)
             PROVE  \E c \in [0 .. streams -> Nat] : Divides(c, a)'
  BY <1>1 DEF CutInv
<1>3. (\A s : LastSeq(s)' = LastSeq(s)) /\ \A b : Waiting(b, a)' = Waiting(b, a)
  BY <1>1 DEF LastSeq, Waiting
<1>4. /\ used[a] \in Nat /\ recorded[a] \in Nat
      /\ \A s \in 0 .. streams : cut[s] \in Nat
  BY DEF TrafficTypeOK
<1>5. PICK c : c = [s \in 0 .. streams |-> IF s = streams THEN used[a] ELSE cut[s]]
  OBVIOUS
<1>6. /\ c \in [0 .. streams -> Nat] /\ c[streams] = used[a]
      /\ \A s \in 0 .. streams : s # streams => c[s] = cut[s]
  BY <1>2, <1>4, <1>5
<1>7. c[0] = cut[0] /\ c[streams - 1] = cut[streams - 1]
  BY <1>2, <1>6
<1>8. ASSUME NEW s \in 1 .. streams
      PROVE  /\ c[s - 1] <= c[s]
             /\ \A m \in sent' :
                   m.stream = s /\ m.seq = LastSeq(s) + 1 /\ a \in DOMAIN m.events =>
                       c[s - 1] + m.events[a] <= c[s]
  <2>1. s - 1 \in 0 .. streams /\ s - 1 # streams /\ c[s - 1] = cut[s - 1] /\ cut[s] <= c[s]
    <3>1. s - 1 \in 0 .. streams /\ s - 1 # streams /\ s \in 0 .. streams
      BY <1>2
    <3>2. cut[streams] <= used[a]
      BY DEF Divides
    <3> QED
      BY <1>4, <1>6, <3>1, <3>2
  <2>2. cut[s - 1] \in Nat /\ cut[s] \in Nat /\ c[s] \in Nat
    BY <1>4, <1>6, <2>1
  <2>3. c[s - 1] <= c[s]
    <3>1. cut[s - 1] <= cut[s]
      BY DEF Divides
    <3> QED
      BY <2>1, <2>2, <3>1
  <2>4. ASSUME NEW m \in sent, m.stream = s, m.seq = LastSeq(s) + 1, a \in DOMAIN m.events
        PROVE  c[s - 1] + m.events[a] <= c[s]
    <3>1. m.events[a] \in Nat
      BY <2>4, RequestShape DEF Positive
    <3>2. cut[s - 1] + m.events[a] <= cut[s]
      BY <2>4 DEF Divides
    <3> QED
      BY <2>1, <2>2, <3>1, <3>2
  <2>5. ASSUME n.stream = s, n.seq = LastSeq(s) + 1, a \in DOMAIN n.events
        PROVE  c[s - 1] + n.events[a] <= c[s]
    <3>1. s = streams /\ LastSeq(streams) \in Nat
      BY <1>2, <2>5, LastSeqNat
    <3>2. Waiting(mem, a) = n.events[a]
      BY <1>2, <2>5, <3>1 DEF Waiting
    <3>3. cut[streams - 1] + Waiting(mem, a) <= used[a]
      BY <1>1 DEF Divides
    <3> QED
      BY <1>6, <1>7, <3>1, <3>2, <3>3
  <2> QED
    BY <1>1, <2>3, <2>4, <2>5
<1>9. Boxes' = Boxes
  BY <1>1 DEF Boxes
<1>10. c[streams] <= used[a]
  BY <1>4, <1>6
<1>11. recorded[a] <= c[0]
  BY <1>7 DEF Divides
<1>12. \A b \in Boxes :
          /\ c[streams - 1] + Waiting(b, a) <= used[a]
          /\ a \in DOMAIN b.last => c[streams - 1] + Waiting(b, a) <= base[a] + b.last[a]
  BY <1>7 DEF Divides
<1>13. Divides(c, a)'
  BY <1>1, <1>3, <1>8, <1>9, <1>10, <1>11, <1>12 DEF Divides
<1> QED
  BY <1>6, <1>13

\* A new stream begins where the one before it ends.
LEMMA CutOpen ==
    ASSUME TrafficTypeOK, CounterInv, SentInv, CutInv, OpenOutbox
    PROVE  CutInv'
<1>1. UNCHANGED <<sent, checkpoint, recorded, used, base, disk>> /\ mem = Nothing
  BY DEF OpenOutbox, usage, node
<1>2. /\ streams \in Nat
      /\ \A a \in Accounts : used[a] \in Nat /\ base[a] \in Nat
  BY DEF TrafficTypeOK
<1>3. CASE disk # Nothing
  <2>1. streams' = streams /\ Boxes' \subseteq Boxes
    BY <1>1, <1>3 DEF OpenOutbox, Boxes
  <2>2. \A a \in Accounts : /\ used[a] <= used'[a] /\ used'[a] \in Nat
                            /\ base[a] <= base'[a] /\ base'[a] \in Nat
    BY <1>1, <1>2
  <2> QED
    BY <1>1, <2>1, <2>2, CutKept
<1>4. CASE disk = Nothing
  <2>1. streams' = streams + 1 /\ \A b \in Boxes' : b.last = NoEvents /\ b.pending = NoEvents
    BY <1>1, <1>4 DEF OpenOutbox, Boxes
  <2> SUFFICES ASSUME NEW a \in Accounts, NEW cut \in [0 .. streams -> Nat], Divides(cut, a)
               PROVE  \E c \in [0 .. streams' -> Nat] : Divides(c, a)'
    BY DEF CutInv
  <2>2. PICK c : c = [s \in 0 .. streams' |-> IF s = streams' THEN cut[streams] ELSE cut[s]]
    OBVIOUS
  <2>3. \A s \in 0 .. streams : cut[s] \in Nat
    OBVIOUS
  <2>4. /\ c \in [0 .. streams' -> Nat] /\ c[streams'] = cut[streams]
        /\ \A s \in 0 .. streams : c[s] = cut[s]
    BY <1>2, <2>1, <2>2, <2>3
  <2>5. (\A s : LastSeq(s)' = LastSeq(s)) /\ \A b \in Boxes' : Waiting(b, a)' = 0 /\ a \notin DOMAIN b.last
    BY <1>1, <2>1 DEF LastSeq, Waiting, NoEvents
  <2>6. cut[streams] <= used[a] /\ c[streams' - 1] = cut[streams] /\ cut[streams] \in Nat /\ c[0] = cut[0]
    <3>1. streams' - 1 = streams /\ streams \in 0 .. streams /\ 0 \in 0 .. streams
      BY <1>2, <2>1
    <3> QED
      BY <2>3, <2>4, <3>1 DEF Divides
  <2>7. ASSUME NEW s \in 1 .. streams'
        PROVE  /\ c[s - 1] <= c[s]
               /\ \A m \in sent :
                     m.stream = s /\ m.seq = LastSeq(s) + 1 /\ a \in DOMAIN m.events =>
                         c[s - 1] + m.events[a] <= c[s]
    <3>1. CASE s = streams'
      <4>1. \A m \in sent : m.stream # s
        BY <1>2, <2>1, <3>1 DEF SentInv
      <4>2. c[s - 1] = cut[streams] /\ c[s] = cut[streams]
        BY <2>4, <2>6, <3>1
      <4>3. c[s - 1] <= c[s]
        BY <2>6, <4>2
      <4> QED
        BY <4>1, <4>3
    <3>2. CASE s # streams'
      <4>1. s \in 1 .. streams /\ s - 1 \in 0 .. streams /\ s \in 0 .. streams
        BY <1>2, <2>1, <3>2
      <4>2. c[s] = cut[s] /\ c[s - 1] = cut[s - 1]
        BY <2>4, <4>1
      <4> QED
        BY <4>1, <4>2 DEF Divides
    <3> QED
      BY <3>1, <3>2
  <2>8. recorded[a] <= c[0]
    BY <2>6 DEF Divides
  <2>9. c[streams'] <= used[a]
    BY <2>4, <2>6
  <2>10. \A b \in Boxes' : c[streams' - 1] + Waiting(b, a)' <= used[a] /\ a \notin DOMAIN b.last
    BY <1>2, <2>5, <2>6
  <2>11. Divides(c, a)'
    BY <1>1, <2>5, <2>7, <2>8, <2>9, <2>10 DEF Divides
  <2> QED
    BY <2>4, <2>11
<1> QED
  BY <1>3, <1>4

\* What is recorded of a stream's batch pushes the ends of the streams before it on.
LEMMA CutCommit ==
    ASSUME TrafficTypeOK, CounterInv, SentInv, AgentInv, ReportInv, CutInv, NEW t \in reports, ReportCommit(t)
    PROVE  CutInv'
<1> DEFINE m == t.request
<1>1. /\ m \in sent /\ m.seq = LastSeq(m.stream) + 1 /\ LastSeq(m.stream) \in Nat
      /\ \A s : LastSeq(s)' = IF s = m.stream THEN m.seq ELSE LastSeq(s)
      /\ UNCHANGED <<streams, sent, used, base, disk, mem>>
      /\ \A a \in Accounts : recorded'[a] = recorded[a] + (IF a \in DOMAIN m.events THEN m.events[a] ELSE 0)
  BY CommitSeq, LastSeqNat DEF ReportInv, ReportCommit, node
<1>2. /\ m.stream \in 1 .. streams /\ streams \in Nat
      /\ \A a \in DOMAIN m.events : m.events[a] \in Nat
  BY <1>1, RequestShape DEF SentInv, TrafficTypeOK, Positive
<1>3. ASSUME NEW b \in Boxes
      PROVE  /\ b.stream = streams
             /\ m.stream = streams =>
                   m.seq = b.seq /\ m.events = b.pending /\ LastSeq(streams) = b.seq - 1 /\ b.seq \in Nat
  BY LatestBatch, BoxShape DEF AgentInv, BoxInv
<1> HIDE DEF m
<1> SUFFICES ASSUME NEW a \in Accounts, NEW cut \in [0 .. streams -> Nat], Divides(cut, a)
             PROVE  \E c \in [0 .. streams -> Nat] : Divides(c, a)'
  BY <1>1 DEF CutInv
<1>4. PICK d \in Nat : d = IF a \in DOMAIN m.events THEN m.events[a] ELSE 0
  BY <1>2
<1>5. recorded'[a] = recorded[a] + d /\ recorded[a] \in Nat /\ recorded[a] <= cut[0]
  BY <1>1, <1>4 DEF TrafficTypeOK, Divides
<1>6. PICK c : c = [s \in 0 .. streams |-> IF s < m.stream THEN cut[s] + d ELSE cut[s]]
  OBVIOUS
<1>7. \A s \in 0 .. streams : cut[s] \in Nat
  OBVIOUS
<1>8. /\ c \in [0 .. streams -> Nat]
      /\ \A s \in 0 .. streams : c[s] = IF s < m.stream THEN cut[s] + d ELSE cut[s]
  BY <1>6, <1>7
<1>9. recorded'[a] <= c[0]
  <2>1. 0 \in 0 .. streams /\ 0 < m.stream
    BY <1>2
  <2> QED
    BY <1>5, <1>7, <1>8, <2>1
<1>10. c[streams] = cut[streams]
  BY <1>2, <1>8
<1>11. ASSUME NEW s \in 1 .. streams
       PROVE  /\ c[s - 1] <= c[s]
              /\ \A n \in sent :
                    n.stream = s /\ n.seq = LastSeq(s)' + 1 /\ a \in DOMAIN n.events =>
                        c[s - 1] + n.events[a] <= c[s]
  <2>1. /\ s \in 0 .. streams /\ s - 1 \in 0 .. streams /\ s \in Nat /\ m.stream \in Nat
        /\ cut[s] \in Nat /\ cut[s - 1] \in Nat
        /\ c[s - 1] = (IF s - 1 < m.stream THEN cut[s - 1] + d ELSE cut[s - 1])
        /\ c[s] = (IF s < m.stream THEN cut[s] + d ELSE cut[s])
    <3>1. s \in 0 .. streams /\ s - 1 \in 0 .. streams /\ s \in Nat /\ m.stream \in Nat
      BY <1>2
    <3> QED
      BY <1>7, <1>8, <3>1
  <2>2. cut[s - 1] <= cut[s]
    BY DEF Divides
  <2>3. ASSUME NEW n \in sent, n.stream = s, n.seq = LastSeq(s) + 1, a \in DOMAIN n.events
        PROVE  cut[s - 1] + n.events[a] <= cut[s] /\ n.events[a] \in Nat
    BY <2>3, RequestShape DEF Divides, Positive
  <2>4. CASE s = m.stream
    <3>1. c[s - 1] = cut[s - 1] + d /\ c[s] = cut[s]
      BY <2>1, <2>4
    <3>2. cut[s - 1] + d <= cut[s]
      <4>1. CASE a \in DOMAIN m.events
        BY <1>1, <1>4, <2>3, <2>4, <4>1
      <4>2. CASE a \notin DOMAIN m.events
        BY <1>4, <2>1, <2>2, <4>2
      <4> QED
        BY <4>1, <4>2
    <3>3. \A n \in sent : n.stream = s => n.seq # LastSeq(s)' + 1
      <4> SUFFICES ASSUME NEW n \in sent, n.stream = s PROVE n.seq # LastSeq(s)' + 1
        OBVIOUS
      <4>1. n.seq <= LastSeq(s) + 1 /\ n.seq \in Nat
        BY RequestShape DEF SentInv
      <4>2. LastSeq(s)' = LastSeq(s) + 1 /\ LastSeq(s) \in Nat
        BY <1>1, <2>4
      <4> QED
        BY <4>1, <4>2
    <3> QED
      BY <3>1, <3>2, <3>3
  <2>5. CASE s # m.stream
    <3>1. \/ c[s - 1] = cut[s - 1] + d /\ c[s] = cut[s] + d
          \/ c[s - 1] = cut[s - 1] /\ c[s] = cut[s]
      BY <2>1, <2>5
    <3>2. LastSeq(s)' = LastSeq(s)
      BY <1>1, <2>5
    <3>3. ASSUME NEW n \in sent, n.stream = s, n.seq = LastSeq(s) + 1, a \in DOMAIN n.events
          PROVE  c[s - 1] + n.events[a] <= c[s]
      BY <1>4, <2>1, <2>3, <3>1, <3>3
    <3>4. c[s - 1] <= c[s]
      BY <1>4, <2>1, <2>2, <3>1
    <3> QED
      BY <3>2, <3>3, <3>4
  <2> QED
    BY <2>4, <2>5
<1>12. ASSUME NEW b \in Boxes
       PROVE  c[streams - 1] + Waiting(b, a)' = cut[streams - 1] + Waiting(b, a)
  <2>1. streams \in Nat \ {0} /\ streams - 1 \in 0 .. streams
    BY <1>2
  <2>2. /\ cut[streams - 1] \in Nat
        /\ c[streams - 1] = (IF streams - 1 < m.stream THEN cut[streams - 1] + d ELSE cut[streams - 1])
    BY <1>8, <2>1
  <2>3. CASE m.stream = streams
    <3>1. LastSeq(b.stream)' = b.seq /\ LastSeq(b.stream) < b.seq /\ ~(b.seq < b.seq)
      BY <1>1, <1>3, <2>3
    <3>2. Waiting(b, a)' = 0 /\ Waiting(b, a) = d
      BY <1>3, <1>4, <2>3, <3>1 DEF Waiting
    <3> QED
      BY <1>2, <1>4, <2>1, <2>2, <2>3, <3>2
  <2>4. CASE m.stream # streams
    <3>1. Waiting(b, a)' = Waiting(b, a)
      BY <1>1, <1>3, <2>4 DEF Waiting
    <3>2. ~(streams - 1 < m.stream)
      BY <1>2, <2>4
    <3> QED
      BY <2>2, <3>1, <3>2
  <2> QED
    BY <2>3, <2>4
<1>13. Boxes' = Boxes
  BY <1>1 DEF Boxes
<1>14. Divides(c, a)'
  <2>1. c[streams] <= used[a]
    BY <1>10 DEF Divides
  <2>2. \A b \in Boxes :
           /\ c[streams - 1] + Waiting(b, a)' <= used[a]
           /\ a \in DOMAIN b.last => c[streams - 1] + Waiting(b, a)' <= base[a] + b.last[a]
    BY <1>12 DEF Divides
  <2> QED
    BY <1>1, <1>9, <1>11, <1>13, <2>1, <2>2 DEF Divides
<1> QED
  BY <1>8, <1>14

\* The bytes of an account stay divided, whatever step is taken.
LEMMA CutNext ==
    ASSUME TrafficTypeOK, CounterInv, SentInv, AgentInv, ReportInv, CutInv, TrafficNext
    PROVE  CutInv'
<1>1. CASE AgentStep
  BY <1>1, CutOpen, CutSend, CutAcknowledge, CutPrepare DEF AgentStep
<1>2. CASE \E t \in reports : ReportCommit(t)
  BY <1>2, CutCommit
<1>3. ASSUME UNCHANGED <<streams, sent, checkpoint, recorded>>,
             disk' \in {disk, Nothing}, mem' \in {mem, Nothing},
             used' = used \/ \E a \in Accounts : used' = [used EXCEPT ![a] = @ + 1],
             base' = base \/ base' = used
      PROVE  CutInv'
  <2>1. Boxes' \subseteq Boxes
    BY <1>3 DEF Boxes
  <2>2. \A a \in Accounts : used[a] \in Nat /\ base[a] \in Nat /\ base[a] <= used[a]
    BY DEF TrafficTypeOK, CounterInv
  <2>3. \A a \in Accounts : used[a] <= used'[a] /\ used'[a] \in Nat
    <3>1. used \in [Accounts -> 0 .. MaxBytes]
      BY DEF TrafficTypeOK
    <3> QED
      BY <1>3, <2>2, <3>1
  <2>4. \A a \in Accounts : base[a] <= base'[a] /\ base'[a] \in Nat
    BY <1>3, <2>2
  <2> QED
    BY <1>3, <2>1, <2>3, <2>4, CutKept
<1>4. CASE RuntimeRestarts \/ RequestFails \/ AgentRestarts \/ FileLost
  <2>1. /\ UNCHANGED <<streams, sent, checkpoint, recorded, used>>
        /\ disk' \in {disk, Nothing} /\ mem' \in {mem, Nothing} /\ (base' = base \/ base' = used)
    BY <1>4 DEF RuntimeRestarts, RequestFails, AgentRestarts, FileLost, node, outbox, usage
  <2> QED
    BY <1>3, <2>1
<1>5. ASSUME NEW m \in sent, Process(m) PROVE CutInv'
  <2>1. UNCHANGED <<streams, sent, checkpoint, recorded, used, base, disk, mem>>
    BY <1>5 DEF Process, ReportRepeated, ReportRefused, ReportEvaluate, node, outbox, usage
  <2> QED
    BY <1>3, <2>1
<1>6. CASE \E e \in events : Archive(e)
  <2>1. UNCHANGED <<streams, sent, checkpoint, recorded, used, base, disk, mem>>
    BY <1>6 DEF Archive, node, outbox
  <2> QED
    BY <1>3, <2>1
<1>7. ASSUME NEW a \in Accounts,
             \/ Transfer(a) \/ Move(a) \/ Delete(a) \/ UpsertCommit(a)
             \/ \E lim \in Limits : UpsertLimit(a, lim)
      PROVE  CutInv'
  <2>1. /\ UNCHANGED <<streams, sent, checkpoint, recorded, base, disk, mem>>
        /\ (used' = used \/ used' = [used EXCEPT ![a] = @ + 1])
    BY <1>7 DEF Transfer, Move, Delete, UpsertCommit, UpsertLimit, node, outbox, usage
  <2> QED
    BY <1>3, <2>1
<1> QED
  BY <1>1, <1>2, <1>4, <1>5, <1>6, <1>7 DEF TrafficNext

(***************************************************************************)
(* The theorems                                                            *)
(***************************************************************************)
LEMMA TrafficBegins == TrafficInit => TrafficInv
<1> SUFFICES ASSUME TrafficInit PROVE TrafficInv
  OBVIOUS
<1>1. Boxes = {} /\ sent = {} /\ reports = {} /\ events = {} /\ streams = 0
  BY DEF TrafficInit, Boxes
<1>2. TrafficTypeOK
  <2>1. \A a \in Accounts : used[a] = 0 /\ base[a] = 0 /\ recorded[a] = 0 /\ limit[a] = 0
    BY DEF TrafficInit
  <2> QED
    BY <2>1, TrafficAssumption DEF TrafficInit, TrafficTypeOK, Status
<1>3. CounterInv
  BY DEF TrafficInit, CounterInv
<1>4. SentInv /\ AgentInv /\ ReportInv
  BY <1>1 DEF TrafficInit, SentInv, AgentInv, ReportInv
<1>5. LossInv
  BY <1>1 DEF LossInv
<1>6. CutInv
  <2> SUFFICES ASSUME NEW a \in Accounts PROVE \E cut \in [0 .. streams -> Nat] : Divides(cut, a)
    BY DEF CutInv
  <2>1. PICK cut : cut = [s \in 0 .. 0 |-> 0]
    OBVIOUS
  <2>2. cut \in [0 .. streams -> Nat] /\ cut[0] = 0 /\ recorded[a] = 0 /\ used[a] = 0
    BY <1>1, <2>1 DEF TrafficInit
  <2>3. Divides(cut, a)
    BY <1>1, <2>2 DEF Divides
  <2> QED
    BY <2>2, <2>3
<1>7. SumInv
  <2>1. Bytes(events) = 0 /\ IsFiniteSet(events)
    BY <1>1, FS_EmptySet, BytesStep
  <2> QED
    BY <1>1, <2>1 DEF TrafficInit, SumInv
<1> QED
  BY <1>2, <1>3, <1>4, <1>5, <1>6, <1>7 DEF TrafficInv

\* The invariant is kept by every step of the runtime, the Agent, the Manager
\* and the administrators.
LEMMA TrafficKept == TrafficInv /\ [TrafficNext]_trafficVars => TrafficInv'
<1> SUFFICES ASSUME TrafficInv, [TrafficNext]_trafficVars PROVE TrafficInv'
  OBVIOUS
<1> USE DEF TrafficInv
<1>1. CASE TrafficNext
  <2>1. SumInv' /\ daily' \in Nat /\ archived' \in Nat
    BY <1>1, SumNext
  <2>2. CounterInv' /\ SentInv' /\ AgentInv' /\ ReportInv'
    BY <1>1, CounterNext, StreamsNext
  <2>3. LossInv' /\ CutInv'
    BY <1>1, LossNext, CutNext
  <2>4. TrafficTypeOK'
    BY <1>1, <2>1, AgentTypes, ManagerTypes DEF TrafficNext, ManagerStep
  <2> QED
    BY <2>1, <2>2, <2>3, <2>4
<1>2. CASE UNCHANGED trafficVars
  <2>1. UNCHANGED <<used, base, disk, mem, pc, streams, first, sent, place, checkpoint, events, recorded,
                    daily, archived, limit, enforced, reports, upsert, changes, faults>>
    BY <1>2 DEF trafficVars, node, outbox, usage, limits, budget
  <2>2. TrafficTypeOK' /\ CounterInv' /\ SentInv'
    BY <2>1 DEF TrafficTypeOK, CounterInv, SentInv, LastSeq
  <2>3. AgentInv' /\ ReportInv' /\ SumInv'
    BY <2>1 DEF AgentInv, Boxes, BoxInv, ReportInv, SumInv, LastSeq
  <2>4. LossInv' /\ CutInv'
    BY <2>1 DEF LossInv, CutInv, Divides, Boxes, Waiting, LastSeq
  <2> QED
    BY <2>2, <2>3, <2>4
<1> QED
  BY <1>1, <1>2

\* The inductive invariant of the accounting.
THEOREM TrafficInvariance == TrafficSpec => []TrafficInv
  BY TrafficBegins, TrafficKept, PTL DEF TrafficSpec

\* Every variable keeps its type: batches carry positive events only, and the
\* daily total never becomes negative.
THEOREM TrafficTypeCorrect == TrafficSpec => []TrafficTypeOK
<1>1. TrafficInv => TrafficTypeOK
  BY DEF TrafficInv
<1> QED
  BY <1>1, TrafficInvariance, PTL

\* ReportUsageBatch charges an account for no byte twice, whatever is retried,
\* processed late, restarted or lost, and the daily total is the sum of the rows
\* there are and of those that only the retention removed.
THEOREM EveryByteOnce == TrafficSpec => []NeverOvercounted
<1>1. TrafficInv => NeverOvercounted
  <2> SUFFICES ASSUME TrafficInv, NEW a \in Accounts PROVE recorded[a] <= used[a]
    BY DEF TrafficInv, NeverOvercounted, SumInv
  <2>1. /\ recorded[a] \in Nat /\ used[a] \in Nat /\ streams \in Nat
    BY DEF TrafficInv, TrafficTypeOK
  <2>2. PICK cut \in [0 .. streams -> Nat] : Divides(cut, a)
    BY DEF TrafficInv, CutInv
  <2>3. cut[0] <= cut[streams]
    <3> DEFINE lower == {s \in 0 .. streams : ~(cut[0] <= cut[s])}
    <3>1. CASE lower = {}
      BY <2>1, <3>1
    <3>2. CASE lower # {}
      <4>1. lower \in SUBSET Nat
        OBVIOUS
      <4>2. PICK s \in lower : \A r \in lower : s <= r
        <5> HIDE DEF lower
        <5> QED
          BY <3>2, <4>1, LeastNumber
      <4>3. s \in 1 .. streams /\ s - 1 \in 0 .. streams /\ s - 1 \notin lower
        BY <2>1, <4>2
      <4>4. cut[0] <= cut[s - 1] /\ cut[s - 1] <= cut[s]
        BY <2>2, <4>3 DEF Divides
      <4>5. cut[0] \in Nat /\ cut[s - 1] \in Nat /\ cut[s] \in Nat
        BY <2>1, <4>3
      <4> QED
        BY <4>2, <4>4, <4>5
    <3> QED
      BY <3>1, <3>2
  <2>4. recorded[a] <= cut[0] /\ cut[streams] <= used[a] /\ cut[0] \in Nat /\ cut[streams] \in Nat
    BY <2>1, <2>2 DEF Divides
  <2> QED
    BY <2>1, <2>3, <2>4
<1> QED
  BY <1>1, TrafficInvariance, PTL

\* While the runtime keeps counting and the first outbox file survives, what
\* BuildUsageEvents has moved the baselines over is recorded or waits in the
\* file, whatever write fails, answer is lost or Agent restarts.
THEOREM NoByteLost == TrafficSpec => []NothingLost
<1>1. TrafficInv => NothingLost
  <2> SUFFICES ASSUME TrafficInv, disk # Nothing, streams = 1, \A a \in Accounts : base[a] = 0,
                      NEW a \in DOMAIN disk.last
               PROVE  disk.last[a] - first[a] = recorded[a] + Outstanding(a)
    BY DEF NothingLost
  <2>1. disk \in Boxes
    BY DEF Boxes
  <2>2. a \in Accounts
    BY <2>1, BoxShape DEF TrafficInv
  <2>3. disk.last[a] - first[a] = recorded[a] + Waiting(disk, a)
    BY <2>1, <2>2 DEF TrafficInv, LossInv
  <2>4. Checkpoint(disk).seq = LastSeq(disk.stream)
    BY DEF Checkpoint, LastSeq
  <2>5. Outstanding(a) = Waiting(disk, a)
    BY <2>4 DEF Outstanding, Waiting
  <2> QED
    BY <2>3, <2>5
<1> QED
  BY <1>1, TrafficInvariance, PTL
=============================================================================
