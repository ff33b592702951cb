------------------------ MODULE PlatformUpdateProofs ------------------------
(***************************************************************************)
(* The safety of the update protocol for any number of jobs, tasks, Agent  *)
(* processes and faults.                                                   *)
(***************************************************************************)
EXTENDS PlatformUpdate, TLAPS

\* Agent process a is on its way to start the unit of job j.
Launching(a, j) == pc[a] \in LaunchPcs /\ cur[a] = j

\* No updater can be started for j any more (or yet): its receipt is closed
\* without mutation evidence, or there is no unit and nobody to start one.
NoLaunch(j) ==
    \/ phase[j] = "failed" /\ ~started[j]
    \/ unit[j] = "none" /\ \A a \in Agents : ~Launching(a, j)

\* A process works on a job, on a task, or on nothing.
HandlerInv ==
    \A a \in Agents :
        /\ pc[a] \in DispatchPcs \cup ReconcilePcs => cur[a] \in Jobs
        /\ pc[a] = "exec" => cur[a] \in Tasks
        /\ pc[a] = "idle" => cur[a] = None

\* A job nobody claimed has left no trace outside the database.
UnclaimedInv ==
    \A j \in Jobs : status[j] \in {"absent", "pending"} =>
        /\ phase[j] = "none"
        /\ unit[j] = "none"
        /\ \A a \in Agents : cur[a] # j
        /\ \A m \in net : m.id # j

\* The single dispatch of a job is in one process, before its unit exists.
LaunchInv ==
    \A j \in Jobs, a \in Agents : Launching(a, j) =>
        /\ unit[j] = "none"
        /\ \A b \in Agents : Launching(b, j) => b = a

\* The receipt's mutation evidence agrees with its phase.
ReceiptInv ==
    \A j \in Jobs :
        /\ phase[j] \in {"none", "prepared"} => ~started[j]
        /\ phase[j] \in {"mutation_started", "succeeded", "outcome_unknown"} => started[j]

\* The receipt against the worker and the host.
WorkerInv ==
    \A j \in Jobs :
        /\ unit[j] \in {"none", "queued", "accept", "ready", "cross"} => ~started[j]
        /\ unit[j] \in Crossed => phase[j] = "mutation_started"
        /\ ~started[j] => effect[j] = "none"
        /\ effect[j] = "running" <=> unit[j] = "updating"
        /\ launches[j] = (IF effect[j] = "none" THEN 0 ELSE 1)
        /\ unit[j] = "start" => effect[j] = "none"
        /\ unit[j] = "mark_succeeded" => effect[j] = "applied"
        /\ unit[j] = "mark_failed" => effect[j] \in {"none", "reverted"}
        /\ phase[j] = "succeeded" => effect[j] = "applied"
        /\ phase[j] = "failed" => effect[j] \in {"none", "reverted"}

\* A reconciler that saw mutation evidence and an absent unit is right.
ReconcilerInv ==
    \A a \in Agents, j \in Jobs : cur[a] = j /\ seen[a] =>
        /\ pc[a] = "check" => started[j]
        /\ pc[a] = "mark" => started[j] /\ unit[j] = "gone"

\* Completions in flight tell the truth for as long as they travel.
MessageInv ==
    \A m \in net : m.id \in Jobs =>
        /\ m.evidence # "none"
        /\ m.envelope = "failed" => m.evidence = "failed" /\ NoLaunch(m.id)
        /\ m.envelope = "succeeded" /\ m.evidence \in FinalStatuses => phase[m.id] = m.evidence

\* What the Manager has stored against the receipt.
ManagerInv ==
    \A j \in Jobs :
        /\ status[j] \in {"absent", "pending", "in_progress"} => ~dispatched[j]
        /\ status[j] \in {"succeeded", "outcome_unknown"} => phase[j] = status[j]
        /\ status[j] = "failed" /\ dispatched[j] => phase[j] = "failed"
        /\ status[j] = "failed" /\ ~dispatched[j] => NoLaunch(j)

\* The unique partial index of the job table.
InterlockInv ==
    \A j, k \in Jobs : status[j] \in Interlocked /\ status[k] \in Interlocked => j = k

Inv ==
    /\ TypeOK
    /\ HandlerInv
    /\ UnclaimedInv
    /\ LaunchInv
    /\ ReceiptInv
    /\ WorkerInv
    /\ ReconcilerInv
    /\ MessageInv
    /\ ManagerInv
    /\ InterlockInv


\* The vocabulary is finite sets of strings and tuples of variables, and the
\* two abbreviations above: always visible.
USE DEF Tasks, JobStatuses, ActiveStatuses, FinalStatuses, TaskStatuses,
        Phases, FinalPhases, LaunchPcs, DispatchPcs, ReconcilePcs, AgentPcs,
        Crossed, Running, UnitStates, Effects, Messages, manager, agent,
        receipt, host, Launching, NoLaunch, Interlocked

(***************************************************************************)
(* The receipt store: what each guarded transition can do.                 *)
(***************************************************************************)
\* MarkPreDispatchFailed closes a prepared receipt and touches no other.
LEMMA PreDispatchFailedEffect ==
    ASSUME TypeOK, ReceiptInv, NEW j \in Jobs, MarkPreDispatchFailed(j)
    PROVE  /\ TransitionOk(j, "failed", FALSE) <=> phase[j] = "prepared"
           /\ started' = started
           /\ \/ phase[j] = "prepared" /\ phase' = [phase EXCEPT ![j] = "failed"]
              \/ phase[j] # "prepared" /\ phase' = phase
<1>1. TransitionOk(j, "failed", FALSE) <=> phase[j] = "prepared"
  BY DEF TypeOK, ReceiptInv, TransitionOk, AllowedTransition
<1>2. CASE phase[j] = "prepared"
  <2>1. started[j] = FALSE
    BY <1>2 DEF TypeOK, ReceiptInv
  <2>2. started' = [started EXCEPT ![j] = FALSE]
    BY <1>1, <1>2 DEF MarkPreDispatchFailed, Transition
  <2>3. started' = started
    BY <2>1, <2>2 DEF TypeOK
  <2>4. phase' = [phase EXCEPT ![j] = "failed"]
    BY <1>1, <1>2 DEF MarkPreDispatchFailed, Transition
  <2>. QED
    BY <1>1, <1>2, <2>3, <2>4
<1>3. CASE phase[j] # "prepared"
  <2>1. phase' = [phase EXCEPT ![j] = phase[j]] /\ started' = [started EXCEPT ![j] = started[j]]
    BY <1>1, <1>3 DEF MarkPreDispatchFailed, Transition
  <2>. QED
    BY <1>1, <1>3, <2>1 DEF TypeOK
<1>. QED
  BY <1>2, <1>3

\* acceptPreparedPlatformUpdateReceipt closes an orphaned mutation_started
\* receipt as unknown and touches no other.
LEMMA AcceptPreparedEffect ==
    ASSUME TypeOK, ReceiptInv, NEW j \in Jobs, AcceptPrepared(j)
    PROVE  /\ started' = started
           /\ \/ phase[j] = "mutation_started" /\ phase' = [phase EXCEPT ![j] = "outcome_unknown"]
              \/ phase[j] # "mutation_started" /\ phase' = phase
<1>1. CASE phase[j] = "mutation_started"
  <2>1. started[j] = TRUE
    BY <1>1 DEF TypeOK, ReceiptInv
  <2>2. TransitionOk(j, "outcome_unknown", TRUE)
    BY <1>1 DEF TransitionOk, AllowedTransition
  <2>3. started' = [started EXCEPT ![j] = TRUE] /\ phase' = [phase EXCEPT ![j] = "outcome_unknown"]
    BY <1>1, <2>2 DEF AcceptPrepared, Transition
  <2>. QED
    BY <1>1, <2>1, <2>3 DEF TypeOK
<1>2. CASE phase[j] # "mutation_started"
  BY <1>2 DEF AcceptPrepared
<1>. QED
  BY <1>1, <1>2

\* The verdict on a mutation closes a mutation_started receipt, no other.
LEMMA VerdictEffect ==
    ASSUME TypeOK, ReceiptInv, NEW j \in Jobs, NEW v \in FinalPhases, Transition(j, v, TRUE)
    PROVE  /\ TransitionOk(j, v, TRUE) <=> phase[j] = "mutation_started"
           /\ started' = started
           /\ \/ phase[j] = "mutation_started" /\ phase' = [phase EXCEPT ![j] = v]
              \/ phase[j] # "mutation_started" /\ phase' = phase
<1>1. TransitionOk(j, v, TRUE) <=> phase[j] = "mutation_started"
  BY DEF TypeOK, ReceiptInv, TransitionOk, AllowedTransition
<1>2. CASE phase[j] = "mutation_started"
  <2>1. started[j] = TRUE
    BY <1>2 DEF TypeOK, ReceiptInv
  <2>2. started' = [started EXCEPT ![j] = TRUE] /\ phase' = [phase EXCEPT ![j] = v]
    BY <1>1, <1>2 DEF Transition
  <2>. QED
    BY <1>1, <1>2, <2>1, <2>2 DEF TypeOK
<1>3. CASE phase[j] # "mutation_started"
  <2>1. phase' = [phase EXCEPT ![j] = phase[j]] /\ started' = [started EXCEPT ![j] = started[j]]
    BY <1>1, <1>3 DEF Transition
  <2>. QED
    BY <1>1, <1>3, <2>1 DEF TypeOK
<1>. QED
  BY <1>2, <1>3

\* A handler that moves on or returns keeps its local variables typed.
LEMMA HandlerType ==
    ASSUME TypeOK, NEW a \in Agents, NEW at \in AgentPcs, Idle(a) \/ Go(a, at)
    PROVE  /\ pc' \in [Agents -> AgentPcs]
           /\ cur' \in [Agents -> Jobs \cup Tasks \cup {None}]
           /\ mstatus' \in [Agents -> {"in_progress", "mutation_dispatched"}]
           /\ seen' \in [Agents -> BOOLEAN]
<1>1. CASE Idle(a)
  BY <1>1 DEF TypeOK, Idle
<1>2. CASE Go(a, at)
  BY <1>2 DEF TypeOK, Go
<1>. QED
  BY <1>1, <1>2

\* The index admits no second job; the new one has left no trace yet.
LEMMA CreatePlatformUpdateJobStep ==
    ASSUME Inv, NEW j \in Jobs, CreatePlatformUpdateJob(j)
    PROVE  Inv'
<1>1. TypeOK'
  BY ConstantsAssumption DEF Inv, CreatePlatformUpdateJob, TypeOK, HandlerInv
<1>2. HandlerInv'
  BY ConstantsAssumption DEF Inv, CreatePlatformUpdateJob, TypeOK, HandlerInv
<1>3. UnclaimedInv'
  BY ConstantsAssumption DEF Inv, CreatePlatformUpdateJob, TypeOK, HandlerInv,
      UnclaimedInv
<1>4. LaunchInv'
  BY DEF Inv, LaunchInv, CreatePlatformUpdateJob
<1>5. ReceiptInv'
  BY DEF Inv, ReceiptInv, CreatePlatformUpdateJob
<1>6. WorkerInv'
  BY DEF Inv, WorkerInv, CreatePlatformUpdateJob
<1>7. ReconcilerInv'
  BY DEF Inv, ReconcilerInv, CreatePlatformUpdateJob
<1>8. MessageInv'
  BY ConstantsAssumption DEF Inv, MessageInv, CreatePlatformUpdateJob
<1>9. ManagerInv'
  BY DEF Inv, CreatePlatformUpdateJob, TypeOK, HandlerInv, UnclaimedInv,
      LaunchInv, ReceiptInv, WorkerInv, MessageInv, ManagerInv
<1>10. InterlockInv'
  BY DEF Inv, CreatePlatformUpdateJob, TypeOK, InterlockInv
<1>. QED
  BY <1>1, <1>2, <1>3, <1>4, <1>5, <1>6, <1>7, <1>8, <1>9, <1>10 DEF Inv

\* A queued task touches no job.
LEMMA CreateTaskStep ==
    ASSUME Inv, NEW t \in Tasks, CreateTask(t)
    PROVE  Inv'
<1>1. TypeOK'
  BY ConstantsAssumption DEF Inv, CreateTask, TypeOK, HandlerInv
<1>2. HandlerInv'
  BY ConstantsAssumption DEF Inv, CreateTask, TypeOK, HandlerInv
<1>3. UnclaimedInv'
  BY ConstantsAssumption DEF Inv, UnclaimedInv, CreateTask
<1>4. LaunchInv'
  BY DEF Inv, LaunchInv, CreateTask
<1>5. ReceiptInv'
  BY DEF Inv, ReceiptInv, CreateTask
<1>6. WorkerInv'
  BY DEF Inv, WorkerInv, CreateTask
<1>7. ReconcilerInv'
  BY DEF Inv, ReconcilerInv, CreateTask
<1>8. MessageInv'
  BY ConstantsAssumption DEF Inv, MessageInv, CreateTask
<1>9. ManagerInv'
  BY DEF Inv, ManagerInv, CreateTask
<1>10. InterlockInv'
  BY DEF Inv, InterlockInv, CreateTask
<1>. QED
  BY <1>1, <1>2, <1>3, <1>4, <1>5, <1>6, <1>7, <1>8, <1>9, <1>10 DEF Inv

\* Only the throttle of a row changes.
LEMMA ThrottleExpiresStep ==
    ASSUME Inv, NEW j \in Jobs, ThrottleExpires(j)
    PROVE  Inv'
<1>1. TypeOK'
  BY ConstantsAssumption DEF Inv, ThrottleExpires, TypeOK, HandlerInv
<1>2. HandlerInv'
  BY ConstantsAssumption DEF Inv, ThrottleExpires, TypeOK, HandlerInv
<1>3. UnclaimedInv'
  BY ConstantsAssumption DEF Inv, UnclaimedInv, ThrottleExpires
<1>4. LaunchInv'
  BY DEF Inv, LaunchInv, ThrottleExpires
<1>5. ReceiptInv'
  BY DEF Inv, ReceiptInv, ThrottleExpires
<1>6. WorkerInv'
  BY DEF Inv, WorkerInv, ThrottleExpires
<1>7. ReconcilerInv'
  BY DEF Inv, ReconcilerInv, ThrottleExpires
<1>8. MessageInv'
  BY ConstantsAssumption DEF Inv, MessageInv, ThrottleExpires
<1>9. ManagerInv'
  BY DEF Inv, ManagerInv, ThrottleExpires
<1>10. InterlockInv'
  BY DEF Inv, InterlockInv, ThrottleExpires
<1>. QED
  BY <1>1, <1>2, <1>3, <1>4, <1>5, <1>6, <1>7, <1>8, <1>9, <1>10 DEF Inv

\* The process that is handed a dispatched job can only read its receipt.
LEMMA ClaimReconcileStep ==
    ASSUME Inv, NEW a \in Agents, NEW j \in Jobs, ClaimReconcile(a, j)
    PROVE  Inv'
<1>1. TypeOK'
  BY ConstantsAssumption DEF Inv, ReconcileDue, Receive, AnswerLost, Answer,
      ClaimReconcile, TypeOK, HandlerInv
<1>2. HandlerInv'
  BY ConstantsAssumption DEF Inv, ReconcileDue, Receive, AnswerLost, Answer,
      ClaimReconcile, TypeOK, HandlerInv
<1>3. UnclaimedInv'
  BY ConstantsAssumption DEF Inv, ReconcileDue, Receive, AnswerLost, Answer,
      ClaimReconcile, TypeOK, HandlerInv, UnclaimedInv
<1>4. LaunchInv'
  BY DEF Inv, ReconcileDue, Receive, AnswerLost, Answer, ClaimReconcile,
      TypeOK, HandlerInv, UnclaimedInv, LaunchInv
<1>5. ReceiptInv'
  BY DEF Inv, ReceiptInv, ReconcileDue, Receive, AnswerLost, Answer,
      ClaimReconcile
<1>6. WorkerInv'
  BY DEF Inv, WorkerInv, ReconcileDue, Receive, AnswerLost, Answer,
      ClaimReconcile
<1>7. ReconcilerInv'
  BY DEF Inv, ReconcileDue, Receive, AnswerLost, Answer, ClaimReconcile,
      TypeOK, HandlerInv, LaunchInv, ReceiptInv, WorkerInv, ReconcilerInv
<1>8. MessageInv'
  BY ConstantsAssumption DEF Inv, ReconcileDue, Receive, AnswerLost, Answer,
      ClaimReconcile, TypeOK, HandlerInv, UnclaimedInv, LaunchInv, ReceiptInv,
      WorkerInv, ReconcilerInv, MessageInv
<1>9. ManagerInv'
  BY DEF Inv, ReconcileDue, Receive, AnswerLost, Answer, ClaimReconcile,
      TypeOK, HandlerInv, UnclaimedInv, LaunchInv, ReceiptInv, WorkerInv,
      MessageInv, ManagerInv
<1>10. InterlockInv'
  BY DEF Inv, InterlockInv, ReconcileDue, Receive, AnswerLost, Answer,
      ClaimReconcile
<1>. QED
  BY <1>1, <1>2, <1>3, <1>4, <1>5, <1>6, <1>7, <1>8, <1>9, <1>10 DEF Inv

\* The claimed job was unclaimed, so this process is the only one launching it.
LEMMA ClaimDispatchStep ==
    ASSUME Inv, NEW a \in Agents, NEW j \in Jobs, ClaimDispatch(a, j)
    PROVE  Inv'
<1>1. TypeOK'
  BY ConstantsAssumption DEF Inv, ReconcileDue, DispatchDue, Receive,
      AnswerLost, Answer, ClaimDispatch, TypeOK, HandlerInv
<1>2. HandlerInv'
  BY ConstantsAssumption DEF Inv, ReconcileDue, DispatchDue, Receive,
      AnswerLost, Answer, ClaimDispatch, TypeOK, HandlerInv
<1>3. UnclaimedInv'
  BY ConstantsAssumption DEF Inv, ReconcileDue, DispatchDue, Receive,
      AnswerLost, Answer, ClaimDispatch, TypeOK, HandlerInv, UnclaimedInv
<1>4. LaunchInv'
  BY DEF Inv, ReconcileDue, DispatchDue, Receive, AnswerLost, Answer,
      ClaimDispatch, TypeOK, HandlerInv, UnclaimedInv, LaunchInv
<1>5. ReceiptInv'
  BY DEF Inv, ReceiptInv, ReconcileDue, DispatchDue, Receive, AnswerLost,
      Answer, ClaimDispatch
<1>6. WorkerInv'
  BY DEF Inv, WorkerInv, ReconcileDue, DispatchDue, Receive, AnswerLost,
      Answer, ClaimDispatch
<1>7. ReconcilerInv'
  BY DEF Inv, ReconcileDue, DispatchDue, Receive, AnswerLost, Answer,
      ClaimDispatch, TypeOK, HandlerInv, LaunchInv, ReceiptInv, WorkerInv,
      ReconcilerInv
<1>8. MessageInv'
  BY ConstantsAssumption DEF Inv, ReconcileDue, DispatchDue, Receive,
      AnswerLost, Answer, ClaimDispatch, TypeOK, HandlerInv, UnclaimedInv,
      LaunchInv, ReceiptInv, WorkerInv, ReconcilerInv, MessageInv
<1>9. ManagerInv'
  BY DEF Inv, ReconcileDue, DispatchDue, Receive, AnswerLost, Answer,
      ClaimDispatch, TypeOK, HandlerInv, UnclaimedInv, LaunchInv, ReceiptInv,
      WorkerInv, MessageInv, ManagerInv
<1>10. InterlockInv'
  BY DEF Inv, ReconcileDue, DispatchDue, Receive, AnswerLost, Answer,
      ClaimDispatch, TypeOK, InterlockInv
<1>. QED
  BY <1>1, <1>2, <1>3, <1>4, <1>5, <1>6, <1>7, <1>8, <1>9, <1>10 DEF Inv

\* A process with an ordinary task launches no job.
LEMMA ClaimTaskStep ==
    ASSUME Inv, NEW a \in Agents, NEW t \in Tasks, ClaimTask(a, t)
    PROVE  Inv'
<1>1. TypeOK'
  BY ConstantsAssumption DEF Inv, ReconcileDue, DispatchDue,
      PlatformUpdateActive, OpDue, ConfigDue, Receive, AnswerLost, Answer,
      ClaimTask, TypeOK, HandlerInv
<1>2. HandlerInv'
  BY ConstantsAssumption DEF Inv, ReconcileDue, DispatchDue,
      PlatformUpdateActive, OpDue, ConfigDue, Receive, AnswerLost, Answer,
      ClaimTask, TypeOK, HandlerInv
<1>3. UnclaimedInv'
  BY ConstantsAssumption DEF Inv, ReconcileDue, DispatchDue,
      PlatformUpdateActive, OpDue, ConfigDue, Receive, AnswerLost, Answer,
      ClaimTask, TypeOK, HandlerInv, UnclaimedInv
<1>4. LaunchInv'
  BY DEF Inv, ReconcileDue, DispatchDue, PlatformUpdateActive, OpDue,
      ConfigDue, Receive, AnswerLost, Answer, ClaimTask, TypeOK, HandlerInv,
      UnclaimedInv, LaunchInv
<1>5. ReceiptInv'
  BY DEF Inv, ReceiptInv, ReconcileDue, DispatchDue, PlatformUpdateActive,
      OpDue, ConfigDue, Receive, AnswerLost, Answer, ClaimTask
<1>6. WorkerInv'
  BY DEF Inv, WorkerInv, ReconcileDue, DispatchDue, PlatformUpdateActive,
      OpDue, ConfigDue, Receive, AnswerLost, Answer, ClaimTask
<1>7. ReconcilerInv'
  BY DEF Inv, ReconcileDue, DispatchDue, PlatformUpdateActive, OpDue,
      ConfigDue, Receive, AnswerLost, Answer, ClaimTask, TypeOK, HandlerInv,
      LaunchInv, ReceiptInv, WorkerInv, ReconcilerInv
<1>8. MessageInv'
  BY ConstantsAssumption DEF Inv, ReconcileDue, DispatchDue,
      PlatformUpdateActive, OpDue, ConfigDue, Receive, AnswerLost, Answer,
      ClaimTask, TypeOK, HandlerInv, UnclaimedInv, LaunchInv, ReceiptInv,
      WorkerInv, ReconcilerInv, MessageInv
<1>9. ManagerInv'
  BY DEF Inv, ReconcileDue, DispatchDue, PlatformUpdateActive, OpDue,
      ConfigDue, Receive, AnswerLost, Answer, ClaimTask, TypeOK, HandlerInv,
      UnclaimedInv, LaunchInv, ReceiptInv, WorkerInv, MessageInv, ManagerInv
<1>10. InterlockInv'
  BY DEF Inv, InterlockInv, ReconcileDue, DispatchDue, PlatformUpdateActive,
      OpDue, ConfigDue, Receive, AnswerLost, Answer, ClaimTask
<1>. QED
  BY <1>1, <1>2, <1>3, <1>4, <1>5, <1>6, <1>7, <1>8, <1>9, <1>10 DEF Inv

\* Closing an orphaned task touches no job.
LEMMA HeartbeatClosesOrphanStep ==
    ASSUME Inv, NEW a \in Agents, NEW t \in Tasks, HeartbeatClosesOrphan(a, t)
    PROVE  Inv'
<1>1. TypeOK'
  BY ConstantsAssumption DEF Inv, HeartbeatClosesOrphan, TypeOK, HandlerInv
<1>2. HandlerInv'
  BY ConstantsAssumption DEF Inv, HeartbeatClosesOrphan, TypeOK, HandlerInv
<1>3. UnclaimedInv'
  BY ConstantsAssumption DEF Inv, UnclaimedInv, HeartbeatClosesOrphan
<1>4. LaunchInv'
  BY DEF Inv, LaunchInv, HeartbeatClosesOrphan
<1>5. ReceiptInv'
  BY DEF Inv, ReceiptInv, HeartbeatClosesOrphan
<1>6. WorkerInv'
  BY DEF Inv, WorkerInv, HeartbeatClosesOrphan
<1>7. ReconcilerInv'
  BY DEF Inv, ReconcilerInv, HeartbeatClosesOrphan
<1>8. MessageInv'
  BY ConstantsAssumption DEF Inv, MessageInv, HeartbeatClosesOrphan
<1>9. ManagerInv'
  BY DEF Inv, ManagerInv, HeartbeatClosesOrphan
<1>10. InterlockInv'
  BY DEF Inv, InterlockInv, HeartbeatClosesOrphan
<1>. QED
  BY <1>1, <1>2, <1>3, <1>4, <1>5, <1>6, <1>7, <1>8, <1>9, <1>10 DEF Inv

\* The status that is stored is the evidence of a truthful completion.
LEMMA CompletePlatformUpdateStep ==
    ASSUME Inv, NEW m \in net, CompletePlatformUpdate(m)
    PROVE  Inv'
<1>1. TypeOK'
  BY ConstantsAssumption DEF Inv, Accepts, CompletedStatus, SetsDispatched,
      CompletePlatformUpdate, TypeOK, HandlerInv
<1>2. HandlerInv'
  BY ConstantsAssumption DEF Inv, Accepts, CompletedStatus, SetsDispatched,
      CompletePlatformUpdate, TypeOK, HandlerInv
<1>3. UnclaimedInv'
  BY ConstantsAssumption DEF Inv, Accepts, CompletedStatus, SetsDispatched,
      CompletePlatformUpdate, TypeOK, HandlerInv, UnclaimedInv
<1>4. LaunchInv'
  BY DEF Inv, LaunchInv, Accepts, CompletedStatus, SetsDispatched,
      CompletePlatformUpdate
<1>5. ReceiptInv'
  BY DEF Inv, ReceiptInv, Accepts, CompletedStatus, SetsDispatched,
      CompletePlatformUpdate
<1>6. WorkerInv'
  BY DEF Inv, WorkerInv, Accepts, CompletedStatus, SetsDispatched,
      CompletePlatformUpdate
<1>7. ReconcilerInv'
  BY DEF Inv, ReconcilerInv, Accepts, CompletedStatus, SetsDispatched,
      CompletePlatformUpdate
<1>8. MessageInv'
  BY ConstantsAssumption DEF Inv, Accepts, CompletedStatus, SetsDispatched,
      CompletePlatformUpdate, TypeOK, HandlerInv, UnclaimedInv, LaunchInv,
      ReceiptInv, WorkerInv, ReconcilerInv, MessageInv
<1>9. ManagerInv'
  BY DEF Inv, Accepts, CompletedStatus, SetsDispatched, CompletePlatformUpdate,
      TypeOK, HandlerInv, UnclaimedInv, LaunchInv, ReceiptInv, WorkerInv,
      MessageInv, ManagerInv
<1>10. InterlockInv'
  BY DEF Inv, Accepts, CompletedStatus, SetsDispatched, CompletePlatformUpdate,
      TypeOK, InterlockInv
<1>. QED
  BY <1>1, <1>2, <1>3, <1>4, <1>5, <1>6, <1>7, <1>8, <1>9, <1>10 DEF Inv

\* A completion of an ordinary task touches no job.
LEMMA CompleteTaskStep ==
    ASSUME Inv, NEW m \in net, CompleteTask(m)
    PROVE  Inv'
<1>1. TypeOK'
  BY ConstantsAssumption DEF Inv, CompleteTask, TypeOK, HandlerInv
<1>2. HandlerInv'
  BY ConstantsAssumption DEF Inv, CompleteTask, TypeOK, HandlerInv
<1>3. UnclaimedInv'
  BY ConstantsAssumption DEF Inv, CompleteTask, TypeOK, HandlerInv, UnclaimedInv
<1>4. LaunchInv'
  BY DEF Inv, LaunchInv, CompleteTask
<1>5. ReceiptInv'
  BY DEF Inv, ReceiptInv, CompleteTask
<1>6. WorkerInv'
  BY DEF Inv, WorkerInv, CompleteTask
<1>7. ReconcilerInv'
  BY DEF Inv, ReconcilerInv, CompleteTask
<1>8. MessageInv'
  BY ConstantsAssumption DEF Inv, CompleteTask, TypeOK, HandlerInv,
      UnclaimedInv, LaunchInv, ReceiptInv, WorkerInv, ReconcilerInv, MessageInv
<1>9. ManagerInv'
  BY DEF Inv, ManagerInv, CompleteTask
<1>10. InterlockInv'
  BY DEF Inv, InterlockInv, CompleteTask
<1>. QED
  BY <1>1, <1>2, <1>3, <1>4, <1>5, <1>6, <1>7, <1>8, <1>9, <1>10 DEF Inv

\* Without prior state the process goes on alone; a failure here launches nothing.
LEMMA DispatchPriorStep ==
    ASSUME Inv, NEW a \in Agents, DispatchPrior(a)
    PROVE  Inv'
<1>j. cur[a] \in Jobs
  BY DEF Inv, HandlerInv, DispatchPrior
<1>e. \/ net' = net /\ (Idle(a) \/ Go(a, "prepare"))
      \/ net' = net \cup {[id |-> cur[a], envelope |-> "failed", evidence |-> "failed"]} /\ Idle(a)
  BY DEF DispatchPrior, PostPreDispatchFailed, Post
<1>p. pc[a] = "prior" /\ UNCHANGED <<manager, receipt, host, faults>>
  BY DEF DispatchPrior
<1>1. TypeOK'
  BY <1>j, <1>e, <1>p, HandlerType DEF Inv, TypeOK
<1>2. HandlerInv'
  BY ConstantsAssumption, <1>j, <1>e, <1>p DEF Inv, Go, Idle, TypeOK, HandlerInv
<1>3. UnclaimedInv'
  BY ConstantsAssumption, <1>j, <1>e, <1>p DEF Inv, Go, Idle, TypeOK,
      HandlerInv, UnclaimedInv
<1>4. LaunchInv'
  BY <1>j, <1>e, <1>p DEF Inv, Go, Idle, TypeOK, HandlerInv, UnclaimedInv,
      LaunchInv
<1>5. ReceiptInv'
  BY <1>j, <1>e, <1>p DEF Inv, ReceiptInv, Go, Idle
<1>6. WorkerInv'
  BY <1>j, <1>e, <1>p DEF Inv, WorkerInv, Go, Idle
<1>7. ReconcilerInv'
  BY <1>j, <1>e, <1>p DEF Inv, Go, Idle, TypeOK, HandlerInv, LaunchInv,
      ReceiptInv, WorkerInv, ReconcilerInv
<1>8. MessageInv'
  BY ConstantsAssumption, <1>j, <1>e, <1>p DEF Inv, Go, Idle, TypeOK,
      HandlerInv, UnclaimedInv, LaunchInv, ReceiptInv, WorkerInv,
      ReconcilerInv, MessageInv
<1>9. ManagerInv'
  BY <1>j, <1>e, <1>p DEF Inv, Go, Idle, TypeOK, HandlerInv, UnclaimedInv,
      LaunchInv, ReceiptInv, WorkerInv, MessageInv, ManagerInv
<1>10. InterlockInv'
  BY <1>j, <1>e, <1>p DEF Inv, InterlockInv, Go, Idle
<1>. QED
  BY <1>1, <1>2, <1>3, <1>4, <1>5, <1>6, <1>7, <1>8, <1>9, <1>10 DEF Inv

\* The receipt is linked only where there was none, by the one that launches.
LEMMA DispatchPrepareStep ==
    ASSUME Inv, NEW a \in Agents, DispatchPrepare(a)
    PROVE  Inv'
<1>j. cur[a] \in Jobs
  BY DEF Inv, HandlerInv, DispatchPrepare
<1>e. \/ phase[cur[a]] = "none" /\ phase' = [phase EXCEPT ![cur[a]] = "prepared"] /\ Go(a, "probe")
      \/ phase' = phase /\ Idle(a)
  BY DEF DispatchPrepare
<1>p. pc[a] = "prepare" /\ UNCHANGED <<manager, started, host, net, faults>>
  BY DEF DispatchPrepare
<1>1. TypeOK'
  BY <1>j, <1>e, <1>p, HandlerType DEF Inv, TypeOK
<1>2. HandlerInv'
  BY ConstantsAssumption, <1>j, <1>e, <1>p DEF Inv, Go, Idle, TypeOK, HandlerInv
<1>3. UnclaimedInv'
  BY ConstantsAssumption, <1>j, <1>e, <1>p DEF Inv, Go, Idle, TypeOK,
      HandlerInv, UnclaimedInv
<1>4. LaunchInv'
  BY <1>j, <1>e, <1>p DEF Inv, Go, Idle, TypeOK, HandlerInv, UnclaimedInv,
      LaunchInv
<1>5. ReceiptInv'
  BY <1>j, <1>e, <1>p DEF Inv, Go, Idle, TypeOK, HandlerInv, ReceiptInv,
      WorkerInv
<1>6. WorkerInv'
  BY <1>j, <1>e, <1>p DEF Inv, Go, Idle, TypeOK, HandlerInv, LaunchInv,
      ReceiptInv, WorkerInv, ReconcilerInv
<1>7. ReconcilerInv'
  BY <1>j, <1>e, <1>p DEF Inv, Go, Idle, TypeOK, HandlerInv, LaunchInv,
      ReceiptInv, WorkerInv, ReconcilerInv
<1>8. MessageInv'
  BY ConstantsAssumption, <1>j, <1>e, <1>p DEF Inv, Go, Idle, TypeOK,
      HandlerInv, UnclaimedInv, LaunchInv, ReceiptInv, WorkerInv,
      ReconcilerInv, MessageInv
<1>9. ManagerInv'
  BY <1>j, <1>e, <1>p DEF Inv, Go, Idle, TypeOK, HandlerInv, UnclaimedInv,
      LaunchInv, ReceiptInv, WorkerInv, MessageInv, ManagerInv
<1>10. InterlockInv'
  BY <1>j, <1>e, <1>p DEF Inv, InterlockInv, Go, Idle
<1>. QED
  BY <1>1, <1>2, <1>3, <1>4, <1>5, <1>6, <1>7, <1>8, <1>9, <1>10 DEF Inv

\* The reported or unreported failure of a dispatch before systemd-run.
LEMMA DispatchFailsStep ==
    ASSUME Inv, NEW a \in Agents, pc[a] \in LaunchPcs, DispatchFails(a),
           UNCHANGED <<manager, host, faults>>
    PROVE  Inv'
<1>j. cur[a] \in Jobs
  BY DEF Inv, HandlerInv, DispatchFails
<1>e. /\ started' = started
      /\ \/ /\ phase[cur[a]] = "prepared"
            /\ phase' = [phase EXCEPT ![cur[a]] = "failed"]
            /\ net' = net \cup {[id |-> cur[a], envelope |-> "failed", evidence |-> "failed"]}
         \/ phase' = phase /\ net' = net
  BY <1>j, PreDispatchFailedEffect DEF Inv, DispatchFails, PostPreDispatchFailed, Post
<1>i. Idle(a)
  BY DEF DispatchFails, PostPreDispatchFailed
<1>1. TypeOK'
  BY ConstantsAssumption, <1>j, <1>e, <1>i DEF Inv, Idle, TypeOK, HandlerInv
<1>2. HandlerInv'
  BY ConstantsAssumption, <1>j, <1>e, <1>i DEF Inv, Idle, TypeOK, HandlerInv
<1>3. UnclaimedInv'
  BY ConstantsAssumption, <1>j, <1>e, <1>i DEF Inv, Idle, TypeOK, HandlerInv,
      UnclaimedInv
<1>4. LaunchInv'
  BY <1>j, <1>e, <1>i DEF Inv, Idle, TypeOK, HandlerInv, UnclaimedInv, LaunchInv
<1>5. ReceiptInv'
  BY <1>j, <1>e, <1>i DEF Inv, Idle, TypeOK, HandlerInv, ReceiptInv, WorkerInv
<1>6. WorkerInv'
  BY <1>j, <1>e, <1>i DEF Inv, Idle, TypeOK, HandlerInv, LaunchInv, ReceiptInv,
      WorkerInv, ReconcilerInv
<1>7. ReconcilerInv'
  BY <1>j, <1>e, <1>i DEF Inv, Idle, TypeOK, HandlerInv, LaunchInv, ReceiptInv,
      WorkerInv, ReconcilerInv
<1>8. MessageInv'
  BY ConstantsAssumption, <1>j, <1>e, <1>i DEF Inv, Idle, TypeOK, HandlerInv,
      UnclaimedInv, LaunchInv, ReceiptInv, WorkerInv, ReconcilerInv, MessageInv
<1>9. ManagerInv'
  BY <1>j, <1>e, <1>i DEF Inv, Idle, TypeOK, HandlerInv, UnclaimedInv,
      LaunchInv, ReceiptInv, WorkerInv, MessageInv, ManagerInv
<1>10. InterlockInv'
  BY <1>j, <1>e, <1>i DEF Inv, InterlockInv, Idle
<1>. QED
  BY <1>1, <1>2, <1>3, <1>4, <1>5, <1>6, <1>7, <1>8, <1>9, <1>10 DEF Inv

\* A failure closes the receipt before it is reported.
LEMMA DispatchProbeStep ==
    ASSUME Inv, NEW a \in Agents, DispatchProbe(a)
    PROVE  Inv'
<1>1. CASE DispatchFails(a)
  BY <1>1, DispatchFailsStep DEF DispatchProbe
<1>2. CASE Go(a, "accept") /\ UNCHANGED <<receipt, net>>
  <2>1. TypeOK'
    BY ConstantsAssumption, <1>2 DEF Inv, DispatchProbe, Go, TypeOK, HandlerInv
  <2>2. HandlerInv'
    BY ConstantsAssumption, <1>2 DEF Inv, DispatchProbe, Go, TypeOK, HandlerInv
  <2>3. UnclaimedInv'
    BY ConstantsAssumption, <1>2 DEF Inv, UnclaimedInv, DispatchProbe, Go
  <2>4. LaunchInv'
    BY <1>2 DEF Inv, DispatchProbe, Go, TypeOK, HandlerInv, UnclaimedInv, LaunchInv
  <2>5. ReceiptInv'
    BY <1>2 DEF Inv, ReceiptInv, DispatchProbe, Go
  <2>6. WorkerInv'
    BY <1>2 DEF Inv, WorkerInv, DispatchProbe, Go
  <2>7. ReconcilerInv'
    BY <1>2 DEF Inv, DispatchProbe, Go, TypeOK, HandlerInv, LaunchInv, ReceiptInv, WorkerInv,
        ReconcilerInv
  <2>8. MessageInv'
    BY ConstantsAssumption, <1>2 DEF Inv, DispatchProbe, Go, TypeOK, HandlerInv, UnclaimedInv,
        LaunchInv, ReceiptInv, WorkerInv, ReconcilerInv, MessageInv
  <2>9. ManagerInv'
    BY <1>2 DEF Inv, DispatchProbe, Go, TypeOK, HandlerInv, UnclaimedInv, LaunchInv,
        ReceiptInv, WorkerInv, MessageInv, ManagerInv
  <2>10. InterlockInv'
    BY <1>2 DEF Inv, InterlockInv, DispatchProbe, Go
  <2>. QED
    BY <2>1, <2>2, <2>3, <2>4, <2>5, <2>6, <2>7, <2>8, <2>9, <2>10 DEF Inv
<1>. QED
  BY <1>1, <1>2 DEF DispatchProbe

\* The receipt is still prepared, or is closed without evidence.
LEMMA DispatchAcceptStep ==
    ASSUME Inv, NEW a \in Agents, DispatchAccept(a)
    PROVE  Inv'
<1>j. cur[a] \in Jobs
  BY DEF Inv, HandlerInv, DispatchAccept
<1>e. UNCHANGED receipt
  <2>1. phase[cur[a]] # "mutation_started"
    BY <1>j DEF Inv, LaunchInv, WorkerInv, ReceiptInv, DispatchAccept
  <2>. QED
    BY <1>j, <2>1, AcceptPreparedEffect DEF Inv, DispatchAccept
<1>g. Idle(a) \/ Go(a, "stage")
  BY DEF DispatchAccept
<1>p. pc[a] \in LaunchPcs /\ UNCHANGED <<manager, host, net, faults>>
  BY DEF DispatchAccept
<1>1. TypeOK'
  BY <1>e, <1>g, <1>p, HandlerType DEF Inv, TypeOK
<1>2. HandlerInv'
  BY ConstantsAssumption, <1>j, <1>e, <1>g, <1>p DEF Inv, Go, Idle, TypeOK,
      HandlerInv
<1>3. UnclaimedInv'
  BY ConstantsAssumption, <1>j, <1>e, <1>g, <1>p DEF Inv, Go, Idle, TypeOK,
      HandlerInv, UnclaimedInv
<1>4. LaunchInv'
  BY <1>j, <1>e, <1>g, <1>p DEF Inv, Go, Idle, TypeOK, HandlerInv,
      UnclaimedInv, LaunchInv
<1>5. ReceiptInv'
  BY <1>j, <1>e, <1>g, <1>p DEF Inv, Go, Idle, TypeOK, HandlerInv, ReceiptInv,
      WorkerInv
<1>6. WorkerInv'
  BY <1>j, <1>e, <1>g, <1>p DEF Inv, Go, Idle, TypeOK, HandlerInv, LaunchInv,
      ReceiptInv, WorkerInv, ReconcilerInv
<1>7. ReconcilerInv'
  BY <1>j, <1>e, <1>g, <1>p DEF Inv, Go, Idle, TypeOK, HandlerInv, LaunchInv,
      ReceiptInv, WorkerInv, ReconcilerInv
<1>8. MessageInv'
  BY ConstantsAssumption, <1>j, <1>e, <1>g, <1>p DEF Inv, Go, Idle, TypeOK,
      HandlerInv, UnclaimedInv, LaunchInv, ReceiptInv, WorkerInv,
      ReconcilerInv, MessageInv
<1>9. ManagerInv'
  BY <1>j, <1>e, <1>g, <1>p DEF Inv, Go, Idle, TypeOK, HandlerInv,
      UnclaimedInv, LaunchInv, ReceiptInv, WorkerInv, MessageInv, ManagerInv
<1>10. InterlockInv'
  BY <1>j, <1>e, <1>g, <1>p DEF Inv, InterlockInv, Go, Idle
<1>. QED
  BY <1>1, <1>2, <1>3, <1>4, <1>5, <1>6, <1>7, <1>8, <1>9, <1>10 DEF Inv

\* Staging changes no receipt; its failure closes one.
LEMMA DispatchStageStep ==
    ASSUME Inv, NEW a \in Agents, DispatchStage(a)
    PROVE  Inv'
<1>1. CASE DispatchFails(a) /\ UNCHANGED staged
  BY <1>1, DispatchFailsStep DEF DispatchStage
<1>2. CASE /\ staged' = [staged EXCEPT ![cur[a]] = TRUE]
           /\ Go(a, "reaccept")
           /\ UNCHANGED <<receipt, net>>
  <2>1. TypeOK'
    BY ConstantsAssumption, <1>2 DEF Inv, DispatchStage, Go, TypeOK, HandlerInv
  <2>2. HandlerInv'
    BY ConstantsAssumption, <1>2 DEF Inv, DispatchStage, Go, TypeOK, HandlerInv
  <2>3. UnclaimedInv'
    BY ConstantsAssumption, <1>2 DEF Inv, UnclaimedInv, DispatchStage, Go
  <2>4. LaunchInv'
    BY <1>2 DEF Inv, DispatchStage, Go, TypeOK, HandlerInv, UnclaimedInv, LaunchInv
  <2>5. ReceiptInv'
    BY <1>2 DEF Inv, ReceiptInv, DispatchStage, Go
  <2>6. WorkerInv'
    BY <1>2 DEF Inv, WorkerInv, DispatchStage, Go
  <2>7. ReconcilerInv'
    BY <1>2 DEF Inv, DispatchStage, Go, TypeOK, HandlerInv, LaunchInv, ReceiptInv, WorkerInv,
        ReconcilerInv
  <2>8. MessageInv'
    BY ConstantsAssumption, <1>2 DEF Inv, DispatchStage, Go, TypeOK, HandlerInv, UnclaimedInv,
        LaunchInv, ReceiptInv, WorkerInv, ReconcilerInv, MessageInv
  <2>9. ManagerInv'
    BY <1>2 DEF Inv, DispatchStage, Go, TypeOK, HandlerInv, UnclaimedInv, LaunchInv,
        ReceiptInv, WorkerInv, MessageInv, ManagerInv
  <2>10. InterlockInv'
    BY <1>2 DEF Inv, InterlockInv, DispatchStage, Go
  <2>. QED
    BY <2>1, <2>2, <2>3, <2>4, <2>5, <2>6, <2>7, <2>8, <2>9, <2>10 DEF Inv
<1>. QED
  BY <1>1, <1>2 DEF DispatchStage

\* As before staging: prepared, or closed without evidence.
LEMMA DispatchReacceptStep ==
    ASSUME Inv, NEW a \in Agents, DispatchReaccept(a)
    PROVE  Inv'
<1>j. cur[a] \in Jobs
  BY DEF Inv, HandlerInv, DispatchReaccept
<1>e. UNCHANGED receipt
  <2>1. phase[cur[a]] # "mutation_started"
    BY <1>j DEF Inv, LaunchInv, WorkerInv, ReceiptInv, DispatchReaccept
  <2>. QED
    BY <1>j, <2>1, AcceptPreparedEffect DEF Inv, DispatchReaccept
<1>g. Idle(a) \/ Go(a, "spawn")
  BY DEF DispatchReaccept
<1>p. pc[a] \in LaunchPcs /\ UNCHANGED <<manager, host, net, faults>>
  BY DEF DispatchReaccept
<1>1. TypeOK'
  BY <1>e, <1>g, <1>p, HandlerType DEF Inv, TypeOK
<1>2. HandlerInv'
  BY ConstantsAssumption, <1>j, <1>e, <1>g, <1>p DEF Inv, Go, Idle, TypeOK,
      HandlerInv
<1>3. UnclaimedInv'
  BY ConstantsAssumption, <1>j, <1>e, <1>g, <1>p DEF Inv, Go, Idle, TypeOK,
      HandlerInv, UnclaimedInv
<1>4. LaunchInv'
  BY <1>j, <1>e, <1>g, <1>p DEF Inv, Go, Idle, TypeOK, HandlerInv,
      UnclaimedInv, LaunchInv
<1>5. ReceiptInv'
  BY <1>j, <1>e, <1>g, <1>p DEF Inv, Go, Idle, TypeOK, HandlerInv, ReceiptInv,
      WorkerInv
<1>6. WorkerInv'
  BY <1>j, <1>e, <1>g, <1>p DEF Inv, Go, Idle, TypeOK, HandlerInv, LaunchInv,
      ReceiptInv, WorkerInv, ReconcilerInv
<1>7. ReconcilerInv'
  BY <1>j, <1>e, <1>g, <1>p DEF Inv, Go, Idle, TypeOK, HandlerInv, LaunchInv,
      ReceiptInv, WorkerInv, ReconcilerInv
<1>8. MessageInv'
  BY ConstantsAssumption, <1>j, <1>e, <1>g, <1>p DEF Inv, Go, Idle, TypeOK,
      HandlerInv, UnclaimedInv, LaunchInv, ReceiptInv, WorkerInv,
      ReconcilerInv, MessageInv
<1>9. ManagerInv'
  BY <1>j, <1>e, <1>g, <1>p DEF Inv, Go, Idle, TypeOK, HandlerInv,
      UnclaimedInv, LaunchInv, ReceiptInv, WorkerInv, MessageInv, ManagerInv
<1>10. InterlockInv'
  BY <1>j, <1>e, <1>g, <1>p DEF Inv, InterlockInv, Go, Idle
<1>. QED
  BY <1>1, <1>2, <1>3, <1>4, <1>5, <1>6, <1>7, <1>8, <1>9, <1>10 DEF Inv

\* The unit is created once; a failure before that closes the receipt.
LEMMA DispatchSpawnStep ==
    ASSUME Inv, NEW a \in Agents, DispatchSpawn(a)
    PROVE  Inv'
<1>j. cur[a] \in Jobs
  BY DEF Inv, HandlerInv, DispatchSpawn
<1>e. /\ started' = started
      /\ \/ /\ \/ phase[cur[a]] = "prepared" /\ phase' = [phase EXCEPT ![cur[a]] = "failed"]
               \/ phase' = phase
            /\ net' = net \cup {[id |-> cur[a], envelope |-> "failed", evidence |-> "failed"]}
            /\ unit' = unit
            /\ Idle(a)
         \/ /\ unit' = [unit EXCEPT ![cur[a]] = "queued"]
            /\ Go(a, "ack") \/ Idle(a)
            /\ phase' = phase /\ net' = net
         \/ Idle(a) /\ unit' = unit /\ phase' = phase /\ net' = net
  BY <1>j, PreDispatchFailedEffect DEF Inv, DispatchSpawn, PostPreDispatchFailed, Post
<1>p. pc[a] = "spawn" /\ UNCHANGED <<manager, staged, effect, launches, faults>>
  BY DEF DispatchSpawn
<1>1. TypeOK'
  BY <1>j, <1>e, <1>p, HandlerType DEF Inv, TypeOK
<1>2. HandlerInv'
  BY ConstantsAssumption, <1>j, <1>e, <1>p DEF Inv, Go, Idle, TypeOK, HandlerInv
<1>3. UnclaimedInv'
  BY ConstantsAssumption, <1>j, <1>e, <1>p DEF Inv, Go, Idle, TypeOK,
      HandlerInv, UnclaimedInv
<1>4. LaunchInv'
  BY <1>j, <1>e, <1>p DEF Inv, Go, Idle, TypeOK, HandlerInv, UnclaimedInv,
      LaunchInv
<1>5. ReceiptInv'
  BY <1>j, <1>e, <1>p DEF Inv, Go, Idle, TypeOK, HandlerInv, ReceiptInv,
      WorkerInv
<1>6. WorkerInv'
  BY <1>j, <1>e, <1>p DEF Inv, Go, Idle, TypeOK, HandlerInv, LaunchInv,
      ReceiptInv, WorkerInv, ReconcilerInv
<1>7. ReconcilerInv'
  BY <1>j, <1>e, <1>p DEF Inv, Go, Idle, TypeOK, HandlerInv, LaunchInv,
      ReceiptInv, WorkerInv, ReconcilerInv
<1>8. MessageInv'
  BY ConstantsAssumption, <1>j, <1>e, <1>p DEF Inv, Go, Idle, TypeOK,
      HandlerInv, UnclaimedInv, LaunchInv, ReceiptInv, WorkerInv,
      ReconcilerInv, MessageInv
<1>9. ManagerInv'
  BY <1>j, <1>e, <1>p DEF Inv, Go, Idle, TypeOK, HandlerInv, UnclaimedInv,
      LaunchInv, ReceiptInv, WorkerInv, MessageInv, ManagerInv
<1>10. InterlockInv'
  BY <1>j, <1>e, <1>p DEF Inv, InterlockInv, Go, Idle
<1>. QED
  BY <1>1, <1>2, <1>3, <1>4, <1>5, <1>6, <1>7, <1>8, <1>9, <1>10 DEF Inv

\* The acknowledgement claims no final evidence.
LEMMA DispatchAckStep ==
    ASSUME Inv, NEW a \in Agents, DispatchAck(a)
    PROVE  Inv'
<1>1. TypeOK'
  BY ConstantsAssumption DEF Inv, Idle, Post, DispatchAck, TypeOK, HandlerInv
<1>2. HandlerInv'
  BY ConstantsAssumption DEF Inv, Idle, Post, DispatchAck, TypeOK, HandlerInv
<1>3. UnclaimedInv'
  BY ConstantsAssumption DEF Inv, Idle, Post, DispatchAck, TypeOK, HandlerInv,
      UnclaimedInv
<1>4. LaunchInv'
  BY DEF Inv, Idle, Post, DispatchAck, TypeOK, HandlerInv, UnclaimedInv,
      LaunchInv
<1>5. ReceiptInv'
  BY DEF Inv, ReceiptInv, Idle, Post, DispatchAck
<1>6. WorkerInv'
  BY DEF Inv, WorkerInv, Idle, Post, DispatchAck
<1>7. ReconcilerInv'
  BY DEF Inv, Idle, Post, DispatchAck, TypeOK, HandlerInv, LaunchInv,
      ReceiptInv, WorkerInv, ReconcilerInv
<1>8. MessageInv'
  BY ConstantsAssumption DEF Inv, Idle, Post, DispatchAck, TypeOK, HandlerInv,
      UnclaimedInv, LaunchInv, ReceiptInv, WorkerInv, ReconcilerInv, MessageInv
<1>9. ManagerInv'
  BY DEF Inv, Idle, Post, DispatchAck, TypeOK, HandlerInv, UnclaimedInv,
      LaunchInv, ReceiptInv, WorkerInv, MessageInv, ManagerInv
<1>10. InterlockInv'
  BY DEF Inv, InterlockInv, Idle, Post, DispatchAck
<1>. QED
  BY <1>1, <1>2, <1>3, <1>4, <1>5, <1>6, <1>7, <1>8, <1>9, <1>10 DEF Inv

\* What is reported is the final phase of the receipt.
LEMMA ReconcileReadStep ==
    ASSUME Inv, NEW a \in Agents, ReconcileRead(a)
    PROVE  Inv'
<1>j. cur[a] \in Jobs
  BY DEF Inv, HandlerInv, ReconcileRead
<1>e. \/ net' = net /\ Idle(a)
      \/ /\ phase[cur[a]] \in FinalPhases
         /\ net' = net \cup {[id |-> cur[a], envelope |-> "succeeded", evidence |-> phase[cur[a]]]}
         /\ Idle(a)
      \/ /\ phase[cur[a]] = "failed" /\ ~started[cur[a]]
         /\ net' = net \cup {[id |-> cur[a], envelope |-> "failed", evidence |-> "failed"]}
         /\ Idle(a)
      \/ /\ net' = net
         /\ pc' = [pc EXCEPT ![a] = "check"]
         /\ seen' = [seen EXCEPT ![a] = started[cur[a]]]
         /\ UNCHANGED <<cur, mstatus>>
  BY DEF ReconcileRead, Report, FailureEnvelope, Post
<1>p. pc[a] = "read" /\ UNCHANGED <<manager, receipt, host, faults>>
  BY DEF ReconcileRead
<1>1. TypeOK'
  <2>1. CASE Idle(a)
    BY <1>j, <1>e, <1>p, <2>1, HandlerType DEF Inv, TypeOK
  <2>2. CASE net' = net /\ ~Idle(a)
    BY <1>j, <1>e, <1>p, <2>2 DEF Inv, TypeOK
  <2>. QED
    BY <1>e, <2>1, <2>2
<1>2. HandlerInv'
  BY ConstantsAssumption, <1>j, <1>e, <1>p DEF Inv, Idle, TypeOK, HandlerInv
<1>3. UnclaimedInv'
  BY ConstantsAssumption, <1>j, <1>e, <1>p DEF Inv, Idle, TypeOK, HandlerInv,
      UnclaimedInv
<1>4. LaunchInv'
  BY <1>j, <1>e, <1>p DEF Inv, Idle, TypeOK, HandlerInv, UnclaimedInv, LaunchInv
<1>5. ReceiptInv'
  BY <1>j, <1>e, <1>p DEF Inv, ReceiptInv, Idle
<1>6. WorkerInv'
  BY <1>j, <1>e, <1>p DEF Inv, WorkerInv, Idle
<1>7. ReconcilerInv'
  BY <1>j, <1>e, <1>p DEF Inv, Idle, TypeOK, HandlerInv, LaunchInv, ReceiptInv,
      WorkerInv, ReconcilerInv
<1>8. MessageInv'
  BY ConstantsAssumption, <1>j, <1>e, <1>p DEF Inv, Idle, TypeOK, HandlerInv,
      UnclaimedInv, LaunchInv, ReceiptInv, WorkerInv, ReconcilerInv, MessageInv
<1>9. ManagerInv'
  BY <1>j, <1>e, <1>p DEF Inv, Idle, TypeOK, HandlerInv, UnclaimedInv,
      LaunchInv, ReceiptInv, WorkerInv, MessageInv, ManagerInv
<1>10. InterlockInv'
  BY <1>j, <1>e, <1>p DEF Inv, InterlockInv, Idle
<1>. QED
  BY <1>1, <1>2, <1>3, <1>4, <1>5, <1>6, <1>7, <1>8, <1>9, <1>10 DEF Inv

\* A job whose worker runs is reported pending; otherwise its unit is gone.
LEMMA ReconcileCheckStep ==
    ASSUME Inv, NEW a \in Agents, ReconcileCheck(a)
    PROVE  Inv'
<1>j. cur[a] \in Jobs
  BY DEF Inv, HandlerInv, ReconcileCheck
<1>e. \/ /\ net' = net \cup {[id |-> cur[a], envelope |-> "succeeded", evidence |-> "pending"]}
         /\ Idle(a)
      \/ ~WorkerActive(cur[a]) /\ Go(a, "mark") /\ net' = net
  BY DEF ReconcileCheck, Report, FailureEnvelope, Post
<1>p. pc[a] = "check" /\ UNCHANGED <<manager, receipt, host, faults>>
  BY DEF ReconcileCheck
<1>l. \A b \in Agents, k \in Jobs : Launching(b, k)' <=> Launching(b, k)
  BY <1>e, <1>p DEF Inv, TypeOK, Idle, Go
<1>1. TypeOK'
  BY <1>j, <1>e, <1>p, HandlerType DEF Inv, TypeOK
<1>2. HandlerInv'
  BY ConstantsAssumption, <1>j, <1>e, <1>p DEF Inv, Go, Idle, WorkerActive,
      TypeOK, HandlerInv
<1>3. UnclaimedInv'
  BY ConstantsAssumption, <1>j, <1>e, <1>p DEF Inv, Go, Idle, WorkerActive,
      TypeOK, HandlerInv, UnclaimedInv
<1>4. LaunchInv'
  BY <1>p, <1>l DEF Inv, LaunchInv
<1>5. ReceiptInv'
  BY <1>j, <1>e, <1>p DEF Inv, ReceiptInv, Go, Idle, WorkerActive
<1>6. WorkerInv'
  BY <1>j, <1>e, <1>p DEF Inv, WorkerInv, Go, Idle, WorkerActive
<1>7. ReconcilerInv'
  BY <1>j, <1>e, <1>p DEF Inv, Go, Idle, WorkerActive, TypeOK, HandlerInv,
      LaunchInv, ReceiptInv, WorkerInv, ReconcilerInv
<1>8. MessageInv'
  <2>1. \A k \in Jobs : NoLaunch(k)' <=> NoLaunch(k)
    BY <1>p, <1>l
  <2>2. \A m \in net' : m \in net \/ (m.evidence = "pending" /\ m.envelope = "succeeded")
    BY <1>e
  <2>. QED
    BY <1>p, <2>1, <2>2 DEF Inv, MessageInv
<1>9. ManagerInv'
  <2>1. \A k \in Jobs : NoLaunch(k)' <=> NoLaunch(k)
    BY <1>p, <1>l
  <2>. QED
    BY <1>p, <2>1 DEF Inv, ManagerInv
<1>10. InterlockInv'
  BY <1>j, <1>e, <1>p DEF Inv, InterlockInv, Go, Idle, WorkerActive
<1>. QED
  BY <1>1, <1>2, <1>3, <1>4, <1>5, <1>6, <1>7, <1>8, <1>9, <1>10 DEF Inv

\* The verdict agrees with the mutation evidence, which cannot have changed since.
LEMMA ReconcileMarkStep ==
    ASSUME Inv, NEW a \in Agents, ReconcileMark(a)
    PROVE  Inv'
<1>1. TypeOK'
  BY ConstantsAssumption DEF Inv, AllowedTransition, TransitionOk, Transition,
      Idle, Post, FailureEnvelope, Report, ReconcileMark, TypeOK, HandlerInv
<1>2. HandlerInv'
  BY ConstantsAssumption DEF Inv, AllowedTransition, TransitionOk, Transition,
      Idle, Post, FailureEnvelope, Report, ReconcileMark, TypeOK, HandlerInv
<1>3. UnclaimedInv'
  BY ConstantsAssumption DEF Inv, AllowedTransition, TransitionOk, Transition,
      Idle, Post, FailureEnvelope, Report, ReconcileMark, TypeOK, HandlerInv,
      UnclaimedInv
<1>4. LaunchInv'
  BY DEF Inv, AllowedTransition, TransitionOk, Transition, Idle, Post,
      FailureEnvelope, Report, ReconcileMark, TypeOK, HandlerInv, UnclaimedInv,
      LaunchInv
<1>5. ReceiptInv'
  BY DEF Inv, AllowedTransition, TransitionOk, Transition, Idle, Post,
      FailureEnvelope, Report, ReconcileMark, TypeOK, HandlerInv, ReceiptInv,
      WorkerInv
<1>6. WorkerInv'
  BY DEF Inv, AllowedTransition, TransitionOk, Transition, Idle, Post,
      FailureEnvelope, Report, ReconcileMark, TypeOK, HandlerInv, LaunchInv,
      ReceiptInv, WorkerInv, ReconcilerInv
<1>7. ReconcilerInv'
  BY DEF Inv, AllowedTransition, TransitionOk, Transition, Idle, Post,
      FailureEnvelope, Report, ReconcileMark, TypeOK, HandlerInv, LaunchInv,
      ReceiptInv, WorkerInv, ReconcilerInv
<1>8. MessageInv'
  BY ConstantsAssumption DEF Inv, AllowedTransition, TransitionOk, Transition,
      Idle, Post, FailureEnvelope, Report, ReconcileMark, TypeOK, HandlerInv,
      UnclaimedInv, LaunchInv, ReceiptInv, WorkerInv, ReconcilerInv, MessageInv
<1>9. ManagerInv'
  BY DEF Inv, AllowedTransition, TransitionOk, Transition, Idle, Post,
      FailureEnvelope, Report, ReconcileMark, TypeOK, HandlerInv, UnclaimedInv,
      LaunchInv, ReceiptInv, WorkerInv, MessageInv, ManagerInv
<1>10. InterlockInv'
  BY DEF Inv, InterlockInv, Idle, Post, FailureEnvelope, Report, ReconcileMark
<1>. QED
  BY <1>1, <1>2, <1>3, <1>4, <1>5, <1>6, <1>7, <1>8, <1>9, <1>10 DEF Inv

\* The result of an ordinary task concerns no job.
LEMMA ExecuteTaskStep ==
    ASSUME Inv, NEW a \in Agents, ExecuteTask(a)
    PROVE  Inv'
<1>1. TypeOK'
  BY ConstantsAssumption DEF Inv, Idle, Post, ExecuteTask, TypeOK, HandlerInv
<1>2. HandlerInv'
  BY ConstantsAssumption DEF Inv, Idle, Post, ExecuteTask, TypeOK, HandlerInv
<1>3. UnclaimedInv'
  BY ConstantsAssumption DEF Inv, Idle, Post, ExecuteTask, TypeOK, HandlerInv,
      UnclaimedInv
<1>4. LaunchInv'
  BY DEF Inv, Idle, Post, ExecuteTask, TypeOK, HandlerInv, UnclaimedInv,
      LaunchInv
<1>5. ReceiptInv'
  BY DEF Inv, ReceiptInv, Idle, Post, ExecuteTask
<1>6. WorkerInv'
  BY DEF Inv, WorkerInv, Idle, Post, ExecuteTask
<1>7. ReconcilerInv'
  BY DEF Inv, Idle, Post, ExecuteTask, TypeOK, HandlerInv, LaunchInv,
      ReceiptInv, WorkerInv, ReconcilerInv
<1>8. MessageInv'
  BY ConstantsAssumption DEF Inv, Idle, Post, ExecuteTask, TypeOK, HandlerInv,
      UnclaimedInv, LaunchInv, ReceiptInv, WorkerInv, ReconcilerInv, MessageInv
<1>9. ManagerInv'
  BY DEF Inv, Idle, Post, ExecuteTask, TypeOK, HandlerInv, UnclaimedInv,
      LaunchInv, ReceiptInv, WorkerInv, MessageInv, ManagerInv
<1>10. InterlockInv'
  BY DEF Inv, InterlockInv, Idle, Post, ExecuteTask
<1>. QED
  BY <1>1, <1>2, <1>3, <1>4, <1>5, <1>6, <1>7, <1>8, <1>9, <1>10 DEF Inv

\* The queued unit starts; nothing has been mutated.
LEMMA WorkerStartStep ==
    ASSUME Inv, NEW j \in Jobs, WorkerStart(j)
    PROVE  Inv'
<1>1. TypeOK'
  BY ConstantsAssumption DEF Inv, Unit, WorkerStart, TypeOK, HandlerInv
<1>2. HandlerInv'
  BY ConstantsAssumption DEF Inv, Unit, WorkerStart, TypeOK, HandlerInv
<1>3. UnclaimedInv'
  BY ConstantsAssumption DEF Inv, Unit, WorkerStart, TypeOK, HandlerInv,
      UnclaimedInv
<1>4. LaunchInv'
  BY DEF Inv, Unit, WorkerStart, TypeOK, HandlerInv, UnclaimedInv, LaunchInv
<1>5. ReceiptInv'
  BY DEF Inv, ReceiptInv, Unit, WorkerStart
<1>6. WorkerInv'
  BY DEF Inv, Unit, WorkerStart, TypeOK, HandlerInv, LaunchInv, ReceiptInv,
      WorkerInv, ReconcilerInv
<1>7. ReconcilerInv'
  BY DEF Inv, Unit, WorkerStart, TypeOK, HandlerInv, LaunchInv, ReceiptInv,
      WorkerInv, ReconcilerInv
<1>8. MessageInv'
  BY ConstantsAssumption DEF Inv, Unit, WorkerStart, TypeOK, HandlerInv,
      UnclaimedInv, LaunchInv, ReceiptInv, WorkerInv, ReconcilerInv, MessageInv
<1>9. ManagerInv'
  BY DEF Inv, Unit, WorkerStart, TypeOK, HandlerInv, UnclaimedInv, LaunchInv,
      ReceiptInv, WorkerInv, MessageInv, ManagerInv
<1>10. InterlockInv'
  BY DEF Inv, InterlockInv, Unit, WorkerStart
<1>. QED
  BY <1>1, <1>2, <1>3, <1>4, <1>5, <1>6, <1>7, <1>8, <1>9, <1>10 DEF Inv

\* The worker goes on with a prepared receipt or is gone.
LEMMA WorkerAcceptStep ==
    ASSUME Inv, NEW j \in Jobs, WorkerAccept(j)
    PROVE  Inv'
<1>e. UNCHANGED receipt
  <2>1. phase[j] # "mutation_started"
    BY DEF Inv, WorkerInv, ReceiptInv, WorkerAccept
  <2>. QED
    BY <2>1, AcceptPreparedEffect DEF Inv, WorkerAccept
<1>u. unit' = [unit EXCEPT ![j] = "ready"] \/ unit' = [unit EXCEPT ![j] = "gone"]
  BY DEF WorkerAccept, Unit
<1>p. unit[j] = "accept" /\ UNCHANGED <<manager, agent, staged, effect, launches, net, faults>>
  BY DEF WorkerAccept, Unit
<1>1. TypeOK'
  BY ConstantsAssumption, <1>e, <1>u, <1>p DEF Inv, TypeOK, HandlerInv
<1>2. HandlerInv'
  BY ConstantsAssumption, <1>e, <1>u, <1>p DEF Inv, TypeOK, HandlerInv
<1>3. UnclaimedInv'
  BY ConstantsAssumption, <1>e, <1>u, <1>p DEF Inv, TypeOK, HandlerInv,
      UnclaimedInv
<1>4. LaunchInv'
  BY <1>e, <1>u, <1>p DEF Inv, TypeOK, HandlerInv, UnclaimedInv, LaunchInv
<1>5. ReceiptInv'
  BY <1>e, <1>u, <1>p DEF Inv, TypeOK, HandlerInv, ReceiptInv, WorkerInv
<1>6. WorkerInv'
  BY <1>e, <1>u, <1>p DEF Inv, TypeOK, HandlerInv, LaunchInv, ReceiptInv,
      WorkerInv, ReconcilerInv
<1>7. ReconcilerInv'
  BY <1>e, <1>u, <1>p DEF Inv, TypeOK, HandlerInv, LaunchInv, ReceiptInv,
      WorkerInv, ReconcilerInv
<1>8. MessageInv'
  BY ConstantsAssumption, <1>e, <1>u, <1>p DEF Inv, TypeOK, HandlerInv,
      UnclaimedInv, LaunchInv, ReceiptInv, WorkerInv, ReconcilerInv, MessageInv
<1>9. ManagerInv'
  BY <1>e, <1>u, <1>p DEF Inv, TypeOK, HandlerInv, UnclaimedInv, LaunchInv,
      ReceiptInv, WorkerInv, MessageInv, ManagerInv
<1>10. InterlockInv'
  BY <1>e, <1>u, <1>p DEF Inv, InterlockInv
<1>. QED
  BY <1>1, <1>2, <1>3, <1>4, <1>5, <1>6, <1>7, <1>8, <1>9, <1>10 DEF Inv

\* A worker that gives up closes the receipt without evidence.
LEMMA WorkerReadyStep ==
    ASSUME Inv, NEW j \in Jobs, WorkerReady(j)
    PROVE  Inv'
<1>e. /\ started' = started
      /\ \/ phase[j] = "prepared" /\ phase' = [phase EXCEPT ![j] = "failed"]
         \/ phase' = phase
  BY PreDispatchFailedEffect DEF Inv, WorkerReady
<1>u. unit' = [unit EXCEPT ![j] = "cross"] \/ unit' = [unit EXCEPT ![j] = "gone"]
  BY DEF WorkerReady, Unit
<1>p. unit[j] = "ready" /\ UNCHANGED <<manager, agent, staged, effect, launches, net, faults>>
  BY DEF WorkerReady, Unit
<1>1. TypeOK'
  BY ConstantsAssumption, <1>e, <1>u, <1>p DEF Inv, TypeOK, HandlerInv
<1>2. HandlerInv'
  BY ConstantsAssumption, <1>e, <1>u, <1>p DEF Inv, TypeOK, HandlerInv
<1>3. UnclaimedInv'
  BY ConstantsAssumption, <1>e, <1>u, <1>p DEF Inv, TypeOK, HandlerInv,
      UnclaimedInv
<1>4. LaunchInv'
  BY <1>e, <1>u, <1>p DEF Inv, TypeOK, HandlerInv, UnclaimedInv, LaunchInv
<1>5. ReceiptInv'
  BY <1>e, <1>u, <1>p DEF Inv, TypeOK, HandlerInv, ReceiptInv, WorkerInv
<1>6. WorkerInv'
  BY <1>e, <1>u, <1>p DEF Inv, TypeOK, HandlerInv, LaunchInv, ReceiptInv,
      WorkerInv, ReconcilerInv
<1>7. ReconcilerInv'
  BY <1>e, <1>u, <1>p DEF Inv, TypeOK, HandlerInv, LaunchInv, ReceiptInv,
      WorkerInv, ReconcilerInv
<1>8. MessageInv'
  BY ConstantsAssumption, <1>e, <1>u, <1>p DEF Inv, TypeOK, HandlerInv,
      UnclaimedInv, LaunchInv, ReceiptInv, WorkerInv, ReconcilerInv, MessageInv
<1>9. ManagerInv'
  BY <1>e, <1>u, <1>p DEF Inv, TypeOK, HandlerInv, UnclaimedInv, LaunchInv,
      ReceiptInv, WorkerInv, MessageInv, ManagerInv
<1>10. InterlockInv'
  BY <1>e, <1>u, <1>p DEF Inv, InterlockInv
<1>. QED
  BY <1>1, <1>2, <1>3, <1>4, <1>5, <1>6, <1>7, <1>8, <1>9, <1>10 DEF Inv

\* The evidence is recorded before the updater can start.
LEMMA WorkerCrossStep ==
    ASSUME Inv, NEW j \in Jobs, WorkerCross(j)
    PROVE  Inv'
<1>1. TypeOK'
  BY ConstantsAssumption DEF Inv, AllowedTransition, TransitionOk, Transition,
      Unit, WorkerCross, TypeOK, HandlerInv
<1>2. HandlerInv'
  BY ConstantsAssumption DEF Inv, AllowedTransition, TransitionOk, Transition,
      Unit, WorkerCross, TypeOK, HandlerInv
<1>3. UnclaimedInv'
  BY ConstantsAssumption DEF Inv, AllowedTransition, TransitionOk, Transition,
      Unit, WorkerCross, TypeOK, HandlerInv, UnclaimedInv
<1>4. LaunchInv'
  BY DEF Inv, AllowedTransition, TransitionOk, Transition, Unit, WorkerCross,
      TypeOK, HandlerInv, UnclaimedInv, LaunchInv
<1>5. ReceiptInv'
  BY DEF Inv, AllowedTransition, TransitionOk, Transition, Unit, WorkerCross,
      TypeOK, HandlerInv, ReceiptInv, WorkerInv
<1>6. WorkerInv'
  BY DEF Inv, AllowedTransition, TransitionOk, Transition, Unit, WorkerCross,
      TypeOK, HandlerInv, LaunchInv, ReceiptInv, WorkerInv, ReconcilerInv
<1>7. ReconcilerInv'
  BY DEF Inv, AllowedTransition, TransitionOk, Transition, Unit, WorkerCross,
      TypeOK, HandlerInv, LaunchInv, ReceiptInv, WorkerInv, ReconcilerInv
<1>8. MessageInv'
  BY ConstantsAssumption DEF Inv, AllowedTransition, TransitionOk, Transition,
      Unit, WorkerCross, TypeOK, HandlerInv, UnclaimedInv, LaunchInv,
      ReceiptInv, WorkerInv, ReconcilerInv, MessageInv
<1>9. ManagerInv'
  BY DEF Inv, AllowedTransition, TransitionOk, Transition, Unit, WorkerCross,
      TypeOK, HandlerInv, UnclaimedInv, LaunchInv, ReceiptInv, WorkerInv,
      MessageInv, ManagerInv
<1>10. InterlockInv'
  BY DEF Inv, InterlockInv, Unit, WorkerCross
<1>. QED
  BY <1>1, <1>2, <1>3, <1>4, <1>5, <1>6, <1>7, <1>8, <1>9, <1>10 DEF Inv

\* The first launch: no updater ran before this one.
LEMMA WorkerStartsUpdaterStep ==
    ASSUME Inv, NEW j \in Jobs, WorkerStartsUpdater(j)
    PROVE  Inv'
<1>1. TypeOK'
  BY ConstantsAssumption DEF Inv, Unit, WorkerStartsUpdater, TypeOK, HandlerInv
<1>2. HandlerInv'
  BY ConstantsAssumption DEF Inv, Unit, WorkerStartsUpdater, TypeOK, HandlerInv
<1>3. UnclaimedInv'
  BY ConstantsAssumption DEF Inv, Unit, WorkerStartsUpdater, TypeOK,
      HandlerInv, UnclaimedInv
<1>4. LaunchInv'
  BY DEF Inv, Unit, WorkerStartsUpdater, TypeOK, HandlerInv, UnclaimedInv,
      LaunchInv
<1>5. ReceiptInv'
  BY DEF Inv, ReceiptInv, Unit, WorkerStartsUpdater
<1>6. WorkerInv'
  BY DEF Inv, Unit, WorkerStartsUpdater, TypeOK, HandlerInv, LaunchInv,
      ReceiptInv, WorkerInv, ReconcilerInv
<1>7. ReconcilerInv'
  BY DEF Inv, Unit, WorkerStartsUpdater, TypeOK, HandlerInv, LaunchInv,
      ReceiptInv, WorkerInv, ReconcilerInv
<1>8. MessageInv'
  BY ConstantsAssumption DEF Inv, Unit, WorkerStartsUpdater, TypeOK,
      HandlerInv, UnclaimedInv, LaunchInv, ReceiptInv, WorkerInv,
      ReconcilerInv, MessageInv
<1>9. ManagerInv'
  BY DEF Inv, Unit, WorkerStartsUpdater, TypeOK, HandlerInv, UnclaimedInv,
      LaunchInv, ReceiptInv, WorkerInv, MessageInv, ManagerInv
<1>10. InterlockInv'
  BY DEF Inv, InterlockInv, Unit, WorkerStartsUpdater
<1>. QED
  BY <1>1, <1>2, <1>3, <1>4, <1>5, <1>6, <1>7, <1>8, <1>9, <1>10 DEF Inv

\* The verdict to be recorded is what the updater did.
LEMMA UpdaterExitsStep ==
    ASSUME Inv, NEW j \in Jobs, UpdaterExits(j)
    PROVE  Inv'
<1>1. TypeOK'
  BY ConstantsAssumption DEF Inv, Unit, UpdaterOutcomes, WaitVerdict,
      UpdaterExits, TypeOK, HandlerInv
<1>2. HandlerInv'
  BY ConstantsAssumption DEF Inv, Unit, UpdaterOutcomes, WaitVerdict,
      UpdaterExits, TypeOK, HandlerInv
<1>3. UnclaimedInv'
  BY ConstantsAssumption DEF Inv, Unit, UpdaterOutcomes, WaitVerdict,
      UpdaterExits, TypeOK, HandlerInv, UnclaimedInv
<1>4. LaunchInv'
  BY DEF Inv, Unit, UpdaterOutcomes, WaitVerdict, UpdaterExits, TypeOK,
      HandlerInv, UnclaimedInv, LaunchInv
<1>5. ReceiptInv'
  BY DEF Inv, ReceiptInv, Unit, UpdaterOutcomes, WaitVerdict, UpdaterExits
<1>6. WorkerInv'
  BY DEF Inv, Unit, UpdaterOutcomes, WaitVerdict, UpdaterExits, TypeOK,
      HandlerInv, LaunchInv, ReceiptInv, WorkerInv, ReconcilerInv
<1>7. ReconcilerInv'
  BY DEF Inv, Unit, UpdaterOutcomes, WaitVerdict, UpdaterExits, TypeOK,
      HandlerInv, LaunchInv, ReceiptInv, WorkerInv, ReconcilerInv
<1>8. MessageInv'
  BY ConstantsAssumption DEF Inv, Unit, UpdaterOutcomes, WaitVerdict,
      UpdaterExits, TypeOK, HandlerInv, UnclaimedInv, LaunchInv, ReceiptInv,
      WorkerInv, ReconcilerInv, MessageInv
<1>9. ManagerInv'
  BY DEF Inv, Unit, UpdaterOutcomes, WaitVerdict, UpdaterExits, TypeOK,
      HandlerInv, UnclaimedInv, LaunchInv, ReceiptInv, WorkerInv, MessageInv,
      ManagerInv
<1>10. InterlockInv'
  BY DEF Inv, InterlockInv, Unit, UpdaterOutcomes, WaitVerdict, UpdaterExits
<1>. QED
  BY <1>1, <1>2, <1>3, <1>4, <1>5, <1>6, <1>7, <1>8, <1>9, <1>10 DEF Inv

\* The receipt is closed with what the updater did.
LEMMA WorkerRecordsStep ==
    ASSUME Inv, NEW j \in Jobs, WorkerRecords(j)
    PROVE  Inv'
<1>e. /\ started' = started
      /\ \/ unit[j] = "mark_succeeded" /\ phase' = [phase EXCEPT ![j] = "succeeded"]
         \/ unit[j] = "mark_failed" /\ phase' = [phase EXCEPT ![j] = "failed"]
         \/ unit[j] = "mark_unknown" /\ phase' = [phase EXCEPT ![j] = "outcome_unknown"]
  <2>1. phase[j] = "mutation_started"
    BY DEF Inv, WorkerInv, WorkerRecords
  <2>. QED
    BY <2>1, VerdictEffect DEF Inv, WorkerRecords
<1>p. unit' = [unit EXCEPT ![j] = "gone"] /\ UNCHANGED <<manager, agent, staged, effect, launches, net, faults>>
  BY DEF WorkerRecords, Unit
<1>1. TypeOK'
  BY ConstantsAssumption, <1>e, <1>p DEF Inv, TypeOK, HandlerInv
<1>2. HandlerInv'
  BY ConstantsAssumption, <1>e, <1>p DEF Inv, TypeOK, HandlerInv
<1>3. UnclaimedInv'
  BY ConstantsAssumption, <1>e, <1>p DEF Inv, TypeOK, HandlerInv, UnclaimedInv
<1>4. LaunchInv'
  BY <1>e, <1>p DEF Inv, TypeOK, HandlerInv, UnclaimedInv, LaunchInv
<1>5. ReceiptInv'
  BY <1>e, <1>p DEF Inv, TypeOK, HandlerInv, ReceiptInv, WorkerInv
<1>6. WorkerInv'
  BY <1>e, <1>p DEF Inv, TypeOK, HandlerInv, LaunchInv, ReceiptInv, WorkerInv,
      ReconcilerInv
<1>7. ReconcilerInv'
  BY <1>e, <1>p DEF Inv, TypeOK, HandlerInv, LaunchInv, ReceiptInv, WorkerInv,
      ReconcilerInv
<1>8. MessageInv'
  BY ConstantsAssumption, <1>e, <1>p DEF Inv, TypeOK, HandlerInv, UnclaimedInv,
      LaunchInv, ReceiptInv, WorkerInv, ReconcilerInv, MessageInv
<1>9. ManagerInv'
  BY <1>e, <1>p DEF Inv, TypeOK, HandlerInv, UnclaimedInv, LaunchInv,
      ReceiptInv, WorkerInv, MessageInv, ManagerInv
<1>10. InterlockInv'
  BY <1>e, <1>p DEF Inv, InterlockInv
<1>. QED
  BY <1>1, <1>2, <1>3, <1>4, <1>5, <1>6, <1>7, <1>8, <1>9, <1>10 DEF Inv

\* A process that is gone launches nothing and marks nothing.
LEMMA AgentAbortsStep ==
    ASSUME Inv, NEW a \in Agents, AgentAborts(a)
    PROVE  Inv'
<1>1. TypeOK'
  BY ConstantsAssumption DEF Inv, Idle, Fault, AgentAborts, TypeOK, HandlerInv
<1>2. HandlerInv'
  BY ConstantsAssumption DEF Inv, Idle, Fault, AgentAborts, TypeOK, HandlerInv
<1>3. UnclaimedInv'
  BY ConstantsAssumption DEF Inv, Idle, Fault, AgentAborts, TypeOK, HandlerInv,
      UnclaimedInv
<1>4. LaunchInv'
  BY DEF Inv, Idle, Fault, AgentAborts, TypeOK, HandlerInv, UnclaimedInv,
      LaunchInv
<1>5. ReceiptInv'
  BY DEF Inv, ReceiptInv, Idle, Fault, AgentAborts
<1>6. WorkerInv'
  BY DEF Inv, WorkerInv, Idle, Fault, AgentAborts
<1>7. ReconcilerInv'
  BY DEF Inv, Idle, Fault, AgentAborts, TypeOK, HandlerInv, LaunchInv,
      ReceiptInv, WorkerInv, ReconcilerInv
<1>8. MessageInv'
  BY ConstantsAssumption DEF Inv, Idle, Fault, AgentAborts, TypeOK, HandlerInv,
      UnclaimedInv, LaunchInv, ReceiptInv, WorkerInv, ReconcilerInv, MessageInv
<1>9. ManagerInv'
  BY DEF Inv, Idle, Fault, AgentAborts, TypeOK, HandlerInv, UnclaimedInv,
      LaunchInv, ReceiptInv, WorkerInv, MessageInv, ManagerInv
<1>10. InterlockInv'
  BY DEF Inv, InterlockInv, Idle, Fault, AgentAborts
<1>. QED
  BY <1>1, <1>2, <1>3, <1>4, <1>5, <1>6, <1>7, <1>8, <1>9, <1>10 DEF Inv

\* A killed worker leaves a torn host and an open receipt.
LEMMA WorkerKilledStep ==
    ASSUME Inv, NEW j \in Jobs, WorkerKilled(j)
    PROVE  Inv'
<1>1. TypeOK'
  BY ConstantsAssumption DEF Inv, Unit, Fault, WorkerKilled, TypeOK, HandlerInv
<1>2. HandlerInv'
  BY ConstantsAssumption DEF Inv, Unit, Fault, WorkerKilled, TypeOK, HandlerInv
<1>3. UnclaimedInv'
  BY ConstantsAssumption DEF Inv, Unit, Fault, WorkerKilled, TypeOK,
      HandlerInv, UnclaimedInv
<1>4. LaunchInv'
  BY DEF Inv, Unit, Fault, WorkerKilled, TypeOK, HandlerInv, UnclaimedInv,
      LaunchInv
<1>5. ReceiptInv'
  BY DEF Inv, ReceiptInv, Unit, Fault, WorkerKilled
<1>6. WorkerInv'
  BY DEF Inv, Unit, Fault, WorkerKilled, TypeOK, HandlerInv, LaunchInv,
      ReceiptInv, WorkerInv, ReconcilerInv
<1>7. ReconcilerInv'
  BY DEF Inv, Unit, Fault, WorkerKilled, TypeOK, HandlerInv, LaunchInv,
      ReceiptInv, WorkerInv, ReconcilerInv
<1>8. MessageInv'
  BY ConstantsAssumption DEF Inv, Unit, Fault, WorkerKilled, TypeOK,
      HandlerInv, UnclaimedInv, LaunchInv, ReceiptInv, WorkerInv,
      ReconcilerInv, MessageInv
<1>9. ManagerInv'
  BY DEF Inv, Unit, Fault, WorkerKilled, TypeOK, HandlerInv, UnclaimedInv,
      LaunchInv, ReceiptInv, WorkerInv, MessageInv, ManagerInv
<1>10. InterlockInv'
  BY DEF Inv, InterlockInv, Unit, Fault, WorkerKilled
<1>. QED
  BY <1>1, <1>2, <1>3, <1>4, <1>5, <1>6, <1>7, <1>8, <1>9, <1>10 DEF Inv

\* No process and no unit survives; receipts and stages stay.
LEMMA HostRebootsStep ==
    ASSUME Inv, HostReboots
    PROVE  Inv'
<1>1. TypeOK'
  BY ConstantsAssumption DEF Inv, Fault, HostReboots, TypeOK, HandlerInv
<1>2. HandlerInv'
  BY ConstantsAssumption DEF Inv, Fault, HostReboots, TypeOK, HandlerInv
<1>3. UnclaimedInv'
  BY ConstantsAssumption DEF Inv, Fault, HostReboots, TypeOK, HandlerInv,
      UnclaimedInv
<1>4. LaunchInv'
  BY DEF Inv, Fault, HostReboots, TypeOK, HandlerInv, UnclaimedInv, LaunchInv
<1>5. ReceiptInv'
  BY DEF Inv, ReceiptInv, Fault, HostReboots
<1>6. WorkerInv'
  BY DEF Inv, Fault, HostReboots, TypeOK, HandlerInv, LaunchInv, ReceiptInv,
      WorkerInv, ReconcilerInv
<1>7. ReconcilerInv'
  BY DEF Inv, Fault, HostReboots, TypeOK, HandlerInv, LaunchInv, ReceiptInv,
      WorkerInv, ReconcilerInv
<1>8. MessageInv'
  BY ConstantsAssumption DEF Inv, Fault, HostReboots, TypeOK, HandlerInv,
      UnclaimedInv, LaunchInv, ReceiptInv, WorkerInv, ReconcilerInv, MessageInv
<1>9. ManagerInv'
  BY DEF Inv, Fault, HostReboots, TypeOK, HandlerInv, UnclaimedInv, LaunchInv,
      ReceiptInv, WorkerInv, MessageInv, ManagerInv
<1>10. InterlockInv'
  BY DEF Inv, InterlockInv, Fault, HostReboots
<1>. QED
  BY <1>1, <1>2, <1>3, <1>4, <1>5, <1>6, <1>7, <1>8, <1>9, <1>10 DEF Inv

\* One completion less.
LEMMA RequestLostStep ==
    ASSUME Inv, NEW m \in net, RequestLost(m)
    PROVE  Inv'
<1>1. TypeOK'
  BY ConstantsAssumption DEF Inv, Fault, RequestLost, TypeOK, HandlerInv
<1>2. HandlerInv'
  BY ConstantsAssumption DEF Inv, Fault, RequestLost, TypeOK, HandlerInv
<1>3. UnclaimedInv'
  BY ConstantsAssumption DEF Inv, Fault, RequestLost, TypeOK, HandlerInv,
      UnclaimedInv
<1>4. LaunchInv'
  BY DEF Inv, LaunchInv, Fault, RequestLost
<1>5. ReceiptInv'
  BY DEF Inv, ReceiptInv, Fault, RequestLost
<1>6. WorkerInv'
  BY DEF Inv, WorkerInv, Fault, RequestLost
<1>7. ReconcilerInv'
  BY DEF Inv, ReconcilerInv, Fault, RequestLost
<1>8. MessageInv'
  BY ConstantsAssumption DEF Inv, Fault, RequestLost, TypeOK, HandlerInv,
      UnclaimedInv, LaunchInv, ReceiptInv, WorkerInv, ReconcilerInv, MessageInv
<1>9. ManagerInv'
  BY DEF Inv, ManagerInv, Fault, RequestLost
<1>10. InterlockInv'
  BY DEF Inv, InterlockInv, Fault, RequestLost
<1>. QED
  BY <1>1, <1>2, <1>3, <1>4, <1>5, <1>6, <1>7, <1>8, <1>9, <1>10 DEF Inv

(***************************************************************************)
(* The inductive invariant                                                 *)
(***************************************************************************)
LEMMA InitInv == Init => Inv
<1>. SUFFICES ASSUME Init PROVE Inv
  OBVIOUS
<1>1. TypeOK
  BY ConstantsAssumption DEF Init, TypeOK
<1>. QED
  BY <1>1, ConstantsAssumption
  DEF Init, Inv, HandlerInv, UnclaimedInv, LaunchInv, ReceiptInv, WorkerInv,
      ReconcilerInv, MessageInv, ManagerInv, InterlockInv

\* A step that changes nothing keeps the invariant.
LEMMA StutterInv == ASSUME Inv, UNCHANGED vars PROVE Inv'
  BY DEF Inv, vars, TypeOK, HandlerInv, UnclaimedInv, LaunchInv, ReceiptInv,
         WorkerInv, ReconcilerInv, MessageInv, ManagerInv, InterlockInv

\* Every action keeps the invariant.
LEMMA NextInv == ASSUME Inv, Next PROVE Inv'
<1>1. ASSUME NEW j \in Jobs, CreatePlatformUpdateJob(j) \/ ThrottleExpires(j) \/ WorkerKilled(j)
      PROVE  Inv'
  BY <1>1, CreatePlatformUpdateJobStep, ThrottleExpiresStep, WorkerKilledStep
<1>2. ASSUME NEW j \in Jobs, WorkerStep(j)
      PROVE  Inv'
  BY <1>2, WorkerStartStep, WorkerAcceptStep, WorkerReadyStep, WorkerCrossStep,
     WorkerStartsUpdaterStep, UpdaterExitsStep, WorkerRecordsStep DEF WorkerStep
<1>3. ASSUME NEW t \in Tasks, CreateTask(t)
      PROVE  Inv'
  BY <1>3, CreateTaskStep
<1>4. ASSUME NEW a \in Agents, Claim(a)
      PROVE  Inv'
  BY <1>4, ClaimReconcileStep, ClaimDispatchStep, ClaimTaskStep DEF Claim
<1>5. ASSUME NEW a \in Agents, AgentStep(a)
      PROVE  Inv'
  BY <1>5, DispatchPriorStep, DispatchPrepareStep, DispatchProbeStep, DispatchAcceptStep,
     DispatchStageStep, DispatchReacceptStep, DispatchSpawnStep, DispatchAckStep,
     ReconcileReadStep, ReconcileCheckStep, ReconcileMarkStep, ExecuteTaskStep DEF AgentStep
<1>6. ASSUME NEW a \in Agents, AgentAborts(a)
      PROVE  Inv'
  BY <1>6, AgentAbortsStep
<1>7. ASSUME NEW a \in Agents, NEW t \in Tasks, HeartbeatClosesOrphan(a, t)
      PROVE  Inv'
  BY <1>7, HeartbeatClosesOrphanStep
<1>8. ASSUME Complete
      PROVE  Inv'
  BY <1>8, CompletePlatformUpdateStep, CompleteTaskStep DEF Complete
<1>9. ASSUME NEW m \in net, RequestLost(m)
      PROVE  Inv'
  BY <1>9, RequestLostStep
<1>10. CASE HostReboots
  BY <1>10, HostRebootsStep
<1>. QED
  BY <1>1, <1>2, <1>3, <1>4, <1>5, <1>6, <1>7, <1>8, <1>9, <1>10 DEF Next

\* The inductive invariant holds in every reachable state.
THEOREM InvHolds == Spec => []Inv
<1>1. Inv /\ [Next]_vars => Inv'
  BY NextInv, StutterInv
<1>. QED
  BY InitInv, <1>1, PTL DEF Spec

(***************************************************************************)
(* The properties                                                          *)
(***************************************************************************)
\* Rows, receipts, units and messages keep their types.
THEOREM TypeCorrect == Spec => []TypeOK
<1>1. Inv => TypeOK
  BY DEF Inv
<1>. QED
  BY <1>1, InvHolds, PTL

\* Only a job that is being worked on can have its updater running.
LEMMA UpdaterHasActiveJob ==
    ASSUME Inv, NEW j \in Jobs, effect[j] = "running"
    PROVE  status[j] \in {"in_progress", "mutation_dispatched"}
<1>1. unit[j] = "updating" /\ phase[j] = "mutation_started" /\ started[j]
  BY DEF Inv, WorkerInv, ReceiptInv
<1>2. ~NoLaunch(j)
  BY <1>1
<1>3. status[j] \notin {"absent", "pending"}
  BY <1>1 DEF Inv, UnclaimedInv
<1>4. status[j] \notin FinalStatuses
  BY <1>1, <1>2 DEF Inv, ManagerInv
<1>. QED
  BY <1>3, <1>4 DEF Inv, TypeOK

\* A job closed as failed without dispatched_at never mutates the host.
THEOREM PreDispatchFailureSafe == Spec => []PreDispatchFailureIsHarmless
<1>1. ASSUME Inv PROVE PreDispatchFailureIsHarmless
  <2>. SUFFICES ASSUME NEW j \in Jobs, status[j] = "failed", ~dispatched[j]
                PROVE  launches[j] = 0
    BY DEF PreDispatchFailureIsHarmless
  <2>1. NoLaunch(j)
    BY <1>1 DEF Inv, ManagerInv
  <2>2. ~started[j]
    BY <1>1, <2>1 DEF Inv, WorkerInv
  <2>. QED
    BY <1>1, <2>2 DEF Inv, WorkerInv
<1>. QED
  BY <1>1, InvHolds, PTL

\* The stored verdict is the host's.
THEOREM VerdictSound == Spec => []VerdictMatchesHost
<1>1. ASSUME Inv PROVE VerdictMatchesHost
  <2>. SUFFICES ASSUME NEW j \in Jobs
                PROVE  /\ status[j] = "succeeded" => effect[j] = "applied"
                       /\ status[j] = "failed" => effect[j] \in {"none", "reverted"}
    BY DEF VerdictMatchesHost
  <2>1. status[j] = "succeeded" => effect[j] = "applied"
    BY <1>1 DEF Inv, ManagerInv, WorkerInv
  <2>2. CASE status[j] = "failed" /\ dispatched[j]
    BY <1>1, <2>2 DEF Inv, ManagerInv, WorkerInv
  <2>3. CASE status[j] = "failed" /\ ~dispatched[j]
    <3>1. NoLaunch(j)
      BY <1>1, <2>3 DEF Inv, ManagerInv
    <3>2. ~started[j]
      BY <1>1, <3>1 DEF Inv, WorkerInv
    <3>. QED
      BY <1>1, <2>3, <3>2 DEF Inv, WorkerInv
  <2>. QED
    BY <2>1, <2>2, <2>3
<1>. QED
  BY <1>1, InvHolds, PTL

\* One mutation per job, one updater at a time on the node.
THEOREM MutationExclusive == Spec => []AtMostOneMutation
<1>1. ASSUME Inv PROVE AtMostOneMutation
  <2>1. \A j \in Jobs : launches[j] <= 1
    BY <1>1 DEF Inv, WorkerInv
  <2>2. \A j, k \in Jobs : effect[j] = "running" /\ effect[k] = "running" => j = k
    BY <1>1, UpdaterHasActiveJob DEF Inv, InterlockInv
  <2>. QED
    BY <2>1, <2>2 DEF AtMostOneMutation
<1>. QED
  BY <1>1, InvHolds, PTL

\* The interlock keeps updates off a host in an unknown state.
THEOREM UnknownOutcomeBlocks == Spec => []NoUpdateOverUnknownOutcome
<1>1. ASSUME Inv PROVE NoUpdateOverUnknownOutcome
  <2>. SUFFICES ASSUME NEW j \in Jobs, NEW k \in Jobs,
                       status[j] = "outcome_unknown", effect[k] = "running"
                PROVE  FALSE
    BY DEF NoUpdateOverUnknownOutcome
  <2>1. status[k] \in {"in_progress", "mutation_dispatched"}
    BY <1>1, UpdaterHasActiveJob
  <2>. QED
    BY <1>1, <2>1 DEF Inv, InterlockInv
<1>. QED
  BY <1>1, InvHolds, PTL

(***************************************************************************)
(* Evidence only grows                                                     *)
(***************************************************************************)
\* What a step does to the rows and to the receipts.
RowsKept ==
    \A j \in Jobs :
        /\ status[j] \in FinalStatuses => status'[j] = status[j] /\ dispatched'[j] = dispatched[j]
        /\ dispatched[j] => dispatched'[j]

ReceiptsKept ==
    \A j \in Jobs :
        /\ phase[j] \in FinalPhases => phase'[j] = phase[j]
        /\ started[j] => started'[j]

\* No transition of the store leaves a terminal phase or clears the evidence.
LEMMA TransitionKeeps ==
    ASSUME TypeOK, NEW j \in Jobs, NEW to \in Phases, NEW mutated \in BOOLEAN,
           Transition(j, to, mutated)
    PROVE  ReceiptsKept
<1>1. TransitionOk(j, to, mutated) => phase[j] \notin FinalPhases /\ (started[j] => mutated)
  BY DEF TransitionOk, AllowedTransition
<1>2. ASSUME NEW k \in Jobs, k # j
      PROVE  phase'[k] = phase[k] /\ started'[k] = started[k]
  BY <1>2 DEF Transition, TypeOK
<1>3. CASE TransitionOk(j, to, mutated)
  <2>1. started'[j] = mutated
    BY <1>3 DEF Transition, TypeOK
  <2>. QED
    BY <1>1, <1>2, <1>3, <2>1 DEF ReceiptsKept
<1>4. CASE ~TransitionOk(j, to, mutated)
  <2>1. phase'[j] = phase[j] /\ started'[j] = started[j]
    BY <1>4 DEF Transition, TypeOK
  <2>. QED
    BY <1>2, <2>1 DEF ReceiptsKept
<1>. QED
  BY <1>3, <1>4

\* The dispatch handler touches its receipt through the store only.
LEMMA DispatchKeepsReceipts ==
    ASSUME Inv, NEW a \in Agents,
           \/ DispatchPrior(a) \/ DispatchPrepare(a) \/ DispatchProbe(a) \/ DispatchAccept(a)
           \/ DispatchStage(a) \/ DispatchReaccept(a) \/ DispatchSpawn(a) \/ DispatchAck(a)
    PROVE  ReceiptsKept
<1>1. pc[a] \in DispatchPcs /\ cur[a] \in Jobs /\ TypeOK
  BY DEF Inv, HandlerInv, DispatchPrior, DispatchPrepare, DispatchProbe, DispatchAccept,
      DispatchStage, DispatchReaccept, DispatchSpawn, DispatchAck
<1>2. CASE UNCHANGED receipt
  BY <1>2 DEF ReceiptsKept
<1>3. CASE MarkPreDispatchFailed(cur[a])
  BY <1>1, <1>3, TransitionKeeps DEF MarkPreDispatchFailed
<1>4. CASE AcceptPrepared(cur[a])
  BY <1>1, <1>2, <1>4, TransitionKeeps DEF AcceptPrepared
<1>5. CASE DispatchPrepare(a)
  BY <1>1, <1>5 DEF DispatchPrepare, ReceiptsKept, TypeOK
<1>. QED
  BY <1>2, <1>3, <1>4, <1>5
  DEF DispatchPrior, DispatchProbe, DispatchAccept, DispatchStage, DispatchReaccept,
      DispatchSpawn, DispatchAck, DispatchFails

\* The reconciler too, and it may be refused.
LEMMA ReconcileKeepsReceipts ==
    ASSUME Inv, NEW a \in Agents, ReconcileRead(a) \/ ReconcileCheck(a) \/ ReconcileMark(a)
    PROVE  ReceiptsKept
<1>1. CASE UNCHANGED receipt
  BY <1>1 DEF ReceiptsKept
<1>2. CASE ReconcileMark(a)
  <2>1. cur[a] \in Jobs /\ TypeOK /\ seen[a] \in BOOLEAN
    BY <1>2 DEF Inv, HandlerInv, ReconcileMark, TypeOK
  <2>2. \E to \in {"outcome_unknown", "failed"} : Transition(cur[a], to, seen[a])
    BY <1>2 DEF ReconcileMark
  <2>. QED
    BY <2>1, <2>2, TransitionKeeps
<1>. QED
  BY <1>1, <1>2 DEF ReconcileRead, ReconcileCheck

\* So does the worker.
LEMMA WorkerKeepsReceipts ==
    ASSUME Inv, NEW j \in Jobs, WorkerStep(j)
    PROVE  ReceiptsKept
<1>1. TypeOK
  BY DEF Inv
<1>2. CASE UNCHANGED receipt
  BY <1>2 DEF ReceiptsKept
<1>3. CASE AcceptPrepared(j) \/ MarkPreDispatchFailed(j)
  BY <1>1, <1>2, <1>3, TransitionKeeps DEF AcceptPrepared, MarkPreDispatchFailed
<1>4. CASE WorkerCross(j) \/ WorkerRecords(j)
  BY <1>1, <1>4, TransitionKeeps DEF WorkerCross, WorkerRecords
<1>. QED
  BY <1>2, <1>3, <1>4
  DEF WorkerStep, WorkerStart, WorkerAccept, WorkerReady, WorkerStartsUpdater, UpdaterExits

\* A completion is accepted for an open row only.
LEMMA CompletionKeepsRows ==
    ASSUME Inv, NEW m \in net, CompletePlatformUpdate(m)
    PROVE  RowsKept
<1>. DEFINE j == m.id
            ok == Accepts(status[j], m)
            set == ok /\ SetsDispatched(m)
<1>1. /\ j \in Jobs
      /\ status' = [status EXCEPT ![j] = IF ok THEN CompletedStatus(m) ELSE status[j]]
      /\ dispatched' = [dispatched EXCEPT ![j] = dispatched[j] \/ set]
  BY DEF CompletePlatformUpdate
<1>2. ok => status[j] \notin FinalStatuses
  BY DEF Accepts
<1>3. set => ok
  OBVIOUS
<1>4. status \in [Jobs -> JobStatuses] /\ dispatched \in [Jobs -> BOOLEAN]
  BY DEF Inv, TypeOK
<1>. HIDE DEF j, ok, set
<1>5. \A k \in Jobs : k # j => status'[k] = status[k] /\ dispatched'[k] = dispatched[k]
  BY <1>1, <1>4, Zenon
<1>6. dispatched'[j] = (dispatched[j] \/ set)
  BY <1>1, <1>4, Zenon
<1>7. ~ok => status'[j] = status[j]
  BY <1>1, <1>4
<1>8. dispatched[j] => dispatched'[j]
  BY <1>6, Zenon
<1>9. ~set => dispatched'[j] = dispatched[j]
  <2>1. dispatched[j] \in BOOLEAN
    BY <1>1, <1>4
  <2>. QED
    BY <1>6, <2>1, Zenon
<1>. QED
  BY <1>1, <1>2, <1>3, <1>5, <1>7, <1>8, <1>9 DEF RowsKept

\* A terminal row and a terminal receipt are frozen, mutation_started is never cleared
\* and dispatched_at never unset, by any step of the Manager, of an Agent or of a worker
\* (the guards of CompleteAgentOperationTask, the receipt store's transition table).
THEOREM EvidenceOnlyGrows == Spec => EvidenceIsMonotone
<1>1. ASSUME Inv, Next
      PROVE  RowsKept /\ ReceiptsKept
  <2>1. CASE UNCHANGED <<status, dispatched, phase, started>>
    BY <2>1 DEF RowsKept, ReceiptsKept
  <2>2. UNCHANGED <<status, dispatched>> => RowsKept
    BY DEF RowsKept
  <2>3. UNCHANGED <<phase, started>> => ReceiptsKept
    BY DEF ReceiptsKept
  <2>4. ASSUME NEW j \in Jobs, CreatePlatformUpdateJob(j)
        PROVE  RowsKept /\ ReceiptsKept
    BY <1>1, <2>3, <2>4 DEF Inv, TypeOK, CreatePlatformUpdateJob, RowsKept
  <2>5. ASSUME NEW j \in Jobs, WorkerStep(j)
        PROVE  RowsKept /\ ReceiptsKept
    <3>1. UNCHANGED <<status, dispatched>>
      BY <2>5 DEF WorkerStep, WorkerStart, WorkerAccept, WorkerReady, WorkerCross,
                  WorkerStartsUpdater, UpdaterExits, WorkerRecords
    <3>. QED
      BY <1>1, <2>2, <2>5, <3>1, WorkerKeepsReceipts
  <2>6. ASSUME NEW a \in Agents, NEW j \in Jobs, ClaimReconcile(a, j) \/ ClaimDispatch(a, j)
        PROVE  RowsKept /\ ReceiptsKept
    BY <1>1, <2>1, <2>3, <2>6 DEF Inv, TypeOK, ClaimReconcile, ClaimDispatch, DispatchDue, RowsKept
  <2>7. ASSUME NEW a \in Agents, AgentStep(a)
        PROVE  RowsKept /\ ReceiptsKept
    <3>1. UNCHANGED <<status, dispatched>>
      BY <2>7 DEF AgentStep, DispatchPrior, DispatchPrepare, DispatchProbe, DispatchAccept,
                  DispatchStage, DispatchReaccept, DispatchSpawn, DispatchAck, ReconcileRead,
                  ReconcileCheck, ReconcileMark, ExecuteTask
    <3>2. CASE ExecuteTask(a)
      BY <2>1, <3>1, <3>2 DEF ExecuteTask
    <3>. QED
      BY <1>1, <2>2, <2>7, <3>1, <3>2, DispatchKeepsReceipts, ReconcileKeepsReceipts DEF AgentStep
  <2>8. ASSUME NEW m \in net, CompletePlatformUpdate(m)
        PROVE  RowsKept /\ ReceiptsKept
    BY <1>1, <2>3, <2>8, CompletionKeepsRows DEF CompletePlatformUpdate
  <2>9. ASSUME \/ \E j \in Jobs : ThrottleExpires(j) \/ WorkerKilled(j)
               \/ \E t \in Tasks : CreateTask(t)
               \/ \E a \in Agents : AgentAborts(a) \/ \E t \in Tasks : ClaimTask(a, t)
               \/ \E a \in Agents, t \in Tasks : HeartbeatClosesOrphan(a, t)
               \/ \E m \in net : CompleteTask(m) \/ RequestLost(m)
               \/ HostReboots
        PROVE  RowsKept /\ ReceiptsKept
    <3>1. UNCHANGED <<status, dispatched, phase, started>>
      BY <2>9 DEF ThrottleExpires, WorkerKilled, CreateTask, AgentAborts, ClaimTask,
                  HeartbeatClosesOrphan, CompleteTask, RequestLost, HostReboots
    <3>. QED
      BY <2>1, <3>1
  <2>. QED
    BY <1>1, <2>4, <2>5, <2>6, <2>7, <2>8, <2>9 DEF Next, Claim, Complete
<1>2. Inv /\ [Next]_vars =>
          [\A j \in Jobs :
              /\ status[j] \in FinalStatuses => status'[j] = status[j] /\ dispatched'[j] = dispatched[j]
              /\ phase[j] \in FinalPhases => phase'[j] = phase[j]
              /\ started[j] => started'[j]
              /\ dispatched[j] => dispatched'[j]]_vars
  BY <1>1 DEF RowsKept, ReceiptsKept
<1>. QED
  BY <1>2, InvHolds, PTL DEF Spec, EvidenceIsMonotone

(***************************************************************************)
(* Ordinary operations and the updater                                     *)
(***************************************************************************)
\* No unit of j will start its updater: there is none that runs, or the receipt is closed
\* and every worker will find it so.
Quiet(j) ==
    \/ unit[j] \in {"none", "gone"}
    \/ phase[j] = "failed" /\ ~started[j]

\* While the Agent executes an operation every job is quiet.
OperationInv ==
    \A a \in Agents : pc[a] = "exec" /\ cur[a] \in Ops => \A j \in Jobs : Quiet(j)

\* An operation is handed out when no update is active: all that is left is quiet.
LEMMA ClaimedOperationIsQuiet ==
    ASSUME Inv, ~PlatformUpdateActive, NEW j \in Jobs
    PROVE  Quiet(j)
<1>1. status[j] \in {"absent", "succeeded", "failed", "outcome_unknown"}
  BY DEF Inv, TypeOK, PlatformUpdateActive
<1>2. CASE status[j] = "absent"
  BY <1>2 DEF Inv, UnclaimedInv, Quiet
<1>3. phase[j] \in FinalPhases /\ started[j] => unit[j] = "gone"
  BY DEF Inv, TypeOK, WorkerInv
<1>4. CASE status[j] \in {"succeeded", "outcome_unknown"}
  BY <1>3, <1>4 DEF Inv, ManagerInv, ReceiptInv, Quiet
<1>5. CASE status[j] = "failed" /\ dispatched[j]
  BY <1>3, <1>5 DEF Inv, ManagerInv, Quiet
<1>6. CASE status[j] = "failed" /\ ~dispatched[j]
  BY <1>6 DEF Inv, ManagerInv, Quiet
<1>. QED
  BY <1>1, <1>2, <1>4, <1>5, <1>6

\* A worker of a quiet job stops before the durable boundary.
LEMMA QuietWorker ==
    ASSUME Inv, NEW j \in Jobs, NEW k \in Jobs, WorkerStep(j), Quiet(k)
    PROVE  Quiet(k)'
<1>1. CASE k # j
  <2>1. \A st : Unit(j, st) => unit'[k] = unit[k]
    BY <1>1 DEF Inv, TypeOK, Unit
  <2>2. \A to, mutated : Transition(j, to, mutated) => phase'[k] = phase[k] /\ started'[k] = started[k]
    BY <1>1 DEF Inv, TypeOK, Transition
  <2>3. CASE WorkerStart(j) \/ WorkerStartsUpdater(j) \/ UpdaterExits(j)
    <3>1. UNCHANGED receipt /\ \E st : Unit(j, st)
      BY <2>3 DEF WorkerStart, WorkerStartsUpdater, UpdaterExits
    <3>. QED
      BY <2>1, <3>1 DEF Quiet
  <2>4. CASE WorkerAccept(j)
    BY <2>1, <2>2, <2>4 DEF WorkerAccept, AcceptPrepared, Quiet
  <2>5. CASE WorkerReady(j)
    BY <2>1, <2>2, <2>5 DEF WorkerReady, MarkPreDispatchFailed, Quiet
  <2>6. CASE WorkerCross(j)
    BY <2>1, <2>2, <2>6 DEF WorkerCross, Quiet
  <2>7. CASE WorkerRecords(j)
    BY <2>1, <2>2, <2>7 DEF WorkerRecords, Quiet
  <2>. QED
    BY <2>3, <2>4, <2>5, <2>6, <2>7 DEF WorkerStep
<1>2. CASE k = j
  <2>1. unit[j] \notin {"none", "gone"}
    BY DEF WorkerStep, WorkerStart, WorkerAccept, WorkerReady, WorkerCross,
           WorkerStartsUpdater, UpdaterExits, WorkerRecords
  <2>2. phase[j] = "failed" /\ ~started[j]
    BY <1>2, <2>1 DEF Quiet
  <2>3. ~WorkerStartsUpdater(j) /\ ~UpdaterExits(j) /\ ~WorkerRecords(j)
    <3>1. unit[j] \notin Crossed
      BY <2>2 DEF Inv, WorkerInv
    <3>. QED
      BY <3>1 DEF WorkerStartsUpdater, UpdaterExits, WorkerRecords
  <2>4. \A to \in Phases, mutated \in BOOLEAN : ~TransitionOk(j, to, mutated)
    BY <2>2 DEF TransitionOk, AllowedTransition
  <2>5. \A to \in Phases, mutated \in BOOLEAN :
            Transition(j, to, mutated) => phase'[j] = phase[j] /\ started'[j] = started[j]
    BY <2>4 DEF Transition, Inv, TypeOK
  <2>6. CASE WorkerCross(j)
    BY <1>2, <2>2, <2>5, <2>6 DEF WorkerCross, Quiet
  <2>7. CASE WorkerReady(j)
    BY <1>2, <2>2, <2>5, <2>7 DEF WorkerReady, MarkPreDispatchFailed, Quiet
  <2>8. CASE WorkerAccept(j)
    BY <1>2, <2>2, <2>5, <2>8 DEF WorkerAccept, AcceptPrepared, Quiet
  <2>9. CASE WorkerStart(j)
    BY <1>2, <2>2, <2>9 DEF WorkerStart, Quiet
  <2>. QED
    BY <1>2, <2>3, <2>6, <2>7, <2>8, <2>9 DEF WorkerStep
<1>. QED
  BY <1>1, <1>2

\* The Agent's own steps end an operation or belong to an update.
LEMMA AgentStepsLeaveExec ==
    ASSUME Inv, NEW a \in Agents, AgentStep(a) \/ AgentAborts(a)
    PROVE  pc'[a] # "exec"
<1>1. pc \in [Agents -> AgentPcs]
  BY DEF Inv, TypeOK
<1>2. Idle(a) => pc'[a] # "exec"
  BY <1>1 DEF Idle
<1>3. \A at \in AgentPcs : Go(a, at) => pc'[a] = at
  BY <1>1 DEF Go
<1>4. CASE DispatchPrior(a) \/ DispatchPrepare(a) \/ DispatchProbe(a) \/ DispatchAccept(a)
  BY <1>2, <1>3, <1>4 DEF DispatchPrior, DispatchPrepare, DispatchProbe, DispatchAccept,
                          DispatchFails, PostPreDispatchFailed
<1>5. CASE DispatchStage(a) \/ DispatchReaccept(a) \/ DispatchSpawn(a) \/ DispatchAck(a)
  BY <1>2, <1>3, <1>5 DEF DispatchStage, DispatchReaccept, DispatchSpawn, DispatchAck,
                          DispatchFails, PostPreDispatchFailed
<1>6. CASE ReconcileRead(a)
  BY <1>1, <1>2, <1>6 DEF ReconcileRead
<1>7. CASE ReconcileCheck(a) \/ ReconcileMark(a) \/ ExecuteTask(a) \/ AgentAborts(a)
  BY <1>2, <1>3, <1>7 DEF ReconcileCheck, ReconcileMark, ExecuteTask, AgentAborts
<1>. QED
  BY <1>4, <1>5, <1>6, <1>7 DEF AgentStep

\* No step of a node with one Agent process breaks it.
LEMMA OperationInvNext ==
    ASSUME Inv, OperationInv, \A a, b \in Agents : a = b, [Next]_vars
    PROVE  OperationInv'
<1>. SUFFICES ASSUME NEW a \in Agents, pc'[a] = "exec", cur'[a] \in Ops, NEW k \in Jobs
              PROVE  Quiet(k)'
  BY DEF OperationInv
<1>1. CASE UNCHANGED <<pc, cur, unit, phase, started>>
  BY <1>1 DEF OperationInv, Quiet
<1>2. ASSUME NEW j \in Jobs, WorkerStep(j)
      PROVE  Quiet(k)'
  <2>1. UNCHANGED <<pc, cur>>
    BY <1>2 DEF WorkerStep, WorkerStart, WorkerAccept, WorkerReady, WorkerCross,
                WorkerStartsUpdater, UpdaterExits, WorkerRecords
  <2>2. Quiet(k)
    BY <2>1 DEF OperationInv
  <2>. QED
    BY <1>2, <2>2, QuietWorker
<1>3. ASSUME NEW j \in Jobs, WorkerKilled(j)
      PROVE  Quiet(k)'
  <2>1. UNCHANGED <<pc, cur, phase, started>> /\ unit' = [unit EXCEPT ![j] = "gone"]
    BY <1>3 DEF WorkerKilled, Unit
  <2>2. Quiet(k)
    BY <2>1 DEF OperationInv
  <2>. QED
    BY <2>1, <2>2 DEF Quiet, Inv, TypeOK
<1>4. ASSUME NEW b \in Agents, AgentStep(b) \/ AgentAborts(b)
      PROVE  FALSE
  BY <1>4, AgentStepsLeaveExec
<1>5. ASSUME NEW b \in Agents, NEW j \in Jobs, ClaimReconcile(b, j) \/ ClaimDispatch(b, j)
      PROVE  Quiet(k)'
  <2>1. a = b
    OBVIOUS
  <2>2. UNCHANGED <<unit, phase, started>> /\ (pc'[b] \in {"read", "prior"} \/ UNCHANGED <<pc, cur>>)
    BY <1>5 DEF Inv, TypeOK, ClaimReconcile, ClaimDispatch, Answer, Receive, AnswerLost
  <2>. QED
    BY <1>1, <2>1, <2>2
<1>6. ASSUME NEW b \in Agents, NEW t \in Tasks, ClaimTask(b, t)
      PROVE  Quiet(k)'
  <2>1. a = b
    OBVIOUS
  <2>2. UNCHANGED <<unit, phase, started>>
    BY <1>6 DEF ClaimTask
  <2>3. CASE AnswerLost
    BY <1>1, <2>2, <2>3 DEF AnswerLost
  <2>4. CASE Receive(b, t, "exec", "in_progress")
    <3>1. cur'[b] = t
      BY <2>4 DEF Receive, Inv, TypeOK
    <3>2. t \in Ops /\ ~ConfigDue(t)
      BY <2>1, <3>1, ConstantsAssumption DEF ConfigDue
    <3>3. ~PlatformUpdateActive
      BY <1>6, <3>2 DEF ClaimTask, OpDue
    <3>4. Quiet(k)
      BY <3>3, ClaimedOperationIsQuiet
    <3>. QED
      BY <2>2, <3>4 DEF Quiet
  <2>. QED
    BY <1>6, <2>3, <2>4 DEF ClaimTask, Answer
<1>7. ASSUME \/ \E j \in Jobs : CreatePlatformUpdateJob(j) \/ ThrottleExpires(j)
             \/ \E t \in Tasks : CreateTask(t)
             \/ \E b \in Agents, t \in Tasks : HeartbeatClosesOrphan(b, t)
             \/ \E m \in net : CompletePlatformUpdate(m) \/ CompleteTask(m) \/ RequestLost(m)
      PROVE  Quiet(k)'
  <2>1. UNCHANGED <<pc, cur, unit, phase, started>>
    BY <1>7 DEF CreatePlatformUpdateJob, ThrottleExpires, CreateTask, HeartbeatClosesOrphan,
                CompletePlatformUpdate, CompleteTask, RequestLost
  <2>. QED
    BY <1>1, <2>1
<1>8. CASE HostReboots
  BY <1>8 DEF HostReboots
<1>9. CASE UNCHANGED vars
  BY <1>1, <1>9 DEF vars
<1>. QED
  BY <1>2, <1>3, <1>4, <1>5, <1>6, <1>7, <1>8, <1>9 DEF Next, Claim, Complete

\* A node with one Agent process never executes an ordinary operation while the updater
\* mutates the host: the claim query waits for the update, and the one process that could
\* start a new one is busy (ClaimNextAgentOperationTask).
THEOREM OperationsExcluded ==
    (\A a, b \in Agents : a = b) /\ Spec => []OperationsExcludeUpdater
<1>. SUFFICES ASSUME \A a, b \in Agents : a = b
              PROVE  Spec => []OperationsExcludeUpdater
  OBVIOUS
<1>1. Init => OperationInv
  BY DEF Init, OperationInv
<1>2. Inv /\ OperationInv /\ [Next]_vars => OperationInv'
  BY OperationInvNext
<1>3. Inv /\ OperationInv => OperationsExcludeUpdater
  BY DEF Inv, OperationInv, Quiet, WorkerInv, OperationsExcludeUpdater
<1>. QED
  BY <1>1, <1>2, <1>3, InvHolds, PTL DEF Spec
=============================================================================
