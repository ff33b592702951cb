---------------------------- MODULE RolloutProofs ---------------------------
(***************************************************************************)
(* Rollouts of any plans over any number of nodes, with any number of      *)
(* concurrent "advance" requests, direct updates and replaced hosts.       *)
(***************************************************************************)
EXTENDS Rollout, SequenceTheorems, TLAPS

\* Every variable is a function of its key.
ShapeInv ==
    /\ rstatus \in [Rollouts -> RolloutStatuses]
    /\ target \in [Rollouts -> Versions]
    /\ plan \in [Rollouts -> Plans \cup {<<>>}]
    /\ entry \in [Rollouts -> [Servers -> EntryStatuses]]
    /\ observed \in [Rollouts -> [Servers -> Nat]]
    /\ bound \in [Rollouts -> [Servers -> Nat]]
    /\ jobs \in [Servers -> Seq(JobRecords)]
    /\ aver \in [Servers -> Versions]
    /\ gen \in [Servers -> Nat \ {0}]
    /\ hb \in [Servers -> {"none", "stale", "fresh"}]
    /\ after \in [Servers -> SUBSET Nat]
    /\ ready \in [Servers -> BOOLEAN]
    /\ mver \in Versions
    /\ host \in [Servers -> Versions]
    /\ net \subseteq Heartbeats
    /\ call \in [Callers -> Calls]
    /\ disruptions \in 0 .. MaxDisruptions

\* Only the newest job of a node can be unresolved.
QueueInv ==
    \A s \in Servers : \A k \in DOMAIN jobs[s] :
        k # Len(jobs[s]) => jobs[s][k].status \in {"succeeded", "failed"}

\* Whatever a current heartbeat of s reports, or reported last, is what it runs.
Reports(s) ==
    /\ aver[s] = host[s]
    /\ \A m \in net : m.server = s /\ m.gen = gen[s] => m.ver = host[s]

\* A node runs what its newest job installed, or was registered since.
HostInv ==
    \A s \in Servers : \A k \in DOMAIN jobs[s] : k = Len(jobs[s]) =>
        /\ jobs[s][k].status = "applied" => host[s] = jobs[s][k].ver
        /\ jobs[s][k].status = "succeeded" => host[s] = jobs[s][k].ver \/ Reports(s)

\* No heartbeat carries a credential that has not been handed out.
NetInv == \A m \in net : m.gen <= gen[m.server]

\* The job of an entry: in the history, first since the plan, of the target, its own.
BoundInv ==
    \A r \in Rollouts, s \in Servers :
        /\ entry[r][s] = "updating" => bound[r][s] # 0
        /\ bound[r][s] # 0 =>
              /\ bound[r][s] \in DOMAIN jobs[s]
              /\ bound[r][s] = observed[r][s] + 1
              /\ jobs[s][bound[r][s]].ver = target[r]
              /\ \A q \in Rollouts \ {r} : bound[q][s] # bound[r][s]

\* The entries of a rollout against its status.
EntriesOf(r) ==
    /\ rstatus[r] = "absent" => \A s \in Servers : entry[r][s] = "none" /\ bound[r][s] = 0
    /\ rstatus[r] # "running" => Updating(r) = {}
    /\ \A s, t \in Updating(r) : s = t
    /\ rstatus[r] \in {"pending", "running"} =>
          \A s \in Servers : entry[r][s] \notin {"failed", "outcome_unknown"}

EntryInv == \A r \in Rollouts : EntriesOf(r)

\* The inductive invariant.
Inv == ShapeInv /\ QueueInv /\ HostInv /\ NetInv /\ BoundInv /\ EntryInv

(***************************************************************************)
(* Histories of jobs                                                       *)
(***************************************************************************)
\* A node's history is a sequence of job records.
LEMMA Histories ==
    ASSUME ShapeInv, NEW s \in Servers
    PROVE  /\ jobs[s] \in Seq(JobRecords) /\ Len(jobs[s]) \in Nat
           /\ DOMAIN jobs[s] = 1 .. Len(jobs[s])
           /\ \A k \in DOMAIN jobs[s] : jobs[s][k] \in JobRecords
<1>1. jobs[s] \in Seq(JobRecords)
  BY DEF ShapeInv
<1>. QED
  BY <1>1, LenProperties, ElementOfSeq

\* createPlatformUpdateJobTx inserts a pending job.
LEMMA JobAppended ==
    ASSUME ShapeInv, NEW s \in Servers, NEW v \in Versions, AppendJob(s, v)
    PROVE  /\ jobs' \in [Servers -> Seq(JobRecords)]
           /\ \A t \in Servers : t # s => jobs'[t] = jobs[t]
           /\ Len(jobs'[s]) = Len(jobs[s]) + 1
           /\ DOMAIN jobs'[s] = DOMAIN jobs[s] \cup {Len(jobs[s]) + 1}
           /\ jobs'[s][Len(jobs[s]) + 1].ver = v
           /\ jobs'[s][Len(jobs[s]) + 1].status = "pending"
           /\ \A k \in DOMAIN jobs[s] : jobs'[s][k] = jobs[s][k]
<1>. DEFINE new == [ver |-> v, status |-> "pending"]
<1>1. new \in JobRecords /\ new.ver = v /\ new.status = "pending"
  BY DEF JobRecords, ActiveJob
<1>2. jobs' = [jobs EXCEPT ![s] = Append(jobs[s], new)]
  BY DEF AppendJob
<1>. HIDE DEF new
<1>3. /\ Append(jobs[s], new) \in Seq(JobRecords)
      /\ Len(Append(jobs[s], new)) = Len(jobs[s]) + 1
      /\ \A k \in 1 .. Len(jobs[s]) : Append(jobs[s], new)[k] = jobs[s][k]
      /\ Append(jobs[s], new)[Len(jobs[s]) + 1] = new
  BY <1>1, Histories, AppendProperties
<1>4. DOMAIN Append(jobs[s], new) = 1 .. Len(jobs[s]) + 1
  BY <1>3, LenProperties
<1>5. jobs'[s] = Append(jobs[s], new) /\ jobs' \in [Servers -> Seq(JobRecords)]
      /\ \A t \in Servers : t # s => jobs'[t] = jobs[t]
  BY <1>2, <1>3 DEF ShapeInv
<1>. QED
  BY <1>1, <1>3, <1>4, <1>5, Histories

\* A step changes the statuses in the history of s and nothing else of any job.
StatusesOf(s) ==
    /\ jobs' \in [Servers -> Seq(JobRecords)]
    /\ \A t \in Servers : t # s => jobs'[t] = jobs[t]
    /\ Len(jobs'[s]) = Len(jobs[s]) /\ DOMAIN jobs'[s] = DOMAIN jobs[s]
    /\ \A k \in DOMAIN jobs[s] : jobs'[s][k].ver = jobs[s][k].ver

\* UPDATE of the status of one job.
LEMMA JobSet ==
    ASSUME ShapeInv, NEW s \in Servers, NEW k \in DOMAIN jobs[s],
           NEW st \in ActiveJob \cup EndStatuses, SetJob(s, k, st)
    PROVE  /\ StatusesOf(s) /\ jobs'[s][k].status = st
           /\ \A i \in DOMAIN jobs[s] : i # k => jobs'[s][i] = jobs[s][i]
<1>. DEFINE new == [jobs[s][k] EXCEPT !.status = st]
<1>1. jobs[s][k] \in JobRecords
  BY Histories
<1>2. new \in JobRecords /\ new.ver = jobs[s][k].ver /\ new.status = st
  BY <1>1 DEF JobRecords
<1>3. jobs' = [jobs EXCEPT ![s] = [jobs[s] EXCEPT ![k] = new]]
  BY Zenon DEF SetJob
<1>. HIDE DEF new
<1>. DEFINE row == [jobs[s] EXCEPT ![k] = new]
<1>4. /\ row \in Seq(JobRecords) /\ Len(row) = Len(jobs[s])
      /\ \A i \in 1 .. Len(jobs[s]) : row[i] = IF i = k THEN new ELSE jobs[s][i]
  BY <1>2, Histories, ExceptSeq
<1>5. DOMAIN row = DOMAIN jobs[s]
  OBVIOUS
<1>. HIDE DEF row
<1>6. jobs'[s] = row /\ jobs' \in [Servers -> Seq(JobRecords)]
      /\ \A t \in Servers : t # s => jobs'[t] = jobs[t]
  BY <1>3, <1>4 DEF ShapeInv, row
<1>. QED
  BY <1>2, <1>4, <1>5, <1>6, Histories DEF StatusesOf

\* A registration: the jobs in hand stay with a replaced machine.
LEMMA JobsRegistered ==
    ASSUME ShapeInv, NEW s \in Servers, NEW replaced \in BOOLEAN,
           jobs' = [jobs EXCEPT ![s] = JobsAfter(s, replaced)]
    PROVE  /\ StatusesOf(s)
           /\ \A k \in DOMAIN jobs[s] :
                 \/ jobs'[s][k] = jobs[s][k] /\ (replaced => jobs[s][k].status # "applied")
                 \/ jobs'[s][k] = jobs[s][k] /\ ~replaced
                 \/ jobs[s][k].status \in {"claimed", "applied"} /\ jobs'[s][k].status = "lost"
<1>. DEFINE row == JobsAfter(s, replaced)
<1>1. \A k \in DOMAIN jobs[s] : jobs[s][k] \in JobRecords
  BY Histories
<1>2. \A k \in DOMAIN jobs[s] :
          /\ [jobs[s][k] EXCEPT !.status = "lost"] \in JobRecords
          /\ [jobs[s][k] EXCEPT !.status = "lost"].ver = jobs[s][k].ver
          /\ [jobs[s][k] EXCEPT !.status = "lost"].status = "lost"
  BY <1>1 DEF JobRecords, ActiveJob
<1>3. DOMAIN row = DOMAIN jobs[s] /\ row = [k \in DOMAIN jobs[s] |-> row[k]]
  BY DEF JobsAfter
<1>4. \A k \in DOMAIN jobs[s] :
          row[k] = IF replaced /\ jobs[s][k].status \in {"claimed", "applied"}
                   THEN [jobs[s][k] EXCEPT !.status = "lost"] ELSE jobs[s][k]
  BY Zenon DEF JobsAfter
<1>. HIDE DEF row
<1>5. \A k \in DOMAIN jobs[s] : row[k] \in JobRecords /\ row[k].ver = jobs[s][k].ver
  BY <1>1, <1>2, <1>4, Zenon
<1>6. \A k \in DOMAIN jobs[s] :
          \/ row[k] = jobs[s][k] /\ (replaced => jobs[s][k].status # "applied")
          \/ row[k] = jobs[s][k] /\ ~replaced
          \/ jobs[s][k].status \in {"claimed", "applied"} /\ row[k].status = "lost"
  BY <1>2, <1>4, Zenon
<1>7. row \in [1 .. Len(jobs[s]) -> JobRecords]
  BY <1>3, <1>5, Histories
<1>8. row \in Seq(JobRecords)
  BY <1>7, Histories, SeqDef, IsASeq
<1>9. Len(row) = Len(jobs[s])
  BY <1>3, <1>8, Histories, LenProperties
<1>10. jobs'[s] = row /\ jobs' \in [Servers -> Seq(JobRecords)]
       /\ \A t \in Servers : t # s => jobs'[t] = jobs[t]
  BY <1>8 DEF ShapeInv, row
<1>. QED
  BY <1>3, <1>5, <1>6, <1>9, <1>10 DEF StatusesOf

(***************************************************************************)
(* Steps of nodes: the rollouts stay as they are                           *)
(***************************************************************************)
\* Histories only grow, and no job changes its version.
HistoriesGrow ==
    \A s \in Servers :
        /\ DOMAIN jobs[s] \subseteq DOMAIN jobs'[s]
        /\ \A k \in DOMAIN jobs[s] : jobs'[s][k].ver = jobs[s][k].ver

\* What holds of the rollouts survives every step of a node.
LEMMA RolloutsKept ==
    ASSUME Inv, UNCHANGED rollouts, HistoriesGrow
    PROVE  BoundInv' /\ EntryInv'
<1>1. UNCHANGED <<rstatus, target, entry, observed, bound>>
  BY DEF rollouts
<1>2. BoundInv'
  BY <1>1 DEF Inv, BoundInv, HistoriesGrow
<1>3. EntryInv'
  BY <1>1 DEF Inv, EntryInv, EntriesOf, Updating
<1>. QED
  BY <1>2, <1>3

\* Only the shape matters when neither jobs, versions nor credentials change.
LEMMA JobsKept ==
    ASSUME Inv, UNCHANGED <<jobs, host, aver, gen, net>>
    PROVE  QueueInv' /\ HostInv' /\ NetInv' /\ HistoriesGrow
  BY DEF Inv, QueueInv, HostInv, NetInv, Reports, HistoriesGrow

\* One more disruption.
LEMMA DisruptionFits ==
    ASSUME ShapeInv, Disruption
    PROVE  disruptions' \in 0 .. MaxDisruptions
  BY RolloutAssumption DEF ShapeInv, Disruption

\* An advance request looks at the rollout.
LEMMA InspectStep ==
    ASSUME Inv, NEW c \in Callers, NEW r \in Rollouts, Inspect(c, r)
    PROVE  Inv'
<1>1. UNCHANGED <<rollouts, jobs, agents, mver, host, net, disruptions>>
  BY DEF Inspect
<1>2. call' \in [Callers -> Calls]
  BY DEF Inv, ShapeInv, Inspect, Calls
<1>3. ShapeInv'
  BY <1>1, <1>2 DEF Inv, ShapeInv, rollouts, agents
<1>4. QueueInv' /\ HostInv' /\ NetInv' /\ HistoriesGrow
  BY <1>1, JobsKept DEF agents
<1>. QED
  BY <1>1, <1>3, <1>4, RolloutsKept DEF Inv

\* A heartbeat ages, the node becomes unready, the Manager restarts.
LEMMA QuietSteps ==
    ASSUME Inv,
           \/ \E s \in Servers : HeartbeatAges(s) \/ NodeUnready(s)
           \/ \E v \in Versions : ManagerRestarts(v)
    PROVE  Inv'
<1>1. UNCHANGED <<rollouts, jobs, aver, gen, after, host, net>> /\ Disruption
  BY DEF HeartbeatAges, NodeUnready, ManagerRestarts, agents
<1>2. /\ hb' \in [Servers -> {"none", "stale", "fresh"}]
      /\ mver' \in Versions /\ call' \in [Callers -> Calls]
  BY DEF Inv, ShapeInv, HeartbeatAges, NodeUnready, ManagerRestarts, agents, Calls
<1>3. ready' \in [Servers -> BOOLEAN]
  BY DEF Inv, ShapeInv, HeartbeatAges, NodeUnready, ManagerRestarts, agents
<1>4. ShapeInv'
  BY <1>1, <1>2, <1>3, DisruptionFits DEF Inv, ShapeInv, rollouts
<1>5. QueueInv' /\ HostInv' /\ NetInv' /\ HistoriesGrow
  BY <1>1, JobsKept
<1>. QED
  BY <1>1, <1>4, <1>5, RolloutsKept DEF Inv

\* The heartbeat a node sends now.
LEMMA HeartbeatNow ==
    ASSUME ShapeInv, NEW s \in Servers
    PROVE  /\ HeartbeatOf(s) \in Heartbeats /\ HeartbeatOf(s).server = s
           /\ HeartbeatOf(s).ver = host[s] /\ HeartbeatOf(s).gen = gen[s]
  BY DEF ShapeInv, HeartbeatOf, Heartbeats

\* A heartbeat is handled, now or late: a current one of a registered node that
\* runs what it reports does not change that.
LEMMA HeartbeatHandled ==
    ASSUME Inv, NEW m \in Heartbeats, UpdateAgentHeartbeat(m), net' \subseteq net,
           m.gen = gen[m.server] => m \in net \/ m.ver = host[m.server]
    PROVE  Inv'
<1>. DEFINE s == m.server
<1>1. s \in Servers /\ m.ver \in Versions
  BY DEF Heartbeats
<1>2. UNCHANGED <<rollouts, jobs, mver, host, call, disruptions, gen>>
  BY DEF UpdateAgentHeartbeat, agents
<1>3. \/ UNCHANGED <<aver, hb, after, ready>>
      \/ /\ m.gen = gen[s]
         /\ aver' = [aver EXCEPT ![s] = m.ver]
         /\ hb' = [hb EXCEPT ![s] = "fresh"]
         /\ after' = [after EXCEPT ![s] = EndedJobs(s)]
         /\ ready' = [ready EXCEPT ![s] = TRUE]
  BY DEF UpdateAgentHeartbeat, agents, Authenticates
<1>4. EndedJobs(s) \subseteq Nat
  BY <1>1, Histories DEF Inv, EndedJobs
<1>5. aver' \in [Servers -> Versions] /\ hb' \in [Servers -> {"none", "stale", "fresh"}]
      /\ after' \in [Servers -> SUBSET Nat]
  <2>1. aver' \in [Servers -> Versions] /\ hb' \in [Servers -> {"none", "stale", "fresh"}]
    BY <1>1, <1>3 DEF Inv, ShapeInv
  <2>2. after \in [Servers -> SUBSET Nat] /\ EndedJobs(s) \in SUBSET Nat
    BY <1>4 DEF Inv, ShapeInv
  <2>3. after' = after \/ after' = [after EXCEPT ![s] = EndedJobs(s)]
    BY <1>3
  <2>4. after' \in [Servers -> SUBSET Nat]
    BY <2>2, <2>3
  <2>. QED
    BY <2>1, <2>4
<1>6. ready' \in [Servers -> BOOLEAN]
  <2>1. ready \in [Servers -> BOOLEAN]
    BY DEF Inv, ShapeInv
  <2>2. ready' = ready \/ ready' = [ready EXCEPT ![s] = TRUE]
    BY <1>3
  <2>. QED
    BY <2>1, <2>2
<1>7. ShapeInv'
  BY <1>2, <1>5, <1>6 DEF Inv, ShapeInv, rollouts
<1>8. QueueInv' /\ NetInv' /\ HistoriesGrow
  BY <1>2 DEF Inv, QueueInv, NetInv, HistoriesGrow
<1>9. \A t \in Servers : Reports(t) => Reports(t)'
  <2>. SUFFICES ASSUME NEW t \in Servers, Reports(t) PROVE Reports(t)'
    OBVIOUS
  <2>1. aver'[t] = aver[t] \/ (t = s /\ m.gen = gen[s] /\ aver'[t] = m.ver)
    BY <1>1, <1>3 DEF Inv, ShapeInv
  <2>2. t = s /\ m.gen = gen[s] => m.ver = host[t]
    BY DEF Reports
  <2>3. aver'[t] = host[t]
    BY <2>1, <2>2 DEF Reports
  <2>. QED
    BY <1>2, <2>3 DEF Reports
<1>10. HostInv'
  BY <1>2, <1>9 DEF Inv, HostInv
<1>. QED
  BY <1>2, <1>7, <1>8, <1>10, RolloutsKept DEF Inv

\* A heartbeat arrives at once, is delayed, or arrives late.
LEMMA HeartbeatSteps ==
    ASSUME Inv,
           \/ \E s \in Servers : Heartbeat(s) \/ DelayHeartbeat(s)
           \/ \E m \in net : LateHeartbeat(m)
    PROVE  Inv'
<1>1. ASSUME NEW s \in Servers, Heartbeat(s) PROVE Inv'
  BY <1>1, HeartbeatNow, HeartbeatHandled DEF Inv, Heartbeat
<1>2. ASSUME NEW m \in net, LateHeartbeat(m) PROVE Inv'
  <2>1. m \in Heartbeats
    BY DEF Inv, ShapeInv
  <2>. QED
    BY <1>2, <2>1, HeartbeatHandled DEF LateHeartbeat
<1>3. ASSUME NEW s \in Servers, DelayHeartbeat(s) PROVE Inv'
  <2>1. net' = net \cup {HeartbeatOf(s)} /\ Disruption
        /\ UNCHANGED <<rollouts, jobs, agents, mver, host, call>>
    BY <1>3 DEF DelayHeartbeat
  <2>2. ShapeInv'
    BY <2>1, HeartbeatNow, DisruptionFits DEF Inv, ShapeInv, rollouts, agents
  <2>3. QueueInv' /\ HistoriesGrow
    BY <2>1 DEF Inv, QueueInv, HistoriesGrow
  <2>4. NetInv'
    BY <2>1, HeartbeatNow DEF Inv, NetInv, ShapeInv, agents
  <2>5. \A t \in Servers : Reports(t) => Reports(t)'
    BY <2>1, HeartbeatNow DEF Inv, Reports, agents
  <2>6. HostInv'
    BY <2>1, <2>5 DEF Inv, HostInv
  <2>. QED
    BY <2>1, <2>2, <2>3, <2>4, <2>6, RolloutsKept DEF Inv
<1>. QED
  BY <1>1, <1>2, <1>3

(***************************************************************************)
(* Steps of jobs                                                           *)
(***************************************************************************)
\* A change of statuses keeps every history.
LEMMA StatusesGrow ==
    ASSUME ShapeInv, NEW s \in Servers, StatusesOf(s)
    PROVE  HistoriesGrow
  BY DEF StatusesOf, HistoriesGrow

\* The newest job is the only one that moves: an open job has nothing behind it.
LEMMA OpenIsNewest ==
    ASSUME Inv, NEW s \in Servers, NEW k \in DOMAIN jobs[s],
           jobs[s][k].status \notin {"succeeded", "failed"}
    PROVE  k = Len(jobs[s])
  BY DEF Inv, QueueInv

\* A new job where nothing is unresolved is the only one that is open.
LEMMA JobCreated ==
    ASSUME Inv, NEW s \in Servers, NEW v \in Versions, CanCreateJob(s), AppendJob(s, v),
           UNCHANGED <<aver, gen, host, net>>
    PROVE  QueueInv' /\ HostInv' /\ HistoriesGrow
<1>1. /\ jobs' \in [Servers -> Seq(JobRecords)]
      /\ \A t \in Servers : t # s => jobs'[t] = jobs[t]
      /\ Len(jobs'[s]) = Len(jobs[s]) + 1
      /\ DOMAIN jobs'[s] = DOMAIN jobs[s] \cup {Len(jobs[s]) + 1}
      /\ jobs'[s][Len(jobs[s]) + 1].status = "pending"
      /\ \A k \in DOMAIN jobs[s] : jobs'[s][k] = jobs[s][k]
  BY JobAppended DEF Inv
<1>2. \A k \in DOMAIN jobs[s] : jobs[s][k].status \in {"succeeded", "failed"}
  BY Histories DEF Inv, CanCreateJob, Interlock, Unresolved, JobRecords, EndStatuses
<1>3. QueueInv'
  BY <1>1, <1>2 DEF Inv, QueueInv
<1>4. \A t \in Servers : Reports(t) => Reports(t)'
  BY DEF Reports
<1>5. HostInv'
  BY <1>1, <1>4 DEF Inv, HostInv
<1>6. HistoriesGrow
  BY <1>1 DEF HistoriesGrow
<1>. QED
  BY <1>3, <1>5, <1>6

\* A direct update, outside every rollout.
LEMMA CreateDirectUpdateStep ==
    ASSUME Inv, NEW s \in Servers, NEW v \in Versions, CreateDirectUpdate(s, v)
    PROVE  Inv'
<1>1. CanCreateJob(s) /\ AppendJob(s, v) /\ Disruption
      /\ UNCHANGED <<rollouts, agents, mver, host, net, call>>
  BY DEF CreateDirectUpdate
<1>2. ShapeInv'
  BY <1>1, JobAppended, DisruptionFits DEF Inv, ShapeInv, rollouts, agents
<1>3. QueueInv' /\ HostInv' /\ HistoriesGrow
  BY <1>1, JobCreated DEF agents
<1>4. NetInv'
  BY <1>1 DEF Inv, NetInv, agents
<1>. QED
  BY <1>1, <1>2, <1>3, <1>4, RolloutsKept DEF Inv

\* The newest job of a node moves from an open status to another one.
LEMMA JobMoves ==
    ASSUME Inv, NEW s \in Servers, NEW k \in DOMAIN jobs[s], NEW st \in ActiveJob \cup EndStatuses,
           SetJob(s, k, st), jobs[s][k].status \notin {"succeeded", "failed"},
           host' \in [Servers -> Versions],
           \A t \in Servers : t # s => host'[t] = host[t],
           st \in {"applied", "succeeded"} => host'[s] = jobs[s][k].ver,
           UNCHANGED <<rollouts, agents, mver, net, call, disruptions>>
    PROVE  Inv'
<1>1. k = Len(jobs[s])
  BY OpenIsNewest
<1>2. /\ StatusesOf(s) /\ jobs'[s][k].status = st
      /\ \A i \in DOMAIN jobs[s] : i # k => jobs'[s][i] = jobs[s][i]
  BY JobSet DEF Inv
<1>3. ShapeInv'
  BY <1>2 DEF Inv, ShapeInv, StatusesOf, rollouts, agents
<1>4. QueueInv'
  BY <1>1, <1>2 DEF Inv, QueueInv, StatusesOf
<1>5. NetInv'
  BY DEF Inv, NetInv, agents
<1>6. HostInv'
  <2>1. ASSUME NEW t \in Servers, t # s, NEW i \in DOMAIN jobs'[t], i = Len(jobs'[t])
        PROVE  /\ jobs'[t][i].status = "applied" => host'[t] = jobs'[t][i].ver
               /\ jobs'[t][i].status = "succeeded" => host'[t] = jobs'[t][i].ver \/ Reports(t)'
    <3>1. jobs'[t] = jobs[t] /\ host'[t] = host[t] /\ UNCHANGED <<aver, gen, net>>
      BY <1>2, <2>1 DEF StatusesOf, agents
    <3>2. Reports(t) => Reports(t)'
      BY <3>1 DEF Reports
    <3>. QED
      BY <2>1, <3>1, <3>2 DEF Inv, HostInv
  <2>2. Len(jobs'[s]) = k /\ jobs'[s][k].ver = jobs[s][k].ver
    BY <1>1, <1>2 DEF StatusesOf
  <2>. QED
    BY <1>2, <2>1, <2>2 DEF HostInv
<1>. QED
  BY <1>2, <1>3, <1>4, <1>5, <1>6, StatusesGrow, RolloutsKept DEF Inv

\* Claim, installation and report of a job.
LEMMA JobSteps ==
    ASSUME Inv, NEW s \in Servers, JobStep(s)
    PROVE  Inv'
<1>0. PICK k \in DOMAIN jobs[s] :
          ClaimJob(s, k) \/ JobInstalls(s, k) \/ \E st \in EndStatuses : CompleteJob(s, k, st)
  BY DEF JobStep
<1>1. jobs[s][k].ver \in Versions
  BY Histories DEF Inv, JobRecords
<1>2. host \in [Servers -> Versions]
  BY DEF Inv, ShapeInv
<1>3. CASE ClaimJob(s, k)
  <2>1. "claimed" \in ActiveJob \cup EndStatuses
    BY DEF ActiveJob
  <2>. QED
    BY <1>2, <1>3, <2>1, JobMoves DEF ClaimJob
<1>4. CASE JobInstalls(s, k)
  <2>1. "applied" \in ActiveJob \cup EndStatuses
    BY DEF ActiveJob
  <2>2. SetJob(s, k, "applied") /\ jobs[s][k].status = "claimed"
        /\ host' = [host EXCEPT ![s] = jobs[s][k].ver]
        /\ UNCHANGED <<rollouts, agents, mver, net, call, disruptions>>
    BY <1>4 DEF JobInstalls
  <2>3. host' \in [Servers -> Versions] /\ host'[s] = jobs[s][k].ver
        /\ \A t \in Servers : t # s => host'[t] = host[t]
    BY <1>1, <1>2, <2>2
  <2>. QED
    BY <2>1, <2>2, <2>3, JobMoves
<1>5. ASSUME NEW st \in EndStatuses, CompleteJob(s, k, st) PROVE Inv'
  <2>1. jobs[s][k].status \in {"claimed", "applied"} /\ SetJob(s, k, st)
        /\ UNCHANGED <<rollouts, agents, mver, host, net, call, disruptions>>
    BY <1>5 DEF CompleteJob
  <2>2. st # "applied"
    BY DEF EndStatuses
  <2>3. st = "succeeded" => host[s] = jobs[s][k].ver
    <3>1. st = "succeeded" => jobs[s][k].status = "applied"
      BY <1>5 DEF CompleteJob
    <3>2. k = Len(jobs[s])
      BY <2>1, OpenIsNewest
    <3>. QED
      BY <3>1, <3>2 DEF Inv, HostInv
  <2>. QED
    BY <1>2, <2>1, <2>2, <2>3, JobMoves
<1>. QED
  BY <1>0, <1>3, <1>4, <1>5

\* A host registers: its reports are what it runs from now on.
LEMMA RegisterStep ==
    ASSUME Inv, NEW s \in Servers, NEW v \in Versions, NEW replaced \in BOOLEAN,
           Register(s, v, replaced)
    PROVE  Inv'
<1>1. /\ host' = [host EXCEPT ![s] = v] /\ aver' = [aver EXCEPT ![s] = v]
      /\ gen' = [gen EXCEPT ![s] = gen[s] + 1]
      /\ hb' = [hb EXCEPT ![s] = "none"] /\ after' = [after EXCEPT ![s] = {}]
      /\ ready' = [ready EXCEPT ![s] = TRUE]
      /\ Disruption /\ UNCHANGED <<rollouts, mver, net, call>>
      /\ ~replaced => v = host[s]
  BY DEF Register, NextGeneration
<1>2. /\ StatusesOf(s)
      /\ \A k \in DOMAIN jobs[s] :
            \/ jobs'[s][k] = jobs[s][k] /\ (replaced => jobs[s][k].status # "applied")
            \/ jobs'[s][k] = jobs[s][k] /\ ~replaced
            \/ jobs[s][k].status \in {"claimed", "applied"} /\ jobs'[s][k].status = "lost"
  BY JobsRegistered DEF Inv, Register
<1>3. /\ host' \in [Servers -> Versions] /\ aver' \in [Servers -> Versions]
      /\ hb' \in [Servers -> {"none", "stale", "fresh"}]
      /\ gen' \in [Servers -> Nat \ {0}]
  BY <1>1 DEF Inv, ShapeInv
<1>4. ready' \in [Servers -> BOOLEAN]
  BY <1>1 DEF Inv, ShapeInv
<1>5. after' \in [Servers -> SUBSET Nat]
  BY <1>1 DEF Inv, ShapeInv
<1>6. ShapeInv'
  BY <1>1, <1>2, <1>3, <1>4, <1>5, DisruptionFits DEF Inv, ShapeInv, StatusesOf, rollouts
<1>7. QueueInv'
  BY <1>2 DEF Inv, QueueInv, StatusesOf
<1>8. NetInv'
  <2>1. \A t \in Servers : gen'[t] >= gen[t] /\ gen'[t] \in Nat /\ gen[t] \in Nat
    BY <1>1 DEF Inv, ShapeInv
  <2>2. \A m \in net : m.server \in Servers /\ m.gen \in Nat
    BY DEF Inv, ShapeInv, Heartbeats
  <2>. QED
    BY <1>1, <2>1, <2>2 DEF Inv, NetInv
<1>9. Reports(s)'
  <2>1. \A m \in net : m.server = s => m.gen # gen'[s]
    <3>1. gen'[s] = gen[s] + 1 /\ gen[s] \in Nat
      BY <1>1 DEF Inv, ShapeInv
    <3>2. \A m \in net : m.gen \in Nat
      BY DEF Inv, ShapeInv, Heartbeats
    <3>. QED
      BY <3>1, <3>2 DEF Inv, NetInv
  <2>2. aver'[s] = host'[s]
    BY <1>1 DEF Inv, ShapeInv
  <2>. QED
    BY <1>1, <2>1, <2>2 DEF Reports
<1>10. HostInv'
  <2>1. ASSUME NEW t \in Servers, t # s, NEW i \in DOMAIN jobs'[t], i = Len(jobs'[t])
        PROVE  /\ jobs'[t][i].status = "applied" => host'[t] = jobs'[t][i].ver
               /\ jobs'[t][i].status = "succeeded" => host'[t] = jobs'[t][i].ver \/ Reports(t)'
    <3>1. jobs'[t] = jobs[t] /\ host'[t] = host[t] /\ aver'[t] = aver[t] /\ gen'[t] = gen[t]
          /\ net' = net
      BY <1>1, <1>2, <2>1 DEF Inv, ShapeInv, StatusesOf
    <3>2. Reports(t) => Reports(t)'
      BY <3>1 DEF Reports
    <3>. QED
      BY <2>1, <3>1, <3>2 DEF Inv, HostInv
  <2>2. ASSUME NEW i \in DOMAIN jobs'[s], i = Len(jobs'[s]), jobs'[s][i].status = "applied"
        PROVE  host'[s] = jobs'[s][i].ver
    <3>1. i \in DOMAIN jobs[s] /\ i = Len(jobs[s]) /\ jobs'[s][i].ver = jobs[s][i].ver
      BY <1>2, <2>2 DEF StatusesOf
    <3>2. ~replaced /\ jobs[s][i].status = "applied"
      BY <1>2, <2>2, <3>1
    <3>3. host'[s] = host[s]
      BY <1>1, <3>2 DEF Inv, ShapeInv
    <3>. QED
      BY <3>1, <3>2, <3>3 DEF Inv, HostInv
  <2>. QED
    BY <1>9, <2>1, <2>2 DEF HostInv
<1>. QED
  BY <1>1, <1>2, <1>6, <1>7, <1>8, <1>10, StatusesGrow, RolloutsKept DEF Inv

(***************************************************************************)
(* Steps of rollouts                                                       *)
(***************************************************************************)
\* What one admission transaction does to rollout r.
Admitted(r, s) ==
    /\ s \in Admissible(r) /\ HistoryUnchanged(r, s) /\ CanCreateJob(s)
    /\ AppendJob(s, target[r])
    /\ entry' = [entry EXCEPT ![r][s] = "updating"]
    /\ bound' = [bound EXCEPT ![r][s] = Len(jobs[s]) + 1]
    /\ SetRollout(r, "running")

Ended(r) ==
    /\ \/ SetRollout(r, "failed")
       \/ SetRollout(r, "succeeded") /\ Finished(entry[r])
    /\ UNCHANGED <<entry, bound, jobs>>

\* A plan lists nodes.
LEMMA PlanOfServers ==
    ASSUME ShapeInv, NEW r \in Rollouts
    PROVE  plan[r] \in Seq(Servers)
<1>1. plan[r] \in Plans \/ plan[r] = <<>>
  BY DEF ShapeInv
<1>2. << >> \in Seq(Servers)
  BY EmptySeq
<1>. QED
  BY <1>1, <1>2, RolloutAssumption

\* Nothing, the end of the rollout, or the admission of one node.
LEMMA AdmitOutcomes ==
    ASSUME Inv, NEW c \in Callers, Admit(c)
    PROVE  \/ UNCHANGED <<rstatus, entry, bound, jobs>>
           \/ \E r \in Rollouts :
                 /\ rstatus[r] \in {"pending", "running"} /\ Updating(r) = {}
                 /\ Ended(r) \/ \E s \in Servers : Admitted(r, s)
<1>. DEFINE r == call[c].rollout
<1>1. r \in Rollouts
  BY DEF Inv, ShapeInv, Calls, Admit
<1>2. AdmitTransaction(r)
  BY DEF Admit
<1>. HIDE DEF r
<1>3. CASE rstatus[r] \notin {"pending", "running"} \/ (rstatus[r] = "running" /\ Updating(r) # {})
  BY <1>2, <1>3 DEF AdmitTransaction
<1>4. CASE rstatus[r] \in {"pending", "running"} /\ ~(rstatus[r] = "running" /\ Updating(r) # {})
  <2>1. Updating(r) = {}
    BY <1>1, <1>4 DEF Inv, EntryInv, EntriesOf
  <2>2. \/ SetRollout(r, "succeeded") /\ Finished(entry[r]) /\ UNCHANGED <<entry, bound, jobs>>
        \/ SetRollout(r, "failed") /\ UNCHANGED <<entry, bound, jobs>>
        \/ \E s \in Admissible(r) : AdmitEntry(r, s)
        \/ UNCHANGED <<rstatus, entry, bound, jobs>>
    BY <1>2, <1>4 DEF AdmitTransaction
  <2>3. ASSUME NEW s \in Admissible(r), AdmitEntry(r, s)
        PROVE  Ended(r) \/ \E t \in Servers : Admitted(r, t)
    <3>1. s \in Servers
      <4>1. plan[r] \in Seq(Servers)
        BY <1>1, PlanOfServers DEF Inv
      <4>. QED
        BY <4>1, ElementOfSeq, LenProperties DEF Admissible, Members
    <3>. QED
      BY <2>3, <3>1 DEF AdmitEntry, Admitted, Ended
  <2>. QED
    BY <1>1, <1>4, <2>1, <2>2, <2>3 DEF Ended
<1>. QED
  BY <1>3, <1>4

\* A node of r is given a terminal verdict, which is that of r.
Judged(r, s) ==
    \E st \in {"failed", "outcome_unknown"} : Terminalize(r, s, st)

\* A node of r is proven healthy.
ProvenHealthy(r, s) ==
    /\ HistoryIsOurs(r, s) /\ jobs[s][bound[r][s]].status = "succeeded"
    /\ aver[s] = target[r]
    /\ entry' = [entry EXCEPT ![r][s] = "healthy"]
    /\ CompleteIfFinished(r)

\* Nothing, the end of the rollout, or the verdict on its one updating node.
LEMMA HealthOutcomes ==
    ASSUME Inv, NEW c \in Callers, Health(c)
    PROVE  \/ UNCHANGED <<rstatus, entry>>
           \/ \E r \in Rollouts :
                 /\ rstatus[r] = "running"
                 /\ \/ Updating(r) = {} /\ Finished(entry[r])
                       /\ SetRollout(r, "succeeded") /\ UNCHANGED entry
                    \/ \E s \in Updating(r) : Judged(r, s) \/ ProvenHealthy(r, s)
<1>. DEFINE r == call[c].rollout
<1>1. r \in Rollouts
  BY DEF Inv, ShapeInv, Calls, Health
<1>2. HealthTransaction(r)
  BY DEF Health
<1>. HIDE DEF r
<1>3. CASE rstatus[r] # "running"
  BY <1>2, <1>3 DEF HealthTransaction
<1>4. CASE rstatus[r] = "running" /\ Updating(r) = {}
  <2>1. UNCHANGED entry /\ CompleteIfFinished(r)
    BY <1>2, <1>4 DEF HealthTransaction
  <2>2. CASE Finished(entry[r])
    BY <1>1, <1>4, <2>1, <2>2 DEF CompleteIfFinished, SetRollout
  <2>3. CASE ~Finished(entry[r])
    <3>1. rstatus' = [rstatus EXCEPT ![r] = rstatus[r]]
      BY <2>1, <2>3 DEF CompleteIfFinished
    <3>. QED
      BY <1>1, <2>1, <3>1 DEF Inv, ShapeInv
  <2>. QED
    BY <2>2, <2>3
<1>5. CASE rstatus[r] = "running" /\ Updating(r) # {}
  <2>1. PICK s \in Updating(r) : JudgeEntry(r, s)
    BY <1>2, <1>5 DEF HealthTransaction
  <2>2. \/ UNCHANGED <<rstatus, entry>>
        \/ Judged(r, s)
        \/ ProvenHealthy(r, s)
    BY <2>1 DEF JudgeEntry, Judged, ProvenHealthy, AgentProves
  <2>. QED
    BY <1>1, <1>5, <2>2
<1>. QED
  BY <1>3, <1>4, <1>5

\* A node of r is given a status.
LEMMA EntrySet ==
    ASSUME ShapeInv, NEW r \in Rollouts, NEW s \in Servers, NEW st \in EntryStatuses,
           entry' = [entry EXCEPT ![r][s] = st]
    PROVE  /\ entry' \in [Rollouts -> [Servers -> EntryStatuses]]
           /\ entry'[r][s] = st
           /\ \A t \in Servers : t # s => entry'[r][t] = entry[r][t]
           /\ \A q \in Rollouts : q # r => entry'[q] = entry[q]
  BY DEF ShapeInv

\* A rollout is given a status.
LEMMA RolloutSet ==
    ASSUME ShapeInv, NEW r \in Rollouts, NEW st \in RolloutStatuses, SetRollout(r, st)
    PROVE  /\ rstatus' \in [Rollouts -> RolloutStatuses] /\ rstatus'[r] = st
           /\ \A q \in Rollouts : q # r => rstatus'[q] = rstatus[q]
  BY DEF ShapeInv, SetRollout

\* The plan is persisted: nothing of the rollout existed before.
LEMMA PersistPlanStep ==
    ASSUME Inv, NEW r \in Rollouts, NEW v \in Versions, NEW p \in Plans, PersistPlan(r, v, p)
    PROVE  Inv'
<1>1. /\ rstatus[r] = "absent" /\ rstatus' = [rstatus EXCEPT ![r] = "pending"]
      /\ target' = [target EXCEPT ![r] = v] /\ plan' = [plan EXCEPT ![r] = p]
      /\ UNCHANGED <<bound, jobs, agents, mver, host, net, call, disruptions>>
  BY DEF PersistPlan
<1>2. /\ entry' \in [Rollouts -> [Servers -> EntryStatuses]]
      /\ \A s \in Servers : entry'[r][s] \in {"none", "queued", "skipped"}
      /\ \A q \in Rollouts : q # r => entry'[q] = entry[q]
  BY DEF Inv, ShapeInv, PersistPlan, EntryStatuses
<1>3. /\ observed' \in [Rollouts -> [Servers -> Nat]]
      /\ \A q \in Rollouts : q # r => observed'[q] = observed[q]
  <2>1. \A s \in Servers : Len(jobs[s]) \in Nat
    BY Histories DEF Inv
  <2>. QED
    BY <2>1 DEF Inv, ShapeInv, PersistPlan
<1>4. /\ rstatus' \in [Rollouts -> RolloutStatuses] /\ rstatus'[r] = "pending"
      /\ target' \in [Rollouts -> Versions] /\ plan' \in [Rollouts -> Plans \cup {<<>>}]
      /\ \A q \in Rollouts : q # r => rstatus'[q] = rstatus[q] /\ target'[q] = target[q]
  BY <1>1 DEF Inv, ShapeInv, RolloutStatuses
<1>5. ShapeInv'
  BY <1>1, <1>2, <1>3, <1>4 DEF Inv, ShapeInv, agents
<1>6. QueueInv' /\ HostInv' /\ NetInv'
  BY <1>1, JobsKept DEF agents
<1>7. \A s \in Servers : bound[r][s] = 0
  BY <1>1 DEF Inv, EntryInv, EntriesOf
<1>8. BoundInv'
  <2>1. ASSUME NEW q \in Rollouts, NEW s \in Servers
        PROVE  /\ entry'[q][s] = "updating" => bound'[q][s] # 0
               /\ bound'[q][s] # 0 =>
                     /\ bound'[q][s] \in DOMAIN jobs'[s]
                     /\ bound'[q][s] = observed'[q][s] + 1
                     /\ jobs'[s][bound'[q][s]].ver = target'[q]
                     /\ \A u \in Rollouts \ {q} : bound'[u][s] # bound'[q][s]
    <3>1. CASE q = r
      BY <1>1, <1>2, <1>7, <3>1
    <3>2. CASE q # r
      <4>1. entry'[q] = entry[q] /\ observed'[q] = observed[q] /\ target'[q] = target[q]
            /\ bound' = bound /\ jobs' = jobs
        BY <1>1, <1>2, <1>3, <1>4, <3>2
      <4>. QED
        BY <4>1 DEF Inv, BoundInv
    <3>. QED
      BY <3>1, <3>2
  <2>. QED
    BY <2>1 DEF BoundInv
<1>9. EntryInv'
  <2>1. ASSUME NEW q \in Rollouts, q # r PROVE EntriesOf(q)'
    BY <1>1, <1>2, <1>4, <2>1 DEF Inv, EntryInv, EntriesOf, Updating
  <2>2. EntriesOf(r)'
    BY <1>2, <1>4 DEF EntriesOf, Updating
  <2>. QED
    BY <2>1, <2>2 DEF EntryInv
<1>. QED
  BY <1>5, <1>6, <1>8, <1>9 DEF Inv

\* One admission transaction.
LEMMA AdmitStep ==
    ASSUME Inv, NEW c \in Callers, Admit(c)
    PROVE  Inv'
<1>1. UNCHANGED <<target, plan, observed, agents, mver, host, net, disruptions>>
      /\ call' \in [Callers -> Calls]
  BY DEF Admit, Inv, ShapeInv, Calls
<1>2. CASE UNCHANGED <<rstatus, entry, bound, jobs>>
  <2>1. ShapeInv'
    BY <1>1, <1>2 DEF Inv, ShapeInv, agents
  <2>2. QueueInv' /\ HostInv' /\ NetInv' /\ HistoriesGrow
    BY <1>1, <1>2, JobsKept DEF agents
  <2>. QED
    BY <1>1, <1>2, <2>1, <2>2, RolloutsKept DEF Inv, rollouts
<1>3. ASSUME NEW r \in Rollouts, rstatus[r] \in {"pending", "running"}, Updating(r) = {}, Ended(r)
      PROVE  Inv'
  <2>1. /\ rstatus' \in [Rollouts -> RolloutStatuses] /\ rstatus'[r] \in {"failed", "succeeded"}
        /\ \A q \in Rollouts : q # r => rstatus'[q] = rstatus[q]
    BY <1>3, RolloutSet DEF Inv, Ended, RolloutStatuses, EndStatuses
  <2>2. UNCHANGED <<entry, bound, jobs>>
    BY <1>3 DEF Ended
  <2>3. ShapeInv'
    BY <1>1, <2>1, <2>2 DEF Inv, ShapeInv, agents
  <2>4. QueueInv' /\ HostInv' /\ NetInv'
    BY <1>1, <2>2, JobsKept DEF agents
  <2>5. BoundInv'
    BY <1>1, <2>2 DEF Inv, BoundInv
  <2>6. EntryInv'
    <3>1. ASSUME NEW q \in Rollouts, q # r PROVE EntriesOf(q)'
      BY <2>1, <2>2, <3>1 DEF Inv, EntryInv, EntriesOf, Updating
    <3>2. EntriesOf(r)'
      BY <1>3, <2>1, <2>2 DEF EntriesOf, Updating
    <3>. QED
      BY <3>1, <3>2 DEF EntryInv
  <2>. QED
    BY <2>3, <2>4, <2>5, <2>6 DEF Inv
<1>4. ASSUME NEW r \in Rollouts, rstatus[r] \in {"pending", "running"}, Updating(r) = {},
             NEW s \in Servers, Admitted(r, s)
      PROVE  Inv'
  <2>1. target[r] \in Versions
    BY DEF Inv, ShapeInv
  <2>2. CanCreateJob(s) /\ AppendJob(s, target[r]) /\ Len(jobs[s]) = observed[r][s]
    BY <1>4 DEF Admitted, HistoryUnchanged
  <2>3. /\ jobs' \in [Servers -> Seq(JobRecords)]
        /\ \A t \in Servers : t # s => jobs'[t] = jobs[t]
        /\ DOMAIN jobs'[s] = DOMAIN jobs[s] \cup {Len(jobs[s]) + 1}
        /\ jobs'[s][Len(jobs[s]) + 1].ver = target[r]
        /\ \A k \in DOMAIN jobs[s] : jobs'[s][k] = jobs[s][k]
    BY <2>1, <2>2, JobAppended DEF Inv
  <2>4. /\ entry' \in [Rollouts -> [Servers -> EntryStatuses]] /\ entry'[r][s] = "updating"
        /\ \A t \in Servers : t # s => entry'[r][t] = entry[r][t]
        /\ \A q \in Rollouts : q # r => entry'[q] = entry[q]
    BY <1>4, EntrySet DEF Inv, Admitted, EntryStatuses
  <2>5. /\ rstatus' \in [Rollouts -> RolloutStatuses] /\ rstatus'[r] = "running"
        /\ \A q \in Rollouts : q # r => rstatus'[q] = rstatus[q]
    BY <1>4, RolloutSet DEF Inv, Admitted, RolloutStatuses
  <2>6. /\ bound' \in [Rollouts -> [Servers -> Nat]] /\ bound'[r][s] = Len(jobs[s]) + 1
        /\ \A t \in Servers : t # s => bound'[r][t] = bound[r][t]
        /\ \A q \in Rollouts : q # r => bound'[q] = bound[q]
    <3>1. Len(jobs[s]) + 1 \in Nat
      BY Histories DEF Inv
    <3>2. bound' = [bound EXCEPT ![r][s] = Len(jobs[s]) + 1]
      BY <1>4 DEF Admitted
    <3>. QED
      BY <3>1, <3>2 DEF Inv, ShapeInv
  <2>7. ShapeInv'
    BY <1>1, <2>3, <2>4, <2>5, <2>6 DEF Inv, ShapeInv, agents
  <2>8. QueueInv' /\ HostInv' /\ NetInv'
    <3>1. QueueInv' /\ HostInv'
      BY <1>1, <2>1, <2>2, JobCreated DEF agents
    <3>. QED
      BY <1>1, <3>1 DEF Inv, NetInv, agents
  <2>9. BoundInv'
    <3>1. ASSUME NEW q \in Rollouts, NEW t \in Servers
          PROVE  /\ entry'[q][t] = "updating" => bound'[q][t] # 0
                 /\ bound'[q][t] # 0 =>
                       /\ bound'[q][t] \in DOMAIN jobs'[t]
                       /\ bound'[q][t] = observed'[q][t] + 1
                       /\ jobs'[t][bound'[q][t]].ver = target'[q]
                       /\ \A u \in Rollouts \ {q} : bound'[u][t] # bound'[q][t]
      <4>0. Len(jobs[s]) \in Nat /\ DOMAIN jobs[s] = 1 .. Len(jobs[s])
        BY Histories DEF Inv
      <4>1. \A u \in Rollouts : bound[u][s] # Len(jobs[s]) + 1
        BY <4>0 DEF Inv, BoundInv
      <4>2. CASE t # s
        <5>1. \A u \in Rollouts : bound'[u][t] = bound[u][t] /\ entry'[u][t] = entry[u][t]
          BY <2>4, <2>6, <4>2
        <5>. QED
          BY <1>1, <2>3, <4>2, <5>1 DEF Inv, BoundInv
      <4>3. CASE t = s /\ q = r
        <5>1. \A u \in Rollouts \ {r} : bound'[u][s] = bound[u][s]
          BY <2>6
        <5>2. bound'[q][t] = observed'[q][t] + 1 /\ jobs'[t][bound'[q][t]].ver = target'[q]
          BY <1>1, <2>2, <2>3, <2>6, <4>3
        <5>3. bound'[q][t] \in DOMAIN jobs'[t] /\ bound'[q][t] # 0
          BY <2>3, <2>6, <4>0, <4>3
        <5>. QED
          BY <2>6, <4>1, <4>3, <5>1, <5>2, <5>3
      <4>4. CASE t = s /\ q # r
        <5>1. bound'[q][s] = bound[q][s] /\ entry'[q][s] = entry[q][s]
          BY <2>4, <2>6, <4>4
        <5>2. \A u \in Rollouts : bound'[u][s] = bound[u][s] \/ bound'[u][s] = Len(jobs[s]) + 1
          BY <2>6
        <5>3. bound'[q][s] # 0 => \A u \in Rollouts \ {q} : bound'[u][s] # bound'[q][s]
          BY <4>1, <5>1, <5>2 DEF Inv, BoundInv
        <5>. QED
          BY <1>1, <2>3, <4>4, <5>1, <5>3 DEF Inv, BoundInv
      <4>. QED
        BY <4>2, <4>3, <4>4
    <3>. QED
      BY <3>1 DEF BoundInv
  <2>10. EntryInv'
    <3>1. ASSUME NEW q \in Rollouts, q # r PROVE EntriesOf(q)'
      <4>1. rstatus'[q] = rstatus[q] /\ entry'[q] = entry[q] /\ bound'[q] = bound[q]
        BY <2>4, <2>5, <2>6, <3>1
      <4>2. Updating(q)' = Updating(q)
        BY <4>1 DEF Updating
      <4>. QED
        BY <4>1, <4>2 DEF Inv, EntryInv, EntriesOf
    <3>2. EntriesOf(r)'
      <4>1. Updating(r)' = {s}
        BY <1>4, <2>4 DEF Updating
      <4>2. \A t \in Servers : entry'[r][t] \notin {"failed", "outcome_unknown"}
        BY <1>4, <2>4 DEF Inv, EntryInv, EntriesOf
      <4>. QED
        BY <2>5, <4>1, <4>2 DEF EntriesOf
    <3>. QED
      BY <3>1, <3>2 DEF EntryInv
  <2>. QED
    BY <2>7, <2>8, <2>9, <2>10 DEF Inv
<1>. QED
  BY <1>2, <1>3, <1>4, AdmitOutcomes

\* One health transaction.
LEMMA HealthStep ==
    ASSUME Inv, NEW c \in Callers, Health(c)
    PROVE  Inv'
<1>1. UNCHANGED <<target, plan, observed, bound, jobs, agents, mver, host, net, disruptions>>
      /\ call' \in [Callers -> Calls]
  BY DEF Health, Inv, ShapeInv, Calls
<1>2. QueueInv' /\ HostInv' /\ NetInv' /\ HistoriesGrow
  BY <1>1, JobsKept DEF agents
<1>3. CASE UNCHANGED <<rstatus, entry>>
  <2>1. ShapeInv'
    BY <1>1, <1>3 DEF Inv, ShapeInv, agents
  <2>. QED
    BY <1>1, <1>2, <1>3, <2>1, RolloutsKept DEF Inv, rollouts
<1>4. ASSUME NEW r \in Rollouts, rstatus[r] = "running",
             entry' \in [Rollouts -> [Servers -> EntryStatuses]],
             rstatus' \in [Rollouts -> RolloutStatuses],
             \A q \in Rollouts : q # r => rstatus'[q] = rstatus[q] /\ entry'[q] = entry[q],
             \A s \in Servers : entry'[r][s] # "updating",
             \/ rstatus'[r] \in EndStatuses
             \/ /\ rstatus'[r] = "running"
                /\ \A s \in Servers : entry'[r][s] \notin {"failed", "outcome_unknown"}
      PROVE  Inv'
  <2>1. ShapeInv'
    BY <1>1, <1>4 DEF Inv, ShapeInv, agents
  <2>2. \A q \in Rollouts, s \in Servers : entry'[q][s] = "updating" => entry[q][s] = "updating"
    BY <1>4
  <2>3. BoundInv'
    BY <1>1, <2>2 DEF Inv, BoundInv
  <2>4. EntryInv'
    <3>1. ASSUME NEW q \in Rollouts, q # r PROVE EntriesOf(q)'
      BY <1>1, <1>4, <3>1 DEF Inv, EntryInv, EntriesOf, Updating
    <3>2. EntriesOf(r)'
      BY <1>4 DEF EntriesOf, EndStatuses, Updating
    <3>. QED
      BY <3>1, <3>2 DEF EntryInv
  <2>. QED
    BY <1>2, <2>1, <2>3, <2>4 DEF Inv
<1>5. ASSUME NEW r \in Rollouts, rstatus[r] = "running", Updating(r) = {},
             SetRollout(r, "succeeded"), UNCHANGED entry
      PROVE  Inv'
  <2>1. /\ rstatus' \in [Rollouts -> RolloutStatuses] /\ rstatus'[r] = "succeeded"
        /\ \A q \in Rollouts : q # r => rstatus'[q] = rstatus[q]
    BY <1>5, RolloutSet DEF Inv, RolloutStatuses, EndStatuses
  <2>2. entry' \in [Rollouts -> [Servers -> EntryStatuses]] 
        /\ \A s \in Servers : entry'[r][s] # "updating"
    BY <1>5 DEF Inv, ShapeInv, Updating
  <2>3. \A q \in Rollouts : q # r => rstatus'[q] = rstatus[q] /\ entry'[q] = entry[q]
    BY <1>5, <2>1
  <2>4. rstatus'[r] \in EndStatuses
    BY <2>1 DEF EndStatuses
  <2>. QED
    BY <1>4, <1>5, <2>1, <2>2, <2>3, <2>4
<1>6. ASSUME NEW r \in Rollouts, rstatus[r] = "running", NEW s \in Updating(r),
             Judged(r, s) \/ ProvenHealthy(r, s)
      PROVE  Inv'
  <2>1. PICK st \in {"failed", "outcome_unknown", "healthy"} :
            /\ entry' = [entry EXCEPT ![r][s] = st]
            /\ \/ st # "healthy" /\ SetRollout(r, st)
               \/ st = "healthy" /\ CompleteIfFinished(r)
    BY <1>6 DEF Judged, Terminalize, ProvenHealthy
  <2>2. s \in Servers /\ \A t \in Updating(r) : t = s
    BY DEF Inv, EntryInv, EntriesOf, Updating
  <2>3. /\ entry' \in [Rollouts -> [Servers -> EntryStatuses]] /\ entry'[r][s] = st
        /\ \A t \in Servers : t # s => entry'[r][t] = entry[r][t]
        /\ \A q \in Rollouts : q # r => entry'[q] = entry[q]
    <3>1. st \in EntryStatuses
      BY DEF EntryStatuses
    <3>. QED
      BY <2>1, <2>2, <3>1, EntrySet DEF Inv
  <2>4. \A t \in Servers : entry'[r][t] # "updating"
    BY <2>2, <2>3 DEF Updating
  <2>5. /\ rstatus' \in [Rollouts -> RolloutStatuses]
        /\ \A q \in Rollouts : q # r => rstatus'[q] = rstatus[q]
        /\ IF st = "healthy" THEN rstatus'[r] \in {"running", "succeeded"} ELSE rstatus'[r] = st
    BY <1>6, <2>1 DEF Inv, ShapeInv, SetRollout, CompleteIfFinished, RolloutStatuses, EndStatuses
  <2>6. st = "healthy" =>
            \A t \in Servers : entry'[r][t] \notin {"failed", "outcome_unknown"}
    BY <1>6, <2>2, <2>3 DEF Inv, EntryInv, EntriesOf
  <2>7. \/ rstatus'[r] \in EndStatuses
        \/ /\ rstatus'[r] = "running"
           /\ \A t \in Servers : entry'[r][t] \notin {"failed", "outcome_unknown"}
    BY <2>5, <2>6 DEF EndStatuses
  <2>8. \A q \in Rollouts : q # r => rstatus'[q] = rstatus[q] /\ entry'[q] = entry[q]
    BY <2>3, <2>5
  <2>. QED
    BY <1>4, <1>6, <2>3, <2>4, <2>5, <2>7, <2>8
<1>. QED
  BY <1>3, <1>5, <1>6, HealthOutcomes

(***************************************************************************)
(* Safety                                                                  *)
(***************************************************************************)
\* The invariant holds before the first plan.
LEMMA InvInit == Init => Inv
<1>. SUFFICES ASSUME Init PROVE Inv
  OBVIOUS
<1>1. \A s \in Servers : jobs[s] = <<>> /\ DOMAIN jobs[s] = {}
  BY DEF Init
<1>2. jobs \in [Servers -> Seq(JobRecords)]
  BY EmptySeq DEF Init
<1>3. ShapeInv
  <2>1. plan \in [Rollouts -> Plans \cup {<<>>}]
    BY DEF Init
  <2>2. ready \in [Servers -> BOOLEAN]
    BY DEF Init
  <2>3. after \in [Servers -> SUBSET Nat]
    BY DEF Init
  <2>. QED
    BY <1>2, <2>1, <2>2, <2>3, RolloutAssumption
    DEF Init, ShapeInv, RolloutStatuses, EntryStatuses, Calls
<1>4. QueueInv /\ HostInv /\ NetInv
  BY <1>1 DEF Init, QueueInv, HostInv, NetInv
<1>5. BoundInv /\ EntryInv
  BY DEF Init, BoundInv, EntryInv, EntriesOf, Updating
<1>. QED
  BY <1>3, <1>4, <1>5 DEF Inv

\* Every step keeps the invariant.
LEMMA InvNext == Inv /\ [Next]_vars => Inv'
<1>. SUFFICES ASSUME Inv, [Next]_vars PROVE Inv'
  OBVIOUS
<1>1. CASE UNCHANGED vars
  <2>1. UNCHANGED <<rollouts, jobs, agents, mver, host, net, call, disruptions>>
    BY <1>1 DEF vars
  <2>2. ShapeInv'
    BY <2>1 DEF Inv, ShapeInv, rollouts, agents
  <2>3. QueueInv' /\ HostInv' /\ NetInv' /\ HistoriesGrow
    BY <2>1, JobsKept DEF agents
  <2>. QED
    BY <2>1, <2>2, <2>3, RolloutsKept DEF Inv
<1>2. CASE Next
  BY <1>2, PersistPlanStep, InspectStep, AdmitStep, HealthStep, JobSteps, HeartbeatSteps,
     QuietSteps, CreateDirectUpdateStep, RegisterStep DEF Next, Advance
<1>. QED
  BY <1>1, <1>2

\* The inductive invariant is an invariant.
LEMMA Invariance == Spec => []Inv
  BY InvInit, InvNext, PTL DEF Spec

\* Every row of the rollouts, jobs and Agents keeps its type.
THEOREM TypeCorrect == Spec => []TypeOK
<1>1. Inv => TypeOK
  BY DEF Inv, ShapeInv, TypeOK
<1>. QED
  BY <1>1, Invariance, PTL

\* The update a rollout starts on a node is the first since the plan was made, is of
\* its target, and belongs to no other entry (platform_update_rollout_admission.go).
THEOREM FirstSincePlan == Spec => []BoundJobIsFirstSincePlan
<1>1. Inv => BoundJobIsFirstSincePlan
  BY DEF Inv, BoundInv, BoundJobIsFirstSincePlan
<1>. QED
  BY <1>1, Invariance, PTL

\* Rollouts are planned and advanced; nothing else changes them.
LEMMA RolloutChanges ==
    ASSUME [Next]_vars
    PROVE  \/ UNCHANGED <<rstatus, plan, entry>>
           \/ \E r \in Rollouts, v \in Versions, p \in Plans : PersistPlan(r, v, p)
           \/ \E c \in Callers : Admit(c) \/ Health(c)
<1>1. CASE UNCHANGED vars
  BY <1>1 DEF vars, rollouts
<1>2. CASE \E c \in Callers, r \in Rollouts : Inspect(c, r)
  BY <1>2 DEF Inspect, rollouts
<1>3. CASE \E s \in Servers : JobStep(s)
  BY <1>3 DEF JobStep, ClaimJob, JobInstalls, CompleteJob, rollouts
<1>4. CASE \E s \in Servers : Heartbeat(s) \/ DelayHeartbeat(s) \/ HeartbeatAges(s) \/ NodeUnready(s)
  BY <1>4 DEF Heartbeat, UpdateAgentHeartbeat, DelayHeartbeat, HeartbeatAges, NodeUnready, rollouts
<1>5. CASE \E s \in Servers, v \in Versions :
              CreateDirectUpdate(s, v) \/ \E replaced \in BOOLEAN : Register(s, v, replaced)
  BY <1>5 DEF CreateDirectUpdate, Register, rollouts
<1>6. CASE (\E m \in net : LateHeartbeat(m)) \/ \E v \in Versions : ManagerRestarts(v)
  BY <1>6 DEF LateHeartbeat, UpdateAgentHeartbeat, ManagerRestarts, rollouts
<1>. QED
  BY <1>1, <1>2, <1>3, <1>4, <1>5, <1>6 DEF Next, Advance

\* When a node is proven healthy its bound job is the newest one, succeeded, and the
\* node has either run it ever since or reports what it runs.
LEMMA ProvenRunsTarget ==
    ASSUME Inv, NEW r \in Rollouts, NEW s \in Updating(r), ProvenHealthy(r, s)
    PROVE  host[s] = target[r]
<1>1. s \in Servers /\ entry[r][s] = "updating"
  BY DEF Updating
<1>2. /\ bound[r][s] \in DOMAIN jobs[s] /\ bound[r][s] = observed[r][s] + 1
      /\ jobs[s][bound[r][s]].ver = target[r]
  BY <1>1 DEF Inv, BoundInv
<1>3. bound[r][s] = Len(jobs[s])
  BY <1>2 DEF ProvenHealthy, HistoryIsOurs
<1>4. host[s] = jobs[s][bound[r][s]].ver \/ Reports(s)
  BY <1>1, <1>2, <1>3 DEF Inv, HostInv, ProvenHealthy
<1>. QED
  BY <1>2, <1>4 DEF Reports, ProvenHealthy

\* A step that declares a node healthy finds it running the target.
HealthyStepRunsTarget ==
    \A r \in Rollouts, s \in Servers :
        entry[r][s] = "updating" /\ entry'[r][s] = "healthy" => host[s] = target[r]

\* Every step of the specification is one.
LEMMA HealthySteps ==
    ASSUME Inv, [Next]_vars
    PROVE  HealthyStepRunsTarget
<1>1. CASE UNCHANGED <<rstatus, plan, entry>>
  BY <1>1 DEF HealthyStepRunsTarget
<1>2. ASSUME NEW r \in Rollouts, NEW v \in Versions, NEW p \in Plans, PersistPlan(r, v, p)
      PROVE  HealthyStepRunsTarget
  <2>1. \A s \in Servers : entry[r][s] = "none"
    BY <1>2 DEF PersistPlan, Inv, EntryInv, EntriesOf
  <2>2. \A q \in Rollouts : q # r => entry'[q] = entry[q]
    BY <1>2 DEF PersistPlan, Inv, ShapeInv
  <2>. QED
    BY <2>1, <2>2 DEF HealthyStepRunsTarget
<1>3. ASSUME NEW c \in Callers, Admit(c) PROVE HealthyStepRunsTarget
  <2>1. UNCHANGED entry \/ \E r \in Rollouts, s \in Servers : entry' = [entry EXCEPT ![r][s] = "updating"]
    BY <1>3, AdmitOutcomes DEF Ended, Admitted
  <2>2. ASSUME NEW r \in Rollouts, NEW s \in Servers, entry' = [entry EXCEPT ![r][s] = "updating"]
        PROVE  HealthyStepRunsTarget
    <3>1. "updating" \in EntryStatuses
      BY DEF EntryStatuses
    <3>. QED
      BY <2>2, <3>1, EntrySet DEF Inv, HealthyStepRunsTarget
  <2>. QED
    BY <2>1, <2>2 DEF HealthyStepRunsTarget
<1>4. ASSUME NEW c \in Callers, Health(c) PROVE HealthyStepRunsTarget
  <2>1. \/ UNCHANGED entry
        \/ \E r \in Rollouts : \E s \in Updating(r) : Judged(r, s) \/ ProvenHealthy(r, s)
    BY <1>4, HealthOutcomes
  <2>2. ASSUME NEW r \in Rollouts, NEW s \in Updating(r), Judged(r, s) \/ ProvenHealthy(r, s)
        PROVE  HealthyStepRunsTarget
    <3>1. PICK st \in {"failed", "outcome_unknown", "healthy"} :
              entry' = [entry EXCEPT ![r][s] = st] /\ (st = "healthy" => ProvenHealthy(r, s))
      BY <2>2 DEF Judged, Terminalize, ProvenHealthy
    <3>2. st \in EntryStatuses /\ s \in Servers
      BY DEF EntryStatuses, Updating
    <3>3. entry'[r][s] = st
          /\ (\A t \in Servers : t # s => entry'[r][t] = entry[r][t])
          /\ (\A q \in Rollouts : q # r => entry'[q] = entry[q])
      BY <3>1, <3>2, EntrySet DEF Inv
    <3>4. st = "healthy" => host[s] = target[r]
      BY <3>1, ProvenRunsTarget
    <3>. QED
      BY <3>3, <3>4 DEF HealthyStepRunsTarget
  <2>. QED
    BY <2>1, <2>2 DEF HealthyStepRunsTarget
<1>. QED
  BY <1>1, <1>2, <1>3, <1>4, RolloutChanges

\* A node is declared healthy only while it runs the target version, although
\* heartbeats arrive late and hosts are replaced (platform_update_rollout_health.go).
THEOREM HealthyMeansTarget == Spec => HealthyNodeRunsTarget
<1>1. Inv /\ [Next]_vars =>
        [ \A r \in Rollouts, s \in Servers :
            entry[r][s] = "updating" /\ entry'[r][s] = "healthy" => host[s] = target[r] ]_vars
  BY HealthySteps DEF HealthyStepRunsTarget
<1>. QED
  BY <1>1, Invariance, PTL DEF Spec, HealthyNodeRunsTarget

(***************************************************************************)
(* Refinement: the rollout is sequential                                   *)
(***************************************************************************)
\* The abstract variables that are computed from the entries.
Todo    == [r \in Rollouts |-> {s \in Servers : entry[r][s] = "queued"}]
Current == [r \in Rollouts |-> Updating(r)]
Proven  == [r \in Rollouts |-> {s \in Servers : entry[r][s] = "healthy"}]
Verdict == [r \in Rollouts |-> CASE rstatus[r] = "absent" -> "none"
                                   [] rstatus[r] \in {"pending", "running"} -> "open"
                                   [] OTHER -> rstatus[r]]

\* A function that changes at one point is the old one but for that point.
LEMMA OnePoint ==
    ASSUME NEW D, NEW f, NEW g, NEW r \in D, NEW x,
           f = [q \in D |-> f[q]], g = [q \in D |-> g[q]],
           g[r] = x, \A q \in D : q # r => g[q] = f[q]
    PROVE  g = [f EXCEPT ![r] = x]
  OBVIOUS

\* Each of them, rollout by rollout, before and after a step.
LEMMA AbstractValues ==
    /\ Todo = [r \in Rollouts |-> Todo[r]] /\ Todo' = [r \in Rollouts |-> Todo'[r]]
    /\ Current = [r \in Rollouts |-> Current[r]] /\ Current' = [r \in Rollouts |-> Current'[r]]
    /\ Proven = [r \in Rollouts |-> Proven[r]] /\ Proven' = [r \in Rollouts |-> Proven'[r]]
    /\ Verdict = [r \in Rollouts |-> Verdict[r]] /\ Verdict' = [r \in Rollouts |-> Verdict'[r]]
  BY DEF Todo, Current, Proven, Verdict

\* A rollout whose row and entries stay keeps its abstract values.
LEMMA RolloutStays ==
    ASSUME NEW q \in Rollouts
    PROVE  /\ entry'[q] = entry[q] =>
                 Todo'[q] = Todo[q] /\ Current'[q] = Current[q] /\ Proven'[q] = Proven[q]
           /\ rstatus'[q] = rstatus[q] => Verdict'[q] = Verdict[q]
           /\ rstatus[q] \in {"pending", "running"} => Verdict[q] = "open"
           /\ rstatus'[q] \in {"pending", "running"} => Verdict'[q] = "open"
           /\ rstatus'[q] \in EndStatuses => Verdict'[q] = rstatus'[q]
<1>1. entry'[q] = entry[q] =>
          Todo'[q] = Todo[q] /\ Current'[q] = Current[q] /\ Proven'[q] = Proven[q]
  BY DEF Todo, Current, Proven, Updating
<1>2. /\ rstatus'[q] = rstatus[q] => Verdict'[q] = Verdict[q]
      /\ rstatus[q] \in {"pending", "running"} => Verdict[q] = "open"
  BY DEF Verdict
<1>3. /\ rstatus'[q] \in {"pending", "running"} => Verdict'[q] = "open"
      /\ rstatus'[q] \in EndStatuses => Verdict'[q] = rstatus'[q]
  BY DEF Verdict, EndStatuses
<1>. QED
  BY <1>1, <1>2, <1>3

\* The planning step.
LEMMA PlanRefines ==
    ASSUME Inv, NEW r \in Rollouts, NEW v \in Versions, NEW p \in Plans, PersistPlan(r, v, p)
    PROVE  Abstract!Plan(r)
<1>1. /\ rstatus[r] = "absent" /\ rstatus' = [rstatus EXCEPT ![r] = "pending"]
      /\ plan' = [plan EXCEPT ![r] = p]
  BY DEF PersistPlan
<1>2. /\ \A s \in Servers : entry'[r][s] \in {"none", "queued", "skipped"}
      /\ \A s \in Servers : entry'[r][s] = "queued" => s \in {p[i] : i \in DOMAIN p}
      /\ \A q \in Rollouts : q # r => entry'[q] = entry[q]
  BY DEF Inv, ShapeInv, PersistPlan
<1>3. rstatus'[r] = "pending" /\ (\A q \in Rollouts : q # r => rstatus'[q] = rstatus[q])
      /\ plan'[r] = p /\ p \in Seq(Servers) /\ plan' = [plan EXCEPT ![r] = plan'[r]]
  BY <1>1, RolloutAssumption DEF Inv, ShapeInv
<1>4. Verdict' = [Verdict EXCEPT ![r] = "open"] /\ Verdict[r] = "none"
  <2>1. Verdict'[r] = "open" /\ \A q \in Rollouts : q # r => Verdict'[q] = Verdict[q]
    BY <1>3, RolloutStays
  <2>2. Verdict[r] = "none"
    BY <1>1 DEF Verdict
  <2>. QED
    BY <2>1, <2>2, AbstractValues, OnePoint
<1>5. Todo' = [Todo EXCEPT ![r] = Todo'[r]] /\ Todo'[r] \subseteq {p[i] : i \in DOMAIN p}
  <2>1. \A q \in Rollouts : q # r => Todo'[q] = Todo[q]
    BY <1>2, RolloutStays
  <2>2. Todo'[r] = {s \in Servers : entry'[r][s] = "queued"}
    BY DEF Todo
  <2>. QED
    BY <1>2, <2>1, <2>2, AbstractValues, OnePoint
<1>6. Current' = Current /\ Proven' = Proven
  <2>1. \A s \in Servers : entry[r][s] = "none"
    BY <1>1 DEF Inv, EntryInv, EntriesOf
  <2>2. Current'[r] = Current[r] /\ Proven'[r] = Proven[r]
    BY <1>2, <2>1 DEF Current, Proven, Updating
  <2>3. \A q \in Rollouts : Current'[q] = Current[q] /\ Proven'[q] = Proven[q]
    BY <1>2, <2>2, RolloutStays
  <2>. QED
    BY <2>3, AbstractValues
<1>. QED
  BY <1>3, <1>4, <1>5, <1>6 DEF Abstract!Plan, Todo, Current, Proven, Verdict

\* A rollout that ends without a node being touched.
LEMMA EndRefines ==
    ASSUME Inv, NEW r \in Rollouts, rstatus[r] \in {"pending", "running"}, Updating(r) = {},
           UNCHANGED <<plan, entry>>,
           \/ SetRollout(r, "failed")
           \/ SetRollout(r, "succeeded") /\ Finished(entry[r])
    PROVE  Abstract!Stop(r) \/ Abstract!Complete(r)
<1>1. Todo' = Todo /\ Current' = Current /\ Proven' = Proven
  BY DEF Todo, Current, Proven, Updating
<1>2. Verdict[r] = "open" /\ Current[r] = {}
  BY RolloutStays DEF Current
<1>3. Current' = [Current EXCEPT ![r] = {}]
  BY <1>1, <1>2, AbstractValues, OnePoint
<1>4. ASSUME NEW st \in EndStatuses, SetRollout(r, st) PROVE Verdict' = [Verdict EXCEPT ![r] = st]
  <2>1. st \in RolloutStatuses
    BY DEF RolloutStatuses
  <2>2. rstatus'[r] = st /\ \A q \in Rollouts : q # r => rstatus'[q] = rstatus[q]
    BY <1>4, <2>1, RolloutSet DEF Inv
  <2>3. Verdict'[r] = st /\ \A q \in Rollouts : q # r => Verdict'[q] = Verdict[q]
    BY <2>2, RolloutStays
  <2>. QED
    BY <2>3, AbstractValues, OnePoint
<1>5. CASE SetRollout(r, "failed")
  <2>1. Verdict' = [Verdict EXCEPT ![r] = "failed"]
    BY <1>4, <1>5 DEF EndStatuses
  <2>. QED
    BY <1>1, <1>2, <1>3, <2>1 DEF Abstract!Stop, Todo, Current, Proven, Verdict
<1>6. CASE SetRollout(r, "succeeded") /\ Finished(entry[r])
  <2>1. Verdict' = [Verdict EXCEPT ![r] = "succeeded"]
    BY <1>4, <1>6 DEF EndStatuses
  <2>2. Todo[r] = {}
    BY <1>6 DEF Todo, Finished, Passed
  <2>. QED
    BY <1>1, <1>2, <2>1, <2>2 DEF Abstract!Complete, Todo, Current, Proven, Verdict
<1>. QED
  BY <1>5, <1>6

\* A node is admitted: none before it in the plan is still to do.
LEMMA AdmittedRefines ==
    ASSUME Inv, NEW r \in Rollouts, rstatus[r] \in {"pending", "running"}, Updating(r) = {},
           NEW s \in Servers, Admitted(r, s), UNCHANGED plan
    PROVE  Abstract!Start(r, s)
<1>1. /\ entry'[r][s] = "updating"
      /\ \A t \in Servers : t # s => entry'[r][t] = entry[r][t]
      /\ \A q \in Rollouts : q # r => entry'[q] = entry[q]
  BY EntrySet DEF Inv, Admitted, EntryStatuses
<1>2. /\ rstatus'[r] = "running"
      /\ \A q \in Rollouts : q # r => rstatus'[q] = rstatus[q]
  BY RolloutSet DEF Inv, Admitted, RolloutStatuses
<1>3. entry[r][s] = "queued" /\ \A t \in Prior(r, s) : entry[r][t] \in Passed
  BY DEF Admitted, Admissible
<1>4. Verdict' = Verdict /\ Verdict[r] = "open"
  <2>1. \A q \in Rollouts : Verdict'[q] = Verdict[q]
    BY <1>2, RolloutStays
  <2>. QED
    BY <2>1, RolloutStays, AbstractValues
<1>5. Current[r] = {} /\ Current' = [Current EXCEPT ![r] = {s}]
  <2>1. Current[r] = {} /\ Current'[r] = {s}
    BY <1>1 DEF Current, Updating
  <2>2. \A q \in Rollouts : q # r => Current'[q] = Current[q]
    BY <1>1, RolloutStays
  <2>. QED
    BY <2>1, <2>2, AbstractValues, OnePoint
<1>6. s \in Todo[r] /\ Todo' = [Todo EXCEPT ![r] = Todo[r] \ {s}]
  <2>1. s \in Todo[r] /\ Todo'[r] = Todo[r] \ {s}
    BY <1>1, <1>3 DEF Todo
  <2>2. \A q \in Rollouts : q # r => Todo'[q] = Todo[q]
    BY <1>1, RolloutStays
  <2>. QED
    BY <2>1, <2>2, AbstractValues, OnePoint
<1>7. Proven' = Proven
  <2>1. Proven'[r] = Proven[r]
    BY <1>1, <1>3 DEF Proven
  <2>2. \A q \in Rollouts : Proven'[q] = Proven[q]
    BY <1>1, <2>1, RolloutStays
  <2>. QED
    BY <2>2, AbstractValues
<1>8. \A t \in Todo[r] : ~Abstract!Before(r, t, s)
  <2>. SUFFICES ASSUME NEW t \in Todo[r],
                       NEW i \in DOMAIN plan[r], NEW j \in DOMAIN plan[r], i < j,
                       plan[r][i] = t, plan[r][j] = s
                PROVE  FALSE
    BY DEF Abstract!Before
  <2>1. \A k, l \in DOMAIN plan[r] : plan[r][k] = plan[r][l] => k = l
    <3>1. plan[r] \in Plans \/ plan[r] = <<>>
      BY DEF Inv, ShapeInv
    <3>. QED
      BY <3>1, RolloutAssumption
  <2>2. Position(r, t) = i /\ Position(r, s) = j
    BY <2>1 DEF Position
  <2>3. t \in Prior(r, s)
    BY <2>2 DEF Prior, Members
  <2>. QED
    BY <1>3, <2>3 DEF Todo, Passed
<1>. QED
  BY <1>4, <1>5, <1>6, <1>7, <1>8 DEF Abstract!Start, Todo, Current, Proven, Verdict

\* The one updating node is proven, or its failure stops the rollout.
LEMMA VerdictRefines ==
    ASSUME Inv, NEW r \in Rollouts, rstatus[r] = "running", NEW s \in Updating(r),
           Judged(r, s) \/ ProvenHealthy(r, s), UNCHANGED plan
    PROVE  Abstract!Stop(r) \/ Abstract!Prove(r)
<1>1. s \in Servers /\ entry[r][s] = "updating" /\ \A t \in Updating(r) : t = s
  BY DEF Inv, EntryInv, EntriesOf, Updating
<1>2. Verdict[r] = "open" /\ Current[r] = {s}
  BY <1>1, RolloutStays DEF Current, Updating
<1>3. ASSUME NEW st \in EntryStatuses, st \notin {"queued", "updating"},
             entry' = [entry EXCEPT ![r][s] = st]
      PROVE  /\ Todo' = Todo /\ Current' = [Current EXCEPT ![r] = {}]
             /\ \A t \in Servers : entry'[r][t] = IF t = s THEN st ELSE entry[r][t]
             /\ \A q \in Rollouts : q # r => Proven'[q] = Proven[q]
  <2>1. /\ \A t \in Servers : entry'[r][t] = IF t = s THEN st ELSE entry[r][t]
        /\ \A q \in Rollouts : q # r => entry'[q] = entry[q]
    BY <1>1, <1>3, EntrySet DEF Inv
  <2>2. Todo'[r] = Todo[r]
    BY <1>1, <1>3, <2>1 DEF Todo
  <2>3. Current'[r] = {}
    BY <1>1, <1>3, <2>1 DEF Current, Updating
  <2>4. \A q \in Rollouts : q # r =>
            Todo'[q] = Todo[q] /\ Current'[q] = Current[q] /\ Proven'[q] = Proven[q]
    BY <2>1, RolloutStays
  <2>5. \A q \in Rollouts : Todo'[q] = Todo[q]
    BY <2>2, <2>4
  <2>6. Todo' = Todo
    BY <2>5, AbstractValues
  <2>7. Current' = [Current EXCEPT ![r] = {}]
    BY <2>3, <2>4, AbstractValues, OnePoint
  <2>. QED
    BY <2>1, <2>4, <2>6, <2>7
<1>4. ASSUME NEW st \in {"failed", "outcome_unknown"}, Terminalize(r, s, st)
      PROVE  Abstract!Stop(r)
  <2>1. st \in EntryStatuses /\ st \notin {"queued", "updating"} /\ st \in RolloutStatuses
        /\ st \in EndStatuses
    BY DEF EntryStatuses, RolloutStatuses, EndStatuses
  <2>2. entry' = [entry EXCEPT ![r][s] = st] /\ SetRollout(r, st)
    BY <1>4 DEF Terminalize
  <2>3. /\ Todo' = Todo /\ Current' = [Current EXCEPT ![r] = {}]
        /\ \A t \in Servers : entry'[r][t] = IF t = s THEN st ELSE entry[r][t]
        /\ \A q \in Rollouts : q # r => Proven'[q] = Proven[q]
    BY <1>3, <2>1, <2>2
  <2>4. Proven'[r] = Proven[r]
    BY <1>1, <1>4, <2>3 DEF Proven
  <2>5. Proven' = Proven
    BY <2>3, <2>4, AbstractValues
  <2>6. rstatus'[r] = st /\ \A q \in Rollouts : q # r => rstatus'[q] = rstatus[q]
    BY <2>1, <2>2, RolloutSet DEF Inv
  <2>7. Verdict'[r] = st /\ \A q \in Rollouts : q # r => Verdict'[q] = Verdict[q]
    BY <2>1, <2>6, RolloutStays
  <2>8. Verdict' = [Verdict EXCEPT ![r] = st]
    BY <2>7, AbstractValues, OnePoint
  <2>. QED
    BY <1>2, <2>3, <2>5, <2>8 DEF Abstract!Stop, Todo, Current, Proven, Verdict
<1>5. CASE ProvenHealthy(r, s)
  <2>1. entry' = [entry EXCEPT ![r][s] = "healthy"] /\ CompleteIfFinished(r)
        /\ "healthy" \in EntryStatuses
    BY <1>5 DEF ProvenHealthy, EntryStatuses
  <2>2. /\ Todo' = Todo /\ Current' = [Current EXCEPT ![r] = {}]
        /\ \A t \in Servers : entry'[r][t] = IF t = s THEN "healthy" ELSE entry[r][t]
        /\ \A q \in Rollouts : q # r => Proven'[q] = Proven[q]
    BY <1>3, <2>1
  <2>3. Proven'[r] = Proven[r] \cup Current[r]
    BY <1>1, <1>2, <2>2 DEF Proven
  <2>4. Proven' = [Proven EXCEPT ![r] = Proven[r] \cup Current[r]]
    BY <2>2, <2>3, AbstractValues, OnePoint
  <2>5. Finished(entry'[r]) <=> Todo[r] = {}
    <3>1. \A t \in Servers : t # s => entry[r][t] \in Passed \/ entry[r][t] = "queued"
      BY <1>1 DEF Inv, ShapeInv, EntryInv, EntriesOf, EntryStatuses, Passed, Updating
    <3>2. \A t \in Servers : entry'[r][t] \in Passed <=> entry[r][t] # "queued"
      BY <1>1, <2>2, <3>1 DEF Passed
    <3>. QED
      BY <3>2 DEF Finished, Todo
  <2>6. /\ rstatus'[r] = IF Todo[r] = {} THEN "succeeded" ELSE "running"
        /\ \A q \in Rollouts : q # r => rstatus'[q] = rstatus[q]
    BY <2>1, <2>5 DEF Inv, ShapeInv, CompleteIfFinished
  <2>7. /\ Verdict'[r] = IF Todo[r] = {} THEN "succeeded" ELSE Verdict[r]
        /\ \A q \in Rollouts : q # r => Verdict'[q] = Verdict[q]
    BY <1>2, <2>6, RolloutStays DEF EndStatuses
  <2>8. Verdict' = [Verdict EXCEPT ![r] = IF Todo[r] = {} THEN "succeeded" ELSE Verdict[r]]
    BY <2>7, AbstractValues, OnePoint
  <2>9. Current[r] # {}
    BY <1>2
  <2>. QED
    BY <1>2, <2>2, <2>4, <2>8, <2>9 DEF Abstract!Prove, Todo, Current, Proven, Verdict
<1>. QED
  BY <1>4, <1>5 DEF Judged

\* The initial state is the abstract one.
LEMMA InitRefines == Init => Abstract!Init
  BY DEF Init, Abstract!Init, Updating

\* Every step is an abstract one, or changes nothing of the abstract rollout.
LEMMA StepRefines == Inv /\ [Next]_vars => [Abstract!Next]_Abstract!vars
<1>. SUFFICES ASSUME Inv, [Next]_vars PROVE [Abstract!Next]_Abstract!vars
  OBVIOUS
<1>1. CASE UNCHANGED <<rstatus, plan, entry>>
  BY <1>1 DEF Abstract!vars, Updating
<1>2. ASSUME NEW r \in Rollouts, NEW v \in Versions, NEW p \in Plans, PersistPlan(r, v, p)
      PROVE  Abstract!Next
  BY <1>2, PlanRefines DEF Abstract!Next
<1>3. ASSUME NEW c \in Callers, Admit(c) PROVE [Abstract!Next]_Abstract!vars
  <2>1. UNCHANGED plan
    BY <1>3 DEF Admit
  <2>2. ASSUME NEW r \in Rollouts, rstatus[r] \in {"pending", "running"}, Updating(r) = {}, Ended(r)
        PROVE  Abstract!Next
    BY <2>1, <2>2, EndRefines DEF Ended, Abstract!Next
  <2>3. ASSUME NEW r \in Rollouts, rstatus[r] \in {"pending", "running"}, Updating(r) = {},
               NEW s \in Servers, Admitted(r, s)
        PROVE  Abstract!Next
    BY <2>1, <2>3, AdmittedRefines DEF Abstract!Next
  <2>. QED
    BY <1>1, <1>3, <2>1, <2>2, <2>3, AdmitOutcomes
<1>4. ASSUME NEW c \in Callers, Health(c) PROVE [Abstract!Next]_Abstract!vars
  <2>1. UNCHANGED plan
    BY <1>4 DEF Health
  <2>2. ASSUME NEW r \in Rollouts, rstatus[r] = "running", Updating(r) = {}, Finished(entry[r]),
               SetRollout(r, "succeeded"), UNCHANGED entry
        PROVE  Abstract!Next
    BY <2>1, <2>2, EndRefines DEF Abstract!Next
  <2>3. ASSUME NEW r \in Rollouts, rstatus[r] = "running", NEW s \in Updating(r),
               Judged(r, s) \/ ProvenHealthy(r, s)
        PROVE  Abstract!Next
    BY <2>1, <2>3, VerdictRefines DEF Abstract!Next
  <2>. QED
    BY <1>1, <1>4, <2>1, <2>2, <2>3, HealthOutcomes
<1>. QED
  BY <1>1, <1>2, <1>3, <1>4, RolloutChanges

\* Admission and health reconciliation, interleaved with each other, with node
\* updates, heartbeats and registrations in any way, implement the sequential rollout.
THEOREM SequentialRefinement == Spec => ImplementsSequentialRollout
  BY InitRefines, StepRefines, Invariance, PTL DEF Spec, ImplementsSequentialRollout, Abstract!Spec
=============================================================================
