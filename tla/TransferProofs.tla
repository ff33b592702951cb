--------------------------- MODULE TransferProofs ---------------------------
(***************************************************************************)
(* Transfers of any accounts between any nodes, manual or selected, beside *)
(* any number of configuration jobs, edits, failed applies and lost        *)
(* reports.                                                                *)
(***************************************************************************)
EXTENDS AutomaticSelection, SequenceTheorems, FiniteSetTheorems, TLAPS

Account == [server : Nodes, enabled : BOOLEAN, overLimit : BOOLEAN]
Node == [versions : Seq(Version), active : Nat, running : SUBSET Accounts]
Task == [job : Jobs, stage : {"applying", "succeeded", "failed"}]
History == [served : BOOLEAN, others : [Nodes -> SUBSET Accounts], relimited : SUBSET Accounts]

\* Every variable is a function of its key, or a sequence of rows.
ShapeInv ==
    /\ account \in [Accounts -> Account]
    /\ node \in [Nodes -> Node]
    /\ job \in Seq(Job)
    /\ agent \in [Nodes -> Task \cup {None}]
    /\ transfer \in Seq(Transfer)
    /\ reserved \in [Nodes -> Nat]
    /\ start \in Seq(History)
    /\ Len(start) = Len(transfer)

\* What is counted stays within its bound.
CountInv ==
    /\ \A n \in Nodes : /\ Len(node[n].versions) <= MaxVersions
                        /\ node[n].active <= Len(node[n].versions)
    /\ Len(job) <= MaxJobs /\ Len(transfer) <= MaxTransfers
    /\ edits \in 0 .. MaxEdits /\ faults \in 0 .. MaxFaults

\* Jobs are of versions that exist.
JobInv == \A j \in DOMAIN job : job[j].version <= Len(node[job[j].node].versions)

\* What an Agent has in its hands is in progress, and once it is applied the
\* node runs it.
HandInv ==
    \A n \in Nodes : agent[n] # None =>
        /\ agent[n].job \in DOMAIN job
        /\ job[agent[n].job].node = n /\ job[agent[n].job].status = "in_progress"
        /\ agent[n].stage = "succeeded" => node[n].running = Staged(n)

\* A reservation is of an active transfer that concerns the node.
ReservedInv ==
    \A n \in Nodes : reserved[n] # 0 =>
        /\ reserved[n] \in DOMAIN transfer
        /\ Active(reserved[n])
        /\ n \in {transfer[reserved[n]].source, transfer[reserved[n]].target}

\* On a reserved node only the current job of its transfer is open.
Open(j) == job[j].status \in {"pending", "in_progress"}

OpenInv ==
    \A j \in DOMAIN job :
        Open(j) /\ reserved[job[j].node] # 0 => j = CurrentJob(reserved[job[j].node])

\* The nodes of a transfer are two, and reserved for it.
Holds(t) ==
    /\ transfer[t].state # "preparing"
    /\ transfer[t].source # transfer[t].target
    /\ reserved[transfer[t].source] = t
    /\ reserved[transfer[t].target] = t

\* The node that a transfer changes at the moment is CleaningNode(t), also
\* before the cleanup; this is the version it is to run.
CurrentVersion(t) ==
    IF transfer[t].state \in {"source_cleaning", "target_cleaning"}
    THEN transfer[t].cleanupVersion ELSE transfer[t].targetVersion

\* The current job is to run this version, and when it has succeeded the node
\* does, in Manager's books and for real.
RunsJob(t) ==
    LET n == CleaningNode(t) IN
    /\ node[n].active = CurrentVersion(t)
    /\ node[n].running = node[n].versions[CurrentVersion(t)].accounts

Deploys(t) ==
    /\ CurrentJob(t) \in DOMAIN job
    /\ job[CurrentJob(t)].node = CleaningNode(t)
    /\ job[CurrentJob(t)].version = CurrentVersion(t)
    /\ job[CurrentJob(t)].status = "succeeded" => RunsJob(t)

\* Until its cleanup the source is as the transfer found it.
SourceKept(t) ==
    LET tr == transfer[t] IN
    /\ node[tr.source].active = tr.sourceVersion
    /\ tr.sourceVersion <= Len(node[tr.source].versions)
    /\ tr.account \in node[tr.source].versions[tr.sourceVersion].accounts
    /\ start[t].served => tr.account \in node[tr.source].running

\* Where the account is assigned, and what the two nodes know of it.
Keeps(t) ==
    LET tr == transfer[t] IN
    /\ account[tr.account].server =
          IF tr.state \in {"client_refresh_pending", "source_cleaning"} THEN tr.target ELSE tr.source
    /\ tr.state # "source_cleaning" => SourceKept(t)
    /\ tr.state \in {"target_ready", "client_refresh_pending"} =>
          /\ job[tr.targetJob].status = "succeeded"
          /\ tr.account \in node[tr.target].versions[tr.targetVersion].accounts
    /\ tr.state = "source_cleaning" => tr.account \in node[tr.target].running
    /\ tr.state \in {"source_cleaning", "target_cleaning"} =>
          tr.account \notin node[CleaningNode(t)].versions[tr.cleanupVersion].accounts

TransferInv == \A t \in DOMAIN transfer : Active(t) => Holds(t) /\ Deploys(t) /\ Keeps(t)

\* The inductive invariant of the transfers.
Inv == ShapeInv /\ CountInv /\ JobInv /\ HandInv /\ ReservedInv /\ OpenInv /\ TransferInv

\* A recent selection is remembered as such.
CooldownInv == \A a \in Accounts : chosen[a].recent => policy[a].last = "recent"

(***************************************************************************)
(* Rows                                                                    *)
(***************************************************************************)
\* Jobs, transfers and histories are sequences of rows.
LEMMA Rows ==
    ASSUME ShapeInv
    PROVE  /\ Len(job) \in Nat /\ DOMAIN job = 1 .. Len(job)
           /\ \A j \in DOMAIN job : job[j] \in Job
           /\ Len(transfer) \in Nat /\ DOMAIN transfer = 1 .. Len(transfer)
           /\ \A t \in DOMAIN transfer : transfer[t] \in Transfer
           /\ DOMAIN start = DOMAIN transfer
           /\ \A t \in DOMAIN start : start[t] \in History
  BY DEF ShapeInv

\* The versions of a node are a sequence.
LEMMA NodeRow ==
    ASSUME ShapeInv, NEW n \in Nodes
    PROVE  /\ node[n] \in Node
           /\ node[n].versions \in Seq(Version)
           /\ Len(node[n].versions) \in Nat
           /\ DOMAIN node[n].versions = 1 .. Len(node[n].versions)
           /\ \A v \in DOMAIN node[n].versions : node[n].versions[v] \in Version
           /\ node[n].active \in Nat /\ node[n].running \subseteq Accounts
<1>1. node[n] \in Node
  BY DEF ShapeInv
<1>2. node[n].versions \in Seq(Version) /\ node[n].active \in Nat /\ node[n].running \subseteq Accounts
  BY <1>1 DEF Node
<1> QED
  BY <1>1, <1>2

\* The fields of a transfer.
LEMMA TransferRow ==
    ASSUME ShapeInv, NEW t \in DOMAIN transfer
    PROVE  /\ transfer[t].account \in Accounts
           /\ transfer[t].source \in Nodes /\ transfer[t].target \in Nodes
           /\ transfer[t].sourceVersion \in Versions /\ transfer[t].targetVersion \in Versions
           /\ transfer[t].targetJob \in Jobs
           /\ transfer[t].cleanupVersion \in 0 .. MaxVersions
           /\ transfer[t].cleanupJob \in 0 .. MaxJobs
           /\ transfer[t].cutover \in BOOLEAN
           /\ transfer[t].state \in Preparing \cup {"source_cleaning", "target_cleaning"} \cup Terminal
           /\ CleaningNode(t) \in {transfer[t].source, transfer[t].target}
<1>1. transfer[t] \in Transfer
  BY Rows
<1> QED
  BY <1>1 DEF Transfer, CleaningNode

\* Versions are only added, and keep their accounts.
Extended(s, w) == Len(s) <= Len(w) /\ \A v \in 1 .. Len(s) : w[v].accounts = s[v].accounts

\* A version that was there is there.
LEMMA ExtendedAt ==
    ASSUME NEW s, NEW w, Len(s) \in Nat, Len(w) \in Nat, Extended(s, w), NEW v \in 1 .. Len(s)
    PROVE  v <= Len(w) /\ w[v].accounts = s[v].accounts
<1> DEFINE m == Len(s)
           k == Len(w)
<1>1. m <= k /\ w[v].accounts = s[v].accounts
  BY DEF Extended
<1>2. v \in 1 .. m /\ m \in Nat /\ k \in Nat
  OBVIOUS
<1> HIDE DEF m, k
<1>3. v <= k
  BY <1>1, <1>2
<1> QED
  BY <1>1, <1>3 DEF k

\* CreateConfigVersion keeps what there is, and its last version is what was rendered.
LEMMA WithVersionAdds ==
    ASSUME NEW s \in Seq(Version), NEW c \in [accounts : SUBSET Accounts, deniesAll : BOOLEAN]
    PROVE  /\ WithVersion(s, c) \in Seq(Version)
           /\ Extended(s, WithVersion(s, c))
           /\ Len(WithVersion(s, c)) \in Nat \ {0}
           /\ WithVersion(s, c)[Len(WithVersion(s, c))].accounts = c.accounts
<1> DEFINE e == [accounts |-> c.accounts, deniesAll |-> c.deniesAll, outdated |-> {}]
<1>1. e \in Version /\ e.accounts = c.accounts
  BY DEF Version
<1>2. CASE Reusable(s, c)
  <2>1. WithVersion(s, c) = s
    BY <1>2 DEF WithVersion
  <2>2. s # <<>> /\ s[Len(s)].accounts = c.accounts
    BY <1>2 DEF Reusable
  <2>3. Len(s) \in Nat \ {0}
    BY <2>2, EmptySeq
  <2> QED
    BY <2>1, <2>2, <2>3 DEF Extended
<1>3. CASE ~Reusable(s, c)
  <2>1. WithVersion(s, c) = Append(s, e)
    BY <1>3 DEF WithVersion
  <2> HIDE DEF e
  <2>2. /\ Append(s, e) \in Seq(Version)
        /\ Len(Append(s, e)) = Len(s) + 1
        /\ \A v \in 1 .. Len(s) : Append(s, e)[v] = s[v]
        /\ Append(s, e)[Len(s) + 1] = e
    BY <1>1, AppendProperties
  <2> QED
    BY <1>1, <2>1, <2>2 DEF Extended
<1> QED
  BY <1>2, <1>3

\* Nothing but accounts is rendered.
LEMMA ContentShape ==
    ASSUME NEW acc, NEW trs, NEW n, NEW cleanup \in BOOLEAN
    PROVE  /\ Content(acc, trs, n, cleanup) \in [accounts : SUBSET Accounts, deniesAll : BOOLEAN]
           /\ Content(acc, trs, n, cleanup).accounts = Rendered(acc, trs, n)
<1>1. Rendered(acc, trs, n) \subseteq Accounts
  BY DEF Rendered
<1>2. (cleanup /\ Rendered(acc, trs, n) = {}) \in BOOLEAN
  OBVIOUS
<1> QED
  BY <1>1, <1>2 DEF Content

(***************************************************************************)
(* What the invariant says                                                 *)
(***************************************************************************)
\* An account has one active transfer at most.
LEMMA OneTransfer ==
    ASSUME ShapeInv, TransferInv, NEW t \in DOMAIN transfer, NEW u \in DOMAIN transfer,
           Active(t), Active(u), transfer[t].account = transfer[u].account
    PROVE  t = u
<1>1. Holds(t) /\ Keeps(t) /\ Holds(u) /\ Keeps(u)
  BY DEF TransferInv
<1>2. reserved[account[transfer[t].account].server] = t
  BY <1>1 DEF Holds, Keeps
<1>3. reserved[account[transfer[u].account].server] = u
  BY <1>1 DEF Holds, Keeps
<1> QED
  BY <1>2, <1>3

\* On a node of an active transfer that its current job does not concern, or
\* when this job has ended, nothing is open and the Agent has nothing to do.
LEMMA IdleNode ==
    ASSUME Inv, NEW t \in DOMAIN transfer, Active(t),
           NEW n \in {transfer[t].source, transfer[t].target},
           n # CleaningNode(t) \/ ~Open(CurrentJob(t))
    PROVE  /\ agent[n] = None
           /\ \A j \in DOMAIN job : job[j].node = n => ~Open(j)
<1>1. Holds(t) /\ Deploys(t)
  BY DEF Inv, TransferInv
<1>2. n \in Nodes /\ t # 0
  BY TransferRow, Rows DEF Inv
<1>3. reserved[n] = t
  BY <1>1 DEF Holds
<1>4. ASSUME NEW j \in DOMAIN job, job[j].node = n, Open(j)
      PROVE  FALSE
  <2>1. j = CurrentJob(t)
    BY <1>2, <1>3, <1>4 DEF Inv, OpenInv
  <2> QED
    BY <1>1, <1>4, <2>1 DEF Deploys
<1>5. agent[n] = None
  BY <1>2, <1>4 DEF Inv, HandInv, Open
<1> QED
  BY <1>4, <1>5

\* A task in the hands of the Agent of a reserved node is the transfer's job.
LEMMA TaskIsCurrent ==
    ASSUME Inv, NEW n \in Nodes, agent[n] # None,
           NEW t \in DOMAIN transfer, Active(t), n \in {transfer[t].source, transfer[t].target}
    PROVE  n = CleaningNode(t) /\ agent[n].job = CurrentJob(t)
<1>1. Holds(t) /\ t # 0
  BY Rows DEF Inv, TransferInv
<1>2. reserved[n] = t
  BY <1>1 DEF Holds
<1>3. /\ agent[n].job \in DOMAIN job /\ job[agent[n].job].node = n
      /\ Open(agent[n].job)
  BY DEF Inv, HandInv, Open
<1>4. agent[n].job = CurrentJob(t)
  BY <1>1, <1>2, <1>3 DEF Inv, OpenInv
<1> QED
  BY <1>3, <1>4, IdleNode

\* The version of the current job exists.
LEMMA CurrentVersionExists ==
    ASSUME ShapeInv, JobInv, NEW t \in DOMAIN transfer, Deploys(t)
    PROVE  CurrentVersion(t) \in 1 .. Len(node[CleaningNode(t)].versions)
<1>1. job[CurrentJob(t)] \in Job /\ CleaningNode(t) \in Nodes
  BY Rows, TransferRow DEF Deploys
<1>2. CurrentVersion(t) \in Versions
  BY <1>1 DEF Deploys, Job
<1>3. CurrentVersion(t) <= Len(node[CleaningNode(t)].versions)
  BY DEF Deploys, JobInv
<1> QED
  BY <1>1, <1>2, <1>3, NodeRow DEF Versions

\* What a step must leave alone for a transfer to be where it was: its row,
\* its reservations, the assignment of the account and what its two nodes
\* have, except that an open current job may go on, and succeed when the node
\* runs its version.
LEMMA Undisturbed ==
    ASSUME ShapeInv, JobInv,
           NEW t \in DOMAIN transfer, Holds(t), Deploys(t), Keeps(t),
           transfer'[t] = transfer[t],
           start'[t].served = start[t].served,
           account'[transfer[t].account].server = account[transfer[t].account].server,
           \A n \in {transfer[t].source, transfer[t].target} :
              /\ reserved'[n] = reserved[n]
              /\ Extended(node[n].versions, node'[n].versions)
              /\ Len(node'[n].versions) \in Nat
              /\ n # CleaningNode(t) => /\ node'[n].active = node[n].active
                                        /\ node'[n].running = node[n].running,
           CurrentJob(t) \in DOMAIN job',
           job'[CurrentJob(t)].node = job[CurrentJob(t)].node,
           job'[CurrentJob(t)].version = job[CurrentJob(t)].version,
           \/ /\ job'[CurrentJob(t)].status = job[CurrentJob(t)].status
              /\ node'[CleaningNode(t)].active = node[CleaningNode(t)].active
              /\ node'[CleaningNode(t)].running = node[CleaningNode(t)].running
           \/ /\ Open(CurrentJob(t))
              /\ job'[CurrentJob(t)].status = "succeeded" =>
                    /\ node'[CleaningNode(t)].active = CurrentVersion(t)
                    /\ node'[CleaningNode(t)].running =
                          node[CleaningNode(t)].versions[CurrentVersion(t)].accounts
    PROVE  Holds(t)' /\ Deploys(t)' /\ Keeps(t)'
<1> DEFINE c == CleaningNode(t)
           j == CurrentJob(t)
           v == CurrentVersion(t)
           tr == transfer[t]
<1>1. CleaningNode(t)' = c /\ CurrentJob(t)' = j /\ CurrentVersion(t)' = v
  BY DEF CleaningNode, CurrentJob, CurrentVersion
<1>2. Holds(t)'
  BY DEF Holds
<1>3. c \in {tr.source, tr.target} /\ v \in 1 .. Len(node[c].versions)
  BY TransferRow, CurrentVersionExists
<1>4. node'[c].versions[v].accounts = node[c].versions[v].accounts
  BY <1>3 DEF Extended
<1>5. Deploys(t)'
  <2>1. ASSUME job'[j].status = "succeeded"
        PROVE  node'[c].active = v /\ node'[c].running = node[c].versions[v].accounts
    <3>1. CASE job[j].status = "succeeded"
      <4>1. ~Open(j)
        BY <3>1 DEF Open
      <4> QED
        BY <4>1, <3>1 DEF Deploys, RunsJob
    <3>2. CASE job[j].status # "succeeded"
      BY <2>1, <3>2
    <3> QED
      BY <3>1, <3>2
  <2> QED
    BY <1>1, <1>4, <2>1 DEF Deploys, RunsJob
<1>6. Keeps(t)'
  <2>1. tr.state # "source_cleaning" => SourceKept(t)'
    <3> SUFFICES ASSUME tr.state # "source_cleaning" PROVE SourceKept(t)'
      OBVIOUS
    <3>1. tr.source # c
      BY DEF CleaningNode, Holds
    <3>2. /\ SourceKept(t)
          /\ tr.sourceVersion \in 1 .. Len(node[tr.source].versions)
      BY TransferRow, NodeRow DEF Keeps, SourceKept, Versions
    <3>3. /\ node'[tr.source].active = node[tr.source].active
          /\ node'[tr.source].running = node[tr.source].running
          /\ Extended(node[tr.source].versions, node'[tr.source].versions)
          /\ Len(node'[tr.source].versions) \in Nat
      BY <3>1
    <3> HIDE DEF tr
    <3>4. /\ tr.sourceVersion <= Len(node'[tr.source].versions)
          /\ node'[tr.source].versions[tr.sourceVersion].accounts
                = node[tr.source].versions[tr.sourceVersion].accounts
      <4>1. Len(node[tr.source].versions) \in Nat
        BY TransferRow, NodeRow DEF tr
      <4> QED
        BY <4>1, <3>2, <3>3, ExtendedAt
    <3> QED
      BY <3>2, <3>3, <3>4 DEF SourceKept, tr
  <2>2. tr.state \in {"target_ready", "client_refresh_pending"} =>
          /\ job'[tr.targetJob].status = "succeeded"
          /\ tr.account \in node'[tr.target].versions[tr.targetVersion].accounts
    <3> SUFFICES ASSUME tr.state \in {"target_ready", "client_refresh_pending"}
                 PROVE  /\ job'[tr.targetJob].status = "succeeded"
                        /\ tr.account \in node'[tr.target].versions[tr.targetVersion].accounts
      OBVIOUS
    <3>1. c = tr.target /\ j = tr.targetJob /\ v = tr.targetVersion
      BY DEF CleaningNode, CurrentJob, CurrentVersion
    <3>2. job[j].status = "succeeded" /\ tr.account \in node[c].versions[v].accounts
      BY <3>1 DEF Keeps
    <3>3. ~Open(j)
      BY <3>2 DEF Open
    <3> QED
      BY <1>4, <3>1, <3>2, <3>3
  <2>3. tr.state = "source_cleaning" => tr.account \in node'[tr.target].running
    BY DEF Keeps, CleaningNode, Holds
  <2>4. tr.state \in {"source_cleaning", "target_cleaning"} =>
          tr.account \notin node'[c].versions[tr.cleanupVersion].accounts
    BY <1>4 DEF Keeps, CurrentVersion
  <2>5. account'[tr.account].server =
          IF tr.state \in {"client_refresh_pending", "source_cleaning"} THEN tr.target ELSE tr.source
    BY DEF Keeps
  <2> QED
    BY <1>1, <2>1, <2>2, <2>3, <2>4, <2>5 DEF Keeps
<1> QED
  BY <1>2, <1>5, <1>6

\* A step that leaves every transfer alone, and what nodes run and Agents have
\* in their hands: versions may be added, and jobs of nodes nobody reserves.
LEMMA Beside ==
    ASSUME Inv, ShapeInv',
           UNCHANGED <<agent, transfer, reserved>>,
           \A t \in DOMAIN transfer : start'[t].served = start[t].served,
           \A t \in DOMAIN transfer : Active(t) =>
              account'[transfer[t].account].server = account[transfer[t].account].server,
           \A n \in Nodes : /\ Extended(node[n].versions, node'[n].versions)
                            /\ node'[n].active = node[n].active
                            /\ node'[n].running = node[n].running,
           \A j \in DOMAIN job : j \in DOMAIN job' /\ job'[j] = job[j],
           \A j \in DOMAIN job' \ DOMAIN job :
              /\ reserved[job'[j].node] = 0
              /\ job'[j].version <= Len(node'[job'[j].node].versions)
    PROVE  JobInv' /\ HandInv' /\ ReservedInv' /\ OpenInv' /\ TransferInv'
<1>1. /\ ShapeInv /\ JobInv /\ HandInv /\ ReservedInv /\ OpenInv /\ TransferInv
  BY DEF Inv
<1>2. \A n \in Nodes : Len(node[n].versions) \in Nat /\ Len(node'[n].versions) \in Nat
  <2>1. ASSUME NEW n \in Nodes PROVE Len(node'[n].versions) \in Nat
    <3>1. node'[n] \in Node
      BY DEF ShapeInv
    <3> QED
      BY <3>1 DEF Node
  <2> QED
    BY <1>1, <2>1, NodeRow
<1>3. \A j \in DOMAIN job : job[j] \in Job
  BY <1>1, Rows
<1>4. ASSUME NEW j \in DOMAIN job
      PROVE  /\ job[j].node \in Nodes
             /\ job[j].version \in 1 .. Len(node[job[j].node].versions)
             /\ job[j].version <= Len(node'[job[j].node].versions)
             /\ node'[job[j].node].versions[job[j].version].accounts
                  = node[job[j].node].versions[job[j].version].accounts
  <2>1. job[j].node \in Nodes /\ job[j].version \in Versions
    BY <1>3 DEF Job
  <2>2. job[j].version \in 1 .. Len(node[job[j].node].versions)
    BY <1>1, <1>2, <2>1 DEF JobInv, Versions
  <2> QED
    BY <1>2, <2>1, <2>2, ExtendedAt
<1>5. JobInv'
  BY <1>4 DEF JobInv
<1>6. HandInv'
  <2> SUFFICES ASSUME NEW n \in Nodes, agent[n] # None
               PROVE  /\ agent[n].job \in DOMAIN job'
                      /\ job'[agent[n].job].node = n /\ job'[agent[n].job].status = "in_progress"
                      /\ agent[n].stage = "succeeded" => node'[n].running = Staged(n)'
    BY DEF HandInv
  <2>1. /\ agent[n].job \in DOMAIN job
        /\ job[agent[n].job].node = n /\ job[agent[n].job].status = "in_progress"
        /\ agent[n].stage = "succeeded" => node[n].running = Staged(n)
    BY <1>1 DEF HandInv
  <2>2. Staged(n)' = Staged(n)
    BY <1>4, <2>1 DEF Staged
  <2> QED
    BY <2>1, <2>2
<1>7. ReservedInv'
  BY <1>1 DEF ReservedInv, Active
<1>8. OpenInv'
  BY <1>1 DEF OpenInv, Open, CurrentJob
<1>9. TransferInv'
  <2> SUFFICES ASSUME NEW t \in DOMAIN transfer, Active(t)
               PROVE  Holds(t)' /\ Deploys(t)' /\ Keeps(t)'
    BY DEF TransferInv, Active
  <2>1. Holds(t) /\ Deploys(t) /\ Keeps(t)
    BY <1>1 DEF TransferInv
  <2>2. /\ transfer[t].source \in Nodes /\ transfer[t].target \in Nodes
        /\ CleaningNode(t) \in {transfer[t].source, transfer[t].target}
    BY <1>1, TransferRow
  <2>3. CurrentJob(t) \in DOMAIN job
    BY <2>1 DEF Deploys
  <2> QED
    BY <1>1, <1>2, <2>1, <2>2, <2>3, Undisturbed
<1> QED
  BY <1>5, <1>6, <1>7, <1>8, <1>9

\* A step of the Agent of one node, or of its jobs.
LEMMA AtNode ==
    ASSUME Inv, NEW n \in Nodes, ShapeInv',
           UNCHANGED <<account, transfer, reserved, start>>,
           DOMAIN job' = DOMAIN job,
           \A j \in DOMAIN job :
              /\ job'[j].node = job[j].node /\ job'[j].version = job[j].version
              /\ job[j].node # n => job'[j].status = job[j].status
              /\ job'[j].status \in {"pending", "in_progress"} => Open(j),
           \A m \in Nodes \ {n} : node'[m] = node[m] /\ agent'[m] = agent[m],
           node'[n].versions = node[n].versions,
           agent'[n] # None =>
              /\ agent'[n].job \in DOMAIN job
              /\ job[agent'[n].job].node = n /\ job'[agent'[n].job].status = "in_progress"
              /\ agent'[n].stage = "succeeded" =>
                    node'[n].running = node[n].versions[job[agent'[n].job].version].accounts,
           \A t \in DOMAIN transfer :
              Active(t) /\ n \in {transfer[t].source, transfer[t].target} =>
                 \/ /\ node'[n] = node[n]
                    /\ job'[CurrentJob(t)].status = job[CurrentJob(t)].status
                 \/ /\ n = CleaningNode(t) /\ Open(CurrentJob(t))
                    /\ job'[CurrentJob(t)].status = "succeeded" =>
                          /\ node'[n].active = CurrentVersion(t)
                          /\ node'[n].running = node[n].versions[CurrentVersion(t)].accounts
    PROVE  JobInv' /\ HandInv' /\ ReservedInv' /\ OpenInv' /\ TransferInv'
<1>1. /\ ShapeInv /\ JobInv /\ HandInv /\ ReservedInv /\ OpenInv /\ TransferInv
  BY DEF Inv
<1>2. \A m \in Nodes : node'[m].versions = node[m].versions
  OBVIOUS
<1>3. \A j \in DOMAIN job : job[j].node \in Nodes
  BY <1>1, Rows DEF Job
<1>4. JobInv'
  BY <1>1, <1>2, <1>3 DEF JobInv
<1>5. HandInv'
  <2> SUFFICES ASSUME NEW m \in Nodes, agent'[m] # None
               PROVE  /\ agent'[m].job \in DOMAIN job'
                      /\ job'[agent'[m].job].node = m /\ job'[agent'[m].job].status = "in_progress"
                      /\ agent'[m].stage = "succeeded" => node'[m].running = Staged(m)'
    BY DEF HandInv
  <2>1. CASE m = n
    BY <2>1 DEF Staged
  <2>2. CASE m # n
    <3>1. agent'[m] = agent[m] /\ node'[m] = node[m]
      BY <2>2
    <3>2. /\ agent[m].job \in DOMAIN job
          /\ job[agent[m].job].node = m /\ job[agent[m].job].status = "in_progress"
          /\ agent[m].stage = "succeeded" => node[m].running = Staged(m)
      BY <1>1, <3>1 DEF HandInv
    <3>3. Staged(m)' = Staged(m)
      BY <3>1, <3>2 DEF Staged
    <3> QED
      BY <2>2, <3>1, <3>2, <3>3
  <2> QED
    BY <2>1, <2>2
<1>6. ReservedInv'
  BY <1>1 DEF ReservedInv, Active
<1>7. OpenInv'
  BY <1>1 DEF OpenInv, Open, CurrentJob
<1>8. TransferInv'
  <2> SUFFICES ASSUME NEW t \in DOMAIN transfer, Active(t)
               PROVE  Holds(t)' /\ Deploys(t)' /\ Keeps(t)'
    BY DEF TransferInv, Active
  <2>1. Holds(t) /\ Deploys(t) /\ Keeps(t)
    BY <1>1 DEF TransferInv
  <2>2. /\ transfer[t].source \in Nodes /\ transfer[t].target \in Nodes
        /\ CleaningNode(t) \in {transfer[t].source, transfer[t].target}
    BY <1>1, TransferRow
  <2>3. CurrentJob(t) \in DOMAIN job /\ job[CurrentJob(t)].node = CleaningNode(t)
    BY <2>1 DEF Deploys
  <2>4. \A m \in {transfer[t].source, transfer[t].target} :
          /\ Extended(node[m].versions, node'[m].versions)
          /\ Len(node'[m].versions) \in Nat
    BY <1>1, <1>2, <2>2, NodeRow DEF Extended
  <2>5. \A m \in {transfer[t].source, transfer[t].target} : m # CleaningNode(t) =>
          node'[m].active = node[m].active /\ node'[m].running = node[m].running
    BY <2>2
  <2>6. \/ /\ job'[CurrentJob(t)].status = job[CurrentJob(t)].status
           /\ node'[CleaningNode(t)] = node[CleaningNode(t)]
        \/ /\ Open(CurrentJob(t))
           /\ job'[CurrentJob(t)].status = "succeeded" =>
                 /\ node'[CleaningNode(t)].active = CurrentVersion(t)
                 /\ node'[CleaningNode(t)].running =
                       node[CleaningNode(t)].versions[CurrentVersion(t)].accounts
    BY <2>2, <2>3
  <2> QED
    BY <1>1, <2>1, <2>2, <2>3, <2>4, <2>5, <2>6, Undisturbed
<1> QED
  BY <1>4, <1>5, <1>6, <1>7, <1>8
(***************************************************************************)
(* Administrators and traffic enforcement                                  *)
(***************************************************************************)
\* An edit marks versions and changes nothing else of the nodes.
LEMMA OutdateKeeps ==
    ASSUME ShapeInv, NEW a \in Accounts
    PROVE  /\ Outdate(node, a) \in [Nodes -> Node]
           /\ \A n \in Nodes :
                /\ Len(Outdate(node, a)[n].versions) = Len(node[n].versions)
                /\ Extended(node[n].versions, Outdate(node, a)[n].versions)
                /\ Outdate(node, a)[n].active = node[n].active
                /\ Outdate(node, a)[n].running = node[n].running
<1> DEFINE new(n) == Outdate(node, a)[n]
<1> SUFFICES ASSUME NEW n \in Nodes
             PROVE  /\ new(n) \in Node
                    /\ Len(new(n).versions) = Len(node[n].versions)
                    /\ Extended(node[n].versions, new(n).versions)
                    /\ new(n).active = node[n].active
                    /\ new(n).running = node[n].running
  BY DEF Outdate
<1> DEFINE old == node[n].versions
           w == [v \in DOMAIN old |-> [old[v] EXCEPT !.outdated = @ \cup {a}]]
<1>1. node[n] \in Node /\ old \in Seq(Version) /\ Len(old) \in Nat /\ DOMAIN old = 1 .. Len(old)
      /\ \A v \in DOMAIN old : old[v] \in Version
  BY NodeRow
<1>2. \A v \in DOMAIN old : w[v] \in Version /\ w[v].accounts = old[v].accounts
  BY <1>1 DEF Version
<1>3. new(n) = [node[n] EXCEPT !.versions = w]
  BY DEF Outdate
<1>4. DOMAIN w = 1 .. Len(old)
  BY <1>1
<1> HIDE DEF w, old
<1>5. w \in [1 .. Len(old) -> Version]
  <2>1. w = [v \in DOMAIN w |-> w[v]]
    BY DEF w
  <2> QED
    BY <1>1, <1>2, <1>4, <2>1
<1>6. w \in Seq(Version) /\ Len(w) = Len(old)
  BY <1>1, <1>5, <1>4, LenProperties
<1>7. Extended(old, w)
  BY <1>1, <1>2, <1>6 DEF Extended
<1>8. new(n) \in Node /\ new(n).versions = w /\ new(n).active = node[n].active
      /\ new(n).running = node[n].running
  BY <1>1, <1>3, <1>6 DEF Node
<1> QED
  BY <1>6, <1>7, <1>8 DEF old

\* An account that is disabled or enabled is not in transfer, nor is its node.
LEMMA SetStatusStep ==
    ASSUME Inv, NEW a \in Accounts, SetStatus(a)
    PROVE  Inv'
<1>1. ShapeInv /\ CountInv /\ BoundsAssumption
  BY BoundsAssumption DEF Inv, BoundsAssumption
<1>2. /\ account' = [account EXCEPT ![a].enabled = ~@]
      /\ node' = Outdate(node, a) /\ edits' = edits + 1 /\ edits < MaxEdits
      /\ UNCHANGED <<job, agent, transfer, reserved, faults, start>>
  BY DEF SetStatus
<1>3. account' \in [Accounts -> Account]
  <2>1. account[a] \in Account
    BY <1>1 DEF ShapeInv
  <2>2. (~account[a].enabled) \in BOOLEAN
    OBVIOUS
  <2>3. [account[a] EXCEPT !.enabled = ~@] \in Account
    BY <2>1, <2>2 DEF Account
  <2> QED
    BY <1>1, <1>2, <2>3 DEF ShapeInv
<1>4. \A b \in Accounts : account'[b].server = account[b].server
  <2>1. ASSUME NEW b \in Accounts PROVE account'[b].server = account[b].server
    <3>1. account[b] \in Account
      BY <1>1 DEF ShapeInv
    <3> QED
      BY <1>1, <1>2, <3>1 DEF ShapeInv, Account
  <2> QED
    BY <2>1
<1>5. ShapeInv'
  BY <1>1, <1>2, <1>3, OutdateKeeps DEF ShapeInv
<1>6. CountInv'
  <2>1. \A n \in Nodes : /\ Len(node'[n].versions) = Len(node[n].versions)
                         /\ node'[n].active = node[n].active
    BY <1>1, <1>2, OutdateKeeps
  <2>2. edits' \in 0 .. MaxEdits
    BY <1>1, <1>2 DEF CountInv, BoundsAssumption
  <2> QED
    BY <1>1, <1>2, <2>1, <2>2 DEF CountInv
<1>7. \A t \in DOMAIN transfer : transfer[t].account \in Accounts
  BY <1>1, TransferRow
<1>8. JobInv' /\ HandInv' /\ ReservedInv' /\ OpenInv' /\ TransferInv'
  <2>1. \A n \in Nodes : /\ Extended(node[n].versions, node'[n].versions)
                         /\ node'[n].active = node[n].active
                         /\ node'[n].running = node[n].running
    BY <1>1, <1>2, OutdateKeeps
  <2> QED
    BY <1>2, <1>4, <1>5, <1>7, <2>1, Beside
<1> QED
  BY <1>5, <1>6, <1>8 DEF Inv

\* An account that is assigned to another node at once is not in transfer.
LEMMA ReassignStep ==
    ASSUME Inv, NEW a \in Accounts, NEW n \in Nodes, Reassignable(a, n), Reassign(a, n),
           edits' \in 0 .. MaxEdits
    PROVE  Inv'
<1>1. ShapeInv /\ CountInv /\ TransferInv
  BY DEF Inv
<1>2. /\ account' = [account EXCEPT ![a].server = n]
      /\ node' = Outdate(node, a)
      /\ UNCHANGED <<job, agent, transfer, reserved, faults, start>>
  BY DEF Reassign
<1>3. account' \in [Accounts -> Account]
  <2>1. account[a] \in Account
    BY <1>1 DEF ShapeInv
  <2>2. [account[a] EXCEPT !.server = n] \in Account
    BY <2>1 DEF Account
  <2> QED
    BY <1>1, <1>2, <2>2 DEF ShapeInv
<1>4. \A b \in Accounts \ {a} : account'[b] = account[b]
  BY <1>1, <1>2 DEF ShapeInv
<1>5. ShapeInv'
  BY <1>1, <1>2, <1>3, OutdateKeeps DEF ShapeInv
<1>6. CountInv'
  <2>1. \A m \in Nodes : /\ Len(node'[m].versions) = Len(node[m].versions)
                         /\ node'[m].active = node[m].active
    BY <1>1, <1>2, OutdateKeeps
  <2> QED
    BY <1>1, <1>2, <2>1 DEF CountInv
<1>7. ASSUME NEW t \in DOMAIN transfer, Active(t)
      PROVE  transfer[t].account \in Accounts \ {a}
  <2>1. Holds(t) /\ Keeps(t)
    BY <1>1, <1>7 DEF TransferInv
  <2>2. reserved[account[transfer[t].account].server] = t
    BY <2>1 DEF Holds, Keeps
  <2>3. reserved[account[a].server] = 0
    BY DEF Reassignable, NodeGuard
  <2>4. t # 0 /\ transfer[t].account \in Accounts
    BY <1>1, Rows, TransferRow
  <2> QED
    BY <2>2, <2>3, <2>4
<1>8. JobInv' /\ HandInv' /\ ReservedInv' /\ OpenInv' /\ TransferInv'
  <2>1. \A m \in Nodes : /\ Extended(node[m].versions, node'[m].versions)
                         /\ node'[m].active = node[m].active
                         /\ node'[m].running = node[m].running
    BY <1>1, <1>2, OutdateKeeps
  <2> QED
    BY <1>2, <1>4, <1>5, <1>7, <2>1, Beside
<1> QED
  BY <1>5, <1>6, <1>8 DEF Inv

\* A limit that is reached or lifted moves nothing.
LEMMA EnforceLimitStep ==
    ASSUME Inv, NEW a \in Accounts, EnforceLimit(a)
    PROVE  Inv'
<1>1. ShapeInv /\ CountInv /\ BoundsAssumption
  BY BoundsAssumption DEF Inv, BoundsAssumption
<1>2. /\ account' = [account EXCEPT ![a].overLimit = ~@]
      /\ start' = [t \in DOMAIN start |-> [start[t] EXCEPT !.relimited = @ \cup {a}]]
      /\ edits' = edits + 1 /\ edits < MaxEdits
      /\ UNCHANGED <<node, job, agent, transfer, reserved, faults>>
  BY DEF EnforceLimit
<1>3. account' \in [Accounts -> Account]
  <2>1. account[a] \in Account
    BY <1>1 DEF ShapeInv
  <2>2. (~account[a].overLimit) \in BOOLEAN
    OBVIOUS
  <2>3. [account[a] EXCEPT !.overLimit = ~@] \in Account
    BY <2>1, <2>2 DEF Account
  <2> QED
    BY <1>1, <1>2, <2>3 DEF ShapeInv
<1>4. \A b \in Accounts : account'[b].server = account[b].server
  <2>1. ASSUME NEW b \in Accounts PROVE account'[b].server = account[b].server
    <3>1. account[b] \in Account
      BY <1>1 DEF ShapeInv
    <3> QED
      BY <1>1, <1>2, <3>1 DEF ShapeInv, Account
  <2> QED
    BY <2>1
<1>5. start' \in Seq(History) /\ Len(start') = Len(start)
      /\ \A t \in DOMAIN start : start'[t].served = start[t].served
  <2>1. /\ start \in Seq(History) /\ Len(start) \in Nat /\ DOMAIN start = 1 .. Len(start)
        /\ \A t \in DOMAIN start : start[t] \in History
    BY <1>1 DEF ShapeInv
  <2>2. \A t \in DOMAIN start : start'[t] \in History /\ start'[t].served = start[t].served
    BY <1>2, <2>1 DEF History
  <2>3. start' \in [1 .. Len(start) -> History]
    BY <1>2, <2>1, <2>2
  <2> QED
    BY <2>1, <2>2, <2>3, LenProperties
<1>6. ShapeInv'
  BY <1>1, <1>2, <1>3, <1>5 DEF ShapeInv
<1>7. CountInv'
  <2>1. edits' \in 0 .. MaxEdits
    BY <1>1, <1>2 DEF CountInv, BoundsAssumption
  <2> QED
    BY <1>1, <1>2, <2>1 DEF CountInv
<1>8. JobInv' /\ HandInv' /\ ReservedInv' /\ OpenInv' /\ TransferInv'
  <2>1. \A n \in Nodes : Extended(node[n].versions, node'[n].versions)
    BY <1>1, <1>2, NodeRow DEF Extended
  <2>2. \A t \in DOMAIN transfer : transfer[t].account \in Accounts /\ t \in DOMAIN start
    BY <1>1, TransferRow, Rows
  <2> QED
    BY <1>2, <1>4, <1>5, <1>6, <2>1, <2>2, Beside
<1> QED
  BY <1>6, <1>7, <1>8 DEF Inv

\* A render adds a version.
LEMMA RenderConfigStep ==
    ASSUME Inv, NEW n \in Nodes, RenderConfig(n)
    PROVE  Inv'
<1> DEFINE versions == WithVersion(node[n].versions, Content(account, transfer, n, FALSE))
<1>1. ShapeInv /\ CountInv
  BY DEF Inv
<1>2. /\ node' = [node EXCEPT ![n].versions = versions] /\ Len(versions) <= MaxVersions
      /\ UNCHANGED <<account, job, agent, transfer, reserved, edits, faults, start>>
  BY DEF RenderConfig
<1>3. FALSE \in BOOLEAN
  OBVIOUS
<1>4. /\ versions \in Seq(Version) /\ Extended(node[n].versions, versions)
      /\ Len(versions) \in Nat
  BY <1>1, <1>3, ContentShape, NodeRow, WithVersionAdds
<1> HIDE DEF versions
<1>5. /\ node' \in [Nodes -> Node]
      /\ \A m \in Nodes \ {n} : node'[m] = node[m]
      /\ \A m \in Nodes : /\ node'[m].active = node[m].active
                          /\ node'[m].running = node[m].running
      /\ node'[n].versions = versions
  <2>1. node \in [Nodes -> Node] /\ node[n] \in Node
    BY <1>1, NodeRow DEF ShapeInv
  <2>2. [node[n] EXCEPT !.versions = versions] \in Node
    BY <2>1, <1>4 DEF Node
  <2> QED
    BY <1>2, <2>1, <2>2 DEF Node
<1>6. \A m \in Nodes : Extended(node[m].versions, node'[m].versions)
  <2>1. ASSUME NEW m \in Nodes, m # n PROVE Extended(node[m].versions, node'[m].versions)
    <3>1. node'[m].versions = node[m].versions /\ Len(node[m].versions) \in Nat
      BY <1>1, <1>5, <2>1, NodeRow
    <3> QED
      BY <3>1 DEF Extended
  <2> QED
    BY <1>4, <1>5, <2>1
<1>7. ShapeInv'
  BY <1>1, <1>2, <1>5 DEF ShapeInv
<1>8. CountInv'
  <2>1. ASSUME NEW m \in Nodes
        PROVE  Len(node'[m].versions) <= MaxVersions /\ node'[m].active <= Len(node'[m].versions)
    <3>1. CASE m = n
      <4>1. node[n].active <= Len(node[n].versions) /\ Len(node[n].versions) <= Len(versions)
        BY <1>1, <1>4 DEF CountInv, Extended
      <4>2. node[n].active \in Nat /\ Len(node[n].versions) \in Nat
        BY <1>1, NodeRow
      <4>3. node[n].active <= Len(versions)
        BY <4>1, <4>2, <1>4
      <4>4. /\ node'[n].versions = versions /\ node'[n].active = node[n].active
            /\ Len(versions) <= MaxVersions
        BY <1>2, <1>5
      <4> QED
        BY <3>1, <4>3, <4>4
    <3>2. CASE m # n
      BY <3>2, <1>1, <1>5 DEF CountInv
    <3> QED
      BY <3>1, <3>2
  <2> QED
    BY <1>1, <1>2, <2>1 DEF CountInv
<1>9. JobInv' /\ HandInv' /\ ReservedInv' /\ OpenInv' /\ TransferInv'
  BY <1>2, <1>5, <1>6, <1>7, Beside
<1> QED
  BY <1>7, <1>8, <1>9 DEF Inv

\* What is appended to the jobs leaves the others alone.
LEMMA JobAdded ==
    ASSUME NEW jobs \in Seq(Job), NEW new \in Job
    PROVE  /\ Append(jobs, new) \in Seq(Job)
           /\ Len(Append(jobs, new)) = Len(jobs) + 1
           /\ DOMAIN Append(jobs, new) = DOMAIN jobs \cup {Len(jobs) + 1}
           /\ Len(jobs) + 1 \notin DOMAIN jobs
           /\ \A j \in DOMAIN jobs : Append(jobs, new)[j] = jobs[j]
           /\ Append(jobs, new)[Len(jobs) + 1] = new
  BY AppendProperties, LenProperties

\* A job of an administrator is of a node that nobody reserves.
LEMMA ApplyConfigStep ==
    ASSUME Inv, NEW n \in Nodes, NEW v \in Versions, ApplyConfig(n, v)
    PROVE  Inv'
<1> DEFINE new == [node |-> n, version |-> v, owner |-> 0, status |-> "pending"]
<1>1. ShapeInv /\ CountInv /\ BoundsAssumption
  BY BoundsAssumption DEF Inv, BoundsAssumption
<1>2. /\ job' = Append(job, new) /\ Len(job) < MaxJobs
      /\ v \in DOMAIN node[n].versions /\ reserved[n] = 0
      /\ UNCHANGED <<account, node, agent, transfer, reserved, edits, faults, start>>
  BY DEF ApplyConfig, NodeGuard
<1>3. new \in Job /\ new.node = n /\ new.version = v
  BY <1>1 DEF Job, BoundsAssumption
<1> HIDE DEF new
<1>4. /\ job' \in Seq(Job) /\ Len(job') = Len(job) + 1
      /\ DOMAIN job' = DOMAIN job \cup {Len(job) + 1}
      /\ \A j \in DOMAIN job : job'[j] = job[j]
      /\ job'[Len(job) + 1] = new
  BY <1>1, <1>2, <1>3, JobAdded DEF ShapeInv
<1>5. v <= Len(node[n].versions)
  BY <1>1, <1>2, NodeRow
<1>6. ShapeInv'
  BY <1>1, <1>2, <1>4 DEF ShapeInv
<1>7. CountInv'
  <2>1. Len(job') <= MaxJobs
    BY <1>1, <1>2, <1>4, Rows DEF BoundsAssumption
  <2> QED
    BY <1>1, <1>2, <2>1 DEF CountInv
<1>8. \A m \in Nodes : Extended(node[m].versions, node[m].versions)
  BY <1>1, NodeRow DEF Extended
<1>9. JobInv' /\ HandInv' /\ ReservedInv' /\ OpenInv' /\ TransferInv'
  BY <1>2, <1>3, <1>4, <1>5, <1>6, <1>8, Beside
<1> QED
  BY <1>6, <1>7, <1>9 DEF Inv

(***************************************************************************)
(* The Agents                                                              *)
(***************************************************************************)
\* A change of the status of a job.
Marked(jobs, j, st) == [jobs EXCEPT ![j].status = st]

\* Marking a job changes its status and nothing else of the list of jobs.
LEMMA MarkedJob ==
    ASSUME NEW jobs \in Seq(Job), NEW j \in DOMAIN jobs,
           NEW st \in {"pending", "in_progress", "succeeded", "failed"}
    PROVE  /\ Marked(jobs, j, st) \in Seq(Job) /\ Len(Marked(jobs, j, st)) = Len(jobs)
           /\ DOMAIN Marked(jobs, j, st) = DOMAIN jobs
           /\ \A i \in DOMAIN jobs :
                /\ Marked(jobs, j, st)[i].node = jobs[i].node
                /\ Marked(jobs, j, st)[i].version = jobs[i].version
                /\ Marked(jobs, j, st)[i].owner = jobs[i].owner
                /\ i # j => Marked(jobs, j, st)[i].status = jobs[i].status
           /\ Marked(jobs, j, st)[j].status = st
<1> DEFINE new == [jobs[j] EXCEPT !.status = st]
<1>1. \A i \in DOMAIN jobs : jobs[i] \in Job
  OBVIOUS
<1>2. /\ new \in Job /\ new.status = st /\ new.node = jobs[j].node
      /\ new.version = jobs[j].version /\ new.owner = jobs[j].owner
  BY <1>1 DEF Job
<1>3. Marked(jobs, j, st) = [jobs EXCEPT ![j] = new]
  BY DEF Marked
<1> HIDE DEF new
<1> QED
  BY <1>2, <1>3, ExceptSeq

\* A claim takes a pending job of the node.
LEMMA ClaimStep ==
    ASSUME Inv, NEW n \in Nodes, Claim(n)
    PROVE  Inv'
<1>1. /\ ShapeInv /\ CountInv /\ OpenInv /\ TransferInv
  BY DEF Inv
<1>2. PICK j \in DOMAIN job :
        /\ agent[n] = None
        /\ job[j].node = n /\ job[j].status = "pending"
        /\ job' = [job EXCEPT ![j].status = "in_progress"]
        /\ agent' = [agent EXCEPT ![n] = [job |-> j, stage |-> "applying"]]
        /\ UNCHANGED <<account, node, transfer, reserved, edits, faults, start>>
  BY DEF Claim
<1>3. /\ job' \in Seq(Job) /\ Len(job') = Len(job) /\ DOMAIN job' = DOMAIN job
      /\ \A i \in DOMAIN job : /\ job'[i].node = job[i].node
                               /\ job'[i].version = job[i].version
                               /\ i # j => job'[i].status = job[i].status
      /\ job'[j].status = "in_progress"
  <2>1. job \in Seq(Job) /\ "in_progress" \in {"pending", "in_progress", "succeeded", "failed"}
    BY <1>1 DEF ShapeInv
  <2>2. job' = Marked(job, j, "in_progress")
    BY <1>2 DEF Marked
  <2> DEFINE after == Marked(job, j, "in_progress")
  <2>3. /\ after \in Seq(Job) /\ Len(after) = Len(job)
        /\ DOMAIN after = DOMAIN job
        /\ \A i \in DOMAIN job :
             /\ after[i].node = job[i].node
             /\ after[i].version = job[i].version
             /\ after[i].owner = job[i].owner
             /\ i # j => after[i].status = job[i].status
        /\ after[j].status = "in_progress"
    BY <2>1, MarkedJob, Zenon
  <2> QED
    BY <2>2, <2>3, Zenon
<1>4. j \in Jobs
  BY <1>1, Rows, BoundsAssumption DEF CountInv, Jobs, BoundsAssumption
<1>5. agent' \in [Nodes -> Task \cup {None}]
  <2>1. [job |-> j, stage |-> "applying"] \in Task
    BY <1>4 DEF Task
  <2> QED
    BY <1>1, <1>2, <2>1 DEF ShapeInv
<1>6. ShapeInv'
  BY <1>1, <1>2, <1>3, <1>5 DEF ShapeInv
<1>7. CountInv'
  BY <1>1, <1>2, <1>3 DEF CountInv
<1>8. agent'[n] = [job |-> j, stage |-> "applying"] /\ \A m \in Nodes \ {n} : agent'[m] = agent[m]
  BY <1>1, <1>2 DEF ShapeInv
<1>9. ASSUME NEW t \in DOMAIN transfer, Active(t), n \in {transfer[t].source, transfer[t].target}
      PROVE  n = CleaningNode(t) /\ CurrentJob(t) = j
  <2>1. Holds(t) /\ Deploys(t) /\ t # 0
    BY <1>1, <1>9, Rows DEF TransferInv
  <2>2. reserved[n] = t
    BY <1>9, <2>1 DEF Holds
  <2>3. CurrentJob(t) = j
    BY <1>1, <1>2, <2>1, <2>2 DEF OpenInv, Open
  <2> QED
    BY <1>2, <2>1, <2>3 DEF Deploys
<1>10. JobInv' /\ HandInv' /\ ReservedInv' /\ OpenInv' /\ TransferInv'
  <2>1. Open(j)
    BY <1>2 DEF Open
  <2>2. \A i \in DOMAIN job : job'[i].status \in {"pending", "in_progress"} => Open(i)
    BY <1>3, <2>1 DEF Open
  <2>3. \A i \in DOMAIN job : job[i].node # n => job'[i].status = job[i].status
    BY <1>2, <1>3
  <2>4. agent'[n].job = j /\ agent'[n].stage = "applying" /\ job'[j].status = "in_progress"
    BY <1>3, <1>8
  <2>5. node' = node
    BY <1>2
  <2>6. UNCHANGED <<account, transfer, reserved, start>>
    BY <1>2
  <2> HIDE DEF Claim
  <2> QED
    BY <1>2, <1>3, <1>6, <1>8, <1>9, <2>1, <2>2, <2>3, <2>4, <2>5, <2>6, AtNode
<1> QED
  BY <1>6, <1>7, <1>10 DEF Inv

\* What an Agent has staged is a version of its node.
LEMMA StagedVersion ==
    ASSUME Inv, NEW n \in Nodes, agent[n] # None
    PROVE  /\ agent[n] \in Task /\ agent[n].job \in DOMAIN job
           /\ job[agent[n].job].node = n /\ job[agent[n].job].status = "in_progress"
           /\ job[agent[n].job].version \in 1 .. Len(node[n].versions)
           /\ Staged(n) \subseteq Accounts
<1>1. ShapeInv /\ HandInv /\ JobInv
  BY DEF Inv
<1>2. agent[n] \in Task
  BY <1>1 DEF ShapeInv
<1> DEFINE j == agent[n].job
           v == job[j].version
<1>3. j \in DOMAIN job /\ job[j].node = n /\ job[j].status = "in_progress"
  BY <1>1 DEF HandInv
<1>4. job[j] \in Job
  BY <1>1, <1>3, Rows
<1>5. v \in Versions /\ v <= Len(node[n].versions)
  BY <1>1, <1>3, <1>4 DEF Job, JobInv
<1>6. v \in 1 .. Len(node[n].versions)
  BY <1>1, <1>5, NodeRow DEF Versions
<1>7. node[n].versions[v] \in Version
  BY <1>1, <1>6, NodeRow
<1>8. Staged(n) = node[n].versions[v].accounts
  BY DEF Staged
<1>9. Staged(n) \subseteq Accounts
  BY <1>7, <1>8 DEF Version
<1> QED
  BY <1>2, <1>3, <1>6, <1>9

\* A change of what a node runs, by the Agent that has a task in its hands:
\* the current job of a transfer, if the node is reserved.
LEMMA RunStep ==
    ASSUME Inv, NEW n \in Nodes, agent[n] # None,
           NEW left \in SUBSET Accounts,
           node' = [node EXCEPT ![n].running = left],
           UNCHANGED <<account, job, transfer, reserved, start, edits>>,
           faults' \in 0 .. MaxFaults,
           agent' \in [Nodes -> Task \cup {None}],
           \A m \in Nodes \ {n} : agent'[m] = agent[m],
           agent'[n] # None => /\ agent'[n].job = agent[n].job
                               /\ agent'[n].stage = "succeeded" => left = Staged(n)
    PROVE  Inv'
<1>1. ShapeInv /\ CountInv
  BY DEF Inv
<1>2. /\ node' \in [Nodes -> Node]
      /\ \A m \in Nodes \ {n} : node'[m] = node[m]
      /\ node'[n].versions = node[n].versions
      /\ node'[n].active = node[n].active
      /\ node'[n].running = left
  <2>1. node \in [Nodes -> Node] /\ node[n] \in Node
    BY <1>1, NodeRow DEF ShapeInv
  <2> DEFINE new == [node[n] EXCEPT !.running = left]
  <2>2. /\ new \in Node /\ new.versions = node[n].versions /\ new.active = node[n].active
        /\ new.running = left
    BY <2>1 DEF Node
  <2>3. node' = [node EXCEPT ![n] = new]
    OBVIOUS
  <2> HIDE DEF new
  <2> QED
    BY <2>1, <2>2, <2>3
<1>3. ShapeInv'
  BY <1>1, <1>2 DEF ShapeInv
<1>4. CountInv'
  <2>1. \A m \in Nodes : /\ node'[m].versions = node[m].versions
                         /\ node'[m].active = node[m].active
    BY <1>2
  <2> QED
    BY <1>1, <2>1 DEF CountInv
<1>5. JobInv' /\ HandInv' /\ ReservedInv' /\ OpenInv' /\ TransferInv'
  <2>1. /\ agent[n].job \in DOMAIN job
        /\ job[agent[n].job].node = n /\ job[agent[n].job].status = "in_progress"
        /\ Staged(n) = node[n].versions[job[agent[n].job].version].accounts
    BY StagedVersion DEF Staged
  <2>2. ASSUME NEW t \in DOMAIN transfer, Active(t), n \in {transfer[t].source, transfer[t].target}
        PROVE  /\ n = CleaningNode(t) /\ Open(CurrentJob(t))
               /\ job'[CurrentJob(t)].status # "succeeded"
    BY <2>1, <2>2, TaskIsCurrent DEF Open
  <2>3. \A j \in DOMAIN job : job'[j].status \in {"pending", "in_progress"} => Open(j)
    BY DEF Open
  <2>4. agent'[n] # None =>
          /\ agent'[n].job \in DOMAIN job
          /\ job[agent'[n].job].node = n /\ job'[agent'[n].job].status = "in_progress"
          /\ agent'[n].stage = "succeeded" =>
                node'[n].running = node[n].versions[job[agent'[n].job].version].accounts
    BY <1>2, <2>1
  <2> QED
    BY <1>2, <1>3, <2>2, <2>3, <2>4, AtNode
<1> QED
  BY <1>3, <1>4, <1>5 DEF Inv

\* The new stage of a task, and a task that is gone.
LEMMA StageSet ==
    ASSUME ShapeInv, NEW n \in Nodes, agent[n] \in Task,
           NEW st \in {"applying", "succeeded", "failed"},
           agent' = [agent EXCEPT ![n].stage = st]
    PROVE  /\ agent' \in [Nodes -> Task \cup {None}]
           /\ \A m \in Nodes \ {n} : agent'[m] = agent[m]
           /\ agent'[n].job = agent[n].job /\ agent'[n].stage = st
<1> DEFINE new == [agent[n] EXCEPT !.stage = st]
<1>1. new \in Task /\ new.job = agent[n].job /\ new.stage = st
  BY DEF Task
<1>2. agent' = [agent EXCEPT ![n] = new]
  OBVIOUS
<1> HIDE DEF new
<1> QED
  BY <1>1, <1>2 DEF ShapeInv

\* The task of an Agent is over.
LEMMA TaskGone ==
    ASSUME ShapeInv, NEW n \in Nodes, agent' = [agent EXCEPT ![n] = None]
    PROVE  /\ agent' \in [Nodes -> Task \cup {None}]
           /\ \A m \in Nodes \ {n} : agent'[m] = agent[m]
           /\ agent'[n] = None
  BY DEF ShapeInv

\* An apply that succeeds makes its node run what was staged.
LEMMA ApplySucceedsStep ==
    ASSUME Inv, NEW n \in Nodes, ApplySucceeds(n)
    PROVE  Inv'
<1>1. /\ agent[n] # None
      /\ node' = [node EXCEPT ![n].running = Staged(n)]
      /\ agent' = [agent EXCEPT ![n].stage = "succeeded"]
      /\ UNCHANGED <<account, job, transfer, reserved, edits, faults, start>>
  BY DEF ApplySucceeds
<1>2. ShapeInv /\ agent[n] \in Task /\ Staged(n) \in SUBSET Accounts
  BY <1>1, StagedVersion DEF Inv
<1>3. /\ agent' \in [Nodes -> Task \cup {None}]
      /\ \A m \in Nodes \ {n} : agent'[m] = agent[m]
      /\ agent'[n].job = agent[n].job
  BY <1>1, <1>2, StageSet
<1>4. faults' \in 0 .. MaxFaults
  BY <1>1 DEF Inv, CountInv
<1> QED
  BY <1>1, <1>2, <1>3, <1>4, RunStep

\* Another fault is one that was left.
LEMMA FaultSpent ==
    ASSUME CountInv, faults < MaxFaults, faults' = faults + 1
    PROVE  faults' \in 0 .. MaxFaults
  BY BoundsAssumption DEF CountInv, BoundsAssumption

\* An apply that fails leaves what ran, what was staged, or nothing.
LEMMA ApplyFailsStep ==
    ASSUME Inv, NEW n \in Nodes, ApplyFails(n)
    PROVE  Inv'
<1>1. /\ agent[n] # None
      /\ agent' = [agent EXCEPT ![n].stage = "failed"]
      /\ UNCHANGED <<account, job, transfer, reserved, edits, start>>
  BY DEF ApplyFails
<1>2. PICK left \in {node[n].running, Staged(n), {}} : node' = [node EXCEPT ![n].running = left]
  BY DEF ApplyFails
<1>3. ShapeInv /\ agent[n] \in Task /\ left \in SUBSET Accounts
  BY <1>1, StagedVersion, NodeRow DEF Inv
<1>4. /\ agent' \in [Nodes -> Task \cup {None}]
      /\ \A m \in Nodes \ {n} : agent'[m] = agent[m]
      /\ agent'[n].job = agent[n].job /\ agent'[n].stage = "failed"
  BY <1>1, <1>3, StageSet
<1>5. faults' \in 0 .. MaxFaults
  BY FaultSpent DEF ApplyFails, Inv
<1> QED
  BY <1>1, <1>2, <1>3, <1>4, <1>5, RunStep

\* An Agent that dies forgets its task; what it was applying runs, or what ran
\* before, or nothing.
LEMMA AgentLostStep ==
    ASSUME Inv, NEW n \in Nodes, AgentLost(n)
    PROVE  Inv'
<1>1. /\ agent[n] # None
      /\ agent' = [agent EXCEPT ![n] = None]
      /\ UNCHANGED <<account, job, transfer, reserved, edits, start>>
  BY DEF AgentLost
<1>2. PICK left \in {node[n].running, Staged(n), {}} : node' = [node EXCEPT ![n].running = left]
  BY DEF AgentLost
<1>3. ShapeInv /\ left \in SUBSET Accounts
  BY <1>1, StagedVersion, NodeRow DEF Inv
<1>4. /\ agent' \in [Nodes -> Task \cup {None}]
      /\ \A m \in Nodes \ {n} : agent'[m] = agent[m]
      /\ agent'[n] = None
  BY <1>1, <1>3, TaskGone
<1>5. faults' \in 0 .. MaxFaults
  BY FaultSpent DEF AgentLost, Inv
<1> QED
  BY <1>1, <1>2, <1>3, <1>4, <1>5, RunStep

\* A report ends the job, and when it succeeded the node runs its version.
LEMMA ReportStep ==
    ASSUME Inv, NEW n \in Nodes, Report(n)
    PROVE  Inv'
<1> DEFINE j == agent[n].job
           st == agent[n].stage
<1>1. ShapeInv /\ CountInv /\ HandInv /\ TransferInv
  BY DEF Inv
<1>2. /\ agent[n] # None /\ st \in {"succeeded", "failed"}
      /\ job' = Marked(job, j, st)
      /\ node' = IF st = "succeeded" THEN [node EXCEPT ![n].active = job[j].version] ELSE node
      /\ agent' = [agent EXCEPT ![n] = None]
      /\ UNCHANGED <<account, transfer, reserved, edits, faults, start>>
  BY DEF Report, Marked
<1>3. /\ j \in DOMAIN job /\ job[j].node = n /\ job[j].status = "in_progress"
      /\ job[j].version \in 1 .. Len(node[n].versions)
  BY <1>2, StagedVersion
<1>4. st = "succeeded" => node[n].running = node[n].versions[job[j].version].accounts
  BY <1>1, <1>2 DEF HandInv, Staged
<1> HIDE DEF j, st
<1>5. /\ job' \in Seq(Job) /\ Len(job') = Len(job) /\ DOMAIN job' = DOMAIN job
      /\ \A i \in DOMAIN job : /\ job'[i].node = job[i].node
                               /\ job'[i].version = job[i].version
                               /\ i # j => job'[i].status = job[i].status
      /\ job'[j].status = st
  <2>1. job \in Seq(Job) /\ st \in {"pending", "in_progress", "succeeded", "failed"}
    BY <1>1, <1>2 DEF ShapeInv
  <2> DEFINE after == Marked(job, j, st)
  <2>2. /\ after \in Seq(Job) /\ Len(after) = Len(job)
        /\ DOMAIN after = DOMAIN job
        /\ \A i \in DOMAIN job :
             /\ after[i].node = job[i].node
             /\ after[i].version = job[i].version
             /\ after[i].owner = job[i].owner
             /\ i # j => after[i].status = job[i].status
        /\ after[j].status = st
    BY <1>3, <2>1, MarkedJob, Zenon
  <2> QED
    BY <1>2, <2>2, Zenon
<1>6. /\ node' \in [Nodes -> Node]
      /\ \A m \in Nodes \ {n} : node'[m] = node[m]
      /\ node'[n].versions = node[n].versions
      /\ node'[n].running = node[n].running
      /\ node'[n].active = IF st = "succeeded" THEN job[j].version ELSE node[n].active
  <2>1. node \in [Nodes -> Node] /\ node[n] \in Node /\ Len(node[n].versions) \in Nat
    BY <1>1, NodeRow DEF ShapeInv
  <2>2. CASE st = "succeeded"
    <3> DEFINE new == [node[n] EXCEPT !.active = job[j].version]
    <3>1. job[j].version \in Nat
      BY <1>3, <2>1
    <3>2. /\ new \in Node /\ new.versions = node[n].versions /\ new.running = node[n].running
          /\ new.active = job[j].version
      BY <2>1, <3>1 DEF Node
    <3>3. node' = [node EXCEPT ![n] = new]
      BY <1>2, <2>2
    <3> HIDE DEF new
    <3> QED
      BY <2>1, <2>2, <3>2, <3>3
  <2>3. CASE st # "succeeded"
    BY <1>2, <2>1, <2>3
  <2> QED
    BY <2>2, <2>3
<1>7. /\ agent' \in [Nodes -> Task \cup {None}]
      /\ \A m \in Nodes \ {n} : agent'[m] = agent[m]
      /\ agent'[n] = None
  BY <1>1, <1>2, TaskGone
<1>8. ShapeInv'
  BY <1>1, <1>2, <1>5, <1>6, <1>7 DEF ShapeInv
<1>9. CountInv'
  <2>1. ASSUME NEW m \in Nodes
        PROVE  Len(node'[m].versions) <= MaxVersions /\ node'[m].active <= Len(node'[m].versions)
    <3>1. CASE m = n
      <4>1. /\ Len(node[n].versions) <= MaxVersions /\ node[n].active <= Len(node[n].versions)
            /\ job[j].version <= Len(node[n].versions)
        BY <1>1, <1>3, NodeRow DEF CountInv
      <4>2. node'[n].active <= Len(node[n].versions)
        BY <1>6, <4>1
      <4> QED
        BY <3>1, <1>6, <4>1, <4>2
    <3>2. CASE m # n
      <4>1. node'[m] = node[m]
        BY <3>2, <1>6
      <4> QED
        BY <4>1, <1>1 DEF CountInv
    <3> QED
      BY <3>1, <3>2
  <2> QED
    BY <1>1, <1>2, <1>5, <2>1 DEF CountInv
<1>10. JobInv' /\ HandInv' /\ ReservedInv' /\ OpenInv' /\ TransferInv'
  <2>1. Open(j)
    BY <1>3 DEF Open
  <2>2. \A i \in DOMAIN job : job'[i].status \in {"pending", "in_progress"} => Open(i)
    BY <1>5, <2>1 DEF Open
  <2>3. \A i \in DOMAIN job : job[i].node # n => job'[i].status = job[i].status
    BY <1>3, <1>5
  <2>4. ASSUME NEW t \in DOMAIN transfer, Active(t), n \in {transfer[t].source, transfer[t].target}
        PROVE  /\ n = CleaningNode(t) /\ Open(CurrentJob(t))
               /\ job'[CurrentJob(t)].status = "succeeded" =>
                     /\ node'[n].active = CurrentVersion(t)
                     /\ node'[n].running = node[n].versions[CurrentVersion(t)].accounts
    <3>1. n = CleaningNode(t) /\ j = CurrentJob(t)
      BY <1>2, <2>4, TaskIsCurrent DEF j
    <3>2. job[j].version = CurrentVersion(t)
      BY <1>1, <2>4, <3>1 DEF TransferInv, Deploys
    <3> QED
      BY <1>4, <1>5, <1>6, <2>1, <3>1, <3>2
  <2> QED
    BY <1>2, <1>5, <1>6, <1>7, <1>8, <2>2, <2>3, <2>4, AtNode
<1> QED
  BY <1>8, <1>9, <1>10 DEF Inv

\* The heartbeat closes jobs in progress that no Agent works on.
LEMMA CloseOrphansStep ==
    ASSUME Inv, NEW n \in Nodes, CloseOrphans(n)
    PROVE  Inv'
<1>1. ShapeInv /\ CountInv /\ TransferInv
  BY DEF Inv
<1>2. /\ agent[n] = None
      /\ job' = [j \in DOMAIN job |->
                   IF j \in Orphans(n) THEN [job[j] EXCEPT !.status = "failed"] ELSE job[j]]
      /\ UNCHANGED <<account, node, agent, transfer, reserved, edits, faults, start>>
  BY DEF CloseOrphans
<1>3. ASSUME NEW j \in DOMAIN job
      PROVE  /\ job'[j] \in Job
             /\ job'[j].node = job[j].node /\ job'[j].version = job[j].version
             /\ j \notin Orphans(n) => job'[j].status = job[j].status
             /\ j \in Orphans(n) => job'[j].status = "failed"
  <2>1. job[j] \in Job
    BY <1>1, Rows
  <2>2. CASE j \in Orphans(n)
    <3> DEFINE new == [job[j] EXCEPT !.status = "failed"]
    <3>1. job'[j] = new
      BY <1>2, <2>2
    <3>2. new \in Job /\ new.node = job[j].node /\ new.version = job[j].version /\ new.status = "failed"
      BY <2>1 DEF Job
    <3> HIDE DEF new
    <3> QED
      BY <2>2, <3>1, <3>2
  <2>3. CASE j \notin Orphans(n)
    BY <1>2, <2>1, <2>3
  <2> QED
    BY <2>2, <2>3
<1>4. job' \in Seq(Job) /\ Len(job') = Len(job) /\ DOMAIN job' = DOMAIN job
  <2>1. DOMAIN job = 1 .. Len(job) /\ Len(job) \in Nat
    BY <1>1, Rows
  <2>2. DOMAIN job' = DOMAIN job
    BY <1>2
  <2>3. job' = [j \in DOMAIN job' |-> job'[j]]
    BY <1>2
  <2>4. job' \in [1 .. Len(job) -> Job]
    BY <1>3, <2>1, <2>2, <2>3
  <2> QED
    BY <2>1, <2>2, <2>4, LenProperties
<1>5. ShapeInv'
  BY <1>1, <1>2, <1>4 DEF ShapeInv
<1>6. CountInv'
  BY <1>1, <1>2, <1>4 DEF CountInv
<1>7. JobInv' /\ HandInv' /\ ReservedInv' /\ OpenInv' /\ TransferInv'
  <2>1. ASSUME NEW j \in DOMAIN job
        PROVE  /\ job'[j].node = job[j].node /\ job'[j].version = job[j].version
               /\ job[j].node # n => job'[j].status = job[j].status
               /\ job'[j].status \in {"pending", "in_progress"} => Open(j)
    <3>1. CASE j \in Orphans(n)
      BY <1>3, <3>1 DEF Orphans
    <3>2. CASE j \notin Orphans(n)
      BY <1>3, <3>2 DEF Open
    <3> QED
      BY <3>1, <3>2
  <2>2. ASSUME NEW t \in DOMAIN transfer, Active(t), n \in {transfer[t].source, transfer[t].target}
        PROVE  \/ job'[CurrentJob(t)].status = job[CurrentJob(t)].status
               \/ /\ n = CleaningNode(t) /\ Open(CurrentJob(t))
                  /\ job'[CurrentJob(t)].status # "succeeded"
    <3>1. Deploys(t)
      BY <1>1, <2>2 DEF TransferInv
    <3>2. CASE CurrentJob(t) \in Orphans(n)
      <4>1. Open(CurrentJob(t)) /\ job[CurrentJob(t)].node = n
        BY <3>2 DEF Orphans, Open
      <4> QED
        BY <1>3, <3>1, <3>2, <4>1 DEF Deploys
    <3>3. CASE CurrentJob(t) \notin Orphans(n)
      BY <1>3, <3>1, <3>3 DEF Deploys
    <3> QED
      BY <3>2, <3>3
  <2> QED
    BY <1>2, <1>4, <1>5, <2>1, <2>2, AtNode
<1> QED
  BY <1>5, <1>6, <1>7 DEF Inv
(***************************************************************************)
(* The transfer service                                                    *)
(***************************************************************************)
\* A step of one transfer: it touches its own row, its own nodes and its own
\* account, adds versions and jobs and cancels a pending job of its own.
LEMMA OwnStep ==
    ASSUME Inv, ShapeInv', NEW t \in DOMAIN transfer',
           agent' = agent,
           \A n \in Nodes : /\ Extended(node[n].versions, node'[n].versions)
                            /\ node'[n].active = node[n].active
                            /\ node'[n].running = node[n].running,
           DOMAIN transfer' = DOMAIN transfer \cup {t},
           \A u \in DOMAIN transfer \ {t} :
              /\ transfer'[u] = transfer[u]
              /\ start'[u].served = start[u].served
              /\ Active(u) => account'[transfer[u].account].server = account[transfer[u].account].server,
           \A n \in Nodes :
              /\ reserved'[n] = reserved[n] \/ (reserved[n] \in {0, t} /\ reserved'[n] \in {0, t})
              /\ reserved'[n] = t =>
                    Active(t)' /\ n \in {transfer'[t].source, transfer'[t].target},
           \A j \in DOMAIN job :
              /\ j \in DOMAIN job'
              /\ job'[j].node = job[j].node /\ job'[j].version = job[j].version
              /\ reserved[job[j].node] # t \/ job[j].status = "in_progress" =>
                    job'[j].status = job[j].status
              /\ job'[j].status \in {"pending", "in_progress"} => Open(j),
           \A j \in DOMAIN job' \ DOMAIN job :
              /\ reserved'[job'[j].node] = t
              /\ job'[j].version <= Len(node'[job'[j].node].versions),
           \A j \in DOMAIN job' :
              Open(j)' /\ reserved'[job'[j].node] = t => j = CurrentJob(t)',
           Active(t)' => Holds(t)' /\ Deploys(t)' /\ Keeps(t)'
    PROVE  JobInv' /\ HandInv' /\ ReservedInv' /\ OpenInv' /\ TransferInv'
<1>1. /\ ShapeInv /\ JobInv /\ HandInv /\ ReservedInv /\ OpenInv /\ TransferInv
  BY DEF Inv
<1>2. \A n \in Nodes : Len(node[n].versions) \in Nat /\ Len(node'[n].versions) \in Nat
  <2>1. ASSUME NEW n \in Nodes PROVE Len(node'[n].versions) \in Nat
    <3>1. node'[n] \in Node
      BY DEF ShapeInv
    <3> QED
      BY <3>1 DEF Node
  <2> QED
    BY <1>1, <2>1, NodeRow
<1>3. t # 0
  <2>1. transfer' \in Seq(Transfer)
    BY DEF ShapeInv
  <2>2. DOMAIN transfer' = 1 .. Len(transfer') /\ Len(transfer') \in Nat
    BY <2>1
  <2> QED
    BY <2>2
<1>4. ASSUME NEW j \in DOMAIN job
      PROVE  /\ job[j].node \in Nodes
             /\ job[j].version <= Len(node'[job[j].node].versions)
             /\ node'[job[j].node].versions[job[j].version].accounts
                  = node[job[j].node].versions[job[j].version].accounts
  <2>1. job[j] \in Job
    BY <1>1, Rows
  <2>2. job[j].node \in Nodes /\ job[j].version \in Versions
    BY <2>1 DEF Job
  <2>3. job[j].version \in 1 .. Len(node[job[j].node].versions)
    BY <1>1, <1>2, <2>2 DEF JobInv, Versions
  <2> QED
    BY <1>2, <2>2, <2>3, ExtendedAt
<1>5. JobInv'
  BY <1>4 DEF JobInv
<1>6. HandInv'
  <2> SUFFICES ASSUME NEW n \in Nodes, agent[n] # None
               PROVE  /\ agent[n].job \in DOMAIN job'
                      /\ job'[agent[n].job].node = n /\ job'[agent[n].job].status = "in_progress"
                      /\ agent[n].stage = "succeeded" => node'[n].running = Staged(n)'
    BY DEF HandInv
  <2>1. /\ agent[n].job \in DOMAIN job
        /\ job[agent[n].job].node = n /\ job[agent[n].job].status = "in_progress"
        /\ agent[n].stage = "succeeded" => node[n].running = Staged(n)
    BY <1>1 DEF HandInv
  <2>2. Staged(n)' = Staged(n)
    BY <1>4, <2>1 DEF Staged
  <2> QED
    BY <2>1, <2>2
<1>7. ASSUME NEW n \in Nodes, reserved'[n] \notin {0, t}
      PROVE  /\ reserved'[n] = reserved[n] /\ reserved[n] \in DOMAIN transfer \ {t}
             /\ transfer'[reserved[n]] = transfer[reserved[n]]
             /\ Active(reserved[n])
             /\ n \in {transfer[reserved[n]].source, transfer[reserved[n]].target}
  BY <1>1, <1>7 DEF ReservedInv
<1>8. ReservedInv'
  <2> SUFFICES ASSUME NEW n \in Nodes, reserved'[n] # 0
               PROVE  /\ reserved'[n] \in DOMAIN transfer'
                      /\ transfer'[reserved'[n]].state \notin Terminal
                      /\ n \in {transfer'[reserved'[n]].source, transfer'[reserved'[n]].target}
    BY DEF ReservedInv, Active
  <2>1. CASE reserved'[n] = t
    BY <2>1 DEF Active
  <2>2. CASE reserved'[n] # t
    BY <1>7, <2>2 DEF Active
  <2> QED
    BY <2>1, <2>2
<1>9. OpenInv'
  <2> SUFFICES ASSUME NEW j \in DOMAIN job', job'[j].status \in {"pending", "in_progress"},
                      reserved'[job'[j].node] # 0
               PROVE  j = CurrentJob(reserved[job[j].node])'
    BY DEF OpenInv, Open
  <2>1. CASE reserved'[job'[j].node] = t
    BY <2>1 DEF Open, CurrentJob
  <2>2. CASE reserved'[job'[j].node] # t
    <3>1. j \in DOMAIN job
      BY <2>2
    <3>2. Open(j) /\ job'[j].node = job[j].node /\ job[j].node \in Nodes
      BY <1>4, <3>1
    <3> DEFINE u == reserved[job[j].node]
    <3>3. reserved'[job'[j].node] = u /\ transfer'[u] = transfer[u] /\ u # 0
      BY <1>7, <2>2, <3>2
    <3>4. j = CurrentJob(u)
      BY <1>1, <3>1, <3>2, <3>3 DEF OpenInv
    <3> QED
      BY <3>3, <3>4 DEF CurrentJob
  <2> QED
    BY <2>1, <2>2
<1>10. TransferInv'
  <2> SUFFICES ASSUME NEW u \in DOMAIN transfer', Active(u)'
               PROVE  Holds(u)' /\ Deploys(u)' /\ Keeps(u)'
    BY DEF TransferInv
  <2>1. CASE u = t
    BY <2>1
  <2>2. CASE u # t
    <3>1. u \in DOMAIN transfer \ {t} /\ transfer'[u] = transfer[u]
      BY <2>2
    <3>2. Active(u)
      BY <3>1 DEF Active
    <3>3. Holds(u) /\ Deploys(u) /\ Keeps(u)
      BY <1>1, <3>1, <3>2 DEF TransferInv
    <3>4. /\ transfer[u].source \in Nodes /\ transfer[u].target \in Nodes
          /\ CleaningNode(u) \in {transfer[u].source, transfer[u].target}
      BY <1>1, <3>1, TransferRow
    <3>5. CurrentJob(u) \in DOMAIN job /\ job[CurrentJob(u)].node = CleaningNode(u)
      BY <3>3 DEF Deploys
    <3>6. \A n \in {transfer[u].source, transfer[u].target} : reserved[n] = u
      BY <3>3 DEF Holds
    <3>7. u # 0
      BY <1>1, <3>1, Rows
    <3>8. \A n \in {transfer[u].source, transfer[u].target} : reserved'[n] = reserved[n]
      BY <3>1, <3>4, <3>6, <3>7
    <3>9. job'[CurrentJob(u)].status = job[CurrentJob(u)].status
      BY <3>1, <3>4, <3>5, <3>6
    <3>10. /\ start'[u].served = start[u].served
           /\ account'[transfer[u].account].server = account[transfer[u].account].server
      BY <3>1, <3>2
    <3> QED
      BY <1>1, <1>2, <3>1, <3>3, <3>4, <3>5, <3>8, <3>9, <3>10, Undisturbed
  <2> QED
    BY <2>1, <2>2
<1> QED
  BY <1>5, <1>6, <1>8, <1>9, <1>10

\* A transfer's row is replaced.
WithRow(trs, t, new) == [trs EXCEPT ![t] = new]

\* Replacing one row keeps the others and the length of the table.
LEMMA RowReplaced ==
    ASSUME NEW trs \in Seq(Transfer), NEW t \in DOMAIN trs, NEW new \in Transfer,
           NEW w, w = WithRow(trs, t, new)
    PROVE  /\ w \in Seq(Transfer) /\ Len(w) = Len(trs) /\ DOMAIN w = DOMAIN trs
           /\ w[t] = new
           /\ \A u \in DOMAIN trs \ {t} : w[u] = trs[u]
<1>1. Len(trs) \in Nat /\ DOMAIN trs = 1 .. Len(trs) /\ \A u \in DOMAIN trs : trs[u] \in Transfer
  OBVIOUS
<1>2. trs \in [1 .. Len(trs) -> Transfer]
  BY <1>1
<1>3. /\ w \in [1 .. Len(trs) -> Transfer] /\ w[t] = new
      /\ \A u \in DOMAIN trs \ {t} : w[u] = trs[u]
  BY <1>1, <1>2 DEF WithRow
<1>4. w \in Seq(Transfer) /\ Len(w) = Len(trs) /\ DOMAIN w = DOMAIN trs
  BY <1>1, <1>3, LenProperties
<1> QED
  BY <1>3, <1>4

\* A step that changes only a transfer's row, its reservations and where its
\* account is assigned.
LEMMA RowStep ==
    ASSUME Inv, NEW t \in DOMAIN transfer, Active(t), NEW new \in Transfer,
           transfer' = WithRow(transfer, t, new),
           new.source = transfer[t].source, new.target = transfer[t].target,
           new.account = transfer[t].account,
           account' \in [Accounts -> Account],
           \A b \in Accounts \ {transfer[t].account} : account'[b] = account[b],
           reserved' \in [Nodes -> Nat],
           \A n \in Nodes : \/ reserved'[n] = reserved[n] /\ (reserved[n] = t => Active(t)')
                            \/ reserved[n] = t /\ reserved'[n] = 0,
           UNCHANGED <<node, job, agent, edits, faults, start>>,
           Active(t)' => /\ CurrentJob(t)' = CurrentJob(t)
                         /\ Holds(t)' /\ Deploys(t)' /\ Keeps(t)'
    PROVE  Inv'
<1>1. ShapeInv /\ CountInv /\ OpenInv /\ ReservedInv /\ TransferInv
  BY DEF Inv
<1>2. /\ transfer' \in Seq(Transfer) /\ Len(transfer') = Len(transfer)
      /\ DOMAIN transfer' = DOMAIN transfer
      /\ transfer'[t] = new
      /\ \A u \in DOMAIN transfer \ {t} : transfer'[u] = transfer[u]
  <2>1. transfer \in Seq(Transfer)
    BY <1>1 DEF ShapeInv
  <2> QED
    BY <2>1, RowReplaced
<1>3. ShapeInv'
  BY <1>1, <1>2 DEF ShapeInv
<1>4. CountInv'
  BY <1>1, <1>2 DEF CountInv
<1>5. \A n \in Nodes : /\ Extended(node[n].versions, node'[n].versions)
                       /\ node'[n].active = node[n].active
                       /\ node'[n].running = node[n].running
  BY <1>1, NodeRow DEF Extended
<1>6. ASSUME NEW u \in DOMAIN transfer \ {t}
      PROVE  /\ transfer'[u] = transfer[u]
             /\ start'[u].served = start[u].served
             /\ Active(u) => account'[transfer[u].account].server = account[transfer[u].account].server
  <2>1. Active(u) => transfer[u].account # transfer[t].account
    BY <1>1, OneTransfer
  <2> QED
    BY <1>1, <1>2, <2>1, TransferRow
<1>7. t # 0
  BY <1>1, Rows
<1>8. ASSUME NEW n \in Nodes
      PROVE  /\ reserved'[n] = reserved[n] \/ (reserved[n] \in {0, t} /\ reserved'[n] \in {0, t})
             /\ reserved'[n] = t =>
                   Active(t)' /\ n \in {transfer'[t].source, transfer'[t].target}
  BY <1>1, <1>2, <1>7 DEF ReservedInv
<1>9. \A j \in DOMAIN job : job[j].node \in Nodes
  BY <1>1, Rows DEF Job
<1>10. ASSUME NEW j \in DOMAIN job', Open(j)', reserved'[job'[j].node] = t
       PROVE  j = CurrentJob(t)'
  <2>1. Open(j) /\ j \in DOMAIN job /\ job'[j].node = job[j].node
    BY <1>10 DEF Open
  <2>2. reserved[job[j].node] = t /\ Active(t)'
    BY <1>7, <1>9, <1>10, <2>1
  <2> QED
    BY <1>1, <1>7, <2>1, <2>2 DEF OpenInv
<1>11. JobInv' /\ HandInv' /\ ReservedInv' /\ OpenInv' /\ TransferInv'
  <2>1. \A j \in DOMAIN job :
          /\ j \in DOMAIN job'
          /\ job'[j].node = job[j].node /\ job'[j].version = job[j].version
          /\ job'[j].status = job[j].status
          /\ job'[j].status \in {"pending", "in_progress"} => Open(j)
    BY DEF Open
  <2>2. DOMAIN transfer' = DOMAIN transfer \cup {t} /\ t \in DOMAIN transfer'
    BY <1>2
  <2>3. DOMAIN job' = DOMAIN job /\ agent' = agent
    OBVIOUS
  <2> QED
    BY <1>3, <1>5, <1>6, <1>8, <1>10, <2>1, <2>2, <2>3, OwnStep
<1> QED
  BY <1>3, <1>4, <1>11 DEF Inv

\* The target has its version, and the account in it.
LEMMA VerifyStep ==
    ASSUME Inv, NEW t \in DOMAIN transfer, Verify(t)
    PROVE  Inv'
<1> DEFINE tr == transfer[t]
           new == [tr EXCEPT !.state = "target_ready"]
<1>1. ShapeInv /\ tr \in Transfer
  BY Rows DEF Inv
<1>2. /\ new \in Transfer /\ new.state = "target_ready"
      /\ new.account = tr.account /\ new.source = tr.source /\ new.target = tr.target
      /\ new.sourceVersion = tr.sourceVersion /\ new.targetVersion = tr.targetVersion
      /\ new.targetJob = tr.targetJob
  BY <1>1 DEF Transfer, Preparing
<1>3. /\ transfer' = WithRow(transfer, t, new)
      /\ tr.state = "target_applying" /\ TargetProved(t)
      /\ UNCHANGED <<account, node, job, agent, reserved, edits, faults, start>>
  BY DEF Verify, CanVerify, WithRow
<1>4. Active(t) /\ Active(t)'
  <2>1. transfer'[t].state = "target_ready"
    BY <1>1, <1>2, <1>3 DEF WithRow
  <2> QED
    BY <1>3, <2>1 DEF Active, Terminal
<1>5. transfer'[t] = new
  BY <1>3 DEF WithRow
<1>6. Holds(t) /\ Deploys(t) /\ Keeps(t)
  BY <1>4 DEF Inv, TransferInv
<1>7. /\ job[tr.targetJob].status = "succeeded"
      /\ tr.account \in node[tr.target].versions[tr.targetVersion].accounts
  BY <1>3 DEF TargetProved, AppliedProof, Membership, ActiveVersion
<1> HIDE DEF new
<1>8. /\ CurrentJob(t)' = CurrentJob(t) /\ CurrentVersion(t)' = CurrentVersion(t)
      /\ CleaningNode(t)' = CleaningNode(t)
  BY <1>2, <1>3, <1>5 DEF CurrentJob, CurrentVersion, CleaningNode
<1>9. Holds(t)' /\ Deploys(t)'
  BY <1>2, <1>3, <1>5, <1>6, <1>8 DEF Holds, Deploys, RunsJob
<1>10. Keeps(t)'
  <2>1. SourceKept(t)'
    BY <1>2, <1>3, <1>5, <1>6 DEF Keeps, SourceKept
  <2> QED
    BY <1>2, <1>3, <1>5, <1>6, <1>7, <2>1 DEF Keeps
<1>11. account \in [Accounts -> Account] /\ reserved \in [Nodes -> Nat]
  BY <1>1 DEF ShapeInv
<1> QED
  BY <1>2, <1>3, <1>4, <1>8, <1>9, <1>10, <1>11, RowStep

\* The subscription switches to the target, which serves the account.
LEMMA CutoverStep ==
    ASSUME Inv, NEW t \in DOMAIN transfer, Cutover(t)
    PROVE  Inv'
<1> DEFINE tr == transfer[t]
           new == [tr EXCEPT !.state = "client_refresh_pending", !.cutover = TRUE]
<1>1. ShapeInv /\ tr \in Transfer
  BY Rows DEF Inv
<1>2. /\ new \in Transfer /\ new.state = "client_refresh_pending"
      /\ new.account = tr.account /\ new.source = tr.source /\ new.target = tr.target
      /\ new.sourceVersion = tr.sourceVersion /\ new.targetVersion = tr.targetVersion
      /\ new.targetJob = tr.targetJob
  <2>1. TRUE \in BOOLEAN
    OBVIOUS
  <2> QED
    BY <1>1, <2>1 DEF Transfer, Preparing
<1>3. /\ account' = [account EXCEPT ![tr.account].server = tr.target]
      /\ tr.state = "target_ready" /\ TargetProved(t)
      /\ UNCHANGED <<node, job, agent, reserved, edits, faults, start>>
  BY DEF Cutover, CanCutover
<1>4. transfer' = WithRow(transfer, t, new)
  BY DEF Cutover, WithRow
<1>5. transfer'[t] = new
  BY <1>4 DEF WithRow
<1> HIDE DEF new
<1>6. Active(t) /\ Active(t)'
  BY <1>2, <1>3, <1>5 DEF Active, Terminal
<1>7. Holds(t) /\ Deploys(t) /\ Keeps(t)
  BY <1>6 DEF Inv, TransferInv
<1>8. /\ account' \in [Accounts -> Account]
      /\ \A b \in Accounts \ {tr.account} : account'[b] = account[b]
      /\ account'[tr.account].server = tr.target
  <2>1. account \in [Accounts -> Account] /\ tr.account \in Accounts /\ tr.target \in Nodes
    BY <1>1, TransferRow DEF ShapeInv
  <2>2. account[tr.account] \in Account
    BY <2>1
  <2> DEFINE moved == [account[tr.account] EXCEPT !.server = tr.target]
  <2>3. moved \in Account /\ moved.server = tr.target
    BY <2>1, <2>2 DEF Account
  <2>4. account' = [account EXCEPT ![tr.account] = moved]
    BY <1>3
  <2> HIDE DEF moved
  <2> QED
    BY <2>1, <2>3, <2>4
<1>9. /\ CurrentJob(t)' = CurrentJob(t) /\ CurrentVersion(t)' = CurrentVersion(t)
      /\ CleaningNode(t)' = CleaningNode(t)
  BY <1>2, <1>3, <1>5 DEF CurrentJob, CurrentVersion, CleaningNode
<1>10. Holds(t)' /\ Deploys(t)'
  BY <1>2, <1>3, <1>5, <1>7, <1>9 DEF Holds, Deploys, RunsJob
<1>11. Keeps(t)'
  <2>1. SourceKept(t)'
    BY <1>2, <1>3, <1>5, <1>7 DEF Keeps, SourceKept
  <2> QED
    BY <1>2, <1>3, <1>5, <1>7, <1>8, <2>1 DEF Keeps
<1>12. reserved' \in [Nodes -> Nat]
  BY <1>1, <1>3 DEF ShapeInv
<1> QED
  BY <1>2, <1>3, <1>4, <1>6, <1>8, <1>9, <1>10, <1>11, <1>12, RowStep

\* A transfer that is over holds no node.
LEMMA FinishStep ==
    ASSUME Inv, NEW t \in DOMAIN transfer, Finish(t)
    PROVE  Inv'
<1> DEFINE tr == transfer[t]
           over == CASE tr.state = "source_cleaning" -> "complete"
                     [] tr.state = "target_cleaning" /\ tr.cutover -> "rolled_back"
                     [] OTHER -> "cancelled"
           new == [tr EXCEPT !.state = over]
<1>1. ShapeInv /\ tr \in Transfer
  BY Rows DEF Inv
<1>2. tr.state \in {"source_cleaning", "target_cleaning"}
  BY DEF Finish, CanFinish
<1>3. /\ transfer' = WithRow(transfer, t, new)
      /\ reserved' = [n \in Nodes |-> IF reserved[n] = t THEN 0 ELSE reserved[n]]
      /\ UNCHANGED <<account, node, job, agent, edits, faults, start>>
  BY DEF Finish, WithRow
<1>4. over \in Terminal
  <2>1. CASE tr.state = "source_cleaning"
    BY <2>1 DEF Terminal
  <2>2. CASE tr.state = "target_cleaning" /\ tr.cutover
    BY <2>2 DEF Terminal
  <2>3. CASE tr.state = "target_cleaning" /\ ~tr.cutover
    BY <2>3 DEF Terminal
  <2> QED
    BY <1>2, <2>1, <2>2, <2>3
<1> HIDE DEF over
<1>5. /\ new \in Transfer /\ new.state = over
      /\ new.account = tr.account /\ new.source = tr.source /\ new.target = tr.target
  BY <1>1, <1>4 DEF Transfer
<1>6. transfer'[t] = new
  BY <1>3 DEF WithRow
<1> HIDE DEF new
<1>7. Active(t) /\ ~Active(t)'
  BY <1>2, <1>4, <1>5, <1>6 DEF Active, Terminal
<1>8. /\ account' \in [Accounts -> Account]
      /\ \A b \in Accounts \ {tr.account} : account'[b] = account[b]
      /\ reserved' \in [Nodes -> Nat]
      /\ \A n \in Nodes : \/ reserved'[n] = reserved[n] /\ reserved[n] # t
                          \/ reserved[n] = t /\ reserved'[n] = 0
  BY <1>1, <1>3 DEF ShapeInv
<1> QED
  BY <1>3, <1>5, <1>7, <1>8, RowStep

\* The row of a transfer that queues job j of version v.  A draft is a row
\* that names neither yet.
QueuedRow(tr, cleanup, v, j) ==
    IF cleanup THEN [tr EXCEPT !.cleanupVersion = v, !.cleanupJob = j]
    ELSE [tr EXCEPT !.targetVersion = v, !.targetJob = j, !.state = "target_applying"]

Draft == [account : Accounts, source : Nodes, target : Nodes,
          sourceVersion : Versions, targetVersion : 0 .. MaxVersions,
          targetJob : 0 .. MaxJobs, cleanupVersion : 0 .. MaxVersions,
          cleanupJob : 0 .. MaxJobs, cutover : BOOLEAN,
          state : Preparing \cup {"source_cleaning", "target_cleaning"} \cup Terminal]

\* What a queued row says.
LEMMA QueuedRowIs ==
    ASSUME NEW cleanup \in BOOLEAN, NEW tr, tr \in IF cleanup THEN Transfer ELSE Draft,
           NEW v \in Versions, NEW j \in Jobs
    PROVE  LET new == QueuedRow(tr, cleanup, v, j) IN
           /\ new \in Transfer
           /\ new.account = tr.account /\ new.source = tr.source /\ new.target = tr.target
           /\ new.sourceVersion = tr.sourceVersion
           /\ cleanup => new.cleanupVersion = v /\ new.cleanupJob = j /\ new.state = tr.state
           /\ ~cleanup => new.targetVersion = v /\ new.targetJob = j /\ new.state = "target_applying"
<1>1. MaxVersions \in Nat /\ MaxJobs \in Nat
  BY BoundsAssumption DEF BoundsAssumption
<1>2. v \in 0 .. MaxVersions /\ j \in 0 .. MaxJobs
  BY <1>1 DEF Versions, Jobs
<1>3. CASE cleanup
  <2> DEFINE new == [tr EXCEPT !.cleanupVersion = v, !.cleanupJob = j]
  <2>1. QueuedRow(tr, cleanup, v, j) = new
    BY <1>3 DEF QueuedRow
  <2>2. /\ new \in Transfer
        /\ new.account = tr.account /\ new.source = tr.source /\ new.target = tr.target
        /\ new.sourceVersion = tr.sourceVersion
        /\ new.cleanupVersion = v /\ new.cleanupJob = j /\ new.state = tr.state
    BY <1>2, <1>3 DEF Transfer
  <2> HIDE DEF new
  <2> QED
    BY <1>3, <2>1, <2>2
<1>4. CASE ~cleanup
  <2> DEFINE new == [tr EXCEPT !.targetVersion = v, !.targetJob = j, !.state = "target_applying"]
  <2>1. QueuedRow(tr, cleanup, v, j) = new
    BY <1>4 DEF QueuedRow
  <2>2. /\ new \in Transfer
        /\ new.account = tr.account /\ new.source = tr.source /\ new.target = tr.target
        /\ new.sourceVersion = tr.sourceVersion
        /\ new.targetVersion = v /\ new.targetJob = j /\ new.state = "target_applying"
    BY <1>4 DEF Transfer, Draft, Preparing
  <2> HIDE DEF new
  <2> QED
    BY <1>4, <2>1, <2>2
<1> QED
  BY <1>3, <1>4

\* queue() adds a version of the node as it is rendered, unless the last one
\* is the same, and a pending job that is to apply it.
Queued(acc, trs, nodes, jobs, n, cleanup, t) ==
    LET v == Len(node'[n].versions)
        j == Len(jobs) + 1
    IN  /\ account' = acc
        /\ node' \in [Nodes -> Node]
        /\ \A m \in Nodes \ {n} : node'[m] = nodes[m]
        /\ node'[n].active = nodes[n].active
        /\ node'[n].running = nodes[n].running
        /\ Extended(nodes[n].versions, node'[n].versions)
        /\ v \in Versions /\ j \in Jobs
        /\ node'[n].versions[v].accounts = Rendered(acc, trs, n)
        /\ job' \in Seq(Job) /\ DOMAIN job' = DOMAIN jobs \cup {j}
        /\ Len(job') = j /\ j \notin DOMAIN jobs
        /\ \A i \in DOMAIN jobs : job'[i] = jobs[i]
        /\ job'[j].node = n /\ job'[j].version = v /\ job'[j].status = "pending"
        /\ job'[j].owner = t
        /\ transfer' = WithRow(trs, t, QueuedRow(trs[t], cleanup, v, j))

\* What `Queue` does, in terms that the steps using it need.
LEMMA QueueGives ==
    ASSUME NEW acc, NEW trs, NEW nodes \in [Nodes -> Node], NEW jobs \in Seq(Job),
           NEW n \in Nodes, NEW cleanup \in BOOLEAN, NEW t \in 0 .. MaxTransfers,
           Queue(acc, trs, nodes, jobs, n, cleanup, t)
    PROVE  Queued(acc, trs, nodes, jobs, n, cleanup, t)
<1> DEFINE versions == WithVersion(nodes[n].versions, Content(acc, trs, n, cleanup))
           j == Len(jobs) + 1
           e == [node |-> n, version |-> Len(versions), owner |-> t, status |-> "pending"]
<1>1. /\ Len(versions) <= MaxVersions /\ j <= MaxJobs
      /\ account' = acc
      /\ node' = [nodes EXCEPT ![n].versions = versions]
      /\ job' = Append(jobs, e)
      /\ transfer' = WithRow(trs, t, QueuedRow(trs[t], cleanup, Len(versions), j))
  BY DEF Queue, WithRow, QueuedRow
<1>2. nodes[n] \in Node /\ nodes[n].versions \in Seq(Version)
  BY DEF Node
<1>3. /\ versions \in Seq(Version) /\ Extended(nodes[n].versions, versions)
      /\ Len(versions) \in Nat \ {0}
      /\ versions[Len(versions)].accounts = Rendered(acc, trs, n)
  BY <1>2, ContentShape, WithVersionAdds
<1> HIDE DEF versions
<1> DEFINE new == [nodes[n] EXCEPT !.versions = versions]
<1>4. /\ new \in Node /\ new.versions = versions
      /\ new.active = nodes[n].active /\ new.running = nodes[n].running
  BY <1>2, <1>3 DEF Node
<1>5. node' = [nodes EXCEPT ![n] = new]
  BY <1>1
<1> HIDE DEF new
<1>6. /\ node' \in [Nodes -> Node] /\ \A m \in Nodes \ {n} : node'[m] = nodes[m]
      /\ node'[n] = new
  BY <1>4, <1>5
<1>7. MaxVersions \in Nat /\ MaxJobs \in Nat /\ Len(jobs) \in Nat /\ DOMAIN jobs = 1 .. Len(jobs)
  BY BoundsAssumption DEF BoundsAssumption
<1>8. Len(versions) \in Versions /\ j \in Jobs
  BY <1>1, <1>3, <1>7 DEF Versions, Jobs
<1>9. /\ e \in Job /\ e.node = n /\ e.version = Len(versions) /\ e.status = "pending"
      /\ e.owner = t
  BY <1>8 DEF Job
<1> HIDE DEF e
<1>10. /\ job' \in Seq(Job) /\ Len(job') = j
       /\ \A i \in 1 .. Len(jobs) : job'[i] = jobs[i]
       /\ job'[j] = e
  BY <1>1, <1>9, AppendProperties
<1>11. DOMAIN job' = DOMAIN jobs \cup {j} /\ j \notin DOMAIN jobs
  BY <1>7, <1>10
<1> HIDE DEF j
<1> QED
  BY <1>1, <1>3, <1>4, <1>6, <1>7, <1>8, <1>9, <1>10, <1>11 DEF j, Queued

\* A node that a transfer is cleaning is rendered without its account, which
\* no other transfer places there.
LEMMA CleanRender ==
    ASSUME Inv, NEW t \in DOMAIN transfer, Active(t), NEW acc, NEW mid \in Transfer,
           mid.account = transfer[t].account,
           mid.source = transfer[t].source, mid.target = transfer[t].target,
           mid.state \in {"source_cleaning", "target_cleaning"},
           acc[mid.account].server =
              IF mid.state = "source_cleaning" THEN mid.target ELSE mid.source
    PROVE  mid.account \notin
              Rendered(acc, WithRow(transfer, t, mid),
                       IF mid.state = "source_cleaning" THEN mid.source ELSE mid.target)
<1> DEFINE a == mid.account
           n == IF mid.state = "source_cleaning" THEN mid.source ELSE mid.target
           trs == WithRow(transfer, t, mid)
<1>1. ShapeInv /\ TransferInv /\ transfer \in Seq(Transfer)
  BY DEF Inv, ShapeInv
<1>2. mid.source # mid.target
  BY <1>1 DEF TransferInv, Holds
<1>3. /\ DOMAIN trs = DOMAIN transfer /\ trs[t] = mid
      /\ \A u \in DOMAIN transfer \ {t} : trs[u] = transfer[u]
  BY <1>1, RowReplaced
<1>4. ASSUME NEW u \in DOMAIN transfer \ {t}, transfer[u].account = a
      PROVE  transfer[u].state \in Terminal
  BY <1>1, <1>4, OneTransfer DEF Active
<1> HIDE DEF trs
<1>5. ASSUME NEW u \in DOMAIN trs, trs[u].account = a
      PROVE  ~ \/ n = trs[u].target /\ trs[u].state \in Preparing \cup {"source_cleaning"}
               \/ n = trs[u].source /\ trs[u].state \in Preparing \cup {"target_cleaning"}
  <2>1. CASE u = t
    BY <1>2, <1>3, <2>1 DEF Preparing
  <2>2. CASE u # t
    BY <1>3, <1>4, <1>5, <2>2 DEF Preparing, Terminal
  <2> QED
    BY <2>1, <2>2
<1>6. acc[a].server # n
  BY <1>2
<1> HIDE DEF n, a
<1>7. ~Placed(acc, trs, n, a)
  BY <1>5, <1>6 DEF Placed
<1>8. a \notin Rendered(acc, trs, n)
  BY <1>7 DEF Rendered
<1> QED
  BY <1>8 DEF a, n, trs

\* A transfer whose job has ended queues the next one, or the same again.
LEMMA QueuedStep ==
    ASSUME Inv, NEW t \in DOMAIN transfer, Active(t),
           NEW acc \in [Accounts -> Account],
           \A b \in Accounts \ {transfer[t].account} : acc[b] = account[b],
           NEW mid \in Transfer,
           mid.account = transfer[t].account,
           mid.source = transfer[t].source, mid.target = transfer[t].target,
           mid.sourceVersion = transfer[t].sourceVersion,
           NEW jobs \in Seq(Job), Len(jobs) = Len(job),
           \A j \in DOMAIN job : /\ jobs[j].node = job[j].node
                                 /\ jobs[j].version = job[j].version
                                 /\ j # CurrentJob(t) => jobs[j].status = job[j].status,
           job[CurrentJob(t)].status # "in_progress",
           jobs[CurrentJob(t)].status \notin {"pending", "in_progress"},
           NEW cleanup \in BOOLEAN,
           mid.state \in IF cleanup THEN {"source_cleaning", "target_cleaning"}
                                    ELSE {"target_applying"},
           NEW n \in Nodes, n = IF mid.state = "source_cleaning" THEN mid.source ELSE mid.target,
           acc[mid.account].server =
              IF mid.state = "source_cleaning" THEN mid.target ELSE mid.source,
           mid.state # "source_cleaning" => SourceKept(t),
           mid.state = "source_cleaning" => mid.account \in node[mid.target].running,
           Queue(acc, WithRow(transfer, t, mid), node, jobs, n, cleanup, t),
           UNCHANGED <<agent, reserved, edits, faults, start>>
    PROVE  Inv'
<1> DEFINE v == Len(node'[n].versions)
           k == Len(jobs) + 1
           trs == WithRow(transfer, t, mid)
           new == QueuedRow(mid, cleanup, v, k)
<1>1. /\ ShapeInv /\ CountInv /\ JobInv /\ OpenInv /\ ReservedInv /\ TransferInv
      /\ transfer \in Seq(Transfer) /\ node \in [Nodes -> Node] /\ t # 0
      /\ job \in Seq(Job) /\ DOMAIN job = 1 .. Len(job) /\ DOMAIN jobs = DOMAIN job
  BY Rows DEF Inv, ShapeInv
<1>2. Holds(t) /\ Deploys(t) /\ Keeps(t)
  BY <1>1 DEF TransferInv
<1>3. t \in 0 .. MaxTransfers
  <2>1. /\ Len(transfer) <= MaxTransfers /\ MaxTransfers \in Nat
        /\ Len(transfer) \in Nat /\ t \in 1 .. Len(transfer)
    BY <1>1, BoundsAssumption, Rows DEF CountInv, BoundsAssumption
  <2> QED
    BY <2>1
<1>4. /\ trs \in Seq(Transfer) /\ Len(trs) = Len(transfer)
      /\ DOMAIN trs = DOMAIN transfer /\ trs[t] = mid
      /\ \A u \in DOMAIN transfer \ {t} : trs[u] = transfer[u]
  BY <1>1, RowReplaced
<1> HIDE DEF trs
<1>5. Queue(acc, trs, node, jobs, n, cleanup, t)
  BY DEF trs
<1>6. /\ account' = acc
      /\ node' \in [Nodes -> Node]
      /\ \A m \in Nodes \ {n} : node'[m] = node[m]
      /\ node'[n].active = node[n].active
      /\ node'[n].running = node[n].running
      /\ Extended(node[n].versions, node'[n].versions)
      /\ v \in Versions /\ k \in Jobs
      /\ node'[n].versions[v].accounts = Rendered(acc, trs, n)
      /\ job' \in Seq(Job) /\ DOMAIN job' = DOMAIN job \cup {k}
      /\ Len(job') = k /\ k \notin DOMAIN job
      /\ \A i \in DOMAIN job : job'[i] = jobs[i]
      /\ job'[k].node = n /\ job'[k].version = v /\ job'[k].status = "pending"
      /\ transfer' = WithRow(trs, t, new)
  <2>1. Queued(acc, trs, node, jobs, n, cleanup, t)
    BY <1>1, <1>3, <1>5, QueueGives
  <2>2. transfer' = WithRow(trs, t, QueuedRow(trs[t], cleanup, v, k))
    BY <2>1 DEF Queued
  <2> HIDE DEF new
  <2>3. transfer' = WithRow(trs, t, new)
    BY <1>4, <2>2 DEF new
  <2> QED
    BY <1>1, <2>1, <2>3 DEF Queued
<1> HIDE DEF v, k
<1>7. /\ new \in Transfer
      /\ new.account = mid.account /\ new.source = mid.source /\ new.target = mid.target
      /\ new.sourceVersion = mid.sourceVersion
      /\ cleanup => new.cleanupVersion = v /\ new.cleanupJob = k /\ new.state = mid.state
      /\ ~cleanup => new.targetVersion = v /\ new.targetJob = k /\ new.state = "target_applying"
  <2>1. mid \in IF cleanup THEN Transfer ELSE Draft
    <3>1. MaxVersions \in Nat /\ MaxJobs \in Nat
      BY BoundsAssumption DEF BoundsAssumption
    <3>2. Versions \subseteq 0 .. MaxVersions /\ Jobs \subseteq 0 .. MaxJobs
      BY <3>1 DEF Versions, Jobs
    <3>3. mid \in Draft
      BY <3>2 DEF Transfer, Draft
    <3> QED
      BY <3>3
  <2> QED
    BY <1>6, <2>1, QueuedRowIs
<1> HIDE DEF new
<1>8. /\ transfer' \in Seq(Transfer) /\ Len(transfer') = Len(transfer)
      /\ DOMAIN transfer' = DOMAIN transfer /\ transfer'[t] = new
      /\ \A u \in DOMAIN transfer \ {t} : transfer'[u] = transfer[u]
  <2>1. /\ trs \in Seq(Transfer) /\ t \in DOMAIN trs /\ new \in Transfer
        /\ transfer' = WithRow(trs, t, new)
    BY <1>4, <1>6, <1>7
  <2>2. /\ transfer' \in Seq(Transfer) /\ Len(transfer') = Len(trs)
        /\ DOMAIN transfer' = DOMAIN trs /\ transfer'[t] = new
        /\ \A u \in DOMAIN trs \ {t} : transfer'[u] = trs[u]
    BY <2>1, RowReplaced
  <2> QED
    BY <1>4, <2>2
<1>9. Active(t)' /\ CurrentJob(t)' = k /\ CurrentVersion(t)' = v /\ CleaningNode(t)' = n
  <2>1. CASE cleanup
    BY <1>7, <1>8, <2>1 DEF Active, Terminal, CurrentJob, CurrentVersion, CleaningNode
  <2>2. CASE ~cleanup
    BY <1>7, <1>8, <2>2 DEF Active, Terminal, CurrentJob, CurrentVersion, CleaningNode
  <2> QED
    BY <2>1, <2>2
<1>10. \A m \in Nodes : /\ Extended(node[m].versions, node'[m].versions)
                        /\ node'[m].active = node[m].active
                        /\ node'[m].running = node[m].running
                        /\ Len(node'[m].versions) \in Nat
  <2>1. ASSUME NEW m \in Nodes, m # n PROVE Extended(node[m].versions, node'[m].versions)
    <3>1. node'[m].versions = node[m].versions /\ Len(node[m].versions) \in Nat
      BY <1>1, <1>6, <2>1, NodeRow
    <3> QED
      BY <3>1 DEF Extended
  <2>2. ASSUME NEW m \in Nodes PROVE Len(node'[m].versions) \in Nat
    <3>1. node'[m] \in Node
      BY <1>6
    <3> QED
      BY <3>1 DEF Node
  <2> QED
    BY <1>6, <2>1, <2>2
<1> SUFFICES ShapeInv' /\ CountInv' /\ JobInv' /\ HandInv' /\ ReservedInv' /\ OpenInv' /\ TransferInv'
  BY DEF Inv
<1>11. ShapeInv'
  BY <1>1, <1>6, <1>8 DEF ShapeInv
<1>12. CountInv'
  <2>1. ASSUME NEW m \in Nodes
        PROVE  Len(node'[m].versions) <= MaxVersions /\ node'[m].active <= Len(node'[m].versions)
    <3>1. CASE m = n
      <4> DEFINE old == Len(node[n].versions)
      <4>1. v <= MaxVersions /\ v \in Nat
        BY <1>6, BoundsAssumption DEF Versions, BoundsAssumption
      <4>2. old \in Nat /\ node[n].active \in Nat /\ node[n].active <= old
        BY <1>1, NodeRow DEF CountInv
      <4>3. old <= v
        BY <1>10 DEF Extended, v
      <4> HIDE DEF old
      <4>4. node[n].active <= v
        BY <4>1, <4>2, <4>3
      <4> QED
        BY <1>6, <3>1, <4>1, <4>4 DEF v
    <3>2. CASE m # n
      <4>1. node'[m] = node[m]
        BY <3>2, <1>6
      <4> QED
        BY <4>1, <1>1 DEF CountInv
    <3> QED
      BY <3>1, <3>2
  <2>2. Len(job') <= MaxJobs
    BY <1>6, BoundsAssumption DEF Jobs, BoundsAssumption
  <2> QED
    BY <1>1, <1>8, <2>1, <2>2 DEF CountInv
<1>13. Holds(t)'
  BY <1>2, <1>7, <1>8 DEF Holds
<1>14. Deploys(t)'
  BY <1>6, <1>9 DEF Deploys
<1>15. Keeps(t)'
  <2>1. new.state = mid.state
    BY <1>7
  <2>2. account'[new.account].server =
          IF new.state \in {"client_refresh_pending", "source_cleaning"} THEN new.target ELSE new.source
    BY <1>6, <1>7, <2>1
  <2>3. new.state # "source_cleaning" => SourceKept(t)'
    <3> SUFFICES ASSUME new.state # "source_cleaning" PROVE SourceKept(t)'
      OBVIOUS
    <3> DEFINE s == mid.source
    <3>1. SourceKept(t)
      BY <2>1
    <3>2. s \in Nodes /\ mid.sourceVersion \in 1 .. Len(node[s].versions) /\ Len(node[s].versions) \in Nat
      BY <1>1, <3>1, TransferRow, NodeRow DEF SourceKept, Versions
    <3>3. Extended(node[s].versions, node'[s].versions) /\ Len(node'[s].versions) \in Nat
      BY <1>10, <3>2
    <3> HIDE DEF s
    <3>4. /\ mid.sourceVersion <= Len(node'[s].versions)
          /\ node'[s].versions[mid.sourceVersion].accounts = node[s].versions[mid.sourceVersion].accounts
      BY <3>2, <3>3, ExtendedAt
    <3>5. node'[s].active = node[s].active /\ node'[s].running = node[s].running
      BY <1>10, <3>2
    <3> QED
      BY <1>7, <1>8, <3>1, <3>4, <3>5 DEF SourceKept, s
  <2>4. new.state = "source_cleaning" => new.account \in node'[new.target].running
    <3>1. mid.target \in Nodes
      BY <1>1, TransferRow
    <3> QED
      BY <1>7, <1>10, <2>1, <3>1
  <2>5. new.state \in {"source_cleaning", "target_cleaning"} =>
          new.account \notin node'[n].versions[new.cleanupVersion].accounts
    <3> SUFFICES ASSUME new.state \in {"source_cleaning", "target_cleaning"}
                 PROVE  new.account \notin node'[n].versions[new.cleanupVersion].accounts
      OBVIOUS
    <3>1. new.cleanupVersion = v
      BY <1>7
    <3>2. mid.account \notin Rendered(acc, trs, n)
      BY <2>1, CleanRender DEF trs
    <3> QED
      BY <1>6, <1>7, <3>1, <3>2
  <2>6. new.state \notin {"target_ready", "client_refresh_pending"}
    BY <1>7
  <2> QED
    BY <1>8, <1>9, <2>2, <2>3, <2>4, <2>5, <2>6 DEF Keeps
<1>16. CurrentJob(t) \in DOMAIN job /\ reserved[job[CurrentJob(t)].node] = t
  BY <1>1, <1>2, TransferRow DEF Deploys, Holds
<1>17. ASSUME NEW j \in DOMAIN job
       PROVE  /\ j \in DOMAIN job'
              /\ job'[j].node = job[j].node /\ job'[j].version = job[j].version
              /\ reserved[job[j].node] # t \/ job[j].status = "in_progress" =>
                    job'[j].status = job[j].status
              /\ job'[j].status \in {"pending", "in_progress"} => Open(j) /\ j # CurrentJob(t)
  BY <1>6, <1>16 DEF Open
<1>18. ASSUME NEW j \in DOMAIN job', Open(j)', reserved'[job'[j].node] = t
       PROVE  j = CurrentJob(t)'
  <2>1. ASSUME j \in DOMAIN job PROVE FALSE
    <3>1. Open(j) /\ j # CurrentJob(t) /\ reserved[job[j].node] = t
      BY <1>17, <1>18, <2>1 DEF Open
    <3> QED
      BY <1>1, <2>1, <3>1 DEF OpenInv
  <2> QED
    BY <1>6, <1>9, <2>1
<1>19. ASSUME NEW u \in DOMAIN transfer \ {t}
       PROVE  /\ transfer'[u] = transfer[u]
              /\ start'[u].served = start[u].served
              /\ Active(u) => account'[transfer[u].account].server = account[transfer[u].account].server
  <2>1. Active(u) => transfer[u].account # transfer[t].account
    BY <1>1, OneTransfer
  <2> QED
    BY <1>1, <1>6, <1>8, <2>1, TransferRow
<1>20. ASSUME NEW m \in Nodes
       PROVE  /\ reserved'[m] = reserved[m]
              /\ reserved'[m] = t => Active(t)' /\ m \in {transfer'[t].source, transfer'[t].target}
  BY <1>1, <1>7, <1>8, <1>9 DEF ReservedInv
<1>21. \A j \in DOMAIN job' \ DOMAIN job :
          /\ reserved'[job'[j].node] = t
          /\ job'[j].version <= Len(node'[job'[j].node].versions)
  <2>1. reserved[n] = t
    BY <1>2 DEF Holds
  <2>2. v <= Len(node'[n].versions)
    BY <1>10 DEF v
  <2> QED
    BY <1>6, <2>1, <2>2
<1>22. JobInv' /\ HandInv' /\ ReservedInv' /\ OpenInv' /\ TransferInv'
  <2>1. DOMAIN transfer' = DOMAIN transfer \cup {t} /\ t \in DOMAIN transfer'
    BY <1>8
  <2>2. agent' = agent
    OBVIOUS
  <2> QED
    BY <1>10, <1>11, <1>13, <1>14, <1>15, <1>17, <1>18, <1>19, <1>20, <1>21, <2>1, <2>2, OwnStep
<1> QED
  BY <1>11, <1>12, <1>22

\* The source is cleaned while the target serves the account.
LEMMA CleanupStep ==
    ASSUME Inv, NEW t \in DOMAIN transfer, Cleanup(t)
    PROVE  Inv'
<1> DEFINE tr == transfer[t]
           mid == [tr EXCEPT !.state = "source_cleaning"]
<1>1. ShapeInv /\ tr \in Transfer /\ tr.source \in Nodes
  BY Rows, TransferRow DEF Inv
<1>2. /\ mid \in Transfer /\ mid.state = "source_cleaning"
      /\ mid.account = tr.account /\ mid.source = tr.source /\ mid.target = tr.target
      /\ mid.sourceVersion = tr.sourceVersion
  BY <1>1 DEF Transfer
<1>3. /\ tr.state = "client_refresh_pending"
      /\ Queue(account, WithRow(transfer, t, mid), node, job, tr.source, TRUE, t)
      /\ UNCHANGED <<agent, reserved, edits, faults, start>>
  BY DEF Cleanup, CanCleanup, WithRow
<1> HIDE DEF mid
<1>4. Active(t)
  BY <1>3 DEF Active, Terminal
<1>5. Holds(t) /\ Deploys(t) /\ Keeps(t)
  BY <1>4 DEF Inv, TransferInv
<1>6. /\ CurrentJob(t) = tr.targetJob /\ CurrentVersion(t) = tr.targetVersion
      /\ CleaningNode(t) = tr.target
  BY <1>3 DEF CurrentJob, CurrentVersion, CleaningNode
<1>7. /\ job[CurrentJob(t)].status = "succeeded"
      /\ tr.account \in node[tr.target].running
      /\ account[tr.account].server = tr.target
  BY <1>3, <1>5, <1>6 DEF Keeps, Deploys, RunsJob
<1>8. account \in [Accounts -> Account] /\ job \in Seq(Job) /\ TRUE \in BOOLEAN
  BY <1>1 DEF ShapeInv
<1> HIDE DEF tr
<1> QED
  BY <1>1, <1>2, <1>3, <1>4, <1>7, <1>8, QueuedStep DEF tr

\* A pending job is cancelled, any other one is left alone.
LEMMA CancelledJob ==
    ASSUME NEW jobs \in Seq(Job), NEW j \in DOMAIN jobs, jobs[j].status # "in_progress",
           NEW w, w = Cancelled(jobs, j)
    PROVE  /\ w \in Seq(Job) /\ Len(w) = Len(jobs)
           /\ \A i \in DOMAIN jobs : /\ w[i].node = jobs[i].node
                                     /\ w[i].version = jobs[i].version
                                     /\ w[i].owner = jobs[i].owner
                                     /\ i # j => w[i].status = jobs[i].status
           /\ w[j].status \notin {"pending", "in_progress"}
<1>1. CASE jobs[j].status = "pending"
  <2>1. w = Marked(jobs, j, "failed")
    BY <1>1 DEF Cancelled, Marked
  <2> DEFINE st == "failed"
             after == Marked(jobs, j, st)
  <2>2. st \in {"pending", "in_progress", "succeeded", "failed"}
    OBVIOUS
  <2>3. w = after
    BY <2>1
  <2> HIDE DEF st
  <2>4. /\ after \in Seq(Job) /\ Len(after) = Len(jobs)
        /\ DOMAIN after = DOMAIN jobs
        /\ \A i \in DOMAIN jobs :
             /\ after[i].node = jobs[i].node
             /\ after[i].version = jobs[i].version
             /\ after[i].owner = jobs[i].owner
             /\ i # j => after[i].status = jobs[i].status
        /\ after[j].status = st
    BY <2>2, MarkedJob, Zenon
  <2> HIDE DEF after
  <2> QED
    BY <2>3, <2>4 DEF st
<1>2. CASE jobs[j].status # "pending"
  BY <1>2 DEF Cancelled
<1> QED
  BY <1>1, <1>2

\* A transfer that is rolled back has its source as it was.
LEMMA RollbackStep ==
    ASSUME Inv, NEW t \in DOMAIN transfer, Rollback(t)
    PROVE  Inv'
<1> DEFINE tr == transfer[t]
           mid == [tr EXCEPT !.state = "target_cleaning"]
           back == [account EXCEPT ![tr.account].server = tr.source]
           jobs == Cancelled(job, tr.targetJob)
<1>1. ShapeInv /\ tr \in Transfer /\ tr.target \in Nodes
  BY Rows, TransferRow DEF Inv
<1>2. /\ mid \in Transfer /\ mid.state = "target_cleaning"
      /\ mid.account = tr.account /\ mid.source = tr.source /\ mid.target = tr.target
      /\ mid.sourceVersion = tr.sourceVersion
  BY <1>1 DEF Transfer
<1>3. /\ tr.state \in {"target_applying", "target_ready", "client_refresh_pending"}
      /\ job[tr.targetJob].status # "in_progress"
      /\ Queue(back, WithRow(transfer, t, mid), node, jobs, tr.target, TRUE, t)
      /\ UNCHANGED <<agent, reserved, edits, faults, start>>
  BY DEF Rollback, CanRollback, WithRow
<1> HIDE DEF mid
<1>4. Active(t)
  BY <1>3 DEF Active, Terminal
<1>5. Holds(t) /\ Deploys(t) /\ Keeps(t)
  BY <1>4 DEF Inv, TransferInv
<1>6. CurrentJob(t) = tr.targetJob /\ tr.targetJob \in DOMAIN job /\ SourceKept(t)
  BY <1>3, <1>5 DEF CurrentJob, Deploys, Keeps
<1>7. /\ back \in [Accounts -> Account]
      /\ \A b \in Accounts \ {tr.account} : back[b] = account[b]
      /\ back[tr.account].server = tr.source
  <2>1. account \in [Accounts -> Account] /\ tr.account \in Accounts /\ tr.source \in Nodes
    BY <1>1, TransferRow DEF ShapeInv
  <2>2. account[tr.account] \in Account
    BY <2>1
  <2> DEFINE moved == [account[tr.account] EXCEPT !.server = tr.source]
  <2>3. moved \in Account /\ moved.server = tr.source
    BY <2>1, <2>2 DEF Account
  <2>4. back = [account EXCEPT ![tr.account] = moved]
    OBVIOUS
  <2> HIDE DEF moved, back
  <2> QED
    BY <2>1, <2>3, <2>4
<1>8. job \in Seq(Job) /\ TRUE \in BOOLEAN
  BY <1>1 DEF ShapeInv
<1>9. /\ jobs \in Seq(Job) /\ Len(jobs) = Len(job)
      /\ \A i \in DOMAIN job : /\ jobs[i].node = job[i].node
                               /\ jobs[i].version = job[i].version
                               /\ i # tr.targetJob => jobs[i].status = job[i].status
      /\ jobs[tr.targetJob].status \notin {"pending", "in_progress"}
  BY <1>3, <1>6, <1>8, CancelledJob
<1> HIDE DEF tr, back, jobs
<1> QED
  BY <1>1, <1>2, <1>3, <1>4, <1>6, <1>7, <1>8, <1>9, QueuedStep DEF tr

\* A job that failed is queued again.
LEMMA RetryStep ==
    ASSUME Inv, NEW t \in DOMAIN transfer, Retry(t)
    PROVE  Inv'
<1> DEFINE tr == transfer[t]
           cleanup == tr.state # "target_applying"
           n == IF cleanup THEN CleaningNode(t) ELSE tr.target
<1>1. ShapeInv /\ tr \in Transfer /\ tr.source \in Nodes /\ tr.target \in Nodes
  BY Rows, TransferRow DEF Inv
<1>2. /\ tr.state \in {"target_applying", "source_cleaning", "target_cleaning"}
      /\ job[CurrentJob(t)].status = "failed"
      /\ Queue(account, transfer, node, job, n, cleanup, t)
      /\ UNCHANGED <<agent, reserved, edits, faults, start>>
  BY DEF Retry, CanRetry
<1>3. Active(t)
  BY <1>2 DEF Active, Terminal
<1>4. Holds(t) /\ Deploys(t) /\ Keeps(t)
  BY <1>3 DEF Inv, TransferInv
<1>5. n = (IF tr.state = "source_cleaning" THEN tr.source ELSE tr.target) /\ n \in Nodes
  BY <1>1, <1>2 DEF CleaningNode
<1>6. transfer = WithRow(transfer, t, tr)
  <2>1. transfer \in Seq(Transfer)
    BY <1>1 DEF ShapeInv
  <2> QED
    BY <2>1 DEF WithRow
<1>7. cleanup \in BOOLEAN
  OBVIOUS
<1>8. tr.state \in IF cleanup THEN {"source_cleaning", "target_cleaning"} ELSE {"target_applying"}
  BY <1>2
<1>9. /\ account[tr.account].server = IF tr.state = "source_cleaning" THEN tr.target ELSE tr.source
      /\ tr.state # "source_cleaning" => SourceKept(t)
      /\ tr.state = "source_cleaning" => tr.account \in node[tr.target].running
  BY <1>2, <1>4 DEF Keeps
<1>10. account \in [Accounts -> Account] /\ job \in Seq(Job)
  BY <1>1 DEF ShapeInv
<1> HIDE DEF n, cleanup, tr
<1>11. Queue(account, WithRow(transfer, t, tr), node, job, n, cleanup, t)
  BY <1>2, <1>6
<1> QED
  BY <1>1, <1>2, <1>3, <1>5, <1>7, <1>8, <1>9, <1>10, <1>11, QueuedStep DEF tr

\* Versions are added twice.
LEMMA ExtendedTwice ==
    ASSUME NEW r, NEW s, NEW w, Len(r) \in Nat, Len(s) \in Nat, Len(w) \in Nat,
           Extended(r, s), Extended(s, w)
    PROVE  Extended(r, w)
<1> DEFINE x == Len(r)
           y == Len(s)
           z == Len(w)
<1>1. /\ x \in Nat /\ y \in Nat /\ z \in Nat /\ x <= y /\ y <= z
      /\ \A v \in 1 .. x : s[v].accounts = r[v].accounts
      /\ \A v \in 1 .. y : w[v].accounts = s[v].accounts
  BY DEF Extended
<1> HIDE DEF x, y, z
<1>2. x <= z /\ \A v \in 1 .. x : v \in 1 .. y
  BY <1>1
<1>3. \A v \in 1 .. x : w[v].accounts = r[v].accounts
  BY <1>1, <1>2
<1> QED
  BY <1>2, <1>3 DEF Extended, x, z

\* The nodes after the baseline checks of Start.
Baseline(ends) ==
    [n \in Nodes |->
        IF n \in ends
        THEN [node[n] EXCEPT !.versions = WithVersion(@, Content(account, transfer, n, FALSE))]
        ELSE node[n]]

\* The baseline checks add versions and nothing else.
LEMMA BaselineIs ==
    ASSUME ShapeInv, NEW ends, NEW w, w = Baseline(ends)
    PROVE  /\ w \in [Nodes -> Node]
           /\ \A n \in Nodes : /\ Extended(node[n].versions, w[n].versions)
                               /\ Len(w[n].versions) \in Nat
                               /\ w[n].active = node[n].active
                               /\ w[n].running = node[n].running
                               /\ n \notin ends => w[n] = node[n]
<1>1. ASSUME NEW n \in Nodes
      PROVE  /\ w[n] \in Node
             /\ Extended(node[n].versions, w[n].versions)
             /\ Len(w[n].versions) \in Nat
             /\ w[n].active = node[n].active
             /\ w[n].running = node[n].running
             /\ n \notin ends => w[n] = node[n]
  <2>1. /\ node[n] \in Node /\ node[n].versions \in Seq(Version) /\ Len(node[n].versions) \in Nat
        /\ FALSE \in BOOLEAN
    BY NodeRow
  <2>2. CASE n \in ends
    <3> DEFINE versions == WithVersion(node[n].versions, Content(account, transfer, n, FALSE))
               new == [node[n] EXCEPT !.versions = versions]
    <3>1. w[n] = new
      BY <2>2 DEF Baseline
    <3>2. /\ versions \in Seq(Version) /\ Extended(node[n].versions, versions)
          /\ Len(versions) \in Nat
      BY <2>1, ContentShape, WithVersionAdds
    <3> HIDE DEF versions
    <3>3. /\ new \in Node /\ new.versions = versions
          /\ new.active = node[n].active /\ new.running = node[n].running
      BY <2>1, <3>2 DEF Node
    <3> HIDE DEF new
    <3> QED
      BY <2>2, <3>1, <3>2, <3>3
  <2>3. CASE n \notin ends
    <3>1. w[n] = node[n]
      BY <2>3 DEF Baseline
    <3> QED
      BY <2>1, <2>3, <3>1 DEF Extended
  <2> QED
    BY <2>2, <2>3
<1>2. w \in [Nodes -> Node]
  <2>1. w = [n \in Nodes |-> w[n]]
    BY DEF Baseline
  <2> QED
    BY <1>1, <2>1
<1> QED
  BY <1>1, <1>2

\* A row is added and then completed.
AddedRow(trs, row, t, new) == WithRow(Append(trs, row), t, new)

Added(trs, t, new, w) ==
    /\ w \in Seq(Transfer) /\ Len(w) = t
    /\ DOMAIN w = DOMAIN trs \cup {t} /\ t \notin DOMAIN trs
    /\ w[t] = new
    /\ \A u \in DOMAIN trs : w[u] = trs[u]

\* Adding a row and completing it keeps the rows that were there.
LEMMA RowAdded ==
    ASSUME NEW trs \in Seq(Transfer), NEW row, NEW new \in Transfer, NEW t, t = Len(trs) + 1,
           NEW w, w = AddedRow(trs, row, t, new)
    PROVE  Added(trs, t, new, w)
<1> DEFINE k == Len(trs)
           s == Append(trs, row)
<1>1. k \in Nat /\ DOMAIN trs = 1 .. k /\ \A u \in 1 .. k : trs[u] \in Transfer
  OBVIOUS
<1>2. DOMAIN s = 1 .. k + 1 /\ \A u \in 1 .. k : s[u] = trs[u]
  BY <1>1
<1> HIDE DEF s
<1>3. w = [s EXCEPT ![k + 1] = new] /\ t = k + 1
  BY DEF AddedRow, WithRow, s
<1> HIDE DEF k
<1>4. 1 .. k + 1 = (1 .. k) \cup {k + 1} /\ k + 1 \notin 1 .. k /\ k + 1 \in Nat
  BY <1>1
<1>5. /\ w = [u \in 1 .. k + 1 |-> w[u]] /\ DOMAIN w = 1 .. k + 1
      /\ w[k + 1] = new /\ \A u \in 1 .. k : w[u] = trs[u]
  BY <1>2, <1>3, <1>4
<1>6. w \in [1 .. k + 1 -> Transfer]
  BY <1>1, <1>4, <1>5
<1>7. w \in Seq(Transfer) /\ Len(w) = k + 1
  BY <1>4, <1>5, <1>6, LenProperties
<1> QED
  BY <1>1, <1>3, <1>4, <1>5, <1>7 DEF Added

\* The row that Start writes, before its job is queued.
StartRow(a, target) ==
    [account |-> a, source |-> account[a].server, target |-> target,
     sourceVersion |-> node[account[a].server].active, targetVersion |-> 0, targetJob |-> 0,
     cleanupVersion |-> 0, cleanupJob |-> 0, cutover |-> FALSE, state |-> "preparing"]

StartHistory(a) ==
    [served |-> a \in node[account[a].server].running,
     others |-> [n \in Nodes |-> IF node[n].active = 0 THEN {}
                                 ELSE ActiveVersion(n).accounts \ {a}],
     relimited |-> {}]

\* The version that a node runs is one of its versions.
LEMMA ActiveVersionExists ==
    ASSUME ShapeInv, CountInv, NEW n \in Nodes, node[n].active # 0
    PROVE  /\ node[n].active \in 1 .. Len(node[n].versions)
           /\ node[n].active \in Versions
           /\ ActiveVersion(n).accounts \subseteq Accounts
<1> DEFINE k == Len(node[n].versions)
           act == node[n].active
<1>1. /\ act \in Nat /\ act # 0 /\ k \in Nat /\ act <= k /\ k <= MaxVersions /\ MaxVersions \in Nat
      /\ \A v \in 1 .. k : node[n].versions[v] \in Version
  BY NodeRow, BoundsAssumption DEF CountInv, BoundsAssumption
<1> HIDE DEF k, act
<1>2. act \in 1 .. k /\ act \in 1 .. MaxVersions
  BY <1>1
<1>3. node[n].versions[act] \in Version
  BY <1>1, <1>2
<1> QED
  BY <1>2, <1>3 DEF k, act, Versions, ActiveVersion, Version

\* What Start writes down of the nodes is a history.
LEMMA StartHistoryIs ==
    ASSUME ShapeInv, CountInv, NEW a \in Accounts
    PROVE  /\ StartHistory(a) \in History
           /\ StartHistory(a).served = (a \in node[account[a].server].running)
<1> DEFINE others == [n \in Nodes |-> IF node[n].active = 0 THEN {}
                                      ELSE ActiveVersion(n).accounts \ {a}]
           served == a \in node[account[a].server].running
<1>1. ASSUME NEW n \in Nodes PROVE others[n] \in SUBSET Accounts
  BY ActiveVersionExists
<1>2. others \in [Nodes -> SUBSET Accounts]
  BY <1>1
<1>3. served \in BOOLEAN
  OBVIOUS
<1>4. StartHistory(a) = [served |-> served, others |-> others, relimited |-> {}]
  BY DEF StartHistory
<1> HIDE DEF others, served
<1>5. StartHistory(a) \in History /\ StartHistory(a).served = served
  BY <1>2, <1>3, <1>4 DEF History
<1> QED
  BY <1>5 DEF served

\* A transfer starts between two nodes that are idle and that nobody holds.
LEMMA StartStep ==
    ASSUME Inv, NEW a \in Accounts, NEW target \in Nodes, Start(a, target)
    PROVE  Inv'
<1> DEFINE source == account[a].server
           k == Len(job) + 1
           v == Len(node'[target].versions)
           row == StartRow(a, target)
           trs == Append(transfer, row)
           base == Baseline({source, target})
           new == QueuedRow(row, FALSE, v, k)
<1> PICK t : t = Len(transfer) + 1
  OBVIOUS
<1>1. /\ ShapeInv /\ CountInv /\ JobInv /\ OpenInv /\ ReservedInv /\ TransferInv
      /\ transfer \in Seq(Transfer) /\ job \in Seq(Job) /\ start \in Seq(History)
      /\ reserved \in [Nodes -> Nat] /\ Len(start) = Len(transfer)
      /\ account \in [Accounts -> Account]
  BY DEF Inv, ShapeInv
<1>2. source \in Nodes
  <2>1. account[a] \in Account
    BY <1>1
  <2> QED
    BY <2>1 DEF Account
<1>3. /\ Len(transfer) < MaxTransfers
      /\ source # target
      /\ \A n \in {source, target} : reserved[n] = 0 /\ OpenJobs(n) = {}
      /\ node[source].active # 0
      /\ a \in ActiveVersion(source).accounts
      /\ Len(base[source].versions) <= MaxVersions
      /\ Queue(account, trs, base, job, target, FALSE, t)
      /\ reserved' = [reserved EXCEPT ![source] = t, ![target] = t]
      /\ start' = Append(start, StartHistory(a))
      /\ UNCHANGED <<agent, edits, faults>>
  BY DEF Start, Baseline, StartRow, StartHistory
<1>4. /\ MaxTransfers \in Nat /\ MaxJobs \in Nat /\ MaxVersions \in Nat
      /\ Len(transfer) \in Nat /\ Len(job) \in Nat
      /\ DOMAIN transfer = 1 .. Len(transfer) /\ DOMAIN job = 1 .. Len(job)
      /\ DOMAIN start = DOMAIN transfer
  BY <1>1, Rows, BoundsAssumption DEF BoundsAssumption
<1>5. t \in 0 .. MaxTransfers /\ t # 0 /\ t \notin DOMAIN transfer /\ t \in Nat
  BY <1>3, <1>4
<1>6. /\ node[source].active \in 1 .. Len(node[source].versions)
      /\ node[source].active \in Versions
      /\ a \in node[source].versions[node[source].active].accounts
  BY <1>1, <1>2, <1>3, ActiveVersionExists DEF ActiveVersion
<1>7. /\ row \in Draft /\ row.account = a /\ row.source = source /\ row.target = target
      /\ row.sourceVersion = node[source].active
  <2>1. FALSE \in BOOLEAN /\ 0 \in 0 .. MaxVersions /\ 0 \in 0 .. MaxJobs
    BY <1>4
  <2> QED
    BY <1>2, <1>6, <2>1 DEF StartRow, Draft, Preparing
<1>8. /\ base \in [Nodes -> Node]
      /\ \A n \in Nodes : /\ Extended(node[n].versions, base[n].versions)
                          /\ Len(base[n].versions) \in Nat
                          /\ base[n].active = node[n].active
                          /\ base[n].running = node[n].running
                          /\ n \notin {source, target} => base[n] = node[n]
  BY <1>1, BaselineIs
<1> HIDE DEF base
<1>9. trs[t] = row
  BY <1>1, AppendProperties
<1>10. Queued(account, trs, base, job, target, FALSE, t)
  <2>1. FALSE \in BOOLEAN
    OBVIOUS
  <2> HIDE DEF trs
  <2> QED
    BY <1>1, <1>3, <1>5, <1>8, <2>1, QueueGives
<1>11. /\ account' = account
       /\ node' \in [Nodes -> Node]
       /\ \A m \in Nodes \ {target} : node'[m] = base[m]
       /\ node'[target].active = base[target].active
       /\ node'[target].running = base[target].running
       /\ Extended(base[target].versions, node'[target].versions)
       /\ v \in Versions /\ k \in Jobs
       /\ job' \in Seq(Job) /\ DOMAIN job' = DOMAIN job \cup {k}
       /\ Len(job') = k /\ k \notin DOMAIN job
       /\ \A i \in DOMAIN job : job'[i] = job[i]
       /\ job'[k].node = target /\ job'[k].version = v /\ job'[k].status = "pending"
  <2> HIDE DEF trs
  <2> QED
    BY <1>10 DEF Queued
<1>12. transfer' = WithRow(trs, t, new)
  <2>1. transfer' = WithRow(trs, t, QueuedRow(trs[t], FALSE, v, k))
    BY <1>10 DEF Queued
  <2> QED
    BY <1>9, <2>1
<1> HIDE DEF v, k
<1>13. /\ new \in Transfer
       /\ new.account = a /\ new.source = source /\ new.target = target
       /\ new.sourceVersion = node[source].active
       /\ new.targetVersion = v /\ new.targetJob = k /\ new.state = "target_applying"
  <2> HIDE DEF row
  <2>1. /\ new.account = row.account /\ new.source = row.source /\ new.target = row.target
        /\ new.sourceVersion = row.sourceVersion
        /\ new.targetVersion = v /\ new.targetJob = k /\ new.state = "target_applying"
        /\ new \in Transfer
    BY <1>7, <1>11 DEF QueuedRow, Draft, Transfer, Preparing
  <2> HIDE DEF new
  <2> QED
    BY <1>7, <2>1
<1> HIDE DEF new
<1>14. /\ transfer' \in Seq(Transfer) /\ Len(transfer') = Len(transfer) + 1
       /\ DOMAIN transfer' = DOMAIN transfer \cup {t}
       /\ transfer'[t] = new
       /\ \A u \in DOMAIN transfer : transfer'[u] = transfer[u]
  <2> HIDE DEF row
  <2>1. transfer' = AddedRow(transfer, row, t, new)
    BY <1>12 DEF AddedRow
  <2>2. transfer \in Seq(Transfer) /\ new \in Transfer /\ t = Len(transfer) + 1
    BY <1>1, <1>13
  <2>3. Added(transfer, t, new, transfer')
    BY <2>1, <2>2, RowAdded
  <2> QED
    BY <2>2, <2>3 DEF Added
<1>15. /\ start' \in Seq(History) /\ Len(start') = Len(transfer')
       /\ \A u \in DOMAIN transfer : start'[u] = start[u]
       /\ start'[t].served = (a \in node[source].running)
  <2> DEFINE h == StartHistory(a)
  <2>1. h \in History /\ h.served = (a \in node[source].running)
    BY <1>1, StartHistoryIs
  <2>2. start' = Append(start, h)
    BY <1>3
  <2> HIDE DEF h
  <2> QED
    BY <1>1, <1>4, <1>14, <2>1, <2>2, AppendProperties
<1>16. /\ reserved' \in [Nodes -> Nat]
       /\ \A n \in {source, target} : reserved'[n] = t /\ reserved[n] = 0
       /\ \A n \in Nodes \ {source, target} : reserved'[n] = reserved[n] /\ reserved[n] # t
  BY <1>1, <1>2, <1>3, <1>5 DEF ReservedInv
<1>17. \A m \in Nodes : /\ Extended(node[m].versions, node'[m].versions)
                        /\ node'[m].active = node[m].active
                        /\ node'[m].running = node[m].running
                        /\ Len(node'[m].versions) \in Nat
  <2>1. ASSUME NEW m \in Nodes PROVE Len(node'[m].versions) \in Nat
    <3>1. node'[m] \in Node
      BY <1>11
    <3> QED
      BY <3>1 DEF Node
  <2>2. Extended(node[target].versions, node'[target].versions)
    <3>1. Len(node[target].versions) \in Nat
      BY <1>1, NodeRow
    <3> QED
      BY <1>8, <1>11, <2>1, <3>1, ExtendedTwice
  <2> QED
    BY <1>8, <1>11, <2>1, <2>2
<1>18. ShapeInv'
  BY <1>1, <1>3, <1>11, <1>14, <1>15, <1>16 DEF ShapeInv
<1>19. CountInv'
  <2>1. ASSUME NEW m \in Nodes PROVE Len(node'[m].versions) <= MaxVersions
    <3>1. CASE m = target
      BY <1>4, <1>11, <3>1 DEF Versions, v
    <3>2. CASE m = source
      BY <1>3, <1>11, <3>2
    <3>3. CASE m \notin {source, target}
      BY <1>1, <1>8, <1>11, <3>3 DEF CountInv
    <3> QED
      BY <3>1, <3>2, <3>3
  <2>2. ASSUME NEW m \in Nodes PROVE node'[m].active <= Len(node'[m].versions)
    <3> DEFINE old == Len(node[m].versions)
               now == Len(node'[m].versions)
               act == node[m].active
    <3>1. act \in Nat /\ old \in Nat /\ now \in Nat /\ act <= old
      BY <1>1, <1>17, NodeRow DEF CountInv
    <3>2. old <= now /\ node'[m].active = act
      BY <1>17 DEF Extended
    <3> HIDE DEF old, now, act
    <3>3. act <= now
      BY <3>1, <3>2
    <3> QED
      BY <3>2, <3>3 DEF now
  <2>3. Len(job') <= MaxJobs
    BY <1>4, <1>11 DEF Jobs
  <2>4. Len(transfer') <= MaxTransfers
    BY <1>3, <1>4, <1>14
  <2> QED
    BY <1>1, <1>3, <2>1, <2>2, <2>3, <2>4 DEF CountInv
<1>20. Active(t)' /\ CurrentJob(t)' = k /\ CurrentVersion(t)' = v /\ CleaningNode(t)' = target
  BY <1>13, <1>14 DEF Active, Terminal, CurrentJob, CurrentVersion, CleaningNode
<1>21. Holds(t)' /\ Deploys(t)'
  <2>1. Holds(t)'
    BY <1>3, <1>13, <1>14, <1>16 DEF Holds
  <2>2. Deploys(t)'
    BY <1>11, <1>20 DEF Deploys
  <2> QED
    BY <2>1, <2>2
<1>22. Keeps(t)'
  <2>1. SourceKept(t)'
    <3> DEFINE act == node[source].active
    <3>1. Len(node[source].versions) \in Nat /\ Len(node'[source].versions) \in Nat
      BY <1>1, <1>2, <1>17, NodeRow
    <3>2. Extended(node[source].versions, node'[source].versions)
      BY <1>2, <1>17
    <3>3. act \in 1 .. Len(node[source].versions)
      BY <1>6
    <3> HIDE DEF act
    <3>4. act <= Len(node'[source].versions)
          /\ node'[source].versions[act].accounts = node[source].versions[act].accounts
      BY <3>1, <3>2, <3>3, ExtendedAt
    <3>5. new.source = source /\ new.sourceVersion = act /\ new.account = a
      BY <1>13 DEF act
    <3>6. a \in node[source].versions[act].accounts /\ node[source].active = act
      BY <1>6 DEF act
    <3>7. node'[source].active = act /\ node'[source].running = node[source].running
      BY <1>2, <1>17, <3>6
    <3>8. start'[t].served => a \in node[source].running
      BY <1>15
    <3> HIDE DEF source
    <3>9. transfer'[t] = new
      BY <1>14
    <3> QED
      BY <3>4, <3>5, <3>6, <3>7, <3>8, <3>9 DEF SourceKept
  <2> QED
    BY <1>11, <1>13, <1>14, <2>1 DEF Keeps
<1>23. ASSUME NEW j \in DOMAIN job', Open(j)', reserved'[job'[j].node] = t
       PROVE  j = CurrentJob(t)'
  <2>1. ASSUME j \in DOMAIN job PROVE FALSE
    <3>1. job'[j] = job[j] /\ job[j].node \in Nodes
      BY <1>1, <1>11, <2>1, Rows DEF Job
    <3>2. job[j].node \in {source, target} /\ Open(j)
      BY <1>16, <1>23, <3>1 DEF Open
    <3>3. j \in OpenJobs(job[j].node)
      BY <2>1, <3>2 DEF OpenJobs, Open
    <3> QED
      BY <1>3, <3>2, <3>3
  <2> QED
    BY <1>11, <1>20, <2>1
<1>24. \A j \in DOMAIN job :
          /\ j \in DOMAIN job'
          /\ job'[j].node = job[j].node /\ job'[j].version = job[j].version
          /\ job'[j].status = job[j].status
          /\ job'[j].status \in {"pending", "in_progress"} => Open(j)
  BY <1>11 DEF Open
<1>25. \A j \in DOMAIN job' \ DOMAIN job :
          /\ reserved'[job'[j].node] = t
          /\ job'[j].version <= Len(node'[job'[j].node].versions)
  <2>1. v <= Len(node'[target].versions)
    BY <1>17 DEF v
  <2> QED
    BY <1>11, <1>16, <2>1
<1>26. \A n \in Nodes :
          /\ reserved'[n] = reserved[n] \/ (reserved[n] \in {0, t} /\ reserved'[n] \in {0, t})
          /\ reserved'[n] = t => Active(t)' /\ n \in {transfer'[t].source, transfer'[t].target}
  BY <1>13, <1>14, <1>16, <1>20
<1>27. \A u \in DOMAIN transfer \ {t} :
          /\ transfer'[u] = transfer[u]
          /\ start'[u].served = start[u].served
          /\ account'[transfer[u].account].server = account[transfer[u].account].server
  BY <1>11, <1>14, <1>15
<1>28. JobInv' /\ HandInv' /\ ReservedInv' /\ OpenInv' /\ TransferInv'
  <2>1. agent' = agent /\ t \in DOMAIN transfer'
    BY <1>3, <1>14
  <2> QED
    BY <1>14, <1>17, <1>18, <1>21, <1>22, <1>23, <1>24, <1>25, <1>26, <1>27, <2>1, OwnStep
<1> QED
  BY <1>18, <1>19, <1>28 DEF Inv

(***************************************************************************)
(* The beginning, and every step                                           *)
(***************************************************************************)
\* The first configurations of the nodes are of the accounts assigned to them.
LEMMA InitInv ==
    ASSUME Init
    PROVE  Inv
<1>1. PICK server \in [Accounts -> Nodes] :
        LET on(n) == {a \in Accounts : server[a] = n}
        IN  /\ account = [a \in Accounts |->
                            [server |-> server[a], enabled |-> TRUE, overLimit |-> FALSE]]
            /\ node = [n \in Nodes |->
                        [versions |-> IF on(n) = {} THEN <<>>
                                      ELSE <<[accounts |-> on(n), deniesAll |-> FALSE, outdated |-> {}]>>,
                         active |-> IF on(n) = {} THEN 0 ELSE 1,
                         running |-> on(n)]]
  BY DEF Init
<1> DEFINE on(n) == {a \in Accounts : server[a] = n}
           first(n) == [accounts |-> on(n), deniesAll |-> FALSE, outdated |-> {}]
           none == <<>>
<1>2. /\ job = <<>> /\ transfer = <<>> /\ start = <<>>
      /\ agent = [n \in Nodes |-> None] /\ reserved = [n \in Nodes |-> 0]
      /\ edits = 0 /\ faults = 0
  BY DEF Init
<1>3. /\ MaxVersions \in Nat /\ MaxVersions # 0 /\ MaxJobs \in Nat /\ MaxTransfers \in Nat
      /\ MaxEdits \in Nat /\ MaxFaults \in Nat
  BY BoundsAssumption DEF BoundsAssumption
<1>4. account \in [Accounts -> Account]
  <2>1. TRUE \in BOOLEAN /\ FALSE \in BOOLEAN
    OBVIOUS
  <2> QED
    BY <1>1, <2>1 DEF Account
<1>5. ASSUME NEW n \in Nodes
      PROVE  /\ node[n] \in Node
             /\ Len(node[n].versions) <= MaxVersions
             /\ node[n].active <= Len(node[n].versions)
  <2>1. first(n) \in Version
    <3>1. FALSE \in BOOLEAN
      OBVIOUS
    <3> QED
      BY <3>1 DEF Version
  <2>2. node[n] = [versions |-> IF on(n) = {} THEN none ELSE <<first(n)>>,
                   active |-> IF on(n) = {} THEN 0 ELSE 1,
                   running |-> on(n)]
    BY <1>1
  <2> HIDE DEF first
  <2>3. none \in Seq(Version) /\ Len(none) = 0
    BY EmptySeq
  <2> HIDE DEF none
  <2>4. <<first(n)>> \in Seq(Version) /\ Len(<<first(n)>>) = 1
    BY <2>1
  <2>5. on(n) \in SUBSET Accounts
    OBVIOUS
  <2> HIDE DEF on
  <2>6. CASE on(n) = {}
    <3>1. node[n] = [versions |-> none, active |-> 0, running |-> on(n)]
      BY <2>2, <2>6
    <3>2. node[n] \in Node /\ node[n].versions = none /\ node[n].active = 0
      BY <2>3, <2>5, <3>1 DEF Node
    <3> QED
      BY <1>3, <2>3, <3>2
  <2>7. CASE on(n) # {}
    <3> DEFINE s == <<first(n)>>
    <3>1. node[n] = [versions |-> s, active |-> 1, running |-> on(n)]
      BY <2>2, <2>7
    <3>2. s \in Seq(Version) /\ Len(s) = 1
      BY <2>4
    <3> HIDE DEF s
    <3>3. node[n] \in Node /\ node[n].versions = s /\ node[n].active = 1
      BY <2>5, <3>1, <3>2 DEF Node
    <3>4. 1 <= MaxVersions /\ 1 <= 1
      BY <1>3
    <3>5. Len(node[n].versions) = 1 /\ node[n].active = 1
      BY <3>2, <3>3
    <3> QED
      BY <3>3, <3>4, <3>5
  <2> QED
    BY <2>6, <2>7
<1>6. node \in [Nodes -> Node]
  <2>1. node = [n \in Nodes |-> node[n]]
    BY <1>1
  <2> QED
    BY <1>5, <2>1
<1>7. none \in Seq(Job) /\ none \in Seq(Transfer) /\ none \in Seq(History) /\ Len(none) = 0
      /\ DOMAIN none = {}
  BY EmptySeq
<1>8. job = none /\ transfer = none /\ start = none
  BY <1>2
<1> HIDE DEF none
<1>9. agent \in [Nodes -> Task \cup {None}] /\ reserved \in [Nodes -> Nat]
  BY <1>2
<1>10. ShapeInv
  BY <1>4, <1>6, <1>7, <1>8, <1>9 DEF ShapeInv
<1>11. CountInv
  BY <1>2, <1>3, <1>5, <1>7, <1>8 DEF CountInv
<1>12. JobInv /\ HandInv /\ ReservedInv /\ OpenInv /\ TransferInv
  BY <1>2, <1>7, <1>8 DEF JobInv, HandInv, ReservedInv, OpenInv, TransferInv
<1> QED
  BY <1>10, <1>11, <1>12 DEF Inv

\* A step that changes nothing of the transfers.
LEMMA StutterStep ==
    ASSUME Inv, UNCHANGED vars
    PROVE  Inv'
<1>1. /\ ShapeInv' = ShapeInv /\ CountInv' = CountInv /\ JobInv' = JobInv /\ HandInv' = HandInv
      /\ ReservedInv' = ReservedInv /\ OpenInv' = OpenInv /\ TransferInv' = TransferInv
  <2>1. /\ account' = account /\ node' = node /\ job' = job /\ agent' = agent
        /\ transfer' = transfer /\ reserved' = reserved /\ edits' = edits /\ faults' = faults
        /\ start' = start
    BY DEF vars
  <2>2. ShapeInv' = ShapeInv /\ CountInv' = CountInv /\ JobInv' = JobInv
    BY <2>1 DEF ShapeInv, CountInv, JobInv
  <2>3. HandInv' = HandInv /\ ReservedInv' = ReservedInv
    BY <2>1 DEF HandInv, ReservedInv, Staged, Active
  <2>4. OpenInv' = OpenInv
    BY <2>1 DEF OpenInv, Open, CurrentJob
  <2>5. TransferInv' = TransferInv
    BY <2>1 DEF TransferInv, Active, Holds, Deploys, Keeps, SourceKept, RunsJob,
                CleaningNode, CurrentJob, CurrentVersion
  <2> QED
    BY <2>2, <2>3, <2>4, <2>5
<1> QED
  BY <1>1 DEF Inv

\* A reassignment by an administrator counts as an edit.
LEMMA AssignStep ==
    ASSUME Inv, NEW a \in Accounts, NEW n \in Nodes, Assign(a, n)
    PROVE  Inv'
<1>1. Reassignable(a, n) /\ Reassign(a, n) /\ edits < MaxEdits /\ edits' = edits + 1
  BY DEF Assign
<1>2. edits' \in 0 .. MaxEdits
  BY <1>1, BoundsAssumption DEF Inv, CountInv, BoundsAssumption
<1> QED
  BY <1>1, <1>2, ReassignStep

\* Every step of the transfers and of what is around them.
LEMMA NextStep ==
    ASSUME Inv, Next
    PROVE  Inv'
<1>1. CASE Admin
  <2>1. CASE \E a \in Accounts : SetStatus(a)
    BY <2>1, SetStatusStep
  <2>2. CASE \E a \in Accounts, n \in Nodes : Assign(a, n)
    BY <2>2, AssignStep
  <2>3. CASE \E a \in Accounts : EnforceLimit(a)
    BY <2>3, EnforceLimitStep
  <2>4. CASE \E n \in Nodes : RenderConfig(n)
    BY <2>4, RenderConfigStep
  <2>5. CASE \E n \in Nodes, v \in Versions : ApplyConfig(n, v)
    BY <2>5, ApplyConfigStep
  <2> QED
    BY <1>1, <2>1, <2>2, <2>3, <2>4, <2>5 DEF Admin
<1>2. CASE Operate
  <2>1. CASE \E a \in Accounts, n \in Nodes : Start(a, n)
    BY <2>1, StartStep
  <2>2. CASE \E t \in DOMAIN transfer :
               Verify(t) \/ Cutover(t) \/ Cleanup(t) \/ Rollback(t) \/ Finish(t) \/ Retry(t)
    BY <2>2, VerifyStep, CutoverStep, CleanupStep, RollbackStep, FinishStep, RetryStep
  <2> QED
    BY <1>2, <2>1, <2>2 DEF Operate
<1>3. CASE \E n \in Nodes : AgentStep(n) \/ ApplyFails(n) \/ AgentLost(n)
  BY <1>3, ClaimStep, ApplySucceedsStep, ReportStep, CloseOrphansStep, ApplyFailsStep, AgentLostStep
  DEF AgentStep
<1> QED
  BY <1>1, <1>2, <1>3 DEF Next

(***************************************************************************)
(* Automatic selection                                                     *)
(***************************************************************************)
\* The shape of the tables of the selection.
SelectionShape ==
    /\ group \in [Accounts -> Groups \cup {NoGroup}]
    /\ strategy \in [Groups -> Strategies \cup {"absent"}]
    /\ members \in [Groups -> [Nodes -> Memberships \cup {NotMember}]]
    /\ signals \in [Nodes -> Signals \cup {{}}]
    /\ policy \in [Accounts -> SelectionPolicy]
    /\ chosen \in [Accounts -> [times : Nat, recent : BOOLEAN]]

SelectionInv == SelectionShape /\ CooldownInv

\* No account was selected before the beginning.
LEMMA SelectionInitInv ==
    ASSUME SelectionInit
    PROVE  Inv /\ SelectionInv
<1>1. Inv
  BY InitInv DEF SelectionInit
<1>2. PICK s \in Scenarios :
        /\ group = s.group /\ strategy = s.strategy /\ members = s.members
        /\ policy = s.policy /\ budget = s.budget
  BY DEF SelectionInit
<1>3. /\ group \in [Accounts -> Groups \cup {NoGroup}]
      /\ strategy \in [Groups -> Strategies \cup {"absent"}]
      /\ members \in [Groups -> [Nodes -> Memberships \cup {NotMember}]]
      /\ policy \in [Accounts -> SelectionPolicy]
  BY <1>2, SelectionAssumption, Zenon DEF SelectionAssumption
<1>4. signals \in [Nodes -> Signals \cup {{}}]
  BY DEF SelectionInit
<1>5. /\ chosen \in [Accounts -> [times : Nat, recent : BOOLEAN]]
      /\ \A a \in Accounts : ~chosen[a].recent
  <2>1. FALSE \in BOOLEAN /\ 0 \in Nat
    OBVIOUS
  <2>2. chosen = [a \in Accounts |-> [times |-> 0, recent |-> FALSE]]
    BY DEF SelectionInit
  <2> QED
    BY <2>1, <2>2
<1> QED
  BY <1>1, <1>3, <1>4, <1>5 DEF SelectionInv, SelectionShape, CooldownInv

\* What is remembered of an account is replaced.
LEMMA PolicyReplaced ==
    ASSUME SelectionInv, NEW a \in Accounts,
           NEW p \in SelectionPolicy, NEW c \in [times : Nat, recent : BOOLEAN],
           c.recent => p.last = "recent",
           policy' = [policy EXCEPT ![a] = p], chosen' = [chosen EXCEPT ![a] = c]
    PROVE  /\ policy' \in [Accounts -> SelectionPolicy]
           /\ chosen' \in [Accounts -> [times : Nat, recent : BOOLEAN]]
           /\ CooldownInv'
<1>1. /\ policy \in [Accounts -> SelectionPolicy]
      /\ chosen \in [Accounts -> [times : Nat, recent : BOOLEAN]]
      /\ \A b \in Accounts : chosen[b].recent => policy[b].last = "recent"
  BY DEF SelectionInv, SelectionShape, CooldownInv
<1>2. /\ policy'[a] = p /\ chosen'[a] = c
      /\ \A b \in Accounts \ {a} : policy'[b] = policy[b] /\ chosen'[b] = chosen[b]
  BY <1>1
<1> QED
  BY <1>1, <1>2 DEF CooldownInv

\* Administrators, heartbeats and time leave the transfers alone.
LEMMA AroundStep ==
    ASSUME SelectionInv,
           \/ Administration
           \/ \E n \in Nodes, new \in Signals : SignalsChange(n, new)
           \/ \E a \in Accounts : CooldownElapses(a)
    PROVE  /\ UNCHANGED vars /\ SelectionInv'
           /\ \A a \in Accounts : chosen'[a].times = chosen[a].times
<1>1. SelectionShape /\ CooldownInv
  BY DEF SelectionInv
<1>2. CASE \E g \in Groups, s \in Strategies : CreateNodeGroup(g, s) \/ UpdateNodeGroup(g, s)
  BY <1>1, <1>2
  DEF CreateNodeGroup, UpdateNodeGroup, SelectionInv, SelectionShape, CooldownInv
<1>3. CASE \E g \in Groups : DeleteNodeGroup(g)
  <2>1. PICK g \in Groups : DeleteNodeGroup(g)
    BY <1>3
  <2> DEFINE nobody == [n \in Nodes |-> NotMember]
  <2>2. nobody \in [Nodes -> Memberships \cup {NotMember}]
    OBVIOUS
  <2>3. /\ strategy' = [strategy EXCEPT ![g] = "absent"]
        /\ members' = [members EXCEPT ![g] = nobody]
        /\ UNCHANGED <<vars, group, signals, policy, chosen>>
    BY <2>1 DEF DeleteNodeGroup
  <2> HIDE DEF nobody
  <2> QED
    BY <1>1, <2>2, <2>3 DEF SelectionInv, SelectionShape, CooldownInv
<1>4. CASE \/ \E g \in Groups, n \in Nodes, m \in Memberships : UpsertMember(g, n, m)
           \/ \E g \in Groups, n \in Nodes : DeleteMember(g, n)
  <2>1. PICK g \in Groups, n \in Nodes, m \in Memberships \cup {NotMember} :
          /\ members' = [members EXCEPT ![g][n] = m]
          /\ UNCHANGED <<vars, group, strategy, signals, policy, chosen>>
    BY <1>4 DEF UpsertMember, DeleteMember
  <2>2. members' \in [Groups -> [Nodes -> Memberships \cup {NotMember}]]
    <3> DEFINE of == [members[g] EXCEPT ![n] = m]
    <3>1. of \in [Nodes -> Memberships \cup {NotMember}]
      BY <1>1 DEF SelectionShape
    <3>2. members' = [members EXCEPT ![g] = of]
      BY <2>1
    <3> HIDE DEF of
    <3> QED
      BY <1>1, <3>1, <3>2 DEF SelectionShape
  <2> QED
    BY <1>1, <2>1, <2>2 DEF SelectionInv, SelectionShape, CooldownInv
<1>5. CASE \E a \in Accounts, g \in Groups : AssignNodeGroup(a, g)
  <2>1. PICK a \in Accounts, g \in Groups : AssignNodeGroup(a, g)
    BY <1>5
  <2> DEFINE p == [policy[a] EXCEPT !.last = "none"]
             c == [chosen[a] EXCEPT !.recent = FALSE]
  <2>2. /\ policy[a] \in SelectionPolicy /\ chosen[a] \in [times : Nat, recent : BOOLEAN]
        /\ chosen \in [Accounts -> [times : Nat, recent : BOOLEAN]]
    BY <1>1 DEF SelectionShape
  <2>3. p \in SelectionPolicy
    BY <2>2 DEF SelectionPolicy
  <2>4. c \in [times : Nat, recent : BOOLEAN] /\ ~c.recent /\ c.times = chosen[a].times
    <3>1. FALSE \in BOOLEAN
      OBVIOUS
    <3> QED
      BY <2>2, <3>1
  <2>5. /\ policy' = [policy EXCEPT ![a] = p] /\ chosen' = [chosen EXCEPT ![a] = c]
        /\ group' = [group EXCEPT ![a] = g]
        /\ UNCHANGED <<vars, strategy, members, signals>>
    BY <2>1 DEF AssignNodeGroup
  <2> HIDE DEF p, c
  <2>6. /\ policy' \in [Accounts -> SelectionPolicy]
        /\ chosen' \in [Accounts -> [times : Nat, recent : BOOLEAN]]
        /\ CooldownInv'
    BY <2>3, <2>4, <2>5, PolicyReplaced
  <2>7. group' \in [Accounts -> Groups \cup {NoGroup}]
    BY <1>1, <2>5 DEF SelectionShape
  <2>8. \A b \in Accounts : chosen'[b].times = chosen[b].times
    BY <2>2, <2>4, <2>5
  <2> QED
    BY <1>1, <2>5, <2>6, <2>7, <2>8 DEF SelectionInv, SelectionShape
<1>6. CASE \E a \in Accounts : DeleteNodeGroupAssignment(a)
  <2>1. PICK a \in Accounts : DeleteNodeGroupAssignment(a)
    BY <1>6
  <2> DEFINE p == [policy[a] EXCEPT !.enabled = FALSE]
             c == chosen[a]
  <2>2. /\ policy[a] \in SelectionPolicy /\ chosen[a] \in [times : Nat, recent : BOOLEAN]
        /\ chosen \in [Accounts -> [times : Nat, recent : BOOLEAN]]
    BY <1>1 DEF SelectionShape
  <2>3. p \in SelectionPolicy /\ p.last = policy[a].last
    <3>1. FALSE \in BOOLEAN
      OBVIOUS
    <3> QED
      BY <2>2, <3>1 DEF SelectionPolicy
  <2>4. /\ policy' = [policy EXCEPT ![a] = p] /\ chosen' = chosen
        /\ group' = [group EXCEPT ![a] = NoGroup]
        /\ UNCHANGED <<vars, strategy, members, signals>>
    BY <2>1 DEF DeleteNodeGroupAssignment
  <2>5. chosen' = [chosen EXCEPT ![a] = c]
    BY <2>2, <2>4
  <2>6. c.recent => p.last = "recent"
    BY <1>1, <2>3 DEF CooldownInv
  <2> HIDE DEF p, c
  <2>7. /\ policy' \in [Accounts -> SelectionPolicy]
        /\ chosen' \in [Accounts -> [times : Nat, recent : BOOLEAN]]
        /\ CooldownInv'
    BY <2>2, <2>3, <2>4, <2>5, <2>6, PolicyReplaced DEF c
  <2>8. group' \in [Accounts -> Groups \cup {NoGroup}]
    BY <1>1, <2>4 DEF SelectionShape
  <2> QED
    BY <1>1, <2>4, <2>7, <2>8 DEF SelectionInv, SelectionShape
<1>7. CASE \E a \in Accounts, enabled, degraded \in BOOLEAN :
             UpdateAutomaticSelectionPolicy(a, enabled, degraded)
  <2>1. PICK a \in Accounts, enabled \in BOOLEAN, degraded \in BOOLEAN :
          UpdateAutomaticSelectionPolicy(a, enabled, degraded)
    BY <1>7
  <2> DEFINE p == [policy[a] EXCEPT !.enabled = enabled, !.allowDegraded = degraded]
             c == chosen[a]
  <2>2. /\ policy[a] \in SelectionPolicy /\ chosen[a] \in [times : Nat, recent : BOOLEAN]
        /\ chosen \in [Accounts -> [times : Nat, recent : BOOLEAN]]
    BY <1>1 DEF SelectionShape
  <2>3. p \in SelectionPolicy /\ p.last = policy[a].last
    BY <2>2 DEF SelectionPolicy
  <2>4. /\ policy' = [policy EXCEPT ![a] = p] /\ chosen' = chosen
        /\ UNCHANGED <<vars, group, strategy, members, signals>>
    BY <2>1 DEF UpdateAutomaticSelectionPolicy, UpdatedPolicy
  <2>5. chosen' = [chosen EXCEPT ![a] = c]
    BY <2>2, <2>4
  <2>6. c.recent => p.last = "recent"
    BY <1>1, <2>3 DEF CooldownInv
  <2> HIDE DEF p, c
  <2>7. /\ policy' \in [Accounts -> SelectionPolicy]
        /\ chosen' \in [Accounts -> [times : Nat, recent : BOOLEAN]]
        /\ CooldownInv'
    BY <2>2, <2>3, <2>4, <2>5, <2>6, PolicyReplaced DEF c
  <2> QED
    BY <1>1, <2>4, <2>7 DEF SelectionInv, SelectionShape
<1>8. CASE \E n \in Nodes, new \in Signals : SignalsChange(n, new)
  BY <1>1, <1>8 DEF SignalsChange, SelectionInv, SelectionShape, CooldownInv
<1>9. CASE \E a \in Accounts : CooldownElapses(a)
  <2>1. PICK a \in Accounts : CooldownElapses(a)
    BY <1>9
  <2> DEFINE last == IF policy[a].last = "recent" THEN "old" ELSE policy[a].last
             p == [policy[a] EXCEPT !.last = last]
             c == [chosen[a] EXCEPT !.recent = FALSE]
  <2>2. /\ policy[a] \in SelectionPolicy /\ chosen[a] \in [times : Nat, recent : BOOLEAN]
        /\ chosen \in [Accounts -> [times : Nat, recent : BOOLEAN]]
    BY <1>1 DEF SelectionShape
  <2>3. p \in SelectionPolicy
    <3>1. last \in {"none", "recent", "old"}
      BY <2>2 DEF SelectionPolicy
    <3> HIDE DEF last
    <3> QED
      BY <2>2, <3>1 DEF SelectionPolicy
  <2>4. c \in [times : Nat, recent : BOOLEAN] /\ ~c.recent /\ c.times = chosen[a].times
    <3>1. FALSE \in BOOLEAN
      OBVIOUS
    <3> QED
      BY <2>2, <3>1
  <2>5. /\ policy' = [policy EXCEPT ![a] = p] /\ chosen' = [chosen EXCEPT ![a] = c]
        /\ UNCHANGED <<vars, group, strategy, members, signals>>
    BY <2>1 DEF CooldownElapses
  <2> HIDE DEF p, c
  <2>6. /\ policy' \in [Accounts -> SelectionPolicy]
        /\ chosen' \in [Accounts -> [times : Nat, recent : BOOLEAN]]
        /\ CooldownInv'
    BY <2>3, <2>4, <2>5, PolicyReplaced
  <2>7. \A b \in Accounts : chosen'[b].times = chosen[b].times
    BY <2>2, <2>4, <2>5
  <2> QED
    BY <1>1, <2>5, <2>6, <2>7 DEF SelectionInv, SelectionShape
<1> QED
  BY <1>2, <1>3, <1>4, <1>5, <1>6, <1>7, <1>8, <1>9 DEF Administration

\* A set of numbers has a least one.
LEMMA LeastNumber ==
    ASSUME NEW T \in SUBSET Nat, T # {}
    PROVE  \E x \in T : \A y \in T : x <= y
<1> DEFINE R == OpToRel(<, Nat)
<1>1. IsWellFoundedOn(R, Nat)
  BY NatLessThanWellFounded
<1> HIDE DEF R
<1>2. PICK x \in T : \A y \in T : ~(<<y, x>> \in R)
  BY <1>1, WFMin
<1>3. ASSUME NEW y \in T PROVE x <= y
  <2>1. ~(y < x)
    BY <1>2 DEF R, OpToRel
  <2> QED
    BY <2>1
<1> QED
  BY <1>2, <1>3

\* Where there is a candidate, one of the nodes is selected: no two of them
\* rank the same and have the same identifier.
LEMMA SelectedIsNode ==
    ASSUME SelectionShape, NEW a \in Accounts, NEW g \in Groups, NEW degraded \in BOOLEAN,
           Pool(g, degraded) # {}
    PROVE  SelectCandidate(a, g, degraded) \in Nodes
<1> DEFINE P == Pool(g, degraded)
           rank(n) == Rank(a, g, n)
           Ranks == {rank(n) : n \in P}
<1>1. \A n \in P : n \in Nodes /\ IsMember(g, n)
  BY DEF Pool, OfHealth
<1>2. ASSUME NEW n \in P PROVE rank(n) \in Nat
  <2>1. members[g][n] \in Memberships
    BY <1>1 DEF SelectionShape, IsMember
  <2>2. members[g][n].priority \in Nat
    BY <2>1, SelectionAssumption DEF SelectionAssumption
  <2>3. Score(a, n, members[g][n].weight) \in Nat
    BY <1>1, <2>1, SelectionAssumption, Zenon DEF SelectionAssumption
  <2> QED
    BY <2>2, <2>3 DEF Rank
<1>3. \A n \in P : IdOrder(n) \in Nat
  BY <1>1, SelectionAssumption DEF SelectionAssumption
<1>4. \A n, m \in P : IdOrder(n) = IdOrder(m) => n = m
  BY <1>1, SelectionAssumption DEF SelectionAssumption
<1>5. P # {}
  OBVIOUS
<1> HIDE DEF P, rank
<1>6. Ranks \in SUBSET Nat /\ Ranks # {}
  BY <1>2, <1>5
<1>7. PICK r \in Ranks : \A q \in Ranks : r <= q
  BY <1>6, LeastNumber
<1> DEFINE Best == {n \in P : rank(n) = r}
           Ids == {IdOrder(n) : n \in Best}
<1>8. Ids \in SUBSET Nat /\ Ids # {}
  BY <1>3, <1>7
<1>9. PICK i \in Ids : \A q \in Ids : i <= q
  BY <1>8, LeastNumber
<1>10. PICK n \in Best : IdOrder(n) = i
  BY <1>9
<1>11. ASSUME NEW m \in P \ {n}
       PROVE  rank(n) < rank(m) \/ (rank(n) = rank(m) /\ IdOrder(n) < IdOrder(m))
  <2>1. rank(n) <= rank(m) /\ rank(n) \in Nat /\ rank(m) \in Nat /\ rank(n) = r
    BY <1>2, <1>7, <1>10, <1>11
  <2>2. CASE rank(m) = r
    <3>1. IdOrder(n) <= IdOrder(m) /\ IdOrder(n) # IdOrder(m)
      BY <1>4, <1>9, <1>10, <1>11, <2>2
    <3>2. IdOrder(n) \in Nat /\ IdOrder(m) \in Nat
      BY <1>3, <1>10, <1>11
    <3>3. IdOrder(n) < IdOrder(m)
      BY <3>1, <3>2
    <3> QED
      BY <2>1, <2>2, <3>3
  <2>3. CASE rank(m) # r
    BY <2>1, <2>3
  <2> QED
    BY <2>2, <2>3
<1>12. \E c \in P : \A m \in P \ {c} :
         rank(c) < rank(m) \/ (rank(c) = rank(m) /\ IdOrder(c) < IdOrder(m))
  BY <1>10, <1>11
<1>13. SelectCandidate(a, g, degraded) \in P
  BY <1>12 DEF SelectCandidate, P, rank
<1> QED
  BY <1>1, <1>13 DEF P

\* A selection that is applied is not one that the cooldown forbids.
LEMMA SelectedOutOfCooldown ==
    ASSUME SelectionInv, NEW a \in Accounts, Decision(a) = "selected"
    PROVE  /\ group[a] # NoGroup
           /\ Pool(group[a], policy[a].allowDegraded) # {}
           /\ CurrentEligible(a) => ~chosen[a].recent
<1>1. chosen[a].recent => policy[a].last = "recent"
  BY DEF SelectionInv, CooldownInv
<1>2. group[a] # NoGroup
  BY DEF Decision
<1>3. Pool(group[a], policy[a].allowDegraded) # {}
  BY DEF Decision
<1>4. ~(CurrentEligible(a) /\ policy[a].last = "recent")
  BY DEF Decision
<1> QED
  BY <1>1, <1>2, <1>3, <1>4

\* A selection starts a transfer, moves the account at once, or finds its
\* transfer under way, and is remembered.
LEMMA SelectionStep ==
    ASSUME Inv, SelectionInv, NEW a \in Accounts, ApplyAutomaticSelection(a)
    PROVE  /\ Inv' /\ SelectionInv'
           /\ \A b \in Accounts : chosen'[b].times # chosen[b].times => b = a
<1> DEFINE n == SelectCandidate(a, group[a], policy[a].allowDegraded)
           p == [policy[a] EXCEPT !.last = "recent"]
           c == [times |-> chosen[a].times + 1, recent |-> TRUE]
<1>1. SelectionShape /\ CooldownInv
  BY DEF SelectionInv
<1>2. /\ Decision(a) = "selected" /\ Move(a, n)
      /\ policy' = [policy EXCEPT ![a] = p] /\ chosen' = [chosen EXCEPT ![a] = c]
      /\ UNCHANGED <<group, strategy, members, signals>>
  BY DEF ApplyAutomaticSelection, Remembered
<1>3. /\ policy[a] \in SelectionPolicy /\ chosen[a] \in [times : Nat, recent : BOOLEAN]
      /\ chosen \in [Accounts -> [times : Nat, recent : BOOLEAN]]
  BY <1>1 DEF SelectionShape
<1>4. n \in Nodes
  <2>1. group[a] \in Groups /\ policy[a].allowDegraded \in BOOLEAN
    BY <1>1, <1>2, <1>3, SelectedOutOfCooldown DEF SelectionShape, SelectionPolicy
  <2>2. Pool(group[a], policy[a].allowDegraded) # {}
    BY <1>2, SelectedOutOfCooldown
  <2> QED
    BY <1>1, <2>1, <2>2, SelectedIsNode
<1> HIDE DEF n
<1>5. Inv'
  <2>1. CASE Deployed(a)
    BY <1>2, <1>4, <2>1, StutterStep, StartStep DEF Move
  <2>2. CASE ~Deployed(a)
    <3>1. Reassignable(a, n) /\ Reassign(a, n) /\ edits' = edits
      BY <1>2, <2>2 DEF Move
    <3>2. edits' \in 0 .. MaxEdits
      BY <3>1 DEF Inv, CountInv
    <3> QED
      BY <1>4, <3>1, <3>2, ReassignStep
  <2> QED
    BY <2>1, <2>2
<1>6. p \in SelectionPolicy /\ p.last = "recent"
  BY <1>3 DEF SelectionPolicy
<1>7. c \in [times : Nat, recent : BOOLEAN]
  <2>1. TRUE \in BOOLEAN /\ chosen[a].times + 1 \in Nat
    BY <1>3
  <2> QED
    BY <2>1
<1> HIDE DEF p, c
<1>8. /\ policy' \in [Accounts -> SelectionPolicy]
      /\ chosen' \in [Accounts -> [times : Nat, recent : BOOLEAN]]
      /\ CooldownInv'
  BY <1>2, <1>6, <1>7, PolicyReplaced
<1>9. \A b \in Accounts \ {a} : chosen'[b] = chosen[b]
  BY <1>2, <1>3
<1> QED
  BY <1>1, <1>2, <1>5, <1>8, <1>9 DEF SelectionInv, SelectionShape

\* Every step.
LEMMA SelectionNextInv ==
    ASSUME Inv, SelectionInv, [SelectionNext]_allVars
    PROVE  Inv' /\ SelectionInv'
<1>1. CASE Next /\ UNCHANGED selectionVars
  <2>1. Inv'
    BY <1>1, NextStep
  <2> QED
    BY <1>1, <2>1 DEF selectionVars, SelectionInv, SelectionShape, CooldownInv
<1>2. CASE \/ Administration
           \/ \E n \in Nodes, new \in Signals : SignalsChange(n, new)
           \/ \E a \in Accounts : CooldownElapses(a)
  BY <1>2, AroundStep, StutterStep
<1>3. CASE \E a \in Accounts : ApplyAutomaticSelection(a)
  BY <1>3, SelectionStep
<1>4. CASE UNCHANGED allVars
  <2>1. UNCHANGED vars /\ UNCHANGED selectionVars
    BY <1>4 DEF allVars
  <2>2. Inv'
    BY <2>1, StutterStep
  <2> QED
    BY <2>1, <2>2 DEF selectionVars, SelectionInv, SelectionShape, CooldownInv
<1> QED
  BY <1>1, <1>2, <1>3, <1>4 DEF SelectionNext

(***************************************************************************)
(* Theorems                                                                *)
(***************************************************************************)
\* Inv and SelectionInv hold in every state that the transfers, the queue, the
\* Agents and the automatic selection reach.
THEOREM Invariance == SelectionSpec => [](Inv /\ SelectionInv)
<1>1. SelectionInit => Inv /\ SelectionInv
  BY SelectionInitInv
<1>2. Inv /\ SelectionInv /\ [SelectionNext]_allVars => (Inv /\ SelectionInv)'
  BY SelectionNextInv
<1> QED
  BY <1>1, <1>2, PTL DEF SelectionSpec

\* Every table keeps its shape, jobs and active versions name versions that
\* exist and a claimed job is in progress while its Agent works on it
\* (config_apply_jobs, servers.active_config_version_id, vpn_account_transfers).
THEOREM TypeCorrect == SelectionSpec => []SelectionTypeOK
<1>1. Inv /\ SelectionInv => SelectionTypeOK
  <2> SUFFICES ASSUME Inv, SelectionInv PROVE SelectionTypeOK
    OBVIOUS
  <2>1. ShapeInv /\ CountInv /\ JobInv /\ HandInv /\ ReservedInv
    BY DEF Inv
  <2>2. ASSUME NEW n \in Nodes
        PROVE  /\ node[n].versions \in Seq(Version) /\ Len(node[n].versions) <= MaxVersions
               /\ node[n].active \in 0 .. Len(node[n].versions)
               /\ node[n].running \subseteq Accounts
    <3> DEFINE k == Len(node[n].versions)
               act == node[n].active
    <3>1. k \in Nat /\ act \in Nat /\ act <= k
      BY <2>1, NodeRow DEF CountInv
    <3> HIDE DEF k, act
    <3>2. act \in 0 .. k
      BY <3>1
    <3> QED
      BY <2>1, <3>2, NodeRow DEF CountInv, k, act
  <2>3. ASSUME NEW n \in Nodes PROVE reserved[n] \in 0 .. Len(transfer)
    <3>1. Len(transfer) \in Nat /\ DOMAIN transfer = 1 .. Len(transfer)
      BY <2>1, Rows
    <3> QED
      BY <2>1, <3>1 DEF ReservedInv
  <2>4. ASSUME NEW n \in Nodes, agent[n] # None
        PROVE  /\ agent[n].stage \in {"applying", "succeeded", "failed"}
               /\ job[agent[n].job].node = n /\ job[agent[n].job].status = "in_progress"
    <3>1. agent[n] \in Task
      BY <2>1, <2>4 DEF ShapeInv
    <3> QED
      BY <2>1, <2>4, <3>1 DEF Task, HandInv
  <2>5. TypeOK
    BY <2>1, <2>2, <2>3, <2>4 DEF TypeOK, ShapeInv, Account, CountInv, JobInv
  <2> QED
    BY <2>5 DEF SelectionTypeOK, SelectionInv, SelectionShape
<1> QED
  BY <1>1, Invariance, PTL

\* Between cutover and the end of the source's cleanup the target serves the
\* account.
LEMMA TargetServes ==
    ASSUME Inv, NEW t \in DOMAIN transfer,
           transfer[t].state \in {"client_refresh_pending", "source_cleaning"}
    PROVE  /\ account[transfer[t].account].server = transfer[t].target
           /\ transfer[t].account \in node[transfer[t].target].running
<1>1. Active(t)
  BY DEF Active, Terminal
<1>2. Holds(t) /\ Deploys(t) /\ Keeps(t)
  BY <1>1 DEF Inv, TransferInv
<1>3. CASE transfer[t].state = "source_cleaning"
  BY <1>2, <1>3 DEF Keeps
<1>4. CASE transfer[t].state = "client_refresh_pending"
  <2>1. /\ CurrentJob(t) = transfer[t].targetJob /\ CurrentVersion(t) = transfer[t].targetVersion
        /\ CleaningNode(t) = transfer[t].target
    BY <1>4 DEF CurrentJob, CurrentVersion, CleaningNode
  <2> QED
    BY <1>2, <1>4, <2>1 DEF Keeps, Deploys, RunsJob
<1> QED
  BY <1>3, <1>4

\* A transfer never costs the account its access: when the source served it at
\* the beginning, the node that its subscription points to serves it in every
\* state of the transfer (Act's cutover, cleanup and rollback, the reservation).
THEOREM AccessKept == SelectionSpec => []AccessNeverLost
<1>1. Inv => AccessNeverLost
  <2> SUFFICES ASSUME Inv, NEW t \in DOMAIN transfer
               PROVE  /\ Active(t) /\ start[t].served =>
                            transfer[t].account \in node[account[transfer[t].account].server].running
                      /\ transfer[t].state \in {"client_refresh_pending", "source_cleaning"} =>
                            transfer[t].account \in node[transfer[t].target].running
    BY DEF AccessNeverLost
  <2>1. CASE transfer[t].state \in {"client_refresh_pending", "source_cleaning"}
    BY <2>1, TargetServes
  <2>2. CASE transfer[t].state \notin {"client_refresh_pending", "source_cleaning"}
    <3>1. Active(t) => /\ account[transfer[t].account].server = transfer[t].source
                       /\ SourceKept(t)
      BY <2>2 DEF Inv, TransferInv, Keeps
    <3> QED
      BY <2>2, <3>1 DEF SourceKept
  <2> QED
    BY <2>1, <2>2
<1> QED
  BY <1>1, Invariance, PTL

\* Unless its job is still open, a step of the transfer itself is allowed that
\* leads to its end (the guards of rollback, finish and retry).
THEOREM NeverStuck == SelectionSpec => []NeverWedged
<1>1. Inv => NeverWedged
  <2> SUFFICES ASSUME Inv, NEW t \in DOMAIN transfer, Active(t),
                      job[CurrentJob(t)].status \notin {"pending", "in_progress"}
               PROVE  \/ CanRollback(t) \/ CanFinish(t)
                      \/ CanRetry(t) /\ transfer[t].state # "target_applying"
    BY DEF NeverWedged
  <2>1. ShapeInv /\ Holds(t) /\ Deploys(t) /\ Keeps(t)
    BY DEF Inv, TransferInv
  <2>2. job[CurrentJob(t)].status \in {"succeeded", "failed"}
    BY <2>1, Rows DEF Deploys, Job
  <2>3. CASE transfer[t].state \in {"source_cleaning", "target_cleaning"}
    <3>1. CurrentJob(t) = transfer[t].cleanupJob /\ CurrentVersion(t) = transfer[t].cleanupVersion
      BY <2>3 DEF CurrentJob, CurrentVersion
    <3>2. CASE job[CurrentJob(t)].status = "failed"
      BY <2>3, <3>2 DEF CanRetry
    <3>3. CASE job[CurrentJob(t)].status = "succeeded"
      <4>1. /\ node[CleaningNode(t)].active = transfer[t].cleanupVersion
            /\ transfer[t].account \notin
                  node[CleaningNode(t)].versions[transfer[t].cleanupVersion].accounts
        BY <2>1, <2>3, <3>1, <3>3 DEF Deploys, RunsJob, Keeps
      <4> QED
        BY <2>3, <3>1, <3>3, <4>1 DEF CanFinish, AppliedProof, Membership, ActiveVersion
    <3> QED
      BY <2>2, <3>2, <3>3
  <2>4. CASE transfer[t].state \notin {"source_cleaning", "target_cleaning"}
    <3>1. transfer[t].state \in {"target_applying", "target_ready", "client_refresh_pending"}
      BY <2>1, <2>4, TransferRow DEF Holds, Active, Preparing
    <3>2. CurrentJob(t) = transfer[t].targetJob
      BY <3>1 DEF CurrentJob
    <3>3. SourceKept(t)
      BY <2>1, <3>1 DEF Keeps
    <3>4. Membership(transfer[t].source, transfer[t].sourceVersion, transfer[t].account, TRUE)
      BY <3>3 DEF Membership, ActiveVersion, SourceKept
    <3> QED
      BY <3>1, <3>2, <3>4 DEF CanRollback
  <2> QED
    BY <2>3, <2>4
<1> QED
  BY <1>1, Invariance, PTL

\* While a node is reserved nothing but its transfer's own step is queued or in
\* progress on it, and never two steps at once (routegate_transfer_job_guard,
\* the busy check of Start, retry's guard).
THEOREM ReservationsHold == SelectionSpec => []ReservationHolds
<1>1. Inv => ReservationHolds
  <2> SUFFICES ASSUME Inv, NEW n \in Nodes, reserved[n] # 0
               PROVE  /\ Cardinality(OpenJobs(n)) <= 1
                      /\ \A j \in OpenJobs(n) : j = CurrentJob(reserved[n])
    BY DEF ReservationHolds
  <2> DEFINE c == CurrentJob(reserved[n])
             O == OpenJobs(n)
  <2>1. \A j \in O : j = c
    BY DEF Inv, OpenInv, OpenJobs, Open
  <2>2. IsFiniteSet({c}) /\ Cardinality({c}) = 1
    BY FS_Singleton
  <2> HIDE DEF c, O
  <2>3. O \subseteq {c}
    BY <2>1
  <2>4. Cardinality(O) <= Cardinality({c})
    BY <2>2, <2>3, FS_Subset
  <2> QED
    BY <2>1, <2>2, <2>4 DEF c, O
<1> QED
  BY <1>1, Invariance, PTL

\* queue() ends no transfer.
LEMMA QueueEndsNone ==
    ASSUME NEW acc, NEW trs, NEW nodes, NEW jobs, NEW n, NEW cleanup, NEW t,
           Queue(acc, trs, nodes, jobs, n, cleanup, t),
           NEW u \in DOMAIN trs, trs[u].state \notin Terminal, "state" \in DOMAIN trs[u]
    PROVE  transfer'[u].state \notin Terminal
<1>1. PICK v : transfer' = WithRow(trs, t, QueuedRow(trs[t], cleanup, v, Len(jobs) + 1))
  BY DEF Queue, WithRow, QueuedRow
<1>2. CASE u # t
  BY <1>1, <1>2 DEF WithRow
<1>3. CASE u = t
  <2> DEFINE k == Len(jobs) + 1
             new == QueuedRow(trs[t], cleanup, v, k)
  <2>1. transfer'[u] = new
    BY <1>1, <1>3 DEF WithRow
  <2>2. CASE cleanup
    <3>1. new = [trs[t] EXCEPT !.cleanupVersion = v, !.cleanupJob = k]
      BY <2>2 DEF QueuedRow
    <3>2. new.state = trs[t].state
      BY <1>3, <3>1
    <3> QED
      BY <1>3, <2>1, <3>2
  <2>3. CASE ~cleanup
    <3>1. new = [trs[t] EXCEPT !.targetVersion = v, !.targetJob = k, !.state = "target_applying"]
      BY <2>3 DEF QueuedRow
    <3>2. new.state = "target_applying"
      BY <1>3, <3>1
    <3> HIDE DEF new
    <3> QED
      BY <2>1, <3>2 DEF Terminal
  <2> QED
    BY <2>2, <2>3
<1> QED
  BY <1>2, <1>3

\* Only finish ends a transfer, and it asks for the proof that the node which
\* the account leaves runs the version without it.
LEMMA EndsByFinish ==
    ASSUME Inv, NEW t \in DOMAIN transfer, Active(t), ~Active(t)',
           \/ Next
           \/ \E a \in Accounts : ApplyAutomaticSelection(a)
    PROVE  Finish(t)
<1>1. /\ ShapeInv /\ transfer \in Seq(Transfer) /\ transfer[t] \in Transfer
      /\ transfer[t].state \notin Terminal
  BY Rows DEF Inv, ShapeInv, Active
<1>2. transfer'[t].state \in Terminal
  BY DEF Active
<1>3. ASSUME NEW u \in DOMAIN transfer, NEW st, st \notin Terminal
      PROVE  LET trs == [transfer EXCEPT ![u].state = st]
             IN  /\ t \in DOMAIN trs /\ trs[t].state \notin Terminal /\ "state" \in DOMAIN trs[t]
  <2> DEFINE new == [transfer[u] EXCEPT !.state = st]
             trs == [transfer EXCEPT ![u] = new]
  <2>1. transfer[u] \in Transfer
    BY <1>1, Rows
  <2>2. new.state = st /\ "state" \in DOMAIN new
    BY <2>1 DEF Transfer
  <2> HIDE DEF new
  <2>3. t \in DOMAIN trs /\ trs[t] = IF t = u THEN new ELSE transfer[t]
    BY <1>1
  <2>4. "state" \in DOMAIN transfer[t]
    BY <1>1 DEF Transfer
  <2>5. trs[t].state \notin Terminal /\ "state" \in DOMAIN trs[t]
    BY <1>1, <1>3, <2>2, <2>3, <2>4
  <2> QED
    BY <2>3, <2>5 DEF new
<1>4. ~ \E u \in DOMAIN transfer : Verify(u) \/ Cutover(u) \/ Cleanup(u) \/ Rollback(u) \/ Retry(u)
  <2>1. ASSUME NEW u \in DOMAIN transfer, Verify(u) PROVE FALSE
    <3>1. transfer' = [transfer EXCEPT ![u].state = "target_ready"]
      BY <2>1 DEF Verify
    <3>2. "target_ready" \notin Terminal
      BY DEF Terminal
    <3> QED
      BY <1>2, <1>3, <3>1, <3>2
  <2>2. ASSUME NEW u \in DOMAIN transfer, Cutover(u) PROVE FALSE
    <3> DEFINE new == [transfer[u] EXCEPT !.state = "client_refresh_pending", !.cutover = TRUE]
    <3>1. transfer' = [transfer EXCEPT ![u] = new]
      BY <2>2 DEF Cutover
    <3>2. new.state = "client_refresh_pending"
      BY <1>1, Rows DEF Transfer
    <3> HIDE DEF new
    <3>3. transfer'[t] = IF t = u THEN new ELSE transfer[t]
      BY <1>1, <3>1
    <3> QED
      BY <1>1, <1>2, <3>2, <3>3 DEF Terminal
  <2>3. ASSUME NEW u \in DOMAIN transfer, Cleanup(u) PROVE FALSE
    <3> DEFINE trs == [transfer EXCEPT ![u].state = "source_cleaning"]
               s == transfer[u].source
    <3>1. Queue(account, trs, node, job, s, TRUE, u)
      BY <2>3 DEF Cleanup
    <3>2. "source_cleaning" \notin Terminal
      BY DEF Terminal
    <3>3. t \in DOMAIN trs /\ trs[t].state \notin Terminal /\ "state" \in DOMAIN trs[t]
      BY <1>3, <3>2
    <3> HIDE DEF trs, s
    <3> QED
      BY <1>2, <3>1, <3>3, QueueEndsNone
  <2>4. ASSUME NEW u \in DOMAIN transfer, Rollback(u) PROVE FALSE
    <3> DEFINE trs == [transfer EXCEPT ![u].state = "target_cleaning"]
               s == transfer[u].target
               back == [account EXCEPT ![transfer[u].account].server = transfer[u].source]
               jobs == Cancelled(job, transfer[u].targetJob)
    <3>1. Queue(back, trs, node, jobs, s, TRUE, u)
      BY <2>4 DEF Rollback
    <3>2. "target_cleaning" \notin Terminal
      BY DEF Terminal
    <3>3. t \in DOMAIN trs /\ trs[t].state \notin Terminal /\ "state" \in DOMAIN trs[t]
      BY <1>3, <3>2
    <3> HIDE DEF trs, s, back, jobs
    <3> QED
      BY <1>2, <3>1, <3>3, QueueEndsNone
  <2>5. ASSUME NEW u \in DOMAIN transfer, Retry(u) PROVE FALSE
    <3> DEFINE cleanup == transfer[u].state # "target_applying"
               s == IF cleanup THEN CleaningNode(u) ELSE transfer[u].target
    <3>1. Queue(account, transfer, node, job, s, cleanup, u)
      BY <2>5 DEF Retry
    <3>2. "state" \in DOMAIN transfer[t]
      BY <1>1 DEF Transfer
    <3> HIDE DEF s, cleanup
    <3> QED
      BY <1>1, <1>2, <3>1, <3>2, QueueEndsNone
  <2> QED
    BY <2>1, <2>2, <2>3, <2>4, <2>5
<1>5. ASSUME NEW a \in Accounts, NEW n, Start(a, n) PROVE FALSE
  <2> DEFINE row == StartRow(a, n)
             trs == Append(transfer, row)
             base == Baseline({account[a].server, n})
             k == Len(transfer) + 1
  <2>1. Queue(account, trs, base, job, n, FALSE, k)
    BY <1>5 DEF Start, Baseline, StartRow
  <2> HIDE DEF row
  <2>2. t \in DOMAIN trs /\ trs[t] = transfer[t]
    <3>1. Len(transfer) \in Nat /\ DOMAIN transfer = 1 .. Len(transfer)
      BY <1>1, Rows
    <3> QED
      BY <1>1, <3>1
  <2>3. "state" \in DOMAIN transfer[t]
    BY <1>1 DEF Transfer
  <2> HIDE DEF trs, base, k
  <2> QED
    BY <1>1, <1>2, <2>1, <2>2, <2>3, QueueEndsNone
<1>6. transfer' # transfer
  BY <1>1, <1>2
<1>7. ~Admin
  BY <1>6 DEF Admin, SetStatus, Assign, Reassign, EnforceLimit, RenderConfig, ApplyConfig
<1>8. ~ \E n \in Nodes : AgentStep(n) \/ ApplyFails(n) \/ AgentLost(n)
  BY <1>6 DEF AgentStep, Claim, ApplySucceeds, Report, CloseOrphans, ApplyFails, AgentLost
<1>9. ~ \E a \in Accounts : ApplyAutomaticSelection(a)
  BY <1>5, <1>6 DEF ApplyAutomaticSelection, Move, Reassign, vars
<1>10. PICK u \in DOMAIN transfer : Finish(u)
  BY <1>4, <1>5, <1>7, <1>8, <1>9 DEF Next, Operate
<1>11. u = t
  <2>1. u # t => transfer'[t] = transfer[t]
    BY <1>10 DEF Finish
  <2> QED
    BY <1>1, <1>2, <2>1
<1> QED
  BY <1>10, <1>11

\* In the step that ends a transfer the node that the account leaves no longer
\* lets it in, for real and not only in Manager's books (Act's finish:
\* appliedProof and membership).
THEOREM Withdrawn == SelectionSpec => WithdrawnAtTheEnd
<1> DEFINE Ends == \A t \in DOMAIN transfer :
                     Active(t) /\ ~Active(t)' =>
                         transfer[t].account \notin node'[CleaningNode(t)].running
<1>1. Inv /\ SelectionInv /\ [SelectionNext]_allVars => [Ends]_vars
  <2> SUFFICES ASSUME Inv, SelectionInv, [SelectionNext]_allVars, ~UNCHANGED vars,
                      NEW t \in DOMAIN transfer, Active(t), ~Active(t)'
               PROVE  transfer[t].account \notin node'[CleaningNode(t)].running
    OBVIOUS
  <2>1. Next \/ \E a \in Accounts : ApplyAutomaticSelection(a)
    BY AroundStep DEF SelectionNext, allVars
  <2>2. Finish(t)
    BY <2>1, EndsByFinish
  <2>3. /\ transfer[t].state \in {"source_cleaning", "target_cleaning"}
        /\ job[transfer[t].cleanupJob].status = "succeeded"
        /\ node' = node
    BY <2>2 DEF Finish, CanFinish, AppliedProof
  <2>4. CurrentJob(t) = transfer[t].cleanupJob /\ CurrentVersion(t) = transfer[t].cleanupVersion
    BY <2>3 DEF CurrentJob, CurrentVersion
  <2>5. Deploys(t) /\ Keeps(t)
    BY DEF Inv, TransferInv
  <2> QED
    BY <2>3, <2>4, <2>5 DEF Deploys, RunsJob, Keeps
<1>2. SelectionSpec => [][SelectionNext]_allVars
  BY PTL DEF SelectionSpec
<1>3. SelectionSpec => [][Ends]_vars
  BY <1>1, <1>2, Invariance, PTL
<1> QED
  BY <1>3 DEF WithdrawnAtTheEnd

\* A selection takes an account away from a node that is still a good candidate
\* only when the cooldown of its last selection is over
\* (ApplyAutomaticSelection, AssignNodeGroup).
THEOREM CooldownKept == SelectionSpec => CooldownHolds
<1> DEFINE Respects == \A a \in Accounts :
                         chosen'[a].times # chosen[a].times /\ CurrentEligible(a) =>
                            ~chosen[a].recent
<1>1. Inv /\ SelectionInv /\ [SelectionNext]_allVars => [Respects]_allVars
  <2> SUFFICES ASSUME Inv, SelectionInv, SelectionNext,
                      NEW a \in Accounts, chosen'[a].times # chosen[a].times, CurrentEligible(a)
               PROVE  ~chosen[a].recent
    OBVIOUS
  <2>1. ~UNCHANGED selectionVars
    BY DEF selectionVars
  <2>2. PICK b \in Accounts : ApplyAutomaticSelection(b)
    BY <2>1, AroundStep DEF SelectionNext
  <2>3. a = b
    BY <2>2, SelectionStep
  <2>4. Decision(a) = "selected"
    BY <2>2, <2>3 DEF ApplyAutomaticSelection
  <2> QED
    BY <2>4, SelectedOutOfCooldown
<1>2. SelectionSpec => [][SelectionNext]_allVars
  BY PTL DEF SelectionSpec
<1>3. SelectionSpec => [][Respects]_allVars
  BY <1>1, <1>2, Invariance, PTL
<1> QED
  BY <1>3 DEF CooldownHolds

(***************************************************************************)
(* The accounts beside the one that moves                                  *)
(***************************************************************************)
\* An account that its node lets in.
Here(b, n) == account[b].server = n /\ account[b].enabled /\ ~account[b].overLimit

Ends(t) == {transfer[t].source, transfer[t].target}

\* The accounts that a transfer may change on its nodes: its own, and those
\* whose limit was reached or lifted since it began.
Moved(t) == {transfer[t].account} \cup start[t].relimited

\* On the nodes of a transfer the others are let in as when it began.
BaseKept(t) ==
    \A n \in Ends(t), b \in Accounts \ Moved(t) : Here(b, n) <=> b \in start[t].others[n]

\* A job of a transfer applies them as they were.
JobAlike(j) ==
    LET t == job[j].owner
        n == job[j].node
    IN  \A b \in Accounts \ Moved(t) :
            b \in node[n].versions[job[j].version].accounts <=> b \in start[t].others[n]

BystanderInv ==
    /\ \A t \in DOMAIN transfer : Active(t) => BaseKept(t)
    /\ \A j \in DOMAIN job : job[j].owner # 0 =>
          job[j].owner \in DOMAIN transfer /\ (Active(job[j].owner) => JobAlike(j))

\* A step that lets the others in as before.
BystandersStay(t) == \A n \in Ends(t), b \in Accounts \ Moved(t)' : Here(b, n)' <=> Here(b, n)

\* A job that a transfer has just queued applies a version as it was rendered.
JobRendered(j) ==
    LET t == job[j].owner
        n == job[j].node
    IN  /\ t \in DOMAIN transfer /\ n \in Ends(t)
        /\ \A b \in Accounts \ Moved(t) :
              b \in node[n].versions[job[j].version].accounts <=> Here(b, n)

\* Transfers and jobs go on as they were, and new ones are of what is there.
LEMMA BystanderStep ==
    ASSUME Inv, ShapeInv', BystanderInv,
           \A t \in DOMAIN transfer :
              /\ t \in DOMAIN transfer'
              /\ transfer'[t].account = transfer[t].account
              /\ Ends(t)' = Ends(t)
              /\ Active(t)' => Active(t) /\ BystandersStay(t)
              /\ start'[t].others = start[t].others
              /\ start[t].relimited \subseteq start'[t].relimited,
           \A t \in DOMAIN transfer' \ DOMAIN transfer : BaseKept(t)',
           \A n \in Nodes : Extended(node[n].versions, node'[n].versions),
           \A j \in DOMAIN job :
              /\ job'[j].node = job[j].node /\ job'[j].version = job[j].version
              /\ job'[j].owner = job[j].owner,
           \A j \in DOMAIN job' \ DOMAIN job : job'[j].owner # 0 => JobRendered(j)'
    PROVE  BystanderInv'
<1>1. ShapeInv /\ JobInv
  BY DEF Inv
<1>2. ASSUME NEW t \in DOMAIN transfer' PROVE Active(t)' => BaseKept(t)'
  <2>1. CASE t \in DOMAIN transfer
    <3> SUFFICES ASSUME Active(t)', NEW n \in Ends(t)', NEW b \in Accounts \ Moved(t)'
                 PROVE  Here(b, n)' <=> b \in start'[t].others[n]
      BY DEF BaseKept
    <3>1. BaseKept(t) /\ BystandersStay(t) /\ n \in Ends(t)
      BY <2>1 DEF BystanderInv
    <3>2. b \in Accounts \ Moved(t)
      BY <2>1 DEF Moved
    <3>3. Here(b, n)' <=> Here(b, n)
      BY <3>1 DEF BystandersStay
    <3>4. Here(b, n) <=> b \in start[t].others[n]
      BY <3>1, <3>2 DEF BaseKept
    <3>5. start'[t].others = start[t].others
      BY <2>1
    <3> QED
      BY <3>3, <3>4, <3>5
  <2>2. CASE t \notin DOMAIN transfer
    BY <2>2
  <2> QED
    BY <2>1, <2>2
<1>3. ASSUME NEW j \in DOMAIN job', job'[j].owner # 0
      PROVE  job'[j].owner \in DOMAIN transfer' /\ (Active(job[j].owner)' => JobAlike(j)')
  <2> DEFINE t == job[j].owner
             n == job[j].node
             v == job[j].version
  <2>1. CASE j \in DOMAIN job
    <3>1. t # 0 /\ job'[j].owner = t /\ job'[j].node = n /\ job'[j].version = v
      BY <1>3, <2>1
    <3>2. /\ t \in DOMAIN transfer /\ (Active(t) => JobAlike(j))
          /\ t \in DOMAIN transfer' /\ (Active(t)' => Active(t))
          /\ transfer'[t].account = transfer[t].account
          /\ start'[t].others = start[t].others
          /\ start[t].relimited \subseteq start'[t].relimited
      BY <2>1, <3>1 DEF BystanderInv
    <3>3. node'[n].versions[v].accounts = node[n].versions[v].accounts
      <4>1. job[j] \in Job
        BY <1>1, <2>1, Rows
      <4>2. n \in Nodes /\ v \in Versions /\ v <= Len(node[n].versions)
        BY <1>1, <2>1, <4>1 DEF Job, JobInv
      <4>3. Len(node[n].versions) \in Nat /\ v \in 1 .. Len(node[n].versions)
        BY <1>1, <4>2, NodeRow DEF Versions
      <4>4. Extended(node[n].versions, node'[n].versions)
        BY <4>2
      <4> HIDE DEF n, v
      <4> QED
        BY <4>3, <4>4 DEF Extended
    <3>4. Active(job[j].owner)' => JobAlike(j)'
      <4> SUFFICES ASSUME Active(job[j].owner)', NEW b \in Accounts \ Moved(job[j].owner)'
                   PROVE  b \in node'[n].versions[v].accounts <=> b \in start'[t].others[n]
        BY <3>1 DEF JobAlike
      <4>1. Active(t)' /\ b \in Accounts \ Moved(t)
        BY <3>1, <3>2 DEF Moved, Active
      <4>2. JobAlike(j)
        BY <3>2, <4>1
      <4>3. b \in node[n].versions[v].accounts <=> b \in start[t].others[n]
        BY <4>1, <4>2 DEF JobAlike
      <4> QED
        BY <3>2, <3>3, <4>3
    <3> QED
      BY <3>1, <3>2, <3>4
  <2>2. CASE j \notin DOMAIN job
    <3>1. JobRendered(j)'
      BY <1>3, <2>2
    <3>2. t' \in DOMAIN transfer' /\ n' \in Ends(job[j].owner)'
      BY <3>1 DEF JobRendered
    <3>3. ASSUME Active(job[j].owner)' PROVE JobAlike(j)'
      <4>1. BaseKept(job[j].owner)'
        BY <1>2, <3>2, <3>3
      <4> QED
        BY <3>1, <3>2, <4>1 DEF JobRendered, BaseKept, JobAlike
    <3> QED
      BY <3>2, <3>3
  <2> QED
    BY <2>1, <2>2
<1> QED
  BY <1>2, <1>3 DEF BystanderInv

\* A step that leaves accounts and transfers alone, and whose new jobs are of
\* no transfer.
LEMMA QuietStep ==
    ASSUME Inv, ShapeInv', BystanderInv, UNCHANGED <<account, transfer, start>>,
           \A n \in Nodes : Extended(node[n].versions, node'[n].versions),
           \A j \in DOMAIN job :
              /\ job'[j].node = job[j].node /\ job'[j].version = job[j].version
              /\ job'[j].owner = job[j].owner,
           \A j \in DOMAIN job' \ DOMAIN job : job'[j].owner = 0
    PROVE  BystanderInv'
<1>1. ASSUME NEW t \in DOMAIN transfer
      PROVE  /\ t \in DOMAIN transfer'
             /\ transfer'[t].account = transfer[t].account
             /\ Ends(t)' = Ends(t)
             /\ Active(t)' => Active(t) /\ BystandersStay(t)
             /\ start'[t].others = start[t].others
             /\ start[t].relimited \subseteq start'[t].relimited
  BY DEF Ends, Active, BystandersStay, Here
<1> QED
  BY <1>1, BystanderStep

\* Versions that are left alone are there.
LEMMA VersionsKept ==
    ASSUME ShapeInv, \A n \in Nodes : node'[n].versions = node[n].versions
    PROVE  \A n \in Nodes : Extended(node[n].versions, node'[n].versions)
  BY NodeRow DEF Extended

\* An Agent ends jobs and changes what its node runs.
LEMMA AgentBystanders ==
    ASSUME Inv, ShapeInv', BystanderInv, NEW n \in Nodes,
           AgentStep(n) \/ ApplyFails(n) \/ AgentLost(n)
    PROVE  BystanderInv'
<1>1. ShapeInv /\ job \in Seq(Job) /\ node \in [Nodes -> Node]
      /\ \A j \in DOMAIN job : job[j] \in Job
  BY Rows DEF Inv, ShapeInv
<1>2. UNCHANGED <<account, transfer, start>>
  BY DEF AgentStep, Claim, ApplySucceeds, Report, CloseOrphans, ApplyFails, AgentLost
<1>3. \A m \in Nodes : node'[m].versions = node[m].versions
  <2>1. CASE Claim(n) \/ CloseOrphans(n)
    BY <2>1 DEF Claim, CloseOrphans
  <2>2. CASE ApplySucceeds(n) \/ ApplyFails(n) \/ AgentLost(n)
    <3>1. PICK left : node' = [node EXCEPT ![n].running = left]
      BY <2>2 DEF ApplySucceeds, ApplyFails, AgentLost
    <3> QED
      BY <1>1, <3>1 DEF Node
  <2>3. CASE Report(n)
    BY <1>1, <2>3 DEF Report, Node
  <2> QED
    BY <2>1, <2>2, <2>3 DEF AgentStep
<1>4. /\ DOMAIN job' = DOMAIN job
      /\ \A j \in DOMAIN job :
           /\ job'[j].node = job[j].node /\ job'[j].version = job[j].version
           /\ job'[j].owner = job[j].owner
  <2>1. CASE \E j \in DOMAIN job, st \in {"in_progress", "succeeded", "failed"} :
                job' = Marked(job, j, st)
    <3>1. PICK j \in DOMAIN job, st \in {"in_progress", "succeeded", "failed"} :
             job' = Marked(job, j, st)
      BY <2>1
    <3> DEFINE after == Marked(job, j, st)
    <3>2. job \in Seq(Job) /\ st \in {"pending", "in_progress", "succeeded", "failed"}
      BY <1>1
    <3>3. /\ after \in Seq(Job) /\ Len(after) = Len(job)
          /\ DOMAIN after = DOMAIN job
          /\ \A i \in DOMAIN job :
               /\ after[i].node = job[i].node
               /\ after[i].version = job[i].version
               /\ after[i].owner = job[i].owner
               /\ i # j => after[i].status = job[i].status
          /\ after[j].status = st
      BY <3>2, MarkedJob, Zenon
    <3>4. job' = after
      BY <3>1
    <3> HIDE DEF after
    <3> QED
      BY <3>3, <3>4
  <2>2. CASE Claim(n)
    BY <2>1, <2>2 DEF Claim, Marked
  <2>3. CASE Report(n)
    <3>1. agent[n] # None /\ agent[n].stage \in {"succeeded", "failed"}
          /\ job' = Marked(job, agent[n].job, agent[n].stage)
      BY <2>3 DEF Report, Marked
    <3>2. agent[n].job \in DOMAIN job
      BY <3>1, StagedVersion
    <3> QED
      BY <2>1, <3>1, <3>2
  <2>4. CASE CloseOrphans(n)
    <3> SUFFICES ASSUME NEW j \in DOMAIN job
                 PROVE  /\ job'[j].node = job[j].node /\ job'[j].version = job[j].version
                        /\ job'[j].owner = job[j].owner
      BY <2>4 DEF CloseOrphans
    <3>1. job'[j] = IF j \in Orphans(n) THEN [job[j] EXCEPT !.status = "failed"] ELSE job[j]
      BY <2>4 DEF CloseOrphans
    <3> QED
      BY <1>1, <3>1 DEF Job
  <2>5. CASE ApplySucceeds(n) \/ ApplyFails(n) \/ AgentLost(n)
    BY <2>5 DEF ApplySucceeds, ApplyFails, AgentLost
  <2> QED
    BY <2>2, <2>3, <2>4, <2>5 DEF AgentStep
<1> QED
  BY <1>1, <1>2, <1>3, <1>4, QuietStep, VersionsKept

\* A render adds a version, and the job of an administrator is of no transfer.
LEMMA ConfigBystanders ==
    ASSUME Inv, ShapeInv', BystanderInv, NEW n \in Nodes, NEW v \in Versions,
           RenderConfig(n) \/ ApplyConfig(n, v)
    PROVE  BystanderInv'
<1>1. ShapeInv /\ job \in Seq(Job) /\ node \in [Nodes -> Node]
  BY DEF Inv, ShapeInv
<1>2. CASE RenderConfig(n)
  <2> DEFINE versions == WithVersion(node[n].versions, Content(account, transfer, n, FALSE))
  <2>1. /\ node' = [node EXCEPT ![n].versions = versions]
        /\ UNCHANGED <<account, job, transfer, start>>
    BY <1>2 DEF RenderConfig
  <2>2. FALSE \in BOOLEAN
    OBVIOUS
  <2>3. Extended(node[n].versions, versions)
    BY <1>1, <2>2, ContentShape, NodeRow, WithVersionAdds
  <2> HIDE DEF versions
  <2>4. node[n] \in Node
    BY <1>1
  <2>5. node'[n].versions = versions /\ \A m \in Nodes \ {n} : node'[m] = node[m]
    BY <1>1, <2>1, <2>4 DEF Node
  <2>6. \A m \in Nodes : Extended(node[m].versions, node'[m].versions)
    <3>1. ASSUME NEW m \in Nodes, m # n PROVE Extended(node[m].versions, node'[m].versions)
      <4>1. node'[m].versions = node[m].versions /\ Len(node[m].versions) \in Nat
        BY <1>1, <2>5, <3>1, NodeRow
      <4> QED
        BY <4>1 DEF Extended
    <3> QED
      BY <2>3, <2>5, <3>1
  <2> QED
    BY <2>1, <2>6, QuietStep
<1>3. CASE ApplyConfig(n, v)
  <2> DEFINE new == [node |-> n, version |-> v, owner |-> 0, status |-> "pending"]
  <2>1. job' = Append(job, new) /\ UNCHANGED <<account, node, transfer, start>>
    BY <1>3 DEF ApplyConfig
  <2>2. new \in Job /\ new.owner = 0
    BY BoundsAssumption DEF Job, BoundsAssumption
  <2> HIDE DEF new
  <2>3. /\ DOMAIN job' = DOMAIN job \cup {Len(job) + 1}
        /\ \A j \in DOMAIN job : job'[j] = job[j]
        /\ job'[Len(job) + 1] = new
    BY <1>1, <2>1, <2>2, JobAdded
  <2>4. \A m \in Nodes : Extended(node[m].versions, node'[m].versions)
    BY <1>1, <2>1, VersionsKept
  <2> QED
    BY <2>1, <2>2, <2>3, <2>4, QuietStep
<1> QED
  BY <1>2, <1>3

\* An edit of an account changes nothing on the nodes of a transfer: its node
\* is reserved for nobody, or its limit is what changed.
LEMMA EditBystanders ==
    ASSUME Inv, ShapeInv', BystanderInv, UNCHANGED <<job, transfer>>,
           NEW a \in Accounts,
           \A b \in Accounts \ {a} : account'[b] = account[b],
           \A n \in Nodes : Extended(node[n].versions, node'[n].versions),
           \/ /\ start' = start
              /\ account[a].server \in Nodes /\ reserved[account[a].server] = 0
              /\ account'[a].server \in Nodes /\ reserved[account'[a].server] = 0
           \/ start' = [t \in DOMAIN start |-> [start[t] EXCEPT !.relimited = @ \cup {a}]]
    PROVE  BystanderInv'
<1>1. ShapeInv /\ TransferInv
  BY DEF Inv
<1>2. ASSUME NEW t \in DOMAIN transfer
      PROVE  /\ t \in DOMAIN transfer'
             /\ transfer'[t].account = transfer[t].account
             /\ Ends(t)' = Ends(t)
             /\ start'[t].others = start[t].others
             /\ start[t].relimited \subseteq start'[t].relimited
             /\ \/ reserved[account[a].server] = 0 /\ reserved[account'[a].server] = 0
                \/ a \in start'[t].relimited
  <2>1. start[t] \in History /\ t \in DOMAIN start
    BY <1>1, Rows
  <2> QED
    BY <2>1 DEF Ends, History
<1>3. ASSUME NEW t \in DOMAIN transfer, Active(t)
      PROVE  BystandersStay(t)
  <2> SUFFICES ASSUME NEW n \in Ends(t), NEW b \in Accounts \ Moved(t)'
               PROVE  Here(b, n)' <=> Here(b, n)
    BY DEF BystandersStay
  <2>1. CASE b # a
    BY <2>1 DEF Here
  <2>2. CASE b = a
    <3>1. a \notin start'[t].relimited
      BY <2>2 DEF Moved
    <3>2. reserved[account[a].server] = 0 /\ reserved[account'[a].server] = 0
      BY <1>2, <3>1
    <3>3. reserved[n] = t /\ t # 0
      BY <1>1, <1>3, Rows DEF TransferInv, Holds, Ends
    <3>4. account[a].server # n /\ account'[a].server # n
      BY <3>2, <3>3
    <3> QED
      BY <2>2, <3>4 DEF Here
  <2> QED
    BY <2>1, <2>2
<1>4. \A t \in DOMAIN transfer : Active(t)' => Active(t) /\ BystandersStay(t)
  BY <1>3 DEF Active
<1> QED
  BY <1>2, <1>4, BystanderStep

\* An account is enabled or disabled.
LEMMA SetStatusBystanders ==
    ASSUME Inv, ShapeInv', BystanderInv, NEW a \in Accounts, SetStatus(a)
    PROVE  BystanderInv'
<1>1. ShapeInv /\ account \in [Accounts -> Account] /\ account[a] \in Account
  BY DEF Inv, ShapeInv
<1>2. /\ account' = [account EXCEPT ![a].enabled = ~@] /\ node' = Outdate(node, a)
      /\ reserved[account[a].server] = 0
      /\ UNCHANGED <<job, transfer, start>>
  BY DEF SetStatus, NodeGuard
<1>3. /\ account'[a].server = account[a].server /\ account[a].server \in Nodes
      /\ \A b \in Accounts \ {a} : account'[b] = account[b]
  BY <1>1, <1>2 DEF Account
<1>4. \A n \in Nodes : Extended(node[n].versions, node'[n].versions)
  BY <1>1, <1>2, OutdateKeeps
<1> QED
  BY <1>2, <1>3, <1>4, EditBystanders

\* An account is assigned to another node.
LEMMA ReassignBystanders ==
    ASSUME Inv, ShapeInv', BystanderInv, NEW a \in Accounts, NEW n \in Nodes,
           Reassignable(a, n), Reassign(a, n)
    PROVE  BystanderInv'
<1>1. ShapeInv /\ account \in [Accounts -> Account] /\ account[a] \in Account
  BY DEF Inv, ShapeInv
<1>2. /\ account' = [account EXCEPT ![a].server = n] /\ node' = Outdate(node, a)
      /\ reserved[account[a].server] = 0 /\ reserved[n] = 0
      /\ UNCHANGED <<job, transfer, start>>
  BY DEF Reassign, Reassignable, NodeGuard
<1>3. /\ account'[a].server = n /\ account[a].server \in Nodes
      /\ \A b \in Accounts \ {a} : account'[b] = account[b]
  BY <1>1, <1>2 DEF Account
<1>4. \A m \in Nodes : Extended(node[m].versions, node'[m].versions)
  BY <1>1, <1>2, OutdateKeeps
<1> QED
  BY <1>2, <1>3, <1>4, EditBystanders

\* The limit of an account is reached or lifted.
LEMMA LimitBystanders ==
    ASSUME Inv, ShapeInv', BystanderInv, NEW a \in Accounts, EnforceLimit(a)
    PROVE  BystanderInv'
<1>1. ShapeInv /\ account \in [Accounts -> Account]
  BY DEF Inv, ShapeInv
<1>2. /\ account' = [account EXCEPT ![a].overLimit = ~@]
      /\ start' = [t \in DOMAIN start |-> [start[t] EXCEPT !.relimited = @ \cup {a}]]
      /\ UNCHANGED <<node, job, transfer>>
  BY DEF EnforceLimit
<1>3. \A b \in Accounts \ {a} : account'[b] = account[b]
  BY <1>1, <1>2
<1>4. \A n \in Nodes : Extended(node[n].versions, node'[n].versions)
  BY <1>1, <1>2, VersionsKept
<1> QED
  BY <1>2, <1>3, <1>4, EditBystanders

\* Where the account of a transfer is assigned, on one of its two nodes,
\* concerns no other transfer.
LEMMA OwnMove ==
    ASSUME Inv, NEW t \in DOMAIN transfer, Active(t), start' = start,
           transfer'[t].account = transfer[t].account,
           \A u \in DOMAIN transfer \ {t} : transfer'[u] = transfer[u],
           \A b \in Accounts \ {transfer[t].account} : account'[b] = account[b],
           account'[transfer[t].account].server \in Ends(t),
           NEW u \in DOMAIN transfer, Active(u)
    PROVE  BystandersStay(u)
<1>1. ShapeInv /\ TransferInv
  BY DEF Inv
<1>2. \A w \in DOMAIN transfer : Active(w) =>
        \A m \in Ends(w) : m \in Nodes /\ reserved[m] = w
  BY <1>1, TransferRow DEF TransferInv, Holds, Ends
<1> SUFFICES ASSUME NEW n \in Ends(u), NEW b \in Accounts \ Moved(u)'
             PROVE  Here(b, n)' <=> Here(b, n)
  BY DEF BystandersStay
<1>3. CASE b # transfer[t].account
  BY <1>3 DEF Here
<1>4. CASE b = transfer[t].account
  <2>1. u # t
    BY <1>4 DEF Moved
  <2>2. account[b].server \in Ends(t)
    BY <1>1, <1>4 DEF TransferInv, Keeps, Ends
  <2>3. account[b].server # n /\ account'[b].server # n
    BY <1>2, <1>4, <2>1, <2>2
  <2> QED
    BY <2>3 DEF Here
<1> QED
  BY <1>3, <1>4

\* What is rendered on a node that no transfer of the account holds.
LEMMA RenderedBeside ==
    ASSUME NEW acc, NEW trs, NEW n, NEW b \in Accounts,
           \A u \in DOMAIN trs : trs[u].account = b =>
              trs[u].state \in Terminal \/ n \notin {trs[u].source, trs[u].target}
    PROVE  b \in Rendered(acc, trs, n) <=>
              acc[b].server = n /\ acc[b].enabled /\ ~acc[b].overLimit
<1>1. \A u \in DOMAIN trs : trs[u].account = b =>
        ~ \/ n = trs[u].target /\ trs[u].state \in Preparing \cup {"source_cleaning"}
          \/ n = trs[u].source /\ trs[u].state \in Preparing \cup {"target_cleaning"}
  BY DEF Preparing, Terminal
<1>2. Placed(acc, trs, n, b) <=> acc[b].server = n
  BY <1>1 DEF Placed
<1> QED
  BY <1>2 DEF Rendered

\* A step of one transfer that changes its row, and where its account is assigned.
LEMMA RowBystanders ==
    ASSUME Inv, ShapeInv', BystanderInv, NEW t \in DOMAIN transfer, Active(t),
           NEW new, new.account = transfer[t].account,
           new.source = transfer[t].source, new.target = transfer[t].target,
           transfer' = WithRow(transfer, t, new),
           \A b \in Accounts \ {transfer[t].account} : account'[b] = account[b],
           account'[transfer[t].account].server \in Ends(t),
           UNCHANGED <<node, job, start>>
    PROVE  BystanderInv'
<1>1. ShapeInv
  BY DEF Inv
<1>2. /\ DOMAIN transfer' = DOMAIN transfer /\ transfer'[t] = new
      /\ \A u \in DOMAIN transfer \ {t} : transfer'[u] = transfer[u]
  BY DEF WithRow
<1>3. ASSUME NEW u \in DOMAIN transfer
      PROVE  /\ u \in DOMAIN transfer'
             /\ transfer'[u].account = transfer[u].account
             /\ Ends(u)' = Ends(u)
             /\ Active(u)' => Active(u) /\ BystandersStay(u)
             /\ start'[u].others = start[u].others
             /\ start[u].relimited \subseteq start'[u].relimited
  <2>1. transfer'[u].account = transfer[u].account /\ Ends(u)' = Ends(u)
    BY <1>2 DEF Ends
  <2>2. Active(u)' => Active(u)
    BY <1>2 DEF Active
  <2>3. Active(u) => BystandersStay(u)
    BY <1>2, <2>1, OwnMove
  <2> QED
    BY <1>2, <2>1, <2>2, <2>3
<1>4. \A n \in Nodes : Extended(node[n].versions, node'[n].versions)
  BY <1>1, VersionsKept
<1> QED
  BY <1>2, <1>3, <1>4, BystanderStep

\* A step of one transfer that renders one of its nodes and queues the job.
LEMMA QueuedBystanders ==
    ASSUME Inv, ShapeInv', BystanderInv, NEW t \in DOMAIN transfer, Active(t),
           NEW mid \in Transfer, mid.account = transfer[t].account,
           mid.source = transfer[t].source, mid.target = transfer[t].target,
           NEW acc, acc[transfer[t].account].server \in Ends(t),
           \A b \in Accounts \ {transfer[t].account} : acc[b] = account[b],
           NEW jobs \in Seq(Job), Len(jobs) = Len(job),
           \A j \in DOMAIN job :
              /\ jobs[j].node = job[j].node /\ jobs[j].version = job[j].version
              /\ jobs[j].owner = job[j].owner,
           NEW n \in Ends(t), NEW cleanup \in BOOLEAN,
           Queue(acc, WithRow(transfer, t, mid), node, jobs, n, cleanup, t),
           UNCHANGED start
    PROVE  BystanderInv'
<1> DEFINE trs == WithRow(transfer, t, mid)
           v == Len(node'[n].versions)
           k == Len(jobs) + 1
           new == QueuedRow(mid, cleanup, v, k)
<1>1. /\ ShapeInv /\ TransferInv /\ transfer \in Seq(Transfer) /\ node \in [Nodes -> Node]
      /\ job \in Seq(Job) /\ MaxTransfers \in Nat /\ Len(transfer) <= MaxTransfers
  BY BoundsAssumption DEF Inv, ShapeInv, CountInv, BoundsAssumption
<1>2. n \in Nodes /\ t \in 0 .. MaxTransfers /\ t # 0
  BY <1>1, Rows, TransferRow DEF Ends
<1>3. /\ DOMAIN trs = DOMAIN transfer /\ trs[t] = mid
      /\ \A u \in DOMAIN transfer \ {t} : trs[u] = transfer[u]
      /\ trs \in Seq(Transfer)
  BY <1>1, RowReplaced
<1> HIDE DEF trs
<1>4. Queued(acc, trs, node, jobs, n, cleanup, t)
  BY <1>1, <1>2, QueueGives DEF trs
<1>5. /\ account' = acc
      /\ \A m \in Nodes \ {n} : node'[m] = node[m]
      /\ Extended(node[n].versions, node'[n].versions)
      /\ v \in Versions /\ k \in Jobs
      /\ node'[n].versions[v].accounts = Rendered(acc, trs, n)
      /\ DOMAIN job' = DOMAIN jobs \cup {k} /\ k \notin DOMAIN jobs
      /\ \A i \in DOMAIN jobs : job'[i] = jobs[i]
      /\ job'[k].node = n /\ job'[k].version = v /\ job'[k].owner = t
      /\ transfer' = WithRow(trs, t, QueuedRow(trs[t], cleanup, v, k))
  BY <1>4 DEF Queued
<1> HIDE DEF v, k
<1>6. new.account = mid.account /\ new.source = mid.source /\ new.target = mid.target
  BY DEF QueuedRow, Transfer
<1>7. /\ DOMAIN transfer' = DOMAIN transfer /\ transfer'[t] = new
      /\ \A u \in DOMAIN transfer \ {t} : transfer'[u] = transfer[u]
  BY <1>3, <1>5 DEF WithRow
<1> HIDE DEF new
<1>8. DOMAIN jobs = DOMAIN job
  BY <1>1, Rows
<1>9. ASSUME NEW u \in DOMAIN transfer
      PROVE  /\ u \in DOMAIN transfer'
             /\ transfer'[u].account = transfer[u].account
             /\ Ends(u)' = Ends(u)
             /\ Active(u)' => Active(u) /\ BystandersStay(u)
             /\ start'[u].others = start[u].others
             /\ start[u].relimited \subseteq start'[u].relimited
  <2>1. transfer'[u].account = transfer[u].account /\ Ends(u)' = Ends(u)
    BY <1>6, <1>7 DEF Ends
  <2>2. Active(u)' => Active(u)
    BY <1>7 DEF Active
  <2>3. Active(u) => BystandersStay(u)
    BY <1>5, <1>6, <1>7, OwnMove
  <2> QED
    BY <1>7, <2>1, <2>2, <2>3
<1>10. \A m \in Nodes : Extended(node[m].versions, node'[m].versions)
  <2>1. ASSUME NEW m \in Nodes, m # n PROVE Extended(node[m].versions, node'[m].versions)
    <3>1. node'[m].versions = node[m].versions /\ Len(node[m].versions) \in Nat
      BY <1>1, <1>5, <2>1, NodeRow
    <3> QED
      BY <3>1 DEF Extended
  <2> QED
    BY <1>5, <2>1
<1>11. \A j \in DOMAIN job :
         /\ job'[j].node = job[j].node /\ job'[j].version = job[j].version
         /\ job'[j].owner = job[j].owner
  BY <1>5, <1>8
<1>12. JobRendered(k)'
  <2>1. t \in DOMAIN transfer' /\ n \in Ends(t)'
    BY <1>9
  <2>2. ASSUME NEW b \in Accounts \ Moved(t)'
        PROVE  b \in node'[n].versions[v].accounts <=> Here(b, n)'
    <3>1. b # transfer[t].account
      BY <1>9 DEF Moved
    <3>2. ASSUME NEW u \in DOMAIN trs, trs[u].account = b, trs[u].state \notin Terminal,
                 n \in {trs[u].source, trs[u].target}
          PROVE  FALSE
      <4>1. u # t /\ u \in DOMAIN transfer /\ trs[u] = transfer[u]
        BY <1>3, <3>1, <3>2
      <4>2. Active(u) /\ n \in Ends(u)
        BY <3>2, <4>1 DEF Active, Ends
      <4>3. reserved[n] = u /\ reserved[n] = t
        BY <1>1, <4>1, <4>2 DEF TransferInv, Holds, Ends
      <4> QED
        BY <4>1, <4>3
    <3>3. b \in Rendered(acc, trs, n) <=>
             acc[b].server = n /\ acc[b].enabled /\ ~acc[b].overLimit
      BY <3>2, RenderedBeside
    <3> QED
      BY <1>5, <3>3 DEF Here
  <2> QED
    BY <1>5, <2>1, <2>2 DEF JobRendered
<1> QED
  BY <1>5, <1>7, <1>8, <1>9, <1>10, <1>11, <1>12, BystanderStep

\* Every step of a transfer after its start.
LEMMA OperateBystanders ==
    ASSUME Inv, ShapeInv', BystanderInv, NEW t \in DOMAIN transfer,
           Verify(t) \/ Cutover(t) \/ Cleanup(t) \/ Rollback(t) \/ Finish(t) \/ Retry(t)
    PROVE  BystanderInv'
<1> DEFINE tr == transfer[t]
           a == tr.account
<1>1. /\ ShapeInv /\ tr \in Transfer /\ a \in Accounts
      /\ transfer \in Seq(Transfer) /\ job \in Seq(Job)
      /\ account \in [Accounts -> Account]
  BY Rows, TransferRow DEF Inv, ShapeInv
<1>2. Active(t)
  BY DEF Verify, CanVerify, Cutover, CanCutover, Cleanup, CanCleanup, Rollback, CanRollback,
         Finish, CanFinish, Retry, CanRetry, Active, Terminal
<1>3. account[a].server \in Ends(t) /\ Deploys(t)
  BY <1>2 DEF Inv, TransferInv, Keeps, Ends
<1>4. ASSUME NEW s PROVE /\ [tr EXCEPT !.state = s].account = a
                         /\ [tr EXCEPT !.state = s].source = tr.source
                         /\ [tr EXCEPT !.state = s].target = tr.target
  BY <1>1 DEF Transfer
<1>5. CASE Verify(t)
  <2> DEFINE new == [tr EXCEPT !.state = "target_ready"]
  <2>1. transfer' = WithRow(transfer, t, new) /\ UNCHANGED <<account, node, job, start>>
    BY <1>5 DEF Verify, WithRow
  <2>2. new.account = a /\ new.source = tr.source /\ new.target = tr.target
    BY <1>4
  <2> HIDE DEF new
  <2> QED
    BY <1>2, <1>3, <2>1, <2>2, RowBystanders
<1>6. CASE Cutover(t)
  <2> DEFINE new == [tr EXCEPT !.state = "client_refresh_pending", !.cutover = TRUE]
  <2>1. /\ transfer' = WithRow(transfer, t, new)
        /\ account' = [account EXCEPT ![a].server = tr.target]
        /\ UNCHANGED <<node, job, start>>
    BY <1>6 DEF Cutover, WithRow
  <2>2. new.account = a /\ new.source = tr.source /\ new.target = tr.target
    BY <1>1 DEF Transfer
  <2>3. account'[a].server \in Ends(t) /\ \A b \in Accounts \ {a} : account'[b] = account[b]
    BY <1>1, <2>1 DEF Ends, Account
  <2> HIDE DEF new
  <2> QED
    BY <1>2, <2>1, <2>2, <2>3, RowBystanders
<1>7. CASE Finish(t)
  <2>1. PICK s : transfer' = WithRow(transfer, t, [tr EXCEPT !.state = s])
    BY <1>7 DEF Finish, WithRow
  <2> DEFINE new == [tr EXCEPT !.state = s]
  <2>2. transfer' = WithRow(transfer, t, new) /\ UNCHANGED <<account, node, job, start>>
    BY <1>7, <2>1 DEF Finish
  <2>3. new.account = a /\ new.source = tr.source /\ new.target = tr.target
    BY <1>4
  <2> HIDE DEF new
  <2> QED
    BY <1>2, <1>3, <2>2, <2>3, RowBystanders
<1>8. CASE Cleanup(t)
  <2> DEFINE mid == [tr EXCEPT !.state = "source_cleaning"]
  <2>1. /\ Queue(account, WithRow(transfer, t, mid), node, job, tr.source, TRUE, t)
        /\ UNCHANGED start
    BY <1>8 DEF Cleanup, WithRow
  <2>2. /\ mid \in Transfer /\ mid.account = a
        /\ mid.source = tr.source /\ mid.target = tr.target
    BY <1>1 DEF Transfer
  <2>3. tr.source \in Ends(t) /\ TRUE \in BOOLEAN
    BY DEF Ends
  <2> HIDE DEF mid
  <2> QED
    BY <1>1, <1>2, <1>3, <2>1, <2>2, <2>3, QueuedBystanders
<1>9. CASE Rollback(t)
  <2> DEFINE mid == [tr EXCEPT !.state = "target_cleaning"]
             back == [account EXCEPT ![a].server = tr.source]
             jobs == Cancelled(job, tr.targetJob)
  <2>1. /\ tr.state \in {"target_applying", "target_ready", "client_refresh_pending"}
        /\ job[tr.targetJob].status # "in_progress"
        /\ Queue(back, WithRow(transfer, t, mid), node, jobs, tr.target, TRUE, t)
        /\ UNCHANGED start
    BY <1>9 DEF Rollback, CanRollback, WithRow
  <2>2. /\ mid \in Transfer /\ mid.account = a
        /\ mid.source = tr.source /\ mid.target = tr.target
    BY <1>1 DEF Transfer
  <2>3. tr.target \in Ends(t) /\ TRUE \in BOOLEAN
    BY DEF Ends
  <2>4. back[a].server \in Ends(t) /\ \A b \in Accounts \ {a} : back[b] = account[b]
    BY <1>1 DEF Ends, Account
  <2>5. tr.targetJob \in DOMAIN job
    BY <1>3, <2>1 DEF Deploys, CurrentJob
  <2>6. /\ jobs \in Seq(Job) /\ Len(jobs) = Len(job)
        /\ \A j \in DOMAIN job : /\ jobs[j].node = job[j].node
                                 /\ jobs[j].version = job[j].version
                                 /\ jobs[j].owner = job[j].owner
    BY <1>1, <2>1, <2>5, CancelledJob
  <2> HIDE DEF mid, back, jobs
  <2> QED
    BY <1>2, <2>1, <2>2, <2>3, <2>4, <2>6, QueuedBystanders
<1>10. CASE Retry(t)
  <2> DEFINE cleanup == tr.state # "target_applying"
             n == IF cleanup THEN CleaningNode(t) ELSE tr.target
  <2>1. Queue(account, transfer, node, job, n, cleanup, t) /\ UNCHANGED start
    BY <1>10 DEF Retry
  <2>2. transfer = WithRow(transfer, t, tr)
    BY <1>1 DEF WithRow
  <2>3. n \in Ends(t) /\ cleanup \in BOOLEAN
    BY DEF Ends, CleaningNode
  <2> HIDE DEF n, cleanup
  <2>4. Queue(account, WithRow(transfer, t, tr), node, job, n, cleanup, t)
    BY <2>1, <2>2
  <2> QED
    BY <1>1, <1>2, <1>3, <2>1, <2>3, <2>4, QueuedBystanders
<1> QED
  BY <1>5, <1>6, <1>7, <1>8, <1>9, <1>10

\* No transfer under way concerns a node that nobody reserves.
LEMMA FreeNode ==
    ASSUME Inv, NEW n \in Nodes, reserved[n] = 0, NEW u \in DOMAIN transfer
    PROVE  transfer[u].state \in Terminal \/ n \notin {transfer[u].source, transfer[u].target}
<1>1. ShapeInv /\ TransferInv /\ u # 0
  BY Rows DEF Inv
<1> QED
  BY <1>1 DEF TransferInv, Holds, Active

\* The baseline check: what is saved of a free node is what it has applied.
LEMMA BaselineKept ==
    ASSUME Inv, NEW a \in Accounts, NEW n \in Nodes, reserved[n] = 0, CheckBaseline(n),
           NEW b \in Accounts \ {a}
    PROVE  Here(b, n) <=> b \in StartHistory(a).others[n]
<1>1. StartHistory(a).others[n] =
         IF node[n].active = 0 THEN {} ELSE ActiveVersion(n).accounts \ {a}
  BY DEF StartHistory
<1>2. b \in Rendered(account, transfer, n) <=> Here(b, n)
  BY FreeNode, RenderedBeside DEF Here
<1>3. CASE node[n].active = 0
  BY <1>1, <1>3 DEF CheckBaseline, Here
<1>4. CASE node[n].active # 0
  BY <1>1, <1>2, <1>4 DEF CheckBaseline
<1> QED
  BY <1>3, <1>4

\* A transfer starts where everything that is saved is applied.
LEMMA StartBystanders ==
    ASSUME Inv, ShapeInv', BystanderInv, NEW a \in Accounts, NEW target \in Nodes,
           Start(a, target)
    PROVE  BystanderInv'
<1> DEFINE source == account[a].server
           v == Len(node'[target].versions)
           row == StartRow(a, target)
           trs == Append(transfer, row)
           base == Baseline({source, target})
<1> PICK t, k : t = Len(transfer) + 1 /\ k = Len(job) + 1
  OBVIOUS
<1> DEFINE new == QueuedRow(row, FALSE, v, k)
<1>1. /\ ShapeInv /\ transfer \in Seq(Transfer) /\ job \in Seq(Job) /\ start \in Seq(History)
      /\ Len(start) = Len(transfer) /\ DOMAIN start = DOMAIN transfer
      /\ Len(transfer) \in Nat /\ DOMAIN transfer = 1 .. Len(transfer)
      /\ account[a] \in Account /\ source \in Nodes
  BY Rows DEF Inv, ShapeInv, Account
<1>2. /\ Len(transfer) < MaxTransfers
      /\ \A n \in {source, target} : reserved[n] = 0 /\ CheckBaseline(n)
      /\ Queue(account, trs, base, job, target, FALSE, t)
      /\ start' = Append(start, StartHistory(a))
  BY DEF Start, Baseline, StartRow, StartHistory
<1>3. t \in 0 .. MaxTransfers /\ t \notin DOMAIN transfer /\ t # 0 /\ FALSE \in BOOLEAN
  BY <1>1, <1>2, BoundsAssumption DEF BoundsAssumption
<1>4. row.account = a /\ row.source = source /\ row.target = target
  BY DEF StartRow
<1>5. /\ base \in [Nodes -> Node]
      /\ \A n \in Nodes : /\ Extended(node[n].versions, base[n].versions)
                          /\ Len(base[n].versions) \in Nat
  BY <1>1, BaselineIs
<1>6. /\ DOMAIN trs = DOMAIN transfer \cup {t}
      /\ trs[t] = row /\ \A u \in DOMAIN transfer : trs[u] = transfer[u]
  BY <1>1
<1> HIDE DEF base, trs
<1>7. Queued(account, trs, base, job, target, FALSE, t)
  BY <1>1, <1>2, <1>3, <1>5, QueueGives
<1>8. /\ account' = account
      /\ node' \in [Nodes -> Node]
      /\ \A m \in Nodes \ {target} : node'[m] = base[m]
      /\ Extended(base[target].versions, node'[target].versions)
      /\ node'[target].versions[v].accounts = Rendered(account, trs, target)
      /\ DOMAIN job' = DOMAIN job \cup {k} /\ k \notin DOMAIN job
      /\ \A i \in DOMAIN job : job'[i] = job[i]
      /\ job'[k].node = target /\ job'[k].version = v /\ job'[k].owner = t
      /\ transfer' = WithRow(trs, t, QueuedRow(trs[t], FALSE, v, k))
  BY <1>7 DEF Queued
<1> HIDE DEF v
<1>9. new.account = a /\ new.source = source /\ new.target = target
  <2>1. row.account = a /\ row.source = source /\ row.target = target
        /\ new = [row EXCEPT !.targetVersion = v, !.targetJob = k, !.state = "target_applying"]
    BY <1>4 DEF QueuedRow
  <2>2. {"account", "source", "target"} \subseteq DOMAIN row
    BY DEF StartRow
  <2> HIDE DEF row, new
  <2> QED
    BY <2>1, <2>2
<1>10. /\ DOMAIN transfer' = DOMAIN transfer \cup {t} /\ transfer'[t] = new
       /\ \A u \in DOMAIN transfer : transfer'[u] = transfer[u]
  <2> HIDE DEF row
  <2> QED
    BY <1>3, <1>6, <1>8 DEF WithRow
<1> HIDE DEF row, new
<1>11. /\ start'[t] = StartHistory(a)
       /\ \A u \in DOMAIN transfer : start'[u] = start[u]
  <2> DEFINE h == StartHistory(a)
  <2>1. h \in History
    BY <1>1, StartHistoryIs DEF Inv
  <2> HIDE DEF h
  <2>2. start' = Append(start, h)
    BY <1>2 DEF h
  <2>3. start'[t] = h /\ \A u \in DOMAIN transfer : start'[u] = start[u]
    BY <1>1, <2>1, <2>2, AppendProperties
  <2> QED
    BY <2>3 DEF h
<1>12. Moved(t)' = {a} /\ Ends(t)' = {source, target}
  <2>1. start'[t].relimited = {}
    BY <1>11 DEF StartHistory
  <2> QED
    BY <1>9, <1>10, <2>1 DEF Moved, Ends
<1>13. BaseKept(t)'
  <2> SUFFICES ASSUME NEW n \in {source, target}, NEW b \in Accounts \ {a}
               PROVE  Here(b, n)' <=> b \in start'[t].others[n]
    BY <1>12 DEF BaseKept
  <2>1. n \in Nodes /\ reserved[n] = 0 /\ CheckBaseline(n)
    BY <1>1, <1>2
  <2>2. Here(b, n) <=> b \in StartHistory(a).others[n]
    BY <2>1, BaselineKept
  <2>3. Here(b, n)' <=> Here(b, n)
    BY <1>8 DEF Here
  <2> QED
    BY <1>11, <2>2, <2>3
<1>14. JobRendered(k)'
  <2>1. ASSUME NEW b \in Accounts \ Moved(t)'
        PROVE  b \in node'[target].versions[v].accounts <=> Here(b, target)'
    <3>1. b # a
      BY <1>12
    <3>2. \A u \in DOMAIN trs : trs[u].account = b =>
             trs[u].state \in Terminal \/ target \notin {trs[u].source, trs[u].target}
      BY <1>2, <1>4, <1>6, <3>1, FreeNode
    <3>3. b \in Rendered(account, trs, target) <=>
             account[b].server = target /\ account[b].enabled /\ ~account[b].overLimit
      BY <3>2, RenderedBeside
    <3> QED
      BY <1>8, <3>3 DEF Here
  <2>2. t \in DOMAIN transfer' /\ target \in Ends(t)'
    BY <1>10, <1>12
  <2> QED
    BY <1>8, <2>1, <2>2 DEF JobRendered
<1>15. ASSUME NEW u \in DOMAIN transfer
       PROVE  /\ u \in DOMAIN transfer'
              /\ transfer'[u].account = transfer[u].account
              /\ Ends(u)' = Ends(u)
              /\ Active(u)' => Active(u) /\ BystandersStay(u)
              /\ start'[u].others = start[u].others
              /\ start[u].relimited \subseteq start'[u].relimited
  <2>1. BystandersStay(u)
    BY <1>8 DEF BystandersStay, Here
  <2> QED
    BY <1>10, <1>11, <2>1 DEF Ends, Active
<1>16. \A m \in Nodes : Extended(node[m].versions, node'[m].versions)
  <2>1. Len(node'[target].versions) \in Nat
    <3>1. node'[target] \in Node
      BY <1>8
    <3> QED
      BY <3>1 DEF Node
  <2>2. Len(node[target].versions) \in Nat
    BY <1>1, NodeRow
  <2>3. Extended(node[target].versions, node'[target].versions)
    BY <1>5, <1>8, <2>1, <2>2, ExtendedTwice
  <2> QED
    BY <1>5, <1>8, <2>3
<1>17. \A j \in DOMAIN job :
         /\ job'[j].node = job[j].node /\ job'[j].version = job[j].version
         /\ job'[j].owner = job[j].owner
  BY <1>8
<1>18. \A u \in DOMAIN transfer' \ DOMAIN transfer : BaseKept(u)'
  BY <1>10, <1>13
<1>19. \A j \in DOMAIN job' \ DOMAIN job : job'[j].owner # 0 => JobRendered(j)'
  BY <1>8, <1>14
<1> QED
  BY <1>15, <1>16, <1>17, <1>18, <1>19, BystanderStep

\* Every step lets the accounts beside the transfers in as before.
LEMMA BystanderNext ==
    ASSUME Inv, Inv', BystanderInv, SelectionInv, [SelectionNext]_allVars
    PROVE  BystanderInv'
<1>1. ShapeInv /\ ShapeInv'
  BY DEF Inv
<1>2. CASE UNCHANGED vars
  <2>1. \A n \in Nodes : node'[n].versions = node[n].versions
    BY <1>2 DEF vars
  <2>2. \A n \in Nodes : Extended(node[n].versions, node'[n].versions)
    BY <1>1, <2>1, VersionsKept
  <2>3. UNCHANGED <<account, transfer, start, job>>
    BY <1>2 DEF vars
  <2> QED
    BY <1>1, <2>2, <2>3, QuietStep
<1>3. CASE Next
  <2>1. CASE Admin
    <3>1. CASE \E a \in Accounts : SetStatus(a) \/ EnforceLimit(a)
      BY <1>1, <3>1, SetStatusBystanders, LimitBystanders
    <3>2. CASE \E a \in Accounts, n \in Nodes : Assign(a, n)
      BY <1>1, <3>2, ReassignBystanders DEF Assign
    <3>3. CASE \E n \in Nodes : RenderConfig(n)
      <4>1. 1 \in Versions
        BY BoundsAssumption DEF Versions, BoundsAssumption
      <4> QED
        BY <1>1, <3>3, <4>1, ConfigBystanders
    <3>4. CASE \E n \in Nodes, v \in Versions : ApplyConfig(n, v)
      BY <1>1, <3>4, ConfigBystanders
    <3> QED
      BY <2>1, <3>1, <3>2, <3>3, <3>4 DEF Admin
  <2>2. CASE Operate
    BY <1>1, <2>2, StartBystanders, OperateBystanders DEF Operate
  <2>3. CASE \E n \in Nodes : AgentStep(n) \/ ApplyFails(n) \/ AgentLost(n)
    BY <1>1, <2>3, AgentBystanders
  <2> QED
    BY <1>3, <2>1, <2>2, <2>3 DEF Next
<1>4. CASE \E a \in Accounts : ApplyAutomaticSelection(a)
  <2>1. PICK a \in Accounts : ApplyAutomaticSelection(a)
    BY <1>4
  <2> DEFINE n == SelectCandidate(a, group[a], policy[a].allowDegraded)
  <2>2. Decision(a) = "selected" /\ Move(a, n)
    BY <2>1 DEF ApplyAutomaticSelection
  <2>3. n \in Nodes
    <3>1. SelectionShape /\ policy[a] \in SelectionPolicy
      BY DEF SelectionInv, SelectionShape
    <3>2. group[a] \in Groups /\ policy[a].allowDegraded \in BOOLEAN
      BY <2>2, <3>1, SelectedOutOfCooldown DEF SelectionShape, SelectionPolicy
    <3>3. Pool(group[a], policy[a].allowDegraded) # {}
      BY <2>2, SelectedOutOfCooldown
    <3> QED
      BY <3>1, <3>2, <3>3, SelectedIsNode
  <2> HIDE DEF n
  <2> QED
    BY <1>1, <1>2, <2>2, <2>3, StartBystanders, ReassignBystanders DEF Move
<1>5. CASE \/ Administration
           \/ \E n \in Nodes, new \in Signals : SignalsChange(n, new)
           \/ \E a \in Accounts : CooldownElapses(a)
  BY <1>2, <1>5, AroundStep
<1>6. CASE UNCHANGED allVars
  BY <1>2, <1>6 DEF allVars
<1> QED
  BY <1>3, <1>4, <1>5, <1>6 DEF SelectionNext

\* No job of a transfer deploys anything but the transfer: what it applies
\* differs from what was deployed when the transfer began only in the account
\* that moves and in accounts whose traffic limit was reached or lifted since
\* (checkBaseline, the account guard).
THEOREM BystandersKept == SelectionSpec => []BystandersUntouched
<1>1. SelectionInit => BystanderInv
  <2>1. SelectionInit => job = <<>> /\ transfer = <<>>
    BY DEF SelectionInit, Init
  <2> QED
    BY <2>1 DEF BystanderInv
<1>2. Inv /\ BystanderInv => BystandersUntouched
  <2> SUFFICES ASSUME Inv, BystanderInv, NEW j \in DOMAIN job,
                      job[j].owner # 0, Active(job[j].owner),
                      NEW b \in Accounts \ Moved(job[j].owner)
               PROVE  b \in node[job[j].node].versions[job[j].version].accounts <=>
                         b \in start[job[j].owner].others[job[j].node]
    <3>1. ASSUME Inv, BystanderInv, NEW j \in DOMAIN job,
                 job[j].owner # 0, Active(job[j].owner)
          PROVE  /\ node[job[j].node].versions[job[j].version].accounts \subseteq Accounts
                 /\ start[job[j].owner].others[job[j].node] \subseteq Accounts
      <4>1. ShapeInv /\ JobInv /\ job[j] \in Job
        BY <3>1, Rows DEF Inv
      <4> DEFINE n == job[j].node
                 v == job[j].version
                 t == job[j].owner
      <4>2. n \in Nodes /\ v \in Versions /\ v <= Len(node[n].versions)
        BY <4>1 DEF Job, JobInv
      <4>3. t \in DOMAIN transfer
        BY <3>1 DEF BystanderInv
      <4> HIDE DEF n, v, t
      <4>4. v \in DOMAIN node[n].versions
        BY <4>1, <4>2, NodeRow DEF Versions
      <4>5. node[n].versions[v] \in Version /\ start[t] \in History
        BY <4>1, <4>2, <4>3, <4>4, NodeRow, Rows
      <4>6. node[n].versions[v].accounts \subseteq Accounts /\ start[t].others[n] \subseteq Accounts
        BY <4>2, <4>5 DEF Version, History
      <4> QED
        BY <4>6 DEF n, v, t
    <3> QED
      BY <3>1 DEF BystandersUntouched, Moved
  <2> QED
    BY DEF BystanderInv, JobAlike
<1>3. Inv /\ SelectionInv /\ Inv' /\ BystanderInv /\ [SelectionNext]_allVars => BystanderInv'
  BY BystanderNext
<1> QED
  BY <1>1, <1>2, <1>3, Invariance, PTL DEF SelectionSpec
=============================================================================
