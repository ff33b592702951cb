------------------------------ MODULE Traffic ------------------------------
(***************************************************************************)
(* Traffic accounting of one VPN node: the runtime's per-account counters, *)
(* the Agent's durable outbox (agent/internal/traffic), the Manager's      *)
(* report transaction with its per-stream checkpoint, the daily totals and *)
(* the hard limits (backend/internal/traffic).                             *)
(*                                                                         *)
(* One step is one write of the outbox file, one request, or one database  *)
(* transaction; the limit evaluation, which reads committed rows only, is  *)
(* a step of its own.  A request that was sent may be processed at any     *)
(* later time, also after the Agent gave up on it and sent it again.       *)
(* Received and transmitted bytes are one number.                          *)
(***************************************************************************)
EXTENDS Integers, FiniteSets, FiniteSetsExt

CONSTANTS
    Accounts,       \* VPN accounts
    BatchLimit,     \* events a batch may have (1000)
    Limits,         \* monthly limits an administrator may set; 0 is "no hard limit"
    Nothing,        \* no outbox, no transaction
    MaxBytes,       \* bound on the bytes an account uses
    MaxChanges,     \* bound on transfers, deletions, archivals and limit changes
    MaxFaults       \* bound on restarts, lost files, failing writes and timeouts

ASSUME TrafficAssumption ==
    /\ IsFiniteSet(Accounts)
    /\ BatchLimit \in Nat /\ MaxBytes \in Nat /\ MaxChanges \in Nat /\ MaxFaults \in Nat
    /\ Limits \subseteq Nat /\ 0 \in Limits

VARIABLES
    used,       \* bytes the account has really transferred on the node
    base,       \* ... before the runtime was last restarted
    disk,       \* the outbox file
    mem,        \* the Agent's copy of it
    pc,         \* the Agent: idle, wait (for the answer), ack
    streams,    \* number of stream ids generated so far
    first,      \* bytes used when the account's baseline was written
    sent,       \* report requests sent so far
    place,      \* vpn_accounts: here, away (server_id names another node), deleted
    checkpoint, \* traffic_report_checkpoints: sequence and payload by stream
    events,     \* traffic_usage_events
    recorded,   \* bytes ever inserted for the account
    daily,      \* the node's traffic_usage_daily total
    archived,   \* bytes whose events the retention removed
    limit,      \* traffic_limits: monthly_limit_bytes if hard_limit_enabled
    enforced,   \* enforcement_status
    reports,    \* report transactions that have evaluated their limits
    upsert,     \* the limit change of an account that is not committed
    changes, faults

node    == <<used, base>>
outbox  == <<disk, mem, pc, streams, first>>
usage   == <<checkpoint, events, recorded, daily, archived>>
limits  == <<limit, enforced>>
budget  == <<changes, faults>>
trafficVars    == <<node, outbox, sent, place, usage, limits, reports, upsert, budget>>

Counter(a) == used[a] - base[a]
NoEvents   == [a \in {} |-> 0]
Change     == changes < MaxChanges /\ changes' = changes + 1
Fault      == faults < MaxFaults /\ faults' = faults + 1

(***************************************************************************)
(* Runtime                                                                 *)
(***************************************************************************)
Transfer(a) ==
    /\ used[a] < MaxBytes
    /\ used' = [used EXCEPT ![a] = @ + 1]
    /\ UNCHANGED <<base, outbox, sent, place, usage, limits, reports, upsert, budget>>

\* Counters start again at zero.
RuntimeRestarts ==
    /\ Fault
    /\ base' = used
    /\ UNCHANGED <<used, outbox, sent, place, usage, limits, reports, upsert, changes>>

(***************************************************************************)
(* Agent                                                                   *)
(***************************************************************************)
\* OpenOutbox: the file, or a new stream when there is none.
OpenOutbox ==
    /\ mem = Nothing
    /\ IF disk # Nothing
       THEN mem' = disk /\ UNCHANGED streams
       ELSE /\ streams' = streams + 1
            /\ mem' = [stream |-> streams', seq |-> 1, last |-> NoEvents, pending |-> NoEvents]
    /\ UNCHANGED <<node, disk, pc, first, sent, place, usage, limits, reports, upsert, budget>>

\* Mutation: the batch is sent although writing the file failed.
Save_MemoryFirst(box) ==
    /\ mem' = box
    /\ \/ disk' = box /\ UNCHANGED faults
       \/ Fault /\ UNCHANGED disk

\* save: the box is written and taken over; or an error before or after the
\* rename leaves the Agent with its old copy.
Save(box) ==
    \/ disk' = box /\ mem' = box /\ UNCHANGED faults
    \/ Fault /\ disk' \in {disk, box} /\ UNCHANGED mem

\* BuildUsageEvents for the accounts the collector has seen: the baselines
\* move on, and growth since the old ones becomes usage.
Delta(a) == Counter(a) - mem.last[a]

Grown(a) == Delta(a) > 0

UsageEvents(seen) ==
    [a \in {b \in seen \cap DOMAIN mem.last : Grown(b)} |-> Delta(a)]
Baselines(seen) ==
    [a \in DOMAIN mem.last \cup seen |-> IF a \in seen THEN Counter(a) ELSE mem.last[a]]

\* Prepare
PrepareBatch(seen) ==
    /\ mem # Nothing /\ pc = "idle"
    /\ mem.pending = NoEvents
    /\ Cardinality(DOMAIN UsageEvents(seen)) <= BatchLimit
    /\ Save([mem EXCEPT !.last = Baselines(seen), !.pending = UsageEvents(seen)])
    /\ first' = IF disk' = disk THEN first
                ELSE [a \in Accounts |-> IF a \in seen \ DOMAIN mem.last THEN used[a] ELSE first[a]]
    /\ UNCHANGED <<node, pc, streams, sent, place, usage, limits, reports, upsert, changes>>

\* ReportTrafficBatch
Send ==
    /\ mem # Nothing /\ pc = "idle"
    /\ mem.pending # NoEvents
    /\ sent' = sent \cup {[stream |-> mem.stream, seq |-> mem.seq, events |-> mem.pending]}
    /\ pc' = "wait"
    /\ UNCHANGED <<node, disk, mem, streams, first, place, usage, limits, reports, upsert, budget>>

Acknowledged(box) == [box EXCEPT !.pending = NoEvents, !.seq = @ + 1]

\* Acknowledge
Acknowledge ==
    /\ pc = "ack"
    /\ pc' = "idle"
    /\ Save(Acknowledged(mem))
    /\ UNCHANGED <<node, streams, first, sent, place, usage, limits, reports, upsert, changes>>

\* The request fails or its answer is lost.
RequestFails ==
    /\ pc = "wait"
    /\ Fault
    /\ pc' = "idle"
    /\ UNCHANGED <<node, disk, mem, streams, first, sent, place, usage, limits, reports, upsert, changes>>

AgentRestarts ==
    /\ mem # Nothing
    /\ Fault
    /\ mem' = Nothing /\ pc' = "idle"
    /\ UNCHANGED <<node, disk, streams, first, sent, place, usage, limits, reports, upsert, changes>>

\* The host is set up again.
FileLost ==
    /\ disk # Nothing
    /\ Fault
    /\ disk' = Nothing /\ mem' = Nothing /\ pc' = "idle"
    /\ UNCHANGED <<node, streams, first, sent, place, usage, limits, reports, upsert, changes>>

(***************************************************************************)
(* Manager: reports                                                        *)
(***************************************************************************)
Checkpoint(m) ==
    IF m.stream \in DOMAIN checkpoint THEN checkpoint[m.stream]
    ELSE [seq |-> 0, events |-> NoEvents]

\* Mutations: a repeated batch is not recognised; an old one or a gap is
\* accepted.
Repeated_NotRecognised(m) == FALSE
Fresh_Any(m) == TRUE

Repeated(m) == Checkpoint(m) = [seq |-> m.seq, events |-> m.events]
Fresh(m)    == m.seq = Checkpoint(m).seq + 1
Known(m)    == \A a \in DOMAIN m.events : place[a] = "here"

\* The transaction has the checkpoint row of the stream to itself.
Locked(s) == \E t \in reports : t.request.stream = s

\* The Agent gets the answer if it still waits for it.
Answer(m, ok) ==
    IF pc = "wait" /\ mem.stream = m.stream /\ mem.seq = m.seq
    THEN pc' = IF ok THEN "ack" ELSE "idle"
    ELSE UNCHANGED pc

\* ReportUsageBatch of a batch that was recorded before, and of one that is
\* refused: sequence conflict, or an account that is not of this node.
ReportRepeated(m) ==
    /\ ~Locked(m.stream)
    /\ Repeated(m)
    /\ Answer(m, TRUE)
    /\ UNCHANGED <<node, disk, mem, streams, first, sent, place, usage, limits, reports, upsert, budget>>

ReportRefused(m) ==
    /\ ~Locked(m.stream)
    /\ ~Repeated(m)
    /\ ~(Fresh(m) /\ Known(m))
    /\ Answer(m, FALSE)
    /\ UNCHANGED <<node, disk, mem, streams, first, sent, place, usage, limits, reports, upsert, budget>>

\* The rows of a batch, the bytes of rows, and those of the account.
Rows(m)  == {[account |-> a, stream |-> m.stream, seq |-> m.seq, bytes |-> m.events[a]] :
                a \in DOMAIN m.events}
Bytes(S) == MapThenSumSet(LAMBDA e : e.bytes, S)
Total(a) == Bytes({e \in events : e.account = a})

\* evaluateAccountLimitTx
Evaluate(lim, total) ==
    IF lim = 0 THEN "not_enforced" ELSE IF total >= lim THEN "over_limit" ELSE "within_limit"

\* The statuses a report's evaluation computes from committed limits, committed
\* events and its own ones, where they differ from the committed status.  Those
\* rows it has to lock.
NextState(m) ==
    LET next(a) == Evaluate(limit[a], Total(a) + m.events[a])
    IN  [a \in {b \in DOMAIN m.events : next(b) # enforced[b]} |-> next(a)]

\* A new batch: the events are inserted and the limits evaluated.
ReportEvaluate(m) ==
    /\ ~Locked(m.stream)
    /\ ~Repeated(m) /\ Fresh(m) /\ Known(m)
    /\ reports' = reports \cup {[request |-> m, status |-> NextState(m)]}
    /\ UNCHANGED <<node, outbox, sent, place, usage, limits, upsert, budget>>

\* Commit, once the rows to be changed are free.  Updates that waited write
\* what they computed before.
ReportCommit(t) ==
    LET m == t.request
        InsertedBytes(a) == IF a \in DOMAIN m.events THEN m.events[a] ELSE 0
    IN
    /\ \A a \in DOMAIN t.status : upsert[a] = Nothing
    /\ reports' = reports \ {t}
    /\ checkpoint' = [s \in DOMAIN checkpoint \cup {m.stream} |->
          IF s = m.stream THEN [seq |-> m.seq, events |-> m.events] ELSE checkpoint[s]]
    /\ events' = events \cup Rows(m)
    /\ recorded' = [a \in Accounts |-> recorded[a] + InsertedBytes(a)]
    /\ daily' = daily + Bytes(Rows(m))
    /\ enforced' = [a \in Accounts |-> IF a \in DOMAIN t.status THEN t.status[a] ELSE enforced[a]]
    /\ Answer(m, TRUE)
    /\ UNCHANGED <<node, disk, mem, streams, first, sent, place, archived, limit, upsert, budget>>

(***************************************************************************)
(* Manager: accounts, limits, retention                                    *)
(***************************************************************************)
\* A transfer of the account to another node, or back.
Move(a) ==
    /\ Change
    /\ place[a] # "deleted"
    /\ place' = [place EXCEPT ![a] = IF @ = "here" THEN "away" ELSE "here"]
    /\ UNCHANGED <<node, outbox, sent, usage, limits, reports, upsert, faults>>

\* The rollup trigger takes the deleted events off the day.
DeletedBytes(a) == Total(a)

\* Delete: events and limit go with the account.  It waits for transactions
\* that refer to the account.
Delete(a) ==
    /\ Change
    /\ upsert[a] = Nothing
    /\ \A t \in reports : a \notin DOMAIN t.request.events
    /\ place[a] # "deleted"
    /\ place' = [place EXCEPT ![a] = "deleted"]
    /\ events' = {e \in events : e.account # a}
    /\ daily' = daily - DeletedBytes(a)
    /\ limit' = [limit EXCEPT ![a] = 0]
    /\ enforced' = [enforced EXCEPT ![a] = "not_enforced"]
    /\ UNCHANGED <<node, outbox, sent, checkpoint, recorded, archived, reports, upsert, faults>>

\* Older(e, f): e was observed with f or before it.
Older(e, f) == e.stream < f.stream \/ (e.stream = f.stream /\ e.seq <= f.seq)

\* rawTrafficProvider.Cleanup: the events up to a cutoff are removed, the daily
\* total stays.
Archive(cutoff) ==
    LET old == {e \in events : Older(e, cutoff)}
    IN
    /\ Change
    /\ events' = events \ old
    /\ archived' = archived + Bytes(old)
    /\ UNCHANGED <<node, outbox, sent, place, checkpoint, recorded, daily, limits, reports, upsert, faults>>

\* UpsertLimit: the row is locked and evaluated against the committed events ...
UpsertLimit(a, lim) ==
    /\ Change
    /\ upsert[a] = Nothing
    /\ place[a] # "deleted"
    /\ upsert' = [upsert EXCEPT ![a] = [limit |-> lim, status |-> Evaluate(lim, Total(a))]]
    /\ UNCHANGED <<node, outbox, sent, place, usage, limits, reports, faults>>

\* ... and committed.
UpsertCommit(a) ==
    /\ upsert[a] # Nothing
    /\ limit' = [limit EXCEPT ![a] = upsert[a].limit]
    /\ enforced' = [enforced EXCEPT ![a] = upsert[a].status]
    /\ upsert' = [upsert EXCEPT ![a] = Nothing]
    /\ UNCHANGED <<node, outbox, sent, place, usage, reports, budget>>

(***************************************************************************)
(* Specification                                                           *)
(***************************************************************************)
TrafficInit ==
    /\ used = [a \in Accounts |-> 0]
    /\ base = used
    /\ disk = Nothing /\ mem = Nothing /\ pc = "idle"
    /\ streams = 0
    /\ first = used
    /\ sent = {}
    /\ place = [a \in Accounts |-> "here"]
    /\ checkpoint = [s \in {} |-> Nothing]
    /\ events = {} /\ recorded = used /\ daily = 0 /\ archived = 0
    /\ limit = used
    /\ enforced = [a \in Accounts |-> "not_enforced"]
    /\ reports = {}
    /\ upsert = [a \in Accounts |-> Nothing]
    /\ changes = 0 /\ faults = 0

AgentStep == OpenOutbox \/ Send \/ Acknowledge \/ \E seen \in SUBSET Accounts : PrepareBatch(seen)

\* The Manager works on a request it has received.
Process(m) == ReportRepeated(m) \/ ReportRefused(m) \/ ReportEvaluate(m)

TrafficNext ==
    \/ AgentStep
    \/ \E m \in sent : Process(m)
    \/ \E t \in reports : ReportCommit(t)
    \/ \E e \in events : Archive(e)
    \/ \E a \in Accounts :
          \/ Transfer(a) \/ Move(a) \/ Delete(a) \/ UpsertCommit(a)
          \/ \E lim \in Limits : UpsertLimit(a, lim)
    \/ RuntimeRestarts \/ RequestFails \/ AgentRestarts \/ FileLost

TrafficSpec == TrafficInit /\ [][TrafficNext]_trafficVars

\* The request the Agent waits for.
Current(m) == pc = "wait" /\ m.stream = mem.stream /\ m.seq = mem.seq

\* The Agent's loop ticks, and a request that the Agent waits for is worked on.
\* Nothing is assumed of administrators, clients, or late requests.
TrafficFairSpec ==
    /\ TrafficSpec
    /\ WF_trafficVars(AgentStep)
    /\ WF_trafficVars(\E m \in sent : Current(m) /\ Process(m))
    /\ WF_trafficVars(\E t \in reports : ReportCommit(t))
    /\ WF_trafficVars(\E a \in Accounts : UpsertCommit(a))

(***************************************************************************)
(* Properties                                                              *)
(***************************************************************************)
Events(S) == UNION {[D -> S] : D \in SUBSET Accounts}
Status    == {"not_enforced", "within_limit", "over_limit"}
Positive  == 1..MaxBytes
Box       == [stream : Nat, seq : Nat, last : Events(0..MaxBytes), pending : Events(Positive)]
Request   == [stream : Nat, seq : Nat, events : Events(Positive)]

\* Every variable has its type.  In particular a batch has positive events only
\* (traffic_usage_events refuses others) and the daily total never becomes
\* negative (traffic_usage_daily refuses that).
TrafficTypeOK ==
    /\ used \in [Accounts -> 0..MaxBytes] /\ base \in [Accounts -> 0..MaxBytes]
    /\ disk \in Box \cup {Nothing} /\ mem \in Box \cup {Nothing}
    /\ pc \in {"idle", "wait", "ack"} /\ streams \in Nat
    /\ first \in [Accounts -> 0..MaxBytes]
    /\ sent \subseteq Request
    /\ place \in [Accounts -> {"here", "away", "deleted"}]
    /\ \A s \in DOMAIN checkpoint : checkpoint[s] \in [seq : Nat, events : Events(Positive)]
    /\ events \subseteq [account : Accounts, stream : Nat, seq : Nat, bytes : Positive]
    /\ recorded \in [Accounts -> Nat] /\ daily \in Nat /\ archived \in Nat
    /\ limit \in [Accounts -> Limits] /\ enforced \in [Accounts -> Status]
    /\ reports \subseteq [request : Request, status : Events(Status)]
    /\ upsert \in [Accounts -> [limit : Limits, status : Status] \cup {Nothing}]
    /\ changes \in 0..MaxChanges /\ faults \in 0..MaxFaults

\* No byte is recorded twice, whatever is retried, processed late, restarted
\* or lost: an account is never charged for more than it transferred, and the
\* daily total is the sum of the events that exist and of those that only the
\* retention removed.
NeverOvercounted ==
    /\ \A a \in Accounts : recorded[a] <= used[a]
    /\ daily = archived + Bytes(events)

\* Bytes of the pending batch that the Manager has not recorded.
Outstanding(a) ==
    IF a \in DOMAIN disk.pending /\ Checkpoint(disk).seq < disk.seq THEN disk.pending[a] ELSE 0

\* As long as the runtime keeps counting and the outbox file survives, what the
\* baselines have moved over is recorded or waits in the file: failing writes,
\* Agent restarts and lost answers lose nothing.
NothingLost ==
    (disk # Nothing /\ streams = 1 /\ \A a \in Accounts : base[a] = 0) =>
        \A a \in DOMAIN disk.last : disk.last[a] - first[a] = recorded[a] + Outstanding(a)

\* Outside of transactions the stored enforcement status is the one that limit
\* and reported usage call for.  It does not hold once limits are set (README,
\* section 4).
LimitStateMatchesUsage ==
    \A a \in Accounts :
        (reports = {} /\ upsert[a] = Nothing) => enforced[a] = Evaluate(limit[a], Total(a))

\* A pending batch is accepted in the end, unless the outbox is lost or the
\* batch names an account that has left the node.
Pending     == disk # Nothing /\ disk.pending # NoEvents
Poisoned    == \E a \in DOMAIN disk.pending : place[a] # "here"
BatchDrains == Pending ~> (~Pending \/ Poisoned)
=============================================================================
