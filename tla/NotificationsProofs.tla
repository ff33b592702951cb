------------------------- MODULE NotificationsProofs ------------------------
(***************************************************************************)
(* Alerting, the pairing of chats and the notifications, for any servers,  *)
(* checks' histories, delays, chats, links and faults: flapping protection *)
(* and hysteresis of the episodes, no pairing lost, each recipient told    *)
(* once.                                                                   *)
(***************************************************************************)
EXTENDS Notifications, SequenceTheorems, FiniteSetTheorems, WellFoundedInduction, TLAPS

(***************************************************************************)
(* The inductive invariant: health                                         *)
(***************************************************************************)
HealthRow == [state : {"healthy", "degraded", "unhealthy", "unknown"},
              reason : {"observed", "not_installed", "telemetry_stale"}, expires : Nat]

CheckRow == [server : Servers, check : Checks, row : HealthRow]

Snapshots == {NoSnapshot} \cup [received : Nat, sample : Samples]

\* Evidence that is not marked stale expires with the last snapshot, heard at h, or earlier.
Dated(h, row) == row.reason = "telemetry_stale" \/ row.expires \in 1 .. h + Ttl

\* What was heard when, from the snapshots to the current checks.
HealthInv ==
    /\ clock \in Nat
    /\ heard \in [Servers -> Nat] /\ \A s \in Servers : heard[s] <= clock
    /\ telemetry \in [Servers -> Snapshots]
    /\ \A s \in Servers : telemetry[s].received <= heard[s]
    /\ projection \in [now : Nat, todo : {{}}]
          \cup [now : Nat, todo : SUBSET Servers, rows : [Servers -> Snapshots]]
    /\ projection.now <= clock
    /\ \A s \in projection.todo :
          projection.rows[s] # NoSnapshot /\ projection.rows[s].received <= heard[s]
    /\ health = [s \in Servers |-> health[s]]
    /\ \A s \in Servers : health[s] # NoHealth =>
          \A c \in Checks : health[s][c] \in HealthRow /\ Dated(heard[s], health[s][c])

\* The evaluation of the engine.
EngineInv ==
    /\ engine \in [now : Nat, todo : Seq(CheckRow)]
    /\ engine.now <= clock
    /\ engine.todo # <<>> => engine.now >= 1
    /\ \A k \in DOMAIN engine.todo : Dated(heard[engine.todo[k].server], engine.todo[k].row)
    /\ lastSeen \in [Servers -> [Checks -> Nat]]
    /\ \A s \in Servers, c \in Checks : lastSeen[s][c] <= engine.now

(***************************************************************************)
(* The inductive invariant: episodes                                       *)
(***************************************************************************)
AlertRec == [server : Servers, check : Checks, state : {"pending", "firing", "resolved"},
             severity : {"warning", "critical"},
             started : Nat, fired : Nat, resolved : Nat, recovery : Nat]

SameCheck(a, b) == a.server = b.server /\ a.check = b.check

\* The times of one episode: none lies ahead of the engine, a recovery lasts since the
\* condition was last seen, and only what was resolved has an end.
Timed(a) ==
    /\ a.started <= engine.now /\ a.fired <= engine.now
    /\ a.recovery <= engine.now /\ a.resolved <= engine.now
    /\ a.state = "pending" => a.fired = Never
    /\ a.state # "resolved" => a.resolved = Never
    /\ a.state = "resolved" => a.resolved >= 1 /\ a.recovery = Never
    /\ a.recovery # Never => lastSeen[a.server][a.check] <= a.recovery

\* Episodes of a check follow each other: one begins when the one before is over.
EpisodeInv ==
    /\ alerts \in Seq(AlertRec)
    /\ \A i \in DOMAIN alerts : Timed(alerts[i])
    /\ \A i, j \in DOMAIN alerts : i < j /\ SameCheck(alerts[i], alerts[j]) =>
          alerts[i].state = "resolved" /\ alerts[i].resolved <= alerts[j].started
    /\ QuietAfterResolve

(***************************************************************************)
(* The inductive invariant: pairing                                        *)
(***************************************************************************)
RecipientRec == [id : Nat, chat : Chats]

SessionRec == [status : {"none", "started", "expired"}, account : Accounts \cup {"none"},
               recipient : Nat]

PairState == [sessions : [Sessions -> SessionRec], recipients : SUBSET RecipientRec, used : Nat,
              contacts : [Accounts -> Nat], paired : SUBSET (Sessions \X Chats)]

\* Links and accounts refer to recipients there are, and to the ones they paired.
Referenced(st) ==
    /\ \A r \in st.recipients : r.id \in 1 .. st.used
    /\ \A k \in Sessions : st.sessions[k].recipient # NoRecipient =>
          \E r \in st.recipients : r.id = st.sessions[k].recipient /\ <<k, r.chat>> \in st.paired
    /\ \A a \in Accounts : st.contacts[a] # NoRecipient =>
          \E r \in st.recipients : r.id = st.contacts[a]

\* The tables the commit writes.
Tables == [sessions |-> sessions, recipients |-> recipients, used |-> used,
           contacts |-> contacts, paired |-> paired]

\* An update that was confirmed has had its effect.
ConfirmedTo(st, n) ==
    \A m \in 1 .. n : st.sessions[updates[m].session].status = "started" =>
        \E chat \in Chats : <<updates[m].session, chat>> \in st.paired

PairingInv ==
    /\ Tables \in PairState /\ Referenced(Tables)
    /\ updates \in Seq([chat : Chats, session : Sessions])
    /\ \A m \in DOMAIN updates : sessions[updates[m].session].status # "none"
    /\ nextUpdate \in 1 .. Len(updates) + 1 /\ ConfirmedTo(Tables, nextUpdate - 1)
    /\ poll # NoPoll =>
          /\ poll.from = nextUpdate /\ poll.next \in nextUpdate .. Len(updates) + 1
          /\ poll.expired \subseteq Sessions /\ \A k \in poll.expired : sessions[k].status = "expired"

(***************************************************************************)
(* The inductive invariant: notifications                                  *)
(***************************************************************************)
IntentRec == [alert : Nat, kind : {"firing", "escalated", "resolved"},
              severity : {"warning", "critical"}, claim : {"free", "fresh", "old"},
              expanded : BOOLEAN]

\* Recipient r has a delivery of intent i, and its link.
HasDelivery(i, r) == \E d \in DOMAIN deliveries : deliveries[d] = SystemNotification(i, r)

IntentInv ==
    /\ intents \in Seq(IntentRec)
    /\ \A i \in DOMAIN intents : intents[i].alert \in DOMAIN alerts
    /\ audience = [i \in DOMAIN intents |-> audience[i]]
    /\ \A i \in DOMAIN intents : audience[i] \subseteq RecipientRec
    /\ \A i \in DOMAIN intents : \A r \in audience[i] : r.id <= used

\* One row for each key.
DeliveryInv ==
    /\ deliveries \in Seq([intent : Nat, recipient : Nat])
    /\ \A d \in DOMAIN deliveries : /\ deliveries[d].intent \in DOMAIN intents
                                    /\ deliveries[d].recipient \in 1 .. used
    /\ \A d, e \in DOMAIN deliveries : deliveries[d] = deliveries[e] => d = e

\* What an expansion has listed it does, and what is done has been listed.
ExpansionInv ==
    /\ \A i \in DOMAIN intents : intents[i].expanded =>
          \A r \in audience[i] \cap recipients : HasDelivery(i, r.id) /\ <<i, r.id>> \in links
    /\ expansion # NoExpansion =>
          /\ expansion.intent \in DOMAIN intents
          /\ expansion \in [intent : Nat, listed : {FALSE}]
                \cup [intent : Nat, listed : {TRUE}, created : BOOLEAN, todo : SUBSET RecipientRec]
    /\ expansion # NoExpansion /\ expansion.listed =>
          /\ \A r \in expansion.todo : r.id \in 1 .. used
          /\ \A r \in audience[expansion.intent] \cap recipients :
                r \in expansion.todo
                \/ (HasDelivery(expansion.intent, r.id) /\ <<expansion.intent, r.id>> \in links)
          /\ expansion.created /\ expansion.todo # {} =>
                HasDelivery(expansion.intent, NextRecipient.id)

\* The inductive invariant.
Inv == HealthInv /\ EngineInv /\ EpisodeInv /\ PairingInv /\ IntentInv /\ DeliveryInv /\ ExpansionInv
(***************************************************************************)
(* Numbers                                                                 *)
(***************************************************************************)
\* The relation < on the natural numbers, as a set of pairs.
LEMMA LessThan == \A x, y \in Nat : <<y, x>> \in OpToRel(<, Nat) <=> y < x
<1>1. ASSUME NEW x \in Nat, NEW y \in Nat
      PROVE  <<y, x>> \in OpToRel(<, Nat) <=> y < x
  BY DEF OpToRel
<1>. QED
  BY <1>1

\* A set of natural numbers has a least one.
LEMMA LeastNumber ==
    ASSUME NEW T \in SUBSET Nat, T # {}
    PROVE  \E x \in T : \A y \in T : x <= y
<1>. DEFINE R == OpToRel(<, Nat)
<1>1. IsWellFoundedOn(R, Nat)
  BY NatLessThanWellFounded
<1>2. \A x, y \in Nat : <<y, x>> \in R <=> y < x
  BY LessThan
<1>. HIDE DEF R
<1>3. PICK x \in T : \A y \in T : ~(<<y, x>> \in R)
  BY <1>1, WFMin, Zenon
<1>4. \A y \in T : ~(y < x)
  BY <1>2, <1>3, Zenon
<1>5. \A y \in T : x <= y
  BY <1>4
<1>. QED
  BY <1>5

\* A bounded one has a greatest.
LEMMA GreatestNumber ==
    ASSUME NEW T \in SUBSET Nat, T # {}, NEW b \in Nat, \A t \in T : t <= b
    PROVE  \E x \in T : \A y \in T : y <= x
<1>. DEFINE D == {b - t : t \in T}
<1>1. D \in SUBSET Nat /\ D # {}
  <2>1. \A t \in T : b - t \in Nat
    OBVIOUS
  <2>2. \E t \in T : b - t \in D
    OBVIOUS
  <2>. QED
    BY <2>1, <2>2
<1>2. PICK d \in D : \A e \in D : d <= e
  BY <1>1, LeastNumber, Zenon
<1>3. PICK x \in T : d = b - x
  OBVIOUS
<1>4. \A y \in T : b - x <= b - y
  BY <1>2, <1>3
<1>. QED
  BY <1>4

(***************************************************************************)
(* Health                                                                  *)
(***************************************************************************)
\* The delays are positive.
LEMMA Delays ==
    /\ Ttl \in Nat /\ Ttl >= 1 /\ CriticalFireDelay \in Nat /\ CriticalFireDelay >= 1
    /\ WarningFireDelay \in Nat /\ WarningFireDelay >= 1
    /\ RecoveryDelay \in Nat /\ RecoveryDelay >= 1
    /\ FlapWindow \in Nat /\ FlapFireDelay \in Nat /\ FlapFireDelay >= 1 /\ FlapFireDelay <= FlapWindow
  BY DelaysAssumption

\* Evidence stays dated when a newer snapshot is heard.
LEMMA DatedLater ==
    ASSUME NEW row, NEW h \in Nat, NEW g \in Nat, h <= g, Dated(h, row)
    PROVE  Dated(g, row)
  BY Delays DEF Dated

\* The rows an evaluation has read.
LEMMA TodoRows ==
    ASSUME EngineInv
    PROVE  /\ engine.now \in Nat /\ engine.todo \in Seq(CheckRow)
           /\ \A k \in DOMAIN engine.todo :
                 engine.todo[k] \in CheckRow /\ engine.todo[k].server \in Servers
<1>1. engine.now \in Nat /\ engine.todo \in Seq(CheckRow)
  BY DEF EngineInv
<1>2. \A k \in DOMAIN engine.todo : engine.todo[k] \in CheckRow
  BY <1>1, ElementOfSeq, LenProperties
<1>. QED
  BY <1>1, <1>2 DEF CheckRow

\* Time passes.
LEMMA TickStep ==
    ASSUME HealthInv, EngineInv, Tick
    PROVE  HealthInv' /\ EngineInv'
<1>1. clock' = clock + 1
      /\ UNCHANGED <<telemetry, health, projection, engine, alerts, intents, heard, lastSeen>>
  BY DEF Tick
<1>2. HealthInv'
  BY <1>1 DEF HealthInv
<1>3. EngineInv'
  BY <1>1 DEF HealthInv, EngineInv
<1>. QED
  BY <1>2, <1>3

\* A snapshot arrives.
LEMMA ReportStep ==
    ASSUME HealthInv, EngineInv, NEW s \in Servers, Report(s)
    PROVE  HealthInv' /\ EngineInv'
<1>1. PICK sample \in Samples : telemetry' = [telemetry EXCEPT ![s] = TelemetrySnapshot(sample)]
  BY DEF Report
<1>2. /\ heard[s] < clock /\ heard' = [heard EXCEPT ![s] = clock]
      /\ UNCHANGED <<clock, health, projection, engine, alerts, intents, lastSeen>>
  BY DEF Report
<1>. DEFINE new == TelemetrySnapshot(sample)
<1>3. new \in Snapshots /\ new.received = clock
  BY DEF HealthInv, Snapshots, TelemetrySnapshot
<1>. HIDE DEF new
<1>4. heard' \in [Servers -> Nat] /\ heard'[s] = clock
      /\ \A q \in Servers : heard[q] <= heard'[q] /\ heard'[q] <= clock
  BY <1>2 DEF HealthInv
<1>5. telemetry' \in [Servers -> Snapshots] /\ \A q \in Servers : telemetry'[q].received <= heard'[q]
  BY <1>1, <1>2, <1>3, <1>4 DEF HealthInv, new
<1>6. \A q \in Servers : \A row : Dated(heard[q], row) => Dated(heard'[q], row)
  BY <1>4, DatedLater DEF HealthInv
<1>7. \A q \in projection.todo : q \in Servers /\ projection.rows[q] \in Snapshots
  BY DEF HealthInv
<1>8. \A q \in projection.todo : projection.rows[q].received \in Nat
  BY <1>7 DEF Snapshots, NoSnapshot, HealthInv
<1>9. HealthInv'
  BY <1>2, <1>4, <1>5, <1>6, <1>7, <1>8 DEF HealthInv
<1>10. \A k \in DOMAIN engine.todo : engine.todo[k].server \in Servers
  BY TodoRows
<1>11. EngineInv'
  BY <1>2, <1>6, <1>10 DEF EngineInv
<1>. QED
  BY <1>9, <1>11

\* The health worker reads the snapshots.
LEMMA BeginProjectionStep ==
    ASSUME HealthInv, EngineInv, BeginProjection
    PROVE  HealthInv' /\ EngineInv'
<1>. DEFINE rows == {s \in Servers : telemetry[s] # NoSnapshot}
<1>1. /\ projection' = [now |-> clock, todo |-> rows, rows |-> telemetry]
      /\ UNCHANGED <<clock, telemetry, health, engine, alerts, intents, heard, lastSeen>>
  BY DEF BeginProjection
<1>2. EngineInv'
  BY <1>1 DEF EngineInv
<1>3. projection' \in [now : Nat, todo : SUBSET Servers, rows : [Servers -> Snapshots]]
      /\ projection'.now = clock /\ projection'.todo = rows /\ projection'.rows = telemetry
  BY <1>1 DEF HealthInv
<1>4. UNCHANGED <<clock, telemetry, health, heard>>
  BY <1>1
<1>. HIDE <1>1
<1>5. HealthInv'
  BY <1>3, <1>4 DEF HealthInv
<1>. QED
  BY <1>2, <1>5
\* The checks a snapshot gives are dated by it.
LEMMA EvaluatedChecks ==
    ASSUME NEW snapshot \in Snapshots, snapshot # NoSnapshot, NEW c \in Checks
    PROVE  /\ EvaluateAgentTelemetry(snapshot)[c] \in HealthRow
           /\ EvaluateAgentTelemetry(snapshot)[c].expires = snapshot.received + Ttl
<1>1. snapshot.received \in Nat /\ snapshot.sample \in Samples
  BY DEF Snapshots
<1>2. /\ snapshot.sample.capacity \in {"ok", "low", "critical", "missing"}
      /\ snapshot.sample.core \in {"active", "transitioning", "down", "absent", "odd"}
  BY <1>1, SamplesAssumption
<1>3. CapacityState(snapshot.sample.capacity) \in {"healthy", "degraded", "unhealthy", "unknown"}
  BY <1>2 DEF CapacityState
<1>4. CoreState(snapshot.sample.core) \in {"healthy", "degraded", "unhealthy", "unknown"}
  BY <1>2 DEF CoreState
<1>5. snapshot.received + Ttl \in Nat
  BY <1>1, Delays
<1>6. ASSUME NEW st \in {"healthy", "degraded", "unhealthy", "unknown"},
             NEW rs \in {"observed", "not_installed"}
      PROVE  /\ HealthCheck(st, rs, snapshot.received + Ttl) \in HealthRow
             /\ HealthCheck(st, rs, snapshot.received + Ttl).expires = snapshot.received + Ttl
  BY <1>5 DEF HealthCheck, HealthRow
<1>. DEFINE rs == IF snapshot.sample.core = "absent" THEN "not_installed" ELSE "observed"
            e == snapshot.received + Ttl
<1>7. rs \in {"observed", "not_installed"}
  OBVIOUS
<1>8. EvaluateAgentTelemetry(snapshot)[c] =
        CASE c = "freshness" -> HealthCheck("healthy", "observed", e)
          [] c = "capacity"  -> HealthCheck(CapacityState(snapshot.sample.capacity), "observed", e)
          [] c = "core"      -> HealthCheck(CoreState(snapshot.sample.core), rs, e)
  BY DEF EvaluateAgentTelemetry
<1>. HIDE DEF rs, e
<1>9. CASE c = "freshness"
  BY <1>6, <1>8, <1>9 DEF e
<1>10. CASE c = "capacity"
  BY <1>3, <1>6, <1>8, <1>10 DEF e
<1>11. CASE c = "core"
  BY <1>4, <1>6, <1>7, <1>8, <1>11 DEF e
<1>. QED
  BY <1>9, <1>10, <1>11 DEF Checks

\* The current checks of one server are replaced.
LEMMA ApplyChecksStep ==
    ASSUME HealthInv, EngineInv, NEW s \in Servers, ApplyChecks(s)
    PROVE  HealthInv' /\ EngineInv'
<1>. DEFINE snapshot == projection.rows[s]
            new == IF projection.now >= snapshot.received + Ttl THEN markTelemetryChecksStale
                   ELSE EvaluateAgentTelemetry(snapshot)
<1>1. /\ s \in projection.todo /\ health' = [health EXCEPT ![s] = new]
      /\ projection' = IF projection.todo = {s} THEN [now |-> projection.now, todo |-> {}]
                       ELSE [projection EXCEPT !.todo = projection.todo \ {s}]
      /\ UNCHANGED <<clock, telemetry, engine, alerts, intents, heard, lastSeen>>
  BY DEF ApplyChecks
<1>2. EngineInv'
  BY <1>1 DEF EngineInv
<1>3. projection \in [now : Nat, todo : SUBSET Servers, rows : [Servers -> Snapshots]]
  BY <1>1 DEF HealthInv
<1>4. snapshot \in Snapshots /\ snapshot # NoSnapshot /\ snapshot.received <= heard[s]
      /\ heard[s] \in Nat /\ snapshot.received \in Nat
  BY <1>1, <1>3 DEF HealthInv, Snapshots
<1>5. \A c \in Checks : new[c] \in HealthRow /\ Dated(heard[s], new[c])
  <2>1. CASE new = markTelemetryChecksStale
    <3>1. HealthCheck("unknown", "telemetry_stale", Never) \in HealthRow
          /\ HealthCheck("unknown", "telemetry_stale", Never).reason = "telemetry_stale"
      BY DEF HealthCheck, HealthRow, Never
    <3>2. \A c \in Checks : new[c] = HealthCheck("unknown", "telemetry_stale", Never)
      BY <2>1 DEF markTelemetryChecksStale
    <3>. QED
      BY <3>1, <3>2 DEF Dated
  <2>2. CASE new = EvaluateAgentTelemetry(snapshot)
    <3>1. \A c \in Checks : new[c] \in HealthRow /\ new[c].expires = snapshot.received + Ttl
      BY <1>4, <2>2, EvaluatedChecks
    <3>. QED
      BY <1>4, <3>1, Delays DEF Dated
  <2>. QED
    BY <2>1, <2>2
<1>. HIDE DEF new
<1>6. /\ projection' \in [now : Nat, todo : {{}}]
            \cup [now : Nat, todo : SUBSET Servers, rows : [Servers -> Snapshots]]
      /\ projection'.now = projection.now
      /\ \A q \in projection'.todo : q \in projection.todo /\ projection'.rows[q] = projection.rows[q]
  <2>1. CASE projection.todo = {s}
    BY <1>1, <1>3, <2>1
  <2>2. CASE projection.todo # {s}
    BY <1>1, <1>3, <2>2
  <2>. QED
    BY <2>1, <2>2
<1>7. /\ health' = [q \in Servers |-> health'[q]] /\ health'[s] = new
      /\ \A q \in Servers : q # s => health'[q] = health[q]
  BY <1>1 DEF HealthInv
<1>8. UNCHANGED <<clock, telemetry, heard>>
  BY <1>1
<1>. HIDE <1>1
<1>9. HealthInv'
  BY <1>5, <1>6, <1>7, <1>8 DEF HealthInv
<1>. QED
  BY <1>2, <1>9

\* The health worker stops.
LEMMA AbandonProjectionStep ==
    ASSUME HealthInv, EngineInv, AbandonProjection
    PROVE  HealthInv' /\ EngineInv'
<1>1. /\ projection' = [now |-> projection.now, todo |-> {}]
      /\ UNCHANGED <<clock, telemetry, health, engine, alerts, intents, heard, lastSeen>>
  BY DEF AbandonProjection
<1>2. EngineInv'
  BY <1>1 DEF EngineInv
<1>3. projection' \in [now : Nat, todo : {{}}] /\ projection'.now = projection.now
      /\ projection'.todo = {}
  BY <1>1 DEF HealthInv
<1>4. UNCHANGED <<clock, telemetry, health, heard>>
  BY <1>1
<1>. HIDE <1>1
<1>5. HealthInv'
  BY <1>3, <1>4 DEF HealthInv
<1>. QED
  BY <1>2, <1>5

(***************************************************************************)
(* Episodes                                                                *)
(***************************************************************************)
\* A set of servers has an order.
LEMMA Ordered ==
    ASSUME NEW known \in SUBSET Servers
    PROVE  Cardinality(known) \in Nat /\ ServerOrder(known) \in [1 .. Cardinality(known) -> known]
<1>1. IsFiniteSet(known)
  BY ServersAssumption, FS_Subset
<1>2. Cardinality(known) \in Nat /\ ExistsBijection(1 .. Cardinality(known), known)
  BY <1>1, FS_CardinalityType
<1>3. PICK f : f \in Bijection(1 .. Cardinality(known), known)
  BY <1>2 DEF ExistsBijection
<1>4. f \in [1 .. Cardinality(known) -> known] /\ \A i, j \in DOMAIN f : f[i] = f[j] => i = j
  BY <1>3 DEF Bijection, Injection, IsInjective
<1>. QED
  BY <1>2, <1>4 DEF ServerOrder
\* The rows of the table.
LEMMA AlertRows ==
    ASSUME EpisodeInv
    PROVE  /\ Len(alerts) \in Nat /\ DOMAIN alerts = 1 .. Len(alerts)
           /\ \A i \in DOMAIN alerts :
                 /\ alerts[i] \in AlertRec /\ alerts[i].server \in Servers /\ alerts[i].check \in Checks
                 /\ alerts[i].started \in Nat /\ alerts[i].fired \in Nat
                 /\ alerts[i].resolved \in Nat /\ alerts[i].recovery \in Nat
<1>1. alerts \in Seq(AlertRec)
  BY DEF EpisodeInv
<1>2. \A i \in DOMAIN alerts : alerts[i] \in AlertRec
  BY <1>1, ElementOfSeq, LenProperties
<1>. QED
  BY <1>1, <1>2, LenProperties DEF AlertRec

\* Episodes are as timed as before when the engine has only moved on.
LEMMA LaterEngine ==
    ASSUME EngineInv, EpisodeInv, UNCHANGED <<alerts, lastSeen>>,
           engine.now \in Nat, engine'.now \in Nat, engine.now <= engine'.now
    PROVE  EpisodeInv'
<1>1. \A i \in DOMAIN alerts : Timed(alerts[i])'
  <2>. SUFFICES ASSUME NEW i \in DOMAIN alerts
                PROVE  Timed(alerts[i])'
    OBVIOUS
  <2>1. Timed(alerts[i])
    BY DEF EpisodeInv
  <2>. QED
    BY <2>1, AlertRows DEF Timed
<1>. QED
  BY <1>1 DEF EpisodeInv, QuietAfterResolve

\* An evaluation begins with the checks as they are.
LEMMA BeginEvaluationStep ==
    ASSUME HealthInv, EngineInv, EpisodeInv, BeginEvaluation
    PROVE  HealthInv' /\ EngineInv' /\ EpisodeInv'
<1>. DEFINE known == {s \in Servers : health[s] # NoHealth}
            n == Cardinality(known)
            S(k) == ServerOrder(known)[((k - 1) \div 3) + 1]
            C(k) == CheckOrder[((k - 1) % 3) + 1]
            row(k) == [server |-> S(k), check |-> C(k), row |-> health[S(k)][C(k)]]
            todo == [k \in 1 .. 3 * n |-> row(k)]
<1>1. /\ engine.now < clock /\ engine' = [now |-> clock, todo |-> todo]
      /\ UNCHANGED <<clock, telemetry, health, projection, alerts, intents, heard, lastSeen>>
  BY DEF BeginEvaluation
<1>2. n \in Nat /\ ServerOrder(known) \in [1 .. n -> known]
  BY Ordered
<1>3. ASSUME NEW k \in 1 .. 3 * n
      PROVE  row(k) \in CheckRow /\ Dated(heard[row(k).server], row(k).row)
  <2>1. ((k - 1) \div 3) + 1 \in 1 .. n
    BY <1>2
  <2>2. S(k) \in Servers /\ health[S(k)] # NoHealth
    BY <1>2, <2>1
  <2>3. C(k) \in Checks
    <3>1. (k - 1) % 3 \in 0 .. 2
      BY <1>2
    <3>2. ((k - 1) % 3) + 1 \in 1 .. 3
      BY <3>1
    <3>. QED
      BY <3>2 DEF CheckOrder, Checks
  <2>4. health[S(k)][C(k)] \in HealthRow /\ Dated(heard[S(k)], health[S(k)][C(k)])
    BY <2>2, <2>3 DEF HealthInv
  <2>. HIDE DEF S, C
  <2>. QED
    BY <2>2, <2>3, <2>4 DEF CheckRow
<1>. HIDE DEF row
<1>4. todo \in Seq(CheckRow) /\ DOMAIN todo = 1 .. 3 * n /\ \A k \in DOMAIN todo : todo[k] = row(k)
  <2>1. todo \in [1 .. 3 * n -> CheckRow] /\ 3 * n \in Nat
    BY <1>2, <1>3
  <2>. QED
    BY <2>1, IsASeq, SeqDef
<1>5. \A k \in DOMAIN todo : Dated(heard[todo[k].server], todo[k].row)
  BY <1>3, <1>4
<1>. HIDE DEF todo
<1>6. engine' \in [now : Nat, todo : Seq(CheckRow)] /\ engine'.now = clock /\ engine'.todo = todo
  BY <1>1, <1>4 DEF HealthInv
<1>7. engine.now < clock
      /\ UNCHANGED <<clock, telemetry, health, projection, alerts, intents, heard, lastSeen>>
  BY <1>1
<1>. HIDE <1>1
<1>8. HealthInv'
  BY <1>7 DEF HealthInv
<1>9. EngineInv'
  <2>1. engine.now \in Nat /\ clock \in Nat /\ clock >= 1
    BY <1>7, TodoRows DEF HealthInv
  <2>2. \A s \in Servers, c \in Checks : lastSeen[s][c] <= clock
    BY <1>7, <2>1 DEF EngineInv
  <2>. QED
    BY <1>5, <1>6, <1>7, <2>1, <2>2 DEF EngineInv
<1>10. EpisodeInv'
  BY <1>6, <1>7, TodoRows, LaterEngine DEF HealthInv
<1>. QED
  BY <1>8, <1>9, <1>10

\* The check an evaluation is at.
LEMMA AtCheck ==
    ASSUME EngineInv, ~Evaluated
    PROVE  /\ Current \in CheckRow /\ Current.server \in Servers /\ Current.check \in Checks
           /\ Dated(heard[Current.server], Current.row)
           /\ engine.now \in Nat /\ engine.now >= 1
<1>1. engine.todo \in Seq(CheckRow) /\ engine.todo # <<>> /\ engine.now \in Nat /\ engine.now >= 1
  BY DEF EngineInv, Evaluated
<1>2. 1 \in DOMAIN engine.todo /\ Current = engine.todo[1]
  BY <1>1, EmptySeq, LenProperties, HeadTailProperties DEF Current
<1>3. Current \in CheckRow /\ Dated(heard[Current.server], Current.row)
  BY <1>2, TodoRows DEF EngineInv
<1>. QED
  BY <1>1, <1>3 DEF CheckRow

\* ... and the one after it.
LEMMA NextCheckKeeps ==
    ASSUME EngineInv, ~Evaluated, NextCheck
    PROVE  /\ engine' \in [now : Nat, todo : Seq(CheckRow)] /\ engine'.now = engine.now
           /\ \A k \in DOMAIN engine'.todo :
                 Dated(heard[engine'.todo[k].server], engine'.todo[k].row)
<1>1. engine.todo \in Seq(CheckRow) /\ engine.todo # <<>>
  BY DEF EngineInv, Evaluated
<1>2. /\ Tail(engine.todo) \in Seq(CheckRow) /\ Len(Tail(engine.todo)) = Len(engine.todo) - 1
      /\ \A k \in 1 .. Len(Tail(engine.todo)) : Tail(engine.todo)[k] = engine.todo[k + 1]
  BY <1>1, HeadTailProperties
<1>3. engine' \in [now : Nat, todo : Seq(CheckRow)] /\ engine'.now = engine.now
      /\ engine'.todo = Tail(engine.todo)
  BY <1>2 DEF EngineInv, NextCheck
<1>4. ASSUME NEW k \in DOMAIN Tail(engine.todo)
      PROVE  k + 1 \in DOMAIN engine.todo /\ Tail(engine.todo)[k] = engine.todo[k + 1]
  BY <1>1, <1>2, LenProperties
<1>5. \A k \in DOMAIN engine.todo : Dated(heard[engine.todo[k].server], engine.todo[k].row)
  BY DEF EngineInv
<1>. QED
  BY <1>3, <1>4, <1>5

\* The condition is recorded.
LEMMA SeenKeeps ==
    ASSUME EngineInv, ~Evaluated, Seen
    PROVE  /\ lastSeen' \in [Servers -> [Checks -> Nat]]
           /\ lastSeen'[Current.server][Current.check] = engine.now
           /\ \A s \in Servers, c \in Checks :
                 /\ lastSeen'[s][c] <= engine.now
                 /\ s # Current.server \/ c # Current.check => lastSeen'[s][c] = lastSeen[s][c]
<1>. DEFINE s == Current.server
            c == Current.check
            row == [lastSeen[s] EXCEPT ![c] = engine.now]
<1>1. s \in Servers /\ c \in Checks /\ engine.now \in Nat
  BY AtCheck
<1>2. lastSeen \in [Servers -> [Checks -> Nat]]
  BY DEF EngineInv
<1>3. row \in [Checks -> Nat] /\ row[c] = engine.now
      /\ \A d \in Checks : d # c => row[d] = lastSeen[s][d]
  BY <1>1, <1>2
<1>4. lastSeen' = [lastSeen EXCEPT ![s] = row]
  BY DEF Seen
<1>. HIDE DEF row, s, c
<1>5. lastSeen' \in [Servers -> [Checks -> Nat]] /\ lastSeen'[s] = row
      /\ \A q \in Servers : q # s => lastSeen'[q] = lastSeen[q]
  BY <1>1, <1>2, <1>3, <1>4
<1>6. \A q \in Servers, d \in Checks : lastSeen[q][d] <= engine.now
  BY DEF EngineInv
<1>7. ASSUME NEW q \in Servers, NEW d \in Checks
      PROVE  /\ lastSeen'[q][d] <= engine.now
             /\ q # s \/ d # c => lastSeen'[q][d] = lastSeen[q][d]
  <2>1. CASE q # s
    BY <1>5, <1>6, <2>1
  <2>2. CASE q = s
    BY <1>1, <1>3, <1>5, <1>6, <2>2
  <2>. QED
    BY <2>1, <2>2
<1>. QED
  BY <1>3, <1>5, <1>7 DEF s, c
\* The open episode of the check.
LEMMA TheRecord ==
    ASSUME Evaluating(TRUE)
    PROVE  /\ ~Evaluated /\ Record \in DOMAIN alerts
           /\ alerts[Record].server = Current.server /\ alerts[Record].check = Current.check
           /\ alerts[Record].state \in {"pending", "firing"}
           /\ UNCHANGED <<clock, telemetry, health, projection, heard>>
<1>1. Active(Current.server, Current.check) # {} /\ ~Evaluated
      /\ UNCHANGED <<clock, telemetry, health, projection, heard>>
  BY DEF Evaluating
<1>2. Record \in Active(Current.server, Current.check)
  BY <1>1 DEF Record
<1>. QED
  BY <1>1, <1>2 DEF Active

\* A check without an open episode.
LEMMA NoRecord ==
    ASSUME Evaluating(FALSE)
    PROVE  /\ ~Evaluated
           /\ \A i \in DOMAIN alerts :
                 alerts[i].server = Current.server /\ alerts[i].check = Current.check =>
                     alerts[i].state \notin {"pending", "firing"}
           /\ UNCHANGED <<clock, telemetry, health, projection, heard>>
<1>1. Active(Current.server, Current.check) = {} /\ ~Evaluated
      /\ UNCHANGED <<clock, telemetry, health, projection, heard>>
  BY DEF Evaluating
<1>. QED
  BY <1>1 DEF Active

\* A condition has one of two severities.
LEMMA Severities ==
    ASSUME Triggered
    PROVE  Severity \in {"warning", "critical"}
  BY DEF Triggered, Severity, EvaluateAlertCondition

\* What an evaluation leaves of the health worker's business and of its own.
LEMMA EngineKept ==
    ASSUME HealthInv, EngineInv, ~Evaluated, NextCheck \/ UNCHANGED engine, Seen \/ UNCHANGED lastSeen,
           UNCHANGED <<clock, telemetry, health, projection, heard>>
    PROVE  HealthInv' /\ EngineInv' /\ engine'.now = engine.now
<1>1. HealthInv'
  BY DEF HealthInv
<1>2. /\ engine' \in [now : Nat, todo : Seq(CheckRow)] /\ engine'.now = engine.now
      /\ \A k \in DOMAIN engine'.todo : Dated(heard[engine'.todo[k].server], engine'.todo[k].row)
  BY NextCheckKeeps DEF EngineInv
<1>3. /\ lastSeen' \in [Servers -> [Checks -> Nat]]
      /\ \A q \in Servers, d \in Checks : lastSeen'[q][d] <= engine.now
  BY SeenKeeps DEF EngineInv
<1>4. engine.now >= 1 /\ engine.now <= clock
  BY AtCheck DEF EngineInv
<1>5. EngineInv'
  BY <1>2, <1>3, <1>4 DEF EngineInv
<1>. QED
  BY <1>1, <1>2, <1>5

\* The open episode r of a check is rewritten.
LEMMA EpisodeMoves ==
    ASSUME EngineInv, EpisodeInv, ~Evaluated,
           NEW r \in DOMAIN alerts, alerts[r].state # "resolved",
           alerts[r].server = Current.server, alerts[r].check = Current.check,
           NEW new \in AlertRec, alerts' = [alerts EXCEPT ![r] = new],
           SameCheck(new, alerts[r]), new.started = alerts[r].started,
           Timed(new),
           engine'.now = engine.now,
           \/ UNCHANGED lastSeen
           \/ Seen /\ new.recovery = Never,
           \/ new.fired = alerts[r].fired
           \/ \A i \in DOMAIN alerts : i < r /\ SameCheck(alerts[i], alerts[r]) =>
                 new.fired >= alerts[i].resolved + FlapFireDelay
    PROVE  EpisodeInv'
<1>1. alerts \in Seq(AlertRec) /\ DOMAIN alerts = 1 .. Len(alerts) /\ Len(alerts) \in Nat
  BY AlertRows DEF EpisodeInv
<1>2. /\ alerts' \in Seq(AlertRec) /\ DOMAIN alerts' = DOMAIN alerts /\ alerts'[r] = new
      /\ \A i \in DOMAIN alerts : i # r => alerts'[i] = alerts[i]
  <2>1. /\ alerts' \in Seq(AlertRec)
        /\ \A k \in 1 .. Len(alerts) : alerts'[k] = IF k = r THEN new ELSE alerts[k]
    BY <1>1, ExceptSeq
  <2>. QED
    BY <1>1, <2>1
<1>3. new.server = alerts[r].server /\ new.check = alerts[r].check
  BY DEF SameCheck
\* The open episode is the last of its check.
<1>4. \A i \in DOMAIN alerts : i # r /\ SameCheck(alerts[i], alerts[r]) =>
          i < r /\ alerts[i].state = "resolved" /\ alerts[i].resolved <= alerts[r].started
  <2>. SUFFICES ASSUME NEW i \in DOMAIN alerts, i # r, SameCheck(alerts[i], alerts[r])
                PROVE  i < r /\ alerts[i].state = "resolved" /\ alerts[i].resolved <= alerts[r].started
    OBVIOUS
  <2>1. ~(r < i)
    BY DEF EpisodeInv, SameCheck
  <2>2. i < r
    BY <1>1, <2>1
  <2>. QED
    BY <2>2 DEF EpisodeInv
<1>5. ASSUME NEW i \in DOMAIN alerts'
      PROVE  Timed(alerts[i])'
  <2>1. CASE i = r
    <3>1. alerts'[i] = new
      BY <1>2, <2>1
    <3>. QED
      BY <3>1 DEF Timed
  <2>2. CASE i # r
    <3>1. i \in DOMAIN alerts /\ alerts'[i] = alerts[i] /\ Timed(alerts[i])
      BY <1>2, <2>2 DEF EpisodeInv
    <3>2. CASE UNCHANGED lastSeen
      BY <3>1, <3>2 DEF Timed
    <3>3. CASE Seen /\ SameCheck(alerts[i], alerts[r])
      <4>1. alerts[i].recovery = Never
        BY <1>4, <2>2, <3>1, <3>3 DEF Timed
      <4>. QED
        BY <3>1, <4>1 DEF Timed
    <3>4. CASE Seen /\ ~SameCheck(alerts[i], alerts[r])
      <4>1. alerts[i].server \in Servers /\ alerts[i].check \in Checks
        BY <3>1, AlertRows
      <4>2. lastSeen'[alerts[i].server][alerts[i].check] = lastSeen[alerts[i].server][alerts[i].check]
        BY <3>4, <4>1, SeenKeeps DEF SameCheck
      <4>. QED
        BY <3>1, <4>2 DEF Timed
    <3>. QED
      BY <3>2, <3>3, <3>4
  <2>. QED
    BY <2>1, <2>2
<1>6. ASSUME NEW i \in DOMAIN alerts, NEW j \in DOMAIN alerts, i < j, SameCheck(alerts'[i], alerts'[j])
      PROVE  /\ i # r /\ alerts'[i].state = "resolved" /\ alerts'[i].resolved <= alerts'[j].started
             /\ alerts'[j].fired # Never => alerts'[j].fired >= alerts'[i].resolved + FlapFireDelay
  <2>1. i # r
    <3>. SUFFICES ASSUME i = r PROVE FALSE
      OBVIOUS
    <3>1. j # r /\ SameCheck(alerts[j], alerts[r])
      BY <1>1, <1>2, <1>3, <1>6 DEF SameCheck
    <3>2. j < r
      BY <1>4, <3>1
    <3>. QED
      BY <1>1, <1>6, <3>2
  <2>2. CASE j = r
    <3>1. SameCheck(alerts[i], alerts[r])
      BY <1>2, <1>3, <1>6, <2>1, <2>2 DEF SameCheck
    <3>2. alerts'[i] = alerts[i] /\ alerts'[j] = new
      BY <1>2, <2>1, <2>2
    <3>3. alerts[i].state = "resolved" /\ alerts[i].resolved <= alerts[r].started
      BY <1>4, <2>1, <3>1
    <3>4. new.fired # Never => new.fired >= alerts[i].resolved + FlapFireDelay
      BY <1>6, <2>2, <3>1 DEF EpisodeInv, QuietAfterResolve, SameCheck
    <3>. QED
      BY <2>1, <3>2, <3>3, <3>4
  <2>3. CASE j # r
    BY <1>2, <1>6, <2>1, <2>3 DEF EpisodeInv, QuietAfterResolve, SameCheck
  <2>. QED
    BY <2>2, <2>3
<1>. QED
  BY <1>2, <1>5, <1>6 DEF EpisodeInv, QuietAfterResolve, SameCheck
\* What a step of the engine does to the announcements: it may add one.
IntentsGrow ==
    /\ DOMAIN alerts \subseteq DOMAIN alerts'
    /\ \/ UNCHANGED intents
       \/ \E new \in IntentRec :
             new.alert \in DOMAIN alerts /\ ~new.expanded /\ intents' = Append(intents, new)

\* An announcement of episode i.
LEMMA NewIntent ==
    ASSUME NEW i \in Nat, NEW kind \in {"firing", "escalated", "resolved"},
           NEW severity \in {"warning", "critical"}
    PROVE  /\ Intent(i, kind, severity) \in IntentRec
           /\ Intent(i, kind, severity).alert = i /\ ~Intent(i, kind, severity).expanded
<1>1. FALSE \in BOOLEAN
  OBVIOUS
<1>. QED
  BY <1>1 DEF Intent, IntentRec

\* A condition without an episode begins one.
LEMMA CreatePendingStep ==
    ASSUME HealthInv, EngineInv, EpisodeInv, CreatePending
    PROVE  HealthInv' /\ EngineInv' /\ EpisodeInv' /\ IntentsGrow
<1>. DEFINE new == PendingAlert
            s == Current.server
            c == Current.check
<1>1. /\ ~Evaluated /\ UNCHANGED <<clock, telemetry, health, projection, heard>>
      /\ Triggered /\ alerts' = Append(alerts, new) /\ Seen /\ NextCheck /\ UNCHANGED intents
      /\ \A i \in DOMAIN alerts : alerts[i].server = s /\ alerts[i].check = c =>
            alerts[i].state \notin {"pending", "firing"}
  BY NoRecord DEF CreatePending
<1>2. HealthInv' /\ EngineInv' /\ engine'.now = engine.now
  BY <1>1, EngineKept
<1>3. s \in Servers /\ c \in Checks /\ engine.now \in Nat /\ Severity \in {"warning", "critical"}
  BY <1>1, AtCheck, Severities
<1>4. /\ new \in AlertRec /\ new.server = s /\ new.check = c /\ new.state = "pending"
      /\ new.started = engine.now /\ new.fired = Never /\ new.resolved = Never /\ new.recovery = Never
  BY <1>3 DEF PendingAlert, AlertRec, Never
<1>. HIDE DEF new
<1>5. /\ alerts \in Seq(AlertRec) /\ DOMAIN alerts = 1 .. Len(alerts) /\ Len(alerts) \in Nat
      /\ \A i \in DOMAIN alerts : alerts[i] \in AlertRec
  BY AlertRows DEF EpisodeInv
<1>6. /\ alerts' \in Seq(AlertRec) /\ DOMAIN alerts' = 1 .. Len(alerts) + 1
      /\ \A i \in DOMAIN alerts : alerts'[i] = alerts[i]
      /\ alerts'[Len(alerts) + 1] = new
  <2>1. alerts' \in Seq(AlertRec) /\ Len(alerts') = Len(alerts) + 1
    BY <1>1, <1>4, <1>5, AppendProperties
  <2>. QED
    BY <1>1, <1>4, <1>5, <2>1, AppendProperties, LenProperties
<1>7. \A i \in DOMAIN alerts : alerts[i].server = s /\ alerts[i].check = c =>
          alerts[i].state = "resolved" /\ alerts[i].recovery = Never /\ alerts[i].resolved <= engine.now
  <2>1. \A i \in DOMAIN alerts : alerts[i].state \in {"pending", "firing", "resolved"}
    BY <1>5 DEF AlertRec
  <2>. QED
    BY <1>1, <2>1 DEF EpisodeInv, Timed
<1>8. ASSUME NEW i \in DOMAIN alerts'
      PROVE  Timed(alerts[i])'
  <2>1. CASE i = Len(alerts) + 1
    <3>1. alerts'[i] = new
      BY <1>6, <2>1
    <3>. QED
      BY <1>2, <1>3, <1>4, <3>1 DEF Timed, Never
  <2>2. CASE i # Len(alerts) + 1
    <3>1. i \in DOMAIN alerts /\ alerts'[i] = alerts[i] /\ Timed(alerts[i])
      BY <1>5, <1>6, <2>2 DEF EpisodeInv
    <3>2. CASE alerts[i].server = s /\ alerts[i].check = c
      BY <1>2, <1>7, <3>1, <3>2 DEF Timed
    <3>3. CASE ~(alerts[i].server = s /\ alerts[i].check = c)
      <4>1. alerts[i].server \in Servers /\ alerts[i].check \in Checks
        BY <3>1, AlertRows
      <4>2. lastSeen'[alerts[i].server][alerts[i].check] = lastSeen[alerts[i].server][alerts[i].check]
        BY <1>1, <3>3, <4>1, SeenKeeps
      <4>. QED
        BY <1>2, <3>1, <4>2 DEF Timed
    <3>. QED
      BY <3>2, <3>3
  <2>. QED
    BY <2>1, <2>2
<1>9. ASSUME NEW i \in DOMAIN alerts', NEW j \in DOMAIN alerts', i < j, SameCheck(alerts'[i], alerts'[j])
      PROVE  /\ alerts'[i].state = "resolved" /\ alerts'[i].resolved <= alerts'[j].started
             /\ alerts'[j].fired # Never => alerts'[j].fired >= alerts'[i].resolved + FlapFireDelay
  <2>1. i \in DOMAIN alerts /\ alerts'[i] = alerts[i]
    BY <1>5, <1>6, <1>9
  <2>2. CASE j = Len(alerts) + 1
    <3>1. alerts'[j] = new
      BY <1>6, <2>2
    <3>2. alerts[i].server = s /\ alerts[i].check = c
      BY <1>4, <1>9, <2>1, <3>1 DEF SameCheck
    <3>. QED
      BY <1>4, <1>7, <2>1, <3>1, <3>2
  <2>3. CASE j # Len(alerts) + 1
    <3>1. j \in DOMAIN alerts /\ alerts'[j] = alerts[j]
      BY <1>5, <1>6, <2>3
    <3>. QED
      BY <1>9, <2>1, <3>1 DEF EpisodeInv, QuietAfterResolve, SameCheck
  <2>. QED
    BY <2>2, <2>3
<1>10. EpisodeInv'
  BY <1>6, <1>8, <1>9 DEF EpisodeInv, QuietAfterResolve, SameCheck
<1>11. IntentsGrow
  BY <1>1, <1>5, <1>6 DEF IntentsGrow
<1>. QED
  BY <1>2, <1>10, <1>11

\* Nothing is wrong and nothing was.
LEMMA NothingToDoStep ==
    ASSUME HealthInv, EngineInv, EpisodeInv, NothingToDo
    PROVE  HealthInv' /\ EngineInv' /\ EpisodeInv' /\ IntentsGrow
<1>1. /\ ~Evaluated /\ UNCHANGED <<clock, telemetry, health, projection, heard>>
      /\ NextCheck /\ UNCHANGED <<alerts, intents, lastSeen>>
  BY NoRecord DEF NothingToDo
<1>2. HealthInv' /\ EngineInv' /\ engine'.now = engine.now
  BY <1>1, EngineKept
<1>3. EpisodeInv'
  BY <1>1, <1>2, TodoRows, LaterEngine
<1>. QED
  BY <1>1, <1>2, <1>3 DEF IntentsGrow

\* What holds of the record of an open episode.
LEMMA RecordFacts ==
    ASSUME EngineInv, EpisodeInv, Evaluating(TRUE)
    PROVE  /\ ~Evaluated /\ Record \in DOMAIN alerts /\ Record \in Nat
           /\ alerts[Record] \in AlertRec /\ Timed(alerts[Record])
           /\ alerts[Record].server = Current.server /\ alerts[Record].check = Current.check
           /\ alerts[Record].state \in {"pending", "firing"}
           /\ alerts[Record].severity \in {"warning", "critical"}
           /\ engine.now \in Nat /\ engine.now >= 1
           /\ alerts[Record].started \in Nat /\ alerts[Record].recovery \in Nat
           /\ lastSeen[Current.server][Current.check] <= engine.now
           /\ UNCHANGED <<clock, telemetry, health, projection, heard>>
<1>1. /\ ~Evaluated /\ Record \in DOMAIN alerts
      /\ alerts[Record].server = Current.server /\ alerts[Record].check = Current.check
      /\ alerts[Record].state \in {"pending", "firing"}
      /\ UNCHANGED <<clock, telemetry, health, projection, heard>>
  BY TheRecord
<1>2. alerts[Record] \in AlertRec /\ Record \in Nat /\ Timed(alerts[Record])
      /\ alerts[Record].started \in Nat /\ alerts[Record].recovery \in Nat
  BY <1>1, AlertRows DEF EpisodeInv
<1>3. alerts[Record].severity \in {"warning", "critical"}
  BY <1>2 DEF AlertRec
<1>4. engine.now \in Nat /\ engine.now >= 1 /\ Current.server \in Servers /\ Current.check \in Checks
  BY <1>1, AtCheck
<1>. QED
  BY <1>1, <1>2, <1>3, <1>4 DEF EngineInv

\* A condition that is gone: the episode is resolved, or its recovery begins.
LEMMA RecoverIfNeededStep ==
    ASSUME HealthInv, EngineInv, EpisodeInv, RecoverIfNeeded
    PROVE  HealthInv' /\ EngineInv' /\ EpisodeInv' /\ IntentsGrow
<1>. DEFINE r == Record
            old == alerts[r]
            over == [old EXCEPT !.state = "resolved", !.resolved = engine.now, !.recovery = Never]
            ending == [old EXCEPT !.recovery = IF old.recovery = Never THEN engine.now ELSE old.recovery]
<1>1. Evaluating(TRUE) /\ NextCheck /\ UNCHANGED lastSeen /\ (ResolveIfActive \/ StartRecovery)
  BY DEF RecoverIfNeeded
<1>2. /\ ~Evaluated /\ r \in DOMAIN alerts /\ r \in Nat /\ old \in AlertRec /\ Timed(old)
      /\ old.server = Current.server /\ old.check = Current.check
      /\ old.state \in {"pending", "firing"} /\ old.severity \in {"warning", "critical"}
      /\ engine.now \in Nat /\ engine.now >= 1 /\ old.started \in Nat /\ old.recovery \in Nat
      /\ lastSeen[Current.server][Current.check] <= engine.now
      /\ UNCHANGED <<clock, telemetry, health, projection, heard>>
  BY <1>1, RecordFacts
<1>3. HealthInv' /\ EngineInv' /\ engine'.now = engine.now
  BY <1>1, <1>2, EngineKept
<1>4. CASE ResolveIfActive
  <2>1. alerts' = [alerts EXCEPT ![r] = over]
    BY <1>4 DEF ResolveIfActive
  <2>2. /\ over \in AlertRec /\ over.state = "resolved" /\ over.resolved = engine.now
        /\ over.recovery = Never /\ over.server = old.server /\ over.check = old.check
        /\ over.started = old.started /\ over.fired = old.fired
    BY <1>2 DEF AlertRec, Never
  <2>. HIDE DEF over, old, r
  <2>3. SameCheck(over, old) /\ Timed(over)
    BY <1>2, <2>2 DEF SameCheck, Timed, Never
  <2>4. EpisodeInv'
    BY <1>1, <1>2, <1>3, <2>1, <2>2, <2>3, EpisodeMoves DEF old
  <2>5. DOMAIN alerts' = DOMAIN alerts
    BY <2>1
  <2>6. UNCHANGED intents \/ intents' = Append(intents, Intent(r, "resolved", old.severity))
    BY <1>4 DEF ResolveIfActive, r, old
  <2>7. IntentsGrow
    <3>1. Intent(r, "resolved", old.severity) \in IntentRec
          /\ Intent(r, "resolved", old.severity).alert = r
          /\ ~Intent(r, "resolved", old.severity).expanded
      BY <1>2, NewIntent
    <3>. HIDE DEF Intent
    <3>. QED
      BY <1>2, <2>5, <2>6, <3>1 DEF IntentsGrow
  <2>. QED
    BY <1>3, <2>4, <2>7
<1>5. CASE StartRecovery
  <2>1. alerts' = [alerts EXCEPT ![r] = ending] /\ UNCHANGED intents
    BY <1>5 DEF StartRecovery
  <2>2. /\ ending \in AlertRec /\ ending.state = old.state /\ ending.resolved = old.resolved
        /\ ending.server = old.server /\ ending.check = old.check
        /\ ending.started = old.started /\ ending.fired = old.fired
        /\ ending.recovery = IF old.recovery = Never THEN engine.now ELSE old.recovery
    BY <1>2 DEF AlertRec
  <2>. HIDE DEF ending, old, r
  <2>3. SameCheck(ending, old) /\ Timed(ending)
    BY <1>2, <2>2 DEF SameCheck, Timed, Never
  <2>4. EpisodeInv'
    BY <1>1, <1>2, <1>3, <2>1, <2>2, <2>3, EpisodeMoves DEF old
  <2>5. DOMAIN alerts' = DOMAIN alerts
    BY <2>1
  <2>. QED
    BY <1>3, <2>1, <2>4, <2>5 DEF IntentsGrow
<1>. QED
  BY <1>1, <1>4, <1>5

\* A condition that is back ends the recovery.
LEMMA ClearRecoveryStep ==
    ASSUME HealthInv, EngineInv, EpisodeInv, ClearRecovery
    PROVE  HealthInv' /\ EngineInv' /\ EpisodeInv' /\ IntentsGrow
<1>. DEFINE r == Record
            old == alerts[r]
            new == [old EXCEPT !.recovery = Never]
<1>1. Evaluating(TRUE) /\ Seen /\ UNCHANGED <<intents, engine>>
  BY DEF ClearRecovery
<1>2. /\ ~Evaluated /\ r \in DOMAIN alerts /\ old \in AlertRec /\ Timed(old)
      /\ old.server = Current.server /\ old.check = Current.check
      /\ old.state \in {"pending", "firing"}
      /\ engine.now \in Nat
      /\ UNCHANGED <<clock, telemetry, health, projection, heard>>
  BY <1>1, RecordFacts
<1>3. HealthInv' /\ EngineInv' /\ engine'.now = engine.now
  BY <1>1, <1>2, EngineKept
<1>4. alerts' = [alerts EXCEPT ![r] = new]
  BY DEF ClearRecovery
<1>5. /\ new \in AlertRec /\ new.state = old.state /\ new.resolved = old.resolved
      /\ new.recovery = Never /\ new.server = old.server /\ new.check = old.check
      /\ new.started = old.started /\ new.fired = old.fired
  BY <1>2 DEF AlertRec, Never
<1>. HIDE DEF new, old, r
<1>6. SameCheck(new, old) /\ Timed(new)
  BY <1>2, <1>5 DEF SameCheck, Timed, Never
<1>7. EpisodeInv'
  BY <1>1, <1>2, <1>3, <1>4, <1>5, <1>6, EpisodeMoves DEF old
<1>8. DOMAIN alerts' = DOMAIN alerts
  BY <1>4
<1>. QED
  BY <1>1, <1>3, <1>7, <1>8 DEF IntentsGrow

\* The severity follows the condition.
LEMMA ChangeSeverityStep ==
    ASSUME HealthInv, EngineInv, EpisodeInv, ChangeSeverity
    PROVE  HealthInv' /\ EngineInv' /\ EpisodeInv' /\ IntentsGrow
<1>. DEFINE r == Record
            old == alerts[r]
            new == [old EXCEPT !.severity = Severity, !.recovery = Never]
<1>1. Evaluating(TRUE) /\ Seen /\ Triggered /\ UNCHANGED engine
  BY DEF ChangeSeverity
<1>2. /\ ~Evaluated /\ r \in DOMAIN alerts /\ r \in Nat /\ old \in AlertRec /\ Timed(old)
      /\ old.server = Current.server /\ old.check = Current.check
      /\ old.state \in {"pending", "firing"}
      /\ engine.now \in Nat
      /\ UNCHANGED <<clock, telemetry, health, projection, heard>>
  BY <1>1, RecordFacts
<1>3. HealthInv' /\ EngineInv' /\ engine'.now = engine.now
  BY <1>1, <1>2, EngineKept
<1>4. alerts' = [alerts EXCEPT ![r] = new]
  BY DEF ChangeSeverity
<1>5. Severity \in {"warning", "critical"}
  BY <1>1, Severities
<1>6. /\ new \in AlertRec /\ new.state = old.state /\ new.resolved = old.resolved
      /\ new.recovery = Never /\ new.server = old.server /\ new.check = old.check
      /\ new.started = old.started /\ new.fired = old.fired
  BY <1>2, <1>5 DEF AlertRec, Never
<1>7. UNCHANGED intents \/ intents' = Append(intents, Intent(r, "escalated", Severity))
  BY DEF ChangeSeverity
<1>. HIDE DEF new, old, r
<1>8. SameCheck(new, old) /\ Timed(new)
  BY <1>2, <1>6 DEF SameCheck, Timed, Never
<1>9. EpisodeInv'
  BY <1>1, <1>2, <1>3, <1>4, <1>6, <1>8, EpisodeMoves DEF old
<1>10. DOMAIN alerts' = DOMAIN alerts
  BY <1>4
<1>11. /\ Intent(r, "escalated", Severity) \in IntentRec
       /\ Intent(r, "escalated", Severity).alert = r /\ ~Intent(r, "escalated", Severity).expanded
  BY <1>2, <1>5, NewIntent
<1>12. IntentsGrow
  BY <1>2, <1>7, <1>10, <1>11 DEF IntentsGrow
<1>. QED
  BY <1>3, <1>9, <1>12

\* The end of the last episode of a check is not before the end of any.
LEMMA LastEnd ==
    ASSUME EngineInv, EpisodeInv, NEW s \in Servers, NEW c \in Checks, NEW i \in DOMAIN alerts,
           alerts[i].server = s, alerts[i].check = c, alerts[i].state = "resolved"
    PROVE  LastResolvedAt(s, c) \in Nat /\ alerts[i].resolved <= LastResolvedAt(s, c)
<1>. DEFINE over == {j \in DOMAIN alerts :
                       alerts[j].server = s /\ alerts[j].check = c /\ alerts[j].state = "resolved"}
            times == {alerts[j].resolved : j \in over}
<1>1. \A j \in DOMAIN alerts : alerts[j].resolved \in Nat /\ alerts[j].resolved <= engine.now
  BY AlertRows DEF EpisodeInv, Timed, AlertRec
<1>2. alerts[i].resolved \in times
  OBVIOUS
<1>3. times \in SUBSET Nat /\ times # {} /\ \A t \in times : t <= engine.now
  BY <1>1, <1>2
<1>4. LastResolvedAt(s, c) = CHOOSE t \in times : \A u \in times : u <= t
  BY <1>3 DEF LastResolvedAt
<1>5. engine.now \in Nat
  BY TodoRows
<1>. HIDE DEF times
<1>6. \E t \in times : \A u \in times : u <= t
  BY <1>3, <1>5, GreatestNumber, Zenon
<1>7. LastResolvedAt(s, c) \in times /\ \A u \in times : u <= LastResolvedAt(s, c)
  BY <1>4, <1>6
<1>. QED
  BY <1>2, <1>3, <1>7

\* An episode that is due leaves the flap delay to the ones before.
LEMMA DueIsQuiet ==
    ASSUME EngineInv, EpisodeInv, Evaluating(TRUE), FireDue,
           NEW i \in DOMAIN alerts, i < Record, SameCheck(alerts[i], alerts[Record])
    PROVE  engine.now >= alerts[i].resolved + FlapFireDelay
<1>. DEFINE old == alerts[Record]
            last == LastResolvedAt(old.server, old.check)
            base == FireAfter(Severity)
<1>1. /\ Record \in DOMAIN alerts /\ old.started \in Nat /\ engine.now \in Nat
      /\ old.server \in Servers /\ old.check \in Checks
  BY RecordFacts, AlertRows
<1>2. /\ alerts[i].state = "resolved" /\ alerts[i].resolved <= old.started
      /\ alerts[i].resolved \in Nat /\ alerts[i].resolved >= 1
      /\ alerts[i].server = old.server /\ alerts[i].check = old.check
  BY <1>1, AlertRows DEF EpisodeInv, Timed, SameCheck, AlertRec
<1>3. last \in Nat /\ alerts[i].resolved <= last
  BY <1>1, <1>2, LastEnd
<1>4. engine.now >= old.started + effectiveFireDelay(base, old.started, last)
  BY DEF FireDue
<1>5. base \in Nat /\ base >= 1
  BY Delays DEF FireAfter
<1>. HIDE DEF base, last, old
<1>6. CASE old.started < last + FlapWindow /\ base < FlapFireDelay
  <2>1. effectiveFireDelay(base, old.started, last) = FlapFireDelay
    BY <1>2, <1>3, <1>6 DEF effectiveFireDelay, Never
  <2>. QED
    BY <1>1, <1>2, <1>4, <2>1, Delays
<1>7. CASE ~(old.started < last + FlapWindow /\ base < FlapFireDelay)
  <2>1. effectiveFireDelay(base, old.started, last) = base
    BY <1>7 DEF effectiveFireDelay
  <2>2. CASE base >= FlapFireDelay
    BY <1>1, <1>2, <1>4, <1>5, <2>1, <2>2, Delays
  <2>3. CASE old.started >= last + FlapWindow
    BY <1>1, <1>2, <1>3, <1>4, <1>5, <2>1, <2>3, Delays
  <2>. QED
    BY <1>1, <1>3, <1>5, <1>7, <2>2, <2>3, Delays
<1>. QED
  BY <1>6, <1>7

\* An episode fires, or its condition is noted.
LEMMA FireOrTouchStep ==
    ASSUME HealthInv, EngineInv, EpisodeInv, FireOrTouch
    PROVE  HealthInv' /\ EngineInv' /\ EpisodeInv' /\ IntentsGrow
<1>. DEFINE r == Record
            old == alerts[r]
            new == [old EXCEPT !.state = "firing", !.fired = engine.now, !.recovery = Never]
            note == Intent(r, "firing", old.severity)
<1>1. Evaluating(TRUE) /\ Seen /\ NextCheck /\ ~Recovering
  BY DEF FireOrTouch
<1>2. /\ ~Evaluated /\ r \in DOMAIN alerts /\ r \in Nat /\ old \in AlertRec /\ Timed(old)
      /\ old.server = Current.server /\ old.check = Current.check
      /\ old.state \in {"pending", "firing"} /\ old.severity \in {"warning", "critical"}
      /\ engine.now \in Nat
      /\ UNCHANGED <<clock, telemetry, health, projection, heard>>
  BY <1>1, RecordFacts
<1>3. HealthInv' /\ EngineInv' /\ engine'.now = engine.now
  BY <1>1, <1>2, EngineKept
<1>4. CASE FireDue
  <2>1. alerts' = [alerts EXCEPT ![r] = new] /\ intents' = Append(intents, note)
    BY <1>4 DEF FireOrTouch
  <2>2. /\ new \in AlertRec /\ new.state = "firing" /\ new.resolved = old.resolved
        /\ new.recovery = Never /\ new.server = old.server /\ new.check = old.check
        /\ new.started = old.started /\ new.fired = engine.now
    BY <1>2 DEF AlertRec, Never
  <2>3. note \in IntentRec /\ note.alert = r /\ ~note.expanded
    BY <1>2, NewIntent
  <2>4. \A i \in DOMAIN alerts : i < r /\ SameCheck(alerts[i], old) =>
            engine.now >= alerts[i].resolved + FlapFireDelay
    BY <1>1, <1>4, DueIsQuiet
  <2>. HIDE DEF new, old, r, note
  <2>5. SameCheck(new, old) /\ Timed(new)
    BY <1>2, <2>2 DEF SameCheck, Timed, Never
  <2>6. EpisodeInv'
    BY <1>1, <1>2, <1>3, <2>1, <2>2, <2>4, <2>5, EpisodeMoves DEF old
  <2>7. DOMAIN alerts' = DOMAIN alerts
    BY <2>1
  <2>. QED
    BY <1>2, <1>3, <2>1, <2>3, <2>6, <2>7 DEF IntentsGrow
<1>5. CASE ~FireDue
  <2>1. UNCHANGED <<alerts, intents>>
    BY <1>5 DEF FireOrTouch
  <2>2. alerts' = [alerts EXCEPT ![r] = old]
    BY <2>1, <1>2, AlertRows DEF EpisodeInv
  <2>3. SameCheck(old, old) /\ old.recovery = Never
    BY <1>1 DEF SameCheck, Recovering
  <2>4. old.state # "resolved"
    BY <1>2
  <2>. HIDE DEF old, r
  <2>5. EpisodeInv'
    BY <1>1, <1>2, <1>3, <2>2, <2>3, <2>4, EpisodeMoves DEF old
  <2>. QED
    BY <1>3, <2>1, <2>5 DEF IntentsGrow
<1>. QED
  BY <1>4, <1>5

\* An evaluation is given up.
LEMMA AbandonEvaluationStep ==
    ASSUME HealthInv, EngineInv, EpisodeInv, AbandonEvaluation
    PROVE  HealthInv' /\ EngineInv' /\ EpisodeInv' /\ IntentsGrow
<1>1. /\ engine' = [engine EXCEPT !.todo = <<>>]
      /\ UNCHANGED <<clock, telemetry, health, projection, alerts, intents, heard, lastSeen>>
  BY DEF AbandonEvaluation
<1>2. /\ engine' \in [now : Nat, todo : Seq(CheckRow)] /\ engine'.now = engine.now
      /\ engine'.todo = <<>> /\ engine.now \in Nat
  <2>. DEFINE none == <<>>
  <2>1. none \in Seq(CheckRow)
    BY EmptySeq
  <2>2. engine' = [engine EXCEPT !.todo = none]
    BY <1>1
  <2>. HIDE DEF none
  <2>3. engine' \in [now : Nat, todo : Seq(CheckRow)] /\ engine'.now = engine.now
        /\ engine'.todo = none /\ engine.now \in Nat
    BY <2>1, <2>2 DEF EngineInv
  <2>. QED
    BY <2>3 DEF none
<1>3. DOMAIN engine'.todo = {}
  BY <1>2
<1>4. UNCHANGED <<clock, telemetry, health, projection, alerts, intents, heard, lastSeen>>
  BY <1>1
<1>. HIDE <1>1
<1>5. HealthInv'
  BY <1>4 DEF HealthInv
<1>6. EngineInv'
  BY <1>2, <1>3, <1>4 DEF EngineInv
<1>7. EpisodeInv'
  BY <1>2, <1>4, <1>6, LaterEngine
<1>. QED
  BY <1>4, <1>5, <1>6, <1>7 DEF IntentsGrow

\* Steps of the engine.
LEMMA EngineStep ==
    ASSUME HealthInv, EngineInv, EpisodeInv, OfEngine
    PROVE  HealthInv' /\ EngineInv' /\ EpisodeInv' /\ IntentsGrow
<1>1. \/ AbandonEvaluation \/ BeginEvaluation \/ CreatePending \/ NothingToDo
      \/ RecoverIfNeeded \/ ClearRecovery \/ ChangeSeverity \/ FireOrTouch
  BY DEF OfEngine
<1>2. CASE BeginEvaluation
  <2>1. UNCHANGED <<alerts, intents>>
    BY <1>2 DEF BeginEvaluation
  <2>. QED
    BY <1>2, <2>1, BeginEvaluationStep DEF IntentsGrow
<1>. QED
  BY <1>1, <1>2, AbandonEvaluationStep, CreatePendingStep, NothingToDoStep,
     RecoverIfNeededStep, ClearRecoveryStep, ChangeSeverityStep, FireOrTouchStep

\* Steps of the clock, of the Agents and of the health worker.
LEMMA HealthStep ==
    ASSUME HealthInv, EngineInv, EpisodeInv, Tick \/ OfHealth
    PROVE  HealthInv' /\ EngineInv' /\ EpisodeInv' /\ IntentsGrow
<1>1. Tick \/ (\E s \in Servers : Report(s)) \/ BeginProjection
      \/ (\E s \in Servers : ApplyChecks(s)) \/ AbandonProjection
  BY DEF OfHealth
<1>2. HealthInv' /\ EngineInv'
  BY <1>1, TickStep, ReportStep, BeginProjectionStep, ApplyChecksStep, AbandonProjectionStep
<1>3. UNCHANGED <<engine, alerts, intents, lastSeen>>
  BY <1>1 DEF Tick, Report, BeginProjection, ApplyChecks, AbandonProjection
<1>4. EpisodeInv'
  BY <1>3, LaterEngine, TodoRows
<1>. QED
  BY <1>2, <1>3, <1>4 DEF IntentsGrow

\* Steps of the others leave health, engine and episodes alone.
LEMMA AlertingKept ==
    ASSUME HealthInv, EngineInv, EpisodeInv,
           UNCHANGED <<clock, telemetry, health, projection, engine, alerts, heard, lastSeen>>
    PROVE  HealthInv' /\ EngineInv' /\ EpisodeInv'
<1>1. HealthInv'
  BY DEF HealthInv
<1>2. EngineInv'
  BY DEF EngineInv
<1>3. EpisodeInv'
  BY LaterEngine, TodoRows
<1>. QED
  BY <1>1, <1>2, <1>3

(***************************************************************************)
(* Announcements                                                           *)
(***************************************************************************)
\* The announcements and the deliveries, as sequences.
LEMMA IntentRows ==
    ASSUME IntentInv
    PROVE  /\ intents \in Seq(IntentRec) /\ Len(intents) \in Nat /\ DOMAIN intents = 1 .. Len(intents)
           /\ \A i \in DOMAIN intents : intents[i] \in IntentRec
<1>1. intents \in Seq(IntentRec)
  BY DEF IntentInv
<1>. QED
  BY <1>1, ElementOfSeq, LenProperties

\* Who was to hear of an announcement stays on record.
LEMMA AudienceKept ==
    ASSUME IntentInv, NoteAudience, DOMAIN intents \subseteq DOMAIN intents'
    PROVE  /\ audience' = [i \in DOMAIN intents' |-> audience'[i]]
           /\ \A i \in DOMAIN intents : audience'[i] = audience[i]
           /\ \A i \in DOMAIN intents' : i \notin DOMAIN intents => audience'[i] = recipients
  BY DEF IntentInv, NoteAudience

\* An announcement that is added disturbs nothing.
LEMMA Announced ==
    ASSUME PairingInv, IntentInv, DeliveryInv, ExpansionInv, IntentsGrow, NoteAudience,
           UNCHANGED <<pairingVars, notifyVars>>
    PROVE  PairingInv' /\ IntentInv' /\ DeliveryInv' /\ ExpansionInv'
<1>1. UNCHANGED <<sessions, updates, nextUpdate, poll, recipients, contacts, used, paired>>
      /\ UNCHANGED <<expansion, deliveries, links>>
  BY DEF pairingVars, notifyVars
<1>2. PairingInv'
  BY <1>1 DEF PairingInv, Tables, Referenced, ConfirmedTo
<1>3. intents \in Seq(IntentRec) /\ Len(intents) \in Nat /\ DOMAIN intents = 1 .. Len(intents)
  BY IntentRows
<1>4. /\ intents' \in Seq(IntentRec) /\ DOMAIN intents \subseteq DOMAIN intents'
      /\ \A i \in DOMAIN intents : intents'[i] = intents[i]
      /\ \A i \in DOMAIN intents' : i \notin DOMAIN intents =>
            intents'[i].alert \in DOMAIN alerts /\ ~intents'[i].expanded
  <2>1. CASE UNCHANGED intents
    BY <1>3, <2>1
  <2>2. CASE ~UNCHANGED intents
    <3>1. PICK new \in IntentRec :
             new.alert \in DOMAIN alerts /\ ~new.expanded /\ intents' = Append(intents, new)
      BY <2>2 DEF IntentsGrow
    <3>2. /\ intents' \in Seq(IntentRec) /\ Len(intents') = Len(intents) + 1
          /\ \A i \in 1 .. Len(intents) : intents'[i] = intents[i]
          /\ intents'[Len(intents) + 1] = new
      BY <1>3, <3>1, AppendProperties
    <3>3. DOMAIN intents' = 1 .. Len(intents) + 1
      BY <3>2, LenProperties
    <3>. QED
      BY <1>3, <3>1, <3>2, <3>3
  <2>. QED
    BY <2>1, <2>2
<1>5. /\ audience' = [i \in DOMAIN intents' |-> audience'[i]]
      /\ \A i \in DOMAIN intents : audience'[i] = audience[i]
      /\ \A i \in DOMAIN intents' : i \notin DOMAIN intents => audience'[i] = recipients
  BY <1>4, AudienceKept
<1>6. \A i \in DOMAIN intents' : intents'[i].alert \in DOMAIN alerts'
  BY <1>4 DEF IntentInv, IntentsGrow
<1>7. recipients \subseteq RecipientRec /\ \A r \in recipients : r.id <= used
  BY DEF PairingInv, Tables, PairState, Referenced
<1>8. IntentInv'
  BY <1>1, <1>4, <1>5, <1>6, <1>7 DEF IntentInv
<1>9. DeliveryInv'
  BY <1>1, <1>4 DEF DeliveryInv
<1>10. \A i, r : HasDelivery(i, r)' <=> HasDelivery(i, r)
  BY <1>1 DEF HasDelivery
<1>11. NextRecipient' = NextRecipient
  BY <1>1 DEF NextRecipient
<1>12. ExpansionInv'
  BY <1>1, <1>4, <1>5, <1>10, <1>11 DEF ExpansionInv
<1>. QED
  BY <1>2, <1>8, <1>9, <1>12

(***************************************************************************)
(* Pairing                                                                 *)
(***************************************************************************)
\* What the tables hold, of the variables themselves.
LEMMA TableRows ==
    ASSUME PairingInv
    PROVE  /\ sessions \in [Sessions -> SessionRec] /\ recipients \subseteq RecipientRec /\ used \in Nat
           /\ contacts \in [Accounts -> Nat] /\ paired \subseteq Sessions \X Chats
           /\ \A r \in recipients : r.id \in 1 .. used
           /\ updates \in Seq([chat : Chats, session : Sessions])
           /\ Len(updates) \in Nat /\ DOMAIN updates = 1 .. Len(updates)
           /\ \A m \in DOMAIN updates : updates[m].chat \in Chats /\ updates[m].session \in Sessions
<1>1. updates \in Seq([chat : Chats, session : Sessions])
  BY DEF PairingInv
<1>2. \A m \in DOMAIN updates : updates[m] \in [chat : Chats, session : Sessions]
  BY <1>1, ElementOfSeq, LenProperties
<1>3. Len(updates) \in Nat /\ DOMAIN updates = 1 .. Len(updates)
  BY <1>1, LenProperties
<1>4. /\ sessions \in [Sessions -> SessionRec] /\ recipients \subseteq RecipientRec /\ used \in Nat
      /\ contacts \in [Accounts -> Nat] /\ paired \subseteq Sessions \X Chats
      /\ \A r \in recipients : r.id \in 1 .. used
  BY DEF PairingInv, Tables, PairState, Referenced
<1>. QED
  BY <1>1, <1>2, <1>3, <1>4

\* Recipients come with new identifiers, and go: no announcement is wronged.
LEMMA RecipientsChange ==
    ASSUME IntentInv, DeliveryInv, ExpansionInv, NoteAudience, UNCHANGED <<alerts, intents, notifyVars>>,
           used \in Nat, used' \in Nat, used <= used',
           \A r \in recipients' : r \in recipients \/ ~(r.id <= used)
    PROVE  IntentInv' /\ DeliveryInv' /\ ExpansionInv'
<1>1. UNCHANGED <<alerts, intents, expansion, deliveries, links>>
  BY DEF notifyVars
<1>2. audience' = [i \in DOMAIN intents |-> audience'[i]]
      /\ \A i \in DOMAIN intents : audience'[i] = audience[i]
  BY <1>1, AudienceKept
<1>3. \A i \in DOMAIN intents : \A r \in audience[i] : r.id <= used /\ r.id \in Nat
  BY DEF IntentInv, RecipientRec
<1>4. IntentInv'
  BY <1>1, <1>2, <1>3 DEF IntentInv
<1>5. DeliveryInv'
  BY <1>1 DEF DeliveryInv
<1>6. \A i, r : HasDelivery(i, r)' <=> HasDelivery(i, r)
  BY <1>1 DEF HasDelivery
<1>7. NextRecipient' = NextRecipient
  BY <1>1 DEF NextRecipient
<1>8. \A i \in DOMAIN intents : \A r \in audience'[i] \cap recipients' : r \in audience[i] \cap recipients
  BY <1>2, <1>3
<1>9. ExpansionInv'
  <2>1. \A i \in DOMAIN intents' : intents'[i].expanded =>
            \A r \in audience'[i] \cap recipients' : HasDelivery(i, r.id)' /\ <<i, r.id>> \in links'
    BY <1>1, <1>6, <1>8 DEF ExpansionInv
  <2>2. expansion # NoExpansion =>
            /\ expansion.intent \in DOMAIN intents
            /\ expansion \in [intent : Nat, listed : {FALSE}]
                  \cup [intent : Nat, listed : {TRUE}, created : BOOLEAN, todo : SUBSET RecipientRec]
    BY DEF ExpansionInv
  <2>3. expansion # NoExpansion /\ expansion.listed =>
            \A r \in audience'[expansion.intent] \cap recipients' :
                r \in expansion.todo
                \/ (HasDelivery(expansion.intent, r.id)' /\ <<expansion.intent, r.id>> \in links)
    BY <1>1, <1>6, <1>8, <2>2 DEF ExpansionInv
  <2>4. 1 .. used \subseteq 1 .. used'
    OBVIOUS
  <2>5. expansion # NoExpansion /\ expansion.listed =>
            /\ \A r \in expansion.todo : r.id \in 1 .. used'
            /\ expansion.created /\ expansion.todo # {} =>
                  HasDelivery(expansion.intent, NextRecipient.id)
    BY <2>4 DEF ExpansionInv
  <2>. QED
    BY <1>1, <1>6, <1>7, <2>1, <2>2, <2>3, <2>5 DEF ExpansionInv
<1>. QED
  BY <1>4, <1>5, <1>9

\* A session is rewritten, without a new recipient.
LEMMA SessionMoves ==
    ASSUME PairingInv, NEW k \in Sessions, NEW new \in SessionRec,
           sessions' = [sessions EXCEPT ![k] = new],
           UNCHANGED <<updates, nextUpdate, poll, recipients, contacts, used, paired>>,
           new.status # "none", new.recipient \in {NoRecipient, sessions[k].recipient},
           new.status = "started" => sessions[k].status = "none",
           sessions[k].status = "expired" => new.status = "expired"
    PROVE  PairingInv'
<1>1. sessions \in [Sessions -> SessionRec]
      /\ \A m \in DOMAIN updates : updates[m].session \in Sessions
      /\ DOMAIN updates = 1 .. Len(updates) /\ Len(updates) \in Nat
  BY TableRows
<1>2. /\ sessions' \in [Sessions -> SessionRec] /\ sessions'[k] = new
      /\ \A j \in Sessions : j # k => sessions'[j] = sessions[j]
  BY <1>1
<1>3. \A j \in Sessions : sessions'[j].recipient \in {NoRecipient, sessions[j].recipient}
  BY <1>2
<1>4. Tables' \in PairState
  BY <1>2 DEF PairingInv, Tables, PairState
<1>5. Referenced(Tables)'
  BY <1>3 DEF PairingInv, Tables, Referenced
<1>6. \A m \in DOMAIN updates : sessions'[updates[m].session].status # "none"
  BY <1>1, <1>2 DEF PairingInv
<1>7. \A m \in DOMAIN updates : sessions'[updates[m].session].status = "started" =>
          sessions[updates[m].session].status = "started"
  BY <1>1, <1>2 DEF PairingInv
<1>8. ConfirmedTo(Tables, nextUpdate - 1)'
  <2>1. \A m \in 1 .. nextUpdate - 1 : m \in DOMAIN updates
    BY <1>1 DEF PairingInv
  <2>. QED
    BY <1>7, <2>1 DEF PairingInv, Tables, ConfirmedTo
<1>9. poll # NoPoll => \A j \in poll.expired : sessions'[j].status = "expired"
  BY <1>2 DEF PairingInv
<1>. QED
  BY <1>4, <1>5, <1>6, <1>8, <1>9 DEF PairingInv

\* A session is started, or its time is over.
LEMMA SessionStep ==
    ASSUME PairingInv, NEW k \in Sessions, StartPairing(k) \/ ExpirePairing(k)
    PROVE  PairingInv'
<1>1. sessions \in [Sessions -> SessionRec]
  BY TableRows
<1>2. CASE StartPairing(k)
  <2>1. PICK account \in Accounts \cup {"none"} :
           sessions' = [sessions EXCEPT ![k] = PairingSession("started", account)]
    BY <1>2 DEF StartPairing
  <2>. DEFINE new == PairingSession("started", account)
  <2>2. new \in SessionRec /\ new.status = "started" /\ new.recipient = NoRecipient
    BY DEF PairingSession, SessionRec, NoRecipient
  <2>3. /\ sessions[k].status = "none"
        /\ UNCHANGED <<updates, nextUpdate, poll, recipients, contacts, used, paired>>
    BY <1>2 DEF StartPairing
  <2>4. sessions' = [sessions EXCEPT ![k] = new]
    BY <2>1
  <2>. HIDE DEF new
  <2>. QED
    BY <2>2, <2>3, <2>4, SessionMoves
<1>3. CASE ExpirePairing(k)
  <2>. DEFINE new == [sessions[k] EXCEPT !.status = "expired"]
  <2>1. new \in SessionRec /\ new.status = "expired" /\ new.recipient = sessions[k].recipient
    BY <1>1 DEF SessionRec
  <2>2. /\ sessions[k].status = "started" /\ sessions' = [sessions EXCEPT ![k] = new]
        /\ UNCHANGED <<updates, nextUpdate, poll, recipients, contacts, used, paired>>
    BY <1>3 DEF ExpirePairing
  <2>. HIDE DEF new
  <2>. QED
    BY <2>1, <2>2, SessionMoves
<1>. QED
  BY <1>2, <1>3

\* A chat sends the parameter of a link.
LEMMA SendStartStep ==
    ASSUME PairingInv, NEW chat \in Chats, NEW k \in Sessions, SendStart(chat, k)
    PROVE  PairingInv'
<1>. DEFINE new == [chat |-> chat, session |-> k]
<1>1. /\ sessions[k].status # "none" /\ updates' = Append(updates, new)
      /\ UNCHANGED <<sessions, nextUpdate, poll, recipients, contacts, used, paired>>
  BY DEF SendStart
<1>2. new \in [chat : Chats, session : Sessions] /\ new.session = k
  OBVIOUS
<1>. HIDE DEF new
<1>3. updates \in Seq([chat : Chats, session : Sessions])
      /\ Len(updates) \in Nat /\ DOMAIN updates = 1 .. Len(updates)
  BY TableRows
<1>4. /\ updates' \in Seq([chat : Chats, session : Sessions]) /\ Len(updates') = Len(updates) + 1
      /\ \A m \in DOMAIN updates : updates'[m] = updates[m]
      /\ updates'[Len(updates) + 1] = new
  BY <1>1, <1>2, <1>3, AppendProperties
<1>5. DOMAIN updates' = 1 .. Len(updates) + 1
  BY <1>4, LenProperties
<1>6. \A m \in DOMAIN updates' : sessions[updates'[m].session].status # "none"
  <2>. SUFFICES ASSUME NEW m \in DOMAIN updates'
                PROVE  sessions[updates'[m].session].status # "none"
    OBVIOUS
  <2>1. CASE m \in DOMAIN updates
    BY <1>4, <2>1 DEF PairingInv
  <2>2. CASE m = Len(updates) + 1
    BY <1>1, <1>2, <1>4, <2>2
  <2>. QED
    BY <1>3, <1>5, <2>1, <2>2
<1>7. ConfirmedTo(Tables, nextUpdate - 1)'
  <2>1. \A m \in 1 .. nextUpdate - 1 : m \in DOMAIN updates /\ updates'[m] = updates[m]
    <3>1. nextUpdate \in 1 .. Len(updates) + 1
      BY DEF PairingInv
    <3>2. \A m \in 1 .. nextUpdate - 1 : m \in 1 .. Len(updates)
      BY <1>3, <3>1
    <3>. QED
      BY <1>3, <1>4, <3>2
  <2>. QED
    BY <1>1, <2>1 DEF PairingInv, Tables, ConfirmedTo
<1>8. Tables' = Tables
  BY <1>1 DEF Tables
<1>9. Tables' \in PairState /\ Referenced(Tables)'
  <2>1. Tables \in PairState /\ Referenced(Tables)
    BY DEF PairingInv
  <2>. QED
    BY <1>8, <2>1 DEF Referenced
<1>10. nextUpdate' \in 1 .. Len(updates') + 1
  BY <1>1, <1>3, <1>4 DEF PairingInv
<1>11. poll' # NoPoll =>
          /\ poll'.from = nextUpdate' /\ poll'.next \in nextUpdate' .. Len(updates') + 1
          /\ poll'.expired \subseteq Sessions
          /\ \A j \in poll'.expired : sessions'[j].status = "expired"
  BY <1>1, <1>3, <1>4 DEF PairingInv
<1>. QED
  BY <1>1, <1>4, <1>6, <1>7, <1>9, <1>10, <1>11 DEF PairingInv

\* A poll begins, or ends in nothing.
LEMMA PollStep ==
    ASSUME PairingInv, BeginPoll \/ AbandonPoll
    PROVE  PairingInv'
<1>1. /\ UNCHANGED <<sessions, updates, recipients, contacts, used, paired>> /\ UNCHANGED nextUpdate
      /\ poll' # NoPoll =>
           /\ poll'.from = nextUpdate /\ poll'.next = Len(updates) + 1
           /\ poll'.expired = {k \in Sessions : sessions[k].status = "expired"}
  BY DEF BeginPoll, AbandonPoll, OffsetWithoutCommit
<1>2. Len(updates) \in Nat /\ nextUpdate \in 1 .. Len(updates) + 1
  BY TableRows DEF PairingInv
<1>3. poll' # NoPoll =>
        /\ poll'.from = nextUpdate /\ poll'.next \in nextUpdate .. Len(updates) + 1
        /\ poll'.expired \subseteq Sessions /\ \A k \in poll'.expired : sessions[k].status = "expired"
  BY <1>1, <1>2
<1>4. Tables' = Tables
  BY <1>1 DEF Tables
<1>5. ConfirmedTo(Tables, nextUpdate - 1)'
  BY <1>1, <1>4 DEF PairingInv, ConfirmedTo
<1>6. Tables' \in PairState /\ Referenced(Tables)'
  <2>1. Tables \in PairState /\ Referenced(Tables)
    BY DEF PairingInv
  <2>. QED
    BY <1>4, <2>1 DEF Referenced
<1>. QED
  BY <1>1, <1>3, <1>5, <1>6 DEF PairingInv

\* A recipient is deleted, with what refers to it.
LEMMA DeleteRecipientStep ==
    ASSUME PairingInv, NEW gone \in recipients, DeleteRecipient(gone)
    PROVE  PairingInv'
<1>1. /\ recipients' = recipients \ {gone}
      /\ sessions' = [k \in Sessions |-> IF sessions[k].recipient = gone.id
                        THEN [sessions[k] EXCEPT !.recipient = NoRecipient] ELSE sessions[k]]
      /\ contacts' = [a \in Accounts |-> IF contacts[a] = gone.id THEN NoRecipient ELSE contacts[a]]
      /\ UNCHANGED <<updates, nextUpdate, poll, used, paired>>
  BY DEF DeleteRecipient
<1>2. /\ sessions \in [Sessions -> SessionRec] /\ recipients \subseteq RecipientRec /\ used \in Nat
      /\ contacts \in [Accounts -> Nat] /\ paired \subseteq Sessions \X Chats
      /\ \A r \in recipients : r.id \in 1 .. used
      /\ Len(updates) \in Nat /\ DOMAIN updates = 1 .. Len(updates)
      /\ \A m \in DOMAIN updates : updates[m].session \in Sessions
  BY TableRows
<1>3. ASSUME NEW k \in Sessions
      PROVE  /\ sessions'[k] \in SessionRec /\ sessions'[k].status = sessions[k].status
             /\ sessions'[k].recipient # NoRecipient =>
                   sessions'[k].recipient = sessions[k].recipient /\ sessions[k].recipient # gone.id
  <2>. DEFINE new == [sessions[k] EXCEPT !.recipient = NoRecipient]
  <2>1. sessions'[k] = IF sessions[k].recipient = gone.id THEN new ELSE sessions[k]
    BY <1>1
  <2>2. new \in SessionRec /\ new.status = sessions[k].status /\ new.recipient = NoRecipient
    BY <1>2 DEF SessionRec, NoRecipient
  <2>3. sessions[k] \in SessionRec
    BY <1>2
  <2>. HIDE DEF new
  <2>. QED
    BY <2>1, <2>2, <2>3
<1>4. sessions' \in [Sessions -> SessionRec]
  <2>1. sessions' = [k \in Sessions |-> sessions'[k]]
    BY <1>1
  <2>. QED
    BY <1>3, <2>1
<1>5. contacts' \in [Accounts -> Nat]
      /\ \A a \in Accounts : contacts'[a] # NoRecipient => contacts'[a] = contacts[a] /\ contacts[a] # gone.id
  BY <1>1, <1>2 DEF NoRecipient
<1>6. recipients' \subseteq recipients /\ \A r \in recipients : r.id # gone.id => r \in recipients'
  BY <1>1
<1>7. UNCHANGED <<updates, nextUpdate, poll, used, paired>>
  BY <1>1
<1>. HIDE <1>1
<1>8. Tables' \in PairState
  BY <1>2, <1>4, <1>5, <1>6, <1>7 DEF Tables, PairState
<1>9. Referenced(Tables)'
  <2>1. /\ \A r \in recipients : r.id \in 1 .. used
        /\ \A k \in Sessions : sessions[k].recipient # NoRecipient =>
              \E r \in recipients : r.id = sessions[k].recipient /\ <<k, r.chat>> \in paired
        /\ \A a \in Accounts : contacts[a] # NoRecipient => \E r \in recipients : r.id = contacts[a]
    BY DEF PairingInv, Tables, Referenced
  <2>2. \A r \in recipients' : r.id \in 1 .. used'
    BY <1>6, <1>7, <2>1
  <2>3. \A k \in Sessions : sessions'[k].recipient # NoRecipient =>
            \E r \in recipients' : r.id = sessions'[k].recipient /\ <<k, r.chat>> \in paired'
    BY <1>3, <1>6, <1>7, <2>1
  <2>4. \A a \in Accounts : contacts'[a] # NoRecipient => \E r \in recipients' : r.id = contacts'[a]
    BY <1>5, <1>6, <2>1
  <2>. QED
    BY <2>2, <2>3, <2>4 DEF Tables, Referenced
<1>10. ConfirmedTo(Tables, nextUpdate - 1)'
  <2>1. \A m \in 1 .. nextUpdate - 1 : m \in DOMAIN updates
    BY <1>2 DEF PairingInv
  <2>. QED
    BY <1>2, <1>3, <1>7, <2>1 DEF PairingInv, Tables, ConfirmedTo
<1>. QED
  BY <1>2, <1>3, <1>7, <1>8, <1>9, <1>10 DEF PairingInv

\* The tables inside the transaction, when the updates up to n have been applied.
Applied(st, n) ==
    /\ st \in PairState /\ Referenced(st) /\ ConfirmedTo(st, n)
    /\ used <= st.used /\ \A r \in st.recipients : r \in recipients \/ ~(r.id <= used)
    /\ \A k \in Sessions : st.sessions[k].status = sessions[k].status
    /\ paired \subseteq st.paired

\* A state is made of its parts.
LEMMA StateParts ==
    ASSUME NEW st \in PairState
    PROVE  /\ st.sessions \in [Sessions -> SessionRec] /\ st.recipients \subseteq RecipientRec
           /\ st.used \in Nat /\ st.contacts \in [Accounts -> Nat]
           /\ st.paired \subseteq Sessions \X Chats
           /\ st = [sessions |-> st.sessions, recipients |-> st.recipients, used |-> st.used,
                    contacts |-> st.contacts, paired |-> st.paired]
  BY DEF PairState

\* The next update is applied.
LEMMA PairKeeps ==
    ASSUME PairingInv, poll # NoPoll, NEW m \in DOMAIN updates, NEW st, Applied(st, m - 1)
    PROVE  Applied(Pair(st, updates[m]), m)
<1>. DEFINE k == updates[m].session
            chat == updates[m].chat
            known == {r \in st.recipients : r.chat = chat}
            rec == IF known # {} THEN CHOOSE r \in known : TRUE
                   ELSE [id |-> st.used + 1, chat |-> chat]
            account == st.sessions[k].account
            new == [st.sessions[k] EXCEPT !.recipient = rec.id]
            last == IF known = {} THEN st.used + 1 ELSE st.used
            contacted == IF account = "none" THEN st.contacts
                         ELSE [st.contacts EXCEPT ![account] = rec.id]
            after == [sessions |-> [st.sessions EXCEPT ![k] = new],
                      recipients |-> st.recipients \cup {rec}, used |-> last,
                      contacts |-> contacted, paired |-> st.paired \cup {<<k, chat>>}]
<1>1. Pair(st, updates[m]) = IF ~Usable(st, k) THEN st ELSE after
  BY DEF Pair
<1>2. /\ st.sessions \in [Sessions -> SessionRec] /\ st.recipients \subseteq RecipientRec
      /\ st.used \in Nat /\ st.contacts \in [Accounts -> Nat] /\ st.paired \subseteq Sessions \X Chats
  BY StateParts DEF Applied
<1>3. k \in Sessions /\ chat \in Chats /\ m \in Nat /\ m >= 1 /\ used \in Nat
  BY TableRows
<1>4. /\ \A r \in st.recipients : r.id \in 1 .. st.used
      /\ \A j \in Sessions : st.sessions[j].recipient # NoRecipient =>
            \E r \in st.recipients : r.id = st.sessions[j].recipient /\ <<j, r.chat>> \in st.paired
      /\ \A a \in Accounts : st.contacts[a] # NoRecipient =>
            \E r \in st.recipients : r.id = st.contacts[a]
  BY DEF Applied, Referenced
<1>5. \A n \in 1 .. m - 1 : st.sessions[updates[n].session].status = "started" =>
          \E c \in Chats : <<updates[n].session, c>> \in st.paired
  BY DEF Applied, ConfirmedTo
<1>6. \A n \in 1 .. m : n = m \/ n \in 1 .. m - 1
  BY <1>3
<1>7. CASE ~Usable(st, k)
  <2>1. st.sessions[k].status = "started" => \E c \in Chats : <<k, c>> \in st.paired
    <3>. SUFFICES ASSUME st.sessions[k].status = "started"
                  PROVE  \E c \in Chats : <<k, c>> \in st.paired
      OBVIOUS
    <3>1. k \notin poll.expired
      BY <1>3 DEF PairingInv, Applied
    <3>2. st.sessions[k].recipient # NoRecipient
      BY <1>7, <3>1 DEF Usable
    <3>3. PICK r \in st.recipients : <<k, r.chat>> \in st.paired
      BY <1>3, <1>4, <3>2
    <3>. QED
      BY <1>2, <3>3 DEF RecipientRec
  <2>2. ConfirmedTo(st, m)
    BY <1>5, <1>6, <2>1 DEF ConfirmedTo
  <2>. QED
    BY <1>1, <1>7, <2>2 DEF Applied
<1>8. CASE Usable(st, k)
  <2>1. /\ rec \in RecipientRec /\ rec.chat = chat /\ rec.id \in 1 .. last /\ last \in Nat
        /\ st.used <= last /\ (rec \in st.recipients \/ rec.id = st.used + 1)
    <3>1. CASE known # {}
      <4>1. rec \in known
        BY <3>1
      <4>2. last = st.used
        BY <3>1
      <4>. HIDE DEF rec, last
      <4>. QED
        BY <1>2, <1>4, <4>1, <4>2
    <3>2. CASE known = {}
      <4>1. rec = [id |-> st.used + 1, chat |-> chat]
        BY <3>2
      <4>2. last = st.used + 1
        BY <3>2
      <4>. HIDE DEF rec, last, chat
      <4>. QED
        BY <1>2, <1>3, <4>1, <4>2 DEF RecipientRec
    <3>. QED
      BY <3>1, <3>2
  <2>. HIDE DEF rec, last, known
  <2>2. account \in Accounts \cup {"none"} /\ rec.id \in Nat
    BY <1>2, <1>3, <2>1 DEF SessionRec
  <2>3. /\ new \in SessionRec /\ new.status = st.sessions[k].status /\ new.recipient = rec.id
    BY <1>2, <1>3, <2>2 DEF SessionRec
  <2>. HIDE DEF new
  <2>4. /\ contacted \in [Accounts -> Nat]
        /\ \A a \in Accounts : contacted[a] \in {st.contacts[a], rec.id}
    BY <1>2, <2>2
  <2>. HIDE DEF contacted, account, k, chat
  <2>5. /\ after.recipients = st.recipients \cup {rec} /\ after.used = last
        /\ after.contacts = contacted /\ after.paired = st.paired \cup {<<k, chat>>}
        /\ after.sessions \in [Sessions -> SessionRec] /\ after.sessions[k] = new
        /\ \A j \in Sessions : j # k => after.sessions[j] = st.sessions[j]
    BY <1>2, <1>3, <2>3
  <2>6. after \in PairState
    <3>1. after.recipients \in SUBSET RecipientRec /\ after.paired \in SUBSET (Sessions \X Chats)
      BY <1>2, <1>3, <2>1, <2>5
    <3>2. after = [sessions |-> after.sessions, recipients |-> after.recipients, used |-> after.used,
                   contacts |-> after.contacts, paired |-> after.paired]
      OBVIOUS
    <3>. HIDE DEF after
    <3>. QED
      BY <2>1, <2>4, <2>5, <3>1, <3>2 DEF PairState
  <2>. HIDE DEF after
  <2>7. Referenced(after)
    <3>1. \A r \in after.recipients : r.id \in 1 .. after.used
      BY <1>2, <1>4, <2>1, <2>5
    <3>2. ASSUME NEW j \in Sessions, after.sessions[j].recipient # NoRecipient
          PROVE  \E r \in after.recipients :
                    r.id = after.sessions[j].recipient /\ <<j, r.chat>> \in after.paired
      <4>1. CASE j = k
        BY <2>1, <2>3, <2>5, <4>1
      <4>2. CASE j # k
        BY <1>4, <2>5, <3>2, <4>2
      <4>. QED
        BY <4>1, <4>2
    <3>3. \A a \in Accounts : after.contacts[a] # NoRecipient =>
              \E r \in after.recipients : r.id = after.contacts[a]
      BY <1>4, <2>4, <2>5
    <3>. QED
      BY <3>1, <3>2, <3>3 DEF Referenced
  <2>8. \A j \in Sessions : after.sessions[j].status = st.sessions[j].status
    BY <2>3, <2>5
  <2>9. ConfirmedTo(after, m)
    <3>1. \A n \in 1 .. m : updates[n].session \in Sessions
      <4>1. \A n \in 1 .. m : n \in DOMAIN updates
        BY TableRows
      <4>. QED
        BY <4>1, TableRows
    <3>2. <<updates[m].session, chat>> \in after.paired
      BY <2>5 DEF k
    <3>3. st.paired \subseteq after.paired
      BY <2>5
    <3>. QED
      BY <1>3, <1>5, <1>6, <2>8, <3>1, <3>2, <3>3 DEF ConfirmedTo
  <2>10. used <= after.used /\ \A r \in after.recipients : r \in recipients \/ ~(r.id <= used)
    BY <1>2, <1>3, <2>1, <2>5 DEF Applied
  <2>11. Applied(after, m)
    BY <2>5, <2>6, <2>7, <2>8, <2>9, <2>10 DEF Applied
  <2>. QED
    BY <1>1, <1>8, <2>11
<1>. QED
  BY <1>7, <1>8

\* The states a transaction runs through, for its updates one after the other.
Run(f, n) ==
    f = [m \in (poll.from - 1) .. n |->
            IF m < poll.from THEN Tables ELSE Pair(f[m - 1], updates[m])]

\* There is such a run, as far as one likes: else there would be a first update without.
LEMMA RunExists ==
    ASSUME poll.from \in Nat, poll.from >= 1, NEW n \in Nat, n >= poll.from - 1
    PROVE  \E f : Run(f, n)
<1>. DEFINE first == poll.from - 1
            T == {m \in Nat : m >= first /\ ~\E f : Run(f, m)}
<1>1. T = {}
  <2>. SUFFICES ASSUME T # {} PROVE FALSE
    OBVIOUS
  <2>1. T \in SUBSET Nat
    OBVIOUS
  <2>2. PICK m \in T : \A j \in T : m <= j
    BY <2>1, LeastNumber
  <2>3. m \in Nat /\ m >= first /\ ~\E f : Run(f, m)
    BY <2>2
  <2>4. CASE m = first
    <3>. DEFINE g == [j \in first .. m |-> Tables]
    <3>1. g = [j \in first .. m |-> IF j < poll.from THEN Tables ELSE Pair(g[j - 1], updates[j])]
      BY <2>4
    <3>. QED
      BY <2>3, <3>1 DEF Run
  <2>5. CASE m # first
    <3>1. m - 1 \in Nat /\ m - 1 >= first /\ m - 1 \notin T
      BY <2>2, <2>3, <2>5
    <3>2. PICK f : Run(f, m - 1)
      BY <3>1
    <3>3. f = [j \in first .. (m - 1) |->
                  IF j < poll.from THEN Tables ELSE Pair(f[j - 1], updates[j])]
      BY <3>2 DEF Run
    <3>. DEFINE g == [j \in first .. m |-> IF j = m THEN Pair(f[m - 1], updates[m]) ELSE f[j]]
    <3>4. ASSUME NEW j \in first .. m
          PROVE  g[j] = IF j < poll.from THEN Tables ELSE Pair(g[j - 1], updates[j])
      <4>1. CASE j = m
        <5>1. m - 1 \in first .. m /\ m - 1 # m /\ ~(m < poll.from)
          BY <2>3, <3>1
        <5>2. g[m - 1] = f[m - 1] /\ g[m] = Pair(f[m - 1], updates[m])
          BY <2>3, <5>1
        <5>. QED
          BY <4>1, <5>1, <5>2
      <4>2. CASE j # m /\ j < poll.from
        <5>1. j \in first .. (m - 1)
          BY <2>3, <4>2
        <5>2. g[j] = f[j]
          BY <4>2
        <5>3. f[j] = Tables
          BY <3>3, <4>2, <5>1
        <5>. QED
          BY <4>2, <5>2, <5>3
      <4>3. CASE j # m /\ ~(j < poll.from)
        <5>1. j \in first .. (m - 1) /\ j - 1 \in first .. m /\ j - 1 # m
          BY <2>3, <4>3
        <5>2. g[j] = f[j] /\ g[j - 1] = f[j - 1]
          BY <4>3, <5>1
        <5>3. f[j] = Pair(f[j - 1], updates[j])
          BY <3>3, <4>3, <5>1
        <5>. QED
          BY <4>3, <5>2, <5>3
      <4>. QED
        BY <4>1, <4>2, <4>3
    <3>5. g = [j \in first .. m |-> g[j]]
      OBVIOUS
    <3>. HIDE DEF g
    <3>6. g = [j \in first .. m |-> IF j < poll.from THEN Tables ELSE Pair(g[j - 1], updates[j])]
      BY <3>4, <3>5
    <3>. QED
      BY <2>3, <3>6 DEF Run
  <2>. QED
    BY <2>4, <2>5
<1>. QED
  BY <1>1

\* What the commit writes: the last state of a run.
LEMMA CommitIsRun ==
    ASSUME poll.from \in Nat, poll.from >= 1, poll.next \in Nat, poll.next >= poll.from
    PROVE  \E f : Run(f, poll.next - 1) /\ PairAll = f[poll.next - 1]
<1>. DEFINE after == CHOOSE f : f = [n \in (poll.from - 1) .. (poll.next - 1) |->
                        IF n < poll.from THEN Tables ELSE Pair(f[n - 1], updates[n])]
<1>1. PairAll = after[poll.next - 1]
  BY Zenon DEF PairAll, Tables
<1>2. \E f : f = [n \in (poll.from - 1) .. (poll.next - 1) |->
                    IF n < poll.from THEN Tables ELSE Pair(f[n - 1], updates[n])]
  <2>1. poll.next - 1 \in Nat /\ poll.next - 1 >= poll.from - 1
    OBVIOUS
  <2>2. \E f : Run(f, poll.next - 1)
    BY <2>1, RunExists
  <2>. QED
    BY <2>2 DEF Run
<1>3. Run(after, poll.next - 1)
  BY <1>2, Zenon DEF Run
<1>. QED
  BY <1>1, <1>3

\* Every state of a run has the updates so far applied.
LEMMA RunKeeps ==
    ASSUME PairingInv, poll # NoPoll, NEW f, Run(f, poll.next - 1)
    PROVE  Applied(f[poll.next - 1], poll.next - 1)
<1>. DEFINE first == poll.from - 1
            T == {m \in first .. (poll.next - 1) : ~Applied(f[m], m)}
<1>1. /\ poll.from = nextUpdate /\ nextUpdate \in Nat /\ nextUpdate >= 1
      /\ poll.next \in Nat /\ poll.next >= nextUpdate /\ poll.next <= Len(updates) + 1
      /\ Len(updates) \in Nat /\ DOMAIN updates = 1 .. Len(updates)
  BY TableRows DEF PairingInv
<1>2. f = [m \in first .. (poll.next - 1) |->
              IF m < poll.from THEN Tables ELSE Pair(f[m - 1], updates[m])]
  BY DEF Run
<1>3. T = {}
  <2>. SUFFICES ASSUME T # {} PROVE FALSE
    OBVIOUS
  <2>1. T \in SUBSET Nat
    BY <1>1
  <2>2. PICK m \in T : \A j \in T : m <= j
    BY <2>1, LeastNumber
  <2>3. m \in first .. (poll.next - 1) /\ ~Applied(f[m], m) /\ m \in Nat
    BY <2>1, <2>2
  <2>4. CASE m = first
    <3>1. m < poll.from /\ m = nextUpdate - 1
      BY <1>1, <2>4
    <3>2. f[m] = Tables
      BY <1>2, <2>3, <3>1
    <3>3. Applied(Tables, m)
      <4>1. Tables \in PairState /\ Referenced(Tables) /\ ConfirmedTo(Tables, m)
        BY <3>1 DEF PairingInv
      <4>2. used \in Nat
        BY TableRows
      <4>. QED
        BY <4>1, <4>2 DEF Applied, Tables
    <3>. QED
      BY <2>3, <3>2, <3>3
  <2>5. CASE m # first
    <3>1. /\ m - 1 \in first .. (poll.next - 1) /\ m - 1 \notin T
          /\ m \in DOMAIN updates /\ ~(m < poll.from)
      BY <1>1, <2>2, <2>3, <2>5
    <3>2. Applied(f[m - 1], m - 1)
      BY <3>1
    <3>3. f[m] = Pair(f[m - 1], updates[m])
      BY <1>2, <2>3, <3>1
    <3>4. Applied(Pair(f[m - 1], updates[m]), m)
      BY <3>1, <3>2, PairKeeps
    <3>. QED
      BY <2>3, <3>3, <3>4
  <2>. QED
    BY <2>4, <2>5
<1>4. poll.next - 1 \in first .. (poll.next - 1)
  BY <1>1
<1>. QED
  BY <1>3, <1>4

\* A poll ends: all updates it read are applied and confirmed at once.
LEMMA CommitPollStep ==
    ASSUME PairingInv, CommitPoll
    PROVE  /\ PairingInv' /\ used' \in Nat /\ used <= used'
           /\ \A r \in recipients' : r \in recipients \/ ~(r.id <= used)
<1>. DEFINE after == PairAll
<1>1. /\ poll # NoPoll /\ nextUpdate' = poll.next /\ poll' = NoPoll /\ UNCHANGED updates
      /\ sessions' = after.sessions /\ recipients' = after.recipients
      /\ used' = after.used /\ contacts' = after.contacts /\ paired' = after.paired
  BY DEF CommitPoll
<1>2. /\ poll.from = nextUpdate /\ nextUpdate \in Nat /\ nextUpdate >= 1
      /\ poll.next \in Nat /\ poll.next >= nextUpdate /\ poll.next <= Len(updates) + 1
      /\ Len(updates) \in Nat
      /\ \A m \in DOMAIN updates : updates[m].session \in Sessions
  BY <1>1, TableRows DEF PairingInv
<1>3. Applied(after, poll.next - 1)
  <2>1. PICK f : Run(f, poll.next - 1) /\ PairAll = f[poll.next - 1]
    BY <1>2, CommitIsRun
  <2>. QED
    BY <1>1, <2>1, RunKeeps
<1>. HIDE DEF after
<1>4. Tables' = after
  <2>1. after = [sessions |-> after.sessions, recipients |-> after.recipients, used |-> after.used,
                 contacts |-> after.contacts, paired |-> after.paired]
    BY <1>3, StateParts DEF Applied
  <2>. QED
    BY <1>1, <2>1 DEF Tables
<1>5. Tables' \in PairState
  BY <1>3, <1>4 DEF Applied
<1>6. Referenced(Tables)'
  <2>1. Referenced(Tables')
    BY <1>3, <1>4 DEF Applied
  <2>. QED
    BY <2>1 DEF Referenced
<1>7. ConfirmedTo(Tables, nextUpdate - 1)'
  <2>1. \A m \in 1 .. poll.next - 1 : after.sessions[updates[m].session].status = "started" =>
            \E chat \in Chats : <<updates[m].session, chat>> \in after.paired
    BY <1>3 DEF Applied, ConfirmedTo
  <2>. QED
    BY <1>1, <1>4, <2>1 DEF ConfirmedTo
<1>8. \A m \in DOMAIN updates' : sessions'[updates'[m].session].status # "none"
  BY <1>1, <1>2, <1>3 DEF Applied, PairingInv
<1>9. PairingInv'
  BY <1>1, <1>2, <1>5, <1>6, <1>7, <1>8 DEF PairingInv
<1>. QED
  BY <1>1, <1>3, <1>9, StateParts DEF Applied

\* Steps of the pairing.
LEMMA PairingStep ==
    ASSUME PairingInv, IntentInv, DeliveryInv, ExpansionInv, OfPairing, NoteAudience
    PROVE  PairingInv' /\ IntentInv' /\ DeliveryInv' /\ ExpansionInv'
<1>1. UNCHANGED <<alerts, intents, notifyVars>>
  BY DEF OfPairing, alertVars
<1>2. \/ (\E k \in Sessions : StartPairing(k) \/ ExpirePairing(k))
      \/ (\E chat \in Chats, k \in Sessions : SendStart(chat, k))
      \/ BeginPoll \/ AbandonPoll \/ CommitPoll \/ (\E r \in recipients : DeleteRecipient(r))
  BY DEF OfPairing
<1>3. used \in Nat /\ used <= used
  BY TableRows
<1>4. CASE CommitPoll
  BY <1>1, <1>3, <1>4, CommitPollStep, RecipientsChange
<1>5. CASE \E r \in recipients : DeleteRecipient(r)
  <2>1. UNCHANGED used /\ recipients' \subseteq recipients
    BY <1>5 DEF DeleteRecipient
  <2>. QED
    BY <1>1, <1>3, <1>5, <2>1, DeleteRecipientStep, RecipientsChange
<1>6. CASE \/ (\E k \in Sessions : StartPairing(k) \/ ExpirePairing(k))
           \/ (\E chat \in Chats, k \in Sessions : SendStart(chat, k))
           \/ BeginPoll \/ AbandonPoll
  <2>1. UNCHANGED <<used, recipients>>
    BY <1>6 DEF StartPairing, ExpirePairing, SendStart, BeginPoll, AbandonPoll
  <2>2. PairingInv'
    BY <1>6, SessionStep, SendStartStep, PollStep
  <2>. QED
    BY <1>1, <1>3, <2>1, <2>2, RecipientsChange
<1>. QED
  BY <1>2, <1>4, <1>5, <1>6

(***************************************************************************)
(* Notifications                                                           *)
(***************************************************************************)
\* What was rewritten of an announcement leaves who hears of it.
LEMMA IntentMoves ==
    ASSUME IntentInv, NoteAudience, UNCHANGED <<alerts, used>>,
           NEW i \in DOMAIN intents, NEW new \in IntentRec, new.alert = intents[i].alert,
           intents' = [intents EXCEPT ![i] = new]
    PROVE  /\ IntentInv' /\ DOMAIN intents' = DOMAIN intents
           /\ intents'[i] = new /\ \A j \in DOMAIN intents : j # i => intents'[j] = intents[j]
           /\ \A j \in DOMAIN intents : audience'[j] = audience[j]
<1>1. intents \in Seq(IntentRec) /\ Len(intents) \in Nat /\ DOMAIN intents = 1 .. Len(intents)
  BY IntentRows
<1>2. /\ intents' \in Seq(IntentRec)
      /\ \A k \in 1 .. Len(intents) : intents'[k] = IF k = i THEN new ELSE intents[k]
  BY <1>1, ExceptSeq
<1>3. DOMAIN intents' = DOMAIN intents
  OBVIOUS
<1>4. intents'[i] = new /\ \A j \in DOMAIN intents : j # i => intents'[j] = intents[j]
  BY <1>1, <1>2
<1>5. audience' = [j \in DOMAIN intents |-> audience'[j]]
      /\ \A j \in DOMAIN intents : audience'[j] = audience[j]
  BY <1>3, AudienceKept
<1>6. IntentInv'
  BY <1>2, <1>3, <1>4, <1>5 DEF IntentInv
<1>. QED
  BY <1>3, <1>4, <1>5, <1>6

\* Nothing is done but by the worker: the pairing stays.
LEMMA PairingKept ==
    ASSUME PairingInv, UNCHANGED pairingVars
    PROVE  PairingInv' /\ UNCHANGED <<recipients, used>>
<1>1. UNCHANGED <<sessions, updates, nextUpdate, poll, recipients, contacts, used, paired>>
  BY DEF pairingVars
<1>. QED
  BY <1>1 DEF PairingInv, Tables, Referenced, ConfirmedTo

\* The worker's bookkeeping: one of two shapes.
Claimed == [intent : Nat, listed : {FALSE}]
Listed == [intent : Nat, listed : {TRUE}, created : BOOLEAN, todo : SUBSET RecipientRec]

\* An expansion that has listed the recipients.
LEMMA ListedExpansion ==
    ASSUME ExpansionInv, expansion # NoExpansion, expansion.listed
    PROVE  expansion \in Listed /\ expansion.intent \in DOMAIN intents
  BY DEF ExpansionInv, Listed

\* The first of a list of recipients is one of them.
LEMMA FirstOfList ==
    ASSUME expansion.todo \subseteq RecipientRec, expansion.todo # {}
    PROVE  NextRecipient \in expansion.todo
<1>. DEFINE todo == expansion.todo
            ids == {r.id : r \in todo}
<1>1. ids \in SUBSET Nat /\ ids # {}
  BY DEF RecipientRec
<1>2. PICK x \in ids : \A y \in ids : x <= y
  BY <1>1, LeastNumber
<1>3. PICK r \in todo : r.id = x
  BY <1>2
<1>4. \A q \in todo : r.id <= q.id
  BY <1>2, <1>3
<1>. QED
  BY <1>4 DEF NextRecipient

\* A claim is taken, or grows old.
LEMMA ClaimStep ==
    ASSUME PairingInv, IntentInv, DeliveryInv, ExpansionInv, NoteAudience,
           ClaimNext \/ (\E i \in DOMAIN intents : ClaimAges(i))
    PROVE  PairingInv' /\ IntentInv' /\ DeliveryInv' /\ ExpansionInv'
<1>1. /\ UNCHANGED alerts /\ UNCHANGED pairingVars /\ UNCHANGED <<deliveries, links>>
  BY DEF ClaimNext, ClaimAges, notifyVars
<1>2. PICK i \in DOMAIN intents : \E claim \in {"fresh", "old"} :
         /\ intents' = [intents EXCEPT ![i].claim = claim]
         /\ expansion' = [intent |-> i, listed |-> FALSE] \/ UNCHANGED expansion
  BY DEF ClaimNext, ClaimAges, notifyVars
<1>3. PICK claim \in {"fresh", "old"} :
         /\ intents' = [intents EXCEPT ![i].claim = claim]
         /\ expansion' = [intent |-> i, listed |-> FALSE] \/ UNCHANGED expansion
  BY <1>2
<1>. DEFINE new == [intents[i] EXCEPT !.claim = claim]
<1>4. intents[i] \in IntentRec /\ i \in Nat
  BY IntentRows
<1>5. new \in IntentRec /\ new.alert = intents[i].alert /\ new.expanded = intents[i].expanded
  BY <1>4 DEF IntentRec
<1>6. intents' = [intents EXCEPT ![i] = new]
  BY <1>3
<1>. HIDE DEF new
<1>7. PairingInv' /\ UNCHANGED <<recipients, used>>
  BY <1>1, PairingKept
<1>8. /\ IntentInv' /\ DOMAIN intents' = DOMAIN intents
      /\ intents'[i] = new /\ \A j \in DOMAIN intents : j # i => intents'[j] = intents[j]
      /\ \A j \in DOMAIN intents : audience'[j] = audience[j]
  BY <1>1, <1>5, <1>6, <1>7, IntentMoves
<1>9. \A j \in DOMAIN intents : intents'[j].expanded = intents[j].expanded
  BY <1>5, <1>8
<1>10. DeliveryInv'
  BY <1>1, <1>7, <1>8 DEF DeliveryInv
<1>11. \A j, r : HasDelivery(j, r)' <=> HasDelivery(j, r)
  BY <1>1 DEF HasDelivery
<1>12. \A j \in DOMAIN intents' : intents'[j].expanded =>
           \A r \in audience'[j] \cap recipients' : HasDelivery(j, r.id)' /\ <<j, r.id>> \in links'
  BY <1>1, <1>7, <1>8, <1>9, <1>11 DEF ExpansionInv
<1>13. ExpansionInv'
  <2>1. CASE UNCHANGED expansion
    <3>1. NextRecipient' = NextRecipient
      BY <2>1 DEF NextRecipient
    <3>. QED
      BY <1>1, <1>7, <1>8, <1>11, <1>12, <2>1, <3>1 DEF ExpansionInv
  <2>2. CASE expansion' = [intent |-> i, listed |-> FALSE]
    <3>1. expansion' \in Claimed /\ expansion'.intent = i /\ ~expansion'.listed
      BY <1>4, <2>2 DEF Claimed
    <3>. QED
      BY <1>8, <1>12, <3>1 DEF ExpansionInv, Claimed
  <2>. QED
    BY <1>3, <2>1, <2>2
<1>. QED
  BY <1>7, <1>8, <1>10, <1>13

\* The announcements are as before.
LEMMA IntentsKept ==
    ASSUME PairingInv, IntentInv, NoteAudience, UNCHANGED <<alerts, intents, pairingVars>>
    PROVE  /\ PairingInv' /\ IntentInv' /\ UNCHANGED <<recipients, used>>
           /\ \A i \in DOMAIN intents : audience'[i] = audience[i]
<1>1. PairingInv' /\ UNCHANGED <<recipients, used>>
  BY PairingKept
<1>2. audience' = [i \in DOMAIN intents |-> audience'[i]]
      /\ \A i \in DOMAIN intents : audience'[i] = audience[i]
  BY AudienceKept
<1>. QED
  BY <1>1, <1>2 DEF IntentInv

\* The recipients are listed.
LEMMA ListEnabledRecipientsStep ==
    ASSUME PairingInv, IntentInv, DeliveryInv, ExpansionInv, NoteAudience, ListEnabledRecipients
    PROVE  PairingInv' /\ IntentInv' /\ DeliveryInv' /\ ExpansionInv'
<1>1. /\ expansion # NoExpansion
      /\ expansion' = [intent |-> expansion.intent, listed |-> TRUE, created |-> FALSE, todo |-> recipients]
      /\ UNCHANGED <<alerts, intents, pairingVars, deliveries, links>>
  BY DEF ListEnabledRecipients, alertVars
<1>2. /\ PairingInv' /\ IntentInv' /\ UNCHANGED <<recipients, used>>
      /\ \A i \in DOMAIN intents : audience'[i] = audience[i]
  BY <1>1, IntentsKept
<1>3. recipients \subseteq RecipientRec /\ \A r \in recipients : r.id \in 1 .. used
  BY TableRows
<1>4. expansion.intent \in DOMAIN intents /\ expansion.intent \in Nat
  BY <1>1, IntentRows DEF ExpansionInv
<1>5. FALSE \in BOOLEAN
  OBVIOUS
<1>6. /\ expansion' \in Listed /\ expansion'.intent = expansion.intent /\ expansion'.listed
      /\ ~expansion'.created /\ expansion'.todo = recipients
  BY <1>1, <1>3, <1>4, <1>5 DEF Listed
<1>7. UNCHANGED <<intents, deliveries, links>>
  BY <1>1
<1>. HIDE <1>1
<1>8. \A j, r : HasDelivery(j, r)' <=> HasDelivery(j, r)
  BY <1>7 DEF HasDelivery
<1>9. DeliveryInv'
  BY <1>2, <1>7 DEF DeliveryInv
<1>10. ExpansionInv'
  BY <1>2, <1>3, <1>4, <1>6, <1>7, <1>8 DEF ExpansionInv, Listed
<1>. QED
  BY <1>2, <1>9, <1>10

\* A delivery is created, unless there is one under its key.
LEMMA CreateDeliveryStep ==
    ASSUME PairingInv, IntentInv, DeliveryInv, ExpansionInv, NoteAudience, CreateDelivery
    PROVE  PairingInv' /\ IntentInv' /\ DeliveryInv' /\ ExpansionInv'
<1>. DEFINE i == expansion.intent
            id == NextRecipient.id
            new == SystemNotification(i, id)
<1>1. /\ expansion # NoExpansion /\ expansion.listed /\ expansion.todo # {}
      /\ deliveries' = IF Existing(i, id) THEN deliveries ELSE Append(deliveries, new)
      /\ expansion' = [expansion EXCEPT !.created = TRUE]
      /\ UNCHANGED <<alerts, intents, pairingVars, links>>
  BY DEF CreateDelivery, alertVars
<1>2. /\ PairingInv' /\ IntentInv' /\ UNCHANGED <<recipients, used>>
      /\ \A j \in DOMAIN intents : audience'[j] = audience[j]
  BY <1>1, IntentsKept
<1>3. expansion \in Listed /\ i \in DOMAIN intents /\ i \in Nat
  BY <1>1, ListedExpansion, IntentRows
<1>4. NextRecipient \in expansion.todo
  BY <1>1, <1>3, FirstOfList DEF Listed
<1>5. id \in 1 .. used /\ id \in Nat
  BY <1>1, <1>4, TableRows DEF ExpansionInv
<1>6. new \in [intent : Nat, recipient : Nat] /\ new.intent = i /\ new.recipient = id
  BY <1>3, <1>5 DEF SystemNotification
<1>7. /\ deliveries \in Seq([intent : Nat, recipient : Nat])
      /\ Len(deliveries) \in Nat /\ DOMAIN deliveries = 1 .. Len(deliveries)
  BY LenProperties DEF DeliveryInv
<1>8. \A d \in DOMAIN deliveries : deliveries[d] \in [intent : Nat, recipient : Nat]
  BY <1>7, ElementOfSeq
<1>9. /\ deliveries' \in Seq([intent : Nat, recipient : Nat])
      /\ DOMAIN deliveries \subseteq DOMAIN deliveries'
      /\ \A d \in DOMAIN deliveries : deliveries'[d] = deliveries[d]
      /\ \A d \in DOMAIN deliveries' : d \notin DOMAIN deliveries =>
            d = Len(deliveries) + 1 /\ deliveries'[d] = new /\ ~Existing(i, id)
      /\ \E d \in DOMAIN deliveries' : deliveries'[d] = new
  <2>1. CASE Existing(i, id)
    <3>1. PICK d \in DOMAIN deliveries : deliveries[d].intent = i /\ deliveries[d].recipient = id
      BY <2>1 DEF Existing
    <3>2. deliveries[d] = [intent |-> i, recipient |-> id]
      BY <1>8, <3>1
    <3>3. deliveries[d] = new
      BY <3>2 DEF SystemNotification
    <3>4. deliveries' = deliveries
      BY <1>1, <2>1
    <3>. QED
      BY <1>7, <3>3, <3>4
  <2>2. CASE ~Existing(i, id)
    <3>. HIDE DEF new
    <3>1. deliveries' = Append(deliveries, new)
      BY <1>1, <2>2
    <3>2. /\ deliveries' \in Seq([intent : Nat, recipient : Nat])
          /\ Len(deliveries') = Len(deliveries) + 1
          /\ \A d \in 1 .. Len(deliveries) : deliveries'[d] = deliveries[d]
          /\ deliveries'[Len(deliveries) + 1] = new
      BY <1>6, <1>7, <3>1, AppendProperties
    <3>3. DOMAIN deliveries' = 1 .. Len(deliveries) + 1
      BY <3>2, LenProperties
    <3>. QED
      BY <1>7, <2>2, <3>2, <3>3
  <2>. QED
    BY <2>1, <2>2
<1>10. ~Existing(i, id) => \A d \in DOMAIN deliveries : deliveries[d] # new
  BY <1>6 DEF Existing
<1>11. DeliveryInv'
  <2>1. ASSUME NEW d \in DOMAIN deliveries'
        PROVE  deliveries'[d].intent \in DOMAIN intents' /\ deliveries'[d].recipient \in 1 .. used'
    <3>1. CASE d \in DOMAIN deliveries
      BY <1>1, <1>2, <1>9, <3>1 DEF DeliveryInv
    <3>2. CASE d \notin DOMAIN deliveries
      BY <1>1, <1>2, <1>3, <1>5, <1>6, <1>9, <3>2
    <3>. QED
      BY <3>1, <3>2
  <2>2. ASSUME NEW d \in DOMAIN deliveries', NEW e \in DOMAIN deliveries', deliveries'[d] = deliveries'[e]
        PROVE  d = e
    <3>1. CASE d \in DOMAIN deliveries /\ e \in DOMAIN deliveries
      BY <1>9, <2>2, <3>1 DEF DeliveryInv
    <3>2. CASE d \notin DOMAIN deliveries /\ e \notin DOMAIN deliveries
      BY <1>9, <3>2
    <3>3. CASE ~(d \in DOMAIN deliveries <=> e \in DOMAIN deliveries)
      BY <1>9, <1>10, <2>2, <3>3
    <3>. QED
      BY <3>1, <3>2, <3>3
  <2>. QED
    BY <1>9, <2>1, <2>2 DEF DeliveryInv
<1>12. \A j, r : HasDelivery(j, r) => HasDelivery(j, r)'
  BY <1>9 DEF HasDelivery
<1>13. /\ expansion' \in Listed /\ expansion'.intent = i /\ expansion'.listed
       /\ expansion'.todo = expansion.todo
  <2>1. TRUE \in BOOLEAN
    OBVIOUS
  <2>. QED
    BY <1>1, <1>3, <2>1 DEF Listed
<1>14. NextRecipient' = NextRecipient
  BY <1>13 DEF NextRecipient
<1>15. HasDelivery(expansion.intent, NextRecipient.id)'
  BY <1>9, <1>13, <1>14 DEF HasDelivery
<1>16. UNCHANGED <<intents, links>>
  BY <1>1
<1>17. /\ expansion # NoExpansion /\ expansion.listed
  BY <1>1
<1>. HIDE <1>1
<1>18. ExpansionInv'
  <2>1. \A j \in DOMAIN intents' : intents'[j].expanded =>
            \A r \in audience'[j] \cap recipients' : HasDelivery(j, r.id)' /\ <<j, r.id>> \in links'
    BY <1>2, <1>12, <1>16 DEF ExpansionInv
  <2>2. \A r \in expansion'.todo : r.id \in 1 .. used'
    BY <1>2, <1>13, <1>17 DEF ExpansionInv
  <2>3. \A r \in audience'[i] \cap recipients' :
            r \in expansion'.todo \/ (HasDelivery(i, r.id) /\ <<i, r.id>> \in links)
    BY <1>2, <1>3, <1>13, <1>17 DEF ExpansionInv
  <2>4. \A r \in audience'[expansion'.intent] \cap recipients' :
            r \in expansion'.todo
            \/ (HasDelivery(expansion.intent, r.id)' /\ <<expansion'.intent, r.id>> \in links')
    BY <1>9, <1>13, <1>16, <2>3 DEF HasDelivery
  <2>. HIDE DEF HasDelivery, i, id
  <2>. QED
    BY <1>3, <1>13, <1>14, <1>15, <1>16, <2>1, <2>2, <2>4 DEF ExpansionInv, Listed
<1>. QED
  BY <1>2, <1>11, <1>18

\* An expansion ends without a trace.
LEMMA ExpansionEnds ==
    ASSUME PairingInv, IntentInv, DeliveryInv, ExpansionInv, NoteAudience,
           expansion' = NoExpansion, UNCHANGED <<alerts, intents, pairingVars, deliveries, links>>
    PROVE  PairingInv' /\ IntentInv' /\ DeliveryInv' /\ ExpansionInv'
<1>1. /\ PairingInv' /\ IntentInv' /\ UNCHANGED <<recipients, used>>
      /\ \A j \in DOMAIN intents : audience'[j] = audience[j]
  BY IntentsKept
<1>2. \A j, r : HasDelivery(j, r)' <=> HasDelivery(j, r)
  BY DEF HasDelivery
<1>3. DeliveryInv'
  BY <1>1 DEF DeliveryInv
<1>4. ExpansionInv'
  BY <1>1, <1>2 DEF ExpansionInv
<1>. QED
  BY <1>1, <1>3, <1>4

\* A delivery is linked, or its recipient is gone.
LEMMA LinkDeliveryStep ==
    ASSUME PairingInv, IntentInv, DeliveryInv, ExpansionInv, NoteAudience, LinkDelivery
    PROVE  PairingInv' /\ IntentInv' /\ DeliveryInv' /\ ExpansionInv'
<1>. DEFINE i == expansion.intent
            next == NextRecipient
<1>1. /\ expansion # NoExpansion /\ expansion.listed /\ expansion.todo # {} /\ expansion.created
      /\ UNCHANGED <<alerts, intents, pairingVars, deliveries>>
  BY DEF LinkDelivery, alertVars
<1>2. CASE next \notin recipients
  <2>1. expansion' = NoExpansion /\ UNCHANGED links
    BY <1>2 DEF LinkDelivery
  <2>. QED
    BY <1>1, <2>1, ExpansionEnds
<1>3. CASE next \in recipients
  <2>1. /\ links' = links \cup {<<i, next.id>>}
        /\ expansion' = [expansion EXCEPT !.todo = expansion.todo \ {next}, !.created = FALSE]
    BY <1>3 DEF LinkDelivery
  <2>2. /\ PairingInv' /\ IntentInv' /\ UNCHANGED <<recipients, used>>
        /\ \A j \in DOMAIN intents : audience'[j] = audience[j]
    BY <1>1, IntentsKept
  <2>3. expansion \in Listed /\ i \in DOMAIN intents
    BY <1>1, ListedExpansion
  <2>4. FALSE \in BOOLEAN
    OBVIOUS
  <2>5. expansion.todo \ {next} \in SUBSET RecipientRec
    BY <2>3 DEF Listed
  <2>. HIDE DEF next
  <2>6. /\ expansion' \in Listed /\ expansion'.intent = i /\ expansion'.listed
        /\ ~expansion'.created /\ expansion'.todo = expansion.todo \ {next}
    BY <2>1, <2>3, <2>4, <2>5 DEF Listed
  <2>7. links \subseteq links' /\ <<i, next.id>> \in links'
    BY <2>1
  <2>. HIDE <2>1
  <2>8. \A j, r : HasDelivery(j, r)' <=> HasDelivery(j, r)
    BY <1>1 DEF HasDelivery
  <2>9. DeliveryInv'
    BY <1>1, <2>2 DEF DeliveryInv
  <2>10. HasDelivery(i, next.id)
    BY <1>1 DEF ExpansionInv, next
  <2>11. \A r \in audience'[i] \cap recipients' :
            r \in expansion'.todo \/ (HasDelivery(i, r.id) /\ <<i, r.id>> \in links')
    BY <1>1, <2>2, <2>3, <2>6, <2>7, <2>10 DEF ExpansionInv
  <2>12. \A r \in audience'[expansion'.intent] \cap recipients' :
            r \in expansion'.todo
            \/ (HasDelivery(expansion.intent, r.id)' /\ <<expansion'.intent, r.id>> \in links')
    BY <1>1, <2>6, <2>11 DEF HasDelivery
  <2>13. \A j \in DOMAIN intents' : intents'[j].expanded =>
            \A r \in audience'[j] \cap recipients' : HasDelivery(j, r.id)' /\ <<j, r.id>> \in links'
    BY <1>1, <2>2, <2>7, <2>8 DEF ExpansionInv
  <2>14. \A r \in expansion'.todo : r.id \in 1 .. used'
    BY <1>1, <2>2, <2>6 DEF ExpansionInv
  <2>15. ExpansionInv'
    BY <1>1, <2>3, <2>6, <2>12, <2>13, <2>14 DEF ExpansionInv, Listed
  <2>. QED
    BY <2>2, <2>9, <2>15
<1>. QED
  BY <1>2, <1>3

\* Everybody listed has a delivery: the announcement is done.
LEMMA MarkExpandedStep ==
    ASSUME PairingInv, IntentInv, DeliveryInv, ExpansionInv, NoteAudience, MarkExpanded
    PROVE  PairingInv' /\ IntentInv' /\ DeliveryInv' /\ ExpansionInv'
<1>. DEFINE i == expansion.intent
            new == [intents[i] EXCEPT !.expanded = TRUE, !.claim = "free"]
<1>1. /\ expansion # NoExpansion /\ expansion.listed /\ expansion.todo = {}
      /\ intents' = [intents EXCEPT ![i] = new] /\ expansion' = NoExpansion
      /\ UNCHANGED <<alerts, pairingVars, deliveries, links>>
  BY DEF MarkExpanded
<1>2. i \in DOMAIN intents
  BY <1>1, ListedExpansion
<1>3. intents[i] \in IntentRec
  BY <1>2, IntentRows
<1>4. TRUE \in BOOLEAN
  OBVIOUS
<1>5. new \in IntentRec /\ new.alert = intents[i].alert
  BY <1>3, <1>4 DEF IntentRec
<1>. HIDE DEF new
<1>6. PairingInv' /\ UNCHANGED <<recipients, used>>
  BY <1>1, PairingKept
<1>7. /\ IntentInv' /\ DOMAIN intents' = DOMAIN intents
      /\ intents'[i] = new /\ \A j \in DOMAIN intents : j # i => intents'[j] = intents[j]
      /\ \A j \in DOMAIN intents : audience'[j] = audience[j]
  BY <1>1, <1>2, <1>5, <1>6, IntentMoves
<1>8. DeliveryInv'
  BY <1>1, <1>6, <1>7 DEF DeliveryInv
<1>9. \A j, r : HasDelivery(j, r)' <=> HasDelivery(j, r)
  BY <1>1 DEF HasDelivery
<1>10. \A r \in audience[i] \cap recipients : HasDelivery(i, r.id) /\ <<i, r.id>> \in links
  BY <1>1 DEF ExpansionInv
<1>11. ASSUME NEW j \in DOMAIN intents, intents'[j].expanded
       PROVE  \A r \in audience[j] \cap recipients : HasDelivery(j, r.id) /\ <<j, r.id>> \in links
  <2>1. CASE j = i
    BY <1>10, <2>1
  <2>2. CASE j # i
    BY <1>7, <1>11, <2>2 DEF ExpansionInv
  <2>. QED
    BY <2>1, <2>2
<1>12. \A j \in DOMAIN intents' : intents'[j].expanded =>
           \A r \in audience'[j] \cap recipients' : HasDelivery(j, r.id)' /\ <<j, r.id>> \in links'
  BY <1>1, <1>6, <1>7, <1>9, <1>11
<1>13. ExpansionInv'
  BY <1>1, <1>12 DEF ExpansionInv
<1>. QED
  BY <1>6, <1>7, <1>8, <1>13

\* Steps of the notification worker.
LEMMA NotificationsStep ==
    ASSUME PairingInv, IntentInv, DeliveryInv, ExpansionInv, OfNotifications, NoteAudience
    PROVE  /\ PairingInv' /\ IntentInv' /\ DeliveryInv' /\ ExpansionInv'
           /\ UNCHANGED <<clock, telemetry, health, projection, engine, alerts, heard, lastSeen>>
<1>1. \/ ClaimNext \/ (\E i \in DOMAIN intents : ClaimAges(i)) \/ ListEnabledRecipients
      \/ CreateDelivery \/ LinkDelivery \/ MarkExpanded \/ AbandonExpansion
  BY DEF OfNotifications, WorkerStep
<1>2. UNCHANGED <<clock, telemetry, health, projection, engine, alerts, heard, lastSeen>>
  BY <1>1 DEF ClaimNext, ClaimAges, ListEnabledRecipients, CreateDelivery, LinkDelivery,
              MarkExpanded, AbandonExpansion, alertVars
<1>3. CASE AbandonExpansion
  <2>1. expansion' = NoExpansion /\ UNCHANGED <<alerts, intents, pairingVars, deliveries, links>>
    BY <1>3 DEF AbandonExpansion, alertVars
  <2>. QED
    BY <1>2, <2>1, ExpansionEnds
<1>. QED
  BY <1>1, <1>2, <1>3, ClaimStep, ListEnabledRecipientsStep, CreateDeliveryStep,
     LinkDeliveryStep, MarkExpandedStep

(***************************************************************************)
(* The invariant is inductive                                              *)
(***************************************************************************)
\* ... it holds at the start,
LEMMA InvInit == Init => Inv
<1>. SUFFICES ASSUME Init PROVE Inv
  OBVIOUS
<1>1. PICK s \in Scenarios : /\ clock = s.clock /\ recipients = s.recipients /\ budget = s.budget
                             /\ used = Cardinality(s.recipients)
  BY DEF Init
<1>2. /\ telemetry = [q \in Servers |-> NoSnapshot] /\ health = [q \in Servers |-> NoHealth]
      /\ projection = [now |-> 0, todo |-> {}] /\ engine = [now |-> 0, todo |-> <<>>]
      /\ alerts = <<>> /\ intents = <<>> /\ heard = [q \in Servers |-> 0]
      /\ lastSeen = [q \in Servers |-> [c \in Checks |-> 0]]
      /\ sessions = [k \in Sessions |-> PairingSession("none", "none")]
      /\ updates = <<>> /\ nextUpdate = 1 /\ poll = NoPoll
      /\ contacts = [a \in Accounts |-> NoRecipient] /\ paired = {}
      /\ expansion = NoExpansion /\ deliveries = <<>> /\ links = {} /\ audience = <<>>
  BY DEF Init, AlertInit, PairingInit
<1>3. clock \in Nat /\ IsFiniteSet(s.recipients)
      /\ s.recipients \subseteq [id : 1 .. Cardinality(s.recipients), chat : Chats]
  BY <1>1, ScenariosAssumption
<1>4. used \in Nat /\ recipients \subseteq RecipientRec /\ \A r \in recipients : r.id \in 1 .. used
  <2>1. used \in Nat
    BY <1>1, <1>3, FS_CardinalityType
  <2>2. recipients \subseteq [id : 1 .. used, chat : Chats]
    BY <1>1, <1>3
  <2>. QED
    BY <2>1, <2>2 DEF RecipientRec
<1>5. HealthInv
  <2>1. \A q \in Servers : telemetry[q] = NoSnapshot /\ health[q] = NoHealth /\ heard[q] = 0
    BY <1>2
  <2>2. projection \in [now : Nat, todo : {{}}] /\ projection.now = 0 /\ projection.todo = {}
    BY <1>2
  <2>3. telemetry \in [Servers -> Snapshots] /\ heard \in [Servers -> Nat]
        /\ health = [q \in Servers |-> health[q]] /\ NoSnapshot.received = 0
    BY <1>2 DEF Snapshots, NoSnapshot
  <2>. HIDE DEF NoHealth, NoSnapshot
  <2>. QED
    BY <1>3, <2>1, <2>2, <2>3 DEF HealthInv
<1>6. EngineInv
  <2>. DEFINE none == <<>>
  <2>1. none \in Seq(CheckRow) /\ DOMAIN none = {}
    BY EmptySeq
  <2>2. engine = [now |-> 0, todo |-> none]
    BY <1>2
  <2>. HIDE DEF none
  <2>3. engine \in [now : Nat, todo : Seq(CheckRow)] /\ engine.now = 0 /\ engine.todo = none
    BY <2>1, <2>2
  <2>4. engine.todo = <<>>
    BY <2>3 DEF none
  <2>5. lastSeen \in [Servers -> [Checks -> Nat]] /\ \A q \in Servers, c \in Checks : lastSeen[q][c] = 0
    BY <1>2
  <2>. QED
    BY <1>3, <2>1, <2>3, <2>4, <2>5 DEF EngineInv
<1>7. EpisodeInv
  <2>1. alerts \in Seq(AlertRec) /\ DOMAIN alerts = {}
    BY <1>2, EmptySeq
  <2>. QED
    BY <2>1 DEF EpisodeInv, QuietAfterResolve
<1>8. PairingInv
  <2>. DEFINE none == PairingSession("none", "none")
  <2>1. none \in SessionRec /\ none.recipient = NoRecipient
    BY DEF PairingSession, SessionRec, NoRecipient
  <2>2. sessions = [k \in Sessions |-> none]
    BY <1>2
  <2>. HIDE DEF none
  <2>3. sessions \in [Sessions -> SessionRec] /\ \A k \in Sessions : sessions[k].recipient = NoRecipient
    BY <2>1, <2>2
  <2>4. contacts \in [Accounts -> Nat] /\ \A a \in Accounts : contacts[a] = NoRecipient
    BY <1>2 DEF NoRecipient
  <2>5. paired \in SUBSET (Sessions \X Chats)
    BY <1>2
  <2>6. Tables \in PairState
    BY <1>4, <2>3, <2>4, <2>5 DEF Tables, PairState
  <2>7. Referenced(Tables)
    BY <1>4, <2>3, <2>4 DEF Tables, Referenced
  <2>8. updates \in Seq([chat : Chats, session : Sessions]) /\ DOMAIN updates = {} /\ Len(updates) = 0
    BY <1>2, EmptySeq
  <2>9. nextUpdate \in 1 .. Len(updates) + 1 /\ ConfirmedTo(Tables, nextUpdate - 1)
    BY <1>2, <2>8 DEF ConfirmedTo
  <2>. QED
    BY <1>2, <2>6, <2>7, <2>8, <2>9 DEF PairingInv
<1>9. intents \in Seq(IntentRec) /\ DOMAIN intents = {} /\ audience = [i \in {} |-> audience[i]]
  BY <1>2, EmptySeq
<1>10. IntentInv
  BY <1>9 DEF IntentInv
<1>11. DeliveryInv
  <2>1. deliveries \in Seq([intent : Nat, recipient : Nat]) /\ DOMAIN deliveries = {}
    BY <1>2, EmptySeq
  <2>. QED
    BY <2>1 DEF DeliveryInv
<1>12. ExpansionInv
  BY <1>2, <1>9 DEF ExpansionInv
<1>. QED
  BY <1>5, <1>6, <1>7, <1>8, <1>10, <1>11, <1>12 DEF Inv

\* ... every step keeps it,
LEMMA InvNext == Inv /\ [Next]_vars => Inv'
<1>. SUFFICES ASSUME Inv, [Next]_vars PROVE Inv'
  OBVIOUS
<1>1. HealthInv /\ EngineInv /\ EpisodeInv /\ PairingInv /\ IntentInv /\ DeliveryInv /\ ExpansionInv
  BY DEF Inv
<1>2. CASE Tick /\ UNCHANGED <<pairingVars, notifyVars>> /\ NoteAudience
  BY <1>1, <1>2, HealthStep, Announced DEF Inv
<1>3. CASE (OfEngine \/ OfHealth) /\ NoteAudience
  <2>1. UNCHANGED <<pairingVars, notifyVars>>
    BY <1>3 DEF OfEngine, OfHealth
  <2>. QED
    BY <1>1, <1>3, <2>1, EngineStep, HealthStep, Announced DEF Inv
<1>4. CASE OfPairing /\ NoteAudience
  <2>1. UNCHANGED <<clock, telemetry, health, projection, engine, alerts, heard, lastSeen>>
    BY <1>4 DEF OfPairing, alertVars
  <2>. QED
    BY <1>1, <1>4, <2>1, AlertingKept, PairingStep DEF Inv
<1>5. CASE OfNotifications /\ NoteAudience
  BY <1>1, <1>5, AlertingKept, NotificationsStep DEF Inv
<1>6. CASE UNCHANGED vars
  <2>1. /\ UNCHANGED <<clock, telemetry, health, projection, engine, alerts, heard, lastSeen>>
        /\ UNCHANGED <<pairingVars, notifyVars>> /\ UNCHANGED <<alerts, intents, audience>>
    BY <1>6 DEF vars, alertVars, notifyVars
  <2>2. NoteAudience
    <3>1. audience = [i \in DOMAIN intents |-> audience[i]] /\ DOMAIN audience = DOMAIN intents
      BY <1>1 DEF IntentInv
    <3>. QED
      BY <2>1, <3>1 DEF NoteAudience
  <2>. QED
    BY <1>1, <2>1, <2>2, AlertingKept, Announced DEF Inv, IntentsGrow
<1>. QED
  BY <1>2, <1>3, <1>4, <1>5, <1>6 DEF Next

\* ... and so it always holds.
LEMMA Invariance == Spec => []Inv
  BY InvInit, InvNext, PTL DEF Spec

(***************************************************************************)
(* The theorems                                                            *)
(***************************************************************************)
\* Every variable of the tables and of the workers keeps its shape (TypeOK), for any number of
\* servers, chats and links and for any sequence of faults.
THEOREM TypeCorrect == Spec => []TypeOK
<1>. SUFFICES ASSUME Inv PROVE TypeOK
  BY Invariance, PTL
<1>1. HealthInv /\ EngineInv /\ EpisodeInv /\ PairingInv /\ IntentInv /\ DeliveryInv /\ ExpansionInv
  BY DEF Inv
<1>2. AlertTypeOK
  <2>1. clock \in Nat /\ engine.now \in Nat /\ engine.now <= clock
    BY <1>1, TodoRows DEF HealthInv, EngineInv
  <2>2. \A s \in Servers : telemetry[s].received \in 0 .. clock
    BY <1>1 DEF HealthInv, Snapshots, NoSnapshot
  <2>3. projection.now \in 0 .. clock
    BY <1>1 DEF HealthInv
  <2>4. ASSUME NEW i \in DOMAIN alerts
        PROVE  /\ alerts[i].server \in Servers /\ alerts[i].check \in Checks
               /\ alerts[i].state \in {"pending", "firing", "resolved"}
               /\ alerts[i].severity \in {"warning", "critical"}
               /\ {alerts[i].started, alerts[i].fired, alerts[i].resolved, alerts[i].recovery}
                     \subseteq 0 .. clock
    <3>1. alerts[i] \in AlertRec /\ Timed(alerts[i])
      BY <1>1, AlertRows DEF EpisodeInv
    <3>. QED
      BY <2>1, <3>1 DEF AlertRec, Timed
  <2>5. \A i \in DOMAIN intents : intents[i].alert \in DOMAIN alerts
    BY <1>1 DEF IntentInv
  <2>6. engine.now \in 0 .. clock
    BY <2>1
  <2>. QED
    BY <2>1, <2>2, <2>3, <2>4, <2>5, <2>6 DEF AlertTypeOK
<1>3. PairingTypeOK
  <2>1. /\ sessions \in [Sessions -> SessionRec] /\ recipients \subseteq RecipientRec /\ used \in Nat
        /\ contacts \in [Accounts -> Nat] /\ \A r \in recipients : r.id \in 1 .. used
    BY <1>1, TableRows
  <2>2. /\ \A k \in Sessions : sessions[k].recipient # NoRecipient =>
              \E r \in recipients : r.id = sessions[k].recipient
        /\ \A a \in Accounts : contacts[a] # NoRecipient => \E r \in recipients : r.id = contacts[a]
    BY <1>1 DEF PairingInv, Tables, Referenced
  <2>3. \A k \in Sessions : sessions[k].recipient \in 0 .. used
    BY <2>1, <2>2 DEF NoRecipient
  <2>4. sessions \in [Sessions -> [status : {"none", "started", "expired"},
                                   account : Accounts \cup {"none"}, recipient : 0 .. used]]
    BY <2>1, <2>3 DEF SessionRec
  <2>5. contacts \in [Accounts -> 0 .. used]
    <3>1. \A a \in Accounts : contacts[a] \in 0 .. used
      BY <2>1, <2>2 DEF NoRecipient
    <3>. QED
      BY <2>1, <3>1
  <2>6. recipients \subseteq Recipient
    BY <2>1 DEF Recipient, RecipientRec
  <2>. QED
    BY <1>1, <2>4, <2>5, <2>6 DEF PairingTypeOK, PairingInv
<1>4. expansion.intent \in 0 .. Len(intents)
  <2>1. Len(intents) \in Nat /\ DOMAIN intents = 1 .. Len(intents)
    BY <1>1, IntentRows
  <2>2. CASE expansion = NoExpansion
    <3>1. NoExpansion.intent = 0
      BY DEF NoExpansion
    <3>. QED
      BY <2>1, <2>2, <3>1
  <2>3. CASE expansion # NoExpansion
    BY <1>1, <2>1, <2>3 DEF ExpansionInv
  <2>. QED
    BY <2>2, <2>3
<1>5. ASSUME NEW d \in DOMAIN deliveries
      PROVE  deliveries[d].intent \in DOMAIN intents /\ deliveries[d].recipient \in 1 .. used
             /\ ResolvedIntent(d) \in DOMAIN intents
  <2>1. deliveries[d].intent \in DOMAIN intents /\ deliveries[d].recipient \in 1 .. used
    BY <1>1 DEF DeliveryInv
  <2>. DEFINE key == <<deliveries[d].intent, deliveries[d].recipient>>
              linked == {l[1] : l \in {l \in links : l = key}}
  <2>2. \A i \in linked : i = deliveries[d].intent
    OBVIOUS
  <2>3. ResolvedIntent(d) = IF linked # {} THEN CHOOSE i \in linked : TRUE ELSE deliveries[d].intent
    BY DEF ResolvedIntent
  <2>. HIDE DEF linked
  <2>4. ResolvedIntent(d) = deliveries[d].intent
    BY <2>2, <2>3
  <2>. QED
    BY <2>1, <2>4
<1>. QED
  BY <1>2, <1>3, <1>4, <1>5 DEF TypeOK

\* Flapping protection (effectiveFireDelay): between the end of an episode and the firing of a
\* later one of the same check lies the flap delay, for all delays that the policy may have.
THEOREM FlappingIsQuiet == Spec => []QuietAfterResolve
<1>1. Inv => QuietAfterResolve
  BY DEF Inv, EpisodeInv
<1>. QED
  BY <1>1, Invariance, PTL

\* No pairing is lost between Telegram's answer and the commit (processUpdates): a confirmed
\* message has had its effect, and links and accounts refer to recipients there are.
THEOREM NoPairingLost == Spec => []ConfirmedIsPaired
<1>1. Inv => ConfirmedIsPaired
  <2>. SUFFICES ASSUME Inv PROVE ConfirmedIsPaired
    OBVIOUS
  <2>1. PairingInv
    BY DEF Inv
  <2>2. \A m \in 1 .. (nextUpdate - 1) : sessions[updates[m].session].status = "started" =>
            \E chat \in Chats : <<updates[m].session, chat>> \in paired
    BY <2>1 DEF PairingInv, ConfirmedTo, Tables
  <2>3. /\ \A k \in Sessions : sessions[k].recipient # NoRecipient =>
              \E r \in recipients : r.id = sessions[k].recipient /\ <<k, r.chat>> \in paired
        /\ \A a \in Accounts : contacts[a] # NoRecipient =>
              \E r \in recipients : r.id = contacts[a]
    BY <2>1 DEF PairingInv, Tables, Referenced
  <2>. QED
    BY <2>2, <2>3 DEF ConfirmedIsPaired
<1>. QED
  BY <1>1, Invariance, PTL

\* Each recipient hears once (CreateSystemNotification, LinkDelivery): however often the expansion
\* of an intent is begun anew, nobody has two deliveries of it, and none who was and still is a
\* recipient is left out.
THEOREM HearsOnce == Spec => []EachHearsOnce
<1>1. Inv => EachHearsOnce
  <2>. SUFFICES ASSUME Inv PROVE EachHearsOnce
    OBVIOUS
  <2>. DEFINE copies(i, r) == {d \in DOMAIN deliveries :
                                 deliveries[d].intent = i /\ deliveries[d].recipient = r}
  <2>1. DeliveryInv /\ ExpansionInv
    BY DEF Inv
  <2>2. \A d \in DOMAIN deliveries : deliveries[d] \in [intent : Nat, recipient : Nat]
    BY <2>1, ElementOfSeq, LenProperties DEF DeliveryInv
  <2>3. ASSUME NEW i, NEW r, NEW d \in copies(i, r), NEW e \in copies(i, r)
        PROVE  d = e
    <3>1. deliveries[d] = [intent |-> i, recipient |-> r] /\ deliveries[e] = [intent |-> i, recipient |-> r]
      BY <2>2
    <3>. QED
      BY <2>1, <3>1 DEF DeliveryInv
  <2>4. ASSUME NEW i, NEW r
        PROVE  Cardinality(copies(i, r)) <= 1
    <3>1. CASE copies(i, r) = {}
      <4>1. Cardinality(copies(i, r)) = 0
        BY <3>1, FS_EmptySet
      <4>. QED
        BY <4>1
    <3>2. CASE copies(i, r) # {}
      <4>1. PICK d \in copies(i, r) : TRUE
        BY <3>2
      <4>2. copies(i, r) = {d}
        BY <2>3, <4>1
      <4>3. Cardinality({d}) = 1
        BY FS_Singleton
      <4>. QED
        BY <4>2, <4>3
    <3>. QED
      BY <3>1, <3>2
  <2>5. ASSUME NEW i \in DOMAIN intents, intents[i].expanded, NEW r \in audience[i] \cap recipients
        PROVE  copies(i, r.id) # {} /\ <<i, r.id>> \in links
    <3>1. HasDelivery(i, r.id) /\ <<i, r.id>> \in links
      BY <2>1, <2>5 DEF ExpansionInv
    <3>2. PICK d \in DOMAIN deliveries : deliveries[d] = SystemNotification(i, r.id)
      BY <3>1 DEF HasDelivery
    <3>3. d \in copies(i, r.id)
      BY <3>2 DEF SystemNotification
    <3>. QED
      BY <3>1, <3>3
  <2>. HIDE DEF copies
  <2>6. \A i \in DOMAIN intents :
          /\ \A r \in 1 .. used : Cardinality(copies(i, r)) <= 1
          /\ intents[i].expanded =>
                \A r \in audience[i] \cap recipients : copies(i, r.id) # {} /\ <<i, r.id>> \in links
    BY <2>4, <2>5
  <2>. QED
    BY <2>6 DEF EachHearsOnce, copies
<1>. QED
  BY <1>1, Invariance, PTL

\* An episode is only resolved by the evaluation of its check.
LEMMA ResolvedBy ==
    ASSUME Inv, [Next]_vars, NEW i \in DOMAIN alerts', Resolves(i)
    PROVE  RecoverIfNeeded /\ i = Record
<1>1. /\ i \in DOMAIN alerts /\ alerts[i].state = "firing" /\ alerts'[i].state = "resolved"
  BY DEF Resolves
<1>2. EngineInv /\ EpisodeInv
  BY DEF Inv
<1>3. ~UNCHANGED alerts
  BY <1>1
<1>4. \/ CreatePending \/ RecoverIfNeeded \/ ClearRecovery \/ ChangeSeverity \/ FireOrTouch
  BY <1>3 DEF Next, OfEngine, OfHealth, OfPairing, OfNotifications, WorkerStep, Tick, Report,
              BeginProjection, ApplyChecks, AbandonProjection, AbandonEvaluation, BeginEvaluation,
              NothingToDo, ClaimNext, ClaimAges, ListEnabledRecipients, CreateDelivery,
              LinkDelivery, MarkExpanded, AbandonExpansion, alertVars, vars
<1>5. ~CreatePending
  <2>. SUFFICES ASSUME CreatePending PROVE FALSE
    OBVIOUS
  <2>. DEFINE new == PendingAlert
  <2>1. alerts' = Append(alerts, new) /\ alerts \in Seq(AlertRec)
    BY <1>2 DEF CreatePending, EpisodeInv
  <2>. HIDE DEF new
  <2>2. alerts'[i] = alerts[i]
    BY <1>1, <2>1
  <2>. QED
    BY <1>1, <2>2
<1>6. ASSUME RecoverIfNeeded \/ ClearRecovery \/ ChangeSeverity \/ FireOrTouch
      PROVE  Record \in DOMAIN alerts /\ (i # Record => alerts'[i] = alerts[i])
  <2>1. Evaluating(TRUE)
    BY <1>6 DEF RecoverIfNeeded, ClearRecovery, ChangeSeverity, FireOrTouch
  <2>2. Record \in DOMAIN alerts
    BY <2>1, TheRecord
  <2>3. i # Record => alerts'[i] = alerts[i]
    BY <1>1, <1>6 DEF RecoverIfNeeded, ResolveIfActive, StartRecovery, ClearRecovery,
                      ChangeSeverity, FireOrTouch
  <2>. QED
    BY <2>2, <2>3
<1>7. ASSUME i = Record, ClearRecovery \/ ChangeSeverity \/ FireOrTouch
      PROVE  FALSE
  <2>1. Record \in DOMAIN alerts /\ alerts[i] \in AlertRec
    BY <1>1, <1>2, <1>6, <1>7, AlertRows
  <2>. DEFINE old == alerts[i]
  <2>2. CASE ClearRecovery
    <3>. DEFINE new == [old EXCEPT !.recovery = Never]
    <3>1. alerts' = [alerts EXCEPT ![i] = new]
      BY <1>7, <2>2 DEF ClearRecovery
    <3>2. new.state = old.state
      BY <2>1 DEF AlertRec
    <3>. HIDE DEF new
    <3>. QED
      BY <1>1, <3>1, <3>2
  <2>3. CASE ChangeSeverity
    <3>. DEFINE new == [old EXCEPT !.severity = Severity, !.recovery = Never]
    <3>1. alerts' = [alerts EXCEPT ![i] = new]
      BY <1>7, <2>3 DEF ChangeSeverity
    <3>2. new.state = old.state
      BY <2>1 DEF AlertRec
    <3>. HIDE DEF new
    <3>. QED
      BY <1>1, <3>1, <3>2
  <2>4. CASE FireOrTouch
    <3>. DEFINE new == [old EXCEPT !.state = "firing", !.fired = engine.now, !.recovery = Never]
    <3>1. alerts' = [alerts EXCEPT ![i] = new]
      BY <1>3, <1>7, <2>4 DEF FireOrTouch
    <3>2. new.state = "firing"
      BY <2>1 DEF AlertRec
    <3>. HIDE DEF new
    <3>. QED
      BY <1>1, <3>1, <3>2
  <2>. QED
    BY <1>7, <2>2, <2>3, <2>4
<1>. QED
  BY <1>1, <1>4, <1>5, <1>6, <1>7

\* Hysteresis (recoverIfNeeded): an incident is resolved a whole recovery delay after the last
\* evaluation that recorded its condition, whatever was evaluated late or not at all.
THEOREM SteadyResolves == Spec => SteadyBeforeResolve
<1>1. Inv /\ [Next]_vars =>
        [\A i \in DOMAIN alerts' : Resolves(i) =>
            engine.now >= lastSeen[alerts[i].server][alerts[i].check] + RecoveryDelay]_alertVars
  <2>. SUFFICES ASSUME Inv, [Next]_vars, NEW i \in DOMAIN alerts', Resolves(i)
                PROVE  engine.now >= lastSeen[alerts[i].server][alerts[i].check] + RecoveryDelay
    OBVIOUS
  <2>1. EngineInv /\ EpisodeInv
    BY DEF Inv
  <2>2. RecoverIfNeeded /\ i = Record
    BY ResolvedBy
  <2>3. /\ alerts[i] \in AlertRec /\ Timed(alerts[i]) /\ engine.now \in Nat
        /\ alerts[i].server \in Servers /\ alerts[i].check \in Checks /\ alerts[i].recovery \in Nat
    BY <2>1, <2>2, RecordFacts, AlertRows DEF RecoverIfNeeded
  <2>4. alerts[i].state = "firing" /\ alerts'[i].state = "resolved" /\ i \in DOMAIN alerts
    BY DEF Resolves
  <2>5. ~StartRecovery
    <3>. SUFFICES ASSUME StartRecovery PROVE FALSE
      OBVIOUS
    <3>. DEFINE new == [alerts[i] EXCEPT !.recovery = IF alerts[i].recovery = Never THEN engine.now
                                                      ELSE alerts[i].recovery]
    <3>1. alerts' = [alerts EXCEPT ![i] = new]
      BY <2>2 DEF StartRecovery
    <3>2. new.state = "firing"
      BY <2>3, <2>4 DEF AlertRec
    <3>. HIDE DEF new
    <3>. QED
      BY <2>4, <3>1, <3>2
  <2>6. alerts[i].recovery # Never /\ engine.now >= alerts[i].recovery + RecoveryDelay
    BY <2>2, <2>4, <2>5 DEF RecoverIfNeeded
  <2>7. lastSeen[alerts[i].server][alerts[i].check] <= alerts[i].recovery
    BY <2>3, <2>6 DEF Timed
  <2>8. lastSeen[alerts[i].server][alerts[i].check] \in Nat
    BY <2>1, <2>3 DEF EngineInv
  <2>. QED
    BY <2>3, <2>6, <2>7, <2>8, Delays
<1>. QED
  BY <1>1, Invariance, PTL DEF Spec, SteadyBeforeResolve

\* A condition of a component is one of evidence that is not outdated.
LEMMA FreshCondition ==
    ASSUME EngineInv, HealthInv, ~Evaluated, Triggered, Current.check # "freshness"
    PROVE  engine.now < heard[Current.server] + Ttl
<1>1. /\ Current \in CheckRow /\ Current.server \in Servers /\ engine.now \in Nat
      /\ Dated(heard[Current.server], Current.row)
  BY AtCheck
<1>2. ~Outdated(Current.row, engine.now)
  BY DEF Triggered, Severity, EvaluateAlertCondition
<1>3. Current.row.expires \in 1 .. heard[Current.server] + Ttl
  BY <1>1, <1>2 DEF Dated, Outdated
<1>4. Current.row.expires # Never /\ heard[Current.server] \in Nat
  BY <1>1, <1>3 DEF Never, HealthInv
<1>. QED
  BY <1>1, <1>2, <1>3, <1>4, Delays DEF Outdated

\* An episode starts or fires only while its check has a condition.
LEMMA RisenBy ==
    ASSUME Inv, [Next]_vars, ~UNCHANGED alertVars, NEW i \in DOMAIN alerts', Rises(i)
    PROVE  /\ ~Evaluated /\ Triggered
           /\ alerts'[i].server = Current.server /\ alerts'[i].check = Current.check
<1>1. EngineInv /\ EpisodeInv
  BY DEF Inv
<1>2. DOMAIN alerts = 1 .. Len(alerts) /\ Len(alerts) \in Nat /\ alerts \in Seq(AlertRec)
  BY <1>1, AlertRows DEF EpisodeInv
<1>3. i \in DOMAIN alerts => alerts[i].state # "firing" /\ alerts'[i].state = "firing"
  BY DEF Rises
<1>4. ~UNCHANGED alerts
  BY <1>3
<1>5. \/ CreatePending \/ RecoverIfNeeded \/ ClearRecovery \/ ChangeSeverity \/ FireOrTouch
  BY <1>4 DEF Next, OfEngine, OfHealth, OfPairing, OfNotifications, WorkerStep, Tick, Report,
              BeginProjection, ApplyChecks, AbandonProjection, AbandonEvaluation, BeginEvaluation,
              NothingToDo, ClaimNext, ClaimAges, ListEnabledRecipients, CreateDelivery,
              LinkDelivery, MarkExpanded, AbandonExpansion, alertVars, vars
<1>6. CASE CreatePending
  <2>. DEFINE new == PendingAlert
  <2>1. alerts' = Append(alerts, new) /\ ~Evaluated /\ Triggered
    BY <1>6, NoRecord DEF CreatePending
  <2>2. new.server = Current.server /\ new.check = Current.check
    BY DEF PendingAlert
  <2>. HIDE DEF new
  <2>3. DOMAIN alerts' = 1 .. Len(alerts) + 1
        /\ \A j \in DOMAIN alerts : alerts'[j] = alerts[j]
        /\ alerts'[Len(alerts) + 1] = new
    BY <1>2, <2>1
  <2>4. i = Len(alerts) + 1
    BY <1>2, <1>3, <2>3
  <2>. QED
    BY <2>1, <2>2, <2>3, <2>4
<1>7. ASSUME RecoverIfNeeded \/ ClearRecovery \/ ChangeSeverity \/ FireOrTouch
      PROVE  /\ ~Evaluated /\ i = Record /\ i \in DOMAIN alerts /\ alerts[i] \in AlertRec
             /\ alerts[i].server = Current.server /\ alerts[i].check = Current.check
  <2>1. Evaluating(TRUE)
    BY <1>7 DEF RecoverIfNeeded, ClearRecovery, ChangeSeverity, FireOrTouch
  <2>2. /\ ~Evaluated /\ Record \in DOMAIN alerts /\ alerts[Record] \in AlertRec
        /\ alerts[Record].server = Current.server /\ alerts[Record].check = Current.check
    BY <1>1, <2>1, RecordFacts
  <2>3. DOMAIN alerts' = DOMAIN alerts /\ (i # Record => alerts'[i] = alerts[i])
    BY <1>7 DEF RecoverIfNeeded, ResolveIfActive, StartRecovery, ClearRecovery,
                ChangeSeverity, FireOrTouch
  <2>4. i = Record
    BY <1>3, <2>3
  <2>. QED
    BY <2>2, <2>4
<1>8. CASE RecoverIfNeeded
  <2>. DEFINE old == alerts[i]
              over == [old EXCEPT !.state = "resolved", !.resolved = engine.now, !.recovery = Never]
              ending == [old EXCEPT !.recovery = IF old.recovery = Never THEN engine.now ELSE old.recovery]
  <2>1. i = Record /\ i \in DOMAIN alerts /\ old \in AlertRec
    BY <1>7, <1>8
  <2>2. alerts' = [alerts EXCEPT ![i] = over] \/ alerts' = [alerts EXCEPT ![i] = ending]
    BY <1>8, <2>1 DEF RecoverIfNeeded, ResolveIfActive, StartRecovery
  <2>3. over.state = "resolved" /\ ending.state = old.state
    BY <2>1 DEF AlertRec
  <2>. HIDE DEF over, ending
  <2>4. alerts'[i].state # "firing"
    BY <1>3, <2>1, <2>2, <2>3
  <2>. QED
    BY <1>3, <2>1, <2>4
<1>9. CASE ClearRecovery \/ ChangeSeverity \/ FireOrTouch
  <2>. DEFINE old == alerts[i]
              cleared == [old EXCEPT !.recovery = Never]
              changed == [old EXCEPT !.severity = Severity, !.recovery = Never]
              fired == [old EXCEPT !.state = "firing", !.fired = engine.now, !.recovery = Never]
  <2>1. Triggered /\ i = Record
    BY <1>7, <1>9 DEF ClearRecovery, ChangeSeverity, FireOrTouch
  <2>2. \E new \in {cleared, changed, fired} : alerts' = [alerts EXCEPT ![i] = new]
    BY <1>4, <1>9, <2>1 DEF ClearRecovery, ChangeSeverity, FireOrTouch
  <2>3. \A new \in {cleared, changed, fired} : new.server = old.server /\ new.check = old.check
    BY <1>7, <1>9 DEF AlertRec
  <2>. HIDE DEF cleared, changed, fired
  <2>4. alerts'[i].server = old.server /\ alerts'[i].check = old.check
    BY <1>7, <1>9, <2>2, <2>3
  <2>. QED
    BY <1>7, <1>9, <2>1, <2>4
<1>. QED
  BY <1>5, <1>6, <1>8, <1>9

\* One connectivity alert (EvaluateAlertCondition): an episode of a component starts or fires only
\* while the last snapshot of its server is fresh, however far the health worker lags behind.
THEOREM OneAlertWhenSilent == Spec => OneConnectivityAlert
<1>1. Inv /\ [Next]_vars =>
        [\A i \in DOMAIN alerts' : alerts'[i].check # "freshness" /\ Rises(i) =>
            engine.now < heard[alerts'[i].server] + Ttl]_alertVars
  <2>. SUFFICES ASSUME Inv, [Next]_vars, ~UNCHANGED alertVars,
                       NEW i \in DOMAIN alerts', alerts'[i].check # "freshness", Rises(i)
                PROVE  engine.now < heard[alerts'[i].server] + Ttl
    OBVIOUS
  <2>1. EngineInv /\ HealthInv
    BY DEF Inv
  <2>2. /\ ~Evaluated /\ Triggered
        /\ alerts'[i].server = Current.server /\ alerts'[i].check = Current.check
    BY RisenBy
  <2>. QED
    BY <2>1, <2>2, FreshCondition
<1>. QED
  BY <1>1, Invariance, PTL DEF Spec, OneConnectivityAlert
=============================================================================
