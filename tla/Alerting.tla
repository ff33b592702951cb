------------------------------ MODULE Alerting ------------------------------
(***************************************************************************)
(* From an Agent's telemetry to health checks, alert episodes and          *)
(* notification intents (backend/internal/observability: agent_health,     *)
(* health_worker, alert_policy, alert_engine, alert_repository).           *)
(*                                                                         *)
(* Two workers of the Manager share tables and nothing else: the health    *)
(* worker turns the last snapshot of each server into the current checks,  *)
(* the alert engine turns the checks into episodes.  An evaluation reads   *)
(* all checks at once, fixes its time, and writes statement by statement;  *)
(* any of them may fail, and what was written before stays.                *)
(*                                                                         *)
(* The unit of time is the interval of the workers, in which an Agent      *)
(* reports once at most and a worker begins one evaluation at most.        *)
(* Memory and disk are evaluated alike and are one check here.             *)
(***************************************************************************)
EXTENDS Integers, Sequences, FiniteSets

CONSTANTS
    Servers,
    Samples,             \* what an Agent may report: of capacity and of the VPN core
    Ttl,                 \* AgentTelemetryHealthTTL
    CriticalFireDelay, WarningFireDelay,
    RecoveryDelay,       \* AlertRecoveryDelay
    FlapWindow, FlapFireDelay

ASSUME DelaysAssumption ==
    /\ {Ttl, CriticalFireDelay, WarningFireDelay, RecoveryDelay, FlapWindow, FlapFireDelay}
          \subseteq Nat \ {0}
    /\ CriticalFireDelay <= WarningFireDelay
    /\ FlapFireDelay <= FlapWindow

ASSUME ServersAssumption == IsFiniteSet(Servers)

ASSUME SamplesAssumption ==
    Samples \subseteq [capacity : {"ok", "low", "critical", "missing"},
                       core : {"active", "transitioning", "down", "absent", "odd"}]

VARIABLES
    clock,        \* the time
    telemetry,    \* observability_agent_telemetry: the last snapshot of a server
    health,       \* observability_current_health
    projection,   \* the evaluation of the health worker
    engine,       \* the evaluation of the alert engine
    alerts,       \* observability_alerts, in the order of their creation
    intents,      \* observability_notification_intents
    heard,        \* note: when the last snapshot of a server was received
    lastSeen      \* note: when an evaluation last recorded the condition of a check

alertVars == <<clock, telemetry, health, projection, engine, alerts, intents, heard, lastSeen>>

Checks == {"freshness", "capacity", "core"}
CheckOrder == <<"freshness", "capacity", "core">>
Never == 0
Projected == projection.todo = {}
Evaluated == engine.todo = <<>>
NoSnapshot == [received |-> 0]
NoHealth == [c \in {} |-> 0]

AlertInit ==
    /\ telemetry = [s \in Servers |-> NoSnapshot]
    /\ health = [s \in Servers |-> NoHealth]
    /\ projection = [now |-> 0, todo |-> {}]
    /\ engine = [now |-> 0, todo |-> <<>>]
    /\ alerts = <<>> /\ intents = <<>>
    /\ heard = [s \in Servers |-> 0]
    /\ lastSeen = [s \in Servers |-> [c \in Checks |-> 0]]

Tick ==
    /\ clock' = clock + 1
    /\ UNCHANGED <<telemetry, health, projection, engine, alerts, intents, heard, lastSeen>>

-----------------------------------------------------------------------------
(* Health *)

TelemetrySnapshot(sample) == [received |-> clock, sample |-> sample]

(* UpsertAgentTelemetry: only the last snapshot is kept. *)
Report(s) ==
    /\ heard[s] < clock
    /\ \E sample \in Samples :
          telemetry' = [telemetry EXCEPT ![s] = TelemetrySnapshot(sample)]
    /\ heard' = [heard EXCEPT ![s] = clock]
    /\ UNCHANGED <<clock, health, projection, engine, alerts, intents, lastSeen>>

CapacityState(level) ==
    CASE level = "ok" -> "healthy" [] level = "low" -> "degraded"
      [] level = "critical" -> "unhealthy" [] level = "missing" -> "unknown"

CoreState(service) ==
    CASE service = "active" -> "healthy" [] service = "transitioning" -> "degraded"
      [] service \in {"down", "absent"} -> "unhealthy" [] service = "odd" -> "unknown"

HealthCheck(state, reason, expires) == [state |-> state, reason |-> reason, expires |-> expires]

EvaluateAgentTelemetry(snapshot) ==
    LET check(state, reason) == HealthCheck(state, reason, snapshot.received + Ttl) IN
    [c \in Checks |->
        CASE c = "freshness" -> check("healthy", "observed")
          [] c = "capacity"  -> check(CapacityState(snapshot.sample.capacity), "observed")
          [] c = "core"      -> check(CoreState(snapshot.sample.core),
                                      IF snapshot.sample.core = "absent" THEN "not_installed"
                                      ELSE "observed")]

markTelemetryChecksStale ==
    [c \in Checks |-> HealthCheck("unknown", "telemetry_stale", Never)]

(* HealthWorker.EvaluateOnce: the query, *)
BeginProjection ==
    /\ Projected /\ projection.now < clock
    /\ LET rows == {s \in Servers : telemetry[s] # NoSnapshot} IN
       /\ rows # {}
       /\ projection' = [now |-> clock, todo |-> rows, rows |-> telemetry]
    /\ UNCHANGED <<clock, telemetry, health, engine, alerts, intents, heard, lastSeen>>

(* ... and a transaction (ApplyChecks) for each server. *)
ApplyChecks(s) ==
    /\ s \in projection.todo
    /\ LET snapshot == projection.rows[s] IN
       health' = [health EXCEPT ![s] =
          IF projection.now >= snapshot.received + Ttl THEN markTelemetryChecksStale
          ELSE EvaluateAgentTelemetry(snapshot)]
    /\ projection' = IF projection.todo = {s} THEN [now |-> projection.now, todo |-> {}]
                     ELSE [projection EXCEPT !.todo = @ \ {s}]
    /\ UNCHANGED <<clock, telemetry, engine, alerts, intents, heard, lastSeen>>

-----------------------------------------------------------------------------
(* The policy *)

(* Mutant: only evidence that the health worker has marked counts as stale. *)
Outdated_Marked(row, now) == row.reason = "telemetry_stale"

(* Evidence that has expired is outdated before the health worker marks it. *)
Outdated(row, now) ==
    row.reason = "telemetry_stale" \/ (row.expires # Never /\ now >= row.expires)

(* EvaluateAlertCondition: the severity of the condition, "none" without    *)
(* one.  Outdated or missing evidence is an incident of the freshness check *)
(* only; a VPN core that is not installed is none.                          *)
EvaluateAlertCondition(check, row, now) ==
    IF check = "freshness"
    THEN IF Outdated(row, now) THEN "critical" ELSE "none"
    ELSE IF Outdated(row, now) \/ row.reason = "not_installed" THEN "none"
         ELSE CASE row.state = "degraded" -> "warning"
                [] row.state = "unhealthy" -> "critical"
                [] OTHER -> "none"

severityRank(severity) == CASE severity = "critical" -> 2 [] severity = "warning" -> 1 [] OTHER -> 0

FireAfter(severity) == IF severity = "critical" THEN CriticalFireDelay ELSE WarningFireDelay

(* Mutant: an episode right after another one fires as fast as a first one. *)
effectiveFireDelay_Base(base, started, previous) == base

(* An episode that starts soon after another was resolved waits longer. *)
effectiveFireDelay(base, started, previous) ==
    IF previous # Never /\ started < previous + FlapWindow /\ base < FlapFireDelay
    THEN FlapFireDelay ELSE base

-----------------------------------------------------------------------------
(* Episodes *)

Active(s, c) ==
    {i \in DOMAIN alerts : /\ alerts[i].server = s /\ alerts[i].check = c
                           /\ alerts[i].state \in {"pending", "firing"}}

LastResolvedAt(s, c) ==
    LET times == {alerts[i].resolved : i \in {j \in DOMAIN alerts :
                     alerts[j].server = s /\ alerts[j].check = c /\ alerts[j].state = "resolved"}} IN
    IF times = {} THEN Never ELSE CHOOSE t \in times : \A u \in times : u <= t

Intent(i, kind, severity) ==
    [alert |-> i, kind |-> kind, severity |-> severity, claim |-> "free", expanded |-> FALSE]

(* Servers in the order of their keys. *)
ServerOrder(known) ==
    CHOOSE order \in [1 .. Cardinality(known) -> known] :
        \A i, j \in DOMAIN order : order[i] = order[j] => i = j

(* AlertEngine.EvaluateOnce: all checks, in the order of their keys. *)
BeginEvaluation ==
    /\ Evaluated /\ engine.now < clock
    /\ LET known == {s \in Servers : health[s] # NoHealth}
           row(k) == LET s == ServerOrder(known)[((k - 1) \div 3) + 1]
                         c == CheckOrder[((k - 1) % 3) + 1]
                     IN [server |-> s, check |-> c, row |-> health[s][c]] IN
       /\ known # {}
       /\ engine' = [now |-> clock, todo |-> [k \in 1 .. 3 * Cardinality(known) |-> row(k)]]
    /\ UNCHANGED <<clock, telemetry, health, projection, alerts, intents, heard, lastSeen>>

Current == Head(engine.todo)
Severity == EvaluateAlertCondition(Current.check, Current.row, engine.now)
Triggered == Severity # "none"
Record == CHOOSE i \in Active(Current.server, Current.check) : TRUE

NextCheck == engine' = [engine EXCEPT !.todo = Tail(@)]
Seen == lastSeen' = [lastSeen EXCEPT ![Current.server][Current.check] = engine.now]

Evaluating(active) ==
    /\ ~Evaluated
    /\ (Active(Current.server, Current.check) # {}) = active
    /\ UNCHANGED <<clock, telemetry, health, projection, heard>>

PendingAlert ==
    [server |-> Current.server, check |-> Current.check, state |-> "pending",
     severity |-> Severity, started |-> engine.now, fired |-> Never,
     resolved |-> Never, recovery |-> Never]

CreatePending ==
    /\ Evaluating(FALSE) /\ Triggered
    /\ alerts' = Append(alerts, PendingAlert)
    /\ Seen /\ NextCheck
    /\ UNCHANGED intents

(* An evaluation without condition and without episode. *)
NothingToDo ==
    /\ Evaluating(FALSE) /\ ~Triggered
    /\ NextCheck
    /\ UNCHANGED <<alerts, intents, lastSeen>>

(* ResolveIfActive: only an incident that had fired is announced. *)
ResolveIfActive ==
    LET i == Record IN
    /\ alerts' = [alerts EXCEPT ![i].state = "resolved", ![i].resolved = engine.now,
                                ![i].recovery = Never]
    /\ intents' = IF alerts[i].state = "firing"
                  THEN Append(intents, Intent(i, "resolved", alerts[i].severity)) ELSE intents

StartRecovery ==
    /\ alerts' = [alerts EXCEPT ![Record].recovery = IF @ = Never THEN engine.now ELSE @]
    /\ UNCHANGED intents

(* recoverIfNeeded *)
RecoverIfNeeded ==
    /\ Evaluating(TRUE) /\ ~Triggered
    /\ LET alert == alerts[Record] IN
       IF \/ alert.state = "pending"
          \/ alert.recovery # Never /\ engine.now >= alert.recovery + RecoveryDelay
       THEN ResolveIfActive ELSE StartRecovery
    /\ NextCheck
    /\ UNCHANGED lastSeen

(* Mutant: a condition that comes back does not end the recovery. *)
Recovering_Ignored == FALSE

Recovering == alerts[Record].recovery # Never

(* A condition that is back: the recovery is cleared, *)
ClearRecovery ==
    /\ Evaluating(TRUE) /\ Triggered /\ Recovering
    /\ alerts' = [alerts EXCEPT ![Record].recovery = Never]
    /\ Seen
    /\ UNCHANGED <<intents, engine>>

(* then the severity follows the condition, upwards only once it fires, *)
SeverityChanges ==
    LET alert == alerts[Record] IN
    \/ alert.state = "pending" /\ Severity # alert.severity
    \/ alert.state = "firing" /\ severityRank(Severity) > severityRank(alert.severity)

ChangeSeverity ==
    /\ Evaluating(TRUE) /\ Triggered /\ ~Recovering /\ SeverityChanges
    /\ alerts' = [alerts EXCEPT ![Record].severity = Severity, ![Record].recovery = Never]
    /\ intents' = IF alerts[Record].state = "firing"
                  THEN Append(intents, Intent(Record, "escalated", Severity)) ELSE intents
    /\ Seen
    /\ UNCHANGED engine

(* then a pending episode fires when it has lasted long enough.             *)
FireDue ==
    LET alert == alerts[Record] IN
    /\ alert.state = "pending"
    /\ engine.now >= alert.started + effectiveFireDelay(FireAfter(Severity), alert.started,
                                         LastResolvedAt(alert.server, alert.check))

FireOrTouch ==
    /\ Evaluating(TRUE) /\ Triggered /\ ~Recovering /\ ~SeverityChanges
    /\ IF FireDue
       THEN /\ alerts' = [alerts EXCEPT ![Record].state = "firing", ![Record].fired = engine.now,
                                        ![Record].recovery = Never]
            /\ intents' = Append(intents, Intent(Record, "firing", alerts[Record].severity))
       ELSE UNCHANGED <<alerts, intents>>
    /\ Seen /\ NextCheck

(* A statement fails or the Manager stops: the rest of the evaluation is    *)
(* left to the next one.                                                    *)
AbandonEvaluation ==
    /\ ~Evaluated
    /\ engine' = [engine EXCEPT !.todo = <<>>]
    /\ UNCHANGED <<clock, telemetry, health, projection, alerts, intents, heard, lastSeen>>

AbandonProjection ==
    /\ ~Projected
    /\ projection' = [now |-> projection.now, todo |-> {}]
    /\ UNCHANGED <<clock, telemetry, health, engine, alerts, intents, heard, lastSeen>>

-----------------------------------------------------------------------------
(* Properties *)

(* Every variable has the shape its table or worker gives it. *)
AlertTypeOK ==
    /\ clock \in Nat
    /\ \A s \in Servers : telemetry[s].received \in 0 .. clock
    /\ engine.now \in 0 .. clock /\ projection.now \in 0 .. clock
    /\ \A i \in DOMAIN alerts :
          /\ alerts[i].server \in Servers /\ alerts[i].check \in Checks
          /\ alerts[i].state \in {"pending", "firing", "resolved"}
          /\ alerts[i].severity \in {"warning", "critical"}
          /\ {alerts[i].started, alerts[i].fired, alerts[i].resolved, alerts[i].recovery}
                \subseteq 0 .. clock
    /\ \A i \in DOMAIN intents : intents[i].alert \in DOMAIN alerts

(* Flapping protection: between the end of an episode and the moment a      *)
(* later one of the same check fires lies at least the flap delay, however  *)
(* conditions, late evaluations and failed statements interleave.           *)
QuietAfterResolve ==
    \A i, j \in DOMAIN alerts :
        /\ i < j /\ alerts[j].fired # Never
        /\ alerts[i].server = alerts[j].server /\ alerts[i].check = alerts[j].check
        => alerts[j].fired >= alerts[i].resolved + FlapFireDelay

Resolves(i) ==
    i \in DOMAIN alerts /\ alerts[i].state = "firing" /\ alerts'[i].state = "resolved"

(* Hysteresis: an incident is only resolved a whole recovery delay after    *)
(* the last evaluation that recorded its condition.                         *)
SteadyBeforeResolve ==
    [][\A i \in DOMAIN alerts' : Resolves(i) =>
          engine.now >= lastSeen[alerts[i].server][alerts[i].check] + RecoveryDelay]_alertVars

Rises(i) ==
    IF i \in DOMAIN alerts
    THEN alerts[i].state # "firing" /\ alerts'[i].state = "firing" ELSE TRUE

(* "One stale Agent should produce one connectivity alert rather than       *)
(* separate memory/disk/VPN alerts" (alert_policy.go:37): an episode of a   *)
(* component starts or fires only while the last snapshot of its server is  *)
(* fresh, also when the health worker lags behind.                          *)
OneConnectivityAlert ==
    [][\A i \in DOMAIN alerts' : alerts'[i].check # "freshness" /\ Rises(i) =>
          engine.now < heard[alerts'[i].server] + Ttl]_alertVars

(* Not so: a component whose evidence becomes outdated is "recovered", and  *)
(* its incident is announced as resolved although nothing is known of it.   *)
ResolvedIsHealthy ==
    [][\A i \in DOMAIN alerts' : Resolves(i) =>
          ~Outdated(Current.row, engine.now)]_alertVars
=============================================================================
