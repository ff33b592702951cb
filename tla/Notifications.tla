---------------------------- MODULE Notifications ----------------------------
(***************************************************************************)
(* The notifications of alerts: the intents of Alerting are expanded to    *)
(* one delivery for each recipient of Pairing (backend/internal/           *)
(* observability/notification_worker.go and notification_repository.go,    *)
(* backend/internal/delivery/system_notification_creator.go and            *)
(* system_notification_resolver.go).                                       *)
(*                                                                         *)
(* One worker claims an intent, lists the recipients and creates and links *)
(* a delivery for each.  A failed statement, a lost answer or a stop of    *)
(* the Manager ends the expansion at any point, and once the claim is old  *)
(* it is begun anew.  What becomes of a delivery is left to Delivery.      *)
(***************************************************************************)
EXTENDS Alerting, Pairing

CONSTANTS
    Scenarios       \* how a behaviour starts, and its bounds

Kinds == {"ticks", "faults", "sessions", "messages", "deletions"}

ASSUME ScenariosAssumption ==
    \A s \in Scenarios :
        /\ s.clock \in Nat /\ s.budget \in [Kinds -> Nat]
        /\ IsFiniteSet(s.recipients)
        /\ s.recipients \subseteq [id : 1 .. Cardinality(s.recipients), chat : Chats]

VARIABLES
    expansion,      \* what the notification worker is doing
    deliveries,     \* deliveries of system notifications
    links,          \* observability_notification_deliveries
    budget,         \* what is left of the bounds
    audience        \* note: who was a recipient when an intent was written

vars == <<alertVars, pairingVars, expansion, deliveries, links, budget, audience>>
notifyVars == <<expansion, deliveries, links>>

NoExpansion == [intent |-> 0]
Spend(kind) == budget[kind] > 0 /\ budget' = [budget EXCEPT ![kind] = @ - 1]

Init ==
    /\ AlertInit /\ PairingInit
    /\ \E s \in Scenarios :
          /\ clock = s.clock /\ recipients = s.recipients /\ budget = s.budget
          /\ used = Cardinality(s.recipients)
    /\ expansion = NoExpansion
    /\ deliveries = <<>> /\ links = {}
    /\ audience = <<>>

(* Mutant: a claim is kept for ever. *)
Claimable_Once(i) == ~intents[i].expanded /\ intents[i].claim = "free"

(* ClaimNext: the oldest intent without a claim, or with one that is a      *)
(* minute old.                                                              *)
Claimable(i) == ~intents[i].expanded /\ intents[i].claim \in {"free", "old"}

ClaimNext ==
    /\ expansion = NoExpansion
    /\ \E i \in DOMAIN intents :
          /\ Claimable(i) /\ \A j \in 1 .. (i - 1) : ~Claimable(j)
          /\ intents' = [intents EXCEPT ![i].claim = "fresh"]
          /\ expansion' = [intent |-> i, listed |-> FALSE]
    /\ UNCHANGED <<clock, telemetry, health, projection, engine, alerts, heard, lastSeen>>
    /\ UNCHANGED <<pairingVars, deliveries, links>>

ClaimAges(i) ==
    /\ intents[i].claim = "fresh" /\ ~intents[i].expanded
    /\ intents' = [intents EXCEPT ![i].claim = "old"]
    /\ UNCHANGED <<clock, telemetry, health, projection, engine, alerts, heard, lastSeen>>
    /\ UNCHANGED <<pairingVars, notifyVars>>

ListEnabledRecipients ==
    /\ expansion # NoExpansion /\ ~expansion.listed
    /\ expansion' = [intent |-> expansion.intent, listed |-> TRUE, created |-> FALSE,
                     todo |-> recipients]
    /\ UNCHANGED <<alertVars, pairingVars, deliveries, links>>

(* The order of the list: as the recipients were created. *)
NextRecipient == CHOOSE r \in expansion.todo : \A q \in expansion.todo : r.id <= q.id

(* Mutant: every expansion creates its deliveries. *)
Existing_Never(i, r) == FALSE

(* The idempotency key names the intent and the recipient. *)
Existing(i, r) == \E d \in DOMAIN deliveries : deliveries[d].intent = i /\ deliveries[d].recipient = r

SystemNotification(i, r) == [intent |-> i, recipient |-> r]

(* CreateSystemNotification *)
CreateDelivery ==
    /\ expansion # NoExpansion /\ expansion.listed
    /\ expansion.todo # {} /\ ~expansion.created
    /\ LET i == expansion.intent
           r == NextRecipient.id IN
       deliveries' = IF Existing(i, r) THEN deliveries
                     ELSE Append(deliveries, SystemNotification(i, r))
    /\ expansion' = [expansion EXCEPT !.created = TRUE]
    /\ UNCHANGED <<alertVars, pairingVars, links>>

(* LinkDelivery: refused when the recipient has been deleted meanwhile,     *)
(* which ends the expansion.                                                *)
LinkDelivery ==
    /\ expansion # NoExpansion /\ expansion.listed /\ expansion.todo # {} /\ expansion.created
    /\ IF NextRecipient \in recipients
       THEN /\ links' = links \cup {<<expansion.intent, NextRecipient.id>>}
            /\ expansion' = [expansion EXCEPT !.todo = @ \ {NextRecipient}, !.created = FALSE]
       ELSE expansion' = NoExpansion /\ UNCHANGED links
    /\ UNCHANGED <<alertVars, pairingVars, deliveries>>

MarkExpanded ==
    /\ expansion # NoExpansion /\ expansion.listed /\ expansion.todo = {}
    /\ intents' = [intents EXCEPT ![expansion.intent].expanded = TRUE,
                                  ![expansion.intent].claim = "free"]
    /\ expansion' = NoExpansion
    /\ UNCHANGED <<clock, telemetry, health, projection, engine, alerts, heard, lastSeen>>
    /\ UNCHANGED <<pairingVars, deliveries, links>>

AbandonExpansion ==
    /\ expansion # NoExpansion
    /\ expansion' = NoExpansion
    /\ UNCHANGED <<alertVars, pairingVars, deliveries, links>>

(* Resolve: the intent of a delivery, from its link or else from its key.   *)
ResolvedIntent(d) ==
    LET linked == {l[1] : l \in {l \in links : l = <<deliveries[d].intent, deliveries[d].recipient>>}} IN
    IF linked # {} THEN CHOOSE i \in linked : TRUE ELSE deliveries[d].intent

-----------------------------------------------------------------------------
WorkerStep ==
    \/ ClaimNext
    \/ ListEnabledRecipients
    \/ CreateDelivery
    \/ LinkDelivery
    \/ MarkExpanded

(* The engine works on the checks it has read and on episodes that only it  *)
(* writes: it sees nothing of what the others do during an evaluation, and  *)
(* they see only the intents it has written.  So the others wait here until *)
(* it is over; the time does not.                                           *)
OfEngine ==
    /\ \/ Spend("faults") /\ AbandonEvaluation
       \/ UNCHANGED budget /\ \/ BeginEvaluation
                              \/ CreatePending
                              \/ NothingToDo
                              \/ RecoverIfNeeded
                              \/ ClearRecovery
                              \/ ChangeSeverity
                              \/ FireOrTouch
    /\ UNCHANGED <<pairingVars, notifyVars>>

OfHealth ==
    /\ Evaluated
    /\ \/ UNCHANGED budget /\ \E s \in Servers : Report(s)
       \/ UNCHANGED budget /\ BeginProjection
       \/ UNCHANGED budget /\ \E s \in Servers : ApplyChecks(s)
       \/ Spend("faults") /\ AbandonProjection
    /\ UNCHANGED <<pairingVars, notifyVars>>

OfPairing ==
    /\ Evaluated
    /\ \/ Spend("sessions") /\ \E k \in Sessions : StartPairing(k)
       \/ UNCHANGED budget /\ \E k \in Sessions : ExpirePairing(k)
       \/ Spend("messages") /\ \E chat \in Chats, k \in Sessions : SendStart(chat, k)
       \/ UNCHANGED budget /\ BeginPoll
       \/ UNCHANGED budget /\ CommitPoll
       \/ Spend("faults") /\ AbandonPoll
       \/ Spend("deletions") /\ \E r \in recipients : DeleteRecipient(r)
    /\ UNCHANGED <<alertVars, notifyVars>>

OfNotifications ==
    /\ Evaluated
    /\ \/ UNCHANGED budget /\ WorkerStep
       \/ UNCHANGED budget /\ \E i \in DOMAIN intents : ClaimAges(i)
       \/ Spend("faults") /\ AbandonExpansion

NoteAudience ==
    audience' = [i \in DOMAIN intents' |->
        IF i \in DOMAIN audience THEN audience[i] ELSE recipients]

Next ==
    /\ \/ Spend("ticks") /\ Tick /\ UNCHANGED <<pairingVars, notifyVars>>
       \/ OfEngine \/ OfHealth \/ OfPairing \/ OfNotifications
    /\ NoteAudience

(* An evaluation ends, the worker polls for ever, and claims grow old; the  *)
(* other actors owe nothing.                                                *)
Fairness ==
    /\ WF_vars(OfEngine /\ NoteAudience)
    /\ WF_vars(Evaluated /\ WorkerStep /\ UNCHANGED budget /\ NoteAudience)
    /\ WF_vars(/\ Evaluated /\ \E i \in DOMAIN intents : ClaimAges(i)
               /\ UNCHANGED budget /\ NoteAudience)

Spec == Init /\ [][Next]_vars /\ Fairness

-----------------------------------------------------------------------------
(* Properties *)

(* Every variable has the shape its table or worker gives it. *)
TypeOK ==
    /\ AlertTypeOK /\ PairingTypeOK
    /\ expansion.intent \in 0 .. Len(intents)
    /\ \A d \in DOMAIN deliveries : /\ deliveries[d].intent \in DOMAIN intents
                                    /\ deliveries[d].recipient \in 1 .. used
    /\ \A d \in DOMAIN deliveries : ResolvedIntent(d) \in DOMAIN intents

(* Once an intent is expanded, everybody who was a recipient when it was    *)
(* written and still is has exactly one delivery of it, and nobody has two, *)
(* however often the expansion was begun anew.                              *)
EachHearsOnce ==
    LET copies(i, r) == {d \in DOMAIN deliveries : deliveries[d].intent = i /\ deliveries[d].recipient = r} IN
    \A i \in DOMAIN intents :
        /\ \A r \in 1 .. used : Cardinality(copies(i, r)) <= 1
        /\ intents[i].expanded =>
              \A r \in audience[i] \cap recipients : copies(i, r.id) # {} /\ <<i, r.id>> \in links

(* Every announcement is expanded in the end, whatever failed before. *)
IntentsExpand == []<>(\A i \in DOMAIN intents : intents[i].expanded)
=============================================================================
