------------------------------ MODULE Delivery ------------------------------
(***************************************************************************)
(* The Manager's delivery queue (backend/internal/delivery): "send"        *)
(* requests insert rows, one worker goroutine claims them, resolves the    *)
(* message, hands it to SMTP or Telegram and records the outcome.  The     *)
(* plaintext link of a device-scoped delivery exists only in a process-    *)
(* local map that the request handler fills after the row is committed.    *)
(*                                                                         *)
(* One step is one database statement or transaction, one access to the    *)
(* (mutex-protected) map, or one exchange with the provider.  The provider *)
(* is external: a retryable or permanent answer means it did not take the  *)
(* message, a lost connection says nothing.                                *)
(***************************************************************************)
EXTENDS Naturals, FiniteSets

CONSTANTS
    Deliveries,     \* delivery rows, one per idempotency key
    DeviceScoped,   \* the rows that carry a device's plaintext link
    Requests,       \* concurrent "send" requests
    Nobody,         \* "no delivery"
    MaxAttempts,    \* max_attempts of a new row
    AttemptLimit,   \* CHECK (max_attempts BETWEEN 1 AND 20)
    MaxGeneration,  \* bound on how often the device's token is rotated
    MaxFaults       \* bound on Manager restarts and failing updates

ASSUME DeliveryAssumption ==
    /\ DeviceScoped \subseteq Deliveries
    /\ Nobody \notin Deliveries
    /\ MaxAttempts \in Nat \ {0} /\ AttemptLimit \in Nat /\ MaxAttempts <= AttemptLimit
    /\ MaxGeneration \in Nat \ {0} /\ MaxFaults \in Nat

VARIABLES
    status,     \* deliveries.status; "absent" before the insert
    attempts,   \* attempt_count
    max,        \* max_attempts
    due,        \* next_attempt_at is NULL or has passed
    token,      \* subscription_token_id as a generation; 0 is NULL
    stash,      \* deviceAccessMaterialStore: the generation of the link, 0 if none
    rotation,   \* generation of the device's active token
    rpc,        \* where each request is: idle, create, stash
    rfor,       \* the delivery its Idempotency-Key names
    rlink,      \* the generation of the link in its body
    wpc,        \* where the worker is
    wfor,       \* the delivery it claimed
    wlink,      \* the link it has rendered into the message
    result,     \* the outcome it is about to record
    accepted,   \* messages the provider took since the last manual retry
    link,       \* the link in the last of them
    faults

row     == <<status, attempts, max, due, token>>
request == <<rpc, rfor, rlink>>
worker  == <<wpc, wfor, wlink, result>>
outside == <<accepted, link>>
vars    == <<row, stash, rotation, request, worker, outside, faults>>

Waiting     == {"queued", "retrying"}
Terminal    == {"sent", "failed", "uncertain"}
Statuses    == {"absent", "sending"} \cup Waiting \cup Terminal
Results     == {"accepted", "retryable", "permanent", "uncertain"}
Generations == 1..MaxGeneration
Busy        == {"resolve", "send", "mark", "release"}

(***************************************************************************)
(* Requests                                                                *)
(***************************************************************************)
\* CreateForVPNAccount up to the insert: the link is the active token's.
Submit(r, d) ==
    /\ rpc[r] = "idle"
    /\ rpc' = [rpc EXCEPT ![r] = "create"]
    /\ rfor' = [rfor EXCEPT ![r] = d]
    /\ rlink' = [rlink EXCEPT ![r] = IF d \in DeviceScoped THEN rotation ELSE 0]
    /\ UNCHANGED <<row, stash, rotation, worker, outside, faults>>

\* sameCreateRequest; all else in a replayed request is equal.
SameCreateRequest(d, g) == token[d] = g

\* shouldStashDeviceAccess, on the row as Create returned it.
ShouldStash(d, created) == d \in DeviceScoped /\ (created \/ status[d] \notin Terminal)

Respond(r) == rpc' = [rpc EXCEPT ![r] = "idle"]

\* Service.Create: the row is inserted, or the one with the same key returned.
Create(r) ==
    LET d       == rfor[r]
        g       == rlink[r]
        created == status[d] = "absent"
    IN
    /\ rpc[r] = "create"
    /\ IF created
       THEN /\ status' = [status EXCEPT ![d] = "queued"]
            /\ token' = [token EXCEPT ![d] = g]
       ELSE UNCHANGED <<status, token>>
    /\ IF (created \/ SameCreateRequest(d, g)) /\ ShouldStash(d, created)
       THEN rpc' = [rpc EXCEPT ![r] = "stash"]
       ELSE Respond(r)
    /\ UNCHANGED <<attempts, max, due, stash, rotation, rfor, rlink, worker, outside, faults>>

\* StashDeviceAccess
Stash(r) ==
    /\ rpc[r] = "stash"
    /\ stash' = [stash EXCEPT ![rfor[r]] = rlink[r]]
    /\ Respond(r)
    /\ UNCHANGED <<row, rotation, rfor, rlink, worker, outside, faults>>

\* The device's link is rotated.
Rotate ==
    /\ rotation < MaxGeneration
    /\ rotation' = rotation + 1
    /\ UNCHANGED <<row, stash, request, worker, outside, faults>>

Requeueable   == {"failed", "uncertain"}
RequeueMax(d) == IF max[d] > attempts[d] THEN max[d] ELSE attempts[d] + 1
WithinLimit(n) == n <= AttemptLimit

\* Retry: an administrator puts a failed or uncertain delivery back.
Requeue(d) ==
    /\ status[d] \in Requeueable
    /\ WithinLimit(RequeueMax(d))
    /\ status' = [status EXCEPT ![d] = "queued"]
    /\ max' = [max EXCEPT ![d] = RequeueMax(d)]
    /\ due' = [due EXCEPT ![d] = TRUE]
    /\ accepted' = [accepted EXCEPT ![d] = 0]
    /\ UNCHANGED <<attempts, token, stash, rotation, request, worker, link, faults>>

(***************************************************************************)
(* Worker                                                                  *)
(***************************************************************************)
Go(at) == wpc' = at

\* Mutation: interrupted sends are retried after a restart.
RecoveredStatus_Retrying == "retrying"

RecoveredStatus == "uncertain"

\* RecoverSendingAfterRestart, the first thing Run does.
Recover ==
    /\ wpc = "recover"
    /\ status' = [d \in Deliveries |-> IF status[d] = "sending" THEN RecoveredStatus ELSE status[d]]
    /\ Go("idle")
    /\ UNCHANGED <<attempts, max, due, token, stash, rotation, request,
                   wfor, wlink, result, outside, faults>>

Claimable(d) == status[d] \in Waiting /\ attempts[d] < max[d] /\ due[d]

\* ClaimNext
ClaimNext(d) ==
    /\ wpc = "idle"
    /\ Claimable(d)
    /\ status' = [status EXCEPT ![d] = "sending"]
    /\ attempts' = [attempts EXCEPT ![d] = @ + 1]
    /\ due' = [due EXCEPT ![d] = TRUE]
    /\ wfor' = d
    /\ Go("resolve")
    /\ UNCHANGED <<max, token, stash, rotation, request, wlink, result, outside, faults>>

\* resolveDeviceAccess: only the stash knows the link.
MaterialAvailable(d) == d \in DeviceScoped => stash[d] # 0

\* Provider, material and template are resolved, or the attempt fails before
\* anything is sent (failBeforeSend).
Resolve ==
    /\ wpc = "resolve"
    /\ \/ /\ MaterialAvailable(wfor)
          /\ wlink' = stash[wfor]
          /\ Go("send")
          /\ UNCHANGED result
       \/ /\ result' \in {"retryable", "permanent"}
          /\ Go("mark")
          /\ UNCHANGED wlink
    /\ UNCHANGED <<row, stash, rotation, request, wfor, outside, faults>>

\* What Send reports when the provider did or did not take the message.
SendResults(taken) == IF taken THEN {"accepted", "uncertain"} ELSE Results \ {"accepted"}

Send ==
    /\ wpc = "send"
    /\ \E taken \in BOOLEAN :
          /\ result' \in SendResults(taken)
          /\ accepted' = [accepted EXCEPT ![wfor] = IF taken THEN @ + 1 ELSE @]
          /\ link' = [link EXCEPT ![wfor] = IF taken THEN wlink ELSE @]
    /\ Go("mark")
    /\ UNCHANGED <<row, stash, rotation, request, wfor, wlink, faults>>

RetryAllowed(d) == attempts[d] < max[d]

\* Mutations: an uncertain send counts as failed; one retry too many.
MarkStatus_UncertainFailed(d, res) ==
    CASE res = "accepted" -> "sent"
      [] res = "retryable" /\ RetryAllowed(d) -> "retrying"
      [] OTHER -> "failed"
MarkStatus_OneMore(d, res) ==
    CASE res = "accepted" -> "sent"
      [] res = "uncertain" -> "uncertain"
      [] res = "retryable" /\ attempts[d] <= max[d] -> "retrying"
      [] OTHER -> "failed"

\* applyProviderResult and failBeforeSend
MarkStatus(d, res) ==
    CASE res = "accepted" -> "sent"
      [] res = "uncertain" -> "uncertain"
      [] res = "retryable" /\ RetryAllowed(d) -> "retrying"
      [] OTHER -> "failed"

\* The outcome is stored; a retry is not due before its delay has passed.
Mark ==
    LET d  == wfor
        st == MarkStatus(d, result)
    IN
    /\ wpc = "mark"
    /\ status[d] = "sending"
    /\ status' = [status EXCEPT ![d] = st]
    /\ due' = [due EXCEPT ![d] = st # "retrying"]
    /\ Go(IF st \in Terminal THEN "release" ELSE "idle")
    /\ UNCHANGED <<attempts, max, token, stash, rotation, request, wfor, wlink, result, outside, faults>>

\* releaseDeviceAccess
Release ==
    /\ wpc = "release"
    /\ stash' = [stash EXCEPT ![wfor] = 0]
    /\ Go("idle")
    /\ UNCHANGED <<row, rotation, request, wfor, wlink, result, outside, faults>>

(***************************************************************************)
(* Time and faults                                                         *)
(***************************************************************************)
RetryDelayPasses(d) ==
    /\ ~due[d]
    /\ due' = [due EXCEPT ![d] = TRUE]
    /\ UNCHANGED <<status, attempts, max, token, stash, rotation, request, worker, outside, faults>>

\* The entry's thirty minutes are over.
StashExpires(d) ==
    /\ stash[d] # 0
    /\ stash' = [stash EXCEPT ![d] = 0]
    /\ UNCHANGED <<row, rotation, request, worker, outside, faults>>

Fault == faults < MaxFaults /\ faults' = faults + 1

\* The update of the outcome fails: the row stays "sending" and the worker
\* goes on with the next delivery.
MarkFails ==
    /\ wpc = "mark"
    /\ Go("idle")
    /\ Fault
    /\ UNCHANGED <<row, stash, rotation, request, wfor, wlink, result, outside>>

ManagerRestarts ==
    /\ stash' = [d \in Deliveries |-> 0]
    /\ rpc' = [r \in Requests |-> "idle"]
    /\ Go("recover")
    /\ Fault
    /\ UNCHANGED <<row, rotation, rfor, rlink, wfor, wlink, result, outside>>

(***************************************************************************)
(* Specification                                                           *)
(***************************************************************************)
Init ==
    /\ status = [d \in Deliveries |-> "absent"]
    /\ attempts = [d \in Deliveries |-> 0]
    /\ max = [d \in Deliveries |-> MaxAttempts]
    /\ due = [d \in Deliveries |-> TRUE]
    /\ token = [d \in Deliveries |-> 0]
    /\ stash = [d \in Deliveries |-> 0]
    /\ rotation = 1
    /\ rpc = [r \in Requests |-> "idle"]
    /\ rfor = [r \in Requests |-> Nobody]
    /\ rlink = [r \in Requests |-> 0]
    /\ wpc = "recover"
    /\ wfor = Nobody
    /\ wlink = 0
    /\ result = "uncertain"
    /\ accepted = [d \in Deliveries |-> 0]
    /\ link = [d \in Deliveries |-> 0]
    /\ faults = 0

WorkerStep ==
    \/ Recover \/ Resolve \/ Send \/ Mark \/ Release
    \/ \E d \in Deliveries : ClaimNext(d)

Next ==
    \/ \E r \in Requests : Create(r) \/ Stash(r) \/ \E d \in Deliveries : Submit(r, d)
    \/ Rotate
    \/ WorkerStep
    \/ \E d \in Deliveries : Requeue(d) \/ RetryDelayPasses(d) \/ StashExpires(d)
    \/ MarkFails
    \/ ManagerRestarts

Spec == Init /\ [][Next]_vars

\* The worker's loop goes on after every error, every exchange with a provider
\* has a deadline, and retry delays are at most five minutes.
FairSpec == Spec /\ WF_vars(WorkerStep) /\ \A d \in Deliveries : WF_vars(RetryDelayPasses(d))

(***************************************************************************)
(* Properties                                                              *)
(***************************************************************************)
\* Every variable has the type its column, map or goroutine has.
TypeOK ==
    /\ status \in [Deliveries -> Statuses]
    /\ attempts \in [Deliveries -> Nat]
    /\ max \in [Deliveries -> 1..AttemptLimit]
    /\ due \in [Deliveries -> BOOLEAN]
    /\ token \in [Deliveries -> 0..MaxGeneration]
    /\ stash \in [Deliveries -> 0..MaxGeneration]
    /\ rotation \in Generations
    /\ rpc \in [Requests -> {"idle", "create", "stash"}]
    /\ rfor \in [Requests -> Deliveries \cup {Nobody}]
    /\ rlink \in [Requests -> 0..MaxGeneration]
    /\ wpc \in {"recover", "idle"} \cup Busy
    /\ wfor \in Deliveries \cup {Nobody}
    /\ wlink \in 0..MaxGeneration
    /\ result \in Results
    /\ accepted \in [Deliveries -> Nat]
    /\ link \in [Deliveries -> 0..MaxGeneration]
    /\ faults \in 0..MaxFaults

\* Between two decisions of an administrator at most one message of a delivery
\* reaches the recipient: automatic retries, lost answers, failing updates and
\* restarts in the middle of a send never repeat a message the provider took.
AtMostOneMessage == \A d \in Deliveries : accepted[d] <= 1

\* What the history shows is what happened: "sent" was taken by the provider,
\* and nothing that was taken is shown as failed or waiting.
VerdictMatchesProvider ==
    \A d \in Deliveries :
        /\ status[d] = "sent" => accepted[d] = 1
        /\ status[d] \in Waiting \cup {"failed"} => accepted[d] = 0

\* A waiting row can always be claimed again: no combination of automatic
\* and manual retries uses up its attempts while it waits.
WaitingIsClaimable ==
    \A d \in Deliveries : status[d] \in Waiting => attempts[d] < max[d]

\* A device-scoped message carries the link of the token its row is bound to,
\* although the token is rotated and requests with the same key are repeated.
SentLinkIsBound ==
    \A d \in DeviceScoped :
        /\ stash[d] # 0 => stash[d] = token[d]
        /\ link[d] # 0 => link[d] = token[d]

\* Its outcome could not be stored; the row waits for the next restart.
Orphaned(d) == status[d] = "sending" /\ (wfor # d \/ wpc \notin Busy)

\* Every queued delivery gets an outcome, unless the outcome could not be stored.
DeliveryResolves ==
    \A d \in Deliveries : status[d] \in Waiting ~> status[d] \in Terminal \/ Orphaned(d)

\* "The worker also releases it explicitly the moment a delivery reaches a
\* terminal outcome" (docs/architecture/access-devices.md): no plaintext link
\* is kept for a delivery that has its outcome.  It does not hold (README,
\* section 4).
MaterialReleasedAtOutcome ==
    \A d \in DeviceScoped :
        status[d] \in Terminal /\ stash[d] # 0 => wpc = "release" /\ wfor = d
=============================================================================
