# RouteGate: a TLA+ verification project

RouteGate is a self-hosted VPN control plane. A **Manager** (Go, PostgreSQL)
keeps servers, VPN accounts, configurations and jobs. An **Agent** on every VPN
node polls the Manager, applies configurations, counts traffic and updates the
host. Root helpers (systemd units, Python and shell scripts) do what neither
process may do itself.

The modules here are translated from `src/`; each definition that stands for
code is mapped to its lines in `PROJECT.json` (`map`). That file also lists the
components, the hazards each property is for, the runs, the mutants, the
findings and the theorems.

## 1. Inventory

### The parts and how they interact

| part | state | operations | interacts with |
|---|---|---|---|
| node task queue (`backend/agents`) | `agent_platform_update_jobs`, `agent_operation_jobs`, `config_apply_jobs` | create, claim, complete, close orphans | Agent polls and heartbeats |
| Agent loop (`agent/heartbeat`, `agent/tasks`) | task in hand, receipts, staged files | poll, execute, report, reconcile | systemd, VPN runtimes, Manager |
| rollouts (`platform_update_rollout_*`) | plan, entries, observed job counts | plan, inspect, admit, prove health | node task queue, heartbeats |
| delivery (`backend/delivery`) | rows, in-memory link store | send, claim, resolve, mark, retry | SMTP, Telegram, device links |
| traffic (`agent/traffic`, `backend/traffic`) | outbox file, checkpoints, events, daily totals, limits | observe, report, acknowledge, retain, limit | runtime counters, accounts |
| transfers (`backend/transfers`) | transfers, node reservations | start, verify, cutover, cleanup, rollback, retry | configurations of two nodes, database triggers |
| configurations (`backend/configs`) | versions, apply jobs, active pointer | render, validate, apply, roll back | Agent apply |
| config apply on a node (`agent/tasks/applier.go`, `multi_config_apply.go`) | files, backups, services of up to four cores | stage, validate, promote, restart, check, roll back | systemd, VPN runtimes |
| Manager self-update (`backend/updates`, `routegate-update-dispatch.py`) | stage and apply jobs, staged candidates, pins | discover, stage, evict, apply, recover | root dispatcher over a socket |
| node operations (`backend/agents`, `agent/vpncoreinstall`, `agent/diagnostics`) | operation jobs, diagnostic runs, the runtime on the host | start, stop, install, diagnose, synchronise | node task queue, apt, systemd |
| maintenance (`backend/maintenance`, `agent/runtimecleanup`) | plans, agent jobs, staged and backup files | plan, confirm, execute, verify, recover | node operations, backups of config apply |
| health and alerts (`backend/observability`) | snapshots, health checks, alerts, intents | measure, evaluate, fire, resolve, suppress | Agent telemetry |
| notifications (`backend/observability`, `delivery`) | intents, claims, deliveries per recipient | claim, expand, link, release | alerts, delivery |
| Telegram pairing (`delivery/telegram_pairing.go`) | pairing sessions, update offset, recipients | open, poll, pair, confirm, delete | Telegram, accounts |
| auth, setup, users (`auth`, `setup`, `users`) | users, roles, sessions, one-time links | log in, set up, change password, edit, disable | every handler |
| accounts, devices, client profiles (`vpnaccounts`, `configs`) | protocol preferences, devices, links, versions | edit, revoke, rotate, render, confirm, hand out | configurations, delivery |
| automatic selection (`vpnaccounts`, `nodegroups`) | groups, members, policies, last selection | rank, select, move | transfers, heartbeats |
| servers, geolocation | servers, registration tokens | register, edit, delete, locate | agents |

### What is hard

Nearly everything that matters is spread over processes that can stop at any
time and talk over requests that are lost, late or repeated:

* a claim is committed although its answer never arrives; a completion arrives
  twice or after newer evidence;
* the updater restarts the very process that supervises it, on a node (Agent)
  and on the Manager's own host;
* decisions are made from an unlocked read and acted on in a later transaction
  (rollouts, transfers, limits, eviction);
* in-memory state accompanies a committed row (the link store of deliveries);
* several files and services must change together although each change is its
  own system call;
* reports must be counted once although they are retried until answered;
* an evaluation of alerts, an expansion of a notification and an installation are
  many statements or commands, each of which may be the last one;
* what clients are handed is decided by a version that was confirmed long after
  it was rendered, while preferences kept changing.

The hazards are listed line by line in `PROJECT.json`, with the properties that
catch them; those without a property say why.

### What makes each part correct

* node update: at most one mutation, no verdict that contradicts the host, no
  second update over an unknown outcome, every receipted job is decided;
* rollout: one node at a time in plan order, healthy only with proof, a verdict
  that agrees with the entries;
* delivery: no duplicate message, no false outcome, the right link, a decision
  for every row;
* traffic: never counted twice, nothing lost, totals that agree, limits that
  follow usage;
* transfer: the account never loses access, other accounts are untouched,
  access is withdrawn from the old node, no reservation that cannot end;
* config apply: all or nothing on the node, and the Manager's view is the node;
* Manager update: candidate files stay while root reads them, one attempt per
  candidate, bounded storage, verdicts only about work that is over;
* identity: a replaced password opens nothing, at most one setup link works;
* client access: clients are handed exactly what the confirmed version deploys,
  no saved preference stays pending on an up-to-date node, a revoked device is
  cut off;
* node operations: only confirmed files are removed and never the newest backup,
  success means gone, an installed runtime stays startable, every job and every
  diagnostic ends;
* alerts and notifications: alerts do not flap, a silent node raises one alert,
  every announcement is expanded and each recipient hears it once;
* pairing: no message that Telegram handed over is lost;
* automatic selection: the cooldown holds, and the transfers it starts are as
  safe as any other.

## 2. Modules and their correspondence with the code

| module | models | one step is |
|---|---|---|
| `PlatformUpdate` | the update of one VPN node: Manager queue, Agent process(es), receipt, detached worker | a transaction, a receipt access or a process event |
| `PlatformUpdateProofs` | inductive invariant and theorems of `PlatformUpdate` | |
| `Rollout` | rollouts over several nodes with competing updates, heartbeats, re-registrations | a transaction (serialised by the admission lock) or a node event |
| `RolloutProofs` | inductive invariant, theorems and refinement of `Rollout` | |
| `SequentialRollout` | abstract specification of a rollout: a plan worked off one node at a time | |
| `Delivery` | delivery rows, requests, worker, link store, provider | a statement, a map access or an exchange with the provider |
| `Traffic` | counters, outbox, report transactions, retention, limits of one node | a file write, a request or a transaction; limit evaluation is a step of its own |
| `Transfer` | account transfers between nodes and the apply queues they use | a transaction of a handler or a step of an Agent |
| `ConfigApply` | the apply of one version to several cores of a node | a file promotion, a restart with its check, a rollback step |
| `AgentProofs` | inductive invariants and theorems of `ConfigApply` and of `Traffic` | |
| `ManagerUpdate` | staging, eviction, apply and recovery on the Manager's host | a transaction, a file operation or a message of the socket |
| `ManagerUpdateProofs` | inductive invariant and theorems of `ManagerUpdate` | |
| `AutomaticSelection` | node groups, candidates, policies and selections, on top of `Transfer` | a transaction of a handler, a change of a node's signals |
| `TransferProofs` | inductive invariant and theorems of `Transfer` and `AutomaticSelection` together | |
| `Identity` | users, roles, sessions, setup links; requests that act on what they read earlier | a transaction, or a read that a later transaction relies on |
| `ClientConfig` | which protocols and credentials settings, a render and a profile give an account | (operators only) |
| `ClientAccess` | preferences, devices, links, versions, renders and confirmations of one node | a query of a render or a transaction |
| `ClientProofs` | inductive invariants and theorems of `Delivery` and of `ClientAccess` | |
| `RuntimeInstall` | the stages of the three kinds of runtime installation | a command on the host |
| `NodeOperations` | operation jobs, diagnostics and cleanup plans over several nodes, with `RuntimeInstall` | a transaction, a file operation or a command of an Agent |
| `AdministrationProofs` | inductive invariants and theorems of `Identity` and of `NodeOperations` | |
| `Alerting` | health worker, alert policy and engine | a statement of an evaluation |
| `Pairing` | pairing of Telegram chats | a transaction, or the exchange with Telegram inside it |
| `Notifications` | expansion of intents to deliveries; composes `Alerting` and `Pairing` | a statement of the worker |
| `NotificationsProofs` | inductive invariant and theorems of `Notifications`, with `Alerting` and `Pairing` | |
| `MC*` | instances for TLC: model values, plans, symmetry | |

`Rollout` uses the outside view of `PlatformUpdate`: a job of a node is claimed,
may install its version and gets a terminal status that is `succeeded` only if
the version was installed, which is what `VerdictSound` proves. `Transfer`
contains the apply queue of every node; `ConfigApply` opens one apply up, and
`ClientAccess` opens up what a version contains. `AutomaticSelection` starts the
transfers of `Transfer` by the same action as an administrator. `Notifications`
ends where `Delivery` begins: a delivery row exists for each recipient.

A proof module about two components extends both, so the second of each pair
names its own parts after itself: `IdentitySpec`, `TrafficSpec`, `AccessSpec`.

Operators named `X_Something` before `X` are mutants: `X` as a plausible bug
would have it. No specification uses them; `PROJECT.json` (`mutants`) names the
property each one breaks.

### Abstractions

* Identities, versions, candidates and accounts are model values or small
  numbers; texts, keys, ports and routing rules are left out.
* A check that only refuses (readiness, reachability, expiry, protocol
  preference) is a guard that may fail: a refused request changes nothing.
* Clocks become events: a throttle expires, a heartbeat ages, a retry is due.
* External behaviour is nondeterministic over what the code distinguishes: the
  provider takes a message, refuses it or is silent; the updater applies,
  reverts or is interrupted; a runtime check passes or fails.
* `Transfer`: a configuration is the set of accounts it lets in. Deletion,
  pinning and pruning of versions are not modelled; service control is on.
* `Delivery`: the statuses `delivered` and `cancelled` exist in the schema, and
  no provider and no handler produces them.
* `ManagerUpdate`: a database call that is not answered took effect before the
  code's reconciliation reads, or never. Discovery jobs are constants. Root's work
  on a candidate is idle, asked, working (verifying a copy, backing up), mutating,
  and ends `ok`, `refused` (before any change), `restored` or `dirty` (changed,
  rollback not proven, or killed), or `interrupted` with the host. The updater's
  first change is to stop Manager. The role marker decides whether it does, and the
  stop may fail; the model allows every end in either case. The database that a
  rollback restores is not modelled.
* `AutomaticSelection`: heartbeats, load and capabilities of a node are a set of
  signals; the rendezvous hash is a constant operator; the length of a cooldown is
  fixed, and accounts have no protocol preference. `chosen` is a note for the
  property.
* `Identity`: a password is the number of its hash. Hashing, cookies, expiry of
  sessions and rate limits are left out, and so is a start that only warns and
  serves without a SuperAdmin.
* `ClientAccess`: the code compares timestamps of preferences and versions; here
  `at` counts the versions stored when a preference was saved, which orders them
  the same way. A configuration is the protocols and devices it carries.
* `NodeOperations`: a service operation that fails leaves the service not running,
  also a failed stop; no property depends on it. Of a plan's categories the Agents'
  files are modelled;
  time is counted in units of which retention is a number (`Retention`), and a node
  has at most one apply in a unit, so that no two backups are of the same age. A file is named after its version, as on the host.
* `Alerting`: the unit of time is the workers' interval, and delays are numbers of
  it. Memory and disk are one check of capacity. There is at most one report and
  one evaluation in a unit; the health worker and reports wait while an evaluation
  runs. The first two statements of a diagnostic's synchronisation
  (`NodeOperations`) are one step.
* *Scenarios and budgets*: where a module has many operations, a behaviour starts
  with one of several budgets of what administrators and faults may do. This is a
  bound, as a counter is, and lets each combination of operations be explored
  further than one bound on all of them would.

## 3. Runs

`tlc -config X.cfg MCModule`. Every number below is a constant of the cfg.

| run | checks | bounds |
|---|---|---|
| `UpdateResolves` | `VerdictMatchesHost`, `AtMostOneMutation`, `OperationsExcludeUpdater`; receipted jobs are decided (fair) | 2 jobs one after another with a fault before the second exists, or 1 job beside 1 operation or 1 config task with a fault |
| `UpdateConfigOverlap` | violated: a config task runs beside the updater | 1 job, 1 config task |
| `RolloutTwoNodes` | refinement of `SequentialRollout`; the job a rollout binds is its own; healthy means running the target; an advanced rollout ends (fair) | 2 nodes, 2 concurrent advances, 1 disruption |
| `DeliveryRequests` | no duplicate message; outcomes true; every row decided (fair) | 1 delivery, 2 concurrent requests, 2 links, 2 faults |
| `TrafficTwoAccounts` | never counted twice, in events or daily totals; nothing lost in the outbox; a batch is accepted in the end (fair) | 2 accounts, 1 byte each, batches of 1, 1 change, 2 faults |
| `TransferTwoNodes` | access kept; never wedged; withdrawn at the end; the cooldown of selections holds; every config job ends (fair) | 2 nodes, 2 accounts, 2 transfers, 3 versions, 3 jobs; either 1 edit and 2 faults, or up to 2 selections with up to 2 changes of groups, policies or signals |
| `ConfigApplyNode` | all or nothing; confirmed is deployed | 3 versions over 2 cores, 3 jobs, 2 failures, 2 crashes |
| `ManagerUpdateStaging` | files kept under root, applied once, verdicts only about work that is over | 3 candidates for 2 places, 4 jobs, 3 faults |
| `IdentitySessions` | a replaced password opens nothing; one working setup link | 2 users, 2 concurrent requests, 3 passwords, 2 sessions, 2 links, 2 edits, 2 restarts; no behaviour has more than 6 of the last four together |
| `ClientAccessNode` | clients are handed what is deployed; nothing stays pending; a revoked device is cut off | 1 node, 2 accounts, 3 protocols, 7 budgets |
| `NodeOperations` | newest backup kept; success means gone; runtimes stay startable; only confirmed files removed; jobs and diagnostics end (fair) | 2 nodes, 2 versions, retention of 1 unit of the clock; scenarios of planning, installing and diagnosing with up to 2 stops |
| `NotificationsOnce` | no flapping; each recipient hears once; no pairing message lost; steady before resolved; one connectivity alert; intents are expanded (fair) | 1 server that is low or out of capacity or silent, 2 chats, 2 sessions, 1 account; delays of 1 to 3 units; 5 budgets |

`TypeOK` of every module and some further invariants (`PreDispatchFailureIsHarmless`,
`NoUpdateOverUnknownOutcome`, `EvidenceIsMonotone`, `SentLinkIsBound`,
`WaitingIsClaimable`, `RetainedIsComplete`, `StorageBounded`,
`BystandersUntouched`, `ReservationHolds`) are not in a cfg: they hold when added
to the run of their module, and those of the modules with proofs are proved.

`MCPlatformUpdate` and `MCAutomaticSelection` restrict the next-state relation:
the one to the combinations of jobs and faults in the table, the other to one
source of change in a scenario (manual transfers, edits and faults, or
selections and what leads to them). `MCIdentity` adds the state constraint
`FewEvents`: any three of edits, restarts, links and sessions reach their own
bounds in one behaviour, all four do not. In `NotificationsOnce` a component
recovers because its evidence becomes outdated, never because a healthy sample
arrives; the two take the same branches of the engine, and the theorems of
`NotificationsProofs` hold for every set of samples. Its budget of faults never
meets enough units of time for an evaluation that fails between two statements to
matter to `QuietAfterResolve` and `SteadyBeforeResolve`: for that case the two rest
on the theorems. `ConfirmedIsDeployed` says nothing between a crash in an apply and
the next job that succeeds.

**Why the bounds are enough to be interesting.** Every hazard the properties
are for needs at most two actors on one row and one or two faults: each bound is
the smallest at which both actors, a retry of each and a fault between their
steps occur, plus one fault more where the runtime allows. Alerts need time to
pass: the delays are the smallest numbers that keep the order of the real ones
(critical before warning, recovery and flap window longer than one interval). Every action of every
next-state relation fires in the passing runs, and every property of every
passing run is violated by its mutant under the run's own bounds.
Two Agent processes on one receipt directory, several deliveries at once and
more jobs than the runs have are covered by the proofs, which hold for every set
of them. `ConfigApply` is checked with service control on; without it an apply
ends after the promotions and has fewer steps.

**Deadlock** is checked in `Delivery` and `Traffic`. The other runs set
`CHECK_DEADLOCK FALSE`: with their jobs, edits and faults used up the systems
rest, as the real ones do when nobody asks for anything. `NeverWedged` states
what must not get stuck in a transfer.

**Fairness.** Only loops the code runs for ever are fair: the Agent's ticker
(`heartbeat/runner.go`), the delivery worker's loop, the traffic collector's
tick, systemd starting a queued unit and the updater's exit (every step of it
has a timeout), the diagnostic, alert and notification workers' tickers,
transactions that have begun, and clocks (a claim ages). Administrators are
assumed fair in one place: a rollout moves only when it is advanced, so
`RolloutResolves` speaks of one that is advanced again and again. Faults are
never fair; they are bounded.

## 4. Findings

Runs with the expectation *violation* state what a comment, a document or a test
of the repository says and the code does not do; `PROJECT.json` quotes both.

1. `UpdateConfigOverlap`: config tasks are handed out while an update runs.

Ten more formulas stand in the modules because a reader would expect them; they
do not hold, no run checks them, and each comment says what it is about:

| formula | why it fails |
|---|---|
| `ClaimedJobResolves` (`PlatformUpdate`) | a claim whose answer is lost leaves its job in progress: there is no receipt to reconcile (`operation_repository.go:247`) |
| `MaterialReleasedAtOutcome` (`Delivery`) | the worker may decide a row before the request has stored its link (`delivery/handler.go:277`) |
| `LimitStateMatchesUsage` (`Traffic`) | with limits above zero a limit change and a report may evaluate without seeing each other (`traffic/repository.go:254`) |
| `ReassignedOnlyByTransfer` (`Transfer`) | "deployed" is read from what was reported, not from what was applied (migration 000159, line 64) |
| `NothingUnverifiedLeft` (`ConfigApply`) | files an interrupted apply left behind become the backup of the next one (`tasks/applier.go:53`) |
| `CallEndsItsJob` (`ManagerUpdate`) | a failing transition replaces the handler's job by an empty one; the job stays open and refuses every apply until a restart (`updates/apply_handler.go:143`; for stage jobs `stage_handler_identity_test.go` demands the contrary) |
| `DefiniteMeansRestored` (`ManagerUpdate`) | an updater that changed the host and cannot prove its rollback exits with 75, which is to be classified "as outcome_unknown, never as an ordinary failure" (`routegate-update-transaction.sh:32`); the dispatcher answers it with ERR like every exit status but 0 (`routegate-update-dispatch.py:138`), and Manager stores a definite `privileged_apply_failed` (`updates/apply_handler.go:183`) |
| `SuperAdminRemains` (`Identity`) | both checks of the last SuperAdmin are unlocked reads, and one counts disabled users (`docs/api/admin-api.md:323`) |
| `ResolvedIsHealthy` (`Alerting`) | evidence that becomes outdated "recovers" the incident of a component |
| `LinkPairsOnce` (`Pairing`) | deleting the recipient makes its "one-time link" usable again for the rest of its ten minutes |

`DefiniteMeansRestored` is a disagreement inside the repository: the Agent, the
other caller of the updater, does tell exit 75 from other failures
(`tasks/platform_update_apply.go:19`), and `docs/architecture/manager-apply-orchestration.md:37`
calls ERR a definite failure without speaking of the host. TLC refutes the formula
within a single apply, without a fault of the model's budget, once it is added to
the run `ManagerUpdateStaging`. The shortest way there in the code is a `systemctl`
that fails: the updater could not stop Manager, which therefore still waits for the
answer, and the rollback could not reload or restart the services either
(`routegate-update-role.sh:315`, `:435`, `:461`). `OutcomeIsFinal`, which the run
checks and a theorem states, is what does hold: it counts a host that was left
changed among the definite failures.

Some properties name a case they exclude, recorded by a note variable: a login
that verified the old password before it was replaced (`late` in `Identity`), a
link created for a device that was read as active before its revocation (`late`
in `ClientAccess`).

Met while modelling, and part of the models without a formula of their own:

* a changed bot token does not reset the update offset of the pairing; a
  recipient that is deleted and paired again has a new id and may hear an
  announcement twice; "resolved" may be expanded before a retried "firing";
* a plan whose last statement fails stays "running" until the next start;
* an installation interrupted between binary and unit ends in
  `unmanaged_runtime_conflict`, one between unit and directories in
  `already_installed` without them, one after the mask leaves the unit masked
  until a reboot, and one before `removeNewPackageConfig` leaves the package's
  configuration.

## 5. Proofs

TLAPS proves the theorems for every set of jobs, rows, processes and every
bound, in eight modules, three of which hold the proofs of a pair of components.
Each proof has the same outline: an invariant `Inv` of named parts, `Init => Inv`,
one lemma per action that `Inv` is preserved, their union over
`Next`, and the properties from `Inv`.

**`PlatformUpdateProofs`.** The properties compare Manager and host, which never
talk directly; the invariant therefore follows the evidence link by link:
completions in flight against the receipt (`MessageInv`), the receipt against
worker and host (`ReceiptInv`, `WorkerInv`), a process that is about to start
the unit against everything else (`LaunchInv`), a reconciler's reading against
what may have changed since (`ReconcilerInv`), the stored status against the
receipt (`ManagerInv`), and the unique index (`InterlockInv`). `NoLaunch(j)` is
the core: once it holds for a job, no interleaving can start its updater.
Proved: `TypeCorrect`, `PreDispatchFailureSafe`, `VerdictSound`,
`MutationExclusive`, `UnknownOutcomeBlocks`; the action property
`EvidenceOnlyGrows`; and `OperationsExcluded`, whose hypothesis is a single Agent
process on the node: with two, `OperationsExcludeUpdater` is false, for the second
process may be busy when the first starts the updater. Its invariant `OperationInv`
says that a busy Agent has nothing queued or running beside it. Assumptions: job,
task and process identities are distinct, faults are counted by a natural number.

**`ManagerUpdateProofs`.** The table of jobs is a sequence, so the first lemmas
say what an INSERT and an UPDATE leave of its rows (`RowUpdated`, `RowInserted`,
`OnlyOutcome`). The invariant ties handlers to open jobs and the lock
(`CallInv`), apply jobs to successful candidates of their own (`RefInv`), root's
work to pins and files (`RootInv`), the answer an apply job gives to root's state
(`ApplyInv`), offered candidates to their directories (`StageInv`) and the victim
of an eviction to its mark (`CompletedInv`, `EvictInv`). `RefInv` carries the
argument: an open job is nobody's candidate, so cleaning up after it can never
pull files from under root. `StorageInv` counts the candidates: every directory
belongs to a retained job, there are no more of these than places, an open job was
never evicted, and between the two transactions of an eviction the victim has no
directory, so that its place is free when the row says so. Proved: `TypeCorrect`,
`RootKeepsCandidate`, `CandidateAppliedOnce`, `OfferedIsComplete`,
`ApplyOutcomeFinal`, `StagingBounded`. `ApplyOutcomeFinal` is no statement about
the host: `DefiniteMeansRestored`, which would be, is false (section 4).

**`RolloutProofs`.** `QueueInv` (only the newest job of a node can be unresolved),
`HostInv` (a node runs what its newest job installed, or was registered since and
reports what it runs), `NetInv` (no heartbeat with a credential not yet handed out),
`BoundInv` (the watermark: a bound job is the first after those observed at the plan)
and `EntryInv` (at most one entry is being updated, and only in a running rollout
without a failure). Proved: `TypeCorrect`, `FirstSincePlan`, the action property
`HealthyMeansTarget`, and `SequentialRefinement`: initial states map to abstract
initial states and every step to an abstract step or a stutter, by the refinement
mapping of `Rollout`.

**`AgentProofs`.** *Configurations.* `QueueInv` (jobs are taken in order, the Agent's
is in progress and those behind it wait), `ProgressInv` (which cores are promoted in
each phase), `NodeInv` (files and services, phase by phase), `BackupInv` (a rollback
restores what was there before) and `DeployedInv` (once the newest job that was taken
has succeeded, its version is deployed). Proved: `TypeCorrect`,
`AppliesAllOrNothing`, `ConfirmedDeployed`. Assumption: a version selects a non-empty
sequence of cores without repetition.

*Traffic.* A byte is counted on the host, noted in the Agent's memory, written to the
outbox, sent, perhaps twice, and recorded; every one of these can be lost on its own.
`BoxInv` places the outbox file and the Agent's copy in the numbering of their
stream: the batch is the next one the Manager accepts, or the last one while the
Agent has not written down the answer. `SentInv` (one batch per number, whoever
repeats it), `AgentInv` (memory is never ahead of the file but for the answer in
hand) and `ReportInv` (a transaction has its stream to itself) say the same of
requests and transactions. `NeverOvercounted` cannot be shown by balancing the
books, since lost files and restarted counters leave gaps: `CutInv` says instead
that the bytes an account has used can be *divided* among the streams, so that what
is recorded and what the last batch of a stream may still add end before the next
stream's bytes begin. `LossInv` is the exact balance as long as the first outbox and
the counters survive. `SumInv` equates the daily totals with the rows; the sum over
a finite set of rows is a recursive function, and its laws (`RowsTaken`,
`RowsSummable`) are proved from a smallest counterexample, as under *Recursion*
below. Proved: `TrafficTypeCorrect`, `EveryByteOnce`, `NoByteLost`. Assumption: a
limit of 0 bytes is among those that may be set, which is the value of an account
without one.

**`AdministrationProofs`.** *Identity.* `RequestInv` says what a request still carries
between its read and its write, and `LinkInv` that an open link is its user's only
one, before the setup. Proved: `TypeCorrect`, `OldPasswordsDie`, `OneLink`.

*Node operations.* `NewestBackupKept` compares the host with what a plan saw long
ago. `BackupOK` says that the newest backup is the one written last and that no two
are of the same age, `CleaningOK` that an Agent removes only files that a confirmed
plan listed and that are still older than its cutoff, and `CleanupInv` that each
cleanup job is of such a plan (`FromPlan`). `SucceededIsGone` follows the evidence
from the host to the plan: what an Agent reports as missing is gone or is newer than
the plan (`Gone`), a verification repeats that for its job (`Verifies`,
`ExecutionInv`), the plan for its jobs (`PlanInv`); a file that is written again
afterwards is a newer one. `InstallOK` says, stage by stage of each kind of
installation, what the host already has, from which an installed runtime stays
startable. Proved: `NodeTypeCorrect`, `NewestIsKept`, `SuccessMeansGone`,
`InstalledStaysStartable` and the action property `OnlyConfirmedIsRemoved`. The
proofs corrected the model twice: `EnableService` refuses a unit that does not
exist, and two applies of a node in one unit of the clock would make the age of a
backup ambiguous, which real timestamps do not.

**`ClientProofs`.** *Deliveries.* `HolderInv` (who holds which row), `MessageInv`
(what the provider took against the row and against what the worker is about to
store), `AttemptInv`, `LinkInv`. Proved: `TypeCorrect`, `NoDuplicateMessage`,
`VerdictSound`, `WaitingClaimable`, `LinkBound`.

*Access.* A version is rendered from queries minutes apart, confirmed later, and
turned into access by a trigger, by reactivation and by the first fetch of a client,
in any order with edits. `Describes` says that the settings a version tells clients
agree with what its configuration deploys, `RenderOK` the same of a render under
way. `Follows` is what ties an account to the active version, whatever has happened
since its confirmation: per account exactly the protocols listed, MTProto as desired
before the version, and a primary protocol that the version deploys or, for an
account the version does not know, the one wanted before it. `SettledOK` says it of
every account that was on the node at the confirmation, and `SettledStays` that no
edit, fetch or new version disturbs it. `NothingPending` needs one argument more:
if another render would be given back, nothing wanted differs from the latest
version, so `Follows` hands out what is desired. Proved: `AccessTypeCorrect`,
`HandedWhatIsDeployed`, `SavedIsHanded`, `RevokedMeansCutOff`. Assumption: the
protocols are a sequence that has VLESS, WireGuard and MTProto, as
`accountProtocolOrder`, and neither "auto" nor the empty value is one.

*What the attempt at `SavedIsHanded` showed.* `NothingPending` used to speak of every
account in service, and held on the run's bounds. It is false, in two ways that TLC
confirms with other constants:

* an account that is out of service during the render, with MTProto as its only
  desired protocol but another one as its primary (the preference is "auto" and the
  node's default was changed), has no entry in the version, because inactive
  accounts served by the proxy alone are skipped (`configs/service.go:115`). Activating
  it changes no configuration, the equivalent version is reused since only
  timestamps of preferences are compared (`configs/repository.go:262`), and the
  trigger has recorded a primary protocol that is not deployed: the account is
  served nothing until something else changes;
* a row for MTProto that was seeded while the account was off the node becomes active
  with the next version that has the proxy, so that the account is handed MTProto
  beyond what is desired.

The property now says what the code ensures: for an account the version knows, or
whose primary protocol is desired, everything desired is handed out, and of the
protocols deployed per account nothing else. (Two accounts are needed for the first
case, with node defaults MTProto and VLESS, one choice ("auto", MTProto alone), two
edits of accounts, two of preferences, and one each of node settings, renders and
applies.)

**`NotificationsProofs`.** `HealthInv` and `EngineInv` date the evidence: a row that
is not marked stale expires no later than the last snapshot, whichever copy of it
the health worker or the engine holds. `EpisodeInv` orders the episodes of a check
(one begins when the one before is over) and says that a recovery has lasted since
the condition was last seen; `DueIsQuiet` is the argument for the flap delay, from
the greatest end of the earlier episodes. `PairingInv` keeps the references between
links, accounts and recipients; the commit of a poll applies any number of updates,
and `RunKeeps` carries the invariant from one to the next. `IntentInv`,
`DeliveryInv` and `ExpansionInv` say that what an expansion has ticked off has its
delivery and link, and that identifiers of recipients are never used again, so that
nobody joins an old audience. Proved: `TypeCorrect`, `FlappingIsQuiet`,
`NoPairingLost`, `HearsOnce` and the action properties `SteadyResolves` and
`OneAlertWhenSilent`. Assumptions: positive delays with the flap delay not longer
than its window, finitely many servers, and scenarios that start with numbered
recipients.

**`TransferProofs`.** The theorems are about `SelectionSpec`: the transfers with
the queues, the Agents and the automatic selection that also starts transfers. The
run's `MCSpec` only restricts its steps. Three parts of the invariant are about the
queue: `JobInv` (a job's version exists), `HandInv` (what an Agent has applied, its
node runs) and `OpenInv` with `ReservedInv` (on a reserved node nothing is open but
the current job of the one active transfer that reserves it). `TransferInv` says
what an active transfer owns and knows: `Holds` (both its nodes are reserved for
it), `Deploys` (once its current job has succeeded, that node runs its version) and
`Keeps` (the source stays as it was found until its cleanup; from the verification
on the target has the account; the cleanup's version is without it). The
reservations carry the argument: a step of one transfer, or of anybody else, leaves
every other active transfer alone (`Undisturbed`), because it would need a node that
is reserved for that one. `AccessNeverLost` is not inductive without `Deploys` and
`OpenInv`: a success that Manager believes must be of what runs *now*, and nobody
may apply anything else afterwards. `CooldownInv` ties the memory of a selection to
the policy's timestamp. `BystanderInv` is about the other accounts: on the nodes of a
transfer they are let in as in the version that was active when it began
(`BaseKept`), and so every version it has queued lets them in that way
(`JobAlike`). It holds because the baseline check of Start compares what is saved
with what is applied, and afterwards only traffic enforcement can change an account
on a reserved node; a render then lets in what `BaseKept` says, as no other transfer
places an account there (`RenderedBeside`). Proved: `TypeCorrect`, `AccessKept`,
`NeverStuck` (more than
the run checks: one of rollback, finish and retry is always allowed),
`ReservationsHold`, `BystandersKept`, and the action properties `Withdrawn` and `CooldownKept`.
Assumptions: at least one version may be stored, node identifiers are distinct,
scores of members are natural numbers, and scenarios are of their types.

*Recursion.* The library's induction theorems cannot be instantiated here, but a
set of natural numbers has a least element (`LeastNumber`, from the
well-foundedness of `<`), and that suffices for induction over a concrete set: the
recursive function of `PairAll` exists (`RunExists`), and every value of it satisfies
`Applied` (`RunKeeps`), because otherwise there would be a first one that does not.

*Overlapping cases.* In TLA+ a CASE whose guards overlap may take any of them; TLC
takes the first. The proof of `OneAlertWhenSilent` showed one such CASE in
`EvaluateAlertCondition`; it is an IF now, as in the code, and the other CASE
expressions have disjoint guards.

**Only model-checked.** Liveness and anything with fairness or ENABLED (out of
TLAPS's reach): `ReceiptedJobResolves`, `RolloutResolves`, `DeliveryResolves`,
`BatchDrains`, `IntentsExpand`, `OperationsEnd`, `JobsSettle`. Every invariant and
every other action property of a run is proved.

## 6. Not modelled

Read-only views, presentation, installers, rendering of configuration texts,
cryptography, the transport of SMTP and Telegram, and the host scripts inside an
update. The reasons are in `PROJECT.json` (`components`).

The largest parts without a module: servers with registration tokens and
geolocation and routing profiles (single-statement edits but for the default
profile), provider settings, preflight and discovery jobs (no interlock), the
steps inside the updater script, and the Manager's own categories of a cleanup
plan.

## 7. Plan

1. `Servers` and registration tokens, with the geolocation worker; routing
   profiles and their single default.
2. `UpdateTransaction`: the updater script's own steps and its recovery; preflight
   and discovery, and the connection pool under the admission lock.
3. Abstract specifications: a transfer as a safe move, a node update as a
   register with an honest verdict, one message per transition and recipient
   across `Notifications` and `Delivery`.

Theorems to prove next: the refinements of the abstract specifications above.
