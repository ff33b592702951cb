---------------------------- MODULE ClientProofs ----------------------------
(***************************************************************************)
(* The proofs about what reaches a client: the safety of the delivery queue *)
(* (Delivery) for any number of deliveries, requests and faults and every  *)
(* attempt limit, and of the access an account is handed (ClientAccess)    *)
(* for any accounts, devices, protocols and bounds.                        *)
(***************************************************************************)
EXTENDS Delivery, ClientAccess, SequenceTheorems, WellFoundedInduction, TLAPS

(***************************************************************************)
(* The delivery queue                                                      *)
(***************************************************************************)
\* The row a request or the worker holds is the one it was given.
HolderInv ==
    /\ \A r \in Requests :
          /\ rpc[r] # "idle" => rfor[r] \in Deliveries
          /\ rpc[r] = "stash" => rfor[r] \in DeviceScoped /\ status[rfor[r]] # "absent"
                                 /\ token[rfor[r]] = rlink[r]
    /\ wpc \in Busy => wfor \in Deliveries
    /\ wpc \in {"resolve", "send", "mark"} => status[wfor] = "sending"

\* Messages against the row, and against what the worker is about to record.
MessageInv ==
    /\ \A d \in Deliveries :
          /\ accepted[d] \in {0, 1}
          /\ status[d] = "sent" => accepted[d] = 1
          /\ status[d] \in {"absent", "failed"} \cup Waiting => accepted[d] = 0
    /\ wpc \in {"resolve", "send"} => accepted[wfor] = 0
    /\ wpc = "mark" => /\ result = "accepted" => accepted[wfor] = 1
                       /\ result \in {"retryable", "permanent"} => accepted[wfor] = 0

\* Attempts never exceed the limit of the row, and a waiting row has one left.
AttemptInv ==
    \A d \in Deliveries :
        /\ attempts[d] <= max[d]
        /\ status[d] \in {"absent"} \cup Waiting => attempts[d] < max[d]

\* Links in the stash, in the worker's hands and at the provider.
LinkInv ==
    \A d \in DeviceScoped :
        /\ status[d] = "absent" => stash[d] = 0 /\ link[d] = 0
        /\ stash[d] # 0 => stash[d] = token[d]
        /\ link[d] # 0 => link[d] = token[d]
        /\ wpc = "send" /\ wfor = d => wlink = token[d]

\* The inductive invariant.
Inv == TypeOK /\ HolderInv /\ MessageInv /\ AttemptInv /\ LinkInv

(***************************************************************************)
(* One lemma per action                                                    *)
(***************************************************************************)
\* A request that starts holds the row its key names and the active token's link.
LEMMA SubmitStep ==
    ASSUME Inv, NEW r \in Requests, NEW d \in Deliveries, Submit(r, d)
    PROVE  Inv'
<1>. USE DeliveryAssumption DEF Inv, Waiting, Terminal, Statuses, Results, Generations, Busy, row, request, worker, outside, Submit
<1>1. TypeOK'
  BY DEF TypeOK
<1>2. HolderInv'
  BY DEF TypeOK, HolderInv
<1>3. MessageInv'
  BY DEF TypeOK, HolderInv, MessageInv
<1>4. AttemptInv'
  BY DEF TypeOK, HolderInv, AttemptInv
<1>5. LinkInv'
  BY DEF TypeOK, HolderInv, LinkInv
<1>. QED
  BY <1>1, <1>2, <1>3, <1>4, <1>5

\* An inserted row has the request's token; a request that goes on to stash
\* found the same token in the row.
LEMMA CreateStep ==
    ASSUME Inv, NEW r \in Requests, Create(r)
    PROVE  Inv'
<1>. USE DeliveryAssumption DEF Inv, Waiting, Terminal, Statuses, Results, Generations, Busy, row, request, worker, outside, Create, SameCreateRequest, ShouldStash, Respond
<1>1. TypeOK'
  BY DEF TypeOK
<1>2. HolderInv'
  BY DEF TypeOK, HolderInv
<1>3. MessageInv'
  BY DEF TypeOK, HolderInv, MessageInv
<1>4. AttemptInv'
  BY DEF TypeOK, HolderInv, AttemptInv
<1>5. LinkInv'
  BY DEF TypeOK, HolderInv, LinkInv
<1>. QED
  BY <1>1, <1>2, <1>3, <1>4, <1>5

\* The stashed link is the row's, because the row's token never changes.
LEMMA StashStep ==
    ASSUME Inv, NEW r \in Requests, Stash(r)
    PROVE  Inv'
<1>. USE DeliveryAssumption DEF Inv, Waiting, Terminal, Statuses, Results, Generations, Busy, row, request, worker, outside, Stash, Respond
<1>1. TypeOK'
  BY DEF TypeOK
<1>2. HolderInv'
  BY DEF TypeOK, HolderInv
<1>3. MessageInv'
  BY DEF TypeOK, HolderInv, MessageInv
<1>4. AttemptInv'
  BY DEF TypeOK, HolderInv, AttemptInv
<1>5. LinkInv'
  BY DEF TypeOK, HolderInv, LinkInv
<1>. QED
  BY <1>1, <1>2, <1>3, <1>4, <1>5

\* A rotation touches neither rows nor stashed links.
LEMMA RotateStep ==
    ASSUME Inv, Rotate
    PROVE  Inv'
<1>. USE DeliveryAssumption DEF Inv, Waiting, Terminal, Statuses, Results, Generations, Busy, row, request, worker, outside, Rotate
<1>1. TypeOK'
  BY DEF TypeOK
<1>2. HolderInv'
  BY DEF TypeOK, HolderInv
<1>3. MessageInv'
  BY DEF TypeOK, HolderInv, MessageInv
<1>4. AttemptInv'
  BY DEF TypeOK, HolderInv, AttemptInv
<1>5. LinkInv'
  BY DEF TypeOK, HolderInv, LinkInv
<1>. QED
  BY <1>1, <1>2, <1>3, <1>4, <1>5

\* A row put back has an attempt left and no message counted.
LEMMA RequeueStep ==
    ASSUME Inv, NEW d \in Deliveries, Requeue(d)
    PROVE  Inv'
<1>. USE DeliveryAssumption DEF Inv, Waiting, Terminal, Statuses, Results, Generations, Busy, row, request, worker, outside, Requeue, Requeueable, RequeueMax, WithinLimit
<1>1. TypeOK'
  BY DEF TypeOK
<1>2. HolderInv'
  BY DEF TypeOK, HolderInv
<1>3. MessageInv'
  BY DEF TypeOK, HolderInv, MessageInv
<1>4. AttemptInv'
  BY DEF TypeOK, HolderInv, AttemptInv
<1>5. LinkInv'
  BY DEF TypeOK, HolderInv, LinkInv
<1>. QED
  BY <1>1, <1>2, <1>3, <1>4, <1>5

\* Interrupted sends become uncertain, whatever the provider did with them.
LEMMA RecoverStep ==
    ASSUME Inv, Recover
    PROVE  Inv'
<1>. USE DeliveryAssumption DEF Inv, Waiting, Terminal, Statuses, Results, Generations, Busy, row, request, worker, outside, Recover, RecoveredStatus, Go
<1>1. TypeOK'
  BY DEF TypeOK
<1>2. HolderInv'
  BY DEF TypeOK, HolderInv
<1>3. MessageInv'
  BY DEF TypeOK, HolderInv, MessageInv
<1>4. AttemptInv'
  BY DEF TypeOK, HolderInv, AttemptInv
<1>5. LinkInv'
  BY DEF TypeOK, HolderInv, LinkInv
<1>. QED
  BY <1>1, <1>2, <1>3, <1>4, <1>5

\* The claim takes a row with an attempt left and no message out.
LEMMA ClaimNextStep ==
    ASSUME Inv, NEW d \in Deliveries, ClaimNext(d)
    PROVE  Inv'
<1>. USE DeliveryAssumption DEF Inv, Waiting, Terminal, Statuses, Results, Generations, Busy, row, request, worker, outside, ClaimNext, Claimable, Go
<1>1. TypeOK'
  BY DEF TypeOK
<1>2. HolderInv'
  BY DEF TypeOK, HolderInv
<1>3. MessageInv'
  BY DEF TypeOK, HolderInv, MessageInv
<1>4. AttemptInv'
  BY DEF TypeOK, HolderInv, AttemptInv
<1>5. LinkInv'
  BY DEF TypeOK, HolderInv, LinkInv
<1>. QED
  BY <1>1, <1>2, <1>3, <1>4, <1>5

\* The rendered link is the stashed one; a failure here has sent nothing.
LEMMA ResolveStep ==
    ASSUME Inv, Resolve
    PROVE  Inv'
<1>. USE DeliveryAssumption DEF Inv, Waiting, Terminal, Statuses, Results, Generations, Busy, row, request, worker, outside, Resolve, MaterialAvailable, Go
<1>1. TypeOK'
  BY DEF TypeOK, HolderInv
<1>2. HolderInv'
  BY DEF TypeOK, HolderInv
<1>3. MessageInv'
  BY DEF TypeOK, HolderInv, MessageInv
<1>4. AttemptInv'
  BY DEF TypeOK, HolderInv, AttemptInv
<1>5. LinkInv'
  BY DEF TypeOK, HolderInv, LinkInv
<1>. QED
  BY <1>1, <1>2, <1>3, <1>4, <1>5

\* The first message of the row; the result says no more than the provider did.
LEMMA SendStep ==
    ASSUME Inv, Send
    PROVE  Inv'
<1>. USE DeliveryAssumption DEF Inv, Waiting, Terminal, Statuses, Results, Generations, Busy, row, request, worker, outside, Send, SendResults, Go
<1>1. TypeOK'
  BY DEF TypeOK, HolderInv
<1>2. HolderInv'
  BY DEF TypeOK, HolderInv
<1>3. MessageInv'
  BY DEF TypeOK, HolderInv, MessageInv
<1>4. AttemptInv'
  BY DEF TypeOK, HolderInv, AttemptInv
<1>5. LinkInv'
  BY DEF TypeOK, HolderInv, LinkInv
<1>. QED
  BY <1>1, <1>2, <1>3, <1>4, <1>5

\* The stored status agrees with the result; a retry has an attempt left.
LEMMA MarkStep ==
    ASSUME Inv, Mark
    PROVE  Inv'
<1>. USE DeliveryAssumption DEF Inv, Waiting, Terminal, Statuses, Results, Generations, Busy, row, request, worker, outside, Mark, MarkStatus, RetryAllowed, Go
<1>1. TypeOK'
  BY DEF TypeOK
<1>2. HolderInv'
  BY DEF TypeOK, HolderInv
<1>3. MessageInv'
  BY DEF TypeOK, HolderInv, MessageInv
<1>4. AttemptInv'
  BY DEF TypeOK, HolderInv, AttemptInv
<1>5. LinkInv'
  BY DEF TypeOK, HolderInv, LinkInv
<1>. QED
  BY <1>1, <1>2, <1>3, <1>4, <1>5

\* Dropping the link leaves rows and messages alone.
LEMMA ReleaseStep ==
    ASSUME Inv, Release
    PROVE  Inv'
<1>. USE DeliveryAssumption DEF Inv, Waiting, Terminal, Statuses, Results, Generations, Busy, row, request, worker, outside, Release, Go
<1>1. TypeOK'
  BY DEF TypeOK, HolderInv
<1>2. HolderInv'
  BY DEF TypeOK, HolderInv
<1>3. MessageInv'
  BY DEF TypeOK, HolderInv, MessageInv
<1>4. AttemptInv'
  BY DEF TypeOK, HolderInv, AttemptInv
<1>5. LinkInv'
  BY DEF TypeOK, HolderInv, LinkInv
<1>. QED
  BY <1>1, <1>2, <1>3, <1>4, <1>5

\* A retry that becomes due changes nothing the invariant speaks of.
LEMMA RetryDelayPassesStep ==
    ASSUME Inv, NEW d \in Deliveries, RetryDelayPasses(d)
    PROVE  Inv'
<1>. USE DeliveryAssumption DEF Inv, Waiting, Terminal, Statuses, Results, Generations, Busy, row, request, worker, outside, RetryDelayPasses
<1>1. TypeOK'
  BY DEF TypeOK
<1>2. HolderInv'
  BY DEF TypeOK, HolderInv
<1>3. MessageInv'
  BY DEF TypeOK, HolderInv, MessageInv
<1>4. AttemptInv'
  BY DEF TypeOK, HolderInv, AttemptInv
<1>5. LinkInv'
  BY DEF TypeOK, HolderInv, LinkInv
<1>. QED
  BY <1>1, <1>2, <1>3, <1>4, <1>5

\* An expired link is simply gone.
LEMMA StashExpiresStep ==
    ASSUME Inv, NEW d \in Deliveries, StashExpires(d)
    PROVE  Inv'
<1>. USE DeliveryAssumption DEF Inv, Waiting, Terminal, Statuses, Results, Generations, Busy, row, request, worker, outside, StashExpires
<1>1. TypeOK'
  BY DEF TypeOK
<1>2. HolderInv'
  BY DEF TypeOK, HolderInv
<1>3. MessageInv'
  BY DEF TypeOK, HolderInv, MessageInv
<1>4. AttemptInv'
  BY DEF TypeOK, HolderInv, AttemptInv
<1>5. LinkInv'
  BY DEF TypeOK, HolderInv, LinkInv
<1>. QED
  BY <1>1, <1>2, <1>3, <1>4, <1>5

\* The row stays "sending"; no claim can take it.
LEMMA MarkFailsStep ==
    ASSUME Inv, MarkFails
    PROVE  Inv'
<1>. USE DeliveryAssumption DEF Inv, Waiting, Terminal, Statuses, Results, Generations, Busy, row, request, worker, outside, MarkFails, Fault, Go
<1>1. TypeOK'
  BY DEF TypeOK
<1>2. HolderInv'
  BY DEF TypeOK, HolderInv
<1>3. MessageInv'
  BY DEF TypeOK, HolderInv, MessageInv
<1>4. AttemptInv'
  BY DEF TypeOK, HolderInv, AttemptInv
<1>5. LinkInv'
  BY DEF TypeOK, HolderInv, LinkInv
<1>. QED
  BY <1>1, <1>2, <1>3, <1>4, <1>5

\* Stash and goroutines are lost, the rows are not.
LEMMA ManagerRestartsStep ==
    ASSUME Inv, ManagerRestarts
    PROVE  Inv'
<1>. USE DeliveryAssumption DEF Inv, Waiting, Terminal, Statuses, Results, Generations, Busy, row, request, worker, outside, ManagerRestarts, Fault, Go
<1>1. TypeOK'
  BY DEF TypeOK
<1>2. HolderInv'
  BY DEF TypeOK, HolderInv
<1>3. MessageInv'
  BY DEF TypeOK, HolderInv, MessageInv
<1>4. AttemptInv'
  BY DEF TypeOK, HolderInv, AttemptInv
<1>5. LinkInv'
  BY DEF TypeOK, HolderInv, LinkInv
<1>. QED
  BY <1>1, <1>2, <1>3, <1>4, <1>5

\* The invariant holds when the Manager starts on an empty table.
LEMMA InitInv == Init => Inv
BY DeliveryAssumption DEF Init, Inv, TypeOK, HolderInv, MessageInv, AttemptInv, LinkInv,
   Waiting, Terminal, Statuses, Results, Generations, Busy

\* Steps of anything else leave it alone.
LEMMA StutterInv == ASSUME Inv, UNCHANGED vars PROVE Inv'
BY DEF vars, row, request, worker, outside, Inv, TypeOK, HolderInv, MessageInv, AttemptInv, LinkInv

\* Every step of a request, the worker, time or a fault preserves it.
LEMMA NextInv == ASSUME Inv, Next PROVE Inv'
<1>1. CASE \E r \in Requests : Create(r) \/ Stash(r) \/ \E d \in Deliveries : Submit(r, d)
  BY <1>1, CreateStep, StashStep, SubmitStep
<1>2. CASE WorkerStep
  BY <1>2, RecoverStep, ResolveStep, SendStep, MarkStep, ReleaseStep, ClaimNextStep DEF WorkerStep
<1>3. CASE \E d \in Deliveries : Requeue(d) \/ RetryDelayPasses(d) \/ StashExpires(d)
  BY <1>3, RequeueStep, RetryDelayPassesStep, StashExpiresStep
<1>4. CASE Rotate \/ MarkFails \/ ManagerRestarts
  BY <1>4, RotateStep, MarkFailsStep, ManagerRestartsStep
<1>. QED
  BY <1>1, <1>2, <1>3, <1>4 DEF Next

(***************************************************************************)
(* Theorems                                                                *)
(***************************************************************************)
\* The inductive invariant holds in every reachable state.
THEOREM InvHolds == Spec => []Inv
<1>1. Init => Inv
  BY InitInv
<1>2. Inv /\ [Next]_vars => Inv'
  BY NextInv, StutterInv
<1>. QED
  BY <1>1, <1>2, PTL DEF Spec

\* Rows, requests and the worker keep their types: whatever the order of manual
\* retries and attempts, max_attempts stays within its CHECK constraint.
THEOREM TypeCorrect == Spec => []TypeOK
<1>1. Inv => TypeOK
  BY DEF Inv
<1>. QED
  BY <1>1, InvHolds, PTL

\* No message is repeated without an administrator asking for it.
THEOREM NoDuplicateMessage == Spec => []AtMostOneMessage
<1>1. Inv => AtMostOneMessage
  BY DEF Inv, MessageInv, AtMostOneMessage
<1>. QED
  BY <1>1, InvHolds, PTL

\* The history tells what the provider did.
THEOREM VerdictSound == Spec => []VerdictMatchesProvider
<1>1. Inv => VerdictMatchesProvider
  BY DEF Inv, MessageInv, VerdictMatchesProvider
<1>. QED
  BY <1>1, InvHolds, PTL

\* A waiting row has an attempt left.
THEOREM WaitingClaimable == Spec => []WaitingIsClaimable
<1>1. Inv => WaitingIsClaimable
  BY DEF Inv, AttemptInv, WaitingIsClaimable
<1>. QED
  BY <1>1, InvHolds, PTL

\* The link that is sent belongs to the token the row is bound to.
THEOREM LinkBound == Spec => []SentLinkIsBound
<1>1. Inv => SentLinkIsBound
  BY DEF Inv, LinkInv, SentLinkIsBound
<1>. QED
  BY <1>1, InvHolds, PTL

(***************************************************************************)
(* What an account is handed                                               *)
(***************************************************************************)
\* The content of a version, and the protocols it deploys for each account:
\* MTProto is never listed, and a recorded primary protocol is deployed.
Config ==
    [protocol : ProtocolSet, cores : SUBSET ProtocolSet, keys : [ProtocolSet -> Nat],
     listed : [Accounts -> SUBSET PerAccount(ProtocolSet)]]

Settings ==
    {s \in [protocol : ProtocolSet, keys : [ProtocolSet -> Nat], proxy : BOOLEAN,
            accounts : [Accounts -> [protocols : SUBSET PerAccount(ProtocolSet),
                                     primary : ProtocolSet \cup {Unset}]]] :
        \A a \in Accounts :
            s.accounts[a].primary # Unset => s.accounts[a].primary \in DeployedProtocols(s, a)}

\* The settings of a version tell clients what its content deploys.
Describes(settings, config) ==
    /\ settings.protocol = config.protocol
    /\ settings.proxy = ("mtproto" \in config.cores)
    /\ \A a \in Accounts : settings.accounts[a].protocols = config.listed[a]

ConfigVersion ==
    {v \in [config : Config, settings : Settings,
            status : {"validated", "validation_failed", "applied"},
            applied : BOOLEAN, pinned : BOOLEAN, stored : BOOLEAN] :
        Describes(v.settings, v.config)}

\* A render works on protocols of the program and ends in a version like the others.
RenderOK ==
    /\ render.step = "resolved" =>
          \A a \in Accounts : render.selection[a].protocols \subseteq ProtocolSet
    /\ render.step = "rendered" =>
          /\ render.config \in Config /\ render.settings \in Settings
          /\ Describes(render.settings, render.config)

\* Rows and a profile of an account against node n and the settings of its active
\* version: per account exactly what the version lists; MTProto as desired before
\* the version, and for an account the version knows only while the proxy runs; a
\* primary protocol that the version deploys for the account or, if it does not
\* know the account, the one that was wanted before the version.
Follows(n, settings, a, current, cp) ==
    /\ \A p \in PerAccount(ProtocolSet) :
          current[p].exists => (current[p].active <=> p \in settings.accounts[a].protocols)
    /\ current["mtproto"].exists /\ current["mtproto"].at < n.active /\ settings.proxy =>
          (current["mtproto"].active <=> current["mtproto"].desired)
    /\ HasEntry(settings, a) =>
          /\ current["mtproto"].exists /\ current["mtproto"].active => settings.proxy
          /\ cp.exists => cp.active \in DeployedProtocols(settings, a)
    /\ /\ ~HasEntry(settings, a)
       /\ cp.exists /\ cp.at < n.active
       /\ cp.protocol # "auto" \/ n.at < n.active
       => cp.active = PrimaryProtocol(cp.protocol, n.protocol)

SettledOK ==
    /\ settled # {} => Confirmed
    /\ \A a \in settled : Follows(node, ActiveSettings, a, rows[a], profile[a])

\* Without a profile the primary protocol is the default of the node.
ProfilesOK == \A a \in Accounts : ~profile[a].exists => profile[a].protocol = "auto"

\* A revoked device has no working link, but for one issued after its revocation.
CutOff ==
    \A a \in Accounts : device[a] = "revoked" /\ a \notin late => ~tokens[a]["device"]

\* The inductive invariant.
AccessInv ==
    /\ AccessTypeOK /\ versions \in Seq(ConfigVersion)
    /\ RenderOK /\ SettledOK /\ ProfilesOK /\ CutOff

\* The library's order on the natural numbers is the usual one.
LEMMA LessThan ==
    ASSUME NEW x \in Nat, NEW y \in Nat
    PROVE  <<x, y>> \in OpToRel(<, Nat) <=> x < y
BY DEF OpToRel

\* Of a set of numbers one is the least.
LEMMA LeastOf ==
    ASSUME NEW S \in SUBSET Nat, S # {}
    PROVE  \E n \in S : \A m \in S : n <= m
<1> DEFINE R == OpToRel(<, Nat)
<1>1. IsWellFoundedOn(R, Nat)
  BY NatLessThanWellFounded
<1>2. \A n, m \in Nat : <<m, n>> \in R <=> m < n
  BY LessThan
<1> HIDE DEF R
<1>3. PICK n \in S : \A m \in S : ~(<<m, n>> \in R)
  BY <1>1, WFMin, Zenon
<1>4. \A m \in S : ~(m < n)
  BY <1>2, <1>3, Zenon
<1> QED
  BY <1>4

\* The first protocol of a set that holds one is in the set.
LEMMA FirstIsIn ==
    ASSUME NEW set \in SUBSET ProtocolSet, set # {}
    PROVE  First(set) \in set
<1> DEFINE S == {i \in DOMAIN Protocols : Protocols[i] \in set}
<1>1. S \in SUBSET Nat /\ S # {}
  BY ProtocolsAssumption DEF ProtocolSet
<1>2. PICK n \in S : \A m \in S : n <= m
  BY <1>1, LeastOf
<1>3. /\ n \in DOMAIN Protocols
      /\ Protocols[n] \in set
      /\ \A j \in 1 .. n - 1 : Protocols[j] \notin set
  BY <1>2, ProtocolsAssumption
<1> QED
  BY <1>3 DEF First

\* Preferences and defaults come down to protocols of the program.
LEMMA PrimaryType ==
    ASSUME NEW preference \in Preferences, NEW default \in Preferences
    PROVE  PrimaryProtocol(preference, default) \in ProtocolSet
BY ProtocolsAssumption DEF Preferences, PrimaryProtocol, NormalizeProtocol

\* A selection, stored or defaulted, names protocols of the program.
LEMMA SelectionType ==
    ASSUME NEW preference \in Preferences, NEW default \in Preferences,
           NEW chosen \in SUBSET ProtocolSet
    PROVE  Selection(preference, chosen, default).protocols \subseteq ProtocolSet
BY PrimaryType DEF Selection

\* A render of protocols of the program gives a version of the type above.
LEMMA RenderedType ==
    ASSUME NEW selection, \A a \in Accounts : selection[a].protocols \subseteq ProtocolSet,
           NEW placed \in SUBSET Accounts, NEW served \in SUBSET placed,
           NEW default \in Preferences, NEW keys \in [ProtocolSet -> Nat],
           NEW config, config = RenderedConfig(selection, served, default, keys)
    PROVE  /\ config \in Config
           /\ ClientSettings(config, selection, placed, served) \in Settings
           /\ Describes(ClientSettings(config, selection, placed, served), config)
<1>1. NormalizeProtocol(default) \in ProtocolSet
  BY ProtocolsAssumption DEF NormalizeProtocol, Preferences
<1>2. SelectedCores(selection, served, default) \in SUBSET ProtocolSet
  BY <1>1 DEF SelectedCores
<1>3. \A a \in Accounts : MergedProtocols(config.cores, selection, served, a)
                              \in SUBSET PerAccount(ProtocolSet)
  <2>1. config.cores \in SUBSET ProtocolSet
    BY <1>2 DEF RenderedConfig
  <2> QED
    BY <2>1 DEF MergedProtocols, Renderable, PerAccount
<1>4. config \in Config
  BY <1>1, <1>2, <1>3 DEF RenderedConfig, Config
<1>5. \A a \in Accounts :
         LET entry == AccountDeployment(config, selection, placed, served, a) IN
         /\ entry \in [protocols : SUBSET PerAccount(ProtocolSet), primary : ProtocolSet \cup {Unset}]
         /\ entry.primary # Unset => entry.primary \in
               entry.protocols \cup (IF "mtproto" \in config.cores THEN {"mtproto"} ELSE {})
  <2> SUFFICES ASSUME NEW a \in Accounts
               PROVE  LET entry == AccountDeployment(config, selection, placed, served, a) IN
         /\ entry \in [protocols : SUBSET PerAccount(ProtocolSet), primary : ProtocolSet \cup {Unset}]
         /\ entry.primary # Unset => entry.primary \in
               entry.protocols \cup (IF "mtproto" \in config.cores THEN {"mtproto"} ELSE {})
    OBVIOUS
  <2>1. config.listed[a] \in SUBSET PerAccount(ProtocolSet)
    BY <1>4 DEF Config
  <2> QED
    BY <2>1, ProtocolsAssumption DEF AccountDeployment, PerAccount
<1>6. ClientSettings(config, selection, placed, served) \in Settings
  <2> DEFINE s == ClientSettings(config, selection, placed, served)
  <2>1. /\ s.proxy = ("mtproto" \in config.cores)
        /\ \A a \in Accounts : s.accounts[a] = AccountDeployment(config, selection, placed, served, a)
    BY DEF ClientSettings
  <2>2. s \in [protocol : ProtocolSet, keys : [ProtocolSet -> Nat], proxy : BOOLEAN,
               accounts : [Accounts -> [protocols : SUBSET PerAccount(ProtocolSet),
                                        primary : ProtocolSet \cup {Unset}]]]
    BY <1>4, <1>5 DEF ClientSettings, Config
  <2> HIDE DEF s
  <2>3. \A a \in Accounts :
           s.accounts[a].primary # Unset => s.accounts[a].primary \in DeployedProtocols(s, a)
    BY <1>5, <2>1 DEF DeployedProtocols
  <2> QED
    BY <2>2, <2>3 DEF Settings, s
<1>7. Describes(ClientSettings(config, selection, placed, served), config)
  BY DEF Describes, ClientSettings, AccountDeployment
<1> QED
  BY <1>4, <1>6, <1>7

(***************************************************************************)
(* Accounts, devices and links                                             *)
(***************************************************************************)
\* A node whose settings are saved again after its active version ...
LEMMA FollowsStays ==
    ASSUME NEW n, NEW m, NEW settings, NEW a, NEW current, NEW cp,
           Follows(n, settings, a, current, cp), n.active \in Nat, m.at \in Nat,
           m.active = n.active, (m.protocol = n.protocol /\ m.at = n.at) \/ m.at >= n.active
    PROVE  Follows(m, settings, a, current, cp)
BY DEF Follows, PrimaryProtocol

\* ... and accounts that were settled follow that version as long as neither moves.
LEMMA SettledStays ==
    ASSUME AccessInv, settled' \subseteq settled, node' \in Server',
           node'.active = node.active,
           (node'.protocol = node.protocol /\ node'.at = node.at) \/ node'.at >= node.active,
           Confirmed => versions'[node.active].settings = ActiveSettings,
           \A a \in settled' : rows'[a] = rows[a] /\ profile'[a] = profile[a]
    PROVE  SettledOK'
<1>1. settled' # {} => Confirmed' /\ Confirmed
  BY DEF AccessInv, SettledOK, Confirmed
<1>2. node.active \in Nat /\ node'.at \in Nat
  BY DEF AccessInv, AccessTypeOK, Server
<1>3. ASSUME NEW a \in settled'
      PROVE  Follows(node', ActiveSettings', a, rows'[a], profile'[a])
  <2>1. Confirmed /\ a \in settled
    BY <1>1
  <2>2. ActiveSettings' = ActiveSettings
    BY <2>1 DEF ActiveSettings
  <2>3. Follows(node, ActiveSettings, a, rows[a], profile[a])
    BY <2>1 DEF AccessInv, SettledOK
  <2>4. Follows(node', ActiveSettings, a, rows[a], profile[a])
    BY <1>2, <2>3, FollowsStays
  <2> QED
    BY <2>2, <2>4
<1> QED
  BY <1>1, <1>3 DEF SettledOK

\* Another status leaves an account where it is.
LEMMA StatusKeepsPlace ==
    ASSUME account \in [Accounts -> VPNAccount], NEW accounts \in SUBSET Accounts,
           NEW state \in {"active", "suspended", "revoked"},
           account' = WithStatus(accounts, state)
    PROVE  account' \in [Accounts -> VPNAccount] /\ Placed' = Placed
<1>1. ASSUME NEW a \in Accounts
      PROVE  /\ account'[a] \in VPNAccount
             /\ account'[a].placed = account[a].placed
             /\ account'[a].status \notin {"absent", "deleted"}
                   <=> account[a].status \notin {"absent", "deleted"}
  BY DEF WithStatus, VPNAccount, Exists
<1> QED
  BY <1>1 DEF WithStatus, Placed, Exists

\* The accounts of an administrator's request: status, server, deletion.
LEMMA AccountKeepsInv ==
    ASSUME AccessInv, AccountNext
    PROVE  AccessInv'
<1> USE DEF accessVars, accountVars, Server, VPNAccount, ClientProfile, AccountProtocol, Device,
            SubscriptionTokens, Stored, Now
<1>1. ASSUME NEW a \in Accounts, NEW placed \in BOOLEAN, NEW state \in {"created", "active"},
             CreateAccount(a, state, placed)
      PROVE  AccessInv'
  <2>1. AccessTypeOK'
    BY <1>1 DEF AccessInv, AccessTypeOK, CreateAccount, Placed, Exists
  <2>2. SettledOK'
    BY <1>1, <2>1, SettledStays DEF CreateAccount, ActiveSettings, AccessTypeOK
  <2> QED
    BY <1>1, <2>1, <2>2 DEF AccessInv, CreateAccount, RenderOK, ProfilesOK, CutOff
<1>2. ASSUME NEW a \in Accounts, NEW placed \in BOOLEAN, UpdateAccount(a, placed)
      PROVE  AccessInv'
  <2>1. AccessTypeOK'
    BY <1>2 DEF AccessInv, AccessTypeOK, UpdateAccount, WithServer, Placed, Exists
  <2>2. SettledOK'
    BY <1>2, <2>1, SettledStays DEF UpdateAccount, ActiveSettings, AccessTypeOK
  <2> QED
    BY <1>2, <2>1, <2>2 DEF AccessInv, UpdateAccount, RenderOK, ProfilesOK, CutOff
<1>3. ASSUME NEW a \in Accounts, NEW state \in {"active", "suspended", "revoked"},
             SetAccountStatus(a, state)
      PROVE  AccessInv'
  <2>1. AccessTypeOK'
    BY <1>3, StatusKeepsPlace DEF AccessInv, AccessTypeOK, SetAccountStatus
  <2>2. SettledOK'
    BY <1>3, <2>1, SettledStays DEF SetAccountStatus, ActiveSettings, AccessTypeOK
  <2> QED
    BY <1>3, <2>1, <2>2 DEF AccessInv, SetAccountStatus, RenderOK, ProfilesOK, CutOff
<1>4. ASSUME NEW accounts \in SUBSET Accounts, NEW state \in {"active", "suspended", "revoked"},
             BulkSetStatus(accounts, state)
      PROVE  AccessInv'
  <2>1. AccessTypeOK'
    BY <1>4, StatusKeepsPlace DEF AccessInv, AccessTypeOK, BulkSetStatus
  <2>2. SettledOK'
    BY <1>4, <2>1, SettledStays DEF BulkSetStatus, ActiveSettings, AccessTypeOK
  <2> QED
    BY <1>4, <2>1, <2>2 DEF AccessInv, BulkSetStatus, RenderOK, ProfilesOK, CutOff
<1>5. ASSUME NEW accounts \in SUBSET Accounts, NEW placed \in BOOLEAN,
             BulkAssignServer(accounts, placed)
      PROVE  AccessInv'
  <2>1. AccessTypeOK'
    BY <1>5 DEF AccessInv, AccessTypeOK, BulkAssignServer, WithServer, Placed, Exists
  <2>2. SettledOK'
    BY <1>5, <2>1, SettledStays DEF BulkAssignServer, ActiveSettings, AccessTypeOK
  <2> QED
    BY <1>5, <2>1, <2>2 DEF AccessInv, BulkAssignServer, RenderOK, ProfilesOK, CutOff
<1>6. ASSUME NEW accounts \in SUBSET Accounts, DeleteAccounts(accounts)
      PROVE  AccessInv'
  <2>1. /\ NoProfile \in ClientProfile /\ NoRows \in [ProtocolSet -> AccountProtocol]
        /\ NoLinks \in SubscriptionTokens
    <3>1. Len(versions) \in Nat
      BY LenProperties DEF AccessInv
    <3>2. 0 \in 0 .. Len(versions)
      BY <3>1
    <3> QED
      BY <3>2, ProtocolsAssumption DEF NoProfile, NoRows, NoRow, NoLinks, Preferences
  <2>2. AccessTypeOK'
    <3>1. /\ profile' \in [Accounts -> ClientProfile]
          /\ rows' \in [Accounts -> [ProtocolSet -> AccountProtocol]]
          /\ tokens' \in [Accounts -> SubscriptionTokens]
      <4> HIDE DEF ClientProfile, AccountProtocol, SubscriptionTokens
      <4>1. /\ profile \in [Accounts -> ClientProfile]
            /\ rows \in [Accounts -> [ProtocolSet -> AccountProtocol]]
            /\ tokens \in [Accounts -> SubscriptionTokens]
        BY DEF AccessInv, AccessTypeOK
      <4> QED
        BY <1>6, <2>1, <4>1 DEF DeleteAccounts
    <3>2. /\ account' \in [Accounts -> VPNAccount]
          /\ device' \in [Accounts -> Device]
          /\ settled' \subseteq Placed' /\ late' \subseteq Accounts
      BY <1>6 DEF AccessInv, AccessTypeOK, DeleteAccounts, Placed, Exists
    <3>3. UNCHANGED <<node, versions, queue, issuing>>
      BY <1>6 DEF DeleteAccounts
    <3>4. ClientProfile' = ClientProfile /\ AccountProtocol' = AccountProtocol
      BY <3>3
    <3> HIDE DEF ClientProfile, AccountProtocol, SubscriptionTokens, VPNAccount, Device
    <3> QED
      BY <3>1, <3>2, <3>3, <3>4 DEF AccessInv, AccessTypeOK
  <2>3. \A a \in settled' : rows'[a] = rows[a] /\ profile'[a] = profile[a]
    BY <1>6 DEF AccessInv, AccessTypeOK, DeleteAccounts, Placed, Exists
  <2>4. SettledOK'
    BY <1>6, <2>2, <2>3, SettledStays DEF DeleteAccounts, ActiveSettings, AccessTypeOK
  <2>5. CutOff'
    BY <1>6 DEF AccessInv, AccessTypeOK, DeleteAccounts, CutOff
  <2>6. ProfilesOK'
    BY <1>6 DEF AccessInv, AccessTypeOK, DeleteAccounts, ProfilesOK, NoProfile
  <2> QED
    BY <1>6, <2>2, <2>4, <2>5, <2>6 DEF AccessInv, DeleteAccounts, RenderOK
<1> QED
  BY <1>1, <1>2, <1>3, <1>4, <1>5, <1>6 DEF AccountNext

\* Devices and links: a token that was being issued may outlive its device once.
LEMMA DeviceKeepsInv ==
    ASSUME AccessInv, DeviceNext
    PROVE  AccessInv'
<1> USE DEF accessVars, accountVars, Server, VPNAccount, ClientProfile, AccountProtocol, Device,
            SubscriptionTokens, Stored, Now
<1>1. UNCHANGED <<node, account, accessVars, versions, queue, render, settled>>
  BY DEF DeviceNext, CreateDevice, BeginDeviceToken, FinishDeviceToken, RevokeDevice,
         CreateSubscriptionToken, RevokeSubscriptionTokens
<1>2. SettledOK'
  <2>1. node' \in Server'
    BY <1>1 DEF AccessInv, AccessTypeOK
  <2> QED
    BY <1>1, <2>1, SettledStays DEF ActiveSettings
<1>3. RenderOK' /\ ProfilesOK' /\ versions' \in Seq(ConfigVersion)
  BY <1>1 DEF AccessInv, RenderOK, ProfilesOK
<1>4. SUFFICES /\ device' \in [Accounts -> Device]
               /\ tokens' \in [Accounts -> SubscriptionTokens]
               /\ issuing' \subseteq Accounts /\ late' \subseteq Accounts
               /\ CutOff'
  BY <1>1, <1>2, <1>3 DEF AccessInv, AccessTypeOK, Placed, Exists
<1>5. /\ device \in [Accounts -> Device]
      /\ tokens \in [Accounts -> SubscriptionTokens]
      /\ issuing \subseteq Accounts /\ late \subseteq Accounts
      /\ CutOff
  BY DEF AccessInv, AccessTypeOK
<1> PICK a \in Accounts :
       \/ CreateDevice(a) \/ BeginDeviceToken(a) \/ FinishDeviceToken(a) \/ RevokeDevice(a)
       \/ CreateSubscriptionToken(a) \/ RevokeSubscriptionTokens(a)
  BY DEF DeviceNext
<1>6. CASE CreateDevice(a)
  BY <1>5, <1>6 DEF CreateDevice, CutOff
<1>7. CASE BeginDeviceToken(a)
  BY <1>5, <1>7 DEF BeginDeviceToken, CutOff
<1>8. CASE FinishDeviceToken(a)
  BY <1>5, <1>8 DEF FinishDeviceToken, CutOff, Slots
<1>9. CASE RevokeDevice(a)
  BY <1>5, <1>9 DEF RevokeDevice, CutOff, Slots
<1>10. CASE CreateSubscriptionToken(a)
  BY <1>5, <1>10 DEF CreateSubscriptionToken, CutOff, Slots
<1>11. CASE RevokeSubscriptionTokens(a)
  BY <1>5, <1>11 DEF RevokeSubscriptionTokens, CutOff, Slots
<1> QED
  BY <1>6, <1>7, <1>8, <1>9, <1>10, <1>11

(***************************************************************************)
(* Preferences and reads                                                   *)
(***************************************************************************)
\* The version that is active has settings of the type above.
LEMMA ActiveType ==
    ASSUME AccessInv, Confirmed
    PROVE  node.active \in DOMAIN versions /\ ActiveSettings \in Settings
<1>1. Len(versions) \in Nat /\ node.active \in 0 .. Len(versions) /\ node.active # 0
  BY LenProperties DEF AccessInv, AccessTypeOK, Server, Now, Confirmed
<1>2. node.active \in DOMAIN versions /\ versions[node.active] \in ConfigVersion
  BY <1>1, LenProperties, ElementOfSeq DEF AccessInv
<1> QED
  BY <1>2 DEF ActiveSettings, ConfigVersion

\* The active version lists protocols of the program, and deploys a listed primary.
LEMMA ActiveEntry ==
    ASSUME AccessInv, Confirmed, NEW a \in Accounts
    PROVE  /\ ActiveSettings.protocol \in ProtocolSet
           /\ ActiveSettings.accounts[a].protocols \in SUBSET PerAccount(ProtocolSet)
           /\ ActiveSettings.accounts[a].primary \in ProtocolSet \cup {Unset}
           /\ ActiveSettings.accounts[a].primary # Unset =>
                 ActiveSettings.accounts[a].primary \in DeployedProtocols(ActiveSettings, a)
           /\ ActiveSettings.proxy \in BOOLEAN
BY ActiveType DEF Settings

\* The primary protocol of the active version is one it deploys for an account
\* it has an entry of.
LEMMA AppliedPrimaryType ==
    ASSUME AccessInv, NEW a \in Accounts
    PROVE  /\ AppliedPrimary(a) \in ProtocolSet
           /\ AppliedKnown(a) /\ HasEntry(ActiveSettings, a) =>
                 AppliedPrimary(a) \in DeployedProtocols(ActiveSettings, a)
<1>1. CASE ~AppliedKnown(a)
  BY <1>1, ProtocolsAssumption DEF AppliedPrimary
<1>2. CASE AppliedKnown(a)
  <2>1. Confirmed /\ Applied(a) = ActiveSettings.accounts[a].protocols
    BY <1>2 DEF AppliedKnown, Applied
  <2>2. Applied(a) \in SUBSET ProtocolSet
    BY <2>1, ActiveEntry DEF PerAccount
  <2>3. Applied(a) # {} => First(Applied(a)) \in Applied(a)
    BY <2>2, FirstIsIn
  <2> QED
    BY <1>2, <2>1, <2>2, <2>3, ActiveEntry DEF AppliedPrimary, HasEntry, DeployedProtocols
<1> QED
  BY <1>1, <1>2

\* The profile and the rows an account is read with have their types ...
LEMMA ReadType ==
    ASSUME AccessInv, NEW a \in Accounts, NEW cp \in ClientProfile,
           NEW current \in [ProtocolSet -> AccountProtocol]
    PROVE  /\ ProfileOf(a) \in ClientProfile /\ ProfileOf(a).exists
           /\ Seeded(a, cp, current) \in [ProtocolSet -> AccountProtocol]
<1>1. Len(versions) \in Nat /\ Now \in 0 .. Now
  BY LenProperties DEF AccessInv, Now
<1>2. ProfileOf(a) \in ClientProfile /\ ProfileOf(a).exists
  BY <1>1, AppliedPrimaryType DEF ProfileOf, ClientProfile, AccessInv, AccessTypeOK, Preferences
<1>3. cp.at \in 0 .. Now
  BY DEF ClientProfile
<1> QED
  BY <1>2, <1>3 DEF Seeded, AccountProtocol

\* ... and reading them does not take the account off the active version.
LEMMA ReadFollows ==
    ASSUME AccessInv, NEW a \in settled
    PROVE  /\ a \in Accounts /\ AppliedKnown(a)
           /\ Follows(node, ActiveSettings, a, rows[a], ProfileOf(a))
           /\ \A cp, current : Follows(node, ActiveSettings, a, current, cp) =>
                 Follows(node, ActiveSettings, a, Seeded(a, cp, current), cp)
<1>1. a \in Accounts /\ AppliedKnown(a)
  BY DEF AccessInv, AccessTypeOK, SettledOK, Placed, AppliedKnown
<1>2. Follows(node, ActiveSettings, a, rows[a], profile[a])
  BY DEF AccessInv, SettledOK
<1>3. Follows(node, ActiveSettings, a, rows[a], ProfileOf(a))
  <2>1. Len(versions) \in Nat /\ node.active \in 0 .. Now
    BY LenProperties DEF AccessInv, AccessTypeOK, Server
  <2>2. CASE profile[a].exists
    BY <1>2, <2>2 DEF ProfileOf
  <2>3. CASE ~profile[a].exists
    <3>1. /\ ProfileOf(a).active = AppliedPrimary(a) /\ ProfileOf(a).at = Now
      BY <2>3 DEF ProfileOf
    <3>2. ~(ProfileOf(a).at < node.active)
      BY <2>1, <3>1 DEF Now
    <3>3. HasEntry(ActiveSettings, a) =>
             ProfileOf(a).active \in DeployedProtocols(ActiveSettings, a)
      BY <1>1, <3>1, AppliedPrimaryType
    <3> QED
      BY <1>2, <3>2, <3>3 DEF Follows
  <2> QED
    BY <2>2, <2>3
<1>4. ASSUME NEW cp, NEW current, Follows(node, ActiveSettings, a, current, cp)
      PROVE  Follows(node, ActiveSettings, a, Seeded(a, cp, current), cp)
  <2> DEFINE listed == ActiveSettings.accounts[a].protocols
  <2>1. listed \in SUBSET PerAccount(ProtocolSet) /\ Applied(a) = listed
    BY <1>1, ActiveEntry DEF AppliedKnown, Applied
  <2>2. \A p \in ProtocolSet :
           /\ p \in listed /\ ~current[p].exists =>
                 Seeded(a, cp, current)[p].exists /\ Seeded(a, cp, current)[p].active
           /\ ~(p \in listed /\ ~current[p].exists) => Seeded(a, cp, current)[p] = current[p]
    BY <1>1, <2>1 DEF Seeded
  <2>3. \A p \in PerAccount(ProtocolSet) :
           Seeded(a, cp, current)[p].exists => (Seeded(a, cp, current)[p].active <=> p \in listed)
    BY <1>4, <2>2 DEF Follows, PerAccount
  <2>4. "mtproto" \in ProtocolSet /\ "mtproto" \notin listed
    BY <2>1, ProtocolsAssumption DEF PerAccount
  <2>5. Seeded(a, cp, current)["mtproto"] = current["mtproto"]
    BY <2>2, <2>4
  <2> QED
    BY <1>4, <2>3, <2>5 DEF Follows
<1> QED
  BY <1>1, <1>3, <1>4

\* One account gets a profile and rows that follow the active version.
LEMMA RowsReplaced ==
    ASSUME AccessInv, NEW a \in Accounts, NEW cp \in ClientProfile,
           NEW current \in [ProtocolSet -> AccountProtocol],
           a \in settled => Follows(node, ActiveSettings, a, current, cp), cp.exists,
           profile' = [profile EXCEPT ![a] = cp], rows' = [rows EXCEPT ![a] = current],
           node' \in Server, node'.active = node.active,
           (node'.protocol = node.protocol /\ node'.at = node.at) \/ node'.at >= node.active,
           UNCHANGED <<accountVars, versions, queue, render, settled>>
    PROVE  AccessInv'
<1>1. /\ profile \in [Accounts -> ClientProfile]
      /\ rows \in [Accounts -> [ProtocolSet -> AccountProtocol]]
  BY DEF AccessInv, AccessTypeOK
<1>2. /\ profile' \in [Accounts -> ClientProfile]
      /\ rows' \in [Accounts -> [ProtocolSet -> AccountProtocol]]
  BY <1>1
<1>3. AccessTypeOK'
  BY <1>2 DEF AccessInv, AccessTypeOK, accountVars, ClientProfile, AccountProtocol, Server,
              Stored, Now, Placed, Exists
<1>4. SettledOK'
  <2>1. settled' # {} => Confirmed'
    BY DEF AccessInv, SettledOK, Confirmed
  <2>2. node.active \in Nat /\ node'.at \in Nat
    BY DEF AccessInv, AccessTypeOK, Server
  <2>3. ASSUME NEW b \in settled'
        PROVE  Follows(node', ActiveSettings', b, rows'[b], profile'[b])
    <3>1. b \in Accounts /\ ActiveSettings' = ActiveSettings
      BY DEF AccessInv, AccessTypeOK, Placed, ActiveSettings
    <3>2. Follows(node, ActiveSettings, b, rows'[b], profile'[b])
      <4>1. CASE b = a
        BY <1>1, <4>1
      <4>2. CASE b # a
        BY <1>1, <3>1, <4>2 DEF AccessInv, SettledOK
      <4> QED
        BY <4>1, <4>2
    <3>3. Follows(node', ActiveSettings, b, rows'[b], profile'[b])
      BY <2>2, <3>2, FollowsStays
    <3> QED
      BY <3>1, <3>3
  <2> QED
    BY <2>1, <2>3 DEF SettledOK
<1>5. ProfilesOK'
  BY <1>1 DEF AccessInv, ProfilesOK
<1> QED
  BY <1>3, <1>4, <1>5 DEF AccessInv, RenderOK, CutOff, accountVars

\* A client or an administrator reads the connection of an account.
LEMMA ReadKeepsInv ==
    ASSUME AccessInv, NEW a \in Accounts, Hydrated(a),
           UNCHANGED <<node, accountVars, versions, queue, render, settled>>
    PROVE  AccessInv'
<1> DEFINE cp == ProfileOf(a)
           current == Seeded(a, cp, rows[a])
<1>1. profile \in [Accounts -> ClientProfile]
      /\ rows \in [Accounts -> [ProtocolSet -> AccountProtocol]] /\ node \in Server
  BY DEF AccessInv, AccessTypeOK
<1>2. cp \in ClientProfile /\ cp.exists
  BY <1>1, ReadType
<1>3. current \in [ProtocolSet -> AccountProtocol]
  BY <1>1, <1>2, ReadType
<1>4. a \in settled => Follows(node, ActiveSettings, a, current, cp)
  BY ReadFollows
<1>5. profile' = [profile EXCEPT ![a] = cp] /\ rows' = [rows EXCEPT ![a] = current]
  BY DEF Hydrated
<1>6. node' \in Server
  BY <1>1
<1> HIDE DEF cp, current
<1> QED
  BY <1>2, <1>3, <1>4, <1>5, <1>6, RowsReplaced

\* A preference is saved: what clients are handed is still what is deployed.
LEMMA PreferenceSaved ==
    ASSUME AccessInv, NEW a \in Accounts, NEW choice \in Choices, UpdateClientProfile(a, choice)
    PROVE  AccessInv'
<1> DEFINE cp == [ProfileOf(a) EXCEPT !.protocol = choice.protocol, !.at = Now]
           saved == IF choice.enabled # {} THEN ChosenRows(a, cp, choice.enabled) ELSE rows[a]
           current == Seeded(a, cp, saved)
<1>1. choice.protocol \in Preferences /\ choice.enabled \in SUBSET ProtocolSet
  BY ConstantsAssumption
<1>2. /\ profile \in [Accounts -> ClientProfile] /\ node \in Server
      /\ rows \in [Accounts -> [ProtocolSet -> AccountProtocol]]
      /\ Len(versions) \in Nat /\ Now \in 0 .. Now
  BY LenProperties DEF AccessInv, AccessTypeOK, Now
<1>3. ProfileOf(a) \in ClientProfile /\ ProfileOf(a).exists
  BY <1>2, ReadType
<1>4. /\ cp \in ClientProfile
      /\ cp.active = ProfileOf(a).active /\ cp.exists = ProfileOf(a).exists
  BY <1>1, <1>2, <1>3 DEF ClientProfile
<1>5. ChosenRows(a, cp, choice.enabled) \in [ProtocolSet -> AccountProtocol]
  <2>1. ASSUME NEW p \in ProtocolSet
        PROVE  ChosenRows(a, cp, choice.enabled)[p] \in AccountProtocol
    <3> DEFINE active == IF rows[a][p].exists THEN rows[a][p].active
                         ELSE IF AppliedKnown(a) /\ p # "mtproto" THEN p \in Applied(a)
                         ELSE cp.active = p
    <3>1. active \in BOOLEAN
      <4>1. rows[a][p].active \in BOOLEAN
        BY <1>2 DEF AccountProtocol
      <4>2. CASE rows[a][p].exists
        BY <4>1, <4>2
      <4>3. CASE ~rows[a][p].exists /\ AppliedKnown(a) /\ p # "mtproto"
        <5>1. active = (p \in Applied(a))
          BY <4>3
        <5> HIDE DEF active
        <5> QED
          BY <5>1
      <4>4. CASE ~rows[a][p].exists /\ ~(AppliedKnown(a) /\ p # "mtproto")
        <5>1. active = (cp.active = p)
          BY <4>4
        <5> HIDE DEF active, cp
        <5> QED
          BY <5>1
      <4> HIDE DEF active
      <4> QED
        BY <4>2, <4>3, <4>4
    <3>2. ChosenRows(a, cp, choice.enabled)[p] =
             [exists |-> TRUE, desired |-> p \in choice.enabled, explicit |-> TRUE, at |-> Now,
              active |-> active]
      BY DEF ChosenRows
    <3> HIDE DEF active, cp
    <3> QED
      BY <1>2, <3>1, <3>2 DEF AccountProtocol
  <2> HIDE DEF cp
  <2> QED
    BY <2>1 DEF ChosenRows
<1>6. saved \in [ProtocolSet -> AccountProtocol]
  BY <1>2, <1>5
<1>7. ASSUME a \in settled
      PROVE  Follows(node, ActiveSettings, a, current, cp)
  <2>1. AppliedKnown(a) /\ Follows(node, ActiveSettings, a, rows[a], ProfileOf(a))
    BY <1>7, ReadFollows
  <2>2. cp.at = Now /\ ~(Now < node.active)
    <3>1. node.active \in 0 .. Now /\ Now \in Nat
      BY <1>2 DEF Server, Now
    <3>2. cp.at = Now
      BY <1>3 DEF ClientProfile
    <3> QED
      BY <3>1, <3>2
  <2>3. Follows(node, ActiveSettings, a, rows[a], cp)
    <3> HIDE DEF cp
    <3> QED
      BY <1>3, <1>4, <2>1, <2>2 DEF Follows
  <2>4. /\ Applied(a) = ActiveSettings.accounts[a].protocols
        /\ "mtproto" \notin ActiveSettings.accounts[a].protocols
    BY <2>1, ActiveEntry DEF Applied, AppliedKnown, PerAccount
  <2>5. HasEntry(ActiveSettings, a) /\ cp.active = "mtproto" => ActiveSettings.proxy
    BY <1>3, <1>4, <2>3, <2>4 DEF Follows, DeployedProtocols
  <2>6. Follows(node, ActiveSettings, a, ChosenRows(a, cp, choice.enabled), cp)
    <3> DEFINE chosen == ChosenRows(a, cp, choice.enabled)
    <3>1. \A p \in PerAccount(ProtocolSet) :
             chosen[p].active <=> p \in ActiveSettings.accounts[a].protocols
      <4> HIDE DEF cp
      <4> QED
        BY <2>1, <2>3, <2>4 DEF Follows, ChosenRows, PerAccount
    <3>2. ~(chosen["mtproto"].at < node.active)
      BY <2>2, ProtocolsAssumption DEF ChosenRows
    <3>3. HasEntry(ActiveSettings, a) /\ chosen["mtproto"].active => ActiveSettings.proxy
      <4> HIDE DEF cp
      <4> QED
        BY <2>3, <2>5, ProtocolsAssumption DEF Follows, ChosenRows
    <3>4. Follows(node, ActiveSettings, a, chosen, cp)
      <4> HIDE DEF chosen, cp
      <4> QED
        BY <2>3, <3>1, <3>2, <3>3 DEF Follows
    <3> QED
      BY <3>4
  <2>7. Follows(node, ActiveSettings, a, saved, cp)
    BY <2>3, <2>6
  <2> HIDE DEF cp, saved
  <2> QED
    BY <1>7, <2>7, ReadFollows
<1>8. current \in [ProtocolSet -> AccountProtocol]
  BY <1>4, <1>6, ReadType
<1>9. ASSUME NEW requested
      PROVE  LET new == PreparedNode(requested) IN
             /\ new \in Server /\ new.active = node.active
             /\ (new.protocol = node.protocol /\ new.at = node.at) \/ new.at >= node.active
  <2>1. node.active \in 0 .. Now /\ Now \in Nat
    BY <1>2 DEF Server, Now
  <2> DEFINE new == [node EXCEPT !.keys["wireguard"] = 1, !.at = Now]
  <2>2. new \in Server /\ new.active = node.active /\ new.at >= node.active
    <3>1. node.keys \in [ProtocolSet -> Nat] /\ node \in Server
      BY <1>2 DEF Server
    <3>2. [node.keys EXCEPT !["wireguard"] = 1] \in [ProtocolSet -> Nat]
      BY <3>1
    <3>3. new = [node EXCEPT !.keys = [node.keys EXCEPT !["wireguard"] = 1], !.at = Now]
      BY <3>1 DEF Server
    <3>4. Now \in 0 .. Now /\ Now >= node.active
      BY <2>1
    <3> HIDE DEF new
    <3> QED
      BY <3>1, <3>2, <3>3, <3>4 DEF Server
  <2>3. PreparedNode(requested) = new \/ PreparedNode(requested) = node
    BY DEF PreparedNode
  <2> HIDE DEF new
  <2> QED
    BY <1>2, <2>2, <2>3
<1>10. /\ profile' = [profile EXCEPT ![a] = cp] /\ rows' = [rows EXCEPT ![a] = current]
       /\ UNCHANGED <<accountVars, versions, queue, render, settled>>
  BY DEF UpdateClientProfile
<1>11. /\ node' \in Server /\ node'.active = node.active
       /\ (node'.protocol = node.protocol /\ node'.at = node.at) \/ node'.at >= node.active
  BY <1>9 DEF UpdateClientProfile
<1>12. cp.exists
  BY <1>3, <1>4
<1> HIDE DEF cp, current
<1> QED
  BY <1>4, <1>7, <1>8, <1>10, <1>11, <1>12, RowsReplaced

\* Preferences of accounts and settings of the node.
LEMMA PreferenceKeepsInv ==
    ASSUME AccessInv, PreferenceNext
    PROVE  AccessInv'
<1>1. ASSUME NEW a \in Accounts, NEW choice \in Choices, UpdateClientProfile(a, choice)
      PROVE  AccessInv'
  BY <1>1, PreferenceSaved
<1>2. ASSUME \/ \E protocol \in NodeDefaults : UpdateProtocolSettings(protocol)
             \/ GenerateRealityKeypair \/ ConfigureRecommendedReality
             \/ ConfigureRecommendedWireGuard
      PROVE  AccessInv'
  <2>1. UNCHANGED <<accountVars, accessVars, versions, queue, render, settled>>
    BY <1>2 DEF UpdateProtocolSettings, GenerateRealityKeypair, ConfigureRecommendedReality,
                ConfigureRecommendedWireGuard
  <2>2. node \in Server /\ Len(versions) \in Nat /\ Now \in 0 .. Now
    BY LenProperties DEF AccessInv, AccessTypeOK, Now
  <2>3. node' \in Server /\ node'.active = node.active
    <3>1. /\ node.keys \in [ProtocolSet -> Nat]
          /\ \A p \in ProtocolSet : [node.keys EXCEPT ![p] = @ + 1] \in [ProtocolSet -> Nat]
      BY <2>2 DEF Server
    <3>2. ASSUME NEW protocol \in NodeDefaults, UpdateProtocolSettings(protocol)
          PROVE  node' \in Server /\ node'.active = node.active
      BY <2>2, <3>2, ConstantsAssumption DEF UpdateProtocolSettings, Server
    <3>3. CASE GenerateRealityKeypair
      BY <2>2, <3>1, <3>3 DEF GenerateRealityKeypair, Server
    <3>4. CASE ConfigureRecommendedReality
      BY <2>2, <3>1, <3>4, ProtocolsAssumption
      DEF ConfigureRecommendedReality, Server, Preferences
    <3>5. CASE ConfigureRecommendedWireGuard
      BY <2>2, <3>1, <3>5, ProtocolsAssumption
      DEF ConfigureRecommendedWireGuard, Server, Preferences
    <3> QED
      BY <1>2, <3>2, <3>3, <3>4, <3>5
  <2>4. AccessTypeOK'
    BY <2>1, <2>3 DEF AccessInv, AccessTypeOK, accountVars, accessVars, ClientProfile,
                      AccountProtocol, Server, Stored, Now, Placed, Exists
  <2>5. SettledOK'
    <3>1. node'.at = Now /\ node.active \in 0 .. Now
      BY <1>2, <2>2 DEF UpdateProtocolSettings, GenerateRealityKeypair,
         ConfigureRecommendedReality, ConfigureRecommendedWireGuard, Server
    <3>2. node'.at >= node.active
      BY <2>2, <3>1 DEF Now
    <3>3. node' \in Server'
      BY <2>4 DEF AccessTypeOK
    <3> QED
      BY <2>1, <2>3, <3>2, <3>3, SettledStays DEF accessVars, ActiveSettings
  <2> QED
    BY <2>1, <2>4, <2>5 DEF AccessInv, RenderOK, ProfilesOK, CutOff, accountVars, accessVars
<1> QED
  BY <1>1, <1>2 DEF PreferenceNext

(***************************************************************************)
(* Renders, versions and applies                                           *)
(***************************************************************************)
\* A version that is edited keeps what it deploys.
LEMMA VersionEdited ==
    ASSUME AccessInv, NEW i \in DOMAIN versions, NEW v \in ConfigVersion,
           v.settings = versions[i].settings, versions' = [versions EXCEPT ![i] = v],
           v.stored \/ \A k \in DOMAIN queue : queue[k] # i,
           UNCHANGED <<node, accountVars, accessVars, queue, render, settled>>
    PROVE  AccessInv'
<1>1. /\ versions \in Seq(ConfigVersion) /\ Len(versions) \in Nat
      /\ DOMAIN versions = 1 .. Len(versions)
  BY LenProperties DEF AccessInv
<1>2. /\ versions' \in Seq(ConfigVersion) /\ Len(versions') = Len(versions)
      /\ \A j \in DOMAIN versions : versions'[j] = IF j = i THEN v ELSE versions[j]
  BY <1>1, ExceptSeq
<1>3. versions' \in Seq(ConfigVersion) /\ DOMAIN versions' = DOMAIN versions
  BY <1>1, <1>2, LenProperties
<1>4. \A j \in DOMAIN versions' : versions'[j] \in ConfigVersion
  BY <1>3, ElementOfSeq, LenProperties
<1>5. queue' \in Seq(Stored')
  <2>1. queue \in Seq(Stored)
    BY DEF AccessInv, AccessTypeOK
  <2>2. \A k \in DOMAIN queue : queue[k] \in Stored'
    BY <1>2, <1>3, <2>1, LenProperties, ElementOfSeq DEF Stored
  <2> QED
    BY <2>1, <2>2, LenProperties, SeqDef
<1>6. AccessTypeOK'
  BY <1>2, <1>4, <1>5 DEF AccessInv, AccessTypeOK, accountVars, accessVars, Server, ClientProfile,
                          AccountProtocol, ConfigVersion, IsConfigVersion, Now, Placed, Exists
<1>7. Confirmed => versions'[node.active].settings = ActiveSettings
  BY <1>2, ActiveType DEF ActiveSettings
<1>8. SettledOK'
  BY <1>6, <1>7, SettledStays DEF accessVars, AccessTypeOK
<1> QED
  BY <1>3, <1>6, <1>8 DEF AccessInv, RenderOK, ProfilesOK, CutOff, accountVars, accessVars

\* A render: its selection, its content, and the version it stores or finds.
LEMMA RenderKeepsInv ==
    ASSUME AccessInv, ResolveProtocols \/ ReadServerConfig \/ CreateConfigVersion
    PROVE  AccessInv'
<1>1. UNCHANGED <<node, accountVars, accessVars, queue, settled>>
  BY DEF ResolveProtocols, ReadServerConfig, CreateConfigVersion
<1>2. /\ versions \in Seq(ConfigVersion) /\ Len(versions) \in Nat
      /\ DOMAIN versions = 1 .. Len(versions) /\ node \in Server
      /\ account \in [Accounts -> VPNAccount] /\ profile \in [Accounts -> ClientProfile]
      /\ rows \in [Accounts -> [ProtocolSet -> AccountProtocol]]
  BY LenProperties DEF AccessInv, AccessTypeOK
<1>3. CASE ResolveProtocols
  <2>1. \A a \in Accounts : DesiredSelection(a).protocols \subseteq ProtocolSet
    BY <1>2, SelectionType DEF DesiredSelection, Chosen, ClientProfile, Server
  <2>2. \A a \in Accounts : render'.selection[a].protocols \subseteq ProtocolSet
    BY <1>3, <2>1 DEF ResolveProtocols, NoSelection
  <2>3. render'.step = "resolved" /\ versions' = versions
    BY <1>3 DEF ResolveProtocols
  <2>4. RenderOK'
    BY <2>2, <2>3 DEF RenderOK
  <2>5. AccessTypeOK'
    BY <1>1, <2>3 DEF AccessInv, AccessTypeOK, accountVars, accessVars, Server, ClientProfile,
                      AccountProtocol, Stored, Now, Placed, Exists
  <2>6. SettledOK'
    BY <1>1, <2>3, <2>5, SettledStays DEF accessVars, ActiveSettings, AccessTypeOK
  <2> QED
    BY <1>1, <2>3, <2>4, <2>5, <2>6 DEF AccessInv, ProfilesOK, CutOff, accountVars, accessVars
<1>4. CASE ReadServerConfig
  <2> DEFINE selection == [a \in Accounts |->
                 IF render.selection[a].protocols = {} THEN DefaultSelection(node.protocol)
                 ELSE render.selection[a]]
             served == {a \in Placed : Active(a)}
             config == RenderedConfig(selection, served, node.protocol, node.keys)
  <2>1. node.protocol \in Preferences /\ node.keys \in [ProtocolSet -> Nat]
    BY <1>2 DEF Server
  <2>2. "auto" \in Preferences /\ {} \in SUBSET ProtocolSet
    BY DEF Preferences
  <2>3. DefaultSelection(node.protocol).protocols \subseteq ProtocolSet
    BY <2>1, <2>2, SelectionType DEF DefaultSelection
  <2>4. \A a \in Accounts : render.selection[a].protocols \subseteq ProtocolSet
    BY <1>4 DEF AccessInv, RenderOK, ReadServerConfig
  <2>5. \A a \in Accounts : selection[a].protocols \subseteq ProtocolSet
    BY <2>3, <2>4
  <2>6. Placed \in SUBSET Accounts /\ served \in SUBSET Placed
    BY DEF Placed
  <2> HIDE DEF selection, served
  <2>7. /\ config \in Config /\ ClientSettings(config, selection, Placed, served) \in Settings
        /\ Describes(ClientSettings(config, selection, Placed, served), config)
    BY <2>1, <2>5, <2>6, RenderedType
  <2>8. render' = [step |-> "rendered", config |-> config,
                   settings |-> ClientSettings(config, selection, Placed, served)]
        /\ versions' = versions
    BY <1>4 DEF ReadServerConfig, selection, served
  <2> HIDE DEF config
  <2>9. RenderOK'
    BY <2>7, <2>8 DEF RenderOK
  <2>10. AccessTypeOK'
    BY <1>1, <2>8 DEF AccessInv, AccessTypeOK, accountVars, accessVars, Server, ClientProfile,
                      AccountProtocol, Stored, Now, Placed, Exists
  <2>11. SettledOK'
    BY <1>1, <2>8, <2>10, SettledStays DEF accessVars, ActiveSettings, AccessTypeOK
  <2> QED
    BY <1>1, <2>8, <2>9, <2>10, <2>11 DEF AccessInv, ProfilesOK, CutOff, accountVars, accessVars
<1>5. CASE CreateConfigVersion
  <2>1. RenderedVersion \in ConfigVersion
    BY <1>5 DEF AccessInv, RenderOK, CreateConfigVersion, RenderedVersion, ConfigVersion
  <2>2. versions' = versions \/ versions' = Append(versions, RenderedVersion)
    BY <1>5 DEF CreateConfigVersion
  <2>3. /\ versions' \in Seq(ConfigVersion) /\ Len(versions') \in Nat
        /\ Len(versions) <= Len(versions')
        /\ \A j \in DOMAIN versions : j \in DOMAIN versions' /\ versions'[j] = versions[j]
    <3> HIDE DEF RenderedVersion
    <3>1. CASE versions' = versions
      BY <1>2, <3>1
    <3>2. CASE versions' = Append(versions, RenderedVersion)
      BY <1>2, <2>1, <3>2, AppendProperties, LenProperties
    <3> QED
      BY <2>2, <3>1, <3>2
  <2>4. \A j \in DOMAIN versions' : versions'[j] \in ConfigVersion
    BY <2>3, ElementOfSeq, LenProperties
  <2>5. queue' \in Seq(Stored')
    <3>1. queue \in Seq(Stored)
      BY DEF AccessInv, AccessTypeOK
    <3>2. Stored \subseteq Stored'
      BY <2>3 DEF Stored
    <3> QED
      BY <1>1, <3>1, <3>2, SeqDef, LenProperties, ElementOfSeq
  <2>6. /\ Server \subseteq Server' /\ ClientProfile \subseteq ClientProfile'
        /\ AccountProtocol \subseteq AccountProtocol'
    BY <1>2, <2>3 DEF Server, ClientProfile, AccountProtocol, Now
  <2>7. AccessTypeOK'
    BY <1>1, <2>4, <2>5, <2>6 DEF AccessInv, AccessTypeOK, accountVars, accessVars,
                                  ConfigVersion, IsConfigVersion, Placed, Exists
  <2>8. Confirmed => versions'[node.active].settings = ActiveSettings
    BY <2>3, ActiveType DEF ActiveSettings
  <2>9. SettledOK'
    BY <1>1, <2>7, <2>8, SettledStays DEF accessVars, AccessTypeOK
  <2>10. RenderOK'
    BY <1>5 DEF CreateConfigVersion, RenderOK, IdleRender
  <2> QED
    BY <1>1, <2>3, <2>7, <2>9, <2>10 DEF AccessInv, ProfilesOK, CutOff, accountVars, accessVars
<1> QED
  BY <1>3, <1>4, <1>5

\* Jobs wait for stored versions.
LEMMA QueueType ==
    ASSUME AccessInv
    PROVE  queue \in Seq(Stored) /\ \A k \in DOMAIN queue : queue[k] \in DOMAIN versions
BY ElementOfSeq, LenProperties DEF AccessInv, AccessTypeOK, Stored

\* A job is created, or fails on the node: no row of an account changes.
LEMMA QueueKeepsInv ==
    ASSUME AccessInv, queue' \in Seq(Stored),
           UNCHANGED <<node, accountVars, accessVars, versions, render, settled>>
    PROVE  AccessInv'
<1>1. AccessTypeOK'
  BY DEF AccessInv, AccessTypeOK, accountVars, accessVars, Server, ClientProfile,
         AccountProtocol, Stored, Now, Placed, Exists
<1>2. SettledOK'
  BY <1>1, SettledStays DEF accessVars, ActiveSettings, AccessTypeOK
<1> QED
  BY <1>1, <1>2 DEF AccessInv, RenderOK, ProfilesOK, CutOff, accountVars, accessVars

\* What the trigger leaves: the rows of an account on the node follow the version.
LEMMA ActivatedFollows ==
    ASSUME AccessInv, NEW i \in DOMAIN versions, NEW a \in Accounts
    PROVE  LET settings == versions[i].settings
               current == ActivatedRows(i, a)
               primary == ActivatedPrimary(i, a)
           IN
           /\ current \in [ProtocolSet -> AccountProtocol] /\ primary \in ProtocolSet
           /\ Follows([node EXCEPT !.active = i], settings, a, current,
                      [profile[a] EXCEPT !.active = primary])
<1> DEFINE settings == versions[i].settings
           listed == settings.accounts[a].protocols
           current == ActivatedRows(i, a)
<1>1. /\ i \in Nat /\ i - 1 \in 0 .. Now /\ settings \in Settings
  <2>1. Len(versions) \in Nat /\ DOMAIN versions = 1 .. Len(versions)
    BY LenProperties DEF AccessInv
  <2>2. versions[i] \in ConfigVersion
    BY <2>1, ElementOfSeq DEF AccessInv
  <2>3. i \in Nat /\ i - 1 \in 0 .. Now
    BY <2>1 DEF Now
  <2> QED
    BY <2>2, <2>3 DEF ConfigVersion
<1>2. /\ listed \in SUBSET PerAccount(ProtocolSet) /\ settings.proxy \in BOOLEAN
      /\ settings.accounts[a].primary \in ProtocolSet \cup {Unset}
      /\ settings.accounts[a].primary # Unset =>
            settings.accounts[a].primary \in DeployedProtocols(settings, a)
  BY <1>1 DEF Settings
<1>3. listed \in SUBSET ProtocolSet /\ "mtproto" \notin listed /\ "mtproto" \in ProtocolSet
  BY <1>2, ProtocolsAssumption DEF PerAccount
<1>4. /\ rows[a] \in [ProtocolSet -> AccountProtocol]
      /\ profile[a] \in ClientProfile /\ node \in Server
  BY DEF AccessInv, AccessTypeOK
<1> HIDE DEF settings
<1> DEFINE Activated(p) ==
             /\ p # "mtproto" /\ rows[a][p].exists /\ p \in listed =>
                   current[p] = [rows[a][p] EXCEPT !.active = TRUE]
             /\ p # "mtproto" /\ rows[a][p].exists /\ p \notin listed =>
                   current[p] = [rows[a][p] EXCEPT !.active = FALSE]
             /\ p # "mtproto" /\ ~rows[a][p].exists /\ p \in listed =>
                   current[p] = [exists |-> TRUE, desired |-> TRUE, explicit |-> FALSE,
                                 active |-> TRUE, at |-> i - 1]
             /\ p # "mtproto" /\ ~rows[a][p].exists /\ p \notin listed =>
                   current[p] = rows[a][p]
             /\ p = "mtproto" =>
                   \/ /\ rows[a][p].exists /\ ~settings.proxy
                      /\ current[p] = [rows[a][p] EXCEPT !.active = FALSE]
                   \/ /\ rows[a][p].exists /\ settings.proxy /\ rows[a][p].at < i
                      /\ current[p] = [rows[a][p] EXCEPT !.active = rows[a][p].desired]
                   \/ /\ ~rows[a][p].exists \/ (settings.proxy /\ ~(rows[a][p].at < i))
                      /\ current[p] = rows[a][p]
<1>5. \A p \in ProtocolSet : Activated(p)
  <2> SUFFICES ASSUME NEW p \in ProtocolSet PROVE Activated(p)
    OBVIOUS
  <2>1. current[p] =
          LET held == rows[a][p] IN
          CASE p # "mtproto" /\ held.exists -> [held EXCEPT !.active = p \in listed]
            [] p # "mtproto" /\ ~held.exists /\ p \in listed ->
                  [exists |-> TRUE, desired |-> TRUE, explicit |-> FALSE, active |-> TRUE,
                   at |-> i - 1]
            [] p = "mtproto" /\ held.exists /\ ~settings.proxy ->
                  [held EXCEPT !.active = FALSE]
            [] p = "mtproto" /\ held.exists /\ settings.proxy /\ held.at < i ->
                  [held EXCEPT !.active = held.desired]
            [] OTHER -> held
    BY DEF ActivatedRows, settings
  <2> HIDE DEF listed, current
  <2>2. CASE p # "mtproto" /\ rows[a][p].exists /\ p \in listed
    <3>1. (p \in listed) = TRUE
      BY <2>2
    <3>2. current[p] = [rows[a][p] EXCEPT !.active = p \in listed]
      BY <2>1, <2>2
    <3>3. current[p] = [rows[a][p] EXCEPT !.active = TRUE]
      BY <3>1, <3>2
    <3> QED
      BY <2>2, <3>3
  <2>3. CASE p # "mtproto" /\ rows[a][p].exists /\ p \notin listed
    <3>1. (p \in listed) = FALSE
      BY <2>3
    <3>2. current[p] = [rows[a][p] EXCEPT !.active = p \in listed]
      BY <2>1, <2>3
    <3>3. current[p] = [rows[a][p] EXCEPT !.active = FALSE]
      BY <3>1, <3>2
    <3> QED
      BY <2>3, <3>3
  <2>4. CASE p # "mtproto" /\ ~rows[a][p].exists
    BY <2>1, <2>4
  <2>5. CASE p = "mtproto"
    BY <2>1, <2>5
  <2> QED
    BY <2>2, <2>3, <2>4, <2>5
<1>6. current \in [ProtocolSet -> AccountProtocol]
  <2>1. \A p \in ProtocolSet : current[p] \in AccountProtocol
    <3> SUFFICES ASSUME NEW p \in ProtocolSet PROVE current[p] \in AccountProtocol
      OBVIOUS
    <3>1. rows[a][p] \in AccountProtocol
      BY <1>4
    <3> HIDE DEF current, listed
    <3>2. Activated(p)
      BY <1>5
    <3>3. \A value \in BOOLEAN : [rows[a][p] EXCEPT !.active = value] \in AccountProtocol
      BY <3>1 DEF AccountProtocol
    <3>4. rows[a][p].desired \in BOOLEAN
      BY <3>1 DEF AccountProtocol
    <3>5. [exists |-> TRUE, desired |-> TRUE, explicit |-> FALSE, active |-> TRUE, at |-> i - 1]
             \in AccountProtocol
      BY <1>1 DEF AccountProtocol
    <3>6. CASE p # "mtproto"
      BY <3>1, <3>2, <3>3, <3>5, <3>6
    <3>7. CASE p = "mtproto"
      BY <3>1, <3>2, <3>3, <3>4, <3>7
    <3> QED
      BY <3>6, <3>7
  <2>2. current = [p \in ProtocolSet |-> current[p]]
    BY DEF ActivatedRows
  <2> QED
    BY <2>1, <2>2
<1>7. \A p \in PerAccount(ProtocolSet) : current[p].exists => (current[p].active <=> p \in listed)
  <2> SUFFICES ASSUME NEW p \in PerAccount(ProtocolSet), current[p].exists
               PROVE  current[p].active <=> p \in listed
    OBVIOUS
  <2>1. p \in ProtocolSet /\ p # "mtproto" /\ rows[a][p] \in AccountProtocol
    BY <1>4 DEF PerAccount
  <2>2. Activated(p)
    BY <1>5, <2>1
  <2> HIDE DEF current, listed
  <2>3. CASE rows[a][p].exists
    BY <2>1, <2>2, <2>3 DEF AccountProtocol
  <2>4. CASE ~rows[a][p].exists
    BY <2>1, <2>2, <2>4
  <2> QED
    BY <2>3, <2>4
<1>8. /\ current["mtproto"].exists /\ current["mtproto"].active => settings.proxy
      /\ current["mtproto"].exists /\ current["mtproto"].at < i /\ settings.proxy =>
            (current["mtproto"].active <=> current["mtproto"].desired)
  <2>1. rows[a]["mtproto"] \in AccountProtocol
    BY <1>3, <1>4
  <2>2. Activated("mtproto")
    BY <1>3, <1>5
  <2> HIDE DEF current, listed
  <2> QED
    BY <2>1, <2>2 DEF AccountProtocol
<1>9. listed # {} => First(listed) \in listed
  BY <1>3, FirstIsIn
<1>10. /\ ActivatedPrimary(i, a) \in ProtocolSet
       /\ HasEntry(settings, a) => ActivatedPrimary(i, a) \in DeployedProtocols(settings, a)
  <2>1. PrimaryProtocol(profile[a].protocol, node.protocol) \in ProtocolSet
        /\ profile[a].active \in ProtocolSet
    BY <1>4, PrimaryType DEF ClientProfile, Server
  <2>2. CASE HasEntry(settings, a) /\ settings.accounts[a].primary # Unset
    BY <1>2, <2>2 DEF ActivatedPrimary, settings
  <2>3. CASE HasEntry(settings, a) /\ settings.accounts[a].primary = Unset
    <3>1. listed # {}
      BY <2>3 DEF HasEntry
    <3>2. ActivatedPrimary(i, a) = IF profile[a].active \in DeployedProtocols(settings, a)
                                   THEN profile[a].active ELSE First(listed)
      BY <2>3 DEF ActivatedPrimary, settings
    <3> QED
      BY <1>3, <1>9, <2>1, <3>1, <3>2 DEF DeployedProtocols
  <2>4. CASE ~HasEntry(settings, a)
    <3>1. \/ ActivatedPrimary(i, a) = PrimaryProtocol(profile[a].protocol, node.protocol)
          \/ ActivatedPrimary(i, a) = profile[a].active
      BY <2>4 DEF ActivatedPrimary, settings
    <3> QED
      BY <2>1, <2>4, <3>1
  <2> QED
    BY <2>2, <2>3, <2>4
<1> DEFINE cp == [profile[a] EXCEPT !.active = ActivatedPrimary(i, a)]
           n == [node EXCEPT !.active = i]
<1>11. /\ cp.active = ActivatedPrimary(i, a) /\ cp.exists = profile[a].exists
       /\ cp.at = profile[a].at /\ cp.protocol = profile[a].protocol
       /\ n.active = i /\ n.at = node.at /\ n.protocol = node.protocol
  BY <1>4 DEF ClientProfile, Server
<1>12. ASSUME ~HasEntry(settings, a), cp.at < i, cp.protocol # "auto" \/ node.at < i
       PROVE  cp.active = PrimaryProtocol(cp.protocol, node.protocol)
  BY <1>11, <1>12 DEF ActivatedPrimary, settings
<1> HIDE DEF cp, n, current
<1>13. Follows(n, settings, a, current, cp)
  BY <1>7, <1>8, <1>10, <1>11, <1>12 DEF Follows
<1> QED
  BY <1>6, <1>10, <1>13 DEF settings, cp, n, current

\* A confirmed version becomes the active one, and the accounts on the node follow it.
LEMMA ApplySucceedsKeepsInv ==
    ASSUME AccessInv, ApplySucceeds
    PROVE  AccessInv'
<1> DEFINE i == Head(queue)
           v == [versions[i] EXCEPT !.status = "applied", !.applied = TRUE]
<1>1. /\ queue \in Seq(Stored) /\ queue # <<>>
      /\ i \in DOMAIN versions /\ i \in Stored /\ Tail(queue) \in Seq(Stored)
  BY QueueType, HeadTailProperties DEF ApplySucceeds, Stored
<1>2. /\ versions \in Seq(ConfigVersion) /\ Len(versions) \in Nat
      /\ DOMAIN versions = 1 .. Len(versions) /\ versions[i] \in ConfigVersion
  BY <1>1, LenProperties, ElementOfSeq DEF AccessInv
<1>3. /\ v \in ConfigVersion /\ v.settings = versions[i].settings
      /\ v.stored = versions[i].stored
  BY <1>2 DEF ConfigVersion
<1>4. versions' = [versions EXCEPT ![i] = v]
  BY <1>1, <1>2 DEF ApplySucceeds
<1> HIDE DEF v
<1>5. /\ versions' \in Seq(ConfigVersion) /\ Len(versions') = Len(versions)
      /\ DOMAIN versions' = DOMAIN versions
      /\ \A j \in DOMAIN versions : versions'[j] = IF j = i THEN v ELSE versions[j]
  <2>1. versions' \in Seq(ConfigVersion) /\ Len(versions') = Len(versions)
        /\ \A j \in DOMAIN versions : versions'[j] = IF j = i THEN v ELSE versions[j]
    BY <1>1, <1>2, <1>3, <1>4, ExceptSeq
  <2> QED
    BY <1>2, <2>1, LenProperties
<1>6. \A j \in DOMAIN versions' : versions'[j] \in ConfigVersion
  BY <1>5, ElementOfSeq, LenProperties
<1>7. Stored' = Stored
  BY <1>1, <1>3, <1>5 DEF Stored
<1>8. /\ node \in Server /\ account \in [Accounts -> VPNAccount]
      /\ profile \in [Accounts -> ClientProfile]
      /\ rows \in [Accounts -> [ProtocolSet -> AccountProtocol]]
      /\ settled \subseteq Placed /\ Placed \subseteq Accounts
  BY DEF AccessInv, AccessTypeOK, Placed
<1>9. node' = [node EXCEPT !.active = i] /\ node' \in Server /\ node'.active = i
  <2>1. node' = [node EXCEPT !.active = i]
    BY DEF ApplySucceeds
  <2>2. i \in 0 .. Now' /\ Now' = Now
    BY <1>1, <1>2, <1>5 DEF Now
  <2> HIDE DEF i
  <2> QED
    BY <1>8, <2>1, <2>2 DEF Server
<1>10. rows' = [a \in Accounts |-> IF a \in Placed THEN ActivatedRows(i, a) ELSE rows[a]]
  BY DEF ApplySucceeds
<1>11. profile' = [a \in Accounts |->
             IF a \in Placed /\ profile[a].exists
             THEN [profile[a] EXCEPT !.active = ActivatedPrimary(i, a)] ELSE profile[a]]
  BY DEF ApplySucceeds
<1>12. /\ rows' \in [Accounts -> [ProtocolSet -> AccountProtocol]]
       /\ profile' \in [Accounts -> ClientProfile]
  <2>1. \A a \in Accounts : /\ ActivatedRows(i, a) \in [ProtocolSet -> AccountProtocol]
                            /\ ActivatedPrimary(i, a) \in ProtocolSet
    BY <1>1, ActivatedFollows
  <2>2. \A a \in Accounts : [profile[a] EXCEPT !.active = ActivatedPrimary(i, a)] \in ClientProfile
    BY <1>8, <2>1 DEF ClientProfile
  <2> QED
    BY <1>8, <1>10, <1>11, <2>1, <2>2
<1>13. /\ settled' = Placed /\ queue' = Tail(queue)
       /\ UNCHANGED <<accountVars, render>>
  BY DEF ApplySucceeds
<1>14. Placed' = Placed
  BY <1>13 DEF accountVars, Placed, Exists
<1>15. Server' = Server /\ ClientProfile' = ClientProfile /\ AccountProtocol' = AccountProtocol
  BY <1>5 DEF Server, ClientProfile, AccountProtocol, Now
<1>16. \A j \in DOMAIN versions' : IsConfigVersion(versions'[j])
  BY <1>6 DEF ConfigVersion, IsConfigVersion
<1>17. AccessTypeOK'
  BY <1>1, <1>7, <1>8, <1>9, <1>12, <1>13, <1>14, <1>15, <1>16
  DEF AccessInv, AccessTypeOK, accountVars
<1>18. SettledOK'
  <2>1. Confirmed'
    BY <1>1, <1>2, <1>9 DEF Confirmed
  <2>2. ActiveSettings' = versions[i].settings
    BY <1>1, <1>3, <1>5, <1>9 DEF ActiveSettings
  <2>3. ASSUME NEW a \in settled'
        PROVE  Follows(node', ActiveSettings', a, rows'[a], profile'[a])
    <3> DEFINE cp == [profile[a] EXCEPT !.active = ActivatedPrimary(i, a)]
    <3>1. a \in Placed /\ a \in Accounts
      BY <1>8, <1>13
    <3>2. profile[a] \in ClientProfile
      BY <1>8, <3>1
    <3>3. rows'[a] = ActivatedRows(i, a)
          /\ profile'[a] = IF profile[a].exists THEN cp ELSE profile[a]
      BY <1>10, <1>11, <3>1
    <3>4. Follows(node', ActiveSettings', a, rows'[a], cp)
      BY <1>1, <1>9, <2>2, <3>1, <3>3, ActivatedFollows
    <3>5. cp.exists = profile[a].exists
      BY <3>2 DEF ClientProfile
    <3> HIDE DEF cp
    <3>6. CASE profile[a].exists
      BY <3>3, <3>4, <3>6
    <3>7. CASE ~profile[a].exists
      BY <3>3, <3>4, <3>7 DEF Follows
    <3> QED
      BY <3>6, <3>7
  <2> QED
    BY <2>1, <2>3 DEF SettledOK
<1>19. ProfilesOK'
  BY <1>8, <1>11 DEF AccessInv, ProfilesOK, ClientProfile
<1> QED
  BY <1>5, <1>13, <1>17, <1>18, <1>19 DEF AccessInv, RenderOK, CutOff, accountVars

\* Versions are edited and queued, and the Agent answers.
LEMMA VersionKeepsInv ==
    ASSUME AccessInv, VersionNext
    PROVE  AccessInv'
<1>1. /\ queue \in Seq(Stored) /\ versions \in Seq(ConfigVersion)
      /\ \A i \in DOMAIN versions : versions[i] \in ConfigVersion
  BY QueueType, ElementOfSeq, LenProperties DEF AccessInv
<1>2. ASSUME ResolveProtocols \/ ReadServerConfig \/ CreateConfigVersion
      PROVE  AccessInv'
  BY <1>2, RenderKeepsInv
<1>3. ASSUME NEW i \in DOMAIN versions, ValidateVersion(i)
      PROVE  AccessInv'
  <2> DEFINE v == [versions[i] EXCEPT !.status = "validated"]
  <2>1. v \in ConfigVersion /\ v.settings = versions[i].settings /\ v.stored
    BY <1>1, <1>3 DEF ConfigVersion, ValidateVersion, Stored
  <2>2. versions' = [versions EXCEPT ![i] = v]
        /\ UNCHANGED <<node, accountVars, accessVars, queue, render, settled>>
    BY <1>3 DEF ValidateVersion
  <2> HIDE DEF v
  <2> QED
    BY <2>1, <2>2, VersionEdited
<1>4. ASSUME NEW i \in DOMAIN versions, NEW pinned \in BOOLEAN, SetVersionPinned(i, pinned)
      PROVE  AccessInv'
  <2> DEFINE v == [versions[i] EXCEPT !.pinned = pinned]
  <2>1. v \in ConfigVersion /\ v.settings = versions[i].settings /\ v.stored
    BY <1>1, <1>4 DEF ConfigVersion, SetVersionPinned, Stored
  <2>2. versions' = [versions EXCEPT ![i] = v]
        /\ UNCHANGED <<node, accountVars, accessVars, queue, render, settled>>
    BY <1>4 DEF SetVersionPinned
  <2> HIDE DEF v
  <2> QED
    BY <2>1, <2>2, VersionEdited
<1>5. ASSUME NEW i \in DOMAIN versions, DeleteVersion(i)
      PROVE  AccessInv'
  <2> DEFINE v == [versions[i] EXCEPT !.stored = FALSE]
  <2>1. v \in ConfigVersion /\ v.settings = versions[i].settings
    BY <1>1 DEF ConfigVersion
  <2>2. versions' = [versions EXCEPT ![i] = v]
        /\ UNCHANGED <<node, accountVars, accessVars, queue, render, settled>>
        /\ \A k \in DOMAIN queue : queue[k] # i
    BY <1>5 DEF DeleteVersion, Deletable
  <2> HIDE DEF v
  <2> QED
    BY <2>1, <2>2, VersionEdited
<1>6. ASSUME NEW i \in DOMAIN versions, Apply(i) \/ Reapply(i)
      PROVE  AccessInv'
  <2>1. i \in Stored /\ queue' = Append(queue, i)
        /\ UNCHANGED <<node, accountVars, accessVars, versions, render, settled>>
    BY <1>6 DEF Apply, Reapply, CreateConfigApplyJob
  <2>2. queue' \in Seq(Stored)
    BY <1>1, <2>1, AppendProperties
  <2> QED
    BY <2>1, <2>2, QueueKeepsInv
<1>7. CASE ApplyFails
  <2>1. queue' \in Seq(Stored)
        /\ UNCHANGED <<node, accountVars, accessVars, versions, render, settled>>
    BY <1>1, <1>7, HeadTailProperties DEF ApplyFails
  <2> QED
    BY <2>1, QueueKeepsInv
<1>8. CASE ApplySucceeds
  BY <1>8, ApplySucceedsKeepsInv
<1> QED
  BY <1>2, <1>3, <1>4, <1>5, <1>6, <1>7, <1>8 DEF VersionNext

(***************************************************************************)
(* The start, and the whole                                                *)
(***************************************************************************)
\* A fresh node satisfies the invariant.
LEMMA AccessBegins ==
    ASSUME AccessInit
    PROVE  AccessInv
<1>1. /\ versions = <<>> /\ Len(versions) = 0 /\ DOMAIN versions = {}
      /\ versions \in Seq(ConfigVersion) /\ queue = <<>> /\ queue \in Seq(Stored)
  BY EmptySeq DEF AccessInit
<1>2. /\ NoProfile \in ClientProfile /\ NoRows \in [ProtocolSet -> AccountProtocol]
      /\ NoLinks \in SubscriptionTokens
  BY <1>1, ProtocolsAssumption DEF NoProfile, NoRows, NoRow, NoLinks, Preferences, ClientProfile,
         AccountProtocol, SubscriptionTokens, Now
<1>3. node \in Server /\ ~Confirmed
  BY <1>1, ConstantsAssumption DEF AccessInit, Server, NoKeys, Now, Confirmed
<1>4. /\ profile \in [Accounts -> ClientProfile]
      /\ rows \in [Accounts -> [ProtocolSet -> AccountProtocol]]
      /\ tokens \in [Accounts -> SubscriptionTokens]
  BY <1>2 DEF AccessInit
<1>5. /\ account \in [Accounts -> VPNAccount] /\ device \in [Accounts -> Device]
      /\ issuing = {} /\ settled = {} /\ late = {} /\ render.step = "idle"
  <2>1. /\ [status |-> "absent", placed |-> FALSE] \in VPNAccount
        /\ [status |-> "active", placed |-> TRUE] \in VPNAccount
    BY DEF VPNAccount
  <2>2. account \in [Accounts -> VPNAccount]
    BY <2>1 DEF AccessInit
  <2>3. device \in [Accounts -> Device] /\ render.step = "idle"
    BY DEF AccessInit, Device, IdleRender
  <2> QED
    BY <2>2, <2>3 DEF AccessInit
<1>6. CutOff /\ ProfilesOK
  BY DEF AccessInit, CutOff, ProfilesOK, NoProfile
<1> QED
  BY <1>1, <1>3, <1>4, <1>5, <1>6 DEF AccessInv, AccessTypeOK, RenderOK, SettledOK

\* Every step keeps it.
LEMMA AccessStep ==
    ASSUME AccessInv, [AccessNext]_clientVars
    PROVE  AccessInv'
<1>1. CASE AccountNext
  BY <1>1, AccountKeepsInv
<1>2. CASE DeviceNext
  BY <1>2, DeviceKeepsInv
<1>3. CASE PreferenceNext
  BY <1>3, PreferenceKeepsInv
<1>4. CASE VersionNext
  BY <1>4, VersionKeepsInv
<1>5. ASSUME NEW a \in Accounts,
             ClientConnection(a) \/ \E slot \in Slots : GetClientSubscription(a, slot)
      PROVE  AccessInv'
  BY <1>5, ReadKeepsInv DEF ClientConnection, GetClientSubscription
<1>6. CASE UNCHANGED clientVars
  <2>1. queue' \in Seq(Stored)
    BY <1>6, QueueType DEF clientVars
  <2> QED
    BY <1>6, <2>1, QueueKeepsInv DEF clientVars, accountVars, accessVars
<1> QED
  BY <1>1, <1>2, <1>3, <1>4, <1>5, <1>6 DEF AccessNext

\* The invariant holds in every state.
THEOREM AccessInvariance == AccessSpec => []AccessInv
<1>1. AccessInit => AccessInv
  BY AccessBegins
<1>2. AccessInv /\ [AccessNext]_clientVars => AccessInv'
  BY AccessStep
<1> QED
  BY <1>1, <1>2, PTL DEF AccessSpec

\* Every row of the access tables keeps the shape its table gives it.
THEOREM AccessTypeCorrect == AccessSpec => []AccessTypeOK
<1>1. AccessInv => AccessTypeOK
  BY DEF AccessInv
<1> QED
  BY <1>1, AccessInvariance, PTL

\* The link of a revoked device hands out nothing, unless it was being issued when
\* the device was revoked.
THEOREM RevokedMeansCutOff == AccessSpec => []RevokedDeviceIsCutOff
<1>1. AccessInv => RevokedDeviceIsCutOff
  BY DEF AccessInv, CutOff, RevokedDeviceIsCutOff, HandedOut, LinkOpens
<1> QED
  BY <1>1, AccessInvariance, PTL

\* What clients of an account are handed, as long as the node deploys all of it.
Offered(a) ==
    LET cp == ProfileOf(a)
        active == ActiveRows(Seeded(a, cp, rows[a]))
    IN IF active = {} THEN {cp.active} ELSE active

\* An account that the active version knows is handed what is offered to it: the
\* protocols listed for it, and perhaps MTProto.
LEMMA KnownIsServed ==
    ASSUME AccessInv, NEW a \in settled, HasEntry(ActiveSettings, a)
    PROVE  /\ Served(a) = Offered(a) /\ Served(a) # {}
           /\ PerAccount(Served(a)) = ActiveSettings.accounts[a].protocols
<1> DEFINE cp == ProfileOf(a)
           current == Seeded(a, cp, rows[a])
           listed == ActiveSettings.accounts[a].protocols
           active == ActiveRows(current)
           connections == IF active = {} THEN {cp.active} ELSE active
<1>1. /\ a \in Accounts /\ a \in Placed /\ AppliedKnown(a) /\ Confirmed
      /\ Follows(node, ActiveSettings, a, rows[a], cp)
      /\ Follows(node, ActiveSettings, a, current, cp)
  BY ReadFollows DEF AccessInv, AccessTypeOK, AppliedKnown
<1>2. /\ listed \in SUBSET PerAccount(ProtocolSet) /\ Applied(a) = listed
      /\ listed \subseteq ProtocolSet /\ "mtproto" \notin listed
  BY <1>1, ActiveEntry DEF Applied, AppliedKnown, PerAccount
<1>3. cp.exists /\ cp.active \in DeployedProtocols(ActiveSettings, a)
  <2>1. cp.exists
    BY DEF ProfileOf
  <2> QED
    BY <1>1, <2>1 DEF Follows
<1>4. \A p \in listed : current[p].exists
  BY <1>1, <1>2 DEF Seeded
<1>5. PerAccount(active) = listed
  <2>1. \A p \in PerAccount(ProtocolSet) :
           current[p].exists => (current[p].active <=> p \in listed)
    BY <1>1 DEF Follows
  <2> HIDE DEF current, listed
  <2> QED
    BY <1>2, <1>4, <2>1 DEF ActiveRows, PerAccount
<1>6. "mtproto" \in active => ActiveSettings.proxy
  BY <1>1 DEF Follows, ActiveRows
<1> HIDE DEF cp, current, listed, active
<1>7. active \subseteq listed \cup (IF ActiveSettings.proxy THEN {"mtproto"} ELSE {})
  BY <1>5, <1>6 DEF PerAccount
<1>8. {cp.active} \cup connections \subseteq DeployedProtocols(ActiveSettings, a)
  BY <1>3, <1>7 DEF DeployedProtocols, listed
<1>9. Served(a) = connections /\ Offered(a) = connections
  BY <1>1, <1>8 DEF Served, Offered, cp, current, active
<1>10. PerAccount(connections) = listed
  <2>1. CASE active = {}
    <3>1. listed = {}
      BY <1>5, <2>1 DEF PerAccount
    <3>2. cp.active = "mtproto"
      BY <1>3, <3>1 DEF DeployedProtocols, listed
    <3> QED
      BY <2>1, <3>1, <3>2 DEF PerAccount
  <2>2. CASE active # {}
    BY <1>5, <2>2
  <2> QED
    BY <2>1, <2>2
<1> QED
  BY <1>9, <1>10 DEF listed

\* A client of an account that was on the node when its active version was
\* confirmed is handed exactly what that version deploys for the account.
THEOREM HandedWhatIsDeployed == AccessSpec => []DeployedIsServed
<1>1. AccessInv => DeployedIsServed
  BY KnownIsServed DEF DeployedIsServed
<1> QED
  BY <1>1, AccessInvariance, PTL

\* The content that another render would have lists, of an account in service, the
\* protocols desired for it; with MTProto among them it runs the proxy.
LEMMA WantedIsRendered ==
    ASSUME AccessInv, NEW a \in Placed, Active(a),
           NEW config,
           config = RenderedConfig([b \in Accounts |-> DesiredSelection(b)],
                                   {b \in Placed : Active(b)}, node.protocol, node.keys)
    PROVE  LET desired == DesiredSelection(a).protocols IN
           /\ desired # {} /\ desired \subseteq ProtocolSet
           /\ config.protocol = NormalizeProtocol(node.protocol)
           /\ config.listed[a] = PerAccount(desired)
           /\ "mtproto" \in desired => "mtproto" \in config.cores
<1> DEFINE selection == [b \in Accounts |-> DesiredSelection(b)]
           served == {b \in Placed : Active(b)}
           desired == DesiredSelection(a).protocols
<1>1. a \in Accounts /\ a \in served /\ selection[a].protocols = desired
  BY DEF Placed
<1>2. desired # {} /\ desired \subseteq ProtocolSet
  <2>1. /\ profile[a].protocol \in Preferences /\ node.protocol \in Preferences
        /\ Chosen(a) \in SUBSET ProtocolSet
    BY <1>1 DEF AccessInv, AccessTypeOK, ClientProfile, Server, Chosen
  <2>2. desired \subseteq ProtocolSet
    BY <2>1, SelectionType DEF DesiredSelection
  <2> QED
    BY <2>2 DEF DesiredSelection, Selection
<1> HIDE DEF desired, selection, served
<1>3. desired \subseteq SelectedCores(selection, served, node.protocol)
  BY <1>1, <1>2 DEF SelectedCores
<1>4. /\ config.cores = SelectedCores(selection, served, node.protocol)
      /\ config.protocol = NormalizeProtocol(node.protocol)
      /\ config.listed[a] = MergedProtocols(config.cores, selection, served, a)
  BY <1>1 DEF RenderedConfig, selection, served
<1>5. config.listed[a] = PerAccount(desired)
  BY <1>1, <1>3, <1>4 DEF MergedProtocols, Renderable, PerAccount
<1> QED
  BY <1>2, <1>3, <1>4, <1>5 DEF desired

\* While the active version is the latest and an equal render would be answered
\* with it, an account in service that it knows, or that is wanted on its primary
\* protocol, is handed all that is desired for it and per account nothing else.
THEOREM SavedIsHanded == AccessSpec => []NothingPending
<1>1. ASSUME AccessInv PROVE NothingPending
  <2> DEFINE config == RenderedConfig([b \in Accounts |-> DesiredSelection(b)],
                                      {b \in Placed : Active(b)}, node.protocol, node.keys)
  <2> SUFFICES ASSUME Confirmed, node.active = Latest, Reusable(config),
                      NEW a \in settled, Active(a),
                      \/ HasEntry(ActiveSettings, a)
                      \/ PrimaryProtocol(profile[a].protocol, node.protocol)
                            \in DesiredSelection(a).protocols
               PROVE  /\ DesiredSelection(a).protocols \subseteq Served(a)
                      /\ PerAccount(Served(a)) = PerAccount(DesiredSelection(a).protocols)
    BY DEF NothingPending
  <2> DEFINE desired == DesiredSelection(a).protocols
             listed == ActiveSettings.accounts[a].protocols
             primary == PrimaryProtocol(profile[a].protocol, node.protocol)
             i == node.active
  <2>1. /\ a \in Placed /\ a \in Accounts /\ AppliedKnown(a)
    BY <1>1, ReadFollows DEF AccessInv, AccessTypeOK
  <2>2. /\ i \in DOMAIN versions /\ versions[i] \in ConfigVersion
        /\ ActiveSettings = versions[i].settings /\ versions[i].config = config
    <3>1. i \in DOMAIN versions
      BY <1>1, ActiveType
    <3>2. versions[i] \in ConfigVersion
      BY <1>1, <3>1, ElementOfSeq, LenProperties DEF AccessInv
    <3>3. versions[i].config = config
      BY DEF Reusable
    <3> QED
      BY <3>1, <3>2, <3>3 DEF ActiveSettings
  <2>3. /\ node.at < i
        /\ profile[a].exists => profile[a].at < i
        /\ rows[a]["mtproto"].exists => rows[a]["mtproto"].at < i
    <3>1. i \in Nat /\ node.at \in Nat /\ profile[a].at \in Nat /\ rows[a]["mtproto"].at \in Nat
      BY <1>1, <2>1, ProtocolsAssumption DEF AccessInv, AccessTypeOK, Server, ClientProfile,
                                             AccountProtocol
    <3>2. ~NewerPreference(i)
      BY DEF Reusable
    <3> HIDE DEF i
    <3> QED
      BY <2>1, <3>1, <3>2, ProtocolsAssumption DEF NewerPreference
  <2>4. Describes(ActiveSettings, config)
    BY <2>2 DEF ConfigVersion
  <2>5. /\ desired # {} /\ desired \subseteq ProtocolSet
        /\ ActiveSettings.protocol = NormalizeProtocol(node.protocol)
        /\ listed = PerAccount(desired)
        /\ "mtproto" \in desired => ActiveSettings.proxy
    <3>1. /\ desired # {} /\ desired \subseteq ProtocolSet
          /\ config.protocol = NormalizeProtocol(node.protocol)
          /\ config.listed[a] = PerAccount(desired)
          /\ "mtproto" \in desired => "mtproto" \in config.cores
      BY <1>1, <2>1, WantedIsRendered
    <3> HIDE DEF config, desired
    <3> QED
      BY <2>1, <2>4, <3>1 DEF Describes
  <2>6. Follows(node, ActiveSettings, a, rows[a], profile[a])
    BY <1>1 DEF AccessInv, SettledOK
  <2>7. desired = IF Chosen(a) = {} THEN {primary} ELSE Chosen(a)
    BY DEF DesiredSelection, Selection
  <2> HIDE DEF config, desired, listed, primary
  <2>8. CASE HasEntry(ActiveSettings, a)
    <3>1. /\ Served(a) = Offered(a) /\ Served(a) # {} /\ PerAccount(Served(a)) = listed
      BY <1>1, <2>8, KnownIsServed DEF listed
    <3>2. ASSUME "mtproto" \in desired PROVE "mtproto" \in Served(a)
      <4>1. CASE "mtproto" \in Chosen(a)
        <5>1. rows[a]["mtproto"].exists /\ rows[a]["mtproto"].desired
          BY <4>1 DEF Chosen
        <5>2. rows[a]["mtproto"].active
          BY <2>3, <2>5, <2>6, <3>2, <5>1 DEF Follows
        <5>3. "mtproto" \in ActiveRows(Seeded(a, ProfileOf(a), rows[a]))
          BY <5>1, <5>2, ProtocolsAssumption DEF ActiveRows, Seeded
        <5> QED
          BY <3>1, <5>3 DEF Offered
      <4>2. CASE "mtproto" \notin Chosen(a)
        <5>1. listed = {}
          BY <2>5, <2>7, <3>2, <4>2 DEF PerAccount
        <5> QED
          BY <3>1, <5>1 DEF PerAccount
      <4> QED
        BY <4>1, <4>2
    <3>3. \A p \in desired : p # "mtproto" => p \in listed
      BY <2>5 DEF PerAccount
    <3>4. \A p \in listed : p \in Served(a)
      BY <3>1 DEF PerAccount
    <3> QED
      BY <2>5, <3>1, <3>2, <3>3, <3>4 DEF desired
  <2>9. CASE ~HasEntry(ActiveSettings, a)
    <3>1. listed = {} /\ ActiveSettings.accounts[a].primary = Unset
      BY <2>9 DEF HasEntry, listed
    <3>2. desired = {"mtproto"} /\ primary = "mtproto"
      <4>1. primary \in desired
        BY <2>9 DEF primary, desired
      <4> QED
        BY <2>5, <3>1, <4>1 DEF PerAccount
    <3>3. ProfileOf(a).active = "mtproto"
      <4>1. CASE profile[a].exists
        <5>1. profile[a].active = primary
          BY <2>3, <2>6, <2>9, <4>1 DEF Follows, primary
        <5> QED
          BY <3>2, <4>1, <5>1 DEF ProfileOf
      <4>2. CASE ~profile[a].exists
        <5>1. profile[a].protocol = "auto"
          BY <1>1, <2>1, <4>2 DEF AccessInv, ProfilesOK
        <5>2. NormalizeProtocol(node.protocol) = primary
          BY <5>1 DEF primary, PrimaryProtocol
        <5>3. AppliedPrimary(a) = ActiveSettings.protocol
          BY <2>1, <3>1 DEF AppliedPrimary, Applied, listed
        <5> QED
          BY <2>5, <3>2, <4>2, <5>2, <5>3 DEF ProfileOf
      <4> QED
        BY <4>1, <4>2
    <3> DEFINE current == Seeded(a, ProfileOf(a), rows[a])
               active == ActiveRows(current)
    <3>4. Follows(node, ActiveSettings, a, current, ProfileOf(a))
      BY <1>1, ReadFollows
    <3>5. active \subseteq {"mtproto"}
      <4> HIDE DEF current
      <4> QED
        BY <3>1, <3>4 DEF Follows, ActiveRows, PerAccount, listed
    <3>6. DeployedProtocols(ActiveSettings, a) = {"mtproto"}
      BY <2>5, <3>1, <3>2 DEF DeployedProtocols, listed
    <3> HIDE DEF active
    <3>7. (IF active = {} THEN {ProfileOf(a).active} ELSE active) = {"mtproto"}
      BY <3>3, <3>5
    <3>8. Served(a) = {"mtproto"}
      BY <2>1, <3>3, <3>6, <3>7 DEF Served, active
    <3> QED
      BY <3>2, <3>8 DEF desired
  <2> QED
    BY <2>8, <2>9
<1> QED
  BY <1>1, AccessInvariance, PTL
=============================================================================
