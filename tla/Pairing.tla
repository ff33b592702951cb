------------------------------- MODULE Pairing -------------------------------
(***************************************************************************)
(* The pairing of Telegram chats with the Manager, through which the       *)
(* recipients of notifications come to exist (backend/internal/delivery/   *)
(* telegram_pairing.go, telegram.go).                                      *)
(*                                                                         *)
(* An administrator starts a session and opens its link; the chat sends    *)
(* the link's parameter to the bot.  Whenever the state of a session is    *)
(* asked for, the Manager polls the bot's updates inside a transaction     *)
(* that locks the offset of the next update.                               *)
(***************************************************************************)
EXTENDS Integers, Sequences, FiniteSets

CONSTANTS
    Chats,
    Sessions,       \* the links that may be started
    Accounts        \* VPN accounts, a session may be for one

VARIABLES
    sessions,       \* telegram_pairing_sessions
    updates,        \* external: the messages the bot has received
    nextUpdate,     \* telegram_update_state: the first update not yet seen
    poll,           \* the transaction that polls
    recipients,     \* delivery_recipients: enabled, of Telegram
    contacts,       \* vpn_accounts.telegram_recipient_id
    used,           \* note: the identifiers of recipients so far
    paired          \* note: which chats a link has paired

pairingVars == <<sessions, updates, nextUpdate, poll, recipients, contacts, used, paired>>

NoPoll == [running |-> FALSE]
NoRecipient == 0

PairingSession(status, account) ==
    [status |-> status, account |-> account, recipient |-> NoRecipient]
Recipient == [id : 1 .. used, chat : Chats]

PairingInit ==
    /\ sessions = [k \in Sessions |-> PairingSession("none", "none")]
    /\ updates = <<>> /\ nextUpdate = 1
    /\ poll = NoPoll
    /\ contacts = [a \in Accounts |-> NoRecipient]
    /\ paired = {}

(* Start, for the notifications or as the contact of an account. *)
StartPairing(k) ==
    /\ sessions[k].status = "none"
    /\ \E account \in Accounts \cup {"none"} :
          sessions' = [sessions EXCEPT ![k] = PairingSession("started", account)]
    /\ UNCHANGED <<updates, nextUpdate, poll, recipients, contacts, used, paired>>

(* The link's 10 minutes are over. *)
ExpirePairing(k) ==
    /\ sessions[k].status = "started"
    /\ sessions' = [sessions EXCEPT ![k].status = "expired"]
    /\ UNCHANGED <<updates, nextUpdate, poll, recipients, contacts, used, paired>>

(* External: somebody who has the link sends its parameter. *)
SendStart(chat, k) ==
    /\ sessions[k].status # "none"
    /\ updates' = Append(updates, [chat |-> chat, session |-> k])
    /\ UNCHANGED <<sessions, nextUpdate, poll, recipients, contacts, used, paired>>

(* processUpdates: nothing without a pending session; the time of the       *)
(* transaction decides which sessions have expired.  The lock on the offset *)
(* admits one transaction at a time.                                        *)
Pending(k) == sessions[k].status = "started" /\ sessions[k].recipient = NoRecipient

BeginPoll ==
    /\ poll = NoPoll
    /\ \E k \in Sessions : Pending(k)
    /\ poll' = [running |-> TRUE, from |-> nextUpdate, next |-> Len(updates) + 1,
                expired |-> {k \in Sessions : sessions[k].status = "expired"}]
    /\ UNCHANGED <<sessions, updates, nextUpdate, recipients, contacts, used, paired>>

(* One update: a usable link pairs the chat, whose recipient is created,    *)
(* or enabled again under its identifier.                                   *)
Usable(state, k) ==
    k \notin poll.expired /\ state.sessions[k].status # "none"
       /\ state.sessions[k].recipient = NoRecipient

Pair(state, update) ==
    LET k == update.session
        known == {r \in state.recipients : r.chat = update.chat}
        r == IF known # {} THEN CHOOSE r \in known : TRUE
             ELSE [id |-> state.used + 1, chat |-> update.chat]
        account == state.sessions[k].account IN
    IF ~Usable(state, k) THEN state
    ELSE [sessions |-> [state.sessions EXCEPT ![k].recipient = r.id],
          recipients |-> state.recipients \cup {r},
          used |-> IF known = {} THEN state.used + 1 ELSE state.used,
          contacts |-> IF account = "none" THEN state.contacts
                       ELSE [state.contacts EXCEPT ![account] = r.id],
          paired |-> state.paired \cup {<<k, update.chat>>}]

PairAll ==
    LET after[n \in (poll.from - 1) .. (poll.next - 1)] ==
            IF n < poll.from
            THEN [sessions |-> sessions, recipients |-> recipients, used |-> used,
                  contacts |-> contacts, paired |-> paired]
            ELSE Pair(after[n - 1], updates[n])
    IN after[poll.next - 1]

(* All of it, with the offset, in one commit. *)
CommitPoll ==
    /\ poll # NoPoll
    /\ LET after == PairAll IN
       /\ sessions' = after.sessions /\ recipients' = after.recipients
       /\ used' = after.used /\ contacts' = after.contacts /\ paired' = after.paired
    /\ nextUpdate' = poll.next
    /\ poll' = NoPoll
    /\ UNCHANGED updates

(* Mutant: the offset is stored as soon as the updates have been read. *)
OffsetWithoutCommit_Stored == poll.next

OffsetWithoutCommit == nextUpdate

(* Telegram does not answer, a statement fails, or the Manager stops. *)
AbandonPoll ==
    /\ poll # NoPoll
    /\ nextUpdate' = OffsetWithoutCommit
    /\ poll' = NoPoll
    /\ UNCHANGED <<sessions, updates, recipients, contacts, used, paired>>

(* DeleteRecipient: sessions and accounts that refer to it forget it. *)
DeleteRecipient(r) ==
    /\ r \in recipients
    /\ recipients' = recipients \ {r}
    /\ sessions' = [k \in Sessions |->
          IF sessions[k].recipient = r.id THEN [sessions[k] EXCEPT !.recipient = NoRecipient]
          ELSE sessions[k]]
    /\ contacts' = [a \in Accounts |-> IF contacts[a] = r.id THEN NoRecipient ELSE contacts[a]]
    /\ UNCHANGED <<updates, nextUpdate, poll, used, paired>>

-----------------------------------------------------------------------------
(* Properties *)

(* Every variable has the shape its table gives it. *)
PairingTypeOK ==
    /\ sessions \in [Sessions -> [status : {"none", "started", "expired"},
                                  account : Accounts \cup {"none"}, recipient : 0 .. used]]
    /\ nextUpdate \in 1 .. Len(updates) + 1
    /\ recipients \subseteq Recipient
    /\ contacts \in [Accounts -> 0 .. used]

(* A message is confirmed to Telegram, which then forgets it, only when the *)
(* link it names has been used or is over: no failure between the answer of *)
(* Telegram and the commit loses a pairing, and what a link has paired is a *)
(* recipient, unless it was deleted.                                        *)
ConfirmedIsPaired ==
    /\ \A m \in 1 .. (nextUpdate - 1) :
          LET k == updates[m].session IN
          sessions[k].status = "started" => \E chat \in Chats : <<k, chat>> \in paired
    /\ \A k \in Sessions : sessions[k].recipient # NoRecipient =>
          \E r \in recipients : r.id = sessions[k].recipient /\ <<k, r.chat>> \in paired
    /\ \A a \in Accounts : contacts[a] # NoRecipient =>
          \E r \in recipients : r.id = contacts[a]

(* Not so: the deletion of a recipient makes the link that paired it usable *)
(* again while its 10 minutes last, for another chat, too ("Open the        *)
(* one-time link", telegramPairingTranslations.ts:8).                       *)
LinkPairsOnce == \A k \in Sessions : Cardinality({chat \in Chats : <<k, chat>> \in paired}) <= 1
=============================================================================
