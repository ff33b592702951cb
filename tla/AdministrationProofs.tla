------------------------ MODULE AdministrationProofs ------------------------
(***************************************************************************)
(* What administrators may rely on, for any number of users, requests,     *)
(* nodes and files.                                                        *)
(*                                                                         *)
(* Identity: who is let in with which password and which setup link.       *)
(* NodeOperations: what a cleanup removes, what a plan that has succeeded  *)
(* means, and that an installed runtime stays startable.                   *)
(***************************************************************************)
EXTENDS Identity, NodeOperations, Integers, SequenceTheorems, FiniteSetTheorems,
        WellFoundedInduction, TLAPS

(***************************************************************************)
(* Users, sessions and setup links                                         *)
(***************************************************************************)
Link == [user : Users, open : BOOLEAN]

\* The tables, as functions from their row numbers.
ShapeInv ==
    /\ up \in BOOLEAN
    /\ users \in [Users -> User]
    /\ sessions \in Seq(Session) /\ Len(sessions) <= MaxSessions
    /\ links \in Seq(Link) /\ Len(links) <= MaxLinks
    /\ edits \in 0 .. MaxEdits /\ restarts \in 0 .. MaxRestarts

\* What a request carries from the step that read it to the step that uses it.
Carries(q) ==
    /\ q.op = "login" => q.user \in Users /\ q.hash \in Hashes
    /\ q.op \in {"authorized", "replace_password"} =>
          q.user \in Users /\ q.session \in DOMAIN sessions
    /\ q.op = "set_status" => q.target \in Users /\ q.status = "disabled"
    /\ q.op = "set_user" =>
          /\ q.target \in Users /\ q.status \in {"same", "disabled"}
          /\ q.roles \in RoleSets \cup {{}}

RequestInv == DOMAIN req = Requests /\ \A r \in Requests : Carries(req[r])

\* At most one link of a user is open, none after its setup.
LinkInv ==
    \A l \in DOMAIN links : links[l].open =>
        /\ ~users[links[l].user].setup
        /\ \A k \in DOMAIN links : links[k].open /\ links[k].user = links[l].user => k = l

\* The inductive invariant.
Inv == ShapeInv /\ RequestInv /\ OldPasswordsOpenNothing /\ LinkInv

(***************************************************************************)
(* Rows                                                                    *)
(***************************************************************************)
\* A table that is rewritten row by row keeps its length.
LEMMA MapRows ==
    ASSUME NEW T, NEW s \in Seq(T), NEW f, DOMAIN f = DOMAIN s, f = [i \in DOMAIN s |-> f[i]],
           \A i \in DOMAIN s : f[i] \in T
    PROVE  f \in Seq(T) /\ Len(f) = Len(s) /\ DOMAIN f = DOMAIN s
<1>1. DOMAIN s = 1 .. Len(s) /\ Len(s) \in Nat
  BY LenProperties
<1>2. f \in [1 .. Len(s) -> T]
  BY <1>1
<1>3. f \in Seq(T)
  BY <1>1, <1>2, IsASeq, SeqDef
<1>4. Len(f) = Len(s)
  BY <1>1, <1>2, <1>3, LenProperties
<1>. QED
  BY <1>3, <1>4

\* INSERT.
LEMMA InsertRow ==
    ASSUME NEW T, NEW s \in Seq(T), NEW e \in T
    PROVE  /\ Append(s, e) \in Seq(T)
           /\ Len(Append(s, e)) = Len(s) + 1
           /\ DOMAIN Append(s, e) = DOMAIN s \cup {Len(s) + 1}
           /\ Append(s, e)[Len(s) + 1] = e
           /\ \A i \in DOMAIN s : Append(s, e)[i] = s[i] /\ i # Len(s) + 1
           /\ Len(s) \in Nat /\ DOMAIN s = 1 .. Len(s)
<1>1. Len(s) \in Nat /\ DOMAIN s = 1 .. Len(s)
  BY LenProperties
<1>2. /\ Append(s, e) \in Seq(T) /\ Len(Append(s, e)) = Len(s) + 1
      /\ \A i \in 1 .. Len(s) : Append(s, e)[i] = s[i]
      /\ Append(s, e)[Len(s) + 1] = e
  BY AppendProperties
<1>3. DOMAIN Append(s, e) = 1 .. Len(s) + 1
  BY <1>2, LenProperties
<1>. QED
  BY <1>1, <1>2, <1>3

\* UPDATE ... SET revoked_at: the sessions in S end, the others stay.
LEMMA RevokedRows ==
    ASSUME ShapeInv, NEW S
    PROVE  /\ Revoked(S) \in Seq(Session) /\ Len(Revoked(S)) = Len(sessions)
           /\ DOMAIN Revoked(S) = DOMAIN sessions
           /\ \A s \in DOMAIN sessions :
                 /\ s \in S => ~Revoked(S)[s].live
                 /\ s \notin S => Revoked(S)[s] = sessions[s]
                 /\ Revoked(S)[s].user = sessions[s].user
<1>1. \A s \in DOMAIN sessions : sessions[s] \in Session
  BY ElementOfSeq, LenProperties DEF ShapeInv
<1>2. 0 \in Hashes
  BY IdentityAssumption DEF Hashes
<1>3. \A s \in DOMAIN sessions : Revoked(S)[s] \in Session
  BY <1>1, <1>2 DEF Revoked, Session
<1>4. DOMAIN Revoked(S) = DOMAIN sessions
      /\ Revoked(S) = [s \in DOMAIN sessions |-> Revoked(S)[s]]
  BY DEF Revoked
<1>5. Revoked(S) \in Seq(Session) /\ Len(Revoked(S)) = Len(sessions)
  BY <1>3, <1>4, MapRows DEF ShapeInv
<1>. QED
  BY <1>1, <1>4, <1>5 DEF Revoked, Session

\* UPDATE ... SET used_at: the links of u are used up.
LEMMA ClosedRows ==
    ASSUME ShapeInv, NEW u
    PROVE  /\ Closed(u) \in Seq(Link) /\ Len(Closed(u)) = Len(links)
           /\ DOMAIN Closed(u) = DOMAIN links
           /\ \A l \in DOMAIN links :
                 /\ links[l].user = u => ~Closed(u)[l].open
                 /\ links[l].user # u => Closed(u)[l] = links[l]
                 /\ Closed(u)[l].user = links[l].user
<1>1. \A l \in DOMAIN links : links[l] \in Link
  BY ElementOfSeq, LenProperties DEF ShapeInv
<1>2. \A l \in DOMAIN links : Closed(u)[l] \in Link
  BY <1>1 DEF Closed, Link
<1>3. DOMAIN Closed(u) = DOMAIN links /\ Closed(u) = [l \in DOMAIN links |-> Closed(u)[l]]
  BY DEF Closed
<1>4. Closed(u) \in Seq(Link) /\ Len(Closed(u)) = Len(links)
  BY <1>2, <1>3, MapRows DEF ShapeInv
<1>. QED
  BY <1>1, <1>3, <1>4 DEF Closed, Link

\* The rows of the tables have their types.
LEMMA RowTypes ==
    ASSUME ShapeInv
    PROVE  /\ \A s \in DOMAIN sessions : sessions[s] \in Session
           /\ \A l \in DOMAIN links : links[l] \in Link
           /\ DOMAIN sessions = 1 .. Len(sessions) /\ Len(sessions) \in 0 .. MaxSessions
           /\ DOMAIN links = 1 .. Len(links) /\ Len(links) \in 0 .. MaxLinks
  BY ElementOfSeq, LenProperties, IdentityAssumption DEF ShapeInv

\* There is a hash that nobody has.
LEMMA FreshHash ==
    ASSUME ShapeInv
    PROVE  Fresh \in 1 .. MaxHashes + 1 /\ \A u \in Users : users[u].hash < Fresh
<1>1. MaxHashes + 1 \in 1 .. MaxHashes + 1
  BY IdentityAssumption
<1>2. \A u \in Users : users[u].hash < MaxHashes + 1
  BY IdentityAssumption DEF ShapeInv, User, Hashes
<1>. QED
  BY <1>1, <1>2 DEF Fresh

(***************************************************************************)
(* Steps that change only the requests, or end sessions                    *)
(***************************************************************************)
\* A request that ends carries nothing.
LEMMA DoneKeeps ==
    ASSUME RequestInv, NEW r \in Requests, Done(r), DOMAIN sessions \subseteq DOMAIN sessions'
    PROVE  RequestInv'
  BY DEF RequestInv, Carries, Done, Idle

\* Nothing but the requests changes.
LEMMA TablesKept ==
    ASSUME Inv, UNCHANGED <<users, sessions, links, edits, restarts>>, up' \in BOOLEAN
    PROVE  ShapeInv' /\ OldPasswordsOpenNothing' /\ LinkInv'
  BY DEF Inv, ShapeInv, OldPasswordsOpenNothing, LinkInv

\* Login reads the password hash of a user.
LEMMA AuthenticateStep ==
    ASSUME Inv, NEW r \in Requests, NEW u \in Users, Authenticate(r, u)
    PROVE  Inv'
<1>1. users[u].hash \in Hashes
  BY DEF Inv, ShapeInv, User
<1>2. RequestInv'
  BY <1>1 DEF Inv, RequestInv, Carries, Authenticate
<1>. QED
  BY <1>2, TablesKept DEF Inv, ShapeInv, Authenticate

\* The middleware reads the profile of a session's user.
LEMMA AuthorizeStep ==
    ASSUME Inv, NEW r \in Requests, NEW s \in DOMAIN sessions, Authorize(r, s)
    PROVE  Inv'
<1>1. sessions[s].user \in Users
  BY RowTypes DEF Inv, Session
<1>2. RequestInv'
  BY <1>1 DEF Inv, RequestInv, Carries, Authorize
<1>. QED
  BY <1>2, TablesKept DEF Inv, ShapeInv, Authorize

\* A request is refused or given up.
LEMMA EndStep ==
    ASSUME Inv, NEW r \in Requests, End(r)
    PROVE  Inv'
<1>1. RequestInv'
  BY DoneKeeps DEF Inv, End
<1>. QED
  BY <1>1, TablesKept DEF Inv, ShapeInv, End

\* ChangePassword has verified the current password.
LEMMA CheckPasswordStep ==
    ASSUME Inv, NEW r \in Requests, CheckPassword(r)
    PROVE  Inv'
<1>1. req[r].user \in Users /\ req[r].session \in DOMAIN sessions
  BY DEF Inv, RequestInv, Carries, CheckPassword, Authorized, Serving
<1>2. req' = [req EXCEPT ![r] = [op |-> "replace_password", user |-> req[r].user,
                                 session |-> req[r].session]]
  BY DEF CheckPassword
<1>3. DOMAIN req = Requests /\ DOMAIN req' = Requests
      /\ sessions' = sessions /\ \A q \in Requests \ {r} : req'[q] = req[q]
  BY <1>2 DEF Inv, RequestInv, CheckPassword
<1>4. Carries(req[r])'
  <2>1. req'[r].op = "replace_password" /\ req'[r].user = req[r].user
        /\ req'[r].session = req[r].session
    BY <1>2, <1>3
  <2>. QED
    BY <1>1, <1>3, <2>1 DEF Carries
<1>5. RequestInv'
  BY <1>3, <1>4 DEF Inv, RequestInv, Carries
<1>. QED
  BY <1>5, TablesKept DEF Inv, ShapeInv, CheckPassword

\* Disable has seen another active SuperAdmin.
LEMMA CheckDisableStep ==
    ASSUME Inv, NEW r \in Requests, NEW u \in Users, CheckDisable(r, u)
    PROVE  Inv'
<1>1. RequestInv'
  BY DEF Inv, RequestInv, Carries, CheckDisable
<1>. QED
  BY <1>1, TablesKept DEF Inv, ShapeInv, CheckDisable

\* An edit disables the user or leaves its status alone.
LEMMA EditFields ==
    ASSUME NEW e \in Edits
    PROVE  e.status \in {"same", "disabled"} /\ e.roles \in RoleSets \cup {{}}
<1>1. CASE e \in {[status |-> "disabled", roles |-> {}, password |-> FALSE],
                  [status |-> "same", roles |-> {}, password |-> TRUE]}
  <2>1. (e.status = "disabled" \/ e.status = "same") /\ e.roles = {}
    BY <1>1
  <2>. QED
    BY <2>1, Zenon
<1>2. CASE \E roles \in RoleSets : e = [status |-> "same", roles |-> roles, password |-> FALSE]
  <2>1. e.status = "same" /\ e.roles \in RoleSets
    BY <1>2
  <2>. QED
    BY <2>1, Zenon
<1>. QED
  BY <1>1, <1>2 DEF Edits

\* Update has checked the fields it will write.
LEMMA CheckUpdateStep ==
    ASSUME Inv, NEW r \in Requests, NEW u \in Users, NEW e \in Edits,
           CheckUpdate(r, u, e.status, e.roles, e.password)
    PROVE  Inv'
<1>1. e.status \in {"same", "disabled"} /\ e.roles \in RoleSets \cup {{}}
  BY EditFields
<1>2. RequestInv'
  BY <1>1 DEF Inv, RequestInv, Carries, CheckUpdate
<1>. QED
  BY <1>2, TablesKept DEF Inv, ShapeInv, CheckUpdate

\* Sessions that end leave the others as they were.
LEMMA SessionsEnd ==
    ASSUME Inv, NEW S, sessions' = Revoked(S), UNCHANGED <<up, users, links, edits, restarts>>
    PROVE  ShapeInv' /\ OldPasswordsOpenNothing' /\ LinkInv' /\ DOMAIN sessions' = DOMAIN sessions
<1>1. ShapeInv' /\ LinkInv' /\ DOMAIN sessions' = DOMAIN sessions
  BY RevokedRows DEF Inv, ShapeInv, LinkInv
<1>2. OldPasswordsOpenNothing'
  BY RevokedRows, <1>1 DEF Inv, OldPasswordsOpenNothing
<1>. QED
  BY <1>1, <1>2

\* The statements that end sessions.
LEMMA RevokeSteps ==
    ASSUME Inv, NEW r \in Requests,
           \/ Logout(r)
           \/ \E s \in DOMAIN sessions : RevokeSecuritySession(r, s)
           \/ RevokeOtherSecuritySessions(r)
    PROVE  Inv'
<1>1. PICK S : sessions' = Revoked(S)
  BY DEF Logout, RevokeSecuritySession, RevokeOtherSecuritySessions
<1>2. Done(r) /\ UNCHANGED <<up, users, links, edits, restarts>>
  BY DEF Logout, RevokeSecuritySession, RevokeOtherSecuritySessions
<1>3. ShapeInv' /\ OldPasswordsOpenNothing' /\ LinkInv' /\ DOMAIN sessions' = DOMAIN sessions
  BY <1>1, <1>2, SessionsEnd
<1>4. RequestInv'
  BY <1>2, <1>3, DoneKeeps DEF Inv
<1>. QED
  BY <1>3, <1>4 DEF Inv

\* A session expires.
LEMMA ExpireStep ==
    ASSUME Inv, NEW s \in DOMAIN sessions, Expire(s)
    PROVE  Inv'
<1>1. ShapeInv' /\ OldPasswordsOpenNothing' /\ LinkInv' /\ DOMAIN sessions' = DOMAIN sessions
  BY SessionsEnd DEF Expire
<1>2. RequestInv'
  BY <1>1 DEF Inv, RequestInv, Carries, Expire
<1>. QED
  BY <1>1, <1>2 DEF Inv

(***************************************************************************)
(* Steps that open sessions, make links and set passwords                  *)
(***************************************************************************)
\* Login inserts its session: with a password that was replaced meanwhile it
\* is marked late.
LEMMA OpenSessionStep ==
    ASSUME Inv, NEW r \in Requests, OpenSession(r)
    PROVE  Inv'
<1>. DEFINE u == req[r].user
            new == [user |-> u, live |-> TRUE, verified |-> req[r].hash,
                    late |-> req[r].hash < users[u].own]
<1>1. u \in Users /\ req[r].hash \in Hashes
  BY DEF Inv, RequestInv, Carries, OpenSession, Serving
<1>2. new \in Session
  BY <1>1 DEF Session
<1>3. sessions' = Append(sessions, new) /\ Len(sessions) < MaxSessions /\ Done(r)
      /\ UNCHANGED <<up, users, links, edits, restarts>>
  BY DEF OpenSession
<1>. HIDE DEF new
<1>4. /\ sessions' \in Seq(Session) /\ Len(sessions') = Len(sessions) + 1
      /\ DOMAIN sessions' = DOMAIN sessions \cup {Len(sessions) + 1}
      /\ sessions'[Len(sessions) + 1] = new
      /\ \A s \in DOMAIN sessions : sessions'[s] = sessions[s]
  BY <1>2, <1>3, InsertRow DEF Inv, ShapeInv
<1>5. ShapeInv' /\ LinkInv'
  BY <1>3, <1>4, RowTypes, IdentityAssumption DEF Inv, ShapeInv, LinkInv
<1>6. RequestInv'
  BY <1>3, <1>4, DoneKeeps DEF Inv
<1>7. new.late \/ new.verified >= users[new.user].own
  <2>1. users[u].own \in Hashes
    BY <1>1 DEF Inv, ShapeInv, User
  <2>2. req[r].hash >= users[u].own \/ req[r].hash < users[u].own
    BY <1>1, <2>1, IdentityAssumption DEF Hashes
  <2>. QED
    BY <2>2 DEF new
<1>8. OldPasswordsOpenNothing'
  BY <1>3, <1>4, <1>7 DEF Inv, OldPasswordsOpenNothing
<1>. QED
  BY <1>5, <1>6, <1>8 DEF Inv

\* A link is made only before the setup, and uses up the earlier ones.
LEMMA CreateTokenStep ==
    ASSUME Inv, NEW r \in Requests, CreateToken(r)
    PROVE  Inv'
<1>. DEFINE u == req[r].user
            new == [user |-> u, open |-> TRUE]
<1>1. u \in Users
  BY DEF Inv, RequestInv, Carries, CreateToken, Permitted, Authorized, Serving
<1>2. new \in Link /\ new.open /\ new.user = u
  BY <1>1 DEF Link
<1>3. links' = Append(Closed(u), new) /\ Len(links) < MaxLinks /\ ~users[u].setup /\ Done(r)
      /\ UNCHANGED <<up, users, sessions, edits, restarts>>
  BY DEF CreateToken
<1>. HIDE DEF new
<1>4. /\ Closed(u) \in Seq(Link) /\ Len(Closed(u)) = Len(links) /\ DOMAIN Closed(u) = DOMAIN links
      /\ \A l \in DOMAIN links :
            /\ links[l].user = u => ~Closed(u)[l].open
            /\ links[l].user # u => Closed(u)[l] = links[l]
            /\ Closed(u)[l].user = links[l].user
  BY ClosedRows DEF Inv
<1>5. /\ links' \in Seq(Link) /\ Len(links') = Len(links) + 1
      /\ DOMAIN links' = DOMAIN links \cup {Len(links) + 1}
      /\ links'[Len(links) + 1] = new
      /\ \A l \in DOMAIN links : links'[l] = Closed(u)[l]
  BY <1>2, <1>3, <1>4, InsertRow
<1>6. ShapeInv'
  BY <1>3, <1>5, RowTypes, IdentityAssumption DEF Inv, ShapeInv
<1>7. RequestInv'
  BY <1>3, DoneKeeps DEF Inv
<1>8. OldPasswordsOpenNothing'
  BY <1>3 DEF Inv, OldPasswordsOpenNothing
<1>9. LinkInv'
  BY <1>2, <1>3, <1>4, <1>5 DEF Inv, LinkInv
<1>. QED
  BY <1>6, <1>7, <1>8, <1>9 DEF Inv

\* UPDATE of one row.
LEMMA LinkReplaced ==
    ASSUME ShapeInv, NEW l \in DOMAIN links, NEW new \in Link, links' = [links EXCEPT ![l] = new]
    PROVE  /\ links' \in Seq(Link) /\ Len(links') = Len(links) /\ DOMAIN links' = DOMAIN links
           /\ links'[l] = new
           /\ \A k \in DOMAIN links : k # l => links'[k] = links[k]
<1>1. links \in Seq(Link) /\ DOMAIN links = 1 .. Len(links)
  BY RowTypes DEF ShapeInv
<1>2. links' \in Seq(Link) /\ Len(links') = Len(links)
      /\ \A k \in 1 .. Len(links) : links'[k] = IF k = l THEN new ELSE links[k]
  BY <1>1, ExceptSeq
<1>. QED
  BY <1>1, <1>2

\* One link is used up or expires.
LEMMA LinkCloses ==
    ASSUME Inv, NEW l \in DOMAIN links, links' = [links EXCEPT ![l].open = FALSE]
    PROVE  /\ links' \in Seq(Link) /\ Len(links') = Len(links) /\ DOMAIN links' = DOMAIN links
           /\ ~links'[l].open
           /\ \A k \in DOMAIN links :
                 links'[k].user = links[k].user /\ (k # l => links'[k] = links[k])
<1>. DEFINE new == [links[l] EXCEPT !.open = FALSE]
<1>1. links[l] \in Link
  BY RowTypes DEF Inv
<1>2. links' = [links EXCEPT ![l] = new]
  OBVIOUS
<1>3. new \in Link /\ new.user = links[l].user
  BY <1>1 DEF Link
<1>4. ~new.open
  BY <1>1 DEF Link
<1>. HIDE DEF new
<1>5. /\ links' \in Seq(Link) /\ Len(links') = Len(links) /\ DOMAIN links' = DOMAIN links
      /\ links'[l] = new /\ \A k \in DOMAIN links : k # l => links'[k] = links[k]
  BY <1>2, <1>3, LinkReplaced, Zenon DEF Inv
<1>. QED
  BY <1>3, <1>4, <1>5, Zenon

\* A link expires.
LEMMA ExpireLinkStep ==
    ASSUME Inv, NEW l \in DOMAIN links, ExpireLink(l)
    PROVE  Inv'
<1>1. ShapeInv'
  BY LinkCloses DEF Inv, ShapeInv, ExpireLink
<1>2. LinkInv'
  BY LinkCloses DEF Inv, LinkInv, ExpireLink
<1>3. RequestInv' /\ OldPasswordsOpenNothing'
  BY DEF Inv, RequestInv, Carries, OldPasswordsOpenNothing, ExpireLink
<1>. QED
  BY <1>1, <1>2, <1>3 DEF Inv

(***************************************************************************)
(* Steps that change a user                                                *)
(***************************************************************************)
\* UPDATE of one row of users.
LEMMA UserReplaced ==
    ASSUME ShapeInv, NEW u \in Users, NEW x \in User, users' = [users EXCEPT ![u] = x]
    PROVE  /\ users' \in [Users -> User] /\ users'[u] = x
           /\ \A v \in Users : v # u => users'[v] = users[v]
  BY DEF ShapeInv

\* An edit of a user that neither sets nor loses the note of its own password,
\* or starts a new row, and never marks the setup as done.
LEMMA UserEdited ==
    ASSUME Inv, NEW u \in Users, NEW x \in User, users' = [users EXCEPT ![u] = x],
           (x.own = users[u].own /\ x.kept = users[u].kept) \/ x.own = 0,
           x.setup => users[u].setup,
           UNCHANGED <<sessions, links>>, up' \in BOOLEAN,
           edits' \in 0 .. MaxEdits, restarts' \in 0 .. MaxRestarts
    PROVE  ShapeInv' /\ OldPasswordsOpenNothing' /\ LinkInv'
<1>1. /\ users' \in [Users -> User] /\ users'[u] = x
      /\ \A v \in Users : v # u => users'[v] = users[v]
  BY UserReplaced DEF Inv
<1>2. ShapeInv'
  BY <1>1 DEF Inv, ShapeInv
<1>3. LinkInv'
  <2>1. \A l \in DOMAIN links : links[l].user \in Users
    BY RowTypes DEF Inv, Link
  <2>2. \A v \in Users : users'[v].setup => users[v].setup
    BY <1>1
  <2>. QED
    BY <2>1, <2>2 DEF Inv, LinkInv
<1>4. OldPasswordsOpenNothing'
  <2>1. \A s \in DOMAIN sessions : sessions[s].user \in Users /\ sessions[s].verified \in Hashes
    BY RowTypes DEF Inv, Session
  <2>2. \A s \in DOMAIN sessions : sessions[s].verified >= 0
    BY <2>1, IdentityAssumption DEF Hashes
  <2>. QED
    BY <1>1, <2>1, <2>2 DEF Inv, OldPasswordsOpenNothing
<1>. QED
  BY <1>2, <1>3, <1>4

\* A row that is inserted: nobody has chosen its password, its setup is not done.
LEMMA NewUser ==
    ASSUME ShapeInv, NEW roles \in RoleSets \cup {{}, {"super_admin"}}, Fresh <= MaxHashes
    PROVE  LET x == [Absent EXCEPT !.status = "active", !.roles = roles, !.hash = Fresh]
           IN  x \in User /\ x.own = 0 /\ ~x.setup
<1>1. Fresh \in Hashes /\ 0 \in Hashes /\ 0 \in 0 .. MaxSessions
  BY FreshHash, IdentityAssumption DEF Hashes
<1>2. Absent \in User /\ Absent.own = 0
  BY <1>1 DEF Absent, User
<1>3. ~Absent.setup
  BY DEF Absent
<1>. DEFINE x == [Absent EXCEPT !.status = "active", !.roles = roles, !.hash = Fresh]
<1>4. x \in User /\ x.own = 0
  BY <1>1, <1>2 DEF User
<1>5. x.setup = Absent.setup
  BY <1>2 DEF User
<1>. QED
  BY <1>3, <1>4, <1>5, Zenon

\* The Manager starts.
LEMMA StartStep ==
    ASSUME Inv, Start
    PROVE  Inv'
<1>1. RequestInv'
  BY DEF Inv, RequestInv, Carries, Start, Idle
<1>2. up' \in BOOLEAN /\ edits' \in 0 .. MaxEdits /\ restarts' \in 0 .. MaxRestarts
      /\ UNCHANGED <<sessions, links>>
  <2>1. up' \in BOOLEAN
    BY Zenon DEF Start
  <2>2. restarts' = restarts + 1 /\ restarts < MaxRestarts /\ UNCHANGED <<sessions, links, edits>>
    BY Zenon DEF Start
  <2>. QED
    BY <2>1, <2>2, IdentityAssumption DEF Inv, ShapeInv
<1>3. ShapeInv' /\ OldPasswordsOpenNothing' /\ LinkInv'
  <2>1. CASE UNCHANGED users
    BY <1>2, <2>1 DEF Inv, ShapeInv, OldPasswordsOpenNothing, LinkInv
  <2>2. CASE /\ Fresh <= MaxHashes
             /\ users' = [users EXCEPT ![Bootstrap] =
                   [Absent EXCEPT !.status = "active", !.roles = {"super_admin"}, !.hash = Fresh]]
    <3>. DEFINE x == [Absent EXCEPT !.status = "active", !.roles = {"super_admin"}, !.hash = Fresh]
    <3>1. x \in User /\ x.own = 0 /\ ~x.setup
      BY <2>2, NewUser, Zenon DEF Inv
    <3>2. users' = [users EXCEPT ![Bootstrap] = x] /\ Bootstrap \in Users
      BY <2>2, IdentityAssumption
    <3>. HIDE DEF x
    <3>. QED
      BY <1>2, <3>1, <3>2, UserEdited
  <2>. QED
    BY <2>1, <2>2 DEF Start
<1>. QED
  BY <1>1, <1>3 DEF Inv

\* An administrator inserts a user.
LEMMA CreateUserStep ==
    ASSUME Inv, NEW r \in Requests, NEW u \in Users, NEW roles \in RoleSets, CreateUser(r, u, roles)
    PROVE  Inv'
<1>. DEFINE x == [Absent EXCEPT !.status = "active", !.roles = roles, !.hash = Fresh]
<1>1. Fresh <= MaxHashes /\ users' = [users EXCEPT ![u] = x] /\ Done(r)
      /\ UNCHANGED <<up, sessions, links, edits, restarts>>
  BY DEF CreateUser
<1>2. x \in User /\ x.own = 0 /\ ~x.setup
  BY <1>1, NewUser, Zenon DEF Inv
<1>. HIDE DEF x
<1>3. ShapeInv' /\ OldPasswordsOpenNothing' /\ LinkInv'
  BY <1>1, <1>2, UserEdited DEF Inv, ShapeInv
<1>4. RequestInv'
  BY <1>1, DoneKeeps DEF Inv
<1>. QED
  BY <1>3, <1>4 DEF Inv

\* The status of a user is written.
LEMMA StatusWritten ==
    ASSUME Inv, NEW r \in Requests, NEW u \in Users, NEW st \in {"active", "disabled"},
           users' = [users EXCEPT ![u].status = st], Edit, Done(r),
           UNCHANGED <<up, sessions, links, restarts>>
    PROVE  Inv'
<1>. DEFINE x == [users[u] EXCEPT !.status = st]
<1>1. users[u] \in User
  BY DEF Inv, ShapeInv
<1>2. users' = [users EXCEPT ![u] = x]
  OBVIOUS
<1>3. x \in User /\ x.own = users[u].own /\ x.kept = users[u].kept
  BY <1>1 DEF User
<1>4. x.setup => users[u].setup
  BY <1>1 DEF User
<1>. HIDE DEF x
<1>5. up' \in BOOLEAN /\ edits' \in 0 .. MaxEdits /\ restarts' \in 0 .. MaxRestarts
  BY IdentityAssumption DEF Inv, ShapeInv, Edit
<1>6. ShapeInv' /\ OldPasswordsOpenNothing' /\ LinkInv'
  BY <1>2, <1>3, <1>4, <1>5, UserEdited, Zenon
<1>7. RequestInv'
  BY DoneKeeps, Zenon DEF Inv
<1>. QED
  BY <1>6, <1>7, Zenon DEF Inv

\* Disable, second half.
LEMMA SetStatusStep ==
    ASSUME Inv, NEW r \in Requests, SetStatus(r)
    PROVE  Inv'
<1>1. req[r].target \in Users /\ req[r].status = "disabled"
  BY DEF Inv, RequestInv, Carries, SetStatus, Serving
<1>. QED
  BY <1>1, StatusWritten, Zenon DEF SetStatus

\* Enable.
LEMMA EnableStep ==
    ASSUME Inv, NEW r \in Requests, NEW u \in Users, Enable(r, u)
    PROVE  Inv'
  BY StatusWritten, Zenon DEF Enable

\* Update, second half.
LEMMA SetUserStep ==
    ASSUME Inv, NEW r \in Requests, SetUser(r)
    PROVE  Inv'
<1>. DEFINE q == req[r]
            u == req[r].target
            x == [users[u] EXCEPT !.status = IF q.status = "same" THEN @ ELSE q.status,
                                  !.roles = IF q.roles = {} THEN @ ELSE q.roles,
                                  !.hash = IF q.password THEN Fresh ELSE @]
<1>1. u \in Users /\ q.status \in {"same", "disabled"} /\ q.roles \in RoleSets \cup {{}}
  BY DEF Inv, RequestInv, Carries, SetUser, Serving
<1>2. users[u] \in User
  BY <1>1 DEF Inv, ShapeInv
<1>3. users' = [users EXCEPT ![u] = x] /\ Edit /\ Done(r)
      /\ UNCHANGED <<up, sessions, links, restarts>>
  BY DEF SetUser
<1>4. (IF q.password THEN Fresh ELSE users[u].hash) \in Hashes
  <2>1. q.password => Fresh <= MaxHashes
    BY DEF SetUser
  <2>2. users[u].hash \in Hashes
    BY <1>2 DEF User
  <2>3. Fresh <= MaxHashes => Fresh \in Hashes
    BY FreshHash, IdentityAssumption DEF Inv, Hashes
  <2>. QED
    BY <2>1, <2>2, <2>3
<1>5. x \in User /\ x.own = users[u].own /\ x.kept = users[u].kept
  BY <1>1, <1>2, <1>4 DEF User
<1>6. x.setup => users[u].setup
  BY <1>2 DEF User
<1>. HIDE DEF x
<1>7. up' \in BOOLEAN /\ edits' \in 0 .. MaxEdits /\ restarts' \in 0 .. MaxRestarts
  BY <1>3, IdentityAssumption DEF Inv, ShapeInv, Edit
<1>8. ShapeInv' /\ OldPasswordsOpenNothing' /\ LinkInv'
  BY <1>1, <1>3, <1>5, <1>6, <1>7, UserEdited, Zenon
<1>9. RequestInv'
  BY <1>3, DoneKeeps DEF Inv
<1>. QED
  BY <1>8, <1>9 DEF Inv

\* A password that fits is stored as a new hash.
LEMMA HashStored ==
    ASSUME Inv, NEW u \in Users, Fresh <= MaxHashes
    PROVE  users[u] \in User /\ Fresh \in Hashes
  BY FreshHash, IdentityAssumption DEF Inv, ShapeInv, Hashes

\* Sessions of users other than u are as good as before when only u's row changes;
\* the sessions of u are those the step leaves it.
LEMMA OthersUnaffected ==
    ASSUME Inv, NEW u \in Users, NEW s \in DOMAIN sessions,
           sessions'[s] = sessions[s], sessions[s].user # u,
           \A v \in Users : v # u => users'[v] = users[v]
    PROVE  sessions'[s].live =>
               \/ sessions'[s].verified >= users'[sessions'[s].user].own
               \/ s = users'[sessions'[s].user].kept
               \/ sessions'[s].late
<1>1. sessions[s].user \in Users
  BY RowTypes DEF Inv, Session
<1>2. users'[sessions[s].user] = users[sessions[s].user]
  BY <1>1
<1>. QED
  BY <1>2 DEF Inv, OldPasswordsOpenNothing

\* ChangePassword, second half: the session that asked is the only one left.
LEMMA ReplacePasswordStep ==
    ASSUME Inv, NEW r \in Requests, ReplacePassword(r)
    PROVE  Inv'
<1>. DEFINE u == req[r].user
            k == req[r].session
            x == [users[u] EXCEPT !.hash = Fresh, !.own = Fresh, !.kept = k]
            S == SessionsOf(u) \ {k}
<1>1. u \in Users /\ k \in DOMAIN sessions
  BY DEF Inv, RequestInv, Carries, ReplacePassword, Serving
<1>2. k \in 0 .. MaxSessions
  BY <1>1, RowTypes, IdentityAssumption DEF Inv
<1>3. /\ Fresh <= MaxHashes /\ users' = [users EXCEPT ![u] = x]
      /\ sessions' = Revoked(S) /\ Done(r) /\ UNCHANGED <<up, links, edits, restarts>>
  BY DEF ReplacePassword
<1>4. x \in User /\ x.own = Fresh /\ x.kept = k
  <2>1. users[u] \in User /\ Fresh \in Hashes
    BY <1>1, <1>3, HashStored
  <2>. QED
    BY <1>2, <2>1 DEF User
<1>5. x.setup = users[u].setup
  BY <1>1 DEF Inv, ShapeInv, User
<1>. HIDE DEF x, S
<1>6. /\ users' \in [Users -> User] /\ users'[u] = x
      /\ \A v \in Users : v # u => users'[v] = users[v]
  BY <1>1, <1>3, <1>4, UserReplaced DEF Inv
<1>7. /\ sessions' \in Seq(Session) /\ Len(sessions') = Len(sessions)
      /\ DOMAIN sessions' = DOMAIN sessions
      /\ \A s \in DOMAIN sessions :
            /\ s \in S => ~sessions'[s].live
            /\ s \notin S => sessions'[s] = sessions[s]
            /\ sessions'[s].user = sessions[s].user
  BY <1>3, RevokedRows DEF Inv
<1>8. ShapeInv'
  BY <1>3, <1>6, <1>7 DEF Inv, ShapeInv
<1>9. RequestInv'
  BY <1>3, <1>7, DoneKeeps DEF Inv
<1>10. LinkInv'
  <2>1. \A l \in DOMAIN links : links[l].user \in Users
    BY RowTypes DEF Inv, Link
  <2>2. \A v \in Users : users'[v].setup = users[v].setup
    BY <1>5, <1>6
  <2>. QED
    BY <1>3, <2>1, <2>2 DEF Inv, LinkInv
<1>11. OldPasswordsOpenNothing'
  <2>. SUFFICES ASSUME NEW s \in DOMAIN sessions
                PROVE  sessions'[s].live =>
                           \/ sessions'[s].verified >= users'[sessions'[s].user].own
                           \/ s = users'[sessions'[s].user].kept
                           \/ sessions'[s].late
    BY <1>7 DEF OldPasswordsOpenNothing
  <2>1. CASE s \in S
    BY <1>7, <2>1
  <2>2. CASE s = k /\ sessions[s].user = u
    BY <1>4, <1>6, <1>7, <2>2
  <2>3. CASE sessions[s].user # u
    BY <1>1, <1>6, <1>7, <2>3, OthersUnaffected DEF S, SessionsOf
  <2>. QED
    BY <2>1, <2>2, <2>3 DEF S, SessionsOf
<1>. QED
  BY <1>8, <1>9, <1>10, <1>11 DEF Inv

\* The holder of a link completes the setup: no session of the user survives, and
\* the link was its only one.
LEMMA CompleteStep ==
    ASSUME Inv, NEW l \in DOMAIN links, Complete(l)
    PROVE  Inv'
<1>. DEFINE u == links[l].user
            k == Len(sessions) + 1
            x == [users[u] EXCEPT !.hash = Fresh, !.setup = TRUE, !.own = Fresh, !.kept = k]
            new == [user |-> u, live |-> TRUE, verified |-> Fresh, late |-> FALSE]
            S == SessionsOf(u)
<1>1. u \in Users /\ Len(sessions) \in Nat
  BY RowTypes DEF Inv, Link
<1>2. /\ Fresh <= MaxHashes /\ Len(sessions) < MaxSessions /\ links[l].open
      /\ users' = [users EXCEPT ![u] = x] /\ sessions' = Append(Revoked(S), new)
      /\ UNCHANGED <<up, req, edits, restarts>>
  BY DEF Complete, Usable
<1>3. links' = [links EXCEPT ![l].open = FALSE]
  BY DEF Complete
<1>4. k \in 0 .. MaxSessions
  BY <1>1, <1>2, IdentityAssumption
<1>5. x \in User /\ x.own = Fresh /\ x.kept = k
  <2>1. users[u] \in User /\ Fresh \in Hashes
    BY <1>1, <1>2, HashStored
  <2>. QED
    BY <1>4, <2>1 DEF User
<1>6. new \in Session /\ new.user = u /\ new.verified = Fresh
  BY <1>1, <1>2, FreshHash, IdentityAssumption DEF Inv, Session, Hashes
<1>. HIDE DEF x, S, new
<1>7. /\ users' \in [Users -> User] /\ users'[u] = x
      /\ \A v \in Users : v # u => users'[v] = users[v]
  BY <1>1, <1>2, <1>5, UserReplaced DEF Inv
<1>8. /\ Revoked(S) \in Seq(Session) /\ Len(Revoked(S)) = Len(sessions)
      /\ DOMAIN Revoked(S) = DOMAIN sessions
      /\ \A s \in DOMAIN sessions :
            /\ s \in S => ~Revoked(S)[s].live
            /\ s \notin S => Revoked(S)[s] = sessions[s]
  BY RevokedRows DEF Inv
<1>9. /\ sessions' \in Seq(Session) /\ Len(sessions') = k
      /\ DOMAIN sessions' = DOMAIN sessions \cup {k} /\ sessions'[k] = new
      /\ \A s \in DOMAIN sessions : sessions'[s] = Revoked(S)[s]
  BY <1>2, <1>6, <1>8, InsertRow
<1>10. /\ links' \in Seq(Link) /\ Len(links') = Len(links) /\ DOMAIN links' = DOMAIN links
       /\ ~links'[l].open
       /\ \A m \in DOMAIN links :
             links'[m].user = links[m].user /\ (m # l => links'[m] = links[m])
  BY <1>3, LinkCloses, Zenon
<1>. HIDE DEF k
<1>11. ShapeInv'
  BY <1>2, <1>4, <1>7, <1>9, <1>10 DEF Inv, ShapeInv
<1>12. RequestInv'
  BY <1>2, <1>9 DEF Inv, RequestInv, Carries
<1>13. LinkInv'
  <2>1. \A m \in DOMAIN links : links[m].user \in Users
    BY RowTypes DEF Inv, Link
  <2>2. \A m \in DOMAIN links : links[m].open /\ links[m].user = u => m = l
    BY <1>2 DEF Inv, LinkInv
  <2>3. \A m \in DOMAIN links : links'[m].open => links[m].open /\ m # l /\ links[m].user # u
    BY <1>10, <2>2
  <2>4. \A m \in DOMAIN links : links'[m].open => users'[links[m].user] = users[links[m].user]
    BY <1>7, <2>1, <2>3
  <2>. QED
    BY <1>10, <2>3, <2>4 DEF Inv, LinkInv
<1>14. OldPasswordsOpenNothing'
  <2>. SUFFICES ASSUME NEW s \in DOMAIN sessions'
                PROVE  sessions'[s].live =>
                           \/ sessions'[s].verified >= users'[sessions'[s].user].own
                           \/ s = users'[sessions'[s].user].kept
                           \/ sessions'[s].late
    BY DEF OldPasswordsOpenNothing
  <2>1. CASE s = k
    BY <1>5, <1>6, <1>7, <1>9, <2>1
  <2>2. CASE s \in DOMAIN sessions /\ s \in S
    BY <1>8, <1>9, <2>2
  <2>3. CASE s \in DOMAIN sessions /\ s \notin S
    BY <1>1, <1>7, <1>8, <1>9, <2>3, OthersUnaffected DEF S, SessionsOf
  <2>. QED
    BY <1>9, <2>1, <2>2, <2>3
<1>. QED
  BY <1>11, <1>12, <1>13, <1>14 DEF Inv

(***************************************************************************)
(* The theorems                                                            *)
(***************************************************************************)
\* The invariant holds when the database is empty.
LEMMA InvInit == IdentityInit => Inv
<1>. SUFFICES ASSUME IdentityInit PROVE Inv
  OBVIOUS
<1>1. Absent \in User
  BY IdentityAssumption DEF Absent, User, Hashes
<1>2. users \in [Users -> User]
  BY <1>1 DEF IdentityInit
<1>3. sessions \in Seq(Session) /\ links \in Seq(Link) /\ Len(sessions) = 0 /\ Len(links) = 0
      /\ DOMAIN sessions = {} /\ DOMAIN links = {}
  BY EmptySeq DEF IdentityInit
<1>4. ShapeInv
  <2>1. up \in BOOLEAN
    BY Zenon DEF IdentityInit
  <2>. QED
    BY <1>2, <1>3, <2>1, IdentityAssumption DEF ShapeInv, IdentityInit
<1>5. RequestInv
  BY DEF RequestInv, Carries, IdentityInit, Idle
<1>6. OldPasswordsOpenNothing /\ LinkInv
  BY <1>3 DEF OldPasswordsOpenNothing, LinkInv
<1>. QED
  BY <1>4, <1>5, <1>6 DEF Inv

\* Every step keeps the invariant.
LEMMA InvNext == Inv /\ [IdentityNext]_identityVars => Inv'
<1>. SUFFICES ASSUME Inv, [IdentityNext]_identityVars PROVE Inv'
  OBVIOUS
<1>1. CASE UNCHANGED identityVars
  BY <1>1 DEF identityVars, Inv, ShapeInv, RequestInv, Carries, OldPasswordsOpenNothing, LinkInv
<1>2. CASE Start
  BY <1>2, StartStep
<1>3. ASSUME NEW r \in Requests, Request(r) PROVE Inv'
  <2>1. CASE UserAdministration(r)
    BY <2>1, CreateUserStep, CheckDisableStep, EnableStep, CheckUpdateStep DEF UserAdministration
  <2>2. CASE Logout(r) \/ RevokeOtherSecuritySessions(r)
             \/ \E s \in DOMAIN sessions : RevokeSecuritySession(r, s)
    BY <2>2, RevokeSteps
  <2>3. CASE (\E u \in Users : Authenticate(r, u)) \/ OpenSession(r)
             \/ (\E s \in DOMAIN sessions : Authorize(r, s)) \/ End(r)
    BY <2>3, AuthenticateStep, OpenSessionStep, AuthorizeStep, EndStep
  <2>4. CASE CreateToken(r) \/ CheckPassword(r) \/ ReplacePassword(r) \/ SetStatus(r) \/ SetUser(r)
    BY <2>4, CreateTokenStep, CheckPasswordStep, ReplacePasswordStep, SetStatusStep, SetUserStep
  <2>. QED
    BY <1>3, <2>1, <2>2, <2>3, <2>4 DEF Request
<1>4. ASSUME NEW l \in DOMAIN links, Complete(l) \/ ExpireLink(l) PROVE Inv'
  BY <1>4, CompleteStep, ExpireLinkStep
<1>5. ASSUME NEW s \in DOMAIN sessions, Expire(s) PROVE Inv'
  BY <1>5, ExpireStep
<1>. QED
  BY <1>1, <1>2, <1>3, <1>4, <1>5 DEF IdentityNext

\* The inductive invariant is an invariant.
LEMMA Invariance == IdentitySpec => []Inv
  BY InvInit, InvNext, PTL DEF IdentitySpec

\* Every table keeps its shape, however logins, setup, password changes and
\* administration interleave.
THEOREM TypeCorrect == IdentitySpec => []IdentityTypeOK
<1>1. Inv => IdentityTypeOK
  BY DEF Inv, ShapeInv, RequestInv, IdentityTypeOK, Link
<1>. QED
  BY <1>1, Invariance, PTL

\* A live session was opened with a password not older than the last one its user
\* chose, made that choice, or belongs to a login that had verified the old one
\* before it was replaced (auth/repository.go, setup/handler.go).
THEOREM OldPasswordsDie == IdentitySpec => []OldPasswordsOpenNothing
<1>1. Inv => OldPasswordsOpenNothing
  BY DEF Inv
<1>. QED
  BY <1>1, Invariance, PTL

\* A user never has two setup links that work, and none once the setup is done
\* (setup/handler.go: Create uses up the earlier ones, Complete its own).
THEOREM OneLink == IdentitySpec => []OneWorkingLink
<1>1. Inv => OneWorkingLink
  <2>. SUFFICES ASSUME Inv, NEW u \in Users
                PROVE  /\ Cardinality({l \in DOMAIN links : links[l].user = u /\ links[l].open}) <= 1
                       /\ users[u].setup =>
                             \A l \in DOMAIN links : links[l].user = u => ~links[l].open
    BY DEF OneWorkingLink
  <2>. DEFINE open == {l \in DOMAIN links : links[l].user = u /\ links[l].open}
  <2>1. \A l, m \in open : l = m
    BY DEF Inv, LinkInv
  <2>2. open = {} \/ \E l : open = {l}
    BY <2>1
  <2>. HIDE DEF open
  <2>3. ASSUME open = {} PROVE Cardinality(open) <= 1
    BY <2>3, FS_EmptySet
  <2>4. ASSUME NEW l, open = {l} PROVE Cardinality(open) <= 1
    BY <2>4, FS_Singleton
  <2>5. users[u].setup => \A l \in DOMAIN links : links[l].user = u => ~links[l].open
    BY DEF Inv, LinkInv
  <2>. QED
    BY <2>2, <2>3, <2>4, <2>5 DEF open
<1>. QED
  BY <1>1, Invariance, PTL

(***************************************************************************)
(* Maintenance, diagnostics and runtime installation on the nodes          *)
(***************************************************************************)
\* The rows of the tables, and what the requests and the Agents keep.
NodeOps == {"start", "stop", "restart", "install", "analyze", "cleanup", "verify"} \cup Profiles
Findings == {"unavailable", "ample", "low", "critical", "absent", "active", "down", "incomplete",
             "expired", "early", "untrusted", "expiring", "valid"}
Found == (SUBSET Artifact) \cup (SUBSET Findings)

JobRow == [node : Nodes, operation : NodeOps, cutoff : Int, candidates : SUBSET Artifact,
           status : JobStatuses, result : Found]
PlanRow == [status : {"planned", "running", "succeeded", "failed", "expired"}, created : Nat,
            cutoff : Int, snapshot : [Nodes -> SUBSET Artifact], confirmed : BOOLEAN]
RunRow == [job : Nat, status : {"queued", "running"} \cup Ended,
           state : {"none", "unknown", "healthy", "degraded", "unhealthy"}]

Waiting == [step : {"waiting"}, cutoff : Int, jobs : SUBSET Nat]
AtRest == [step : {"acquired", "succeeded", "failed"}, plan : Nat]
InSteps == [step : {"cleaning", "verifying"}, plan : Nat, jobs : SUBSET Nat]

ClaimedTask == [job : Nat, step : {"claimed"}]
ReportTask == [job : Nat, step : {"report"}, status : Ended, result : Found]
Installation == [stage : Stages, existing : BOOLEAN, configured : BOOLEAN, failing : BOOLEAN]
InstallTask == [job : Nat, step : {"installing"}, in : Installation]
CleaningTask == [job : Nat, step : {"cleaning"}, left : SUBSET Artifact]

\* Every variable is a sequence of rows, or a function of the nodes.
NodeShape ==
    /\ day \in Nat \ {0}
    /\ artifacts \in [Nodes -> [Versions -> [staged : 0 .. day, backup : 0 .. day]]]
    /\ host \in [Nodes -> Runtime]
    /\ newest \in [Nodes -> SUBSET Versions]
    /\ ready \subseteq Nodes
TableShape ==
    /\ jobs \in Seq(JobRow)
    /\ plans \in Seq(PlanRow)
    /\ runs \in Seq(RunRow)
    /\ sync \subseteq DOMAIN runs
ProcessShape ==
    /\ task \in [Nodes -> {NoTask} \cup ClaimedTask \cup ReportTask \cup InstallTask \cup CleaningTask]
    /\ analysis \in {NoRequest} \cup Waiting
    /\ execution \in {NoRequest} \cup AtRest \cup InSteps

\* The result of a job that has succeeded, or will: one finding, or files.
ResultOf(operation, status, result) ==
    IF operation \in Profiles
    THEN status = "succeeded" => \E found \in Findings : result = {found}
    ELSE result \subseteq Artifact

\* Jobs, the runs of diagnostics, and the tasks of the Agents belong together.
JobInv ==
    /\ \A i \in DOMAIN jobs : ResultOf(jobs[i].operation, jobs[i].status, jobs[i].result)
    /\ \A r \in DOMAIN runs : runs[r].job \in DOMAIN jobs /\ jobs[runs[r].job].operation \in Profiles
    /\ \A r \in sync : jobs[runs[r].job].status \in Ended
TaskOK(n) ==
    task[n] # NoTask =>
        /\ task[n].job \in DOMAIN jobs /\ jobs[task[n].job].node = n
        /\ task[n].step = "report" => ResultOf(Operation(n), task[n].status, task[n].result)

\* How far an installation is tells what the host has.
InstallOK(n) ==
    Working(n, "installing") =>
        /\ Operation(n) = "install"
        /\ task[n].in.stage \in {"prepare", "enable"} => host[n].binary # "none"
        /\ task[n].in.stage = "succeeded" => Startable(host[n])
        /\ n \in ready =>
              task[n].in.stage \in {"check", "verify", "prepare", "enable", "succeeded", "failed"}

\* The backup written last is there, and it is the only one of its time.
BackupOK(n) ==
    \/ newest[n] = {} /\ \A w \in Versions : artifacts[n][w].backup = 0
    \/ \E v \in Versions :
          /\ newest[n] = {v} /\ artifacts[n][v].backup # 0
          /\ \A w \in Versions \ {v} : artifacts[n][w].backup < artifacts[n][v].backup

\* What an Agent is about to remove.
CleaningOK(n) ==
    Working(n, "cleaning") =>
        /\ Operation(n) = "cleanup"
        /\ \A f \in task[n].left :
              /\ f \in jobs[task[n].job].candidates
              /\ Written(n, f) # 0 /\ Written(n, f) < jobs[task[n].job].cutoff
              /\ ~(f.root = "backup" /\ f.version \in newest[n])

\* The candidates of a cleanup come from a confirmed plan.
FromPlan(job) ==
    \E p \in DOMAIN plans :
        /\ plans[p].confirmed /\ plans[p].cutoff = job.cutoff
        /\ job.candidates = plans[p].snapshot[job.node]
CleanupInv == \A i \in DOMAIN jobs : jobs[i].operation = "cleanup" => FromPlan(jobs[i])

\* Of the files that a plan lists these are gone, or newer than the plan.
Gone(p, n, files) == \A f \in files : Written(n, f) = 0 \/ Written(n, f) >= plans[p].created

PlanInv ==
    \A p \in DOMAIN plans :
        /\ plans[p].created <= day
        /\ plans[p].status = "succeeded" => \A n \in Nodes : Gone(p, n, plans[p].snapshot[n])

AnalysisInv ==
    analysis # NoRequest =>
        /\ analysis.jobs \subseteq DOMAIN jobs
        /\ \A i \in analysis.jobs : jobs[i].operation = "analyze"

\* What the verification of a plan has shown so far.
Verifies(p, i) ==
    LET n == jobs[i].node IN
    /\ jobs[i].operation = "verify" /\ jobs[i].candidates = plans[p].snapshot[n]
    /\ jobs[i].status = "succeeded" => Gone(p, n, jobs[i].candidates \ jobs[i].result)
    /\ task[n].job = i /\ task[n].step = "report" /\ task[n].status = "succeeded" =>
          Gone(p, n, jobs[i].candidates \ task[n].result)

ExecutionInv ==
    execution # NoRequest =>
        /\ execution.plan \in DOMAIN plans /\ plans[execution.plan].confirmed
        /\ execution.step = "cleaning" => execution.jobs \subseteq DOMAIN jobs
        /\ execution.step = "verifying" =>
              /\ execution.jobs \subseteq DOMAIN jobs
              /\ \A i \in execution.jobs : Verifies(execution.plan, i)
              /\ \A n \in Nodes : \E i \in execution.jobs : jobs[i].node = n
        /\ execution.step = "succeeded" =>
              \A n \in Nodes : Gone(execution.plan, n, plans[execution.plan].snapshot[n])

AgentInv == \A n \in Nodes : TaskOK(n) /\ InstallOK(n) /\ CleaningOK(n)
HostInv == ReadyStaysStartable /\ \A n \in Nodes : BackupOK(n)

\* The inductive invariant.
NodeInv ==
    /\ NodeShape /\ TableShape /\ ProcessShape
    /\ JobInv /\ AgentInv /\ HostInv
    /\ CleanupInv /\ PlanInv /\ AnalysisInv /\ ExecutionInv

(***************************************************************************)
(* Rows                                                                    *)
(***************************************************************************)
\* A row of a sequence is replaced by one of the same kind.
LEMMA RowReplaced ==
    ASSUME NEW S, NEW s \in Seq(S), NEW i \in DOMAIN s, NEW row \in S,
           NEW t, t = [s EXCEPT ![i] = row]
    PROVE  /\ t \in Seq(S) /\ DOMAIN t = DOMAIN s /\ Len(t) = Len(s)
           /\ t[i] = row /\ \A j \in DOMAIN s \ {i} : t[j] = s[j]
<1>1. Len(s) \in Nat /\ DOMAIN s = 1 .. Len(s) /\ s \in [1 .. Len(s) -> S]
  BY LenProperties
<1>2. t \in [1 .. Len(s) -> S]
  BY <1>1
<1>3. t \in Seq(S) /\ Len(t) = Len(s)
  BY <1>1, <1>2, LenProperties, IsASeq
<1> QED
  BY <1>1, <1>2, <1>3

\* Rows are added at the end of a table.
LEMMA RowsAdded ==
    ASSUME NEW S, NEW s \in Seq(S), NEW t \in Seq(S)
    PROVE  /\ s \o t \in Seq(S) /\ DOMAIN (s \o t) = 1 .. Len(s) + Len(t)
           /\ Len(s) \in Nat /\ Len(t) \in Nat
           /\ DOMAIN s = 1 .. Len(s) /\ DOMAIN t = 1 .. Len(t)
           /\ \A i \in 1 .. Len(s) : (s \o t)[i] = s[i]
           /\ \A i \in 1 .. Len(t) : (s \o t)[Len(s) + i] = t[i]
<1>1. Len(s) \in Nat /\ Len(t) \in Nat /\ DOMAIN s = 1 .. Len(s) /\ DOMAIN t = 1 .. Len(t)
  BY LenProperties
<1>2. s \o t \in Seq(S) /\ Len(s \o t) = Len(s) + Len(t)
      /\ \A i \in 1 .. Len(s) + Len(t) :
            (s \o t)[i] = IF i <= Len(s) THEN s[i] ELSE t[i - Len(s)]
  BY ConcatProperties
<1>3. DOMAIN (s \o t) = 1 .. Len(s) + Len(t)
  BY <1>2, LenProperties
<1>4. \A i \in 1 .. Len(s) : (s \o t)[i] = s[i]
  BY <1>1, <1>2
<1>5. ASSUME NEW i \in 1 .. Len(t) PROVE (s \o t)[Len(s) + i] = t[i]
  <2>1. Len(s) + i \in 1 .. Len(s) + Len(t) /\ ~(Len(s) + i <= Len(s)) /\ (Len(s) + i) - Len(s) = i
    BY <1>1
  <2> QED
    BY <1>2, <2>1
<1> QED
  BY <1>1, <1>2, <1>3, <1>4, <1>5

\* One row is added.
LEMMA RowAdded ==
    ASSUME NEW S, NEW s \in Seq(S), NEW row \in S, NEW t, t = Append(s, row)
    PROVE  /\ t \in Seq(S) /\ DOMAIN t = DOMAIN s \cup {Len(s) + 1}
           /\ Len(s) \in Nat /\ DOMAIN s = 1 .. Len(s)
           /\ t[Len(s) + 1] = row
           /\ \A i \in DOMAIN s : t[i] = s[i]
<1>1. Len(s) \in Nat /\ DOMAIN s = 1 .. Len(s)
  BY LenProperties
<1>2. t \in Seq(S) /\ Len(t) = Len(s) + 1 /\ \A i \in 1 .. Len(s) : t[i] = s[i]
      /\ t[Len(s) + 1] = row
  BY AppendProperties
<1>3. DOMAIN t = 1 .. Len(s) + 1
  BY <1>2, LenProperties
<1> QED
  BY <1>1, <1>2, <1>3

\* The nodes in their order: each one occurs.
LEMMA OrderOfNodes ==
    /\ Cardinality(Nodes) \in Nat
    /\ NodeOrder \in [1 .. Cardinality(Nodes) -> Nodes]
    /\ \A n \in Nodes : \E i \in 1 .. Cardinality(Nodes) : NodeOrder[i] = n
<1> DEFINE k == Cardinality(Nodes)
<1>1. IsFiniteSet(Nodes) /\ k \in Nat
  BY FS_CardinalityType, ConstantsAssumption
<1>2. Bijection(1 .. k, Nodes) # {}
  BY <1>1, FS_CardinalityType DEF ExistsBijection
<1>3. \E f \in [1 .. k -> Nodes] : \A i, j \in DOMAIN f : f[i] = f[j] => i = j
  BY <1>2 DEF Bijection, Injection, Surjection, IsInjective
<1>4. NodeOrder \in [1 .. k -> Nodes] /\ \A i, j \in DOMAIN NodeOrder : NodeOrder[i] = NodeOrder[j] => i = j
  BY <1>3 DEF NodeOrder
<1>5. NodeOrder \in Injection(1 .. k, Nodes)
  BY <1>4 DEF Injection, IsInjective
<1> DEFINE image == {NodeOrder[i] : i \in 1 .. k}
<1>6. image \subseteq Nodes /\ NodeOrder \in Bijection(1 .. k, image)
  BY <1>4 DEF Bijection, Injection, Surjection, IsInjective
<1>7. IsFiniteSet(1 .. k) /\ Cardinality(1 .. k) = k
  BY <1>1, FS_Interval
<1>8. Cardinality(image) = k
  BY <1>6, <1>7, FS_Bijection DEF ExistsBijection
<1>9. image = Nodes
  BY <1>1, <1>6, <1>8, FS_Subset
<1> QED
  BY <1>1, <1>4, <1>9

(***************************************************************************)
(* What a step keeps                                                       *)
(***************************************************************************)
\* Jobs get another status and result, plans another status; files are
\* removed or written again.
JobsKept ==
    /\ DOMAIN jobs \subseteq DOMAIN jobs'
    /\ \A i \in DOMAIN jobs :
          /\ jobs'[i].node = jobs[i].node /\ jobs'[i].operation = jobs[i].operation
          /\ jobs'[i].cutoff = jobs[i].cutoff /\ jobs'[i].candidates = jobs[i].candidates
PlansKept ==
    /\ DOMAIN plans \subseteq DOMAIN plans'
    /\ \A p \in DOMAIN plans :
          /\ plans'[p].created = plans[p].created /\ plans'[p].cutoff = plans[p].cutoff
          /\ plans'[p].snapshot = plans[p].snapshot
          /\ plans[p].confirmed => plans'[p].confirmed
FilesKept ==
    \A n \in Nodes, f \in Artifact :
        Written(n, f)' = Written(n, f) \/ Written(n, f)' = 0 \/ Written(n, f)' >= day

\* What a verification has found is taken from the disk to the report, and
\* from the report to the job.
ReportsKept ==
    \A n \in Nodes :
        /\ task'[n].job \in DOMAIN jobs /\ jobs[task'[n].job].operation = "verify"
        /\ task'[n].step = "report" /\ task'[n].status = "succeeded"
        => \/ task'[n] = task[n]
           \/ task'[n].result = jobs[task'[n].job].candidates \cap OnDisk(n)
ResultsKept ==
    \A i \in DOMAIN jobs :
        jobs[i].operation = "verify" /\ jobs'[i].status = "succeeded" =>
            \/ jobs[i].status = "succeeded" /\ jobs'[i].result = jobs[i].result
            \/ LET n == jobs[i].node IN
               /\ task[n].job = i /\ task[n].step = "report" /\ task[n].status = "succeeded"
               /\ jobs'[i].result = task[n].result

\* The rows of the tables.
LEMMA Rows ==
    ASSUME TableShape
    PROVE  /\ \A i \in DOMAIN jobs : jobs[i] \in JobRow
           /\ \A p \in DOMAIN plans : plans[p] \in PlanRow
           /\ \A r \in DOMAIN runs : runs[r] \in RunRow
           /\ DOMAIN jobs = 1 .. Len(jobs) /\ Len(jobs) \in Nat
           /\ DOMAIN plans = 1 .. Len(plans) /\ Len(plans) \in Nat
           /\ DOMAIN runs = 1 .. Len(runs) /\ Len(runs) \in Nat
  BY ElementOfSeq, LenProperties DEF TableShape

\* When a file is written, in numbers.
LEMMA FileTime ==
    ASSUME NEW d \in Nat,
           NEW files \in [Nodes -> [Versions -> [staged : 0 .. d, backup : 0 .. d]]],
           NEW n \in Nodes, NEW f \in Artifact
    PROVE  files[n][f.version][f.root] \in 0 .. d
<1>1. files[n][f.version] \in [staged : 0 .. d, backup : 0 .. d]
  BY DEF Artifact
<1>2. f.root = "staged" \/ f.root = "backup"
  BY DEF Artifact
<1> QED
  BY <1>1, <1>2

\* A file on disk was written no later than now.
LEMMA WrittenType ==
    ASSUME NodeShape, NEW n \in Nodes, NEW f \in Artifact
    PROVE  Written(n, f) \in Nat /\ Written(n, f) <= day /\ day \in Nat
<1>1. /\ day \in Nat
      /\ artifacts \in [Nodes -> [Versions -> [staged : 0 .. day, backup : 0 .. day]]]
  BY DEF NodeShape
<1>2. artifacts[n][f.version][f.root] \in 0 .. day
  BY <1>1, FileTime
<1> QED
  BY <1>1, <1>2 DEF Written

\* Files that are gone stay gone, or are newer than the plan.
LEMMA GoneKept ==
    ASSUME NEW p \in DOMAIN plans, plans[p].created <= day, PlansKept, FilesKept,
           NodeShape, NodeShape', plans[p].created \in Nat,
           NEW n \in Nodes, NEW files \in SUBSET Artifact, Gone(p, n, files)
    PROVE  Gone(p, n, files)'
<1> SUFFICES ASSUME NEW f \in files
             PROVE  Written(n, f)' = 0 \/ Written(n, f)' >= plans'[p].created
  BY DEF Gone
<1>0. f \in Artifact
  OBVIOUS
<1>1. Written(n, f) = 0 \/ Written(n, f) >= plans[p].created
  BY DEF Gone
<1>2. Written(n, f) \in Nat /\ Written(n, f)' \in Nat /\ day \in Nat
  <2>1. day \in Nat /\ day' \in Nat
    BY DEF NodeShape
  <2>2. Written(n, f) \in Nat
    BY WrittenType
  <2>3. artifacts' \in [Nodes -> [Versions -> [staged : 0 .. day', backup : 0 .. day']]]
    BY DEF NodeShape
  <2>4. artifacts'[n][f.version][f.root] \in 0 .. day'
    BY <1>0, <2>1, <2>3, FileTime
  <2>5. Written(n, f)' \in 0 .. day'
    BY <2>4 DEF Written
  <2> QED
    BY <2>1, <2>2, <2>5
<1>3. plans'[p].created = plans[p].created
  BY DEF PlansKept
<1>4. Written(n, f)' = Written(n, f) \/ Written(n, f)' = 0 \/ Written(n, f)' >= day
  BY DEF FilesKept
<1> QED
  BY <1>1, <1>2, <1>3, <1>4

\* Cleanups stay cleanups of a confirmed plan.
LEMMA CleanupKept ==
    ASSUME CleanupInv, JobsKept, PlansKept,
           \A i \in DOMAIN jobs' \ DOMAIN jobs :
              jobs'[i].operation = "cleanup" => FromPlan(jobs[i])'
    PROVE  CleanupInv'
<1> SUFFICES ASSUME NEW i \in DOMAIN jobs', jobs'[i].operation = "cleanup"
             PROVE  FromPlan(jobs[i])'
  BY DEF CleanupInv
<1>1. CASE i \in DOMAIN jobs
  <2>1. jobs[i].operation = "cleanup"
    BY <1>1 DEF JobsKept
  <2>2. PICK p \in DOMAIN plans :
           /\ plans[p].confirmed /\ plans[p].cutoff = jobs[i].cutoff
           /\ jobs[i].candidates = plans[p].snapshot[jobs[i].node]
    BY <1>1, <2>1 DEF CleanupInv, FromPlan
  <2> QED
    BY <1>1, <2>2 DEF JobsKept, PlansKept, FromPlan
<1> QED
  BY <1>1

\* Plans are not from the future, and those that have succeeded keep their word.
LEMMA PlanKept ==
    ASSUME PlanInv, TableShape, NodeShape, NodeShape', PlansKept, FilesKept, day <= day',
           \A p \in DOMAIN plans :
              plans'[p].status = "succeeded" =>
                 \/ plans[p].status = "succeeded"
                 \/ \A n \in Nodes : Gone(p, n, plans[p].snapshot[n]),
           \A p \in DOMAIN plans' \ DOMAIN plans :
              plans'[p].created <= day' /\ plans'[p].status # "succeeded"
    PROVE  PlanInv'
<1> SUFFICES ASSUME NEW p \in DOMAIN plans'
             PROVE  /\ plans'[p].created <= day'
                    /\ plans'[p].status = "succeeded" =>
                          \A n \in Nodes : Gone(p, n, plans[p].snapshot[n])'
  BY DEF PlanInv
<1>1. CASE p \in DOMAIN plans
  <2>1. plans[p] \in PlanRow /\ plans[p].created <= day /\ plans'[p].created = plans[p].created
        /\ plans'[p].snapshot = plans[p].snapshot
    BY <1>1, Rows DEF PlanInv, PlansKept
  <2>2. plans[p].created \in Nat /\ day \in Nat /\ day' \in Nat
        /\ \A n \in Nodes : plans[p].snapshot[n] \in SUBSET Artifact
    BY <2>1 DEF PlanRow, NodeShape
  <2>3. ASSUME plans'[p].status = "succeeded", NEW n \in Nodes
        PROVE  Gone(p, n, plans[p].snapshot[n])'
    <3> DEFINE files == plans[p].snapshot[n]
    <3>1. Gone(p, n, files)
      BY <1>1, <2>3 DEF PlanInv
    <3>2. files \in SUBSET Artifact
      BY <2>2
    <3>3. \A f \in files : Written(n, f)' = 0 \/ Written(n, f)' >= plans'[p].created
      BY <1>1, <2>1, <2>2, <3>1, <3>2, GoneKept DEF Gone
    <3> QED
      BY <2>1, <3>3 DEF Gone
  <2> QED
    BY <2>1, <2>2, <2>3
<1> QED
  BY <1>1

\* A request that waits for an analysis.
LEMMA AnalysisKept ==
    ASSUME AnalysisInv, JobsKept, analysis' = analysis
    PROVE  AnalysisInv'
<1> SUFFICES ASSUME analysis # NoRequest
             PROVE  /\ analysis.jobs \subseteq DOMAIN jobs'
                    /\ \A i \in analysis.jobs : jobs'[i].operation = "analyze"
  BY DEF AnalysisInv
<1> QED
  BY DEF AnalysisInv, JobsKept

\* What a verification has shown stays true.
LEMMA VerifiesKept ==
    ASSUME NodeShape, NodeShape', TableShape, PlanInv, JobsKept, PlansKept, FilesKept,
           ReportsKept, ResultsKept,
           NEW p \in DOMAIN plans, NEW i \in DOMAIN jobs, Verifies(p, i)
    PROVE  Verifies(p, i)'
<1> DEFINE n == jobs[i].node
           C == jobs[i].candidates
<1>1. /\ n \in Nodes /\ C \in SUBSET Artifact
      /\ plans[p].created \in Nat /\ plans[p].created <= day
  BY Rows DEF JobRow, PlanRow, PlanInv
<1>2. /\ jobs'[i].node = n /\ jobs'[i].candidates = C
      /\ jobs[i].operation = "verify" /\ jobs'[i].operation = "verify"
      /\ C = plans[p].snapshot[n] /\ plans'[p].snapshot = plans[p].snapshot
  BY DEF JobsKept, PlansKept, Verifies
<1>3. ASSUME NEW found, Gone(p, n, C \ found)
      PROVE  Gone(p, n, C \ found)'
  <2> DEFINE files == C \ found
  <2>1. files \in SUBSET Artifact /\ Gone(p, n, files)
    BY <1>1, <1>3
  <2>2. n \in Nodes
    BY <1>1
  <2> HIDE DEF files, n
  <2>3. \A f \in files : artifacts'[n][f.version][f.root] = 0
                         \/ artifacts'[n][f.version][f.root] >= plans'[p].created
    BY <1>1, <2>1, <2>2, GoneKept DEF Gone, Written
  <2>4. n' = n /\ files' = files
    BY <1>2 DEF n, files
  <2> QED
    BY <2>3, <2>4 DEF Gone, Written, files
<1>4. ASSUME jobs'[i].status = "succeeded"
      PROVE  Gone(p, n, C \ jobs[i].result)'
  <2>1. CASE jobs[i].status = "succeeded" /\ jobs'[i].result = jobs[i].result
    <3>1. Gone(p, n, C \ jobs[i].result)
      BY <2>1 DEF Verifies
    <3> QED
      BY <2>1, <3>1, <1>3
  <2>2. CASE /\ task[n].job = i /\ task[n].step = "report" /\ task[n].status = "succeeded"
             /\ jobs'[i].result = task[n].result
    <3>1. Gone(p, n, C \ task[n].result)
      BY <2>2 DEF Verifies
    <3> QED
      BY <1>2, <2>2, <3>1, <1>3
  <2> QED
    BY <1>2, <1>4, <2>1, <2>2 DEF ResultsKept
<1>5. ASSUME task'[n].job = i, task'[n].step = "report", task'[n].status = "succeeded"
      PROVE  Gone(p, n, C \ task[n].result)'
  <2>1. CASE task'[n] = task[n]
    <3>1. Gone(p, n, C \ task[n].result)
      BY <1>5, <2>1 DEF Verifies
    <3> QED
      BY <1>2, <2>1, <3>1, <1>3
  <2>2. CASE task'[n].result = C \cap OnDisk(n)
    <3>1. Gone(p, n, C \ (C \cap OnDisk(n)))
      BY <1>1 DEF Gone, OnDisk
    <3> QED
      BY <1>2, <2>2, <3>1, <1>3
  <2> QED
    BY <1>1, <1>2, <1>5, <2>1, <2>2 DEF ReportsKept
<1> QED
  BY <1>2, <1>4, <1>5 DEF Verifies

\* A request that executes a plan.
LEMMA ExecutionKept ==
    ASSUME NodeShape, NodeShape', TableShape, PlanInv, JobsKept, PlansKept, FilesKept,
           ReportsKept, ResultsKept, ExecutionInv, execution' = execution
    PROVE  ExecutionInv'
<1> SUFFICES ASSUME execution # NoRequest
             PROVE  ExecutionInv'
  BY DEF ExecutionInv
<1> DEFINE p == execution.plan
<1>1. /\ p \in DOMAIN plans /\ plans[p].confirmed
      /\ p \in DOMAIN plans' /\ plans'[p].confirmed /\ plans'[p].snapshot = plans[p].snapshot
      /\ DOMAIN jobs \subseteq DOMAIN jobs'
  BY DEF ExecutionInv, PlansKept, JobsKept
<1>2. execution.step = "cleaning" => execution.jobs \subseteq DOMAIN jobs'
  BY <1>1 DEF ExecutionInv
<1>3. ASSUME execution.step = "verifying"
      PROVE  /\ execution.jobs \subseteq DOMAIN jobs'
             /\ \A i \in execution.jobs : Verifies(p, i)'
             /\ \A n \in Nodes : \E i \in execution.jobs : jobs'[i].node = n
  <2>1. /\ execution.jobs \subseteq DOMAIN jobs
        /\ \A i \in execution.jobs : Verifies(p, i)
        /\ \A n \in Nodes : \E i \in execution.jobs : jobs[i].node = n
    BY <1>3 DEF ExecutionInv
  <2>2. ASSUME NEW i \in execution.jobs PROVE Verifies(p, i)'
    <3>1. i \in DOMAIN jobs /\ Verifies(p, i) /\ p' = p
      BY <2>1
    <3> HIDE DEF p
    <3> QED
      BY <1>1, <3>1, VerifiesKept
  <2> QED
    BY <1>1, <2>1, <2>2 DEF JobsKept
<1>4. ASSUME execution.step = "succeeded", NEW n \in Nodes
      PROVE  Gone(p, n, plans[p].snapshot[n])'
  <2> DEFINE files == plans[p].snapshot[n]
  <2>1. plans[p] \in PlanRow
    BY <1>1, Rows
  <2>2. files \in SUBSET Artifact /\ plans[p].created \in Nat /\ plans[p].created <= day
    BY <1>1, <2>1 DEF PlanRow, PlanInv
  <2>3. Gone(p, n, files)
    BY <1>4 DEF ExecutionInv
  <2>4. files' = files /\ p' = p
    BY <1>1
  <2> HIDE DEF files, p
  <2>5. Gone(p, n, files)'
    BY <1>1, <2>2, <2>3, <2>4, GoneKept
  <2> QED
    BY <2>5 DEF files
<1> QED
  BY <1>1, <1>2, <1>3, <1>4 DEF ExecutionInv

\* Nodes whose Agent and host are left alone.
LEMMA AgentKept ==
    ASSUME NEW n \in Nodes, TaskOK(n), InstallOK(n), CleaningOK(n), JobsKept,
           task'[n] = task[n], host'[n] = host[n], artifacts'[n] = artifacts[n],
           newest'[n] = newest[n], n \in ready' => n \in ready
    PROVE  TaskOK(n)' /\ InstallOK(n)' /\ CleaningOK(n)'
<1>1. task[n] # NoTask =>
        /\ task[n].job \in DOMAIN jobs /\ task[n].job \in DOMAIN jobs'
        /\ jobs'[task[n].job].node = jobs[task[n].job].node
        /\ jobs'[task[n].job].operation = jobs[task[n].job].operation
        /\ jobs'[task[n].job].candidates = jobs[task[n].job].candidates
        /\ jobs'[task[n].job].cutoff = jobs[task[n].job].cutoff
  BY DEF TaskOK, JobsKept
<1>2. TaskOK(n)'
  BY <1>1 DEF TaskOK, Operation
<1>3. InstallOK(n)'
  BY <1>1 DEF InstallOK, Working, Operation
<1>4. CleaningOK(n)'
  BY <1>1 DEF CleaningOK, Working, Operation, Written
<1> QED
  BY <1>2, <1>3, <1>4

\* An Agent without a task, or with one that it has only claimed.
LEMMA AgentIdle ==
    ASSUME NEW n \in Nodes,
           task'[n] = NoTask
           \/ (/\ task'[n].step = "claimed" /\ task'[n].job \in DOMAIN jobs'
               /\ jobs'[task'[n].job].node = n)
    PROVE  TaskOK(n)' /\ InstallOK(n)' /\ CleaningOK(n)'
  BY DEF TaskOK, InstallOK, CleaningOK, Working

\* The part of the invariant that a step leaves alone unless it works on a plan.
LEMMA RequestsKept ==
    ASSUME NodeInv, NodeShape', JobsKept, PlansKept, FilesKept, ReportsKept, ResultsKept,
           UNCHANGED <<plans, analysis, execution>>, day <= day',
           \A i \in DOMAIN jobs' \ DOMAIN jobs : jobs'[i].operation # "cleanup"
    PROVE  CleanupInv' /\ PlanInv' /\ AnalysisInv' /\ ExecutionInv'
<1>1. CleanupInv'
  BY CleanupKept DEF NodeInv
<1>2. PlanInv'
  BY PlanKept DEF NodeInv
<1>3. AnalysisInv'
  BY AnalysisKept DEF NodeInv
<1>4. ExecutionInv'
  BY ExecutionKept DEF NodeInv
<1> QED
  BY <1>1, <1>2, <1>3, <1>4

\* An Agent works on its own: nothing but its task and its host changes.
LEMMA AgentWorks ==
    ASSUME NodeInv, NEW n \in Nodes, NodeShape', ProcessShape',
           UNCHANGED <<day, jobs, plans, analysis, execution, runVars>>,
           \A m \in Nodes \ {n} :
              /\ task'[m] = task[m] /\ host'[m] = host[m]
              /\ artifacts'[m] = artifacts[m] /\ newest'[m] = newest[m],
           ready' \subseteq ready \cup {n}, n \in ready' => Startable(host[n])',
           TaskOK(n)', InstallOK(n)', CleaningOK(n)', BackupOK(n)', FilesKept, ReportsKept
    PROVE  NodeInv'
<1>1. JobsKept /\ PlansKept /\ ResultsKept
  BY DEF JobsKept, PlansKept, ResultsKept
<1>2. CleanupInv' /\ PlanInv' /\ AnalysisInv' /\ ExecutionInv'
  <2>1. day <= day' /\ \A i \in DOMAIN jobs' \ DOMAIN jobs : jobs'[i].operation # "cleanup"
    BY DEF NodeInv, NodeShape
  <2> QED
    BY <1>1, <2>1, RequestsKept
<1>3. TableShape' /\ JobInv'
  BY DEF NodeInv, TableShape, JobInv, runVars
<1>4. AgentInv'
  <2>1. ASSUME NEW m \in Nodes \ {n} PROVE TaskOK(m)' /\ InstallOK(m)' /\ CleaningOK(m)'
    BY <1>1, AgentKept DEF NodeInv, AgentInv
  <2> QED
    BY <2>1 DEF AgentInv
<1>5. HostInv'
  <2>1. ASSUME NEW m \in Nodes \ {n} PROVE BackupOK(m)'
    BY DEF NodeInv, HostInv, BackupOK
  <2>2. ASSUME NEW m \in ready', m # n PROVE Startable(host[m])'
    <3>1. m \in Nodes \ {n} /\ m \in ready
      BY <2>2 DEF NodeShape
    <3> QED
      BY <3>1 DEF NodeInv, HostInv, ReadyStaysStartable, Startable
  <2> QED
    BY <2>1, <2>2 DEF HostInv, ReadyStaysStartable
<1> QED
  BY <1>2, <1>3, <1>4, <1>5 DEF NodeInv

(***************************************************************************)
(* The start                                                               *)
(***************************************************************************)
\* The relation < on the natural numbers, as a set of pairs.
LEMMA LessThan == \A x, y \in Nat : <<y, x>> \in OpToRel(<, Nat) <=> y < x
<1>1. ASSUME NEW x \in Nat, NEW y \in Nat
      PROVE  <<y, x>> \in OpToRel(<, Nat) <=> y < x
  BY DEF OpToRel
<1> QED
  BY <1>1

\* A set of natural numbers has a least one.
LEMMA LeastNumber ==
    ASSUME NEW T \in SUBSET Nat, T # {}
    PROVE  \E x \in T : \A y \in T : x <= y
<1> DEFINE R == OpToRel(<, Nat)
<1>1. IsWellFoundedOn(R, Nat)
  BY NatLessThanWellFounded
<1>2. \A x, y \in Nat : <<y, x>> \in R <=> y < x
  BY LessThan
<1> HIDE DEF R
<1>3. PICK x \in T : \A y \in T : ~(<<y, x>> \in R)
  BY <1>1, WFMin, Zenon
<1>4. \A y \in T : ~(y < x)
  BY <1>2, <1>3, Zenon
<1>5. \A y \in T : x <= y
  BY <1>4
<1> QED
  BY <1>5

\* A bounded one has a greatest.
LEMMA GreatestNumber ==
    ASSUME NEW T \in SUBSET Nat, T # {}, NEW b \in Nat, \A t \in T : t <= b
    PROVE  \E x \in T : \A y \in T : y <= x
<1> DEFINE D == {b - t : t \in T}
<1>1. D \in SUBSET Nat /\ D # {}
  <2>1. \A t \in T : b - t \in Nat
    OBVIOUS
  <2>2. \E t \in T : b - t \in D
    OBVIOUS
  <2> QED
    BY <2>1, <2>2
<1>2. PICK d \in D : \A e \in D : d <= e
  BY <1>1, LeastNumber, Zenon
<1>3. PICK x \in T : d = b - x
  OBVIOUS
<1>4. \A y \in T : b - x <= b - y
  BY <1>2, <1>3
<1> QED
  BY <1>4

\* The last backup, found by its time.
LEMMA LastBackupFound ==
    ASSUME NEW d \in Nat, NEW files \in [Versions -> [staged : 0 .. d, backup : 0 .. d]],
           \A v, w \in Versions : files[v].backup = files[w].backup /\ v # w => files[v].backup = 0
    PROVE  \/ LastBackup(files) = {} /\ \A w \in Versions : files[w].backup = 0
           \/ \E v \in Versions :
                 /\ LastBackup(files) = {v} /\ files[v].backup # 0
                 /\ \A w \in Versions \ {v} : files[w].backup < files[v].backup
<1> DEFINE backups == {v \in Versions : files[v].backup # 0}
           times == {files[v].backup : v \in backups}
           last == CHOOSE v \in backups : \A w \in backups : files[w].backup <= files[v].backup
<1>0. \A v \in Versions : files[v].backup \in Nat /\ files[v].backup <= d
  OBVIOUS
<1>1. CASE backups = {}
  BY <1>0, <1>1 DEF LastBackup
<1>2. CASE backups # {}
  <2>1. times \in SUBSET Nat /\ times # {} /\ \A t \in times : t <= d
    BY <1>0, <1>2
  <2>2. \E x \in times : \A y \in times : y <= x
    <3> HIDE DEF times
    <3> QED
      BY <2>1, GreatestNumber
  <2>3. \E v \in backups : \A w \in backups : files[w].backup <= files[v].backup
    BY <2>2
  <2>4. last \in backups /\ \A w \in backups : files[w].backup <= files[last].backup
    BY <2>3
  <2>5. LastBackup(files) = {last}
    BY <1>2 DEF LastBackup
  <2> HIDE DEF last
  <2>6. ASSUME NEW w \in Versions \ {last} PROVE files[w].backup < files[last].backup
    <3>1. files[w].backup # files[last].backup
      BY <2>4
    <3> QED
      BY <1>0, <2>4, <3>1
  <2> QED
    BY <2>4, <2>5, <2>6
<1> QED
  BY <1>1, <1>2

\* Every scenario starts in the invariant.
LEMMA InitInv == Init => NodeInv
<1> SUFFICES ASSUME Init PROVE NodeInv
  OBVIOUS
<1>1. PICK s \in Scenarios : day = s.day /\ artifacts = s.artifacts /\ host = s.host
  BY DEF Init
<1>2. /\ day \in Nat \ {0} /\ host \in [Nodes -> Runtime]
      /\ artifacts \in [Nodes -> [Versions -> [staged : 0 .. day, backup : 0 .. day]]]
      /\ \A n \in Nodes : \A v, w \in Versions :
            artifacts[n][v].backup = artifacts[n][w].backup /\ v # w => artifacts[n][v].backup = 0
  BY <1>1, ConstantsAssumption
<1>3. ASSUME NEW n \in Nodes
      PROVE  newest[n] = LastBackup(artifacts[n]) /\ BackupOK(n) /\ newest[n] \subseteq Versions
  <2> DEFINE files == artifacts[n]
  <2>1. newest[n] = LastBackup(files)
    BY DEF Init
  <2>2. /\ day \in Nat /\ files \in [Versions -> [staged : 0 .. day, backup : 0 .. day]]
        /\ \A v, w \in Versions :
              files[v].backup = files[w].backup /\ v # w => files[v].backup = 0
    BY <1>2
  <2>3. \/ LastBackup(files) = {} /\ \A w \in Versions : files[w].backup = 0
        \/ \E v \in Versions :
              /\ LastBackup(files) = {v} /\ files[v].backup # 0
              /\ \A w \in Versions \ {v} : files[w].backup < files[v].backup
    <3> HIDE DEF files
    <3> QED
      BY <2>2, LastBackupFound
  <2> QED
    BY <2>1, <2>3 DEF BackupOK
<1>4. NodeShape
  BY <1>2, <1>3 DEF NodeShape, Init
<1>5. jobs = <<>> /\ plans = <<>> /\ runs = <<>> /\ sync = {} /\ TableShape
  BY DEF Init, TableShape
<1>6. DOMAIN jobs = {} /\ DOMAIN plans = {} /\ DOMAIN runs = {}
  BY <1>5
<1>7. ProcessShape /\ AgentInv
  BY DEF Init, ProcessShape, AgentInv, TaskOK, InstallOK, CleaningOK, Working
<1>8. JobInv /\ CleanupInv /\ PlanInv
  BY <1>5, <1>6 DEF JobInv, CleanupInv, PlanInv
<1>9. HostInv
  BY <1>3 DEF HostInv, ReadyStaysStartable, Init
<1>10. AnalysisInv /\ ExecutionInv
  BY DEF Init, AnalysisInv, ExecutionInv
<1> QED
  BY <1>4, <1>5, <1>7, <1>8, <1>9, <1>10 DEF NodeInv

(***************************************************************************)
(* The creation of jobs                                                    *)
(***************************************************************************)
\* The table of jobs has grown.
JobsAdded ==
    /\ jobs' \in Seq(JobRow) /\ DOMAIN jobs \subseteq DOMAIN jobs'
    /\ \A i \in DOMAIN jobs : jobs'[i] = jobs[i]
    /\ \A i \in DOMAIN jobs' \ DOMAIN jobs : jobs'[i].status = "pending" /\ jobs'[i].result = {}

\* New jobs leave everything alone that is known of the others.
LEMMA JobsGrow ==
    ASSUME NodeInv, JobsAdded, UNCHANGED <<nodeVars, task, plans>>
    PROVE  /\ NodeShape' /\ AgentInv' /\ HostInv' /\ PlanInv'
           /\ JobsKept /\ PlansKept /\ FilesKept /\ ReportsKept /\ ResultsKept
           /\ \A i \in DOMAIN jobs' : ResultOf(jobs'[i].operation, jobs'[i].status, jobs'[i].result)
<1>1. NodeShape'
  BY DEF NodeInv, NodeShape, nodeVars
<1>2. JobsKept /\ PlansKept /\ FilesKept
  BY DEF JobsAdded, JobsKept, PlansKept, FilesKept, Written, nodeVars
<1>3. ReportsKept /\ ResultsKept
  BY DEF JobsAdded, ReportsKept, ResultsKept
<1>4. AgentInv'
  BY <1>2, AgentKept DEF NodeInv, AgentInv, nodeVars
<1>5. HostInv'
  BY DEF NodeInv, HostInv, ReadyStaysStartable, BackupOK, nodeVars
<1>6. PlanInv'
  <2>1. day \in Nat /\ day <= day'
    BY DEF NodeInv, NodeShape, nodeVars
  <2> QED
    BY <1>1, <1>2, <2>1, PlanKept DEF NodeInv
<1>7. ASSUME NEW i \in DOMAIN jobs'
      PROVE  ResultOf(jobs'[i].operation, jobs'[i].status, jobs'[i].result)
  BY DEF NodeInv, JobInv, JobsAdded, ResultOf
<1> QED
  BY <1>1, <1>2, <1>3, <1>4, <1>5, <1>6, <1>7

\* New jobs that belong to no request.
LEMMA JobsOfNoRequest ==
    ASSUME NodeInv, JobsAdded, UNCHANGED <<nodeVars, task, managerVars>>,
           \A i \in DOMAIN jobs' \ DOMAIN jobs : jobs'[i].operation # "cleanup",
           runs' \in Seq(RunRow), sync' \subseteq DOMAIN runs', sync' = sync,
           \A r \in sync : runs'[r].job = runs[r].job,
           \A r \in DOMAIN runs' : runs'[r].job \in DOMAIN jobs' /\ jobs'[runs'[r].job].operation \in Profiles
    PROVE  NodeInv'
<1>1. /\ NodeShape' /\ AgentInv' /\ HostInv' /\ PlanInv'
      /\ JobsKept /\ PlansKept /\ FilesKept /\ ReportsKept /\ ResultsKept
      /\ \A i \in DOMAIN jobs' : ResultOf(jobs'[i].operation, jobs'[i].status, jobs'[i].result)
  <2>1. UNCHANGED <<nodeVars, task, plans>>
    BY DEF managerVars
  <2> QED
    BY <2>1, JobsGrow
<1>2. TableShape'
  BY DEF NodeInv, TableShape, JobsAdded, managerVars
<1>5. JobInv'
  <2>1. ASSUME NEW r \in sync PROVE jobs'[runs'[r].job].status \in Ended
    <3>1. r \in DOMAIN runs /\ runs[r].job \in DOMAIN jobs /\ jobs[runs[r].job].status \in Ended
      BY DEF NodeInv, TableShape, JobInv
    <3> QED
      BY <3>1 DEF JobsAdded
  <2> QED
    BY <1>1, <2>1 DEF JobInv
<1>3. ProcessShape'
  BY DEF NodeInv, ProcessShape, managerVars
<1>4. CleanupInv' /\ AnalysisInv' /\ ExecutionInv'
  <2>1. day \in Nat /\ day <= day'
    BY DEF NodeInv, NodeShape, nodeVars
  <2> QED
    BY <1>1, <2>1, RequestsKept DEF managerVars
<1> QED
  BY <1>1, <1>2, <1>3, <1>4, <1>5 DEF NodeInv

\* The row of one job is added.
LEMMA OneJob ==
    ASSUME NodeInv, NEW n \in Nodes, NEW operation \in NodeOps, CreateAgentOperationJob(n, operation)
    PROVE  /\ JobsAdded /\ DOMAIN jobs' = DOMAIN jobs \cup {Len(jobs) + 1}
           /\ Len(jobs) + 1 \in Nat
           /\ \A i \in DOMAIN jobs' \ DOMAIN jobs : jobs'[i].operation = operation
           /\ jobs'[Len(jobs) + 1].operation = operation
<1> DEFINE row == Job(n, operation, 0, {})
<1>1. row \in JobRow /\ row.status = "pending" /\ row.result = {} /\ row.operation = operation
  BY DEF Job, JobRow, JobStatuses, Found
<1>2. jobs \in Seq(JobRow) /\ jobs' = Append(jobs, row)
  BY DEF NodeInv, TableShape, CreateAgentOperationJob
<1> HIDE DEF row
<1>3. /\ jobs' \in Seq(JobRow) /\ DOMAIN jobs' = DOMAIN jobs \cup {Len(jobs) + 1}
      /\ Len(jobs) \in Nat /\ DOMAIN jobs = 1 .. Len(jobs)
      /\ jobs'[Len(jobs) + 1] = row
      /\ \A i \in DOMAIN jobs : jobs'[i] = jobs[i]
  BY <1>1, <1>2, RowAdded
<1> QED
  BY <1>1, <1>3 DEF JobsAdded

\* A service command or an installation is requested.
LEMMA RequestedInv ==
    ASSUME NodeInv, NEW n \in Nodes, NEW operation \in NodeOps \ (Profiles \cup {"cleanup"}),
           CreateAgentOperationJob(n, operation),
           UNCHANGED <<nodeVars, task, managerVars, runVars>>
    PROVE  NodeInv'
<1>1. /\ JobsAdded /\ \A i \in DOMAIN jobs' \ DOMAIN jobs : jobs'[i].operation = operation
  BY OneJob
<1>2. /\ runs' \in Seq(RunRow) /\ sync' \subseteq DOMAIN runs' /\ sync' = sync
      /\ \A r \in sync : runs'[r].job = runs[r].job
  BY DEF NodeInv, TableShape, runVars
<1>3. \A r \in DOMAIN runs' : runs'[r].job \in DOMAIN jobs' /\ jobs'[runs'[r].job].operation \in Profiles
  BY <1>1 DEF NodeInv, JobInv, JobsAdded, runVars
<1>4. \A i \in DOMAIN jobs' \ DOMAIN jobs : jobs'[i].operation # "cleanup"
  BY <1>1
<1> QED
  BY <1>1, <1>2, <1>3, <1>4, JobsOfNoRequest

\* A diagnostic run is requested.
LEMMA DiagnosticInv ==
    ASSUME NodeInv, NEW n \in Nodes, NEW profile \in Profiles, CreateDiagnostic(n, profile)
    PROVE  NodeInv'
<1> DEFINE row == DiagnosticRun(Len(jobs) + 1)
<1>0. profile \in NodeOps /\ profile # "cleanup"
  BY DEF NodeOps, Profiles
<1>1. /\ JobsAdded /\ DOMAIN jobs' = DOMAIN jobs \cup {Len(jobs) + 1} /\ Len(jobs) + 1 \in Nat
      /\ \A i \in DOMAIN jobs' \ DOMAIN jobs : jobs'[i].operation = profile
      /\ jobs'[Len(jobs) + 1].operation = profile
  BY <1>0, OneJob DEF CreateDiagnostic
<1>2. row \in RunRow /\ row.job = Len(jobs) + 1
  BY <1>1 DEF DiagnosticRun, RunRow
<1>3. runs \in Seq(RunRow) /\ runs' = Append(runs, row)
  BY DEF NodeInv, TableShape, CreateDiagnostic
<1> HIDE DEF row
<1>4. /\ runs' \in Seq(RunRow) /\ DOMAIN runs' = DOMAIN runs \cup {Len(runs) + 1}
      /\ runs'[Len(runs) + 1] = row
      /\ \A r \in DOMAIN runs : runs'[r] = runs[r]
  BY <1>2, <1>3, RowAdded
<1>5. sync' \subseteq DOMAIN runs' /\ sync' = sync /\ \A r \in sync : runs'[r].job = runs[r].job
  <2>1. sync' = sync /\ sync \subseteq DOMAIN runs
    BY DEF NodeInv, TableShape, CreateDiagnostic
  <2> QED
    BY <1>4, <2>1
<1>6. ASSUME NEW r \in DOMAIN runs'
      PROVE  runs'[r].job \in DOMAIN jobs' /\ jobs'[runs'[r].job].operation \in Profiles
  <2>1. CASE r \in DOMAIN runs
    BY <1>1, <1>4, <2>1 DEF NodeInv, JobInv, JobsAdded
  <2>2. CASE r = Len(runs) + 1
    BY <1>1, <1>2, <1>4, <2>2
  <2> QED
    BY <1>4, <2>1, <2>2
<1>7. \A i \in DOMAIN jobs' \ DOMAIN jobs : jobs'[i].operation # "cleanup"
  BY <1>0, <1>1
<1>8. UNCHANGED <<nodeVars, task, managerVars>>
  BY DEF CreateDiagnostic
<1> QED
  BY <1>1, <1>4, <1>5, <1>6, <1>7, <1>8, JobsOfNoRequest

\* One job of each node is created.
LEMMA JobOfEachNode ==
    ASSUME NodeInv, NEW operation \in NodeOps, NEW cutoff \in Int,
           NEW candidates \in [Nodes -> SUBSET Artifact], CreateJobs(operation, cutoff, candidates)
    PROVE  /\ JobsAdded /\ DOMAIN jobs' = DOMAIN jobs \cup Created
           /\ Created \subseteq Nat \ {0} /\ Created \cap DOMAIN jobs = {}
           /\ \A i \in Created :
                 /\ jobs'[i].operation = operation /\ jobs'[i].cutoff = cutoff
                 /\ jobs'[i].status = "pending" /\ jobs'[i].node \in Nodes
                 /\ jobs'[i].candidates = candidates[jobs'[i].node]
           /\ \A n \in Nodes : \E i \in Created : jobs'[i].node = n
<1> DEFINE k == Cardinality(Nodes)
           row(i) == Job(NodeOrder[i], operation, cutoff, candidates[NodeOrder[i]])
           new == [i \in DOMAIN NodeOrder |-> row(i)]
<1>1. /\ k \in Nat /\ NodeOrder \in [1 .. k -> Nodes]
      /\ \A n \in Nodes : \E i \in 1 .. k : NodeOrder[i] = n
  BY OrderOfNodes
<1>2. \A i \in 1 .. k :
         /\ row(i) \in JobRow /\ row(i).status = "pending" /\ row(i).result = {}
         /\ row(i).operation = operation /\ row(i).cutoff = cutoff
         /\ row(i).node = NodeOrder[i] /\ row(i).candidates = candidates[NodeOrder[i]]
  <2> SUFFICES ASSUME NEW i \in 1 .. k
               PROVE  /\ row(i) \in JobRow /\ row(i).status = "pending" /\ row(i).result = {}
                      /\ row(i).operation = operation /\ row(i).cutoff = cutoff
                      /\ row(i).node = NodeOrder[i] /\ row(i).candidates = candidates[NodeOrder[i]]
    OBVIOUS
  <2>1. NodeOrder[i] \in Nodes /\ candidates[NodeOrder[i]] \in SUBSET Artifact
    BY <1>1
  <2> QED
    BY <2>1 DEF Job, JobRow, JobStatuses, Found
<1>3. jobs \in Seq(JobRow) /\ jobs' = jobs \o new
  BY DEF NodeInv, TableShape, CreateJobs
<1> HIDE DEF row
<1>4. DOMAIN NodeOrder = 1 .. k /\ new = [i \in 1 .. k |-> row(i)]
  BY <1>1
<1>5. new \in Seq(JobRow) /\ Len(new) = k
  BY <1>1, <1>2, <1>4, IsASeq, LenProperties
<1>6. \A i \in 1 .. k : new[i] = row(i)
  BY <1>4
<1> HIDE DEF new, k
<1>7. /\ jobs' \in Seq(JobRow) /\ DOMAIN jobs' = 1 .. Len(jobs) + k
      /\ Len(jobs) \in Nat /\ DOMAIN jobs = 1 .. Len(jobs)
      /\ \A i \in 1 .. Len(jobs) : jobs'[i] = jobs[i]
      /\ \A i \in 1 .. k : jobs'[Len(jobs) + i] = row(i)
  <2>1. /\ jobs \o new \in Seq(JobRow) /\ DOMAIN (jobs \o new) = 1 .. Len(jobs) + k
        /\ Len(jobs) \in Nat /\ DOMAIN jobs = 1 .. Len(jobs)
        /\ \A i \in 1 .. Len(jobs) : (jobs \o new)[i] = jobs[i]
        /\ \A i \in 1 .. k : (jobs \o new)[Len(jobs) + i] = new[i]
    BY <1>3, <1>5, RowsAdded
  <2> QED
    BY <1>3, <1>6, <2>1
<1>8. Created = Len(jobs) + 1 .. Len(jobs) + k
  BY DEF Created, k
<1>9. /\ DOMAIN jobs' = DOMAIN jobs \cup Created
      /\ Created \subseteq Nat \ {0} /\ Created \cap DOMAIN jobs = {}
  BY <1>1, <1>7, <1>8 DEF k
<1>10. ASSUME NEW i \in Created PROVE \E j \in 1 .. k : jobs'[i] = row(j)
  <2>1. i - Len(jobs) \in 1 .. k /\ Len(jobs) + (i - Len(jobs)) = i
    BY <1>1, <1>7, <1>8 DEF k
  <2> QED
    BY <1>7, <2>1
<1>11. ASSUME NEW n \in Nodes PROVE \E i \in Created : jobs'[i].node = n
  <2>1. PICK j \in 1 .. k : NodeOrder[j] = n
    BY <1>1 DEF k
  <2>2. Len(jobs) + j \in Created
    BY <1>1, <1>7, <1>8 DEF k
  <2> QED
    BY <1>2, <1>7, <2>1, <2>2 DEF k
<1>12. \A j \in 1 .. k : NodeOrder[j] \in Nodes
  BY <1>1 DEF k
<1>13. \A i \in Created :
          /\ jobs'[i].operation = operation /\ jobs'[i].cutoff = cutoff
          /\ jobs'[i].status = "pending" /\ jobs'[i].result = {} /\ jobs'[i].node \in Nodes
          /\ jobs'[i].candidates = candidates[jobs'[i].node]
  BY <1>2, <1>10, <1>12 DEF k
<1>14. JobsAdded
  BY <1>7, <1>9, <1>13 DEF JobsAdded
<1> QED
  BY <1>9, <1>11, <1>13, <1>14

\* The runs of diagnostics do not notice new jobs.
LEMMA RunsKept ==
    ASSUME NodeInv, JobsAdded, UNCHANGED <<plans, runVars>>,
           \A i \in DOMAIN jobs' : ResultOf(jobs'[i].operation, jobs'[i].status, jobs'[i].result)
    PROVE  TableShape' /\ JobInv'
<1>1. TableShape'
  BY DEF NodeInv, TableShape, JobsAdded, runVars
<1>2. ASSUME NEW r \in sync PROVE jobs'[runs[r].job].status \in Ended
  <2>1. r \in DOMAIN runs /\ runs[r].job \in DOMAIN jobs /\ jobs[runs[r].job].status \in Ended
    BY DEF NodeInv, TableShape, JobInv
  <2> QED
    BY <2>1 DEF JobsAdded
<1>3. JobInv'
  BY <1>2 DEF NodeInv, JobInv, JobsAdded, runVars
<1> QED
  BY <1>1, <1>3

\* CreatePlan has the Agents analyze.
LEMMA BeginPlanInv ==
    ASSUME NodeInv, BeginPlan, UNCHANGED runVars
    PROVE  NodeInv'
<1> DEFINE none == [n \in Nodes |-> {}]
<1>1. none \in [Nodes -> SUBSET Artifact] /\ "analyze" \in NodeOps /\ day - Retention \in Int
  BY ConstantsAssumption DEF NodeOps, NodeInv, NodeShape
<1>2. /\ CreateJobs("analyze", day - Retention, none)
      /\ analysis' = [step |-> "waiting", cutoff |-> day - Retention, jobs |-> Created]
      /\ UNCHANGED <<nodeVars, task, plans, execution>>
  BY DEF BeginPlan
<1> HIDE DEF none
<1>3. /\ JobsAdded /\ DOMAIN jobs' = DOMAIN jobs \cup Created /\ Created \subseteq Nat \ {0}
      /\ Created \cap DOMAIN jobs = {} /\ \A i \in Created : jobs'[i].operation = "analyze"
  BY <1>1, <1>2, JobOfEachNode
<1>4. /\ NodeShape' /\ AgentInv' /\ HostInv' /\ PlanInv'
      /\ JobsKept /\ PlansKept /\ FilesKept /\ ReportsKept /\ ResultsKept
      /\ \A i \in DOMAIN jobs' : ResultOf(jobs'[i].operation, jobs'[i].status, jobs'[i].result)
  BY <1>2, <1>3, JobsGrow
<1>5. TableShape' /\ JobInv'
  BY <1>2, <1>3, <1>4, RunsKept
<1>6. analysis' \in Waiting
  BY <1>1, <1>2, <1>3 DEF Waiting
<1>7. ProcessShape'
  BY <1>2, <1>6 DEF NodeInv, ProcessShape
<1>8. AnalysisInv'
  BY <1>2, <1>3 DEF AnalysisInv
<1>9. CleanupInv'
  BY <1>3, <1>4, CleanupKept DEF NodeInv
<1>10. ExecutionInv'
  BY <1>2, <1>4, ExecutionKept DEF NodeInv
<1> QED
  BY <1>4, <1>5, <1>7, <1>8, <1>9, <1>10 DEF NodeInv

(***************************************************************************)
(* The requests of an administrator                                        *)
(***************************************************************************)
\* A step of the request that executes a plan, with or without new jobs.
LEMMA ExecutionSteps ==
    ASSUME NodeInv, UNCHANGED <<nodeVars, task, plans, analysis, runVars>>,
           UNCHANGED jobs \/ JobsAdded,
           \A i \in DOMAIN jobs' \ DOMAIN jobs : jobs'[i].operation = "cleanup" => FromPlan(jobs[i])',
           execution' \in {NoRequest} \cup AtRest \cup InSteps, ExecutionInv'
    PROVE  NodeInv'
<1>1. CASE JobsAdded
  <2>1. /\ NodeShape' /\ AgentInv' /\ HostInv' /\ PlanInv'
        /\ JobsKept /\ PlansKept
        /\ \A i \in DOMAIN jobs' : ResultOf(jobs'[i].operation, jobs'[i].status, jobs'[i].result)
    BY <1>1, JobsGrow
  <2>2. TableShape' /\ JobInv'
    BY <1>1, <2>1, RunsKept
  <2>3. ProcessShape'
    BY DEF NodeInv, ProcessShape
  <2>4. CleanupInv' /\ AnalysisInv'
    BY <2>1, CleanupKept, AnalysisKept DEF NodeInv
  <2> QED
    BY <2>1, <2>2, <2>3, <2>4 DEF NodeInv
<1>2. CASE UNCHANGED jobs
  <2>1. NodeShape' /\ TableShape' /\ JobInv' /\ HostInv'
    BY <1>2 DEF NodeInv, NodeShape, TableShape, JobInv, HostInv, ReadyStaysStartable, BackupOK,
                nodeVars, runVars
  <2>2. ProcessShape'
    BY DEF NodeInv, ProcessShape
  <2>3. JobsKept /\ PlansKept
    BY <1>2 DEF JobsKept, PlansKept
  <2>4. AgentInv'
    BY <2>3, AgentKept DEF NodeInv, AgentInv, nodeVars
  <2>5. CleanupInv' /\ AnalysisInv'
    BY <1>2, <2>3, CleanupKept, AnalysisKept DEF NodeInv
  <2>6. PlanInv'
    BY DEF NodeInv, PlanInv, Gone, Written, nodeVars
  <2> QED
    BY <2>1, <2>2, <2>4, <2>5, <2>6 DEF NodeInv
<1> QED
  BY <1>1, <1>2

\* A plan that is executed, and its steps.
LEMMA PlanOfExecution ==
    ASSUME NodeInv, execution # NoRequest
    PROVE  /\ execution.plan \in DOMAIN plans /\ execution.plan \in Nat
           /\ plans[execution.plan] \in PlanRow /\ plans[execution.plan].confirmed
           /\ execution.step \in {"acquired", "succeeded", "failed", "cleaning", "verifying"}
<1>1. execution \in AtRest \cup InSteps
  BY DEF NodeInv, ProcessShape
<1> QED
  BY <1>1, Rows DEF NodeInv, ExecutionInv, AtRest, InSteps

\* A request without steps is at rest.
LEMMA SomeRequest ==
    ASSUME execution.step # "idle"
    PROVE  execution # NoRequest
  BY DEF NoRequest

\* The cleanup jobs of a confirmed plan.
LEMMA StartCleanupInv ==
    ASSUME NodeInv, StartCleanup, UNCHANGED runVars
    PROVE  NodeInv'
<1> DEFINE p == execution.plan
           plan == plans[p]
<1>1. /\ execution # NoRequest /\ StartJobs("cleanup", "cleaning")
      /\ UNCHANGED <<nodeVars, task, plans, analysis, runVars>>
  BY SomeRequest DEF StartCleanup
<1>2. p \in DOMAIN plans /\ p \in Nat /\ plan \in PlanRow /\ plan.confirmed
  BY <1>1, PlanOfExecution
<1>3. "cleanup" \in NodeOps /\ plan.cutoff \in Int /\ plan.snapshot \in [Nodes -> SUBSET Artifact]
  BY <1>2 DEF NodeOps, PlanRow
<1>4. CASE /\ CreateJobs("cleanup", plan.cutoff, plan.snapshot)
           /\ execution' = [step |-> "cleaning", plan |-> p, jobs |-> Created]
  <2>1. /\ JobsAdded /\ DOMAIN jobs' = DOMAIN jobs \cup Created /\ Created \subseteq Nat \ {0}
        /\ \A i \in Created :
              /\ jobs'[i].cutoff = plan.cutoff
              /\ jobs'[i].candidates = plan.snapshot[jobs'[i].node]
    <3> DEFINE cutoff == plan.cutoff
               snapshot == plan.snapshot
    <3>1. cutoff \in Int /\ snapshot \in [Nodes -> SUBSET Artifact]
      BY <1>3
    <3>2. CreateJobs("cleanup", cutoff, snapshot)
      BY <1>4
    <3> HIDE DEF cutoff, snapshot
    <3>3. /\ JobsAdded /\ DOMAIN jobs' = DOMAIN jobs \cup Created
          /\ Created \subseteq Nat \ {0} /\ Created \cap DOMAIN jobs = {}
          /\ \A i \in Created :
                /\ jobs'[i].operation = "cleanup" /\ jobs'[i].cutoff = cutoff
                /\ jobs'[i].status = "pending" /\ jobs'[i].node \in Nodes
                /\ jobs'[i].candidates = snapshot[jobs'[i].node]
          /\ \A n \in Nodes : \E i \in Created : jobs'[i].node = n
      BY <1>3, <3>1, <3>2, JobOfEachNode
    <3> QED
      BY <3>3 DEF cutoff, snapshot
  <2>2. ASSUME NEW i \in DOMAIN jobs' \ DOMAIN jobs PROVE FromPlan(jobs[i])'
    <3>1. i \in Created
      BY <2>1
    <3> QED
      BY <1>1, <1>2, <2>1, <3>1 DEF FromPlan
  <2>3. execution' \in InSteps
    BY <1>2, <1>4, <2>1 DEF InSteps
  <2>4. ExecutionInv'
    BY <1>1, <1>2, <1>4, <2>1 DEF ExecutionInv
  <2> QED
    BY <1>1, <2>1, <2>2, <2>3, <2>4, ExecutionSteps
<1>5. CASE execution' = [step |-> "failed", plan |-> p] /\ UNCHANGED jobs
  <2>1. execution' \in AtRest
    BY <1>2, <1>5 DEF AtRest
  <2>2. ExecutionInv'
    BY <1>1, <1>2, <1>5 DEF ExecutionInv
  <2>3. \A i \in DOMAIN jobs' \ DOMAIN jobs : FALSE
    BY <1>5
  <2> QED
    BY <1>1, <1>5, <2>1, <2>2, <2>3, ExecutionSteps
<1> QED
  BY <1>1, <1>4, <1>5 DEF StartJobs

\* The verification of what a plan lists.
LEMMA StartVerifyInv ==
    ASSUME NodeInv, StartVerify, UNCHANGED runVars
    PROVE  NodeInv'
<1> DEFINE p == execution.plan
           plan == plans[p]
<1>1. /\ execution # NoRequest /\ StartJobs("verify", "verifying")
      /\ UNCHANGED <<nodeVars, task, plans, analysis, runVars>>
  BY SomeRequest DEF StartVerify
<1>2. p \in DOMAIN plans /\ p \in Nat /\ plan \in PlanRow /\ plan.confirmed
  BY <1>1, PlanOfExecution
<1>3. "verify" \in NodeOps /\ plan.cutoff \in Int /\ plan.snapshot \in [Nodes -> SUBSET Artifact]
  BY <1>2 DEF NodeOps, PlanRow
<1>4. CASE /\ CreateJobs("verify", plan.cutoff, plan.snapshot)
           /\ execution' = [step |-> "verifying", plan |-> p, jobs |-> Created]
  <2>1. /\ JobsAdded /\ DOMAIN jobs' = DOMAIN jobs \cup Created /\ Created \subseteq Nat \ {0}
        /\ Created \cap DOMAIN jobs = {}
        /\ \A i \in Created :
              /\ jobs'[i].operation = "verify" /\ jobs'[i].status = "pending"
              /\ jobs'[i].node \in Nodes
              /\ jobs'[i].candidates = plan.snapshot[jobs'[i].node]
        /\ \A n \in Nodes : \E i \in Created : jobs'[i].node = n
    <3> DEFINE cutoff == plan.cutoff
               snapshot == plan.snapshot
    <3>1. cutoff \in Int /\ snapshot \in [Nodes -> SUBSET Artifact]
      BY <1>3
    <3>2. CreateJobs("verify", cutoff, snapshot)
      BY <1>4
    <3> HIDE DEF cutoff, snapshot
    <3>3. /\ JobsAdded /\ DOMAIN jobs' = DOMAIN jobs \cup Created
          /\ Created \subseteq Nat \ {0} /\ Created \cap DOMAIN jobs = {}
          /\ \A i \in Created :
                /\ jobs'[i].operation = "verify" /\ jobs'[i].cutoff = cutoff
                /\ jobs'[i].status = "pending" /\ jobs'[i].node \in Nodes
                /\ jobs'[i].candidates = snapshot[jobs'[i].node]
          /\ \A n \in Nodes : \E i \in Created : jobs'[i].node = n
      BY <1>3, <3>1, <3>2, JobOfEachNode
    <3> QED
      BY <3>3 DEF cutoff, snapshot
  <2>2. \A i \in DOMAIN jobs' \ DOMAIN jobs : jobs'[i].operation # "cleanup"
    BY <2>1
  <2>3. execution' \in InSteps
    BY <1>2, <1>4, <2>1 DEF InSteps
  <2>4. ASSUME NEW i \in Created PROVE Verifies(p, i)'
    <3> DEFINE n == jobs'[i].node
    <3>1. task[n].job # i
      <4>1. task[n].job = 0 \/ task[n].job \in DOMAIN jobs
        BY <2>1 DEF NodeInv, AgentInv, TaskOK, NoTask
      <4> QED
        BY <2>1, <4>1
    <3>2. task' = task /\ plans' = plans /\ p' = p
      BY <1>1, <1>4
    <3> QED
      BY <2>1, <3>1, <3>2 DEF Verifies
  <2>5. ExecutionInv'
    <3>1. p' = p /\ execution'.plan = p /\ execution'.jobs = Created /\ execution'.step = "verifying"
      BY <1>4
    <3>2. p \in DOMAIN plans' /\ plans'[p].confirmed /\ execution'.jobs \subseteq DOMAIN jobs'
      BY <1>1, <1>2, <2>1, <3>1
    <3> HIDE DEF p, plan
    <3>3. \A i \in execution'.jobs : Verifies(execution.plan, i)'
      BY <2>4, <3>1
    <3> QED
      BY <2>1, <3>1, <3>2, <3>3 DEF ExecutionInv
  <2> QED
    BY <1>1, <2>1, <2>2, <2>3, <2>5, ExecutionSteps
<1>5. CASE execution' = [step |-> "failed", plan |-> p] /\ UNCHANGED jobs
  <2>1. execution' \in AtRest
    BY <1>2, <1>5 DEF AtRest
  <2>2. ExecutionInv'
    BY <1>1, <1>2, <1>5 DEF ExecutionInv
  <2>3. \A i \in DOMAIN jobs' \ DOMAIN jobs : FALSE
    BY <1>5
  <2> QED
    BY <1>1, <1>5, <2>1, <2>2, <2>3, ExecutionSteps
<1> QED
  BY <1>1, <1>4, <1>5 DEF StartJobs

\* EndVerify: when no Agent has found a file of the plan, all are gone.
LEMMA EndVerifyInv ==
    ASSUME NodeInv, EndVerify, UNCHANGED runVars
    PROVE  NodeInv'
<1> DEFINE p == execution.plan
<1>1. /\ execution # NoRequest /\ execution.step = "verifying" /\ AllSucceeded(execution.jobs)
      /\ execution' = [step |-> IF Verified(execution.jobs) THEN "succeeded" ELSE "failed", plan |-> p]
      /\ UNCHANGED <<nodeVars, jobs, task, plans, analysis, runVars>>
  BY SomeRequest DEF EndVerify
<1>2. p \in DOMAIN plans /\ p \in Nat /\ plans[p].confirmed
  BY <1>1, PlanOfExecution
<1>3. ASSUME Verified(execution.jobs), NEW n \in Nodes
      PROVE  Gone(p, n, plans[p].snapshot[n])
  <2>1. PICK i \in execution.jobs : jobs[i].node = n
    BY <1>1 DEF NodeInv, ExecutionInv
  <2>2. Verifies(p, i) /\ jobs[i].status = "succeeded"
    BY <1>1 DEF NodeInv, ExecutionInv, AllSucceeded
  <2>3. jobs[i].result = {}
    <3>1. UNION {jobs[j].result : j \in {k \in execution.jobs : jobs[k].node = n}} = {}
      BY <1>3 DEF Verified, Results
    <3> QED
      BY <2>1, <3>1
  <2>4. jobs[i].candidates \ {} = plans[p].snapshot[n]
    BY <2>1, <2>2 DEF Verifies
  <2>5. Gone(p, n, jobs[i].candidates \ {})
    BY <2>1, <2>2, <2>3 DEF Verifies
  <2> QED
    BY <2>4, <2>5
<1>4. execution' \in AtRest
  BY <1>1, <1>2 DEF AtRest
<1>5. ExecutionInv'
  <2>1. p' = p /\ execution'.plan = p /\ execution'.step \in {"succeeded", "failed"}
    BY <1>1
  <2>2. execution'.step = "succeeded" => \A n \in Nodes : Gone(p, n, plans[p].snapshot[n])
    BY <1>1, <1>3
  <2>3. execution'.step = "succeeded" => \A n \in Nodes : Gone(p, n, plans[p].snapshot[n])'
    BY <1>1, <2>1, <2>2 DEF Gone, Written, nodeVars
  <2>4. p \in DOMAIN plans' /\ plans'[p].confirmed
    BY <1>1, <1>2
  <2> HIDE DEF p
  <2> QED
    BY <2>1, <2>3, <2>4 DEF ExecutionInv
<1>6. \A i \in DOMAIN jobs' \ DOMAIN jobs : FALSE
  BY <1>1
<1> QED
  BY <1>1, <1>4, <1>5, <1>6, ExecutionSteps

\* StopWaiting: the request gives up.
LEMMA StopWaitingInv ==
    ASSUME NodeInv, StopWaiting, UNCHANGED runVars
    PROVE  NodeInv'
<1>1. /\ execution # NoRequest /\ execution' = [step |-> "failed", plan |-> execution.plan]
      /\ UNCHANGED <<nodeVars, jobs, task, plans, analysis, runVars>>
  BY DEF StopWaiting, NoRequest
<1>2. /\ execution.plan \in DOMAIN plans /\ execution.plan \in Nat
      /\ plans[execution.plan].confirmed
  BY <1>1, PlanOfExecution
<1>3. execution' \in AtRest /\ ExecutionInv'
  BY <1>1, <1>2 DEF AtRest, ExecutionInv
<1>4. \A i \in DOMAIN jobs' \ DOMAIN jobs : FALSE
  BY <1>1
<1> QED
  BY <1>1, <1>3, <1>4, ExecutionSteps

\* Plans are added or take another status; nothing happens on the nodes.
LEMMA PlanSteps ==
    ASSUME NodeInv, UNCHANGED <<nodeVars, jobs, task, runs>>, sync' \subseteq sync,
           plans' \in Seq(PlanRow), PlansKept,
           \A p \in DOMAIN plans :
              plans'[p].status = "succeeded" =>
                 \/ plans[p].status = "succeeded"
                 \/ \A n \in Nodes : Gone(p, n, plans[p].snapshot[n]),
           \A p \in DOMAIN plans' \ DOMAIN plans :
              plans'[p].created = day /\ plans'[p].status # "succeeded",
           analysis' \in {NoRequest, analysis},
           \/ execution' \in {NoRequest, execution}
           \/ execution' \in AtRest /\ ExecutionInv'
    PROVE  NodeInv'
<1>1. NodeShape' /\ TableShape' /\ JobInv' /\ HostInv'
  BY DEF NodeInv, NodeShape, TableShape, JobInv, HostInv, ReadyStaysStartable, BackupOK, nodeVars
<1>2. ProcessShape'
  BY DEF NodeInv, ProcessShape
<1>3. JobsKept /\ FilesKept /\ ReportsKept /\ ResultsKept
  BY DEF JobsKept, FilesKept, ReportsKept, ResultsKept, Written, nodeVars
<1>4. AgentInv'
  BY <1>3, AgentKept DEF NodeInv, AgentInv, nodeVars
<1>5. CleanupInv'
  BY <1>3, CleanupKept DEF NodeInv
<1>6. PlanInv'
  <2>1. day \in Nat /\ day' = day /\ day <= day'
    BY DEF NodeInv, NodeShape, nodeVars
  <2>2. \A p \in DOMAIN plans' \ DOMAIN plans :
           plans'[p].created <= day' /\ plans'[p].status # "succeeded"
    BY <2>1
  <2> QED
    BY <1>1, <1>3, <2>1, <2>2, PlanKept DEF NodeInv
<1>7. AnalysisInv'
  <2>1. CASE analysis' = analysis
    BY <1>3, <2>1, AnalysisKept DEF NodeInv
  <2>2. CASE analysis' = NoRequest
    BY <2>2 DEF AnalysisInv
  <2> QED
    BY <2>1, <2>2
<1>8. ExecutionInv'
  <2>1. CASE execution' = execution
    BY <1>1, <1>3, <2>1, ExecutionKept DEF NodeInv
  <2>2. CASE execution' = NoRequest
    BY <2>2 DEF ExecutionInv
  <2> QED
    BY <2>1, <2>2
<1> QED
  BY <1>1, <1>2, <1>4, <1>5, <1>6, <1>7, <1>8 DEF NodeInv

\* AbandonPlan: the analysis has taken too long.
LEMMA AbandonPlanInv ==
    ASSUME NodeInv, AbandonPlan, UNCHANGED runVars
    PROVE  NodeInv'
<1>1. plans' = plans /\ plans' \in Seq(PlanRow) /\ sync' = sync
  BY DEF AbandonPlan, NodeInv, TableShape, runVars
<1>2. PlansKept
  BY <1>1 DEF PlansKept
<1>3. /\ UNCHANGED <<nodeVars, jobs, task, runs>> /\ analysis' = NoRequest
      /\ execution' = execution
  BY DEF AbandonPlan, runVars
<1>4. /\ \A p \in DOMAIN plans : plans'[p].status = plans[p].status
      /\ \A p \in DOMAIN plans' \ DOMAIN plans : FALSE
  BY <1>1
<1> QED
  BY <1>1, <1>2, <1>3, <1>4, PlanSteps

\* CreatePlan: the plan lists what the Agents have found.
LEMMA CreatePlanInv ==
    ASSUME NodeInv, CreatePlan, UNCHANGED runVars
    PROVE  NodeInv'
<1> DEFINE found == Results(analysis.jobs)
           plan == Plan(analysis.cutoff, found)
<1>1. /\ analysis \in Waiting /\ analysis.cutoff \in Int
      /\ \A i \in analysis.jobs : i \in DOMAIN jobs /\ jobs[i].operation = "analyze"
  BY DEF CreatePlan, NodeInv, ProcessShape, AnalysisInv, Waiting
<1>2. \A i \in analysis.jobs : jobs[i].result \subseteq Artifact
  BY <1>1 DEF NodeInv, JobInv, ResultOf, Profiles
<1>3. found \in [Nodes -> SUBSET Artifact]
  BY <1>2 DEF Results
<1>4. plan \in PlanRow /\ plan.status = "planned" /\ plan.created = day
  BY <1>1, <1>3 DEF Plan, PlanRow, NodeInv, NodeShape
<1>5. /\ plans \in Seq(PlanRow) /\ plans' = Append(plans, plan) /\ analysis' = NoRequest
      /\ sync' = sync
      /\ UNCHANGED <<nodeVars, jobs, task, runs, execution>>
  BY DEF NodeInv, TableShape, CreatePlan, runVars
<1> HIDE DEF plan
<1>6. /\ plans' \in Seq(PlanRow) /\ DOMAIN plans' = DOMAIN plans \cup {Len(plans) + 1}
      /\ plans'[Len(plans) + 1] = plan
      /\ \A p \in DOMAIN plans : plans'[p] = plans[p]
  BY <1>4, <1>5, RowAdded
<1>7. PlansKept
  BY <1>6 DEF PlansKept
<1>8. /\ \A p \in DOMAIN plans : plans'[p].status = plans[p].status
      /\ \A p \in DOMAIN plans' \ DOMAIN plans :
            plans'[p].created = day /\ plans'[p].status # "succeeded"
  BY <1>4, <1>6
<1> QED
  BY <1>5, <1>6, <1>7, <1>8, PlanSteps

\* Acquire: a plan is confirmed once, or has expired.
LEMMA AcquireInv ==
    ASSUME NodeInv, NEW p \in DOMAIN plans, Acquire(p), UNCHANGED runVars
    PROVE  NodeInv'
<1>1. /\ plans \in Seq(PlanRow) /\ plans[p] \in PlanRow /\ p \in Nat
      /\ plans[p].status = "planned"
  BY Rows DEF NodeInv, TableShape, Acquire
<1>2. /\ UNCHANGED <<nodeVars, jobs, task, runs>> /\ sync' = sync /\ analysis' = analysis
  BY DEF Acquire, runVars
<1>3. CASE /\ plans' = [plans EXCEPT ![p].status = "running", ![p].confirmed = TRUE]
           /\ execution' = [step |-> "acquired", plan |-> p]
  <2> DEFINE row == [plans[p] EXCEPT !.status = "running", !.confirmed = TRUE]
  <2>1. plans' = [plans EXCEPT ![p] = row]
    BY <1>1, <1>3
  <2>2. /\ row \in PlanRow /\ row.status = "running" /\ row.confirmed
        /\ row.created = plans[p].created /\ row.cutoff = plans[p].cutoff
        /\ row.snapshot = plans[p].snapshot
    BY <1>1 DEF PlanRow
  <2> HIDE DEF row
  <2>3. /\ plans' \in Seq(PlanRow) /\ DOMAIN plans' = DOMAIN plans /\ plans'[p] = row
        /\ \A q \in DOMAIN plans \ {p} : plans'[q] = plans[q]
    BY <1>1, <2>1, <2>2, RowReplaced
  <2>4. PlansKept
    BY <2>2, <2>3 DEF PlansKept
  <2>5. execution' \in AtRest /\ ExecutionInv'
    BY <1>1, <1>3, <2>2, <2>3 DEF AtRest, ExecutionInv
  <2>6. /\ \A q \in DOMAIN plans : plans'[q].status = "succeeded" => plans[q].status = "succeeded"
        /\ \A q \in DOMAIN plans' \ DOMAIN plans : FALSE
    BY <2>2, <2>3
  <2> QED
    BY <1>2, <2>3, <2>4, <2>5, <2>6, PlanSteps
<1>4. CASE plans' = [plans EXCEPT ![p].status = "expired"] /\ execution' = execution
  <2> DEFINE row == [plans[p] EXCEPT !.status = "expired"]
  <2>1. plans' = [plans EXCEPT ![p] = row]
    BY <1>1, <1>4
  <2>2. /\ row \in PlanRow /\ row.status = "expired" /\ row.confirmed = plans[p].confirmed
        /\ row.created = plans[p].created /\ row.cutoff = plans[p].cutoff
        /\ row.snapshot = plans[p].snapshot
    BY <1>1 DEF PlanRow
  <2> HIDE DEF row
  <2>3. /\ plans' \in Seq(PlanRow) /\ DOMAIN plans' = DOMAIN plans /\ plans'[p] = row
        /\ \A q \in DOMAIN plans \ {p} : plans'[q] = plans[q]
    BY <1>1, <2>1, <2>2, RowReplaced
  <2>4. PlansKept
    BY <2>2, <2>3 DEF PlansKept
  <2>6. /\ \A q \in DOMAIN plans : plans'[q].status = "succeeded" => plans[q].status = "succeeded"
        /\ \A q \in DOMAIN plans' \ DOMAIN plans : FALSE
    BY <2>2, <2>3
  <2> QED
    BY <1>2, <1>4, <2>3, <2>4, <2>6, PlanSteps
<1> QED
  BY <1>3, <1>4 DEF Acquire

\* FinishPlan: a plan succeeds only after its verification.
LEMMA FinishPlanInv ==
    ASSUME NodeInv, FinishPlan, UNCHANGED runVars
    PROVE  NodeInv'
<1> DEFINE p == execution.plan
           row == [plans[p] EXCEPT !.status = execution.step]
<1>0. execution # NoRequest
  BY DEF FinishPlan, NoRequest
<1>1. /\ plans \in Seq(PlanRow) /\ p \in DOMAIN plans /\ plans[p] \in PlanRow
      /\ execution.step \in {"succeeded", "failed"}
  BY <1>0, PlanOfExecution DEF NodeInv, TableShape, FinishPlan
<1>2. /\ UNCHANGED <<nodeVars, jobs, task, runs>> /\ sync' = sync /\ analysis' = analysis
      /\ execution' = NoRequest
      /\ plans' = plans \/ plans' = [plans EXCEPT ![p].status = execution.step]
  BY DEF FinishPlan, runVars
<1>3. CASE plans' = plans
  <2>1. PlansKept /\ plans' \in Seq(PlanRow)
    BY <1>1, <1>3 DEF PlansKept
  <2>2. /\ \A q \in DOMAIN plans : plans'[q].status = plans[q].status
        /\ \A q \in DOMAIN plans' \ DOMAIN plans : FALSE
    BY <1>3
  <2> QED
    BY <1>2, <2>1, <2>2, PlanSteps
<1>4. CASE plans' = [plans EXCEPT ![p].status = execution.step]
  <2>1. plans' = [plans EXCEPT ![p] = row]
    BY <1>1, <1>4
  <2>2. /\ row \in PlanRow /\ row.status = execution.step /\ row.confirmed = plans[p].confirmed
        /\ row.created = plans[p].created /\ row.cutoff = plans[p].cutoff
        /\ row.snapshot = plans[p].snapshot
    BY <1>1 DEF PlanRow
  <2>3. execution.step = "succeeded" => \A n \in Nodes : Gone(p, n, plans[p].snapshot[n])
    BY <1>0 DEF NodeInv, ExecutionInv
  <2> HIDE DEF row, p
  <2>4. /\ plans' \in Seq(PlanRow) /\ DOMAIN plans' = DOMAIN plans /\ plans'[p] = row
        /\ \A q \in DOMAIN plans \ {p} : plans'[q] = plans[q]
    BY <1>1, <2>1, <2>2, RowReplaced
  <2>5. PlansKept
    BY <2>2, <2>4 DEF PlansKept
  <2>6. ASSUME NEW q \in DOMAIN plans, plans'[q].status = "succeeded"
        PROVE  \/ plans[q].status = "succeeded"
               \/ \A n \in Nodes : Gone(q, n, plans[q].snapshot[n])
    <3>1. CASE q = p
      BY <2>2, <2>3, <2>4, <2>6, <3>1
    <3>2. CASE q # p
      BY <2>4, <2>6, <3>2
    <3> QED
      BY <3>1, <3>2
  <2>7. \A q \in DOMAIN plans' \ DOMAIN plans : FALSE
    BY <2>4
  <2> QED
    BY <1>2, <2>4, <2>5, <2>6, <2>7, PlanSteps
<1> QED
  BY <1>2, <1>3, <1>4

\* The Manager is started again.
LEMMA ManagerRestartInv ==
    ASSUME NodeInv, ManagerRestart
    PROVE  NodeInv'
<1> DEFINE row(p) == IF plans[p].status = "running" THEN [plans[p] EXCEPT !.status = "failed"]
                     ELSE plans[p]
<1>1. /\ UNCHANGED <<nodeVars, jobs, task, runs>> /\ sync' \subseteq sync
      /\ analysis' = NoRequest /\ execution' = NoRequest
      /\ plans' = [p \in DOMAIN plans |-> row(p)]
  BY DEF ManagerRestart
<1>2. \A p \in DOMAIN plans : plans[p] \in PlanRow /\ DOMAIN plans = 1 .. Len(plans) /\ Len(plans) \in Nat
  BY Rows DEF NodeInv
<1>3. ASSUME NEW p \in DOMAIN plans
      PROVE  /\ row(p) \in PlanRow /\ row(p).confirmed = plans[p].confirmed
             /\ row(p).status \in {plans[p].status, "failed"}
             /\ row(p).created = plans[p].created /\ row(p).cutoff = plans[p].cutoff
             /\ row(p).snapshot = plans[p].snapshot
  BY <1>2 DEF PlanRow
<1> HIDE DEF row
<1>4. DOMAIN plans = 1 .. Len(plans) /\ Len(plans) \in Nat
  BY Rows DEF NodeInv
<1>5. plans' \in Seq(PlanRow)
  <2>1. [p \in 1 .. Len(plans) |-> row(p)] \in Seq(PlanRow)
    BY <1>3, <1>4, IsASeq
  <2> QED
    BY <1>1, <1>4, <2>1
<1>6. PlansKept
  BY <1>1, <1>3 DEF PlansKept
<1>7. /\ \A p \in DOMAIN plans : plans'[p].status = "succeeded" => plans[p].status = "succeeded"
      /\ \A p \in DOMAIN plans' \ DOMAIN plans : FALSE
  BY <1>1, <1>3
<1> QED
  BY <1>1, <1>5, <1>6, <1>7, PlanSteps

(***************************************************************************)
(* The diagnostic worker and the clock                                     *)
(***************************************************************************)
\* Diagnostic runs take their status; nothing else notices.
LEMMA RunSteps ==
    ASSUME NodeInv, UNCHANGED <<nodeVars, jobs, task, managerVars>>,
           runs' \in Seq(RunRow), DOMAIN runs' = DOMAIN runs,
           \A r \in DOMAIN runs : runs'[r].job = runs[r].job,
           sync' \subseteq DOMAIN runs, \A r \in sync' : jobs[runs[r].job].status \in Ended
    PROVE  NodeInv'
<1>1. NodeShape' /\ HostInv'
  BY DEF NodeInv, NodeShape, HostInv, ReadyStaysStartable, BackupOK, nodeVars
<1>2. TableShape' /\ ProcessShape'
  BY DEF NodeInv, TableShape, ProcessShape, managerVars
<1>3. JobInv'
  BY DEF NodeInv, JobInv
<1>4. JobsKept /\ PlansKept /\ FilesKept /\ ReportsKept /\ ResultsKept
  BY DEF JobsKept, PlansKept, FilesKept, ReportsKept, ResultsKept, Written, nodeVars, managerVars
<1>5. AgentInv'
  BY <1>4, AgentKept DEF NodeInv, AgentInv, nodeVars
<1>6. CleanupInv' /\ PlanInv' /\ AnalysisInv' /\ ExecutionInv'
  <2>1. day \in Nat /\ day <= day' /\ \A i \in DOMAIN jobs' \ DOMAIN jobs : FALSE
    BY DEF NodeInv, NodeShape, nodeVars
  <2> QED
    BY <1>1, <1>4, <2>1, RequestsKept DEF managerVars
<1> QED
  BY <1>1, <1>2, <1>3, <1>5, <1>6 DEF NodeInv

\* SyncSemanticFromAgentJobs, its first two statements.
LEMMA SyncRunsInv ==
    ASSUME NodeInv, SyncRuns
    PROVE  NodeInv'
<1> DEFINE begun == {r \in DOMAIN runs : runs[r].status = "queued"
                                         /\ jobs[runs[r].job].status = "in_progress"}
           row(r) == IF r \in begun THEN [runs[r] EXCEPT !.status = "running"] ELSE runs[r]
<1>1. /\ runs' = [r \in DOMAIN runs |-> row(r)] /\ sync' = EndedRuns
      /\ UNCHANGED <<nodeVars, jobs, task, managerVars>>
  BY DEF SyncRuns
<1>2. /\ \A r \in DOMAIN runs : runs[r] \in RunRow
      /\ DOMAIN runs = 1 .. Len(runs) /\ Len(runs) \in Nat
  BY Rows DEF NodeInv
<1>3. ASSUME NEW r \in DOMAIN runs PROVE row(r) \in RunRow /\ row(r).job = runs[r].job
  BY <1>2 DEF RunRow
<1> HIDE DEF row
<1>4. runs' \in Seq(RunRow)
  <2>1. [r \in 1 .. Len(runs) |-> row(r)] \in Seq(RunRow)
    BY <1>2, <1>3, IsASeq
  <2> QED
    BY <1>1, <1>2, <2>1
<1>5. DOMAIN runs' = DOMAIN runs /\ \A r \in DOMAIN runs : runs'[r].job = runs[r].job
  BY <1>1, <1>3
<1>6. sync' \subseteq DOMAIN runs /\ \A r \in sync' : jobs[runs[r].job].status \in Ended
  BY <1>1 DEF EndedRuns
<1> QED
  BY <1>1, <1>4, <1>5, <1>6, RunSteps

\* The verdict on a job that has ended is one of the states of a run.
LEMMA VerdictType ==
    ASSUME NodeInv, NEW r \in sync
    PROVE  /\ Verdict(jobs[runs[r].job]).status \in Ended
           /\ Verdict(jobs[runs[r].job]).state \in {"unknown", "healthy", "degraded", "unhealthy"}
<1> DEFINE job == jobs[runs[r].job]
           found == CHOOSE found \in job.result : TRUE
<1>1. /\ runs[r].job \in DOMAIN jobs /\ job.operation \in Profiles /\ job.status \in Ended
      /\ ResultOf(job.operation, job.status, job.result)
  BY DEF NodeInv, TableShape, JobInv
<1>2. job.status = "failed" \/ found \in Findings
  BY <1>1 DEF ResultOf, Ended
<1>3. found \in Findings =>
         StateOf(found) \in {"unknown", "healthy", "degraded", "unhealthy", "refused"}
  <2> HIDE DEF found
  <2> QED
    BY DEF Findings, StateOf
<1> HIDE DEF job, found
<1>4. /\ Verdict(job).status \in Ended
      /\ Verdict(job).state \in {"unknown", "healthy", "degraded", "unhealthy"}
  BY <1>2, <1>3 DEF Verdict, Ended, found
<1> QED
  BY <1>4 DEF job

\* Each verdict is a statement of its own.
LEMMA TerminalInv ==
    ASSUME NodeInv, markDiagnosticTerminal
    PROVE  NodeInv'
<1> DEFINE r == CHOOSE r \in sync : \A q \in sync : r <= q
<1>1. /\ sync # {} /\ sync' = sync \ {r} /\ UNCHANGED <<nodeVars, jobs, task, managerVars>>
      /\ sync \subseteq DOMAIN runs /\ \A q \in sync : jobs[runs[q].job].status \in Ended
      /\ runs \in Seq(RunRow) /\ sync \subseteq Nat
  <2>1. DOMAIN runs = 1 .. Len(runs) /\ Len(runs) \in Nat
    BY Rows DEF NodeInv
  <2>2. sync \subseteq DOMAIN runs /\ runs \in Seq(RunRow) /\ \A q \in sync : jobs[runs[q].job].status \in Ended
    BY DEF NodeInv, TableShape, JobInv
  <2>3. sync \subseteq Nat
    BY <2>1, <2>2
  <2>4. sync # {} /\ sync' = sync \ {r} /\ UNCHANGED <<nodeVars, jobs, task, managerVars>>
    BY DEF markDiagnosticTerminal
  <2> QED
    BY <2>2, <2>3, <2>4
<1>2. r \in sync
  <2>1. \E q \in sync : \A x \in sync : q <= x
    BY <1>1, LeastNumber
  <2> QED
    BY <2>1
<1> DEFINE verdict == Verdict(jobs[runs[r].job])
           row == [runs[r] EXCEPT !.status = verdict.status, !.state = verdict.state]
<1>3. runs' = IF runs[r].status \in Ended THEN runs
              ELSE [runs EXCEPT ![r].status = verdict.status, ![r].state = verdict.state]
  BY DEF markDiagnosticTerminal
<1>4. r \in DOMAIN runs /\ runs[r] \in RunRow
  BY <1>1, <1>2, Rows DEF NodeInv
<1>5. /\ verdict.status \in Ended
      /\ verdict.state \in {"unknown", "healthy", "degraded", "unhealthy"}
  <2> HIDE DEF r
  <2> QED
    BY <1>2, VerdictType
<1> HIDE DEF r, verdict
<1>6. row \in RunRow /\ row.job = runs[r].job
  BY <1>4, <1>5 DEF RunRow
<1>7. runs' = runs \/ runs' = [runs EXCEPT ![r] = row]
  BY <1>1, <1>3, <1>4
<1>8. /\ runs' \in Seq(RunRow) /\ DOMAIN runs' = DOMAIN runs
      /\ \A q \in DOMAIN runs : runs'[q].job = runs[q].job
  <2>1. CASE runs' = runs
    BY <1>1, <2>1
  <2>2. CASE runs' = [runs EXCEPT ![r] = row]
    <3> HIDE DEF row
    <3>1. /\ runs' \in Seq(RunRow) /\ DOMAIN runs' = DOMAIN runs /\ runs'[r] = row
          /\ \A q \in DOMAIN runs \ {r} : runs'[q] = runs[q]
      BY <1>1, <1>4, <1>6, <2>2, RowReplaced
    <3> QED
      BY <1>6, <3>1
  <2> QED
    BY <1>7, <2>1, <2>2
<1>9. sync' \subseteq DOMAIN runs /\ \A q \in sync' : jobs[runs[q].job].status \in Ended
  BY <1>1
<1> QED
  BY <1>1, <1>8, <1>9, RunSteps

\* The rest of a pass is left to the next one.
LEMMA SyncFailsInv ==
    ASSUME NodeInv, SyncFails
    PROVE  NodeInv'
<1>1. UNCHANGED <<nodeVars, jobs, task, managerVars>> /\ runs' = runs /\ sync' = {}
  BY DEF SyncFails
<1>2. runs \in Seq(RunRow)
  BY DEF NodeInv, TableShape
<1> QED
  BY <1>1, <1>2, RunSteps

\* The clock moves on.
LEMMA NextDayInv ==
    ASSUME NodeInv, NextDay, UNCHANGED runVars
    PROVE  NodeInv'
<1>1. /\ day' = day + 1 /\ day \in Nat /\ day' \in Nat \ {0} /\ day <= day'
      /\ UNCHANGED <<artifacts, host, newest, ready, jobs, task, managerVars, runVars>>
  BY DEF NextDay, NodeInv, NodeShape
<1>2. artifacts' \in [Nodes -> [Versions -> [staged : 0 .. day', backup : 0 .. day']]]
  <2>1. 0 .. day \subseteq 0 .. day'
    BY <1>1
  <2>2. artifacts \in [Nodes -> [Versions -> [staged : 0 .. day, backup : 0 .. day]]]
    BY DEF NodeInv, NodeShape
  <2>3. \A n \in Nodes : artifacts[n] \in [Versions -> [staged : 0 .. day', backup : 0 .. day']]
    <3>1. [staged : 0 .. day, backup : 0 .. day] \subseteq [staged : 0 .. day', backup : 0 .. day']
      BY <2>1
    <3> QED
      BY <2>2, <3>1
  <2> QED
    BY <1>1, <2>2, <2>3
<1>3. NodeShape'
  BY <1>1, <1>2 DEF NodeInv, NodeShape
<1>4. TableShape' /\ ProcessShape' /\ JobInv' /\ HostInv'
  BY <1>1 DEF NodeInv, TableShape, ProcessShape, JobInv, HostInv, ReadyStaysStartable, BackupOK,
              managerVars, runVars
<1>5. JobsKept /\ PlansKept /\ FilesKept /\ ReportsKept /\ ResultsKept
  BY <1>1 DEF JobsKept, PlansKept, FilesKept, ReportsKept, ResultsKept, Written, managerVars
<1>6. AgentInv'
  BY <1>1, <1>5, AgentKept DEF NodeInv, AgentInv
<1>7. CleanupInv' /\ PlanInv' /\ AnalysisInv' /\ ExecutionInv'
  <2>1. \A i \in DOMAIN jobs' \ DOMAIN jobs : FALSE
    BY <1>1
  <2> QED
    BY <1>1, <1>3, <1>5, <2>1, RequestsKept DEF managerVars
<1> QED
  BY <1>3, <1>4, <1>6, <1>7 DEF NodeInv

(***************************************************************************)
(* Claims and reports                                                      *)
(***************************************************************************)
Tasks == {NoTask} \cup ClaimedTask \cup ReportTask \cup InstallTask \cup CleaningTask

\* A job changes hands: it is claimed, closed or reported.
LEMMA JobStep ==
    ASSUME NodeInv, NEW n \in Nodes, NEW i \in DOMAIN jobs, jobs[i].status \notin Ended,
           NEW status \in {"in_progress", "succeeded", "failed"}, NEW result \in Found,
           ResultOf(jobs[i].operation, status, result),
           jobs' = [jobs EXCEPT ![i] = [jobs[i] EXCEPT !.status = status, !.result = result]],
           status = "succeeded" =>
              /\ task[jobs[i].node].job = i /\ task[jobs[i].node].step = "report"
              /\ task[jobs[i].node].status = "succeeded" /\ result = task[jobs[i].node].result,
           UNCHANGED <<nodeVars, managerVars, runVars>>,
           task' \in [Nodes -> Tasks], \A m \in Nodes \ {n} : task'[m] = task[m],
           \/ task' = task
           \/ task'[n] = NoTask
           \/ task'[n] = [job |-> i, step |-> "claimed"] /\ jobs[i].node = n
    PROVE  NodeInv'
<1> DEFINE row == [jobs[i] EXCEPT !.status = status, !.result = result]
<1>1. jobs \in Seq(JobRow) /\ jobs[i] \in JobRow /\ DOMAIN jobs \subseteq Nat \ {0}
  BY Rows DEF NodeInv, TableShape
<1>2. /\ row \in JobRow /\ row.status = status /\ row.result = result
      /\ row.node = jobs[i].node /\ row.operation = jobs[i].operation
      /\ row.cutoff = jobs[i].cutoff /\ row.candidates = jobs[i].candidates
  BY <1>1 DEF JobRow, JobStatuses
<1> HIDE DEF row
<1>3. /\ jobs' \in Seq(JobRow) /\ DOMAIN jobs' = DOMAIN jobs /\ jobs'[i] = row
      /\ \A j \in DOMAIN jobs \ {i} : jobs'[j] = jobs[j]
  <2>1. jobs' = [jobs EXCEPT ![i] = row]
    BY DEF row
  <2> QED
    BY <1>1, <1>2, <2>1, RowReplaced
<1>4. JobsKept /\ PlansKept /\ FilesKept
  BY <1>2, <1>3 DEF JobsKept, PlansKept, FilesKept, Written, nodeVars, managerVars
<1>5. NodeShape' /\ HostInv'
  BY DEF NodeInv, NodeShape, HostInv, ReadyStaysStartable, BackupOK, nodeVars
<1>6. TableShape' /\ ProcessShape'
  BY <1>3 DEF NodeInv, TableShape, ProcessShape, managerVars, runVars, Tasks
<1>7. JobInv'
  <2>1. ASSUME NEW j \in DOMAIN jobs'
        PROVE  ResultOf(jobs'[j].operation, jobs'[j].status, jobs'[j].result)
    BY <1>2, <1>3 DEF NodeInv, JobInv
  <2>2. \A r \in DOMAIN runs : /\ runs[r].job \in DOMAIN jobs'
                               /\ jobs'[runs[r].job].operation \in Profiles
    BY <1>2, <1>3 DEF NodeInv, JobInv
  <2>3. ASSUME NEW r \in sync PROVE jobs'[runs[r].job].status \in Ended
    <3>1. r \in DOMAIN runs /\ runs[r].job \in DOMAIN jobs /\ jobs[runs[r].job].status \in Ended
      BY DEF NodeInv, TableShape, JobInv
    <3>2. runs[r].job # i
      BY <3>1
    <3> QED
      BY <1>3, <3>1, <3>2
  <2> QED
    BY <2>1, <2>2, <2>3 DEF JobInv, runVars
<1>8. ReportsKept
  <2> SUFFICES ASSUME NEW m \in Nodes, task'[m].job \in DOMAIN jobs, task'[m].step = "report"
               PROVE  task'[m] = task[m]
    BY DEF ReportsKept
  <2>1. task'[n] # NoTask \/ m # n
    BY <1>1 DEF NoTask
  <2> QED
    BY <2>1
<1>9. ResultsKept
  BY <1>2, <1>3 DEF ResultsKept
<1>10. AgentInv'
  <2>1. ASSUME NEW m \in Nodes, task'[m] = task[m]
        PROVE  TaskOK(m)' /\ InstallOK(m)' /\ CleaningOK(m)'
    BY <1>4, <2>1, AgentKept DEF NodeInv, AgentInv, nodeVars
  <2>2. ASSUME task'[n] # task[n] PROVE TaskOK(n)' /\ InstallOK(n)' /\ CleaningOK(n)'
    BY <1>2, <1>3, <2>2, AgentIdle
  <2> QED
    BY <2>1, <2>2 DEF AgentInv
<1>11. CleanupInv' /\ PlanInv' /\ AnalysisInv' /\ ExecutionInv'
  <2>1. day \in Nat /\ day <= day' /\ \A j \in DOMAIN jobs' \ DOMAIN jobs : FALSE
    BY <1>3 DEF NodeInv, NodeShape, nodeVars
  <2> QED
    BY <1>4, <1>5, <1>8, <1>9, <2>1, RequestsKept DEF managerVars
<1> QED
  BY <1>5, <1>6, <1>7, <1>10, <1>11 DEF NodeInv

\* ClaimNextAgentOperationTask.
LEMMA ClaimTaskInv ==
    ASSUME NodeInv, NEW n \in Nodes, ClaimTask(n), UNCHANGED runVars
    PROVE  NodeInv'
<1>1. PICK i \in DOMAIN jobs :
         /\ jobs[i].node = n /\ jobs[i].status = "pending"
         /\ jobs' = [jobs EXCEPT ![i].status = "in_progress"]
         /\ task' = [task EXCEPT ![n] = [job |-> i, step |-> "claimed"]]
  BY DEF ClaimTask
<1>2. /\ jobs[i] \in JobRow /\ i \in Nat /\ task \in [Nodes -> Tasks]
      /\ ResultOf(jobs[i].operation, jobs[i].status, jobs[i].result)
  BY Rows DEF NodeInv, ProcessShape, JobInv, Tasks
<1>3. jobs' = [jobs EXCEPT ![i] = [jobs[i] EXCEPT !.status = "in_progress", !.result = jobs[i].result]]
  BY <1>1, <1>2 DEF JobRow
<1>4. jobs[i].result \in Found /\ ResultOf(jobs[i].operation, "in_progress", jobs[i].result)
  BY <1>2 DEF JobRow, ResultOf
<1>5. /\ task' \in [Nodes -> Tasks] /\ \A m \in Nodes \ {n} : task'[m] = task[m]
      /\ task'[n] = [job |-> i, step |-> "claimed"]
  BY <1>1, <1>2 DEF Tasks, ClaimedTask
<1>6. UNCHANGED <<nodeVars, managerVars, runVars>> /\ jobs[i].status \notin Ended
  BY <1>1 DEF ClaimTask, Ended
<1> QED
  BY <1>1, <1>3, <1>4, <1>5, <1>6, JobStep

\* A job whose Agent does not work on it is closed.
LEMMA CloseOrphanInv ==
    ASSUME NodeInv, NEW n \in Nodes, CloseOrphan(n), UNCHANGED runVars
    PROVE  NodeInv'
<1>1. PICK i \in DOMAIN jobs :
         /\ jobs[i].node = n /\ jobs[i].status = "in_progress"
         /\ jobs' = [jobs EXCEPT ![i].status = "failed"]
  BY DEF CloseOrphan
<1>2. /\ jobs[i] \in JobRow /\ task \in [Nodes -> Tasks]
      /\ ResultOf(jobs[i].operation, jobs[i].status, jobs[i].result)
  BY Rows DEF NodeInv, ProcessShape, JobInv, Tasks
<1>3. jobs' = [jobs EXCEPT ![i] = [jobs[i] EXCEPT !.status = "failed", !.result = jobs[i].result]]
  BY <1>1, <1>2 DEF JobRow
<1>4. jobs[i].result \in Found /\ ResultOf(jobs[i].operation, "failed", jobs[i].result)
  BY <1>2 DEF JobRow, ResultOf
<1>5. task' = task /\ UNCHANGED <<nodeVars, managerVars, runVars>> /\ jobs[i].status \notin Ended
  BY <1>1 DEF CloseOrphan, Ended
<1> QED
  BY <1>1, <1>2, <1>3, <1>4, <1>5, JobStep

\* The Agent that works on a task has it in one of these forms.
LEMMA TaskForms ==
    ASSUME NodeInv, NEW n \in Nodes, task[n] # NoTask
    PROVE  /\ task[n].job \in DOMAIN jobs /\ task[n].job \in Nat /\ jobs[task[n].job].node = n
           /\ jobs[task[n].job] \in JobRow
           /\ task[n].step = "claimed" => task[n] \in ClaimedTask
           /\ task[n].step = "report" => task[n] \in ReportTask
           /\ task[n].step = "installing" => task[n] \in InstallTask
           /\ task[n].step = "cleaning" => task[n] \in CleaningTask
<1>1. /\ task[n] \in ClaimedTask \cup ReportTask \cup InstallTask \cup CleaningTask
      /\ task[n].job \in DOMAIN jobs /\ jobs[task[n].job].node = n
  BY DEF NodeInv, ProcessShape, AgentInv, TaskOK
<1>2. jobs[task[n].job] \in JobRow /\ task[n].job \in Nat
  BY <1>1, Rows DEF NodeInv
<1>3. /\ task[n] \in ClaimedTask => task[n].step = "claimed"
      /\ task[n] \in ReportTask => task[n].step = "report"
      /\ task[n] \in InstallTask => task[n].step = "installing"
      /\ task[n] \in CleaningTask => task[n].step = "cleaning"
  BY DEF ClaimedTask, ReportTask, InstallTask, CleaningTask
<1> QED
  BY <1>1, <1>2, <1>3

\* CompleteAgentOperationTask: the report may be lost.
LEMMA CompleteTaskInv ==
    ASSUME NodeInv, NEW n \in Nodes, CompleteTask(n), UNCHANGED runVars
    PROVE  NodeInv'
<1> DEFINE i == task[n].job
<1>1. /\ task[n] # NoTask /\ task[n].step = "report"
      /\ task' = [task EXCEPT ![n] = NoTask]
      /\ UNCHANGED <<nodeVars, managerVars, runVars>>
      /\ \/ jobs' = jobs
         \/ /\ jobs[i].status = "in_progress"
            /\ jobs' = [jobs EXCEPT ![i].status = task[n].status, ![i].result = task[n].result]
  BY DEF CompleteTask
<1>2. /\ i \in DOMAIN jobs /\ jobs[i].node = n /\ jobs[i] \in JobRow
      /\ task[n] \in ReportTask
      /\ ResultOf(jobs[i].operation, task[n].status, task[n].result)
  BY <1>1, TaskForms DEF NodeInv, AgentInv, TaskOK, Operation
<1>3. /\ task' \in [Nodes -> Tasks] /\ \A m \in Nodes \ {n} : task'[m] = task[m]
      /\ task'[n] = NoTask
  BY <1>1 DEF NodeInv, ProcessShape, Tasks
<1>4. CASE jobs' = jobs
  <2>1. NodeShape' /\ ProcessShape'
    BY <1>1, <1>3 DEF NodeInv, NodeShape, ProcessShape, Tasks, nodeVars, managerVars
  <2>2. TaskOK(n)' /\ InstallOK(n)' /\ CleaningOK(n)'
    BY <1>3, AgentIdle
  <2>3. ReportsKept
    <3>1. 0 \notin DOMAIN jobs
      BY Rows DEF NodeInv
    <3> QED
      BY <1>3, <3>1 DEF ReportsKept, NoTask
  <2>4. FilesKept /\ BackupOK(n)' /\ (n \in ready' => Startable(host[n])')
    BY <1>1 DEF FilesKept, Written, NodeInv, HostInv, BackupOK, ReadyStaysStartable, nodeVars
  <2> QED
    BY <1>1, <1>3, <1>4, <2>1, <2>2, <2>3, <2>4, AgentWorks DEF nodeVars, managerVars
<1>5. CASE /\ jobs[i].status = "in_progress"
           /\ jobs' = [jobs EXCEPT ![i].status = task[n].status, ![i].result = task[n].result]
  <2> DEFINE status == task[n].status
             result == task[n].result
  <2>1. jobs' = [jobs EXCEPT ![i] = [jobs[i] EXCEPT !.status = status, !.result = result]]
    BY <1>2, <1>5
  <2>2. status \in Ended /\ result \in Found /\ jobs[i].status \notin Ended
    BY <1>2, <1>5 DEF ReportTask, Ended
  <2>3. status \in {"in_progress", "succeeded", "failed"}
    BY <2>2 DEF Ended
  <2>4. ResultOf(jobs[i].operation, status, result)
    BY <1>2
  <2>5. status = "succeeded" =>
            /\ task[jobs[i].node].job = i /\ task[jobs[i].node].step = "report"
            /\ task[jobs[i].node].status = "succeeded" /\ result = task[jobs[i].node].result
    BY <1>1, <1>2
  <2>6. UNCHANGED <<nodeVars, managerVars, runVars>> /\ i \in DOMAIN jobs
    BY <1>1, <1>2
  <2> HIDE DEF status, result, i
  <2> QED
    BY <1>3, <2>1, <2>2, <2>3, <2>4, <2>5, <2>6, JobStep
<1> QED
  BY <1>1, <1>4, <1>5

(***************************************************************************)
(* The work of an Agent                                                    *)
(***************************************************************************)
\* An Agent has finished: it only reports what it has found.
LEMMA FinishedInv ==
    ASSUME NodeInv, NEW n \in Nodes, task[n] # NoTask,
           NEW status \in Ended, NEW result \in Found, Finished(n, status, result),
           ResultOf(Operation(n), status, result),
           Operation(n) = "verify" /\ status = "succeeded" =>
              result = jobs[task[n].job].candidates \cap OnDisk(n),
           UNCHANGED <<day, artifacts, newest, jobs, managerVars, runVars>>,
           host' \in [Nodes -> Runtime], \A m \in Nodes \ {n} : host'[m] = host[m],
           ready' \subseteq ready \cup {n}, n \in ready' => Startable(host'[n])
    PROVE  NodeInv'
<1> DEFINE new == [job |-> task[n].job, step |-> "report", status |-> status, result |-> result]
<1>1. /\ task[n].job \in DOMAIN jobs /\ task[n].job \in Nat /\ jobs[task[n].job].node = n
      /\ task \in [Nodes -> Tasks]
  BY TaskForms DEF NodeInv, ProcessShape, Tasks
<1>2. task' = [task EXCEPT ![n] = new]
  BY DEF Finished
<1>3. new \in ReportTask /\ new.job = task[n].job /\ new.step = "report"
      /\ new.status = status /\ new.result = result
  BY <1>1 DEF ReportTask
<1> HIDE DEF new
<1>4. /\ task' \in [Nodes -> Tasks] /\ task'[n] = new /\ \A m \in Nodes \ {n} : task'[m] = task[m]
  BY <1>1, <1>2, <1>3 DEF Tasks
<1>5. NodeShape' /\ ProcessShape'
  BY <1>4 DEF NodeInv, NodeShape, ProcessShape, Tasks, managerVars
<1>6. TaskOK(n)' /\ InstallOK(n)' /\ CleaningOK(n)'
  BY <1>1, <1>3, <1>4 DEF TaskOK, InstallOK, CleaningOK, Working, Operation
<1>7. ReportsKept
  BY <1>3, <1>4 DEF ReportsKept, Operation
<1>8. FilesKept /\ BackupOK(n)'
  BY DEF FilesKept, Written, NodeInv, HostInv, BackupOK
<1>9. UNCHANGED <<day, jobs, plans, analysis, execution, runVars>>
  BY DEF managerVars
<1>10. n \in ready' => Startable(host[n])'
  BY DEF Startable
<1>11. \A m \in Nodes \ {n} :
              /\ task'[m] = task[m] /\ host'[m] = host[m]
              /\ artifacts'[m] = artifacts[m] /\ newest'[m] = newest[m]
  BY <1>4
<1> QED
  BY <1>5, <1>6, <1>7, <1>8, <1>9, <1>10, <1>11, AgentWorks

\* An Agent that goes on to another step of its task.
LEMMA TaskInv ==
    ASSUME NodeInv, NEW n \in Nodes, NEW new \in Tasks, task' = [task EXCEPT ![n] = new],
           TaskOK(n)', InstallOK(n)', CleaningOK(n)', new = NoTask \/ new.step # "report",
           NodeShape', UNCHANGED <<day, newest, ready, jobs, managerVars, runVars>>,
           \A m \in Nodes \ {n} : host'[m] = host[m] /\ artifacts'[m] = artifacts[m],
           n \in ready => Startable(host'[n]), BackupOK(n)', FilesKept
    PROVE  NodeInv'
<1>1. /\ task' \in [Nodes -> Tasks] /\ task'[n] = new /\ \A m \in Nodes \ {n} : task'[m] = task[m]
  BY DEF NodeInv, ProcessShape, Tasks
<1>2. ProcessShape'
  BY <1>1 DEF NodeInv, ProcessShape, Tasks, managerVars
<1>3. ReportsKept
  <2>1. 0 \notin DOMAIN jobs
    BY Rows DEF NodeInv
  <2> QED
    BY <1>1, <2>1 DEF ReportsKept, NoTask
<1>4. UNCHANGED <<day, jobs, plans, analysis, execution, runVars>>
  BY DEF managerVars
<1>5. ready' \subseteq ready \cup {n} /\ (n \in ready' => Startable(host[n])')
  BY DEF Startable
<1>6. \A m \in Nodes \ {n} :
              /\ task'[m] = task[m] /\ host'[m] = host[m]
              /\ artifacts'[m] = artifacts[m] /\ newest'[m] = newest[m]
  BY <1>1
<1> QED
  BY <1>2, <1>3, <1>4, <1>5, <1>6, AgentWorks

\* systemctl start, stop and restart take nothing away from the runtime.
LEMMA ServiceOperationInv ==
    ASSUME NodeInv, NEW n \in Nodes, ServiceOperation(n), UNCHANGED runVars
    PROVE  NodeInv'
<1>1. /\ task[n] # NoTask /\ Operation(n) \in {"start", "stop", "restart"}
      /\ UNCHANGED <<day, artifacts, newest, jobs, managerVars, runVars>> /\ ready' = ready
      /\ host \in [Nodes -> Runtime] /\ (n \in ready => Startable(host[n]))
  BY DEF ServiceOperation, Working, NodeInv, NodeShape, HostInv, ReadyStaysStartable
<1>2. /\ Finished(n, "succeeded", {}) \/ Finished(n, "failed", {})
      /\ \E on \in BOOLEAN : host' = [host EXCEPT ![n].running = on]
  <2>1. host[n] \in Runtime /\ host[n].running \in BOOLEAN
    BY <1>1 DEF Runtime
  <2>2. CASE host' = [host EXCEPT ![n].running = @ /\ Operation(n) = "start"]
             /\ Finished(n, "failed", {})
    <3> DEFINE on == host[n].running /\ Operation(n) = "start"
    <3>1. on \in BOOLEAN
      BY <2>1, Zenon
    <3>2. host' = [host EXCEPT ![n].running = on]
      BY <2>2, Zenon
    <3> QED
      BY <2>2, <3>1, <3>2, Zenon
  <2> QED
    BY <2>2 DEF ServiceOperation
<1>3. PICK on \in BOOLEAN : host' = [host EXCEPT ![n].running = on]
  BY <1>2
<1>4. /\ host' \in [Nodes -> Runtime] /\ \A m \in Nodes \ {n} : host'[m] = host[m]
      /\ Startable(host[n]) => Startable(host'[n])
  BY <1>1, <1>3 DEF Runtime, Startable
<1>5. /\ {} \in Found /\ Operation(n) \notin Profiles \cup {"verify"}
      /\ ResultOf(Operation(n), "succeeded", {}) /\ ResultOf(Operation(n), "failed", {})
  BY <1>1 DEF Found, Profiles, ResultOf
<1>6. "succeeded" \in Ended /\ "failed" \in Ended
  BY DEF Ended
<1>7. ready' \subseteq ready \cup {n} /\ (n \in ready' => Startable(host'[n]))
  BY <1>1, <1>4
<1>8. CASE Finished(n, "succeeded", {})
  BY <1>1, <1>4, <1>5, <1>6, <1>7, <1>8, FinishedInv
<1>9. CASE Finished(n, "failed", {})
  BY <1>1, <1>4, <1>5, <1>6, <1>7, <1>9, FinishedInv
<1> QED
  BY <1>2, <1>8, <1>9

\* Reports of what was found, by operations that change nothing.
LEMMA ReadingInv ==
    ASSUME NodeInv, NEW n \in Nodes, task[n] # NoTask, UNCHANGED <<nodeVars, jobs, managerVars, runVars>>,
           NEW status \in Ended, NEW result \in Found, Finished(n, status, result),
           ResultOf(Operation(n), status, result),
           Operation(n) = "verify" /\ status = "succeeded" =>
              result = jobs[task[n].job].candidates \cap OnDisk(n)
    PROVE  NodeInv'
<1>1. /\ host' \in [Nodes -> Runtime] /\ \A m \in Nodes \ {n} : host'[m] = host[m]
      /\ ready' \subseteq ready \cup {n} /\ (n \in ready' => Startable(host'[n]))
  BY DEF NodeInv, NodeShape, HostInv, ReadyStaysStartable, nodeVars
<1>2. UNCHANGED <<day, artifacts, newest, jobs, managerVars, runVars>>
  BY DEF nodeVars
<1> QED
  BY <1>1, <1>2, FinishedInv

\* A diagnostic finds one thing.
LEMMA processDiagnosticTaskInv ==
    ASSUME NodeInv, NEW n \in Nodes, processDiagnosticTask(n), UNCHANGED runVars
    PROVE  NodeInv'
<1>1. /\ task[n] # NoTask /\ Operation(n) \in Profiles
      /\ UNCHANGED <<nodeVars, jobs, managerVars, runVars>>
  BY DEF processDiagnosticTask, Working
<1>2. PICK found \in Collected(Operation(n), host[n]) : Finished(n, "succeeded", {found})
  BY DEF processDiagnosticTask
<1>3. found \in Findings
  <2> DEFINE profile == Operation(n)
  <2>1. profile \in Profiles /\ found \in Collected(profile, host[n])
    BY <1>1
  <2> HIDE DEF profile
  <2> QED
    BY <2>1 DEF Collected, Profiles, Findings
<1>4. /\ {found} \in Found /\ "succeeded" \in Ended /\ Operation(n) # "verify"
      /\ ResultOf(Operation(n), "succeeded", {found})
  BY <1>1, <1>3 DEF Found, Ended, ResultOf, Profiles
<1> QED
  BY <1>1, <1>2, <1>4, ReadingInv

\* Cleaner.analyze.
LEMMA AnalyzeArtifactsInv ==
    ASSUME NodeInv, NEW n \in Nodes, AnalyzeArtifacts(n), UNCHANGED runVars
    PROVE  NodeInv'
<1> DEFINE found == Analyze(n, jobs[task[n].job].cutoff)
<1>1. /\ task[n] # NoTask /\ Operation(n) = "analyze"
      /\ UNCHANGED <<nodeVars, jobs, managerVars, runVars>>
      /\ Finished(n, "succeeded", found) \/ Finished(n, "failed", {})
  BY DEF AnalyzeArtifacts, Working
<1>2. /\ found \in Found /\ {} \in Found /\ Ended = {"succeeded", "failed"}
      /\ ResultOf(Operation(n), "succeeded", found) /\ ResultOf(Operation(n), "failed", {})
  BY <1>1 DEF Analyze, OnDisk, Found, Ended, ResultOf, Profiles
<1> HIDE DEF found
<1>3. CASE Finished(n, "succeeded", found)
  BY <1>1, <1>2, <1>3, ReadingInv
<1>4. CASE Finished(n, "failed", {})
  BY <1>1, <1>2, <1>4, ReadingInv
<1> QED
  BY <1>1, <1>3, <1>4

\* The files of the plan that are still there.
LEMMA VerifyArtifactsInv ==
    ASSUME NodeInv, NEW n \in Nodes, VerifyArtifacts(n), UNCHANGED runVars
    PROVE  NodeInv'
<1> DEFINE found == jobs[task[n].job].candidates \cap OnDisk(n)
<1>1. /\ task[n] # NoTask /\ Operation(n) = "verify"
      /\ UNCHANGED <<nodeVars, jobs, managerVars, runVars>>
      /\ Finished(n, "succeeded", found) \/ Finished(n, "failed", {})
  BY DEF VerifyArtifacts, Working
<1>2. /\ found \in Found /\ {} \in Found /\ Ended = {"succeeded", "failed"}
      /\ ResultOf(Operation(n), "succeeded", found) /\ ResultOf(Operation(n), "failed", {})
  BY <1>1 DEF OnDisk, Found, Ended, ResultOf, Profiles
<1>3. CASE Finished(n, "succeeded", found)
  BY <1>1, <1>2, <1>3, ReadingInv
<1>4. CASE Finished(n, "failed", {})
  BY <1>1, <1>2, <1>4, ReadingInv
<1> QED
  BY <1>1, <1>3, <1>4

(***************************************************************************)
(* Cleanups                                                                *)
(***************************************************************************)
\* The backup that the Agent finds to be the last one is the newest.
LEMMA NewestIsLast ==
    ASSUME NodeShape, NEW n \in Nodes, BackupOK(n)
    PROVE  LastBackup(artifacts[n]) = newest[n]
<1> DEFINE files == artifacts[n]
           backups == {v \in Versions : files[v].backup # 0}
           IsLast(v) == \A w \in backups : files[w].backup <= files[v].backup
<1>1. \A v \in Versions : files[v].backup \in Nat
  BY DEF NodeShape
<1>2. LastBackup(files) = IF backups = {} THEN {} ELSE {CHOOSE v \in backups : IsLast(v)}
  BY DEF LastBackup
<1>3. CASE newest[n] = {} /\ \A w \in Versions : files[w].backup = 0
  BY <1>2, <1>3
<1>4. CASE \E v \in Versions :
              /\ newest[n] = {v} /\ files[v].backup # 0
              /\ \A w \in Versions \ {v} : files[w].backup < files[v].backup
  <2>1. PICK v \in Versions :
              /\ newest[n] = {v} /\ files[v].backup # 0
              /\ \A w \in Versions \ {v} : files[w].backup < files[v].backup
    BY <1>4
  <2>2. v \in backups /\ IsLast(v)
    BY <1>1, <2>1
  <2>3. ASSUME NEW w \in backups, IsLast(w) PROVE w = v
    <3>1. files[v].backup <= files[w].backup
      BY <2>2, <2>3
    <3> QED
      BY <1>1, <2>1, <3>1
  <2> HIDE DEF backups, IsLast
  <2>4. (CHOOSE w \in backups : IsLast(w)) = v
    BY <2>2, <2>3
  <2> QED
    BY <1>2, <2>1, <2>2, <2>4
<1> QED
  BY <1>3, <1>4 DEF BackupOK

\* Cleaner.cleanup looks at the disk again before it removes anything.
LEMMA BeginCleanupInv ==
    ASSUME NodeInv, NEW n \in Nodes, BeginCleanup(n), UNCHANGED runVars
    PROVE  NodeInv'
<1> DEFINE job == jobs[task[n].job]
           left == Deletions(n, job.cutoff, job.candidates)
           new == [job |-> task[n].job, step |-> "cleaning", left |-> left]
<1>1. /\ task[n] # NoTask /\ Operation(n) = "cleanup"
      /\ UNCHANGED <<nodeVars, jobs, managerVars, runVars>>
      /\ \/ Finished(n, "failed", {})
         \/ ~Refused(n, job.cutoff, job.candidates) /\ task' = [task EXCEPT ![n] = new]
  BY DEF BeginCleanup, Working
<1>2. CASE Finished(n, "failed", {})
  <2>1. {} \in Found /\ "failed" \in Ended /\ ResultOf(Operation(n), "failed", {})
    BY <1>1 DEF Found, Ended, ResultOf, Profiles
  <2> QED
    BY <1>1, <1>2, <2>1, ReadingInv
<1>3. CASE ~Refused(n, job.cutoff, job.candidates) /\ task' = [task EXCEPT ![n] = new]
  <2>1. /\ task[n].job \in DOMAIN jobs /\ task[n].job \in Nat /\ job.node = n /\ job \in JobRow
    BY <1>1, TaskForms
  <2>2. BackupOK(n) /\ NodeShape /\ LastBackup(artifacts[n]) = newest[n]
    BY NewestIsLast DEF NodeInv, HostInv
  <2>3. ASSUME NEW f \in left
        PROVE  /\ f \in Artifact /\ f \in job.candidates
               /\ Written(n, f) # 0 /\ Written(n, f) < job.cutoff
               /\ ~(f.root = "backup" /\ f.version \in newest[n])
    <3>1. f \in OnDisk(n) /\ f \in job.candidates
      BY DEF Deletions
    <3>2. f \in Analyze(n, job.cutoff)
      BY <1>3, <3>1 DEF Refused
    <3> QED
      BY <2>2, <3>1, <3>2 DEF Analyze, OnDisk
  <2>4. new \in CleaningTask /\ new.step = "cleaning" /\ new.job = task[n].job /\ new.left = left
    BY <2>1, <2>3 DEF CleaningTask
  <2> HIDE DEF left, new
  <2>5. new \in Tasks /\ new.step # "report"
    BY <2>4 DEF Tasks
  <2>6. task'[n] = new
    BY <1>3 DEF NodeInv, ProcessShape
  <2>7. TaskOK(n)' /\ InstallOK(n)'
    BY <1>1, <2>1, <2>4, <2>6 DEF TaskOK, InstallOK, Working
  <2>8. CleaningOK(n)'
    BY <1>1, <2>1, <2>3, <2>4, <2>6 DEF CleaningOK, Operation, Written, nodeVars
  <2>9. NodeShape' /\ BackupOK(n)' /\ FilesKept
    BY <1>1, <2>2 DEF NodeShape, BackupOK, FilesKept, Written, nodeVars
  <2>10. n \in ready => Startable(host'[n])
    BY <1>1 DEF NodeInv, HostInv, ReadyStaysStartable, nodeVars
  <2>11. UNCHANGED <<day, host, artifacts, newest, ready, jobs, managerVars, runVars>>
    BY <1>1 DEF nodeVars
  <2> QED
    BY <1>3, <2>5, <2>7, <2>8, <2>9, <2>10, <2>11, TaskInv
<1> QED
  BY <1>1, <1>2, <1>3

FilesWith(n, f, time) == [artifacts EXCEPT ![n][f.version][f.root] = time]

\* One file is written, or removed.
LEMMA OneFile ==
    ASSUME NodeShape, NEW n \in Nodes, NEW f \in Artifact, NEW time \in 0 .. day
    PROVE  LET after == FilesWith(n, f, time) IN
           /\ after \in [Nodes -> [Versions -> [staged : 0 .. day, backup : 0 .. day]]]
           /\ \A m \in Nodes \ {n} : after[m] = artifacts[m]
           /\ after[n][f.version][f.root] = time
           /\ \A g \in Artifact \ {f} : after[n][g.version][g.root] = artifacts[n][g.version][g.root]
           /\ f.root = "backup" => after[n][f.version].backup = time
           /\ \A v \in Versions :
                 ~(f.root = "backup" /\ f.version = v) => after[n][v].backup = artifacts[n][v].backup
<1> DEFINE after == FilesWith(n, f, time)
           old == artifacts[n][f.version]
           row == [old EXCEPT ![f.root] = time]
<1>0. artifacts \in [Nodes -> [Versions -> [staged : 0 .. day, backup : 0 .. day]]]
  BY DEF NodeShape
<1>1. /\ f.version \in Versions /\ (f.root = "staged" \/ f.root = "backup")
      /\ old \in [staged : 0 .. day, backup : 0 .. day]
  BY <1>0 DEF Artifact
<1>2. /\ row \in [staged : 0 .. day, backup : 0 .. day] /\ row[f.root] = time
      /\ f.root = "staged" => row.backup = old.backup
      /\ f.root = "backup" => row.staged = old.staged /\ row.backup = time
  BY <1>1
<1>3. /\ after[n] = [artifacts[n] EXCEPT ![f.version] = row]
      /\ after = [artifacts EXCEPT ![n] = [artifacts[n] EXCEPT ![f.version] = row]]
  BY <1>0 DEF FilesWith
<1> HIDE DEF row, after
<1>4. [artifacts[n] EXCEPT ![f.version] = row] \in [Versions -> [staged : 0 .. day, backup : 0 .. day]]
  BY <1>0, <1>1, <1>2
<1>5. /\ after \in [Nodes -> [Versions -> [staged : 0 .. day, backup : 0 .. day]]]
      /\ \A m \in Nodes \ {n} : after[m] = artifacts[m]
  BY <1>0, <1>3, <1>4
<1>6. after[n][f.version] = row /\ \A v \in Versions \ {f.version} : after[n][v] = artifacts[n][v]
  BY <1>0, <1>1, <1>3
<1>7. ASSUME NEW g \in Artifact \ {f}
      PROVE  after[n][g.version][g.root] = artifacts[n][g.version][g.root]
  <2>1. g.version \in Versions /\ g.root \in {"staged", "backup"}
    BY DEF Artifact
  <2>2. CASE g.version # f.version
    BY <1>6, <2>1, <2>2
  <2>3. CASE g.version = f.version
    <3>1. g.root # f.root
      BY <2>3 DEF Artifact
    <3> QED
      BY <1>1, <1>2, <1>6, <2>1, <2>3, <3>1
  <2> QED
    BY <2>2, <2>3
<1>8. ASSUME NEW v \in Versions, ~(f.root = "backup" /\ f.version = v)
      PROVE  after[n][v].backup = artifacts[n][v].backup
  BY <1>1, <1>2, <1>6, <1>8
<1>9. after[n][f.version][f.root] = time /\ (f.root = "backup" => after[n][f.version].backup = time)
  BY <1>1, <1>2, <1>6
<1> QED
  BY <1>5, <1>7, <1>8, <1>9 DEF after

\* Only what CleaningOK allows is removed, one file after the other.
LEMMA DeleteArtifactInv ==
    ASSUME NodeInv, NEW n \in Nodes, DeleteArtifact(n), UNCHANGED runVars
    PROVE  NodeInv'
<1>1. /\ task[n] # NoTask /\ task[n].step = "cleaning" /\ Operation(n) = "cleanup"
      /\ UNCHANGED <<day, host, newest, ready, jobs, managerVars, runVars>>
  BY DEF DeleteArtifact, Working, NodeInv, AgentInv, CleaningOK
<1>2. task[n] \in CleaningTask /\ task[n].job \in DOMAIN jobs /\ jobs[task[n].job].node = n
  BY <1>1, TaskForms
<1>3. /\ {} \in Found /\ Ended = {"succeeded", "failed"}
      /\ ResultOf(Operation(n), "succeeded", {}) /\ ResultOf(Operation(n), "failed", {})
  BY <1>1 DEF Found, Ended, ResultOf, Profiles
<1>4. CASE artifacts' = artifacts /\ Finished(n, "succeeded", {})
  BY <1>1, <1>3, <1>4, ReadingInv DEF nodeVars
<1>5. CASE artifacts' = artifacts /\ Finished(n, "failed", {})
  BY <1>1, <1>3, <1>5, ReadingInv DEF nodeVars
<1>6. ASSUME NEW f \in task[n].left, artifacts' = [artifacts EXCEPT ![n][f.version][f.root] = 0],
             task' = [task EXCEPT ![n].left = @ \ {f}]
      PROVE  NodeInv'
  <2> DEFINE new == [job |-> task[n].job, step |-> "cleaning", left |-> task[n].left \ {f}]
  <2>0. CleaningOK(n) /\ task[n].left \subseteq Artifact
    BY <1>2 DEF CleaningTask, NodeInv, AgentInv
  <2>1. /\ f \in Artifact /\ task[n].left \subseteq Artifact
        /\ ~(f.root = "backup" /\ f.version \in newest[n])
    BY <1>1, <2>0 DEF CleaningOK, Working
  <2>2. /\ day \in Nat /\ 0 \in 0 .. day
        /\ artifacts \in [Nodes -> [Versions -> [staged : 0 .. day, backup : 0 .. day]]]
    BY DEF NodeInv, NodeShape
  <2>3. /\ artifacts' \in [Nodes -> [Versions -> [staged : 0 .. day, backup : 0 .. day]]]
        /\ \A m \in Nodes \ {n} : artifacts'[m] = artifacts[m]
        /\ artifacts'[n][f.version][f.root] = 0
        /\ \A g \in Artifact \ {f} : artifacts'[n][g.version][g.root] = artifacts[n][g.version][g.root]
        /\ f.root = "backup" => artifacts'[n][f.version].backup = 0
        /\ \A v \in Versions :
              ~(f.root = "backup" /\ f.version = v) => artifacts'[n][v].backup = artifacts[n][v].backup
    <3> DEFINE after == FilesWith(n, f, 0)
    <3>1. NodeShape /\ f \in Artifact /\ 0 \in 0 .. day /\ artifacts' = after
      BY <1>6, <2>1, <2>2 DEF NodeInv, FilesWith
    <3>2. /\ after \in [Nodes -> [Versions -> [staged : 0 .. day, backup : 0 .. day]]]
          /\ \A m \in Nodes \ {n} : after[m] = artifacts[m]
          /\ after[n][f.version][f.root] = 0
          /\ \A g \in Artifact \ {f} : after[n][g.version][g.root] = artifacts[n][g.version][g.root]
          /\ f.root = "backup" => after[n][f.version].backup = 0
          /\ \A v \in Versions :
                ~(f.root = "backup" /\ f.version = v) => after[n][v].backup = artifacts[n][v].backup
      BY <3>1, OneFile, Zenon
    <3> HIDE DEF after
    <3> QED
      BY <3>1, <3>2
  <2>4. NodeShape'
    BY <1>1, <2>3 DEF NodeInv, NodeShape
  <2>5. FilesKept
    <3> SUFFICES ASSUME NEW m \in Nodes, NEW g \in Artifact
                 PROVE  artifacts'[m][g.version][g.root] \in {artifacts[m][g.version][g.root], 0}
      BY DEF FilesKept, Written
    <3> QED
      BY <2>3
  <2>6. BackupOK(n)'
    <3>1. CASE newest[n] = {} /\ \A w \in Versions : artifacts[n][w].backup = 0
      <4>1. \A w \in Versions : artifacts'[n][w].backup = 0
        BY <2>1, <2>3, <3>1 DEF Artifact
      <4> QED
        BY <1>1, <3>1, <4>1 DEF BackupOK
    <3>2. ASSUME NEW v \in Versions, newest[n] = {v}, artifacts[n][v].backup # 0,
                 \A w \in Versions \ {v} : artifacts[n][w].backup < artifacts[n][v].backup
          PROVE  BackupOK(n)'
      <4>1. artifacts'[n][v].backup = artifacts[n][v].backup /\ artifacts[n][v].backup \in Nat
        BY <2>1, <2>2, <2>3, <3>2
      <4>2. ASSUME NEW w \in Versions \ {v} PROVE artifacts'[n][w].backup < artifacts'[n][v].backup
        <5>1. artifacts'[n][w].backup \in {0, artifacts[n][w].backup}
          BY <2>3
        <5>2. artifacts[n][w].backup < artifacts[n][v].backup /\ 0 < artifacts[n][v].backup
          BY <3>2, <4>1
        <5> QED
          BY <4>1, <5>1, <5>2
      <4> QED
        BY <1>1, <3>2, <4>1, <4>2 DEF BackupOK
    <3> QED
      BY <3>1, <3>2 DEF NodeInv, HostInv, BackupOK
  <2>7. /\ task' = [task EXCEPT ![n] = new] /\ new \in CleaningTask
        /\ new.step = "cleaning" /\ new.job = task[n].job /\ new.left = task[n].left \ {f}
    <3>1. /\ new \in CleaningTask /\ new.step = "cleaning" /\ new.job = task[n].job
          /\ new.left = task[n].left \ {f}
      BY <1>2 DEF CleaningTask
    <3>2. new = [task[n] EXCEPT !.left = task[n].left \ {f}]
      BY <1>1, <1>2 DEF CleaningTask
    <3>3. task' = [task EXCEPT ![n] = [task[n] EXCEPT !.left = task[n].left \ {f}]]
      BY <1>6
    <3> HIDE DEF new
    <3> QED
      BY <3>1, <3>2, <3>3
  <2> HIDE DEF new
  <2>8. new \in Tasks /\ new.step # "report"
    BY <2>7 DEF Tasks
  <2>9. task'[n] = new
    BY <2>7 DEF NodeInv, ProcessShape
  <2>10. TaskOK(n)' /\ InstallOK(n)'
    BY <1>1, <1>2, <2>7, <2>9 DEF TaskOK, InstallOK, Working
  <2>11. CleaningOK(n)'
    <3>1. /\ Operation(n)' = "cleanup" /\ jobs' = jobs /\ newest' = newest
          /\ task'[n].job = task[n].job /\ task'[n].left = task[n].left \ {f}
      BY <1>1, <2>7, <2>9 DEF Operation
    <3>2. ASSUME NEW g \in task[n].left, g # f
          PROVE  /\ g \in jobs[task[n].job].candidates
                 /\ artifacts'[n][g.version][g.root] # 0
                 /\ artifacts'[n][g.version][g.root] < jobs[task[n].job].cutoff
                 /\ ~(g.root = "backup" /\ g.version \in newest[n])
      <4>1. artifacts'[n][g.version][g.root] = Written(n, g)
        BY <2>1, <2>3, <3>2 DEF Written
      <4> QED
        BY <1>1, <4>1, <2>0 DEF CleaningOK, Working
    <3> QED
      BY <3>1, <3>2 DEF CleaningOK, Written
  <2>12. n \in ready => Startable(host'[n])
    BY <1>1 DEF NodeInv, HostInv, ReadyStaysStartable
  <2>13. \A m \in Nodes \ {n} : host'[m] = host[m] /\ artifacts'[m] = artifacts[m]
    BY <1>1, <2>3
  <2> QED
    BY <1>1, <2>4, <2>5, <2>6, <2>7, <2>8, <2>10, <2>11, <2>12, <2>13, TaskInv
<1> QED
  BY <1>4, <1>5, <1>6 DEF DeleteArtifact

\* An Agent or its host stops.
LEMMA AgentRestartInv ==
    ASSUME NodeInv, NEW n \in Nodes, AgentRestart(n), UNCHANGED runVars
    PROVE  NodeInv'
<1>1. /\ task' = [task EXCEPT ![n] = NoTask] /\ NoTask \in Tasks
      /\ UNCHANGED <<day, artifacts, host, newest, ready, jobs, managerVars, runVars>>
  BY DEF AgentRestart, Tasks, nodeVars
<1>2. TaskOK(n)' /\ InstallOK(n)' /\ CleaningOK(n)'
  BY <1>1, AgentIdle DEF NodeInv, ProcessShape
<1>3. NodeShape' /\ BackupOK(n)' /\ FilesKept /\ (n \in ready => Startable(host'[n]))
  BY <1>1 DEF NodeInv, NodeShape, HostInv, BackupOK, ReadyStaysStartable, FilesKept, Written
<1> QED
  BY <1>1, <1>2, <1>3, TaskInv

\* A reboot clears the mask of a runtime and takes nothing away.
LEMMA RebootInv ==
    ASSUME NodeInv, NEW n \in Nodes, Reboot(n), UNCHANGED runVars
    PROVE  NodeInv'
<1>1. /\ task' = [task EXCEPT ![n] = NoTask] /\ NoTask \in Tasks
      /\ host' = [host EXCEPT ![n] = Rebooted(host[n])] /\ host \in [Nodes -> Runtime]
      /\ UNCHANGED <<day, artifacts, newest, ready, jobs, managerVars, runVars>>
  BY DEF Reboot, Tasks, NodeInv, NodeShape
<1>2. TaskOK(n)' /\ InstallOK(n)' /\ CleaningOK(n)'
  BY <1>1, AgentIdle DEF NodeInv, ProcessShape
<1>3. ASSUME NEW rt \in Runtime
      PROVE  Rebooted(rt) \in Runtime /\ (Startable(rt) => Startable(Rebooted(rt)))
  <2> DEFINE on == rt.enabled /\ rt.unit # "none" /\ rt.config # "none"
  <2>1. on \in BOOLEAN
    BY DEF Runtime
  <2>2. Rebooted(rt) = [rt EXCEPT !.masked = FALSE, !.running = on]
    BY DEF Rebooted
  <2> HIDE DEF on
  <2> QED
    BY <2>1, <2>2 DEF Runtime, Startable
<1>4. /\ host' \in [Nodes -> Runtime] /\ host'[n] = Rebooted(host[n])
      /\ \A m \in Nodes \ {n} : host'[m] = host[m]
  BY <1>1, <1>3
<1>5. NodeShape' /\ BackupOK(n)' /\ FilesKept
  BY <1>1, <1>4 DEF NodeInv, NodeShape, HostInv, BackupOK, FilesKept, Written
<1>6. n \in ready => Startable(host'[n])
  BY <1>1, <1>3, <1>4 DEF NodeInv, HostInv, ReadyStaysStartable
<1>7. \A m \in Nodes \ {n} : host'[m] = host[m] /\ artifacts'[m] = artifacts[m]
  BY <1>1, <1>4
<1> QED
  BY <1>1, <1>2, <1>5, <1>6, <1>7, TaskInv

(***************************************************************************)
(* Installations                                                           *)
(***************************************************************************)
\* What is known of a runtime and of the installation that works on it.
StageOK(rt, in) ==
    /\ in.stage \in {"prepare", "enable"} => rt.binary # "none"
    /\ in.stage = "succeeded" => Startable(rt)
SafeStage(in) == in.stage \in {"check", "verify", "prepare", "enable", "succeeded", "failed"}

\* The stage of an installation changes.
LEMMA AtStage ==
    ASSUME NEW rt \in Runtime, NEW in \in Installation, NEW stage \in Stages
    PROVE  /\ At(rt, in, stage).rt = rt /\ At(rt, in, stage).in \in Installation
           /\ At(rt, in, stage).in.stage = stage
  BY DEF At, Installation

\* A stage of an installation that fails changes nothing but its stage.
LEMMA FailedStage ==
    ASSUME NEW rt \in Runtime, NEW in \in Installation
    PROVE  LET after == Failed(rt, in) IN
           /\ after.rt = rt /\ after.in \in Installation
           /\ StageOK(after.rt, after.in) /\ SafeStage(after.in)
<1>1. "failed" \in Stages
  BY DEF Stages
<1> QED
  BY <1>1, AtStage DEF Failed, StageOK, SafeStage

\* The package brings its files.
LEMMA PackagedType ==
    ASSUME NEW rt \in Runtime
    PROVE  Packaged(rt) \in Runtime
<1> DEFINE config == IF rt.kind = "package" /\ rt.config = "none" THEN "package" ELSE rt.config
           enabled == rt.enabled \/ rt.kind = "package"
           running == rt.running \/ (rt.kind = "package" /\ ~rt.masked)
<1>1. config \in {"none", "package", "applied", "foreign"}
  BY DEF Runtime
<1>2. enabled \in BOOLEAN /\ running \in BOOLEAN
  BY DEF Runtime
<1>3. Packaged(rt) = [rt EXCEPT !.binary = "ours", !.unit = "ours", !.dirs = TRUE,
                                !.config = config, !.enabled = enabled, !.running = running]
  BY DEF Packaged
<1>4. "ours" \in Owners
  BY DEF Owners
<1> HIDE DEF config, enabled, running
<1> QED
  BY <1>1, <1>2, <1>3, <1>4 DEF Runtime

\* A stage that goes on to another one that asks nothing of the runtime.
LEMMA NextStage ==
    ASSUME NEW rt \in Runtime, NEW in \in Installation,
           NEW stage \in Stages \ {"prepare", "enable", "succeeded"}
    PROVE  LET after == At(rt, in, stage) IN
           /\ after.rt = rt /\ after.in \in Installation
           /\ StageOK(after.rt, after.in) /\ after.in.stage = stage
  BY AtStage DEF StageOK

\* The first look at the host.
LEMMA CheckStage ==
    ASSUME NEW rt \in Runtime, NEW in \in Installation, NEW after \in CheckExisting(rt, in)
    PROVE  /\ after.rt = rt /\ after.in \in Installation /\ StageOK(after.rt, after.in)
           /\ Startable(rt) => SafeStage(after.in)
<1> DEFINE found == [in EXCEPT !.existing = Present(rt), !.configured = rt.config # "none"]
           next == IF Present(rt) THEN "verify"
                   ELSE CASE rt.kind = "package" -> "mask"
                          [] rt.kind = "tools" -> "apt"
                          [] OTHER -> "binary"
<1>1. Present(rt) \in BOOLEAN
  BY DEF Present, Runtime
<1>2. found \in Installation
  BY <1>1 DEF Installation
<1>3. next \in {"verify", "mask", "apt", "binary"} /\ (Startable(rt) => next = "verify")
  BY DEF Startable, Present
<1>4. next \in Stages \ {"prepare", "enable", "succeeded"}
  BY <1>3 DEF Stages
<1>5. after = Failed(rt, in) \/ after = At(rt, found, next)
  BY DEF CheckExisting
<1> HIDE DEF found, next
<1>6. CASE after = Failed(rt, in)
  BY <1>6, FailedStage
<1>7. CASE after = At(rt, found, next)
  BY <1>2, <1>3, <1>4, <1>7, NextStage DEF SafeStage
<1> QED
  BY <1>5, <1>6, <1>7

\* The stages that put a runtime on the host.
LEMMA BuildingStage ==
    ASSUME NEW rt \in Runtime, NEW in \in Installation,
           in.stage \in {"mask", "apt", "unmask", "config", "binary", "unit", "dirs", "disable"},
           NEW after \in InstallStage(rt, in)
    PROVE  after.rt \in Runtime /\ after.in \in Installation /\ StageOK(after.rt, after.in)
<1> DEFINE Result(r, i) ==
              \E stage \in Stages \ {"prepare", "enable", "succeeded"} : after = At(r, i, stage)
<1>1. ASSUME NEW r \in Runtime, NEW i \in Installation, Result(r, i)
      PROVE  after.rt \in Runtime /\ after.in \in Installation /\ StageOK(after.rt, after.in)
  BY <1>1, NextStage
<1>2. {"apt", "unmask", "config", "unit", "dirs", "disable", "verify", "failed"}
         \subseteq Stages \ {"prepare", "enable", "succeeded"}
  BY DEF Stages
<1>3. Result(rt, in) \/ \E r \in Runtime, i \in Installation : Result(r, i)
  <2>1. CASE in.stage = "mask"
    <3>1. [rt EXCEPT !.masked = TRUE] \in Runtime
      BY DEF Runtime
    <3>2. after = At(rt, in, "failed") \/ after = At([rt EXCEPT !.masked = TRUE], in, "apt")
      BY <2>1 DEF InstallStage, MaskService, Failed
    <3> QED
      BY <1>2, <3>1, <3>2
  <2>2. CASE in.stage = "apt"
    <3>1. Packaged(rt) \in Runtime /\ [in EXCEPT !.failing = TRUE] \in Installation
      BY PackagedType DEF Installation
    <3>2. \E r \in {rt, Packaged(rt)}, i \in {in, [in EXCEPT !.failing = TRUE]},
             stage \in {"unmask", "verify", "failed"} : after = At(r, i, stage)
      BY <2>2 DEF InstallStage, AptInstall, Failed
    <3> QED
      BY <1>2, <3>1, <3>2
  <2>3. CASE in.stage = "unmask"
    <3>1. [rt EXCEPT !.masked = FALSE] \in Runtime
      BY DEF Runtime
    <3>2. \E r \in {rt, [rt EXCEPT !.masked = FALSE]}, stage \in {"config", "failed"} :
             after = At(r, in, stage)
      BY <2>3 DEF InstallStage, UnmaskService, Failed
    <3> QED
      BY <1>2, <3>1, <3>2
  <2>4. CASE in.stage = "config"
    <3>1. [rt EXCEPT !.config = "none"] \in Runtime
      BY DEF Runtime
    <3>2. \E r \in {rt, [rt EXCEPT !.config = "none"]}, stage \in {"disable", "failed"} :
             after = At(r, in, stage)
      BY <2>4 DEF InstallStage, RemovePackageConfig, Failed
    <3> QED
      BY <1>2, <3>1, <3>2
  <2>5. CASE in.stage = "binary"
    <3>1. [rt EXCEPT !.binary = "ours"] \in Runtime
      BY DEF Runtime, Owners
    <3>2. \E r \in {rt, [rt EXCEPT !.binary = "ours"]}, stage \in {"unit", "failed"} :
             after = At(r, in, stage)
      BY <2>5 DEF InstallStage, InstallBinary, Failed
    <3> QED
      BY <1>2, <3>1, <3>2
  <2>6. CASE in.stage = "unit"
    <3>1. [rt EXCEPT !.unit = "ours"] \in Runtime
      BY DEF Runtime, Owners
    <3>2. \E r \in {rt, [rt EXCEPT !.unit = "ours"]}, stage \in {"dirs", "failed"} :
             after = At(r, in, stage)
      BY <2>6 DEF InstallStage, InstallUnit, Failed
    <3> QED
      BY <1>2, <3>1, <3>2
  <2>7. CASE in.stage = "dirs"
    <3>1. [rt EXCEPT !.dirs = TRUE] \in Runtime
      BY DEF Runtime
    <3>2. \E r \in {rt, [rt EXCEPT !.dirs = TRUE]}, stage \in {"disable", "failed"} :
             after = At(r, in, stage)
      BY <2>7 DEF InstallStage, MakeDirectories, Failed
    <3> QED
      BY <1>2, <3>1, <3>2
  <2>8. CASE in.stage = "disable"
    <3>1. [rt EXCEPT !.enabled = FALSE, !.running = FALSE] \in Runtime
      BY DEF Runtime
    <3>2. \E r \in {rt, [rt EXCEPT !.enabled = FALSE, !.running = FALSE]},
             stage \in {"verify", "failed"} : after = At(r, in, stage)
      BY <2>8 DEF InstallStage, LeaveInactive, Failed
    <3> QED
      BY <1>2, <3>1, <3>2
  <2> QED
    BY <2>1, <2>2, <2>3, <2>4, <2>5, <2>6, <2>7, <2>8
<1> QED
  BY <1>1, <1>3

\* The stages that finish the installation of a runtime that is there.
LEMMA FinishingStage ==
    ASSUME NEW rt \in Runtime, NEW in \in Installation,
           in.stage \in {"verify", "prepare", "enable"}, StageOK(rt, in),
           NEW after \in InstallStage(rt, in)
    PROVE  /\ after.rt \in Runtime /\ after.in \in Installation /\ StageOK(after.rt, after.in)
           /\ SafeStage(after.in) /\ (Startable(rt) => Startable(after.rt))
<1>1. {"prepare", "enable", "succeeded"} \subseteq Stages
  BY DEF Stages
<1>2. CASE after = Failed(rt, in)
  BY <1>2, FailedStage
<1>3. CASE in.stage = "verify" /\ after = At(rt, in, "prepare") /\ rt.binary # "none"
  BY <1>1, <1>3, AtStage DEF StageOK, SafeStage
<1>4. CASE in.stage = "prepare" /\ after = At(rt, in, "enable")
  BY <1>1, <1>4, AtStage DEF StageOK, SafeStage
<1>5. CASE /\ in.stage = "enable" /\ ~rt.masked /\ rt.unit # "none"
           /\ after = At([rt EXCEPT !.enabled = TRUE], in, "succeeded")
  <2> DEFINE new == [rt EXCEPT !.enabled = TRUE]
  <2>1. new \in Runtime /\ Startable(new)
    BY <1>5 DEF Runtime, Startable, StageOK
  <2> HIDE DEF new
  <2>2. after.rt = new /\ after.in \in Installation /\ after.in.stage = "succeeded"
    BY <1>1, <1>5, <2>1, AtStage DEF new
  <2> QED
    BY <2>1, <2>2 DEF StageOK, SafeStage
<1>6. \/ after = Failed(rt, in)
      \/ in.stage = "verify" /\ after = At(rt, in, "prepare") /\ rt.binary # "none"
      \/ in.stage = "prepare" /\ after = At(rt, in, "enable")
      \/ /\ in.stage = "enable" /\ ~rt.masked /\ rt.unit # "none"
         /\ after = At([rt EXCEPT !.enabled = TRUE], in, "succeeded")
  <2>1. CASE in.stage = "verify"
    BY <2>1 DEF InstallStage, VerifyRuntime
  <2>2. CASE in.stage = "prepare"
    BY <2>2 DEF InstallStage, PrepareHost
  <2>3. CASE in.stage = "enable"
    BY <2>3 DEF InstallStage, EnableService
  <2> QED
    BY <2>1, <2>2, <2>3
<1> QED
  BY <1>2, <1>3, <1>4, <1>5, <1>6

\* Every stage keeps what InstallOK says.
LEMMA InstallStageInv ==
    ASSUME NEW rt \in Runtime, NEW in \in Installation, in.stage \notin {"succeeded", "failed"},
           StageOK(rt, in), NEW after \in InstallStage(rt, in)
    PROVE  /\ after.rt \in Runtime /\ after.in \in Installation /\ StageOK(after.rt, after.in)
           /\ Startable(rt) /\ SafeStage(in) => Startable(after.rt) /\ SafeStage(after.in)
<1>1. CASE in.stage = "check"
  <2>1. after \in CheckExisting(rt, in)
    BY <1>1 DEF InstallStage
  <2> QED
    BY <2>1, CheckStage
<1>2. CASE in.stage \in {"mask", "apt", "unmask", "config", "binary", "unit", "dirs", "disable"}
  BY <1>2, BuildingStage DEF SafeStage
<1>3. CASE in.stage \in {"verify", "prepare", "enable"}
  BY <1>3, FinishingStage
<1>4. in.stage \in Stages
  BY DEF Installation
<1> QED
  BY <1>1, <1>2, <1>3, <1>4 DEF Stages

\* InstallOK in these terms.
LEMMA InstallMeans ==
    ASSUME NEW n \in Nodes
    PROVE  InstallOK(n) <=> (Working(n, "installing") =>
              /\ Operation(n) = "install" /\ StageOK(host[n], task[n].in)
              /\ n \in ready => SafeStage(task[n].in))
  BY DEF InstallOK, StageOK, SafeStage

\* The installation begins.
LEMMA BeginInstallInv ==
    ASSUME NodeInv, NEW n \in Nodes, BeginInstall(n), UNCHANGED runVars
    PROVE  NodeInv'
<1> DEFINE new == [job |-> task[n].job, step |-> "installing", in |-> Begun]
<1>1. /\ task[n] # NoTask /\ Operation(n) = "install" /\ task' = [task EXCEPT ![n] = new]
      /\ UNCHANGED <<day, artifacts, host, newest, ready, jobs, managerVars, runVars>>
  BY DEF BeginInstall, Working, nodeVars
<1>2. /\ task[n].job \in DOMAIN jobs /\ task[n].job \in Nat /\ jobs[task[n].job].node = n
  BY <1>1, TaskForms
<1>3. Begun \in Installation /\ Begun.stage = "check"
  BY DEF Begun, Installation, Stages
<1>4. new \in InstallTask /\ new.step = "installing" /\ new.job = task[n].job /\ new.in = Begun
  BY <1>2, <1>3 DEF InstallTask
<1> HIDE DEF new
<1>5. new \in Tasks /\ new.step # "report" /\ task'[n] = new
  BY <1>1, <1>4 DEF Tasks, NodeInv, ProcessShape
<1>6. TaskOK(n)' /\ InstallOK(n)' /\ CleaningOK(n)'
  BY <1>1, <1>2, <1>3, <1>4, <1>5 DEF TaskOK, InstallOK, CleaningOK, Working, Operation
<1>7. NodeShape' /\ BackupOK(n)' /\ FilesKept /\ (n \in ready => Startable(host'[n]))
  BY <1>1 DEF NodeInv, NodeShape, HostInv, BackupOK, ReadyStaysStartable, FilesKept, Written
<1> QED
  BY <1>1, <1>5, <1>6, <1>7, TaskInv

\* The installation goes on, or fails.
LEMMA InstallStepInv ==
    ASSUME NodeInv, NEW n \in Nodes, InstallStep(n), UNCHANGED runVars
    PROVE  NodeInv'
<1>1. /\ task[n] # NoTask /\ task[n].step = "installing"
      /\ task[n].in.stage \notin {"succeeded", "failed"}
      /\ UNCHANGED <<day, artifacts, newest, ready, jobs, managerVars, runVars>>
  BY DEF InstallStep, Working
<1>2. PICK after \in InstallStage(host[n], task[n].in) :
         /\ host' = [host EXCEPT ![n] = after.rt]
         /\ task' = [task EXCEPT ![n].in = after.in]
  BY DEF InstallStep
<1>3. /\ task[n].job \in DOMAIN jobs /\ task[n].job \in Nat /\ jobs[task[n].job].node = n
      /\ task[n] \in InstallTask /\ host \in [Nodes -> Runtime] /\ host[n] \in Runtime
      /\ task[n].in \in Installation
  <2>1. /\ task[n].job \in DOMAIN jobs /\ task[n].job \in Nat /\ jobs[task[n].job].node = n
        /\ task[n] \in InstallTask
    BY <1>1, TaskForms
  <2> QED
    BY <2>1 DEF InstallTask, NodeInv, NodeShape
<1>4. Operation(n) = "install" /\ StageOK(host[n], task[n].in) /\ (n \in ready => SafeStage(task[n].in) /\ Startable(host[n]))
  BY <1>1, InstallMeans DEF NodeInv, AgentInv, HostInv, ReadyStaysStartable, Working
<1>5. /\ after.rt \in Runtime /\ after.in \in Installation /\ StageOK(after.rt, after.in)
      /\ n \in ready => Startable(after.rt) /\ SafeStage(after.in)
  <2> DEFINE rt == host[n]
             in == task[n].in
  <2>1. /\ rt \in Runtime /\ in \in Installation /\ in.stage \notin {"succeeded", "failed"}
        /\ StageOK(rt, in) /\ after \in InstallStage(rt, in)
        /\ n \in ready => Startable(rt) /\ SafeStage(in)
    BY <1>1, <1>3, <1>4
  <2> HIDE DEF rt, in
  <2> QED
    BY <2>1, InstallStageInv
<1> DEFINE new == [job |-> task[n].job, step |-> "installing", in |-> after.in]
<1>6. new \in InstallTask /\ new.step = "installing" /\ new.job = task[n].job /\ new.in = after.in
  BY <1>3, <1>5 DEF InstallTask
<1>7. task' = [task EXCEPT ![n] = new]
  <2>1. task' = [task EXCEPT ![n] = [task[n] EXCEPT !.in = after.in]]
    BY <1>2
  <2>2. [task[n] EXCEPT !.in = after.in] = new
    BY <1>1, <1>3 DEF InstallTask
  <2> QED
    BY <2>1, <2>2
<1> HIDE DEF new
<1>8. new \in Tasks /\ new.step # "report" /\ task'[n] = new
  BY <1>6, <1>7 DEF Tasks, NodeInv, ProcessShape
<1>9. /\ host' \in [Nodes -> Runtime] /\ host'[n] = after.rt
      /\ \A m \in Nodes \ {n} : host'[m] = host[m]
  BY <1>2, <1>3, <1>5
<1>10. TaskOK(n)' /\ CleaningOK(n)'
  BY <1>1, <1>3, <1>6, <1>8 DEF TaskOK, CleaningOK, Working
<1>11. InstallOK(n)'
  BY <1>1, <1>4, <1>5, <1>6, <1>8, <1>9 DEF InstallOK, StageOK, SafeStage, Working, Startable, Operation
<1>12. NodeShape' /\ BackupOK(n)' /\ FilesKept
  BY <1>1, <1>9 DEF NodeInv, NodeShape, HostInv, BackupOK, FilesKept, Written
<1>13. /\ n \in ready => Startable(host'[n])
       /\ \A m \in Nodes \ {n} : host'[m] = host[m] /\ artifacts'[m] = artifacts[m]
  BY <1>1, <1>5, <1>9
<1> QED
  BY <1>1, <1>7, <1>8, <1>10, <1>11, <1>12, <1>13, TaskInv

\* An installation that has succeeded leaves a runtime that can be started.
LEMMA EndInstallInv ==
    ASSUME NodeInv, NEW n \in Nodes, EndInstall(n), UNCHANGED runVars
    PROVE  NodeInv'
<1> DEFINE status == task[n].in.stage
<1>1. /\ task[n] # NoTask /\ task[n].step = "installing" /\ status \in {"succeeded", "failed"}
      /\ Finished(n, status, {})
      /\ ready' = IF status = "succeeded" THEN ready \cup {n} ELSE ready
      /\ UNCHANGED <<day, artifacts, host, newest, jobs, managerVars, runVars>>
  BY DEF EndInstall, Working
<1>2. status = "succeeded" => Startable(host[n])
  BY <1>1 DEF NodeInv, AgentInv, InstallOK, Working
<1>3. /\ host' \in [Nodes -> Runtime] /\ \A m \in Nodes \ {n} : host'[m] = host[m]
      /\ ready' \subseteq ready \cup {n} /\ (n \in ready' => Startable(host'[n]))
  BY <1>1, <1>2 DEF NodeInv, NodeShape, HostInv, ReadyStaysStartable
<1>4. {} \in Found /\ status \in Ended
  BY <1>1 DEF Found, Ended
<1>5. Operation(n) \notin Profiles \cup {"verify"}
  BY <1>1 DEF NodeInv, AgentInv, InstallOK, Working, Profiles
<1>6. ResultOf(Operation(n), status, {})
  BY <1>5 DEF ResultOf
<1> HIDE DEF status
<1> QED
  BY <1>1, <1>3, <1>4, <1>5, <1>6, FinishedInv

(***************************************************************************)
(* Applies                                                                 *)
(***************************************************************************)
\* A configuration apply writes its files at the present time; the backup
\* that it takes is the newest one.
LEMMA ConfigAppliedInv ==
    ASSUME NodeInv, NEW n \in Nodes, NEW v \in Versions, ConfigApplied(n, v), UNCHANGED runVars
    PROVE  NodeInv'
<1> DEFINE first == host[n].config # "applied"
           old == artifacts[n][v]
           row == [staged |-> day, backup |-> IF first THEN old.backup ELSE day]
<1>1. /\ task[n] = NoTask /\ artifacts' = [artifacts EXCEPT ![n][v] = row]
      /\ newest' = IF first THEN newest ELSE [newest EXCEPT ![n] = {v}]
      /\ host' = [host EXCEPT ![n].config = "applied", ![n].running = TRUE]
      /\ \A f \in OnDisk(n) : Written(n, f) < day
      /\ UNCHANGED <<day, jobs, task, managerVars, ready, runVars>>
  BY DEF ConfigApplied
<1>2. /\ day \in Nat \ {0} /\ host \in [Nodes -> Runtime]
      /\ artifacts \in [Nodes -> [Versions -> [staged : 0 .. day, backup : 0 .. day]]]
      /\ newest \in [Nodes -> SUBSET Versions] /\ ready \subseteq Nodes
  BY DEF NodeInv, NodeShape
<1>3. /\ row \in [staged : 0 .. day, backup : 0 .. day] /\ row.staged = day
      /\ row.backup = IF first THEN old.backup ELSE day
  BY <1>2
<1> HIDE DEF row
<1>4. artifacts' = [artifacts EXCEPT ![n] = [artifacts[n] EXCEPT ![v] = row]]
  BY <1>1
<1>5. /\ artifacts'[n] = [artifacts[n] EXCEPT ![v] = row]
      /\ \A m \in Nodes \ {n} : artifacts'[m] = artifacts[m]
      /\ artifacts' \in [Nodes -> [Versions -> [staged : 0 .. day, backup : 0 .. day]]]
  <2>1. [artifacts[n] EXCEPT ![v] = row] \in [Versions -> [staged : 0 .. day, backup : 0 .. day]]
    BY <1>2, <1>3
  <2> QED
    BY <1>2, <1>4, <2>1
<1>6. artifacts'[n][v] = row /\ \A w \in Versions \ {v} : artifacts'[n][w] = artifacts[n][w]
  BY <1>2, <1>5
<1>7. /\ host' \in [Nodes -> Runtime] /\ (Startable(host[n]) => Startable(host'[n]))
      /\ \A m \in Nodes \ {n} : host'[m] = host[m]
  <2> DEFINE new == [host[n] EXCEPT !.config = "applied", !.running = TRUE]
  <2>1. host[n] \in Runtime
    BY <1>2
  <2>2. new \in Runtime /\ (Startable(host[n]) => Startable(new))
    BY <2>1 DEF Runtime, Startable
  <2>3. host' = [host EXCEPT ![n] = new]
    BY <1>1
  <2> HIDE DEF new
  <2> QED
    BY <1>2, <2>2, <2>3
<1>8. newest' \in [Nodes -> SUBSET Versions] /\ \A m \in Nodes \ {n} : newest'[m] = newest[m]
  BY <1>1, <1>2
<1>9. NodeShape' /\ ProcessShape'
  BY <1>1, <1>2, <1>5, <1>7, <1>8 DEF NodeInv, NodeShape, ProcessShape, managerVars
<1>10. TaskOK(n)' /\ InstallOK(n)' /\ CleaningOK(n)' /\ ReportsKept
  BY <1>1, AgentIdle DEF ReportsKept
<1>11. FilesKept
  <2> SUFFICES ASSUME NEW m \in Nodes, NEW f \in Artifact
               PROVE  \/ artifacts'[m][f.version][f.root] = artifacts[m][f.version][f.root]
                      \/ artifacts'[m][f.version][f.root] >= day
    BY DEF FilesKept, Written
  <2>1. f.version \in Versions /\ (f.root = "staged" \/ f.root = "backup")
    BY DEF Artifact
  <2>2. CASE m = n /\ f.version = v
    BY <1>2, <1>3, <1>6, <2>1, <2>2
  <2>3. CASE ~(m = n /\ f.version = v)
    BY <1>5, <1>6, <2>1, <2>3
  <2> QED
    BY <2>2, <2>3
<1>12. BackupOK(n)'
  <2>1. CASE first
    <3>1. newest' = newest /\ \A w \in Versions : artifacts'[n][w].backup = artifacts[n][w].backup
      BY <1>1, <1>3, <1>6, <2>1
    <3> QED
      BY <3>1 DEF NodeInv, HostInv, BackupOK
  <2>2. CASE ~first
    <3>1. newest'[n] = {v} /\ artifacts'[n][v].backup = day
      BY <1>1, <1>2, <1>3, <1>6, <2>2
    <3>2. ASSUME NEW w \in Versions \ {v} PROVE artifacts'[n][w].backup < day
      <4> DEFINE f == [root |-> "backup", version |-> w]
      <4>1. f \in Artifact /\ Written(n, f) = artifacts[n][w].backup
        BY DEF Artifact, Written
      <4>2. artifacts[n][w].backup = 0 \/ artifacts[n][w].backup < day
        <5> HIDE DEF f
        <5> QED
          BY <1>1, <4>1 DEF OnDisk
      <4> QED
        BY <1>2, <1>6, <4>2
    <3> QED
      BY <1>2, <3>1, <3>2 DEF BackupOK
  <2> QED
    BY <2>1, <2>2
<1>13. ready' \subseteq ready \cup {n} /\ (n \in ready' => Startable(host[n])')
  BY <1>1, <1>7 DEF NodeInv, HostInv, ReadyStaysStartable, Startable
<1>14. UNCHANGED <<day, jobs, plans, analysis, execution, runVars>>
  BY <1>1 DEF managerVars
<1>15. \A m \in Nodes \ {n} :
              /\ task'[m] = task[m] /\ host'[m] = host[m]
              /\ artifacts'[m] = artifacts[m] /\ newest'[m] = newest[m]
  BY <1>1, <1>5, <1>7, <1>8
<1> QED
  BY <1>9, <1>10, <1>11, <1>12, <1>13, <1>14, <1>15, AgentWorks

(***************************************************************************)
(* The theorems                                                            *)
(***************************************************************************)
\* What an Agent does keeps the invariant.
LEMMA AgentStepInv ==
    ASSUME NodeInv, NEW n \in Nodes, AgentStep(n), UNCHANGED runVars
    PROVE  NodeInv'
<1>1. CASE ClaimTask(n) \/ CloseOrphan(n) \/ CompleteTask(n)
  BY <1>1, ClaimTaskInv, CloseOrphanInv, CompleteTaskInv
<1>2. CASE ServiceOperation(n) \/ processDiagnosticTask(n)
  BY <1>2, ServiceOperationInv, processDiagnosticTaskInv
<1>3. CASE BeginInstall(n) \/ InstallStep(n) \/ EndInstall(n)
  BY <1>3, BeginInstallInv, InstallStepInv, EndInstallInv
<1>4. CASE AnalyzeArtifacts(n) \/ VerifyArtifacts(n)
  BY <1>4, AnalyzeArtifactsInv, VerifyArtifactsInv
<1>5. CASE BeginCleanup(n) \/ DeleteArtifact(n)
  BY <1>5, BeginCleanupInv, DeleteArtifactInv
<1> QED
  BY <1>1, <1>2, <1>3, <1>4, <1>5 DEF AgentStep

\* So do the requests about plans.
LEMMA PlanNextInv ==
    ASSUME NodeInv, PlanNext, UNCHANGED runVars
    PROVE  NodeInv'
<1>1. CASE BeginPlan \/ CreatePlan \/ AbandonPlan
  BY <1>1, BeginPlanInv, CreatePlanInv, AbandonPlanInv
<1>2. CASE \E p \in DOMAIN plans : Acquire(p)
  BY <1>2, AcquireInv
<1>3. CASE StartCleanup \/ StartVerify \/ EndVerify
  BY <1>3, StartCleanupInv, StartVerifyInv, EndVerifyInv
<1>4. CASE StopWaiting \/ FinishPlan
  BY <1>4, StopWaitingInv, FinishPlanInv
<1> QED
  BY <1>1, <1>2, <1>3, <1>4 DEF PlanNext

\* Every step keeps the invariant.
LEMMA NextInv ==
    ASSUME NodeInv, [Next]_vars
    PROVE  NodeInv'
<1>1. ASSUME NEW n \in Nodes, Requested(n), UNCHANGED runVars PROVE NodeInv'
  <2>1. ASSUME NEW operation \in {"start", "stop", "restart"}, CreateVPNCoreOperation(n, operation)
        PROVE  NodeInv'
    <3>1. /\ CreateAgentOperationJob(n, operation) /\ operation \in NodeOps \ (Profiles \cup {"cleanup"})
          /\ UNCHANGED <<nodeVars, task, managerVars, runVars>>
      BY <1>1, <2>1 DEF CreateVPNCoreOperation, NodeOps, Profiles
    <3> QED
      BY <3>1, RequestedInv
  <2>2. CASE CreateVPNCoreInstallation(n)
    <3>1. /\ CreateAgentOperationJob(n, "install") /\ "install" \in NodeOps \ (Profiles \cup {"cleanup"})
          /\ UNCHANGED <<nodeVars, task, managerVars, runVars>>
      BY <1>1, <2>2 DEF CreateVPNCoreInstallation, NodeOps, Profiles
    <3> QED
      BY <3>1, RequestedInv
  <2>3. CASE \E v \in Versions : ConfigApplied(n, v)
    BY <1>1, <2>3, ConfigAppliedInv
  <2> QED
    BY <1>1, <2>1, <2>2, <2>3 DEF Requested
<1>2. ASSUME NEW n \in Nodes, AgentStep(n) \/ AgentRestart(n) \/ Reboot(n), UNCHANGED runVars
      PROVE  NodeInv'
  BY <1>2, AgentStepInv, AgentRestartInv, RebootInv
<1>3. ASSUME PlanNext \/ NextDay, UNCHANGED runVars PROVE NodeInv'
  BY <1>3, PlanNextInv, NextDayInv
<1>4. ASSUME NEW n \in Nodes, NEW profile \in Profiles, CreateDiagnostic(n, profile) PROVE NodeInv'
  BY <1>4, DiagnosticInv
<1>5. CASE SyncStep \/ SyncFails \/ ManagerRestart
  BY <1>5, SyncRunsInv, TerminalInv, SyncFailsInv, ManagerRestartInv DEF SyncStep
<1>6. CASE UNCHANGED vars
  <2>1. UNCHANGED <<nodeVars, jobs, task, managerVars>> /\ runs' = runs /\ sync' = sync
    BY <1>6 DEF vars, nodeVars, managerVars
  <2>2. runs \in Seq(RunRow) /\ sync \subseteq DOMAIN runs /\ \A r \in sync : jobs[runs[r].job].status \in Ended
    BY DEF NodeInv, TableShape, JobInv
  <2> QED
    BY <2>1, <2>2, RunSteps
<1> QED
  BY <1>1, <1>2, <1>3, <1>4, <1>5, <1>6 DEF Next

\* The invariant gives every variable the shape that TypeOK states.
LEMMA NodeInvType ==
    ASSUME NodeInv
    PROVE  TypeOK
<1>1. /\ day \in Nat /\ host \in [Nodes -> Runtime] /\ ready \subseteq Nodes
      /\ artifacts \in [Nodes -> [Versions -> [staged : 0 .. day, backup : 0 .. day]]]
  BY DEF NodeInv, NodeShape
<1>2. ASSUME NEW i \in DOMAIN jobs
      PROVE  /\ jobs[i].node \in Nodes /\ jobs[i].status \in JobStatuses
             /\ jobs[i].candidates \subseteq Artifact
             /\ jobs[i].operation \notin Profiles => jobs[i].result \subseteq Artifact
  BY Rows DEF NodeInv, JobRow, JobInv, ResultOf
<1>3. /\ sync \subseteq DOMAIN runs
      /\ \A r \in DOMAIN runs : /\ runs[r].job \in DOMAIN jobs
                                /\ runs[r].status \in {"queued", "running"} \cup Ended
  BY Rows DEF NodeInv, TableShape, JobInv, RunRow
<1>4. ASSUME NEW n \in Nodes PROVE task[n].job \in 0 .. Len(jobs)
  BY Rows DEF NodeInv, AgentInv, TaskOK, NoTask
<1>5. ASSUME NEW p \in DOMAIN plans
      PROVE  /\ plans[p].status \in {"planned", "running", "succeeded", "failed", "expired"}
             /\ plans[p].snapshot \in [Nodes -> SUBSET Artifact]
  BY Rows DEF NodeInv, PlanRow
<1> QED
  BY <1>1, <1>2, <1>3, <1>4, <1>5 DEF TypeOK

\* The invariant holds in every state.
THEOREM NodeInvariance == Spec => []NodeInv
<1>1. Init => NodeInv
  BY InitInv
<1>2. NodeInv /\ [Next]_vars => NodeInv'
  BY NextInv
<1> QED
  BY <1>1, <1>2, PTL DEF Spec

\* Jobs, plans, diagnostic runs, files and tasks have the shape of their
\* tables and files.
THEOREM NodeTypeCorrect == Spec => []TypeOK
<1>1. NodeInv => TypeOK
  BY NodeInvType
<1> QED
  BY <1>1, NodeInvariance, PTL

\* The backup written last on a node is never removed, however late the Agent
\* takes up a cleanup and whatever was applied since its analysis.
THEOREM NewestIsKept == Spec => []NewestBackupKept
<1>1. NodeInv => NewestBackupKept
  BY DEF NodeInv, HostInv, BackupOK, NewestBackupKept
<1> QED
  BY <1>1, NodeInvariance, PTL

\* A plan reported as succeeded has removed what it lists from every node.
THEOREM SuccessMeansGone == Spec => []SucceededIsGone
<1>1. NodeInv => SucceededIsGone
  BY DEF NodeInv, PlanInv, Gone, SucceededIsGone
<1> QED
  BY <1>1, NodeInvariance, PTL

\* No interrupted or failing installation takes the runtime away that an
\* earlier one has reported as installed.
THEOREM InstalledStaysStartable == Spec => []ReadyStaysStartable
<1>1. NodeInv => ReadyStaysStartable
  BY DEF NodeInv, HostInv
<1> QED
  BY <1>1, NodeInvariance, PTL

\* A cleanup removes one of its files at a time.
LEMMA RemovesOne ==
    ASSUME NodeInv, NEW n \in Nodes, DeleteArtifact(n), artifacts' # artifacts
    PROVE  /\ Working(n, "cleaning") /\ \A k \in Nodes \ {n} : artifacts'[k] = artifacts[k]
           /\ \E f \in task[n].left :
                 /\ f \in Artifact
                 /\ \A g \in Artifact \ {f} :
                       artifacts'[n][g.version][g.root] = artifacts[n][g.version][g.root]
<1>1. PICK f \in task[n].left : artifacts' = [artifacts EXCEPT ![n][f.version][f.root] = 0]
  BY DEF DeleteArtifact
<1>2. Working(n, "cleaning") /\ f \in Artifact
  <2>1. task[n] # NoTask /\ task[n].step = "cleaning"
    BY DEF DeleteArtifact, Working
  <2>2. task[n] \in CleaningTask
    BY <2>1, TaskForms
  <2> QED
    BY <2>1, <2>2 DEF Working, CleaningTask
<1>3. NodeShape /\ f \in Artifact /\ 0 \in 0 .. day /\ artifacts' = FilesWith(n, f, 0)
  BY <1>1, <1>2 DEF NodeInv, NodeShape, FilesWith
<1>4. /\ \A k \in Nodes \ {n} : artifacts'[k] = artifacts[k]
      /\ \A g \in Artifact \ {f} :
            artifacts'[n][g.version][g.root] = artifacts[n][g.version][g.root]
  BY <1>3, OneFile
<1> QED
  BY <1>2, <1>4

\* What disappears from a disk is what a cleanup removes.
LEMMA RemovedByCleanup ==
    ASSUME NodeInv, [Next]_vars, NEW n \in Nodes, NEW f \in Removed(n)
    PROVE  /\ Working(n, "cleaning") /\ f \in task[n].left /\ f \in Artifact
<1>1. f \in Artifact /\ Written(n, f) # 0 /\ artifacts'[n][f.version][f.root] = 0
  BY DEF Removed
<1>2. artifacts' # artifacts
  BY <1>1 DEF Written
<1>3. ASSUME NEW m \in Nodes, NEW v \in Versions, ConfigApplied(m, v) PROVE FALSE
  <2> DEFINE row == [staged |-> day,
                     backup |-> IF host[m].config # "applied" THEN artifacts[m][v].backup ELSE day]
  <2>1. /\ artifacts \in [Nodes -> [Versions -> [staged : 0 .. day, backup : 0 .. day]]]
        /\ day \in Nat \ {0} /\ f.version \in Versions /\ f.root \in {"staged", "backup"}
    BY <1>1 DEF NodeInv, NodeShape, Artifact
  <2>2. artifacts' = [artifacts EXCEPT ![m] = [artifacts[m] EXCEPT ![v] = row]]
    BY <1>3 DEF ConfigApplied
  <2>3. m = n /\ f.version = v
    BY <1>1, <2>1, <2>2 DEF Written
  <2>4. artifacts'[n][v] = row
    BY <2>1, <2>2, <2>3
  <2>5. f.root = "staged" => row[f.root] = day
    OBVIOUS
  <2>6. f.root = "backup" => row[f.root] \in {Written(n, f), day}
    BY <2>3 DEF Written
  <2> QED
    BY <1>1, <2>1, <2>3, <2>4, <2>5, <2>6
<1>4. \E m \in Nodes : DeleteArtifact(m)
  <2>1. \A m \in Nodes : AgentStep(m) => DeleteArtifact(m)
    BY <1>2 DEF AgentStep, ClaimTask, CloseOrphan, CompleteTask, ServiceOperation,
                processDiagnosticTask, BeginInstall, InstallStep, EndInstall, AnalyzeArtifacts,
                BeginCleanup, VerifyArtifacts, nodeVars
  <2>2. \A m \in Nodes : ~Requested(m)
    BY <1>2, <1>3 DEF Requested, CreateVPNCoreOperation, CreateVPNCoreInstallation, nodeVars
  <2>3. \A m \in Nodes : ~AgentRestart(m) /\ ~Reboot(m)
    BY <1>2 DEF AgentRestart, Reboot, nodeVars
  <2>4. ~PlanNext
    BY <1>2 DEF PlanNext, BeginPlan, CreatePlan, AbandonPlan, Acquire, StartCleanup, StartVerify,
                EndVerify, StopWaiting, FinishPlan, nodeVars
  <2>5. ~NextDay /\ ~SyncStep /\ ~SyncFails /\ ~ManagerRestart /\ ~UNCHANGED vars
        /\ \A m \in Nodes, profile \in Profiles : ~CreateDiagnostic(m, profile)
    BY <1>2 DEF NextDay, SyncStep, SyncRuns, markDiagnosticTerminal, SyncFails, ManagerRestart,
                CreateDiagnostic, nodeVars, vars
  <2> QED
    BY <2>1, <2>2, <2>3, <2>4, <2>5 DEF Next
<1>5. PICK m \in Nodes : DeleteArtifact(m)
  BY <1>4
<1>6. /\ Working(m, "cleaning") /\ \A k \in Nodes \ {m} : artifacts'[k] = artifacts[k]
      /\ \E g \in task[m].left :
            /\ g \in Artifact
            /\ \A h \in Artifact \ {g} :
                  artifacts'[m][h.version][h.root] = artifacts[m][h.version][h.root]
  BY <1>2, <1>5, RemovesOne
<1>7. m = n /\ f \in task[m].left
  BY <1>1, <1>6 DEF Written
<1> QED
  BY <1>1, <1>6, <1>7

\* What is removed from a node was listed for that node in a plan that its
\* creator has confirmed, and is older than the cutoff of that plan.
THEOREM OnlyConfirmedIsRemoved == Spec => OnlyConfirmedRemoved
<1> DEFINE Confirmed == \A n \in Nodes : \A f \in Removed(n) : \E p \in DOMAIN plans :
              plans[p].confirmed /\ f \in plans[p].snapshot[n] /\ Written(n, f) < plans[p].cutoff
<1>1. NodeInv /\ [Next]_vars => Confirmed
  <2> SUFFICES ASSUME NodeInv, [Next]_vars, NEW n \in Nodes, NEW f \in Removed(n)
               PROVE  \E p \in DOMAIN plans :
                         /\ plans[p].confirmed /\ f \in plans[p].snapshot[n]
                         /\ Written(n, f) < plans[p].cutoff
    OBVIOUS
  <2> DEFINE job == jobs[task[n].job]
  <2>1. Working(n, "cleaning") /\ f \in task[n].left
    BY RemovedByCleanup
  <2>2. job.operation = "cleanup" /\ f \in job.candidates /\ Written(n, f) < job.cutoff
    BY <2>1 DEF NodeInv, AgentInv, CleaningOK, Operation
  <2>3. task[n].job \in DOMAIN jobs /\ job.node = n
    BY <2>1, TaskForms DEF Working
  <2>4. FromPlan(job)
    BY <2>2, <2>3 DEF NodeInv, CleanupInv
  <2> QED
    BY <2>2, <2>3, <2>4 DEF FromPlan
<1> QED
  BY <1>1, NodeInvariance, PTL DEF Spec, OnlyConfirmedRemoved
=============================================================================
