------------------------------ MODULE Identity ------------------------------
(***************************************************************************)
(* Manager users, their sessions, the one-time link of the initial setup   *)
(* and the administration of users and roles                               *)
(* (backend/internal/auth, setup, users; the bootstrap in app).            *)
(*                                                                         *)
(* A request is authenticated from a session, and from then on acts with   *)
(* the profile it read: the session may be revoked, the user disabled or   *)
(* its roles changed before the handler's own statements run.  One step is *)
(* one transaction, or one read whose result a later transaction relies on.*)
(* Passwords are the numbers of their (salted) hashes: every write of      *)
(* password_hash stores a new one.  A request that is refused changes      *)
(* nothing and simply ends (End).                                          *)
(***************************************************************************)
EXTENDS Naturals, Sequences, FiniteSets

CONSTANTS
    Users,        \* rows of users that may ever exist
    Bootstrap,    \* the user of ROUTEGATE_BOOTSTRAP_ADMIN_EMAIL
    RoleSets,     \* the sets of roles that are assigned
    Requests,     \* concurrent requests
    MaxHashes,    \* bound: passwords ever stored
    MaxSessions,  \* bound: sessions ever opened
    MaxLinks,     \* bound: setup links ever created
    MaxEdits,     \* bound: changes of users by administrators
    MaxRestarts   \* bound: starts of the Manager

(* The permissions the handlers below ask for, and the built-in roles that  *)
(* carry them.                                                              *)
Permissions ==
    {"system:manage", "users:create", "users:update", "users:disable", "roles:assign"}

BuiltInRoles ==
    [super_admin |-> Permissions,
     admin       |-> Permissions \ {"system:manage"},
     operator    |-> {}, read_only |-> {}, vpn_user |-> {}]

ASSUME IdentityAssumption ==
    /\ Bootstrap \in Users
    /\ RoleSets \subseteq SUBSET DOMAIN BuiltInRoles
    /\ {MaxHashes, MaxSessions, MaxLinks, MaxEdits, MaxRestarts} \subseteq Nat

VARIABLES
    up,         \* the Manager serves requests
    users,      \* users, user_roles: status, roles, hash, setup, and two notes:
                \* own (the last password the user chose itself) and kept (the
                \* session that chose it)
    sessions,   \* auth_sessions: user, live, verified (the password that was
                \* checked), late (opened although it had been replaced)
    links,      \* initial_setup_tokens: user, open (neither used nor expired)
    req,        \* requests in progress
    edits, restarts

identityVars == <<up, users, sessions, links, req, edits, restarts>>

Hashes == 0 .. MaxHashes

(* The permission each route asks for. *)
RequiredPermission ==
    [create_token |-> "system:manage", create_user |-> "users:create",
     update |-> "users:update", disable |-> "users:disable", enable |-> "users:disable"]

Idle == [op |-> "idle"]

Exists(u) == users[u].status # "absent"
Active(u) == users[u].status = "active"
SuperAdmins == {u \in Users : "super_admin" \in users[u].roles}

(* Every write stores a hash that has never been used. *)
Fresh == CHOOSE h \in 1 .. MaxHashes + 1 : \A u \in Users : users[u].hash < h

(* UserByToken: the session is neither revoked nor expired, the user active.*)
Valid(s) == sessions[s].live /\ Active(sessions[s].user)

HasPermission(r, p) == \E role \in req[r].roles : p \in BuiltInRoles[role]

Serving(r, op) == up /\ req[r].op = op

(* The request is past Middleware, and past RequirePermission of the route. *)
Authorized(r) == Serving(r, "authorized")
Permitted(r, route) == Authorized(r) /\ HasPermission(r, RequiredPermission[route])
Done(r) == req' = [req EXCEPT ![r] = Idle]

Absent == [status |-> "absent", roles |-> {}, hash |-> 0, setup |-> FALSE,
           own |-> 0, kept |-> 0]

IdentityInit ==
    /\ up = FALSE
    /\ users = [u \in Users |-> Absent]
    /\ sessions = <<>>
    /\ links = <<>>
    /\ req = [r \in Requests |-> Idle]
    /\ edits = 0
    /\ restarts = 0

-----------------------------------------------------------------------------
(* A start of the Manager.  Requests of the old process are gone.  If nobody*)
(* has the super_admin role the bootstrap user is inserted; when that e-mail*)
(* is taken the insert fails and so does the start.                         *)
Start ==
    /\ restarts < MaxRestarts
    /\ restarts' = restarts + 1
    /\ req' = [r \in Requests |-> Idle]
    /\ \/ /\ SuperAdmins # {}
          /\ up' = TRUE
          /\ UNCHANGED users
       \/ /\ SuperAdmins = {} /\ ~Exists(Bootstrap)
          /\ Fresh <= MaxHashes
          /\ up' = TRUE
          /\ users' = [users EXCEPT ![Bootstrap] =
                [Absent EXCEPT !.status = "active", !.roles = {"super_admin"}, !.hash = Fresh]]
       \/ /\ SuperAdmins = {} /\ Exists(Bootstrap)
          /\ up' = FALSE
          /\ UNCHANGED users
    /\ UNCHANGED <<sessions, links, edits>>

-----------------------------------------------------------------------------
(* Login, first half: the hash is read without a lock and verified. *)
Authenticate(r, u) ==
    /\ Serving(r, "idle")
    /\ Active(u) /\ users[u].hash # 0
    /\ req' = [req EXCEPT ![r] = [op |-> "login", user |-> u, hash |-> users[u].hash]]
    /\ UNCHANGED <<up, users, sessions, links, edits, restarts>>

(* Login, second half: the session is inserted, whatever has happened since.*)
OpenSession(r) ==
    /\ Serving(r, "login")
    /\ Len(sessions) < MaxSessions
    /\ LET u == req[r].user IN
       sessions' = Append(sessions, [user |-> u, live |-> TRUE, verified |-> req[r].hash,
                                     late |-> req[r].hash < users[u].own])
    /\ Done(r)
    /\ UNCHANGED <<up, users, links, edits, restarts>>

(* Middleware: the profile with its roles is read, once, and kept. *)
Authorize(r, s) ==
    /\ Serving(r, "idle")
    /\ Valid(s)
    /\ LET u == sessions[s].user IN
       req' = [req EXCEPT ![r] = [op |-> "authorized", user |-> u, session |-> s,
                                  roles |-> users[u].roles]]
    /\ UNCHANGED <<up, users, sessions, links, edits, restarts>>

(* Refusals, failed statements and clients that went away. *)
End(r) ==
    /\ req[r].op # "idle"
    /\ Done(r)
    /\ UNCHANGED <<up, users, sessions, links, edits, restarts>>

-----------------------------------------------------------------------------
(* Sessions.  The notes of a session that is over are cleared. *)

Revoked(S) == [s \in DOMAIN sessions |->
                  IF s \in S THEN [user |-> sessions[s].user, live |-> FALSE,
                                   verified |-> 0, late |-> FALSE]
                             ELSE sessions[s]]

SessionsOf(u) == {s \in DOMAIN sessions : sessions[s].user = u}

Logout(r) ==
    /\ Authorized(r)
    /\ sessions' = Revoked({req[r].session})
    /\ Done(r)
    /\ UNCHANGED <<up, users, links, edits, restarts>>

RevokeSecuritySession(r, s) ==
    /\ Authorized(r)
    /\ s \in SessionsOf(req[r].user) \ {req[r].session}
    /\ sessions' = Revoked({s})
    /\ Done(r)
    /\ UNCHANGED <<up, users, links, edits, restarts>>

RevokeOtherSecuritySessions(r) ==
    /\ Authorized(r)
    /\ sessions' = Revoked(SessionsOf(req[r].user) \ {req[r].session})
    /\ Done(r)
    /\ UNCHANGED <<up, users, links, edits, restarts>>

Expire(s) ==
    /\ sessions[s].live
    /\ sessions' = Revoked({s})
    /\ UNCHANGED <<up, users, links, req, edits, restarts>>

-----------------------------------------------------------------------------
(* Initial setup. *)

Closed(u) == [l \in DOMAIN links |->
                 IF links[l].user = u THEN [links[l] EXCEPT !.open = FALSE] ELSE links[l]]

CreateToken_Kept(r) ==
    /\ Permitted(r, "create_token")
    /\ Len(links) < MaxLinks
    /\ ~users[req[r].user].setup
    /\ links' = Append(links, [user |-> req[r].user, open |-> TRUE])
    /\ Done(r)
    /\ UNCHANGED <<up, users, sessions, edits, restarts>>

(* The user row is locked; the links made before are used up. *)
CreateToken(r) ==
    /\ Permitted(r, "create_token")
    /\ Len(links) < MaxLinks
    /\ ~users[req[r].user].setup
    /\ links' = Append(Closed(req[r].user), [user |-> req[r].user, open |-> TRUE])
    /\ Done(r)
    /\ UNCHANGED <<up, users, sessions, edits, restarts>>

ExpireLink(l) ==
    /\ links[l].open
    /\ links' = [links EXCEPT ![l].open = FALSE]
    /\ UNCHANGED <<up, users, sessions, req, edits, restarts>>

(* What Inspect shows and Complete accepts. *)
Usable(l) == links[l].open /\ Active(links[l].user) /\ ~users[links[l].user].setup

Complete_KeepsSessions(l) ==
    LET u == links[l].user IN
    /\ up /\ Usable(l)
    /\ Fresh <= MaxHashes /\ Len(sessions) < MaxSessions
    /\ users' = [users EXCEPT ![u].hash = Fresh, ![u].setup = TRUE, ![u].own = Fresh,
                              ![u].kept = Len(sessions) + 1]
    /\ links' = [links EXCEPT ![l].open = FALSE]
    /\ sessions' = Append(sessions, [user |-> u, live |-> TRUE, verified |-> Fresh, late |-> FALSE])
    /\ UNCHANGED <<up, req, edits, restarts>>

(* The holder of the link chooses the password: one transaction stores it,  *)
(* marks the setup done, consumes the link, revokes every session of the    *)
(* user and opens a new one.                                                *)
Complete(l) ==
    LET u == links[l].user IN
    /\ up /\ Usable(l)
    /\ Fresh <= MaxHashes /\ Len(sessions) < MaxSessions
    /\ users' = [users EXCEPT ![u].hash = Fresh, ![u].setup = TRUE, ![u].own = Fresh,
                              ![u].kept = Len(sessions) + 1]
    /\ links' = [links EXCEPT ![l].open = FALSE]
    /\ sessions' = Append(Revoked(SessionsOf(u)),
                          [user |-> u, live |-> TRUE, verified |-> Fresh, late |-> FALSE])
    /\ UNCHANGED <<up, req, edits, restarts>>

-----------------------------------------------------------------------------
(* ChangePassword: the current hash is read and verified ... *)
CheckPassword(r) ==
    /\ Authorized(r)
    /\ Active(req[r].user)
    /\ req' = [req EXCEPT ![r] = [op |-> "replace_password", user |-> @.user, session |-> @.session]]
    /\ UNCHANGED <<up, users, sessions, links, edits, restarts>>

(* ... and replaced in a transaction that revokes the user's other sessions.*)
ReplacePassword(r) ==
    LET u == req[r].user IN
    /\ Serving(r, "replace_password")
    /\ Fresh <= MaxHashes
    /\ users' = [users EXCEPT ![u].hash = Fresh, ![u].own = Fresh, ![u].kept = req[r].session]
    /\ sessions' = Revoked(SessionsOf(u) \ {req[r].session})
    /\ Done(r)
    /\ UNCHANGED <<up, links, edits, restarts>>

-----------------------------------------------------------------------------
(* Administration of users. *)

Edit == edits < MaxEdits /\ edits' = edits + 1

CreateUser(r, u, roles) ==
    /\ Permitted(r, "create_user")
    /\ ~Exists(u)
    /\ roles # {} => HasPermission(r, "roles:assign")
    /\ Fresh <= MaxHashes
    /\ users' = [users EXCEPT ![u] =
          [Absent EXCEPT !.status = "active", !.roles = roles, !.hash = Fresh]]
    /\ Done(r)
    /\ UNCHANGED <<up, sessions, links, edits, restarts>>

(* Both counts are plain reads: nothing keeps them true until the write. *)
IsLastActiveSuperAdmin(u) ==
    /\ u \in SuperAdmins
    /\ Cardinality({v \in SuperAdmins : Active(v)}) <= 1

RemovesLastSuperAdmin(u, roles) ==
    /\ "super_admin" \notin roles
    /\ u \in SuperAdmins
    /\ Cardinality(SuperAdmins) <= 1

(* Disable: the check, then an update of the status. *)
CheckDisable(r, u) ==
    /\ Permitted(r, "disable")
    /\ Exists(u)
    /\ ~IsLastActiveSuperAdmin(u)
    /\ req' = [req EXCEPT ![r] = [op |-> "set_status", target |-> u, status |-> "disabled"]]
    /\ UNCHANGED <<up, users, sessions, links, edits, restarts>>

SetStatus(r) ==
    /\ Serving(r, "set_status")
    /\ users' = [users EXCEPT ![req[r].target].status = req[r].status]
    /\ Edit
    /\ Done(r)
    /\ UNCHANGED <<up, sessions, links, restarts>>

Enable(r, u) ==
    /\ Permitted(r, "enable")
    /\ Exists(u)
    /\ users' = [users EXCEPT ![u].status = "active"]
    /\ Edit
    /\ Done(r)
    /\ UNCHANGED <<up, sessions, links, restarts>>

(* Update: the checks of the fields that are present (status "same" and {}  *)
(* for the roles are absent fields), then one transaction.  A password set  *)
(* here revokes no session.                                                 *)
CheckUpdate(r, u, status, roles, password) ==
    /\ Permitted(r, "update")
    /\ Exists(u)
    /\ roles # {} => HasPermission(r, "roles:assign")
    /\ status = "disabled" => ~IsLastActiveSuperAdmin(u)
    /\ roles # {} => ~RemovesLastSuperAdmin(u, roles)
    /\ req' = [req EXCEPT ![r] = [op |-> "set_user", target |-> u, status |-> status,
                                  roles |-> roles, password |-> password]]
    /\ UNCHANGED <<up, users, sessions, links, edits, restarts>>

SetUser(r) ==
    LET q == req[r] IN
    /\ Serving(r, "set_user")
    /\ q.password => Fresh <= MaxHashes
    /\ users' = [users EXCEPT ![q.target].status = IF q.status = "same" THEN @ ELSE q.status,
                              ![q.target].roles = IF q.roles = {} THEN @ ELSE q.roles,
                              ![q.target].hash = IF q.password THEN Fresh ELSE @]
    /\ Edit
    /\ Done(r)
    /\ UNCHANGED <<up, sessions, links, restarts>>

-----------------------------------------------------------------------------
(* The edits of a user that are tried: one field at a time. *)
Edits ==
    {[status |-> "disabled", roles |-> {}, password |-> FALSE],
     [status |-> "same", roles |-> {}, password |-> TRUE]} \cup
    {[status |-> "same", roles |-> roles, password |-> FALSE] : roles \in RoleSets}

UserAdministration(r) ==
    \E u \in Users :
        \/ \E roles \in RoleSets : CreateUser(r, u, roles)
        \/ CheckDisable(r, u)
        \/ Enable(r, u)
        \/ \E e \in Edits : CheckUpdate(r, u, e.status, e.roles, e.password)

Request(r) ==
    \/ \E u \in Users : Authenticate(r, u)
    \/ OpenSession(r)
    \/ \E s \in DOMAIN sessions : Authorize(r, s)
    \/ Logout(r)
    \/ \E s \in DOMAIN sessions : RevokeSecuritySession(r, s)
    \/ RevokeOtherSecuritySessions(r)
    \/ CreateToken(r)
    \/ CheckPassword(r)
    \/ ReplacePassword(r)
    \/ UserAdministration(r)
    \/ SetStatus(r)
    \/ SetUser(r)
    \/ End(r)

IdentityNext ==
    \/ Start
    \/ \E r \in Requests : Request(r)
    \/ \E l \in DOMAIN links : Complete(l) \/ ExpireLink(l)
    \/ \E s \in DOMAIN sessions : Expire(s)

IdentitySpec == IdentityInit /\ [][IdentityNext]_identityVars

-----------------------------------------------------------------------------
User == [status : {"absent", "active", "disabled"}, roles : RoleSets \cup {{}, {"super_admin"}},
         hash : Hashes, setup : BOOLEAN, own : Hashes, kept : 0 .. MaxSessions]

Session == [user : Users, live : BOOLEAN, verified : Hashes, late : BOOLEAN]

(* Every variable has the shape its table gives it, within the bounds. *)
IdentityTypeOK ==
    /\ up \in BOOLEAN
    /\ users \in [Users -> User]
    /\ sessions \in Seq(Session) /\ Len(sessions) <= MaxSessions
    /\ links \in Seq([user : Users, open : BOOLEAN]) /\ Len(links) <= MaxLinks
    /\ DOMAIN req = Requests
    /\ edits \in 0 .. MaxEdits /\ restarts \in 0 .. MaxRestarts

(* A session is alive only if it was opened with a password that is not     *)
(* older than the last one its user chose - by the setup link or by a       *)
(* password change - or made that change itself, or belongs to a login that *)
(* had verified the old password before it was replaced (setup/handler.go   *)
(* revokes, auth/repository.go inserts without looking again).              *)
OldPasswordsOpenNothing ==
    \A s \in DOMAIN sessions :
        LET u == sessions[s].user IN
        sessions[s].live =>
            \/ sessions[s].verified >= users[u].own
            \/ s = users[u].kept
            \/ sessions[s].late

(* A user has at most one setup link that still works, and none once the    *)
(* setup is done: a link that was handed out earlier cannot set the password*)
(* behind the one handed out last (setup/handler.go).                       *)
OneWorkingLink ==
    \A u \in Users :
        /\ Cardinality({l \in DOMAIN links : links[l].user = u /\ links[l].open}) <= 1
        /\ users[u].setup => \A l \in DOMAIN links : links[l].user = u => ~links[l].open

(* docs/api/admin-api.md says that the API prevents disabling the last      *)
(* active SuperAdmin and removing the last SuperAdmin role.  Both checks are*)
(* unlocked reads of an earlier step, and the second one counts disabled    *)
(* users too: this does NOT hold.                                           *)
SuperAdminRemains == up => \E u \in SuperAdmins : Active(u)
=============================================================================
