------------------------------- MODULE Access -------------------------------
(***************************************************************************)
(* Users, sessions and single sign-on: services/auth_service.py,           *)
(* admin_service.py, auth_provider_service.py and oidc_service.py behind   *)
(* api/routes/auth.py, admin.py, admin_auth.py and oidc.py.                *)
(*                                                                         *)
(* A handler runs on the event loop without an await and is one action.    *)
(* What authenticates a request, however, runs before it on a thread       *)
(* (api/dependencies.py), and the row of the user it read there is the one *)
(* the handler keeps seeing: the ORM does not read an object again that    *)
(* the request's database session holds.  So a request is two actions with *)
(* a snapshot between them, and any number of other requests in between.   *)
(***************************************************************************)
EXTENDS Naturals, Sequences, FiniteSets

CONSTANTS
    Users, Emails, NoEmail,
    Admin,              \* the first admin, created from the command line
    Address,            \* the e-mail address a user is created with
    Subjects, Local,    \* subjects of the identity provider; a password login
    Requests, NoRequest,
    Configs, NoProvider,    \* settings an admin may give the provider
    IdleTime, AbsoluteTime, TokenTime,  \* session timeouts, access token expiry
    Roles,              \* bound: the roles admins give
    MaxSessions, MaxGen, MaxEnds, MaxClock  \* bounds

Role == {"admin", "operator", "viewer"}

\* Whether anybody knows the password: an account made at a first single
\* sign-on has a random one.
Password == {"known", "random"}

UserRow == [role : Role, active : BOOLEAN, must : BOOLEAN, password : Password, email : Emails]

\* default_role is never admin (JitRole); domains abstracts allowed_domains to
\* the addresses it lets in.
ProviderConfig == [enabled : BOOLEAN, trust : BOOLEAN, jit : BOOLEAN,
                   role : Role \ {"admin"}, domains : SUBSET Emails]

ASSUME AccessAssumption ==
    /\ IsFiniteSet(Users) /\ Admin \in Users /\ Address \in [Users -> Emails]
    /\ Local \notin Subjects /\ NoEmail \notin Emails
    /\ Roles \subseteq Role
    /\ Configs \subseteq ProviderConfig /\ NoProvider \notin ProviderConfig
    /\ IdleTime \in Nat /\ AbsoluteTime \in Nat /\ TokenTime \in Nat
    /\ MaxSessions \in Nat /\ MaxGen \in Nat \ {0} /\ MaxEnds \in Nat /\ MaxClock \in Nat

VARIABLES
    users,      \* the users table: rows by user, for those that exist
    sessions,   \* auth_sessions, in the order they were opened
    provider,   \* the one row of auth_providers, or NoProvider
    linked,     \* external_identities: the user of a subject, for linked ones
    requests,   \* requests between authentication and handler: who, which
                \* session the token names, and the user's row as read
    clock,
    ended       \* history: how often all sessions of a user were ended

vars == <<users, sessions, provider, linked, requests, clock, ended>>

\* The refresh secret of a session is its generation: secrets 1..gen were handed
\* out, gen is the stored hash, gen - 1 the previous one.  token is the expiry of
\* the newest access token.  era is history: ended[user] when it was opened (or
\* last spared).
Session == [user : Users, by : Subjects \cup {Local}, gen : 1..MaxGen, revoked : BOOLEAN,
            idle : Nat, absolute : Nat, token : Nat, era : 0..MaxEnds]

Request == [user : Users, session : 1..MaxSessions, row : UserRow]

ASSUME RequestAssumption == NoRequest \notin Request

\* Tables of rows for some of the keys.
Tables(keys, row) == UNION {[some -> row] : some \in SUBSET keys}

Admins == {u \in DOMAIN users : users[u].role = "admin" /\ users[u].active}

NewUser(u, role, active, must, password) ==
    [role |-> role, active |-> active, must |-> must, password |-> password, email |-> Address[u]]

\* Some time after the first admin set up a provider, or did not.
Init ==
    /\ users = [u \in {Admin} |-> NewUser(u, "admin", TRUE, FALSE, "known")]
    /\ sessions = << >> /\ provider \in Configs \cup {NoProvider}
    /\ linked = [s \in {} |-> Admin]
    /\ requests = [r \in Requests |-> NoRequest]
    /\ clock = 0 /\ ended = [u \in Users |-> 0]

----------------------------------------------------------------------------
\* AuthSession.is_active
Live(s) == ~s.revoked /\ clock < s.idle /\ clock < s.absolute

\* start_session: a row of its own, with the first access token.
Open(u, by) ==
    /\ Len(sessions) < MaxSessions
    /\ sessions' = Append(sessions,
            [user |-> u, by |-> by, gen |-> 1, revoked |-> FALSE, idle |-> clock + IdleTime,
             absolute |-> clock + AbsoluteTime, token |-> clock + TokenTime, era |-> ended[u]])

\* Mutant of EndSessions: only the newest session of u is revoked.
EndNewest(u, kept) ==
    /\ ended[u] < MaxEnds
    /\ ended' = [ended EXCEPT ![u] = @ + 1]
    /\ sessions' = [i \in DOMAIN sessions |->
            IF sessions[i].user # u THEN sessions[i]
            ELSE IF i = kept THEN [sessions[i] EXCEPT !.era = ended[u] + 1]
            ELSE [sessions[i] EXCEPT !.revoked = @ \/
                              \A j \in DOMAIN sessions : sessions[j].user = u => j <= i]]

\* revoke_all_for_user: every session of u is revoked but the one kept.
EndSessions(u, kept) ==
    /\ ended[u] < MaxEnds
    /\ ended' = [ended EXCEPT ![u] = @ + 1]
    /\ sessions' = [i \in DOMAIN sessions |->
            IF sessions[i].user # u THEN sessions[i]
            ELSE IF i = kept THEN [sessions[i] EXCEPT !.era = ended[u] + 1]
            ELSE [sessions[i] EXCEPT !.revoked = TRUE]]

Revoked(i) == [sessions EXCEPT ![i].revoked = TRUE]

\* login: authenticate, then a session.
Login(u) ==
    /\ u \in DOMAIN users /\ users[u].active /\ users[u].password # "random"
    /\ Open(u, Local)
    /\ UNCHANGED <<users, provider, linked, requests, clock, ended>>

\* refresh with secret g of session i: the current one of a live session of an
\* active user is exchanged, the one before it is a replay.
Refresh(i, g) ==
    /\ i \in DOMAIN sessions /\ g \in 1..sessions[i].gen
    /\ LET s == sessions[i] IN
       \/ /\ g = s.gen /\ Live(s) /\ users[s.user].active /\ g < MaxGen
          /\ sessions' = [sessions EXCEPT ![i] = [s EXCEPT
                 !.gen = g + 1, !.idle = clock + IdleTime, !.token = clock + TokenTime]]
       \/ /\ g = s.gen /\ Live(s) /\ ~users[s.user].active
          /\ sessions' = Revoked(i)
       \/ /\ g + 1 = s.gen /\ ~s.revoked
          /\ sessions' = Revoked(i)
    /\ UNCHANGED <<users, provider, linked, requests, clock, ended>>

\* logout: revoke_session_by_secret, whatever the session's state.
Logout(i) ==
    /\ i \in DOMAIN sessions /\ ~sessions[i].revoked
    /\ sessions' = Revoked(i)
    /\ UNCHANGED <<users, provider, linked, requests, clock, ended>>

----------------------------------------------------------------------------
\* get_authenticated_user, in the thread pool: the token has not expired, its user
\* is active, its session live.  The handler of r comes later.
Authenticate(r, i) ==
    /\ requests[r] = NoRequest /\ i \in DOMAIN sessions
    /\ clock < sessions[i].token /\ Live(sessions[i])
    /\ LET u == sessions[i].user IN
       /\ users[u].active
       /\ requests' = [requests EXCEPT ![r] = [user |-> u, session |-> i, row |-> users[u]]]
    /\ UNCHANGED <<users, sessions, provider, linked, clock, ended>>

Answered(r) == requests' = [requests EXCEPT ![r] = NoRequest]

Pending(r) == requests[r] # NoRequest

\* get_current_admin, decided on the row as it was read.
ByAdmin(r) == Pending(r) /\ requests[r].row.role = "admin" /\ ~requests[r].row.must

\* Mutant of Found: the handler reads every row again.
FoundAgain(r, u) == users[u]

\* The row of user u in r's handler: its own user's as authenticated.  What a
\* handler changes is written column by column, and only where it differs from
\* the row found.
Found(r, u) == IF u = requests[r].user THEN requests[r].row ELSE users[u]

\* Every handler that changes nothing: the ones that read, and every refusal.
Answer(r) ==
    /\ Pending(r) /\ Answered(r)
    /\ UNCHANGED <<users, sessions, provider, linked, clock, ended>>

\* logout_all, and admin revoke_all_user_sessions of any user.
LogoutAll(r, u) ==
    /\ Pending(r) /\ u \in DOMAIN users /\ (u = requests[r].user \/ ByAdmin(r))
    /\ EndSessions(u, 0) /\ Answered(r)
    /\ UNCHANGED <<users, provider, linked, clock>>

\* revoke_session of an own session, and admin revoke_user_session.
RevokeSession(r, i) ==
    /\ Pending(r) /\ i \in DOMAIN sessions
    /\ sessions[i].user = requests[r].user \/ ByAdmin(r)
    /\ sessions' = Revoked(i) /\ Answered(r)
    /\ UNCHANGED <<users, provider, linked, clock, ended>>

\* change_password: the current password is verified against the row as it was
\* authenticated, and must_change_password cleared if it was set there.
ChangePassword(r) ==
    /\ Pending(r) /\ requests[r].row.password # "random"
    /\ LET u == requests[r].user IN
       /\ users' = [users EXCEPT ![u].password = "known",
                                 ![u].must = @ /\ ~requests[r].row.must]
       /\ EndSessions(u, requests[r].session)
    /\ Answered(r)
    /\ UNCHANGED <<provider, linked, clock>>

----------------------------------------------------------------------------
Taken(e) == \E u \in DOMAIN users : users[u].email = e

\* The users table with a row for u added.
Added(u, row) == [v \in DOMAIN users \cup {u} |-> IF v = u THEN row ELSE users[v]]

\* create_user, by an admin or from the command line (a process of its own).
CreateUser(u, role, active, must) ==
    /\ u \in Users \ DOMAIN users /\ ~Taken(Address[u])
    /\ users' = Added(u, NewUser(u, role, active, must, "known"))
    /\ UNCHANGED <<sessions, provider, linked, clock, ended>>

CreateByAdmin(r, u, role, active, must) ==
    /\ ByAdmin(r) /\ Answered(r) /\ CreateUser(u, role, active, must)

CreateFromCommandLine(u, role, must) ==
    CreateUser(u, role, TRUE, must) /\ UNCHANGED requests

\* update_profile: of the profile only the e-mail address decides anything.
UpdateProfile(r, u, e) ==
    /\ ByAdmin(r) /\ u \in DOMAIN users /\ e # Found(r, u).email /\ ~Taken(e)
    /\ users' = [users EXCEPT ![u].email = e] /\ Answered(r)
    /\ UNCHANGED <<sessions, provider, linked, clock, ended>>

\* Mutant of LastOne: the count includes disabled admins.
LastOneOfAny(row) ==
    /\ row.role = "admin" /\ row.active
    /\ Cardinality({u \in DOMAIN users : users[u].role = "admin"}) <= 1

\* _guard_last_admin refuses to disable or demote a target with this row.
LastOne(row) == row.role = "admin" /\ row.active /\ Cardinality(Admins) <= 1

\* set_active: nothing to do, or not the last admin and not the admin itself.
SetActive(r, u, to) ==
    /\ ByAdmin(r) /\ u \in DOMAIN users /\ Found(r, u).active # to
    /\ users' = [users EXCEPT ![u].active = to]
    /\ \/ to /\ UNCHANGED <<sessions, ended>>
       \/ ~to /\ ~LastOne(Found(r, u)) /\ u # requests[r].user /\ EndSessions(u, 0)
    /\ Answered(r)
    /\ UNCHANGED <<provider, linked, clock>>

\* set_role: likewise when an admin is demoted.  Sessions go on.
SetRole(r, u, role) ==
    /\ ByAdmin(r) /\ u \in DOMAIN users /\ Found(r, u).role # role
    /\ Found(r, u).role = "admin" => ~LastOne(Found(r, u)) /\ u # requests[r].user
    /\ users' = [users EXCEPT ![u].role = role] /\ Answered(r)
    /\ UNCHANGED <<sessions, provider, linked, clock, ended>>

\* reset_password
ResetPassword(r, u) ==
    /\ ByAdmin(r) /\ u \in DOMAIN users
    /\ users' = [users EXCEPT ![u].password = "known", ![u].must = TRUE]
    /\ EndSessions(u, 0) /\ Answered(r)
    /\ UNCHANGED <<provider, linked, clock>>

\* create_provider, update_provider (any fields), delete_provider.  The links of
\* a deleted provider stay.
SetProvider(r, p) ==
    /\ ByAdmin(r) /\ p # provider
    /\ provider' = p /\ Answered(r)
    /\ UNCHANGED <<users, sessions, linked, clock, ended>>

----------------------------------------------------------------------------
Available == provider # NoProvider /\ provider.enabled

\* The steps of _resolve_user for a subject whose IdP released address e.
SignOnLinked(s) ==
    /\ s \in DOMAIN linked /\ users[linked[s]].active
    /\ Open(linked[s], s) /\ UNCHANGED <<users, linked>>

Link(s, u) == linked' = [x \in DOMAIN linked \cup {s} |-> IF x = s THEN u ELSE linked[x]]

Verified(e, verified) == e \in provider.domains /\ (verified \/ provider.trust)

\* The user with the address, active or not.
LinkByEmail(s, e, verified) ==
    /\ Verified(e, verified)
    /\ \E u \in DOMAIN users : users[u].email = e /\ Link(s, u) /\ Open(u, s)
    /\ UNCHANGED users

\* Mutant of SignOnNew: the account is linked but never added.
SignOnUnadded(s, e, verified) ==
    /\ provider.jit /\ Verified(e, verified) /\ ~Taken(e)
    /\ \E u \in Users \ DOMAIN users : Link(s, u) /\ Open(u, s)
    /\ UNCHANGED users

\* A new account, with the role the provider gives.
SignOnNew(s, e, verified) ==
    /\ provider.jit /\ Verified(e, verified) /\ ~Taken(e)
    /\ \E u \in Users \ DOMAIN users :
          /\ users' = Added(u, [NewUser(u, provider.role, TRUE, FALSE, "random") EXCEPT !.email = e])
          /\ Link(s, u) /\ Open(u, s)

\* Mutant of Resolve: the address is looked up before the link.
ResolveByEmail(s, e, verified) ==
    \/ LinkByEmail(s, e, verified)
    \/ ~Taken(e) /\ SignOnLinked(s)
    \/ s \notin DOMAIN linked /\ SignOnNew(s, e, verified)

Resolve(s, e, verified) ==
    \/ SignOnLinked(s)
    \/ s \notin DOMAIN linked /\ LinkByEmail(s, e, verified)
    \/ s \notin DOMAIN linked /\ SignOnNew(s, e, verified)

\* callback.  What begin makes is in a signed cookie of the browser and changes
\* nothing here; a callback without it, or with another's state, changes nothing
\* either.  The claims are what the identity provider says at that moment.
Callback ==
    /\ Available
    /\ \E s \in Subjects, e \in Emails \cup {NoEmail}, verified \in BOOLEAN :
          Resolve(s, e, verified)
    /\ UNCHANGED <<provider, requests, clock, ended>>

Tick ==
    /\ clock < MaxClock /\ clock' = clock + 1
    /\ UNCHANGED <<users, sessions, provider, linked, requests, ended>>

\* What the handler of request r does.
Handle(r) ==
    \/ Answer(r) \/ ChangePassword(r)
    \/ \E i \in DOMAIN sessions : RevokeSession(r, i)
    \/ \E u \in Users : LogoutAll(r, u) \/ ResetPassword(r, u)
    \/ \E u \in Users, e \in Emails : UpdateProfile(r, u, e)
    \/ \E u \in Users, to \in BOOLEAN : SetActive(r, u, to)
    \/ \E u \in Users, role \in Roles : SetRole(r, u, role)
    \/ \E u \in Users, role \in Roles, active \in BOOLEAN, must \in BOOLEAN :
          CreateByAdmin(r, u, role, active, must)
    \/ \E p \in Configs \cup {NoProvider} : SetProvider(r, p)

Next ==
    \/ \E r \in Requests : Handle(r) \/ \E i \in DOMAIN sessions : Authenticate(r, i)
    \/ \E u \in Users : Login(u)
    \/ \E u \in Users, role \in Roles, must \in BOOLEAN : CreateFromCommandLine(u, role, must)
    \/ \E i \in DOMAIN sessions : Logout(i) \/ \E g \in 1..sessions[i].gen : Refresh(i, g)
    \/ Callback \/ Tick

Spec == Init /\ [][Next]_vars

----------------------------------------------------------------------------
\* Every row has its type, and every session, link and request is of a user
\* that exists (the foreign keys of models.py).
TypeOK ==
    /\ users \in Tables(Users, UserRow)
    /\ sessions \in Seq(Session) /\ \A i \in DOMAIN sessions : sessions[i].user \in DOMAIN users
    /\ provider \in ProviderConfig \cup {NoProvider}
    /\ linked \in Tables(Subjects, DOMAIN users)
    /\ clock \in 0..MaxClock
    /\ requests \in [Requests -> Request \cup {NoRequest}]
    /\ \A r \in Requests : Pending(r) => requests[r].user \in DOMAIN users
    /\ ended \in [Users -> 0..MaxEnds]

\* "The last active admin cannot be disabled or demoted" (admin_service.py): not
\* even by two admins who disable and demote each other, each authenticated
\* before the other's handler ran.
LastAdmin == Admins # {}

\* When a user is disabled, given a new password or signed out everywhere, that
\* is the end of all sessions opened before, however they were opened and used;
\* only the session that changed its own password is spared.
SessionsEnd ==
    \A i \in DOMAIN sessions : ~sessions[i].revoked => sessions[i].era = ended[sessions[i].user]

\* "Identity is keyed by (issuer, subject) - stable across email changes"
\* (models.py): a subject signs in as one user for good, whatever address its
\* IdP releases and whoever holds that address here.
SubjectKeepsUser ==
    \A i, j \in DOMAIN sessions :
        sessions[i].by = sessions[j].by /\ sessions[i].by # Local =>
            sessions[i].user = sessions[j].user

\* An admin who was demoted or disabled while a request of theirs was under way
\* cannot use that request to become one again: no request changes the role or
\* the activity of its own user.
OwnTierKept ==
    [][\A r \in Requests : Pending(r) /\ requests'[r] = NoRequest =>
          LET u == requests[r].user IN
          users'[u].role = users[u].role /\ users'[u].active = users[u].active]_vars
=============================================================================
