---------------------------- MODULE AccessProofs ----------------------------
(***************************************************************************)
(* Theorems about Access, for all sets of users, subjects and requests and *)
(* every provider setting, timeout and bound.                              *)
(***************************************************************************)
EXTENDS Access, SequenceTheorems, FiniteSetTheorems, TLAPS

\* An active admin is left, in a table of rows.
UsersInv == users \in Tables(Users, UserRow) /\ LastAdmin

LinksInv == linked \in Tables(Subjects, DOMAIN users)

EndedInv == ended \in [Users -> 0..MaxEnds]

\* What a session owes to other tables: its user exists, its era is the current
\* one unless it was revoked, and it signs in whom its subject is linked to.
SessionOf(s) ==
    /\ s.user \in DOMAIN users
    /\ ~s.revoked => s.era = ended[s.user]
    /\ s.by # Local => s.by \in DOMAIN linked /\ linked[s.by] = s.user

SessionsInv ==
    /\ sessions \in Seq(Session) /\ Len(sessions) <= MaxSessions
    /\ \A i \in DOMAIN sessions : SessionOf(sessions[i])

\* A request was authenticated as an active user, who still has a row.
RequestsInv ==
    /\ requests \in [Requests -> Request \cup {NoRequest}]
    /\ \A r \in Requests : Pending(r) =>
          requests[r].row.active /\ requests[r].user \in DOMAIN users

IInv ==
    /\ UsersInv /\ LinksInv /\ EndedInv /\ SessionsInv /\ RequestsInv
    /\ provider \in ProviderConfig \cup {NoProvider} /\ clock \in 0..MaxClock

\* The domain of a table, and a table as a function.
LEMMA TableShape ==
    ASSUME NEW K, NEW S, NEW t \in Tables(K, S)
    PROVE  /\ DOMAIN t \subseteq K
           /\ t \in [DOMAIN t -> S]
           /\ \A k \in DOMAIN t : t[k] \in S
BY DEF Tables

LEMMA TableOf ==
    ASSUME NEW K, NEW S, NEW D \in SUBSET K, NEW t \in [D -> S]
    PROVE  t \in Tables(K, S) /\ DOMAIN t = D
BY DEF Tables

----------------------------------------------------------------------------
(* Steps of the users table. *)

\* A row that keeps its role and its activity takes no admin away.
LEMMA KeepTier ==
    ASSUME UsersInv, NEW u \in DOMAIN users, NEW row \in UserRow,
           row.role = users[u].role, row.active = users[u].active,
           users' = [users EXCEPT ![u] = row]
    PROVE  UsersInv' /\ DOMAIN users' = DOMAIN users
<1>1. users \in [DOMAIN users -> UserRow] /\ DOMAIN users \subseteq Users
  BY TableShape DEF UsersInv
<1>2. users' \in [DOMAIN users -> UserRow]
  BY <1>1
<1>3. users' \in Tables(Users, UserRow) /\ DOMAIN users' = DOMAIN users
  BY <1>1, <1>2, TableOf
<1>4. Admins \subseteq Admins'
  BY <1>1, <1>3 DEF Admins
<1> QED
  BY <1>3, <1>4 DEF UsersInv, LastAdmin

\* A new row takes no admin away.
LEMMA AddRow ==
    ASSUME UsersInv, NEW u \in Users \ DOMAIN users, NEW row \in UserRow,
           users' = Added(u, row)
    PROVE  UsersInv' /\ DOMAIN users' = DOMAIN users \cup {u}
<1>1. users \in [DOMAIN users -> UserRow] /\ DOMAIN users \subseteq Users
  BY TableShape DEF UsersInv
<1>2. users' \in [DOMAIN users \cup {u} -> UserRow]
  BY <1>1 DEF Added
<1>3. users' \in Tables(Users, UserRow) /\ DOMAIN users' = DOMAIN users \cup {u}
  BY <1>1, <1>2, TableOf
<1>4. Admins \subseteq Admins'
  BY <1>1, <1>3 DEF Admins, Added
<1> QED
  BY <1>3, <1>4 DEF UsersInv, LastAdmin

\* _guard_last_admin: when a row it lets pass stops being an active admin's,
\* another admin is left.
LEMMA AnotherAdmin ==
    ASSUME UsersInv, NEW u \in DOMAIN users, ~LastOne(users[u])
    PROVE  \E v \in Admins : v # u
<1>1. CASE u \notin Admins
  BY <1>1 DEF UsersInv, LastAdmin
<1>2. CASE u \in Admins
  <2>1. Cardinality(Admins) > 1
    <3>1. IsFiniteSet(Admins)
      BY AccessAssumption, TableShape, FS_Subset DEF UsersInv, Admins
    <3>2. Cardinality(Admins) \in Nat
      BY <3>1, FS_CardinalityType
    <3> QED
      BY <1>2, <3>2 DEF LastOne, Admins
  <2>2. Admins # {u}
    BY <2>1, FS_Singleton
  <2> QED
    BY <1>2, <2>2
<1> QED
  BY <1>1, <1>2

\* A row whose role or activity changes, while another admin is left.
LEMMA ChangeTier ==
    ASSUME UsersInv, NEW u \in DOMAIN users, NEW row \in UserRow,
           users' = [users EXCEPT ![u] = row],
           (row.role = "admin" /\ row.active) \/ u \notin Admins \/ (\E v \in Admins : v # u)
    PROVE  UsersInv' /\ DOMAIN users' = DOMAIN users
<1>1. users \in [DOMAIN users -> UserRow] /\ DOMAIN users \subseteq Users
  BY TableShape DEF UsersInv
<1>2. users' \in [DOMAIN users -> UserRow]
  BY <1>1
<1>3. users' \in Tables(Users, UserRow) /\ DOMAIN users' = DOMAIN users
  BY <1>1, <1>2, TableOf
<1>4. PICK v \in Admins : v # u \/ (row.role = "admin" /\ row.active)
  BY DEF UsersInv, LastAdmin
<1>5. v \in DOMAIN users /\ users[v].role = "admin" /\ users[v].active
  BY <1>4 DEF Admins
<1>6. users'[v] = IF v = u THEN row ELSE users[v]
  BY <1>1, <1>5
<1>7. v \in Admins'
  BY <1>3, <1>4, <1>5, <1>6 DEF Admins
<1> QED
  BY <1>3, <1>7 DEF UsersInv, LastAdmin

----------------------------------------------------------------------------
(* Steps of the sessions table, while the users and the links only grow. *)

Grows ==
    /\ DOMAIN users \subseteq DOMAIN users'
    /\ \A s \in DOMAIN linked : s \in DOMAIN linked' /\ linked'[s] = linked[s]

\* start_session adds a session and changes no other.
LEMMA OpenStep ==
    ASSUME SessionsInv, EndedInv, Grows, UNCHANGED ended, DOMAIN users' \subseteq Users, clock \in Nat,
           NEW u \in DOMAIN users', NEW by \in Subjects \cup {Local},
           by # Local => by \in DOMAIN linked' /\ linked'[by] = u,
           Open(u, by)
    PROVE  SessionsInv'
<1>0. PICK new : new = [user |-> u, by |-> by, gen |-> 1, revoked |-> FALSE,
                       idle |-> clock + IdleTime, absolute |-> clock + AbsoluteTime,
                       token |-> clock + TokenTime, era |-> ended[u]]
  OBVIOUS
<1>1. new \in Session
  <2>1. /\ IdleTime \in Nat /\ AbsoluteTime \in Nat /\ TokenTime \in Nat
        /\ MaxGen \in Nat \ {0}
    BY AccessAssumption
  <2>2. /\ 1 \in 1..MaxGen
        /\ clock + IdleTime \in Nat /\ clock + AbsoluteTime \in Nat /\ clock + TokenTime \in Nat
    BY <2>1
  <2>3. u \in Users /\ ended[u] \in 0..MaxEnds
    BY DEF EndedInv
  <2> QED
    BY <1>0, <2>2, <2>3 DEF Session
<1>2. SessionOf(new)'
  BY <1>0 DEF SessionOf
<1>3. sessions' = Append(sessions, new) /\ sessions \in Seq(Session)
  BY <1>0 DEF Open, SessionsInv
<1>6. Len(sessions') = Len(sessions) + 1 /\ Len(sessions) \in Nat /\ Len(sessions) < MaxSessions
  BY <1>1, <1>3, AppendProperties, LenProperties DEF Open
<1>4. /\ sessions' \in Seq(Session) /\ DOMAIN sessions' = DOMAIN sessions \cup {Len(sessions) + 1}
      /\ \A i \in DOMAIN sessions : sessions'[i] = sessions[i]
      /\ sessions'[Len(sessions) + 1] = new
  BY <1>1, <1>3, AppendProperties, LenProperties
<1>5. \A i \in DOMAIN sessions : SessionOf(sessions[i])'
  BY <1>4 DEF SessionsInv, SessionOf, Grows
<1> QED
  <2>1. \A i \in DOMAIN sessions' : SessionOf(sessions[i])'
    BY <1>2, <1>4, <1>5 DEF SessionOf
  <2> QED
    BY <1>4, <1>6, <2>1, AccessAssumption DEF SessionsInv

\* revoke_all_for_user ends the sessions of u and starts an era.
LEMMA EndStep ==
    ASSUME SessionsInv, EndedInv, Grows, NEW u \in Users, NEW kept, EndSessions(u, kept)
    PROVE  SessionsInv' /\ EndedInv'
<1>1. /\ ended' \in [Users -> 0..MaxEnds]
      /\ ended'[u] = ended[u] + 1 /\ ended[u] + 1 \in 0..MaxEnds
      /\ \A v \in Users \ {u} : ended'[v] = ended[v]
  <2>1. ended' = [ended EXCEPT ![u] = ended[u] + 1] /\ ended[u] < MaxEnds
    BY DEF EndSessions
  <2>2. MaxEnds \in Nat /\ ended \in [Users -> 0..MaxEnds]
    BY AccessAssumption DEF EndedInv
  <2> QED
    BY <2>1, <2>2
<1>2. /\ DOMAIN sessions = 1..Len(sessions) /\ Len(sessions) \in Nat
      /\ \A i \in DOMAIN sessions : sessions[i] \in Session
  BY LenProperties, ElementOfSeq DEF SessionsInv
<1>3. /\ sessions' = [i \in DOMAIN sessions |-> sessions'[i]]
      /\ \A i \in DOMAIN sessions :
            \/ sessions[i].user # u /\ sessions'[i] = sessions[i]
            \/ sessions[i].user = u /\ sessions'[i] = [sessions[i] EXCEPT !.era = ended[u] + 1]
            \/ sessions[i].user = u /\ sessions'[i] = [sessions[i] EXCEPT !.revoked = TRUE]
  BY DEF EndSessions
<1>4. ASSUME NEW i \in DOMAIN sessions
      PROVE  sessions'[i] \in Session /\ SessionOf(sessions[i])'
  <2>1. sessions[i] \in Session /\ SessionOf(sessions[i])
    BY <1>2 DEF SessionsInv
  <2>2. CASE sessions[i].user # u /\ sessions'[i] = sessions[i]
    BY <1>1, <2>1, <2>2 DEF SessionOf, Grows, Session
  <2>3. CASE sessions[i].user = u /\ sessions'[i] = [sessions[i] EXCEPT !.era = ended[u] + 1]
    BY <1>1, <2>1, <2>3 DEF SessionOf, Grows, Session
  <2>4. CASE sessions[i].user = u /\ sessions'[i] = [sessions[i] EXCEPT !.revoked = TRUE]
    <3>1. PICK old : old = sessions[i]
      OBVIOUS
    <3>2. PICK new : new = [old EXCEPT !.revoked = TRUE]
      OBVIOUS
    <3>3. old \in Session /\ SessionOf(old) /\ sessions'[i] = new
      BY <2>1, <2>4, <3>1, <3>2
    <3>4. new \in Session /\ new.revoked /\ new.user = old.user /\ new.by = old.by
      BY <3>2, <3>3 DEF Session
    <3>5. SessionOf(new)'
      BY <3>3, <3>4 DEF SessionOf, Grows
    <3> QED
      BY <3>3, <3>4, <3>5
  <2> QED
    BY <1>3, <2>2, <2>3, <2>4
<1>5. sessions' \in Seq(Session) /\ DOMAIN sessions' = DOMAIN sessions
  <2>1. sessions' \in [1..Len(sessions) -> Session]
    BY <1>2, <1>3, <1>4
  <2> QED
    BY <1>2, <2>1, IsASeq
<1> QED
  BY <1>1, <1>4, <1>5 DEF SessionsInv, EndedInv

\* A session that is replaced by a legal one.
LEMMA ReplaceStep ==
    ASSUME SessionsInv, UNCHANGED <<users, linked, ended>>,
           NEW i \in DOMAIN sessions, NEW s, s \in Session, SessionOf(s),
           sessions' = [sessions EXCEPT ![i] = s]
    PROVE  SessionsInv'
<1>1. /\ DOMAIN sessions = 1..Len(sessions) /\ Len(sessions) \in Nat
      /\ \A k \in DOMAIN sessions : sessions[k] \in Session
  BY LenProperties, ElementOfSeq DEF SessionsInv
<1>2. sessions' \in [1..Len(sessions) -> Session]
  BY <1>1 DEF SessionsInv
<1>3. sessions' \in Seq(Session) /\ DOMAIN sessions' = DOMAIN sessions
  BY <1>1, <1>2, IsASeq
<1>4. \A k \in DOMAIN sessions : sessions'[k] = IF k = i THEN s ELSE sessions[k]
  BY <1>1
<1> QED
  BY <1>3, <1>4 DEF SessionsInv, SessionOf

\* revoke
LEMMA RevokeStep ==
    ASSUME SessionsInv, UNCHANGED <<users, linked, ended>>,
           NEW i \in DOMAIN sessions, sessions' = Revoked(i)
    PROVE  SessionsInv'
<1>0. PICK s : s = [sessions[i] EXCEPT !.revoked = TRUE]
  OBVIOUS
<1>1. sessions[i] \in Session /\ SessionOf(sessions[i])
  BY ElementOfSeq, LenProperties DEF SessionsInv
<1>2. s \in Session /\ SessionOf(s)
  BY <1>0, <1>1 DEF Session, SessionOf
<1>3. sessions' = [sessions EXCEPT ![i] = s]
  BY <1>0 DEF Revoked
<1> QED
  BY <1>2, <1>3, ReplaceStep

\* The sessions stay as they are while users and links grow.
LEMMA KeepStep ==
    ASSUME SessionsInv, Grows, UNCHANGED <<sessions, ended>>
    PROVE  SessionsInv'
BY DEF SessionsInv, SessionOf, Grows

----------------------------------------------------------------------------
(* The initial state, and one lemma per operation. *)

LEMMA InitInv == Init => IInv
<1> SUFFICES ASSUME Init PROVE IInv
  OBVIOUS
<1>1. NewUser(Admin, "admin", TRUE, FALSE, "known") \in UserRow
  BY AccessAssumption DEF NewUser, UserRow, Role, Password
<1>2. users \in [{Admin} -> UserRow] /\ users[Admin].role = "admin" /\ users[Admin].active
  BY <1>1 DEF Init, NewUser
<1>3. UsersInv /\ DOMAIN users = {Admin}
  <2>1. users \in Tables(Users, UserRow) /\ DOMAIN users = {Admin}
    BY <1>2, AccessAssumption, TableOf
  <2> QED
    BY <1>2, <2>1 DEF UsersInv, LastAdmin, Admins
<1>4. LinksInv
  <2>1. linked \in [{} -> DOMAIN users]
    BY DEF Init
  <2> QED
    BY <2>1, TableOf DEF LinksInv
<1>5. EndedInv
  BY AccessAssumption DEF Init, EndedInv
<1>6. SessionsInv
  BY EmptySeq, AccessAssumption DEF Init, SessionsInv
<1>7. RequestsInv
  BY DEF Init, RequestsInv, Pending
<1> QED
  BY <1>3, <1>4, <1>5, <1>6, <1>7, AccessAssumption DEF IInv, Init

\* What the invariant says of the row an authenticated request found, and of the
\* users a handler may name.
LEMMA FoundShape ==
    ASSUME IInv, NEW r \in Requests, Pending(r), NEW u \in DOMAIN users
    PROVE  /\ requests[r] \in Request /\ requests[r].row \in UserRow
           /\ requests[r].user \in DOMAIN users /\ requests[r].row.active
           /\ Found(r, u) \in UserRow /\ users[u] \in UserRow /\ u \in Users
           /\ u # requests[r].user => Found(r, u) = users[u]
           /\ u = requests[r].user => Found(r, u).active
<1>1. requests[r] \in Request /\ requests[r].user \in DOMAIN users /\ requests[r].row.active
  BY DEF IInv, RequestsInv, Pending
<1>2. users[u] \in UserRow /\ u \in Users
  BY TableShape DEF IInv, UsersInv
<1> QED
  BY <1>1, <1>2 DEF Found, Request

\* The requests that are answered, or left, keep what they must.
LEMMA RequestsStep ==
    ASSUME RequestsInv, DOMAIN users \subseteq DOMAIN users',
           \/ UNCHANGED requests \/ \E r \in Requests : Answered(r)
    PROVE  RequestsInv'
BY DEF RequestsInv, Answered, Pending

\* Links stay links of users.
LEMMA LinksStep ==
    ASSUME LinksInv, DOMAIN users \subseteq DOMAIN users', UNCHANGED linked
    PROVE  LinksInv' /\ Grows
<1>1. linked \in [DOMAIN linked -> DOMAIN users] /\ DOMAIN linked \subseteq Subjects
  BY TableShape DEF LinksInv
<1>2. linked \in [DOMAIN linked -> DOMAIN users']
  BY <1>1
<1>3. linked \in Tables(Subjects, DOMAIN users')
  BY <1>1, <1>2, TableOf
<1> QED
  BY <1>3 DEF LinksInv, Grows

\* A new link, of a subject that has none.
LEMMA LinkStep ==
    ASSUME LinksInv, DOMAIN users \subseteq DOMAIN users',
           NEW s \in Subjects, s \notin DOMAIN linked, NEW u \in DOMAIN users', Link(s, u)
    PROVE  LinksInv' /\ Grows /\ s \in DOMAIN linked' /\ linked'[s] = u
<1>1. linked \in [DOMAIN linked -> DOMAIN users] /\ DOMAIN linked \subseteq Subjects
  BY TableShape DEF LinksInv
<1>2. linked' \in [DOMAIN linked \cup {s} -> DOMAIN users']
  <2>1. \A x \in DOMAIN linked \cup {s} : (IF x = s THEN u ELSE linked[x]) \in DOMAIN users'
    BY <1>1
  <2> QED
    BY <2>1 DEF Link
<1>3. linked' \in Tables(Subjects, DOMAIN users') /\ DOMAIN linked' = DOMAIN linked \cup {s}
  <2>1. DOMAIN linked \cup {s} \in SUBSET Subjects
    BY <1>1
  <2> QED
    BY <1>2, <2>1, TableOf
<1> QED
  <2>1. \A x \in DOMAIN linked : linked'[x] = linked[x]
    BY <1>1, <1>3 DEF Link
  <2>2. linked'[s] = u
    BY <1>3 DEF Link
  <2> QED
    BY <1>3, <2>1, <2>2 DEF LinksInv, Grows

\* The invariant after a step whose users, sessions and ends of sessions have
\* been looked at, and whose requests are answered or as they were.
LEMMA Together ==
    ASSUME IInv, UsersInv', SessionsInv', EndedInv', DOMAIN users \subseteq DOMAIN users',
           LinksInv', UNCHANGED clock, provider' \in ProviderConfig \cup {NoProvider},
           \/ UNCHANGED requests \/ \E r \in Requests : Answered(r)
    PROVE  IInv'
BY RequestsStep DEF IInv

\* A table that is left alone keeps its invariant.
LEMMA KeepUsers ==
    ASSUME UsersInv, UNCHANGED users
    PROVE  UsersInv' /\ DOMAIN users \subseteq DOMAIN users'
BY DEF UsersInv, LastAdmin, Admins

LEMMA KeepEnded ==
    ASSUME EndedInv, UNCHANGED ended
    PROVE  EndedInv'
BY DEF EndedInv

----------------------------------------------------------------------------
LEMMA LoginSafe ==
    ASSUME IInv, NEW u \in Users, Login(u)
    PROVE  IInv'
<1>1. UNCHANGED <<users, provider, linked, requests, clock, ended>> /\ u \in DOMAIN users /\ Open(u, Local)
  BY DEF Login
<1>2. UsersInv' /\ LinksInv' /\ EndedInv' /\ RequestsInv'
  BY <1>1 DEF IInv, UsersInv, LastAdmin, Admins, LinksInv, EndedInv, RequestsInv, Pending
<1>3. SessionsInv'
  BY <1>1, OpenStep, TableShape DEF IInv, Grows, UsersInv
<1> QED
  BY <1>1, <1>2, <1>3 DEF IInv

LEMMA RefreshSafe ==
    ASSUME IInv, NEW i \in DOMAIN sessions, NEW g \in 1..sessions[i].gen, Refresh(i, g)
    PROVE  IInv'
<1>1. UNCHANGED <<users, provider, linked, requests, clock, ended>>
  BY DEF Refresh
<1>2. UsersInv' /\ LinksInv' /\ EndedInv' /\ RequestsInv'
  BY <1>1 DEF IInv, UsersInv, LastAdmin, Admins, LinksInv, EndedInv, RequestsInv, Pending
<1>3. sessions[i] \in Session /\ SessionOf(sessions[i])
  BY ElementOfSeq, LenProperties DEF IInv, SessionsInv
<1>4. CASE sessions' = Revoked(i)
  <2>1. SessionsInv'
    BY <1>1, <1>4, RevokeStep DEF IInv
  <2> QED
    BY <1>1, <1>2, <2>1 DEF IInv
<1>5. CASE /\ g = sessions[i].gen /\ g < MaxGen
           /\ sessions' = [sessions EXCEPT ![i] = [sessions[i] EXCEPT
                 !.gen = g + 1, !.idle = clock + IdleTime, !.token = clock + TokenTime]]
  <2>1. PICK s : s = [sessions[i] EXCEPT
                 !.gen = g + 1, !.idle = clock + IdleTime, !.token = clock + TokenTime]
    OBVIOUS
  <2>2. clock + IdleTime \in Nat /\ clock + TokenTime \in Nat /\ g + 1 \in 1..MaxGen
    BY <1>3, <1>5, AccessAssumption DEF IInv, Session
  <2>3. s \in Session /\ SessionOf(s)
    BY <1>3, <2>1, <2>2 DEF Session, SessionOf
  <2>4. SessionsInv'
    BY <1>1, <1>5, <2>1, <2>3, ReplaceStep DEF IInv
  <2> QED
    BY <1>1, <1>2, <2>4 DEF IInv
<1> QED
  BY <1>4, <1>5 DEF Refresh

LEMMA LogoutSafe ==
    ASSUME IInv, NEW i \in DOMAIN sessions, Logout(i)
    PROVE  IInv'
<1>1. UNCHANGED <<users, provider, linked, requests, clock, ended>> /\ sessions' = Revoked(i)
  BY DEF Logout
<1>2. UsersInv' /\ LinksInv' /\ EndedInv' /\ RequestsInv'
  BY <1>1 DEF IInv, UsersInv, LastAdmin, Admins, LinksInv, EndedInv, RequestsInv, Pending
<1>3. SessionsInv'
  BY <1>1, RevokeStep DEF IInv
<1> QED
  BY <1>1, <1>2, <1>3 DEF IInv

LEMMA AuthenticateSafe ==
    ASSUME IInv, NEW r \in Requests, NEW i \in DOMAIN sessions, Authenticate(r, i)
    PROVE  IInv'
<1>1. UNCHANGED <<users, sessions, provider, linked, clock, ended>>
  BY DEF Authenticate
<1>2. UsersInv' /\ LinksInv' /\ EndedInv' /\ SessionsInv'
  BY <1>1 DEF IInv, UsersInv, LastAdmin, Admins, LinksInv, EndedInv, SessionsInv, SessionOf
<1>3. RequestsInv'
  <2>1. sessions[i].user \in DOMAIN users /\ i \in 1..MaxSessions
    BY LenProperties, AccessAssumption DEF IInv, SessionsInv, SessionOf
  <2>2. PICK q : q = [user |-> sessions[i].user, session |-> i, row |-> users[sessions[i].user]]
    OBVIOUS
  <2>3. q \in Request /\ q.row.active /\ q.user \in DOMAIN users
    BY <2>1, <2>2, TableShape DEF IInv, UsersInv, Request, Authenticate
  <2>4. requests' = [requests EXCEPT ![r] = q]
    BY <2>2 DEF Authenticate
  <2> QED
    BY <1>1, <2>3, <2>4 DEF IInv, RequestsInv, Pending
<1> QED
  BY <1>1, <1>2, <1>3 DEF IInv

LEMMA AnswerSafe ==
    ASSUME IInv, NEW r \in Requests, Answer(r)
    PROVE  IInv'
<1>1. UNCHANGED <<users, sessions, provider, linked, clock, ended>> /\ Answered(r)
  BY DEF Answer
<1>2. UsersInv' /\ LinksInv' /\ Grows /\ EndedInv'
  BY <1>1, KeepUsers, KeepEnded, LinksStep DEF IInv
<1>3. SessionsInv'
  BY <1>1, <1>2, KeepStep DEF IInv
<1> QED
  BY <1>1, <1>2, <1>3, Together DEF IInv, Grows

LEMMA LogoutAllSafe ==
    ASSUME IInv, NEW r \in Requests, NEW u \in Users, LogoutAll(r, u)
    PROVE  IInv'
<1>1. UNCHANGED <<users, provider, linked, clock>> /\ EndSessions(u, 0) /\ Answered(r)
  BY DEF LogoutAll
<1>2. UsersInv' /\ LinksInv' /\ Grows
  BY <1>1, KeepUsers, LinksStep DEF IInv
<1>3. SessionsInv' /\ EndedInv'
  BY <1>1, <1>2, EndStep DEF IInv
<1> QED
  BY <1>1, <1>2, <1>3, Together DEF IInv, Grows

LEMMA RevokeSessionSafe ==
    ASSUME IInv, NEW r \in Requests, NEW i \in DOMAIN sessions, RevokeSession(r, i)
    PROVE  IInv'
<1>1. UNCHANGED <<users, provider, linked, clock, ended>> /\ sessions' = Revoked(i) /\ Answered(r)
  BY DEF RevokeSession
<1>2. UsersInv' /\ LinksInv' /\ Grows /\ EndedInv'
  BY <1>1, KeepUsers, KeepEnded, LinksStep DEF IInv
<1>3. SessionsInv'
  BY <1>1, RevokeStep DEF IInv
<1> QED
  BY <1>1, <1>2, <1>3, Together DEF IInv, Grows

LEMMA ChangePasswordSafe ==
    ASSUME IInv, NEW r \in Requests, ChangePassword(r)
    PROVE  IInv'
<1> DEFINE u == requests[r].user
<1>1. /\ users' = [users EXCEPT ![u].password = "known",
                               ![u].must = @ /\ ~requests[r].row.must]
      /\ EndSessions(u, requests[r].session) /\ Answered(r) /\ Pending(r)
      /\ UNCHANGED <<provider, linked, clock>>
  BY DEF ChangePassword
<1>2. u \in DOMAIN users /\ users[u] \in UserRow /\ u \in Users /\ requests[r].row \in UserRow
  BY <1>1, FoundShape DEF IInv, RequestsInv
<1>3. PICK row : row = [users[u] EXCEPT !.password = "known",
                                         !.must = users[u].must /\ ~requests[r].row.must]
  OBVIOUS
<1>4. row \in UserRow /\ row.role = users[u].role /\ row.active = users[u].active
  BY <1>2, <1>3 DEF UserRow, Password
<1>5. users' = [users EXCEPT ![u] = row]
  BY <1>1, <1>2, <1>3 DEF UserRow
<1>6. UsersInv' /\ DOMAIN users' = DOMAIN users
  BY <1>2, <1>4, <1>5, KeepTier DEF IInv
<1>7. LinksInv' /\ Grows
  BY <1>1, <1>6, LinksStep DEF IInv
<1>8. SessionsInv' /\ EndedInv'
  BY <1>1, <1>2, <1>7, EndStep DEF IInv
<1> QED
  BY <1>1, <1>6, <1>7, <1>8, Together DEF IInv

LEMMA ResetPasswordSafe ==
    ASSUME IInv, NEW r \in Requests, NEW u \in Users, ResetPassword(r, u)
    PROVE  IInv'
<1>1. /\ u \in DOMAIN users
      /\ users' = [users EXCEPT ![u].password = "known", ![u].must = TRUE]
      /\ EndSessions(u, 0) /\ Answered(r) /\ UNCHANGED <<provider, linked, clock>>
  BY DEF ResetPassword
<1>2. users[u] \in UserRow
  BY <1>1, TableShape DEF IInv, UsersInv
<1>3. PICK row : row = [users[u] EXCEPT !.password = "known", !.must = TRUE]
  OBVIOUS
<1>4. row \in UserRow /\ row.role = users[u].role /\ row.active = users[u].active
  BY <1>2, <1>3 DEF UserRow, Password
<1>5. users' = [users EXCEPT ![u] = row]
  BY <1>1, <1>2, <1>3 DEF UserRow
<1>6. UsersInv' /\ DOMAIN users' = DOMAIN users
  BY <1>1, <1>4, <1>5, KeepTier DEF IInv
<1>7. LinksInv' /\ Grows
  BY <1>1, <1>6, LinksStep DEF IInv
<1>8. SessionsInv' /\ EndedInv'
  BY <1>1, <1>7, EndStep DEF IInv
<1> QED
  BY <1>1, <1>6, <1>7, <1>8, Together DEF IInv

LEMMA UpdateProfileSafe ==
    ASSUME IInv, NEW r \in Requests, NEW u \in Users, NEW e \in Emails, UpdateProfile(r, u, e)
    PROVE  IInv'
<1>1. /\ u \in DOMAIN users /\ users' = [users EXCEPT ![u].email = e]
      /\ Answered(r) /\ UNCHANGED <<sessions, provider, linked, clock, ended>>
  BY DEF UpdateProfile
<1>2. users[u] \in UserRow
  BY <1>1, TableShape DEF IInv, UsersInv
<1>3. PICK row : row = [users[u] EXCEPT !.email = e]
  OBVIOUS
<1>4. row \in UserRow /\ row.role = users[u].role /\ row.active = users[u].active
  BY <1>2, <1>3 DEF UserRow
<1>5. users' = [users EXCEPT ![u] = row]
  BY <1>1, <1>3
<1>6. UsersInv' /\ DOMAIN users' = DOMAIN users
  BY <1>1, <1>4, <1>5, KeepTier DEF IInv
<1>7. LinksInv' /\ Grows /\ EndedInv'
  BY <1>1, <1>6, LinksStep, KeepEnded DEF IInv
<1>8. SessionsInv'
  BY <1>1, <1>7, KeepStep DEF IInv
<1> QED
  BY <1>1, <1>6, <1>7, <1>8, Together DEF IInv

\* Another admin is left, for it is another admin who disables one.
LEMMA SetActiveSafe ==
    ASSUME IInv, NEW r \in Requests, NEW u \in Users, NEW to \in BOOLEAN, SetActive(r, u, to)
    PROVE  IInv'
<1>1. /\ u \in DOMAIN users /\ Pending(r) /\ users' = [users EXCEPT ![u].active = to]
      /\ Answered(r) /\ UNCHANGED <<provider, linked, clock>>
      /\ \/ to /\ UNCHANGED <<sessions, ended>>
         \/ ~to /\ ~LastOne(Found(r, u)) /\ u # requests[r].user /\ EndSessions(u, 0)
  BY DEF SetActive, ByAdmin
<1>2. users[u] \in UserRow
  BY <1>1, TableShape DEF IInv, UsersInv
<1>3. PICK row : row = [users[u] EXCEPT !.active = to]
  OBVIOUS
<1>4. row \in UserRow /\ row.role = users[u].role /\ row.active = to
  BY <1>2, <1>3 DEF UserRow
<1>5. users' = [users EXCEPT ![u] = row]
  BY <1>1, <1>3
<1>6. (row.role = "admin" /\ row.active) \/ u \notin Admins \/ (\E v \in Admins : v # u)
  <2>1. CASE to
    BY <1>4, <2>1 DEF Admins
  <2>2. CASE ~to
    <3>1. ~LastOne(users[u])
      BY <1>1, <2>2, FoundShape
    <3> QED
      BY <1>1, <3>1, AnotherAdmin DEF IInv
  <2> QED
    BY <2>1, <2>2
<1>7. UsersInv' /\ DOMAIN users' = DOMAIN users
  BY <1>1, <1>4, <1>5, <1>6, ChangeTier DEF IInv
<1>8. LinksInv' /\ Grows
  BY <1>1, <1>7, LinksStep DEF IInv
<1>9. SessionsInv' /\ EndedInv'
  <2>1. CASE to
    BY <1>1, <1>8, <2>1, KeepStep, KeepEnded DEF IInv
  <2>2. CASE ~to
    BY <1>1, <1>8, <2>2, EndStep DEF IInv
  <2> QED
    BY <2>1, <2>2
<1> QED
  BY <1>1, <1>7, <1>8, <1>9, Together DEF IInv

\* An admin who demotes is another admin, so the row was read again.
LEMMA SetRoleSafe ==
    ASSUME IInv, NEW r \in Requests, NEW u \in Users, NEW role \in Role, SetRole(r, u, role)
    PROVE  IInv'
<1>1. /\ u \in DOMAIN users /\ Pending(r) /\ requests[r].row.role = "admin"
      /\ Found(r, u).role # role
      /\ Found(r, u).role = "admin" => ~LastOne(Found(r, u)) /\ u # requests[r].user
      /\ users' = [users EXCEPT ![u].role = role]
      /\ Answered(r) /\ UNCHANGED <<sessions, provider, linked, clock, ended>>
  BY DEF SetRole, ByAdmin
<1>2. users[u] \in UserRow
  BY <1>1, TableShape DEF IInv, UsersInv
<1>3. PICK row : row = [users[u] EXCEPT !.role = role]
  OBVIOUS
<1>4. row \in UserRow
  BY <1>2, <1>3 DEF UserRow
<1>5. users' = [users EXCEPT ![u] = row]
  BY <1>1, <1>3
<1>6. u # requests[r].user /\ Found(r, u) = users[u]
  <2>1. u = requests[r].user => Found(r, u) = requests[r].row
    BY DEF Found
  <2>2. u # requests[r].user
    BY <1>1, <2>1
  <2> QED
    BY <1>1, <2>2, FoundShape
<1>7. u \notin Admins \/ (\E v \in Admins : v # u)
  <2>1. CASE users[u].role = "admin"
    BY <1>1, <1>6, <2>1, AnotherAdmin DEF IInv
  <2>2. CASE users[u].role # "admin"
    BY <2>2 DEF Admins
  <2> QED
    BY <2>1, <2>2
<1>8. UsersInv' /\ DOMAIN users' = DOMAIN users
  BY <1>1, <1>4, <1>5, <1>7, ChangeTier DEF IInv
<1>9. LinksInv' /\ Grows /\ EndedInv'
  BY <1>1, <1>8, LinksStep, KeepEnded DEF IInv
<1>10. SessionsInv'
  BY <1>1, <1>9, KeepStep DEF IInv
<1> QED
  BY <1>1, <1>8, <1>9, <1>10, Together DEF IInv

LEMMA CreateUserSafe ==
    ASSUME IInv, NEW u \in Users, NEW role \in Role, NEW active \in BOOLEAN, NEW must \in BOOLEAN,
           CreateUser(u, role, active, must),
           \/ UNCHANGED requests \/ \E r \in Requests : Answered(r)
    PROVE  IInv'
<1>1. PICK row : row = NewUser(u, role, active, must, "known")
  OBVIOUS
<1>2. row \in UserRow
  BY <1>1, AccessAssumption DEF NewUser, UserRow, Password
<1>3. /\ u \in Users \ DOMAIN users /\ users' = Added(u, row)
      /\ UNCHANGED <<sessions, provider, linked, clock, ended>>
  BY <1>1 DEF CreateUser
<1>4. UsersInv' /\ DOMAIN users \subseteq DOMAIN users'
  BY <1>2, <1>3, AddRow DEF IInv
<1>5. LinksInv' /\ Grows /\ EndedInv'
  BY <1>3, <1>4, LinksStep, KeepEnded DEF IInv
<1>6. SessionsInv'
  BY <1>3, <1>5, KeepStep DEF IInv
<1> QED
  BY <1>3, <1>4, <1>5, <1>6, Together DEF IInv

LEMMA SetProviderSafe ==
    ASSUME IInv, NEW r \in Requests, NEW p \in Configs \cup {NoProvider}, SetProvider(r, p)
    PROVE  IInv'
<1>1. UNCHANGED <<users, sessions, linked, clock, ended>> /\ Answered(r) /\ provider' = p
  BY DEF SetProvider
<1>2. UsersInv' /\ LinksInv' /\ Grows /\ EndedInv'
  BY <1>1, KeepUsers, KeepEnded, LinksStep DEF IInv
<1>3. SessionsInv'
  BY <1>1, <1>2, KeepStep DEF IInv
<1> QED
  BY <1>1, <1>2, <1>3, Together, AccessAssumption DEF IInv, Grows

LEMMA TickSafe ==
    ASSUME IInv, Tick
    PROVE  IInv'
<1>1. UNCHANGED <<users, sessions, provider, linked, requests, ended>> /\ clock' \in 0..MaxClock
  BY AccessAssumption DEF Tick, IInv
<1> QED
  BY <1>1 DEF IInv, UsersInv, LastAdmin, Admins, LinksInv, EndedInv, SessionsInv, SessionOf,
              RequestsInv, Pending

----------------------------------------------------------------------------
(* The sign-on. *)

\* A linked subject gets a session of the user it is linked to.
LEMMA SignOnLinkedSafe ==
    ASSUME IInv, NEW s \in Subjects, SignOnLinked(s), UNCHANGED <<provider, requests, clock, ended>>
    PROVE  IInv'
<1>1. /\ s \in DOMAIN linked /\ Open(linked[s], s) /\ UNCHANGED <<users, linked>>
      /\ linked[s] \in DOMAIN users
  BY TableShape DEF SignOnLinked, IInv, LinksInv
<1>2. UsersInv' /\ LinksInv' /\ Grows /\ EndedInv'
  BY <1>1, KeepUsers, KeepEnded, LinksStep DEF IInv
<1>3. SessionsInv'
  BY <1>1, <1>2, OpenStep, TableShape DEF IInv, UsersInv
<1> QED
  BY <1>1, <1>2, <1>3, Together DEF IInv, Grows

\* A subject without a link gets one, to a user who exists or to a new one.
LEMMA SignOnOtherSafe ==
    ASSUME IInv, NEW s \in Subjects, s \notin DOMAIN linked, NEW e \in Emails \cup {NoEmail},
           NEW verified \in BOOLEAN, LinkByEmail(s, e, verified) \/ SignOnNew(s, e, verified),
           provider \in ProviderConfig, UNCHANGED <<provider, requests, clock, ended>>
    PROVE  IInv'
<1>1. \E u \in DOMAIN users' : Link(s, u) /\ Open(u, s) /\ UsersInv' /\ DOMAIN users \subseteq DOMAIN users'
  <2>1. CASE LinkByEmail(s, e, verified)
    BY <2>1, KeepUsers DEF LinkByEmail, IInv
  <2>2. CASE SignOnNew(s, e, verified)
    <3>1. PICK u \in Users \ DOMAIN users :
             /\ users' = Added(u, [NewUser(u, provider.role, TRUE, FALSE, "random") EXCEPT !.email = e])
             /\ Link(s, u) /\ Open(u, s)
      BY <2>2 DEF SignOnNew
    <3>2. e \in Emails /\ provider.role \in Role
      BY <2>2 DEF SignOnNew, Verified, ProviderConfig
    <3>3. PICK row : row = [NewUser(u, provider.role, TRUE, FALSE, "random") EXCEPT !.email = e]
      OBVIOUS
    <3>4. row \in UserRow
      BY <3>2, <3>3, AccessAssumption DEF NewUser, UserRow, Password
    <3> QED
      BY <3>1, <3>3, <3>4, AddRow DEF IInv
  <2> QED
    BY <2>1, <2>2
<1>2. PICK u \in DOMAIN users' : Link(s, u) /\ Open(u, s) /\ UsersInv' /\ DOMAIN users \subseteq DOMAIN users'
  BY <1>1
<1>3. LinksInv' /\ Grows /\ s \in DOMAIN linked' /\ linked'[s] = u
  BY <1>2, LinkStep DEF IInv
<1>4. EndedInv' /\ DOMAIN users' \subseteq Users
  BY <1>2, KeepEnded, TableShape DEF IInv, UsersInv
<1>5. SessionsInv'
  BY <1>2, <1>3, <1>4, OpenStep DEF IInv
<1> QED
  BY <1>2, <1>3, <1>4, <1>5, Together DEF IInv

LEMMA CallbackSafe ==
    ASSUME IInv, Callback
    PROVE  IInv'
<1>1. PICK s \in Subjects, e \in Emails \cup {NoEmail}, verified \in BOOLEAN : Resolve(s, e, verified)
  BY DEF Callback
<1>2. UNCHANGED <<provider, requests, clock, ended>> /\ provider \in ProviderConfig
  BY DEF Callback, Available, IInv
<1>3. CASE SignOnLinked(s)
  BY <1>2, <1>3, SignOnLinkedSafe
<1>4. CASE s \notin DOMAIN linked /\ (LinkByEmail(s, e, verified) \/ SignOnNew(s, e, verified))
  BY <1>2, <1>4, SignOnOtherSafe
<1> QED
  BY <1>1, <1>3, <1>4 DEF Resolve

----------------------------------------------------------------------------
(* The theorems. *)

LEMMA NextInv ==
    ASSUME IInv, [Next]_vars
    PROVE  IInv'
<1>1. ASSUME NEW r \in Requests, Handle(r) PROVE IInv'
  <2>1. CASE Answer(r) \/ ChangePassword(r)
    BY <2>1, AnswerSafe, ChangePasswordSafe
  <2>2. CASE \E i \in DOMAIN sessions : RevokeSession(r, i)
    BY <2>2, RevokeSessionSafe
  <2>3. CASE \E u \in Users : LogoutAll(r, u) \/ ResetPassword(r, u)
    BY <2>3, LogoutAllSafe, ResetPasswordSafe
  <2>4. CASE \E u \in Users, e \in Emails : UpdateProfile(r, u, e)
    BY <2>4, UpdateProfileSafe
  <2>5. CASE \E u \in Users, to \in BOOLEAN : SetActive(r, u, to)
    BY <2>5, SetActiveSafe
  <2>6. CASE \E u \in Users, role \in Roles : SetRole(r, u, role)
    BY <2>6, SetRoleSafe, AccessAssumption
  <2>7. CASE \E u \in Users, role \in Roles, active \in BOOLEAN, must \in BOOLEAN :
                CreateByAdmin(r, u, role, active, must)
    BY <2>7, CreateUserSafe, AccessAssumption DEF CreateByAdmin
  <2>8. CASE \E p \in Configs \cup {NoProvider} : SetProvider(r, p)
    BY <2>8, SetProviderSafe
  <2> QED
    BY <1>1, <2>1, <2>2, <2>3, <2>4, <2>5, <2>6, <2>7, <2>8 DEF Handle
<1>2. ASSUME NEW r \in Requests, NEW i \in DOMAIN sessions, Authenticate(r, i) PROVE IInv'
  BY <1>2, AuthenticateSafe
<1>3. ASSUME NEW u \in Users, Login(u) PROVE IInv'
  BY <1>3, LoginSafe
<1>4. ASSUME NEW u \in Users, NEW role \in Roles, NEW must \in BOOLEAN,
             CreateFromCommandLine(u, role, must) PROVE IInv'
  BY <1>4, CreateUserSafe, AccessAssumption DEF CreateFromCommandLine
<1>5. ASSUME NEW i \in DOMAIN sessions, Logout(i) PROVE IInv'
  BY <1>5, LogoutSafe
<1>6. ASSUME NEW i \in DOMAIN sessions, NEW g \in 1..sessions[i].gen, Refresh(i, g) PROVE IInv'
  BY <1>6, RefreshSafe
<1>7. CASE Callback \/ Tick
  BY <1>7, CallbackSafe, TickSafe
<1>8. CASE UNCHANGED vars
  BY <1>8 DEF vars, IInv, UsersInv, LastAdmin, Admins, LinksInv, EndedInv, SessionsInv,
              SessionOf, RequestsInv, Pending
<1> QED
  BY <1>1, <1>2, <1>3, <1>4, <1>5, <1>6, <1>7, <1>8 DEF Next

LEMMA InductiveInvariant == Spec => []IInv
<1> QED
  BY InitInv, NextInv, PTL DEF Spec

\* Every table of the access part keeps its type and its foreign keys.
THEOREM TypeCorrect == Spec => []TypeOK
<1>1. IInv => TypeOK
  <2> SUFFICES ASSUME IInv PROVE TypeOK
    OBVIOUS
  <2>1. \A i \in DOMAIN sessions : sessions[i].user \in DOMAIN users
    BY DEF IInv, SessionsInv, SessionOf
  <2> QED
    BY <2>1 DEF IInv, UsersInv, LinksInv, EndedInv, SessionsInv, RequestsInv, TypeOK
<1> QED
  BY <1>1, InductiveInvariant, PTL

\* However many admins disable and demote each other at once, one is left.
THEOREM AdminLeft == Spec => []LastAdmin
<1>1. IInv => LastAdmin
  BY DEF IInv, UsersInv
<1> QED
  BY <1>1, InductiveInvariant, PTL

\* Ending the sessions of a user ends every session opened before.
THEOREM EndedForGood == Spec => []SessionsEnd
<1>1. IInv => SessionsEnd
  BY DEF IInv, SessionsInv, SessionOf, SessionsEnd
<1> QED
  BY <1>1, InductiveInvariant, PTL

\* A subject of the identity provider signs in as one user.
THEOREM OneUserPerSubject == Spec => []SubjectKeepsUser
<1>1. IInv => SubjectKeepsUser
  BY DEF IInv, SessionsInv, SessionOf, SubjectKeepsUser
<1> QED
  BY <1>1, InductiveInvariant, PTL

\* A handler that changes a role or an activity changes another user's than the
\* one who sent the request.
LEMMA OwnTierStep ==
    ASSUME IInv, [Next]_vars, NEW r \in Requests, Pending(r), requests'[r] = NoRequest
    PROVE  LET u == requests[r].user IN
           users'[u].role = users[u].role /\ users'[u].active = users[u].active
<1> DEFINE u == requests[r].user
           Same == users'[u].role = users[u].role /\ users'[u].active = users[u].active
<1>1. /\ u \in DOMAIN users /\ users[u] \in UserRow /\ u \in Users
      /\ requests[r] \in Request /\ requests[r].row.active
      /\ users \in [DOMAIN users -> UserRow] /\ requests \in [Requests -> Request \cup {NoRequest}]
  BY FoundShape, TableShape DEF IInv, UsersInv, RequestsInv
<1>2. CASE UNCHANGED users
  BY <1>2
<1>3. ASSUME NEW v \in Users \ DOMAIN users, NEW row, users' = Added(v, row)
      PROVE  Same
  BY <1>1, <1>3 DEF Added
<1>4. ASSUME NEW q \in Requests, Handle(q), Answered(q), requests[q] # NoRequest PROVE Same
  <2>1. q = r
    BY <1>1, <1>4 DEF Answered, Pending
  <2>2. CASE Answer(r) \/ (\E i \in DOMAIN sessions : RevokeSession(r, i))
             \/ (\E v \in Users : LogoutAll(r, v))
             \/ (\E p \in Configs \cup {NoProvider} : SetProvider(r, p))
    BY <1>2, <2>2 DEF Answer, RevokeSession, LogoutAll, SetProvider
  <2>3. CASE ChangePassword(r) \/ (\E v \in Users : ResetPassword(r, v))
             \/ (\E v \in Users, e \in Emails : UpdateProfile(r, v, e))
    <3>1. CASE ChangePassword(r)
      <4>1. users' = [users EXCEPT ![u].password = "known",
                                   ![u].must = @ /\ ~requests[r].row.must]
        BY <3>1 DEF ChangePassword
      <4> QED
        BY <1>1, <4>1 DEF UserRow
    <3>2. ASSUME NEW v \in Users, ResetPassword(r, v) PROVE Same
      BY <1>1, <3>2 DEF ResetPassword, UserRow
    <3>3. ASSUME NEW v \in Users, NEW e \in Emails, UpdateProfile(r, v, e) PROVE Same
      BY <1>1, <3>3 DEF UpdateProfile, UserRow
    <3> QED
      BY <2>3, <3>1, <3>2, <3>3
  <2>4. ASSUME NEW v \in Users, NEW to \in BOOLEAN, SetActive(r, v, to) PROVE Same
    <3>1. v # u
      BY <1>1, <2>4 DEF SetActive, Found
    <3> QED
      BY <1>1, <2>4, <3>1 DEF SetActive
  <2>5. ASSUME NEW v \in Users, NEW role \in Roles, SetRole(r, v, role) PROVE Same
    <3>1. v # u
      BY <1>1, <2>5 DEF SetRole, Found, ByAdmin
    <3> QED
      BY <1>1, <2>5, <3>1 DEF SetRole
  <2>6. CASE \E v \in Users, role \in Roles, active \in BOOLEAN, must \in BOOLEAN :
                CreateByAdmin(r, v, role, active, must)
    BY <1>3, <2>6 DEF CreateByAdmin, CreateUser
  <2> QED
    BY <1>4, <2>1, <2>2, <2>3, <2>4, <2>5, <2>6 DEF Handle
<1>5. CASE UNCHANGED requests
  BY <1>5 DEF Pending
<1>6. CASE \E q \in Requests : \E i \in DOMAIN sessions : Authenticate(q, i)
  BY <1>2, <1>6 DEF Authenticate
<1>7. CASE \E q \in Requests : Handle(q)
  <2>1. PICK q \in Requests : Handle(q)
    BY <1>7
  <2>2. Pending(q) /\ Answered(q)
    BY <2>1 DEF Handle, Answer, ChangePassword, RevokeSession, LogoutAll, ResetPassword,
                UpdateProfile, SetActive, SetRole, CreateByAdmin, SetProvider, ByAdmin
  <2> QED
    BY <1>4, <2>1, <2>2 DEF Pending
<1> QED
  BY <1>5, <1>6, <1>7 DEF Next, vars, Login, CreateFromCommandLine, Logout, Refresh, Callback, Tick

\* An admin who was demoted or disabled cannot use a request under way to undo it.
THEOREM TierOfOthersOnly == Spec => OwnTierKept
<1>1. IInv /\ [Next]_vars =>
        [\A r \in Requests : Pending(r) /\ requests'[r] = NoRequest =>
          LET u == requests[r].user IN
          users'[u].role = users[u].role /\ users'[u].active = users[u].active]_vars
  BY OwnTierStep
<1> QED
  BY <1>1, InductiveInvariant, PTL DEF Spec, OwnTierKept
=============================================================================
