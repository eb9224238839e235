------------------------- MODULE Organisation_proofs -------------------------
(***************************************************************************)
(* Proofs about InternalAccounts, CompanyProfile and TestCompanyPurge.     *)
(* They share no state; each has its own part here.                        *)
(***************************************************************************)
EXTENDS InternalAccounts, CompanyProfile, TestCompanyPurge, FiniteSetTheorems, TLAPS

-----------------------------------------------------------------------------
(***************************************************************************)
(* The internal accounts.                                                  *)
(***************************************************************************)

\* The failures that count were judged one by one, and no lock is late.
GuardIsSound(u) ==
  /\ tries[u] <= guard[u].count
  /\ Forgotten(u) => tries[u] = 0
  /\ guard[u].lock = "none" => guard[u].count < MaxFailures

\* A change of role or status in progress ...
Changing(d) == desk[d].kind \in {"roles", "status"}

\* ... is the only one, because of the lock of the roster ...
OneChange == \A d, e \in Desks : Changing(d) /\ Changing(e) => d = e

\* ... and what it checked is still so, because of the locks of the rows.
ChangeIsSound(d) ==
  Changing(d) =>
    /\ Exists(desk[d].of)
    /\ Withdraws(d) /\ desk[d].of \in ActiveSuperadmins
         => \E v \in ActiveSuperadmins : v # desk[d].of

\* The version of a token is one the account had, and not its last if it was ended.
SessionIsSound(b) ==
  session[b].of \in Users /\ session[b].of \notin overtaken =>
    \/ user[session[b].of].status = "DELETED"
    \/ /\ session[b].version <= user[session[b].of].version
       /\ session[b].ended => session[b].version < user[session[b].of].version

InternalInv ==
  /\ InternalTypeOK
  /\ \A u \in Users : GuardIsSound(u)
  /\ OneChange
  /\ \A d \in Desks : ChangeIsSound(d)
  /\ \A b \in Browsers : SessionIsSound(b)
  /\ SomebodyAdministers

USE InternalAssumption

-----------------------------------------------------------------------------
\* What a request in progress remembers.
LEMMA DeskParts ==
  ASSUME InternalTypeOK, NEW d \in Desks
  PROVE  /\ desk[d].kind = "roles" => desk[d].of \in Users /\ desk[d].role \in InternalRoles
         /\ desk[d].kind = "status" => desk[d].of \in Users /\ desk[d].status \in {"ACTIVE", "DISABLED"}
         /\ desk[d].kind = "logout" => desk[d].of \in Users /\ desk[d].version \in 0..MaxVersion
         /\ desk[d].kind = "migration" =>
              DOMAIN desk[d].to \subseteq Users /\ \A u \in DOMAIN desk[d].to : desk[d].to[u] \in InternalRoles
<1>1. desk[d] \in Desk
  BY DEF InternalTypeOK
<1>2. CASE desk[d].kind = "migration"
  <2>1. desk[d].to \in UNION {[U -> InternalRoles] : U \in SUBSET Users}
    BY <1>1, <1>2 DEF Desk, AtEase
  <2>2. PICK U \in SUBSET Users : desk[d].to \in [U -> InternalRoles]
    BY <2>1
  <2>3. QED
    BY <1>2, <2>2
<1>3. CASE desk[d].kind # "migration"
  BY <1>1, <1>3 DEF Desk, AtEase
<1>4. QED
  BY <1>2, <1>3

\* Requests of every kind.
LEMMA DeskKinds ==
  /\ AtEase \in Desk
  /\ \A u \in Users, r \in InternalRoles : [kind |-> "roles", of |-> u, role |-> r] \in Desk
  /\ \A u \in Users, s \in {"ACTIVE", "DISABLED"} : [kind |-> "status", of |-> u, status |-> s] \in Desk
  /\ \A u \in Users, v \in 0..MaxVersion : [kind |-> "logout", of |-> u, version |-> v] \in Desk
  /\ \A U \in SUBSET Users : \A to \in [U -> InternalRoles] : [kind |-> "migration", to |-> to] \in Desk
<1>1. ASSUME NEW U \in SUBSET Users, NEW to \in [U -> InternalRoles]
      PROVE  [kind |-> "migration", to |-> to] \in Desk
  <2>1. to \in UNION {[V -> InternalRoles] : V \in SUBSET Users}
    OBVIOUS
  <2>2. QED
    BY <2>1 DEF Desk
<1>2. QED
  BY <1>1 DEF Desk, AtEase

\* A session of somebody.
LEMMA SessionParts ==
  ASSUME InternalTypeOK, NEW b \in Browsers
  PROVE  /\ session[b] \in Session
         /\ session[b] # NoSession => session[b].of \in Users
         /\ session[b].version \in 0..MaxVersion /\ session[b].ended \in BOOLEAN
         /\ session[b].version \in Nat
<1>1. session[b] \in Session
  BY DEF InternalTypeOK
<1>2. CASE session[b] = NoSession
  BY <1>1, <1>2 DEF NoSession
<1>3. CASE session[b] # NoSession
  <2>1. session[b] \in [of : Users, version : 0..MaxVersion, ended : BOOLEAN]
    BY <1>1, <1>3 DEF Session
  <2>2. QED
    BY <1>1, <2>1
<1>4. QED
  BY <1>2, <1>3

\* The row of an account.
LEMMA UserParts ==
  ASSUME InternalTypeOK, NEW u \in Users
  PROVE  /\ user[u] \in User
         /\ user[u].status \in {"NONE", "ACTIVE", "DISABLED", "DELETED"} /\ user[u].roles \in SUBSET AllRoles
         /\ user[u].version \in 0..MaxVersion /\ user[u].version \in Nat /\ user[u].test \in BOOLEAN
BY DEF InternalTypeOK, User

LEMMA NobodyIs ==
  /\ Nobody \in User
  /\ Nobody.status = "NONE" /\ Nobody.roles = {} /\ Nobody.version = 0
BY DEF Nobody, User, AllRoles, InternalRoles

\* Who may ask is a super admin.
LEMMA AskedBySuperadmin ==
  ASSUME InternalTypeOK, Asked
  PROVE  ActiveSuperadmins # {}
<1>1. PICK b \in Browsers : Valid(b) /\ user[session[b].of].roles = {"SUPER_ADMIN"}
  BY DEF Asked
<1>2. session[b].of \in Users /\ user[session[b].of].status = "ACTIVE"
  BY <1>1, SessionParts DEF Valid
<1>3. QED
  BY <1>1, <1>2 DEF ActiveSuperadmins, Internal, InternalRoles

\* A row that is free is neither the account of a change in progress, nor one of the
\* roster it has counted.
LEMMA FreeRows ==
  ASSUME NEW u, RowFree(u), NEW d \in Desks, Changing(d)
  PROVE  /\ desk[d].of # u
         /\ Withdraws(d) /\ desk[d].of \in ActiveSuperadmins => u \notin ActiveSuperadmins
BY DEF RowFree, LockedBy, Changing

\* Another one than the only one.
LEMMA Another ==
  ASSUME NEW S, NEW x \in S, Cardinality(S) > 1
  PROVE  \E y \in S : y # x
<1>1. SUFFICES ASSUME \A y \in S : y = x PROVE FALSE
  OBVIOUS
<1>2. S = {x}
  BY <1>1
<1>3. Cardinality(S) = 1
  BY <1>2, FS_Singleton
<1>4. QED
  BY <1>3

-----------------------------------------------------------------------------
\* The invariant holds at first.
LEMMA InternalStarts == ASSUME InternalInit PROVE InternalInv
<1> USE DEF InternalInit
<1>a. \A u \in Users : user[u] \in User /\ user[u].version = 0 /\ (user[u].roles # {} => user[u].status = "ACTIVE")
  <2>1. TAKE u \in Users
  <2>2. CASE user[u] = Nobody
    BY <2>2, NobodyIs
  <2>3. ASSUME NEW R \in {{"SUPER_ADMIN"}, {"OPERATION", "LEGACY"}},
               user[u] = [Nobody EXCEPT !.status = "ACTIVE", !.roles = R]
        PROVE  user[u] \in User /\ user[u].version = 0 /\ user[u].status = "ACTIVE"
    <3>1. R \in SUBSET AllRoles
      BY DEF AllRoles, InternalRoles
    <3>2. QED
      BY <2>3, <3>1, NobodyIs DEF User
  <2>4. QED
    BY <2>2, <2>3
<1>1. InternalTypeOK
  <2>1. \A u \in Users : user[u] \in User
    BY <1>a
  <2>2. Clear \in LoginState /\ NoSession \in Session /\ AtEase \in Desk
    BY DeskKinds DEF Clear, LoginState, Session
  <2>3. user \in [Users -> User]
    BY <2>1
  <2>4. guard \in [Users -> LoginState] /\ session \in [Browsers -> Session] /\ desk \in [Desks -> Desk]
    BY <2>2
  <2>5. tries \in [Users -> 0..MaxFailures]
    OBVIOUS
  <2>6. QED
    BY <2>3, <2>4, <2>5 DEF InternalTypeOK
<1>2. \A u \in Users : GuardIsSound(u)
  BY DEF GuardIsSound, Forgotten, Clear
<1>3. \A d \in Desks : ~Changing(d)
  BY DEF Changing, AtEase
<1>4. \A b \in Browsers : SessionIsSound(b)
  BY <1>a DEF SessionIsSound, NoSession
<1>5. SomebodyAdministers
  <2>1. CASE rbac = "absent"
    BY <2>1 DEF SomebodyAdministers
  <2>2. CASE rbac = "drifted"
    <3>1. PICK u \in Users : user[u].roles = {"SUPER_ADMIN"}
      BY <2>2
    <3>2. user[u].status = "ACTIVE"
      BY <3>1, <1>a
    <3>3. u \in ActiveSuperadmins
      BY <3>1, <3>2 DEF ActiveSuperadmins, Internal, InternalRoles
    <3>4. QED
      BY <3>3 DEF SomebodyAdministers
  <2>3. QED
    BY <2>1, <2>2
<1>6. QED
  BY <1>1, <1>2, <1>3, <1>4, <1>5 DEF InternalInv, OneChange, ChangeIsSound

-----------------------------------------------------------------------------
\* What the steps make of the rows and of the sessions.

\* The row of u is written, and no other.
RowBecomes(u, s, R, v) ==
  /\ user' \in [Users -> User]
  /\ user'[u].status = s /\ user'[u].roles = R /\ user'[u].version = v
  /\ \A x \in Users : x # u => user'[x] = user[x]

LEMMA BootstrapRow ==
  ASSUME InternalTypeOK, NEW u \in Users, Bootstrap(u)
  PROVE  RowBecomes(u, "ACTIVE", {"SUPER_ADMIN"}, 0)
<1>1. user'[u] = [Nobody EXCEPT !.status = "ACTIVE", !.roles = {"SUPER_ADMIN"}]
  BY DEF InternalTypeOK, Bootstrap, Managed
<1>2. user'[u] \in User /\ user'[u].status = "ACTIVE" /\ user'[u].roles = {"SUPER_ADMIN"} /\ user'[u].version = 0
  <2>1. {"SUPER_ADMIN"} \in SUBSET AllRoles
    BY DEF AllRoles, InternalRoles
  <2>2. QED
    BY <1>1, <2>1, NobodyIs DEF User
<1>3. QED
  BY <1>2 DEF InternalTypeOK, Bootstrap, RowBecomes

LEMMA CreateRow ==
  ASSUME InternalTypeOK, NEW u \in Users, NEW r \in InternalRoles, CreateUser(u, r)
  PROVE  RowBecomes(u, "ACTIVE", {r}, 0)
<1>1. PICK test \in BOOLEAN : user' = [user EXCEPT ![u] = [Managed(r) EXCEPT !.test = test]]
  BY DEF CreateUser
<1>2. Managed(r) \in User /\ Managed(r).status = "ACTIVE" /\ Managed(r).roles = {r} /\ Managed(r).version = 0
  <2>1. {r} \in SUBSET AllRoles
    BY DEF AllRoles
  <2>2. Managed(r) = [Nobody EXCEPT !.status = "ACTIVE", !.roles = {r}]
    BY DEF Managed
  <2>3. QED
    BY <2>1, <2>2, NobodyIs DEF User
<1>3. user'[u] = [Managed(r) EXCEPT !.test = test]
  BY <1>1 DEF InternalTypeOK
<1>4. user'[u] \in User /\ user'[u].status = "ACTIVE" /\ user'[u].roles = {r} /\ user'[u].version = 0
  BY <1>2, <1>3 DEF User
<1>5. QED
  BY <1>1, <1>4 DEF InternalTypeOK, RowBecomes

\* A new version and nothing else.
LEMMA RaisedRow ==
  ASSUME InternalTypeOK, NEW u \in Users, NEW v \in 0..MaxVersion,
         user' = [user EXCEPT ![u].version = v]
  PROVE  RowBecomes(u, user[u].status, user[u].roles, v)
BY DEF InternalTypeOK, User, RowBecomes

LEMMA RolesRow ==
  ASSUME InternalTypeOK, NEW d \in Desks, FinishRoles(d)
  PROVE  RowBecomes(desk[d].of, user[desk[d].of].status, {desk[d].role}, user[desk[d].of].version + 1)
<1>1. desk[d].of \in Users /\ {desk[d].role} \in SUBSET AllRoles
  BY DeskParts DEF FinishRoles, AllRoles
<1>2. user[desk[d].of].version + 1 \in 0..MaxVersion
  BY <1>1, UserParts DEF FinishRoles, Raised
<1>3. QED
  BY <1>1, <1>2 DEF InternalTypeOK, User, FinishRoles, Raised, RowBecomes

LEMMA StatusRow ==
  ASSUME InternalTypeOK, NEW d \in Desks, FinishStatus(d)
  PROVE  RowBecomes(desk[d].of, desk[d].status, user[desk[d].of].roles, user[desk[d].of].version + 1)
<1>1. desk[d].of \in Users /\ desk[d].status \in {"ACTIVE", "DISABLED"}
  BY DeskParts DEF FinishStatus
<1>2. user[desk[d].of].version + 1 \in 0..MaxVersion
  BY <1>1, UserParts DEF FinishStatus, Raised
<1>3. QED
  BY <1>1, <1>2 DEF InternalTypeOK, User, FinishStatus, Raised, RowBecomes

LEMMA MarkedRow ==
  ASSUME InternalTypeOK, NEW u \in Users, MarkTest(u)
  PROVE  RowBecomes(u, user[u].status, user[u].roles, user[u].version)
BY DEF InternalTypeOK, User, MarkTest, RowBecomes

LEMMA DeletedRow ==
  ASSUME InternalTypeOK, NEW u \in Users, DeleteUser(u)
  PROVE  RowBecomes(u, "DELETED", {}, 0)
<1>1. user'[u] = [Nobody EXCEPT !.status = "DELETED"]
  BY DEF InternalTypeOK, DeleteUser
<1>2. user'[u] \in User /\ user'[u].status = "DELETED" /\ user'[u].roles = {} /\ user'[u].version = 0
  BY <1>1, NobodyIs DEF User
<1>3. QED
  BY <1>2 DEF InternalTypeOK, DeleteUser, RowBecomes

\* A session whose owner is told.
LEMMA Told ==
  ASSUME NEW s \in Session, s.of \in Users, NEW e, e = [s EXCEPT !.ended = TRUE]
  PROVE  e \in Session /\ e.of = s.of /\ e.version = s.version /\ e.ended = TRUE
<1>1. s \in [of : Users, version : 0..MaxVersion, ended : BOOLEAN]
  <2>1. CASE s = NoSession
    BY <2>1 DEF NoSession
  <2>2. CASE s # NoSession
    BY <2>2 DEF Session
  <2>3. QED
    BY <2>1, <2>2
<1>2. e \in [of : Users, version : 0..MaxVersion, ended : BOOLEAN]
      /\ e.of = s.of /\ e.version = s.version /\ e.ended = TRUE
  BY <1>1
<1>3. QED
  BY <1>2 DEF Session

\* When those of U are told, the tokens stay what they are.
LEMMA OverTells ==
  ASSUME InternalTypeOK, NEW U \in SUBSET Users, Over(U)
  PROVE  /\ session' \in [Browsers -> Session]
         /\ \A b \in Browsers :
              /\ session'[b].of = session[b].of /\ session'[b].version = session[b].version
              /\ session'[b].ended = (session[b].of \in U \/ session[b].ended)
<1>1. ASSUME NEW b \in Browsers
      PROVE  /\ session'[b] \in Session
             /\ session'[b].of = session[b].of /\ session'[b].version = session[b].version
             /\ session'[b].ended = (session[b].of \in U \/ session[b].ended)
  <2>1. CASE session[b].of \in U
    <3>1. session'[b] = [session[b] EXCEPT !.ended = TRUE]
      BY <2>1 DEF Over
    <3>2. session[b].of \in Users /\ session[b] \in Session
      BY <2>1, SessionParts
    <3>3. QED
      BY <2>1, <3>1, <3>2, Told
  <2>2. CASE session[b].of \notin U
    <3>1. session'[b] = session[b]
      BY <2>2 DEF Over
    <3>2. QED
      BY <2>2, <3>1, SessionParts
  <2>3. QED
    BY <2>1, <2>2
<1>2. session' = [b \in Browsers |-> session'[b]]
  BY DEF Over
<1>3. QED
  BY <1>1, <1>2

LEMMA PasswordTells ==
  ASSUME InternalTypeOK, NEW b \in Browsers, ChangePassword(b)
  PROVE  /\ session' \in [Browsers -> Session]
         /\ session'[b].of = session[b].of /\ session'[b].version = user[session[b].of].version + 1
         /\ session'[b].ended = session[b].ended
         /\ \A c \in Browsers : c # b =>
              /\ session'[c].of = session[c].of /\ session'[c].version = session[c].version
              /\ session'[c].ended = (session[c].of = session[b].of \/ session[c].ended)
<1> DEFINE u == session[b].of
<1>1. u \in Users /\ user[u].version + 1 \in 0..MaxVersion /\ session[b] # NoSession
  BY SessionParts, UserParts DEF ChangePassword, Valid, Raised
<1>2. /\ session'[b] \in Session /\ session'[b].of = u /\ session'[b].version = user[u].version + 1
      /\ session'[b].ended = session[b].ended
  <2>1. session'[b] = [session[b] EXCEPT !.version = user[u].version + 1]
    BY DEF ChangePassword, Raised
  <2>2. session[b] \in [of : Users, version : 0..MaxVersion, ended : BOOLEAN]
    BY <1>1, SessionParts DEF Session
  <2>3. /\ session'[b] \in [of : Users, version : 0..MaxVersion, ended : BOOLEAN]
        /\ session'[b].of = u /\ session'[b].version = user[u].version + 1
        /\ session'[b].ended = session[b].ended
    BY <1>1, <2>1, <2>2
  <2>4. QED
    BY <2>3 DEF Session
<1>3. ASSUME NEW c \in Browsers, c # b
      PROVE  /\ session'[c] \in Session
             /\ session'[c].of = session[c].of /\ session'[c].version = session[c].version
             /\ session'[c].ended = (session[c].of = u \/ session[c].ended)
  <2>1. CASE session[c].of = u
    <3>1. session'[c] = [session[c] EXCEPT !.ended = TRUE]
      BY <1>3, <2>1 DEF ChangePassword
    <3>2. QED
      BY <1>1, <2>1, <3>1, SessionParts, Told
  <2>2. CASE session[c].of # u
    <3>1. session'[c] = session[c]
      BY <1>3, <2>2 DEF ChangePassword
    <3>2. QED
      BY <2>2, <3>1, SessionParts
  <2>3. QED
    BY <2>1, <2>2
<1>4. session' = [c \in Browsers |-> session'[c]]
  BY DEF ChangePassword
<1>5. session' \in [Browsers -> Session]
  BY <1>2, <1>3, <1>4
<1>6. QED
  BY <1>2, <1>3, <1>5

LEMMA LogoutTells ==
  ASSUME InternalTypeOK, NEW d \in Desks, FinishLogout(d)
  PROVE  /\ session' \in [Browsers -> Session]
         /\ \A b \in Browsers :
              /\ session'[b].of = session[b].of /\ session'[b].version = session[b].version
              /\ session'[b].ended =
                   (session[b].ended \/ (session[b].of = desk[d].of /\ session[b].version = desk[d].version))
<1> DEFINE Hit(b) == session[b].of = desk[d].of /\ session[b].version = desk[d].version
<1>0. desk[d].of \in Users
  BY DeskParts DEF FinishLogout
<1>1. ASSUME NEW b \in Browsers
      PROVE  /\ session'[b] \in Session
             /\ session'[b].of = session[b].of /\ session'[b].version = session[b].version
             /\ session'[b].ended = (session[b].ended \/ Hit(b))
  <2>1. CASE Hit(b)
    <3>1. session'[b] = [session[b] EXCEPT !.ended = TRUE]
      BY <2>1 DEF FinishLogout
    <3>2. QED
      BY <1>0, <2>1, <3>1, SessionParts, Told
  <2>2. CASE ~Hit(b)
    <3>1. session'[b] = session[b]
      BY <2>2 DEF FinishLogout
    <3>2. QED
      BY <2>2, <3>1, SessionParts
  <2>3. QED
    BY <2>1, <2>2
<1>2. session' = [b \in Browsers |-> session'[b]]
  BY DEF FinishLogout
<1>3. session' \in [Browsers -> Session]
  BY <1>1, <1>2
<1>4. QED
  BY <1>1, <1>3

\* A migration writes the rows of its mapping that are free, and raises their versions.
Remapped(d) == {u \in DOMAIN desk[d].to : user[u].roles # {desk[d].to[u]}}

LEMMA MigratedRows ==
  ASSUME InternalTypeOK, NEW d \in Desks, ApplyMigration(d)
  PROVE  /\ user' \in [Users -> User]
         /\ Remapped(d) \in SUBSET Users
         /\ \A u \in Users : u \notin Remapped(d) => user'[u] = user[u]
         /\ \A u \in Remapped(d) :
              /\ Exists(u) /\ RowFree(u)
              /\ user'[u].status = user[u].status /\ user'[u].version = user[u].version + 1
<1>1. desk[d].kind = "migration" /\ DOMAIN desk[d].to \subseteq Users
  BY DeskParts DEF ApplyMigration
<1>2. Remapped(d) \in SUBSET Users
  BY <1>1 DEF Remapped
<1>3. ASSUME NEW u \in Users, u \notin Remapped(d)
      PROVE  user'[u] = user[u] /\ user'[u] \in User
  BY <1>3, UserParts DEF ApplyMigration, Remapped
<1>4. ASSUME NEW u \in Remapped(d)
      PROVE  /\ user'[u] \in User /\ Exists(u) /\ RowFree(u)
             /\ user'[u].status = user[u].status /\ user'[u].version = user[u].version + 1
  <2>1. u \in Users /\ user[u] \in User
    BY <1>2, UserParts
  <2>2. user'[u] = [user[u] EXCEPT !.roles = {desk[d].to[u]}, !.version = user[u].version + 1]
    BY <2>1 DEF ApplyMigration, Remapped, Raised
  <2>3. Exists(u) /\ RowFree(u) /\ user[u].version + 1 <= MaxVersion
    BY DEF ApplyMigration, Remapped, Raised
  <2>4. {desk[d].to[u]} \in SUBSET AllRoles
    BY <1>1, DeskParts DEF Remapped, AllRoles
  <2>5. user[u].version + 1 \in 0..MaxVersion
    BY <2>1, <2>3, UserParts
  <2>6. QED
    BY <2>1, <2>2, <2>3, <2>4, <2>5 DEF User
<1>5. user' = [u \in Users |-> user'[u]]
  BY DEF ApplyMigration
<1>6. user' \in [Users -> User]
  BY <1>3, <1>4, <1>5
<1>7. QED
  BY <1>2, <1>3, <1>4, <1>6

-----------------------------------------------------------------------------
\* Passwords.
GuardsAreSound ==
  /\ guard \in [Users -> LoginState] /\ tries \in [Users -> 0..MaxFailures]
  /\ \A u \in Users : GuardIsSound(u)

LEMMA WrongIsCounted ==
  ASSUME GuardsAreSound, NEW u \in Users, WrongPassword(u)
  PROVE  GuardsAreSound'
<1> USE DEF GuardsAreSound, WrongPassword
<1>1. /\ guard'[u] = Failed(u) /\ tries'[u] = tries[u] + 1
      /\ \A x \in Users : x # u => guard'[x] = guard[x] /\ tries'[x] = tries[x]
  OBVIOUS
<1>2. guard[u].count \in 0..MaxFailures /\ guard[u].lock \in {"none", "on", "over"} /\ tries[u] \in 0..MaxFailures
  BY DEF LoginState
<1> DEFINE n == IF Forgotten(u) THEN 1 ELSE guard[u].count + 1
<1>3. n \in Nat
      /\ Failed(u) = [count |-> n, recent |-> TRUE, lock |-> IF n >= MaxFailures THEN "on" ELSE "none"]
  <2>1. n \in Nat
    BY <1>2
  <2>2. QED
    BY <2>1 DEF Failed
<1>4. n <= MaxFailures /\ tries[u] + 1 <= n
  BY <1>2, <1>3 DEF GuardIsSound, Forgotten
<1>5. Failed(u) \in LoginState
  BY <1>3, <1>4 DEF LoginState
<1>6. guard' \in [Users -> LoginState] /\ tries' \in [Users -> 0..MaxFailures]
  BY <1>2, <1>4, <1>5
<1>7. GuardIsSound(u)'
  BY <1>1, <1>3, <1>4 DEF GuardIsSound, Forgotten
<1>8. ASSUME NEW x \in Users, x # u PROVE GuardIsSound(x)'
  BY <1>1, <1>8 DEF GuardIsSound, Forgotten
<1>9. QED
  BY <1>6, <1>7, <1>8

LEMMA PardonIsSound ==
  ASSUME GuardsAreSound, NEW u \in Users, Pardon(u)
  PROVE  GuardsAreSound'
<1> USE DEF GuardsAreSound, Pardon
<1>1. Clear \in LoginState
  BY DEF Clear, LoginState
<1>2. guard' \in [Users -> LoginState] /\ tries' \in [Users -> 0..MaxFailures]
  BY <1>1
<1>3. GuardIsSound(u)'
  BY DEF GuardIsSound, Forgotten, Clear
<1>4. ASSUME NEW x \in Users, x # u PROVE GuardIsSound(x)'
  BY <1>4 DEF GuardIsSound, Forgotten
<1>5. QED
  BY <1>2, <1>3, <1>4

LEMMA GuardsKept ==
  ASSUME InternalInv, InternalNext
  PROVE  GuardsAreSound'
<1>0. GuardsAreSound
  BY DEF InternalInv, InternalTypeOK, GuardsAreSound
<1>1. CASE UNCHANGED <<guard, tries>>
  BY <1>0, <1>1 DEF GuardsAreSound, GuardIsSound, Forgotten
<1>2. ASSUME NEW u \in Users, WrongPassword(u) PROVE GuardsAreSound'
  BY <1>0, <1>2, WrongIsCounted
<1>3. ASSUME NEW u \in Users, Pardon(u) PROVE GuardsAreSound'
  BY <1>0, <1>3, PardonIsSound
<1>4. ASSUME NEW u \in Users, WindowPasses(u) PROVE GuardsAreSound'
  <2>0. guard' = [guard EXCEPT ![u].recent = FALSE] /\ tries' = [tries EXCEPT ![u] = 0]
    BY <1>4 DEF WindowPasses
  <2>1. guard' \in [Users -> LoginState] /\ tries' \in [Users -> 0..MaxFailures]
    <3>1. guard'[u] \in LoginState
      <4>1. guard[u] \in LoginState /\ guard'[u] = [guard[u] EXCEPT !.recent = FALSE]
        BY <1>0, <2>0 DEF GuardsAreSound
      <4>2. QED
        BY <4>1 DEF LoginState
    <3>2. guard' \in [Users -> LoginState]
      BY <1>0, <2>0, <3>1 DEF GuardsAreSound
    <3>3. tries' \in [Users -> 0..MaxFailures]
      BY <1>0, <2>0 DEF GuardsAreSound
    <3>4. QED
      BY <3>2, <3>3
  <2>2. \A x \in Users : GuardIsSound(x)'
    <3>1. GuardIsSound(u)'
      BY <1>0, <2>0 DEF GuardsAreSound, LoginState, GuardIsSound, Forgotten
    <3>2. ASSUME NEW x \in Users, x # u PROVE GuardIsSound(x)'
      BY <1>0, <2>0, <3>2 DEF GuardsAreSound, GuardIsSound, Forgotten
    <3>3. QED
      BY <3>1, <3>2
  <2>3. QED
    BY <2>1, <2>2 DEF GuardsAreSound
<1>5. ASSUME NEW u \in Users, LockEnds(u) PROVE GuardsAreSound'
  <2>1. guard' \in [Users -> LoginState] /\ tries' \in [Users -> 0..MaxFailures]
    BY <1>0, <1>5 DEF GuardsAreSound, LockEnds, LoginState
  <2>2. \A x \in Users : GuardIsSound(x)'
    BY <1>0, <1>5 DEF GuardsAreSound, LockEnds, LoginState, GuardIsSound, Forgotten
  <2>3. QED
    BY <2>1, <2>2 DEF GuardsAreSound
<1>6. ASSUME NEW u \in Users, DeleteUser(u) PROVE GuardsAreSound'
  BY <1>3, <1>6 DEF DeleteUser, Pardon
<1>7. ASSUME NEW b \in Browsers, ConfirmationFails(b) \/ ChangeUsername(b) \/ ChangePassword(b)
      PROVE  GuardsAreSound'
  <2>1. session[b].of \in Users
    BY <1>7, SessionParts DEF InternalInv, ConfirmationFails, ChangeUsername, ChangePassword, Valid
  <2>2. QED
    BY <1>2, <1>3, <1>7, <2>1 DEF ConfirmationFails, ChangeUsername, ChangePassword
<1>8. ASSUME NEW b \in Browsers, NEW u \in Users, LoginSucceeds(b, u)
      PROVE  GuardsAreSound'
  BY <1>1, <1>3, <1>8 DEF LoginSucceeds
<1>9. ASSUME NEW u \in Users,
             \/ Bootstrap(u) \/ ResetPassword(u) \/ Cite(u) \/ MarkTest(u)
             \/ \E r \in InternalRoles : CreateUser(u, r)
      PROVE  UNCHANGED <<guard, tries>>
  BY <1>9 DEF Bootstrap, ResetPassword, Cite, MarkTest, CreateUser
<1>10. ASSUME NEW d \in Desks,
              \/ \E b \in Browsers : BeginLogout(d, b)
              \/ \E u \in Users, r \in InternalRoles : BeginRoles(d, u, r)
              \/ \E u \in Users, s \in {"ACTIVE", "DISABLED"} : BeginStatus(d, u, s)
              \/ FinishLogout(d) \/ FinishRoles(d) \/ FinishStatus(d) \/ LeaveDesk(d)
              \/ PlanMigration(d) \/ ApplyMigration(d)
       PROVE  UNCHANGED <<guard, tries>>
  BY <1>10 DEF BeginLogout, BeginRoles, BeginStatus, FinishLogout, FinishRoles, FinishStatus,
    LeaveDesk, PlanMigration, ApplyMigration
<1>11. ASSUME NEW u \in Users, LoginFails(u) PROVE GuardsAreSound'
  BY <1>2, <1>11 DEF LoginFails
<1>12. QED
  BY <1>1, <1>4, <1>5, <1>6, <1>7, <1>8, <1>9, <1>10, <1>11 DEF InternalNext, SyncRbac

-----------------------------------------------------------------------------
\* The rows: who administers the platform.
RowsAreSound ==
  /\ rbac \in {"absent", "drifted", "exact"}
  /\ user \in [Users -> User]
  /\ cited \subseteq Users /\ demoted \in BOOLEAN
  /\ SomebodyAdministers

\* A super admin stays one in any step that neither takes his status nor his roles.
LEMMA StaysSuperadmin ==
  ASSUME NEW u \in ActiveSuperadmins, user'[u] = user[u]
  PROVE  u \in ActiveSuperadmins'
BY DEF ActiveSuperadmins, Internal

\* The step leaves a super admin.
LEMMA RowsAfter ==
  ASSUME InternalInv, user' \in [Users -> User],
         rbac' \in {"absent", "drifted", "exact"}, cited' \subseteq Users, demoted' \in BOOLEAN,
         demoted' \/ ActiveSuperadmins' # {}
  PROVE  RowsAreSound'
BY DEF RowsAreSound, SomebodyAdministers

\* When there is one account, there is a super admin.
LEMMA Administered ==
  ASSUME InternalInv, ~demoted, NEW u \in Users, user[u].status # "NONE"
  PROVE  ActiveSuperadmins # {}
<1>1. user[u] # Nobody
  BY NobodyIs
<1>2. QED
  BY <1>1 DEF InternalInv, SomebodyAdministers

LEMMA RowsKept ==
  ASSUME InternalInv, InternalNext
  PROVE  RowsAreSound'
<1>0. /\ InternalTypeOK
      /\ rbac \in {"absent", "drifted", "exact"} /\ cited \subseteq Users /\ demoted \in BOOLEAN
  BY DEF InternalInv, InternalTypeOK
<1>1. ASSUME UNCHANGED <<user, demoted>>, rbac' \in {"absent", "drifted", "exact"}, cited' \subseteq Users
      PROVE  RowsAreSound'
  BY <1>0, <1>1 DEF InternalInv, InternalTypeOK, RowsAreSound, SomebodyAdministers, ActiveSuperadmins, Internal
<1>2. CASE SyncRbac
  BY <1>0, <1>1, <1>2 DEF SyncRbac
<1>3. ASSUME NEW u \in Users, Bootstrap(u)
      PROVE  RowsAreSound'
  <2>1. RowBecomes(u, "ACTIVE", {"SUPER_ADMIN"}, 0)
    BY <1>0, <1>3, BootstrapRow
  <2>2. u \in ActiveSuperadmins'
    BY <2>1 DEF RowBecomes, ActiveSuperadmins, Internal, InternalRoles
  <2>3. QED
    BY <1>0, <1>3, <2>1, <2>2, RowsAfter DEF Bootstrap, RowBecomes
<1>4. ASSUME NEW u \in Users, LoginFails(u) \/ WindowPasses(u) \/ LockEnds(u)
      PROVE  RowsAreSound'
  BY <1>0, <1>1, <1>4 DEF LoginFails, WindowPasses, LockEnds
<1>5. ASSUME NEW u \in Users, Cite(u)
      PROVE  RowsAreSound'
  BY <1>0, <1>1, <1>5 DEF Cite
<1>6. ASSUME NEW u \in Users, NEW s, NEW R, NEW v, RowBecomes(u, s, R, v),
             Exists(u), UNCHANGED <<rbac, cited, demoted>>,
             u \in ActiveSuperadmins =>
               (s = user[u].status /\ R = user[u].roles) \/ \E w \in ActiveSuperadmins : w # u
      PROVE  RowsAreSound'
  <2>1. CASE demoted
    BY <1>0, <1>6, <2>1, RowsAfter DEF RowBecomes
  <2>2. CASE ~demoted
    <3>1. PICK a \in ActiveSuperadmins : TRUE
      BY <1>6, <2>2, Administered DEF Exists
    <3>2. ActiveSuperadmins' # {}
      <4>1. CASE \E w \in ActiveSuperadmins : w # u
        BY <1>6, <4>1, StaysSuperadmin DEF RowBecomes, ActiveSuperadmins
      <4>2. CASE u \in ActiveSuperadmins /\ s = user[u].status /\ R = user[u].roles
        BY <1>6, <4>2 DEF RowBecomes, ActiveSuperadmins, Internal
      <4>3. QED
        BY <1>6, <3>1, <4>1, <4>2
    <3>3. QED
      BY <1>0, <1>6, <3>2, RowsAfter DEF RowBecomes
  <2>3. QED
    BY <2>1, <2>2
<1>7. ASSUME NEW u \in Users, ResetPassword(u)
      PROVE  RowsAreSound'
  <2>1. user[u].version + 1 \in 0..MaxVersion
    BY <1>0, <1>7, UserParts DEF ResetPassword, Raised
  <2>2. RowBecomes(u, user[u].status, user[u].roles, user[u].version + 1)
    BY <1>0, <1>7, <2>1, RaisedRow DEF ResetPassword, Raised
  <2>3. QED
    BY <1>6, <1>7, <2>2 DEF ResetPassword
<1>8. ASSUME NEW u \in Users, MarkTest(u)
      PROVE  RowsAreSound'
  BY <1>0, <1>6, <1>8, MarkedRow DEF MarkTest, MayBeMarked, Exists
<1>9. ASSUME NEW u \in Users, DeleteUser(u)
      PROVE  RowsAreSound'
  BY <1>0, <1>6, <1>9, DeletedRow DEF DeleteUser, MayBeDeleted, Exists, ActiveSuperadmins
<1>10. ASSUME NEW b \in Browsers, NEW u \in Users, LoginSucceeds(b, u)
       PROVE  RowsAreSound'
  BY <1>0, <1>1, <1>10 DEF LoginSucceeds
<1>11. ASSUME NEW u \in Users, NEW r \in InternalRoles, CreateUser(u, r)
       PROVE  RowsAreSound'
  <2>1. RowBecomes(u, "ACTIVE", {r}, 0)
    BY <1>0, <1>11, CreateRow
  <2>2. PICK a \in ActiveSuperadmins : TRUE
    BY <1>0, <1>11, AskedBySuperadmin DEF CreateUser
  <2>3. a # u
    BY <1>11, NobodyIs DEF CreateUser, ActiveSuperadmins
  <2>4. a \in ActiveSuperadmins'
    BY <2>1, <2>3, StaysSuperadmin DEF RowBecomes, ActiveSuperadmins
  <2>5. QED
    BY <1>0, <1>11, <2>1, <2>4, RowsAfter DEF CreateUser, RowBecomes
<1>12. ASSUME NEW b \in Browsers, ConfirmationFails(b) \/ ChangeUsername(b)
       PROVE  RowsAreSound'
  BY <1>0, <1>1, <1>12 DEF ConfirmationFails, ChangeUsername
<1>13. ASSUME NEW b \in Browsers, ChangePassword(b)
       PROVE  RowsAreSound'
  <2> DEFINE u == session[b].of
  <2>1. u \in Users /\ Exists(u)
    BY <1>0, <1>13, SessionParts DEF ChangePassword, Valid, Exists
  <2>2. user[u].version + 1 \in 0..MaxVersion
    BY <1>0, <1>13, <2>1, UserParts DEF ChangePassword, Raised
  <2>3. RowBecomes(u, user[u].status, user[u].roles, user[u].version + 1)
    BY <1>0, <1>13, <2>1, <2>2, RaisedRow DEF ChangePassword, Raised
  <2>4. QED
    BY <1>6, <1>13, <2>1, <2>3 DEF ChangePassword
<1>14. ASSUME NEW d \in Desks,
              \/ \E b \in Browsers : BeginLogout(d, b)
              \/ \E u \in Users, r \in InternalRoles : BeginRoles(d, u, r)
              \/ \E u \in Users, s \in {"ACTIVE", "DISABLED"} : BeginStatus(d, u, s)
              \/ LeaveDesk(d) \/ PlanMigration(d)
       PROVE  RowsAreSound'
  <2>1. UNCHANGED <<user, demoted, rbac, cited>>
    BY <1>14 DEF BeginLogout, BeginRoles, BeginStatus, LeaveDesk, PlanMigration
  <2>2. QED
    BY <1>0, <1>1, <2>1
<1>15. ASSUME NEW d \in Desks, FinishLogout(d)
       PROVE  RowsAreSound'
  <2> DEFINE u == desk[d].of
  <2>1. u \in Users /\ desk[d].version + 1 \in 0..MaxVersion
    BY <1>0, <1>15, DeskParts DEF FinishLogout
  <2>2. RowBecomes(u, user[u].status, user[u].roles, desk[d].version + 1)
    BY <1>0, <1>15, <2>1, RaisedRow DEF FinishLogout
  <2>3. QED
    BY <1>6, <1>15, <2>1, <2>2 DEF FinishLogout
<1>16. ASSUME NEW d \in Desks, FinishRoles(d)
       PROVE  RowsAreSound'
  <2> DEFINE u == desk[d].of
  <2>1. u \in Users /\ Exists(u) /\ desk[d].kind = "roles"
    BY <1>0, <1>16, DeskParts DEF FinishRoles, InternalInv, ChangeIsSound, Changing
  <2>2. RowBecomes(u, user[u].status, {desk[d].role}, user[u].version + 1)
    BY <1>0, <1>16, RolesRow
  <2>3. CASE desk[d].role # "SUPER_ADMIN"
    <3>1. u \in ActiveSuperadmins => \E w \in ActiveSuperadmins : w # u
      BY <2>1, <2>3 DEF InternalInv, ChangeIsSound, Changing, Withdraws
    <3>2. QED
      BY <1>6, <1>16, <2>1, <2>2, <3>1 DEF FinishRoles
  <2>4. CASE desk[d].role = "SUPER_ADMIN"
    <3>1. CASE user[u].status = "ACTIVE"
      <4>1. u \in ActiveSuperadmins'
        BY <2>1, <2>2, <2>4, <3>1 DEF RowBecomes, ActiveSuperadmins, Internal, InternalRoles
      <4>2. QED
        BY <1>0, <1>16, <2>2, <4>1, RowsAfter DEF FinishRoles, RowBecomes
    <3>2. CASE user[u].status # "ACTIVE"
      BY <1>6, <1>16, <2>1, <2>2, <3>2 DEF FinishRoles, ActiveSuperadmins
    <3>3. QED
      BY <3>1, <3>2
  <2>5. QED
    BY <2>3, <2>4
<1>17. ASSUME NEW d \in Desks, FinishStatus(d)
       PROVE  RowsAreSound'
  <2> DEFINE u == desk[d].of
  <2>1. u \in Users /\ Exists(u) /\ desk[d].kind = "status" /\ desk[d].status \in {"ACTIVE", "DISABLED"}
    BY <1>0, <1>17, DeskParts DEF FinishStatus, InternalInv, ChangeIsSound, Changing
  <2>2. RowBecomes(u, desk[d].status, user[u].roles, user[u].version + 1)
    BY <1>0, <1>17, StatusRow
  <2>3. u \in ActiveSuperadmins =>
          desk[d].status = user[u].status \/ \E w \in ActiveSuperadmins : w # u
    BY <2>1 DEF InternalInv, ChangeIsSound, Changing, Withdraws, ActiveSuperadmins
  <2>4. QED
    BY <1>6, <1>17, <2>1, <2>2, <2>3 DEF FinishStatus
<1>18. ASSUME NEW d \in Desks, ApplyMigration(d)
       PROVE  RowsAreSound'
  <2>1. user' \in [Users -> User] /\ \A u \in Users : u \notin Remapped(d) => user'[u] = user[u]
    BY <1>0, <1>18, MigratedRows
  <2>2. demoted' = (demoted \/ \E u \in Remapped(d) : u \in ActiveSuperadmins)
    BY <1>18 DEF ApplyMigration, Remapped
  <2>3. CASE demoted'
    BY <1>0, <1>18, <2>1, <2>3, RowsAfter DEF ApplyMigration
  <2>4. CASE ~demoted'
    <3>1. CASE \A u \in Users : user[u] = Nobody
      <4>1. \A u \in Users : u \notin Remapped(d)
        BY <1>0, <1>18, <3>1, MigratedRows, NobodyIs DEF Exists
      <4>2. QED
        BY <1>0, <1>18, <2>1, <2>2, <3>1, <4>1 DEF ApplyMigration, RowsAreSound, SomebodyAdministers
    <3>2. CASE \E a \in Users : a \in ActiveSuperadmins
      <4>1. PICK a \in ActiveSuperadmins : a \in Users
        BY <3>2
      <4>2. user'[a] = user[a]
        BY <2>1, <2>2, <2>4, <4>1
      <4>3. QED
        BY <1>0, <1>18, <2>1, <4>1, <4>2, StaysSuperadmin, RowsAfter DEF ApplyMigration
    <3>3. QED
      BY <2>2, <2>4, <3>1, <3>2 DEF InternalInv, SomebodyAdministers, ActiveSuperadmins
  <2>5. QED
    BY <2>3, <2>4
<1>19. QED
  BY <1>2, <1>3, <1>4, <1>5, <1>7, <1>8, <1>9, <1>10, <1>11, <1>12, <1>13, <1>14, <1>15, <1>16,
     <1>17, <1>18 DEF InternalNext

-----------------------------------------------------------------------------
\* The changes in progress.
ChangesAreSound ==
  /\ desk \in [Desks -> Desk]
  /\ OneChange
  /\ \A d \in Desks : ChangeIsSound(d)

\* What a change looks at in a row.
Untouched(x) == user'[x].status = user[x].status /\ user'[x].roles = user[x].roles

\* A step that begins no change and spares the rows that one has locked.
LEMMA ChangesStay ==
  ASSUME InternalInv, desk' \in [Desks -> Desk],
         \A d \in Desks : Changing(d)' => desk'[d] = desk[d],
         \A d \in Desks : Changing(d) =>
           /\ Untouched(desk[d].of)
           /\ Withdraws(d) /\ desk[d].of \in ActiveSuperadmins => \A x \in ActiveSuperadmins : Untouched(x)
  PROVE  ChangesAreSound'
<1>1. \A d \in Desks : Changing(d)' => Changing(d)
  BY DEF Changing
<1>2. OneChange'
  BY <1>1 DEF InternalInv, OneChange
<1>3. ASSUME NEW x \in Users, Untouched(x)
      PROVE  (x \in ActiveSuperadmins <=> x \in ActiveSuperadmins') /\ (Exists(x) <=> Exists(x)')
  BY <1>3 DEF Untouched, ActiveSuperadmins, Internal, Exists
<1>4. ASSUME NEW d \in Desks, Changing(d)'
      PROVE  /\ Exists(desk[d].of)'
             /\ Withdraws(d)' /\ desk'[d].of \in ActiveSuperadmins'
                  => \E v \in ActiveSuperadmins' : v # desk'[d].of
  <2>1. Changing(d) /\ desk'[d] = desk[d] /\ desk[d].of \in Users
    BY <1>1, <1>4, DeskParts DEF InternalInv, Changing
  <2>2. Exists(desk[d].of)'
    BY <1>3, <2>1 DEF InternalInv, ChangeIsSound
  <2>3. ASSUME Withdraws(d)', desk'[d].of \in ActiveSuperadmins'
        PROVE  \E v \in ActiveSuperadmins' : v # desk'[d].of
    <3>1. Withdraws(d) /\ desk[d].of \in ActiveSuperadmins
      BY <1>3, <2>1, <2>3 DEF Withdraws
    <3>2. PICK v \in ActiveSuperadmins : v # desk[d].of
      BY <2>1, <3>1 DEF InternalInv, ChangeIsSound
    <3>3. v \in ActiveSuperadmins'
      BY <1>3, <2>1, <3>1, <3>2 DEF ActiveSuperadmins
    <3>4. QED
      BY <2>1, <3>2, <3>3
  <2>4. QED
    BY <2>1, <2>2, <2>3
<1>5. \A d \in Desks : ChangeIsSound(d)'
  BY <1>4 DEF ChangeIsSound
<1>6. QED
  BY <1>2, <1>5 DEF ChangesAreSound

\* The first step of a change, under the lock of the roster.
LEMMA ChangeBegins ==
  ASSUME InternalInv, NEW d \in Desks, NEW u \in Users, NEW q \in Desk,
         RosterFree, desk' = [desk EXCEPT ![d] = q], UNCHANGED user,
         q.of = u, Exists(u), Withdraws(d)' /\ u \in ActiveSuperadmins => Spared(u)
  PROVE  ChangesAreSound'
<1>1. desk' \in [Desks -> Desk] /\ desk'[d] = q
  BY DEF InternalInv, InternalTypeOK
<1>2. \A e \in Desks : Changing(e)' => e = d
  BY DEF RosterFree, Changing, InternalInv, InternalTypeOK
<1>3. ActiveSuperadmins' = ActiveSuperadmins /\ Exists(u)'
  BY DEF ActiveSuperadmins, Internal, Exists
<1>4. Withdraws(d)' /\ u \in ActiveSuperadmins => \E v \in ActiveSuperadmins : v # u
  BY Another DEF Spared
<1>5. ChangeIsSound(d)'
  BY <1>1, <1>3, <1>4 DEF ChangeIsSound
<1>6. QED
  BY <1>1, <1>2, <1>5 DEF ChangesAreSound, OneChange, ChangeIsSound

LEMMA ChangesKept ==
  ASSUME InternalInv, InternalNext
  PROVE  ChangesAreSound'
<1>0. InternalTypeOK /\ desk \in [Desks -> Desk] /\ AtEase \in Desk
  BY DeskKinds DEF InternalInv, InternalTypeOK
<1>e. \A d \in Desks : Changing(d) => Exists(desk[d].of) /\ desk[d].of \in Users
  BY <1>0, DeskParts DEF InternalInv, ChangeIsSound, Changing
<1>1. CASE UNCHANGED <<user, desk>>
  BY <1>0, <1>1, ChangesStay DEF Untouched
<1>2. ASSUME NEW u \in Users, NEW s, NEW R, NEW v, RowBecomes(u, s, R, v), UNCHANGED desk,
             RowFree(u) \/ user[u] = Nobody \/ (s = user[u].status /\ R = user[u].roles)
      PROVE  ChangesAreSound'
  <2>1. \A x \in Users : x # u => Untouched(x)
    BY <1>2 DEF RowBecomes, Untouched
  <2>2. CASE s = user[u].status /\ R = user[u].roles
    <3>1. \A x \in Users : Untouched(x)
      BY <1>2, <2>1, <2>2 DEF RowBecomes, Untouched
    <3>2. QED
      BY <1>0, <1>2, <1>e, <3>1, ChangesStay DEF ActiveSuperadmins
  <2>3. CASE RowFree(u)
    BY <1>0, <1>2, <1>e, <2>1, <2>3, FreeRows, ChangesStay DEF ActiveSuperadmins
  <2>4. CASE user[u] = Nobody
    <3>1. ~Exists(u) /\ u \notin ActiveSuperadmins
      BY <2>4, NobodyIs DEF Exists, ActiveSuperadmins
    <3>2. QED
      BY <1>0, <1>2, <1>e, <2>1, <3>1, ChangesStay DEF ActiveSuperadmins
  <2>5. QED
    BY <1>2, <2>2, <2>3, <2>4
<1>3. ASSUME NEW d \in Desks, NEW q \in Desk, q.kind \notin {"roles", "status"},
             desk' = [desk EXCEPT ![d] = q], UNCHANGED user
      PROVE  ChangesAreSound'
  <2>1. desk' \in [Desks -> Desk] /\ \A e \in Desks : Changing(e)' => desk'[e] = desk[e]
    BY <1>0, <1>3 DEF Changing
  <2>2. QED
    BY <2>1, <1>3, ChangesStay DEF Untouched
<1>4. CASE SyncRbac
  BY <1>1, <1>4 DEF SyncRbac
<1>5. ASSUME NEW u \in Users, LoginFails(u) \/ WindowPasses(u) \/ LockEnds(u) \/ Cite(u)
      PROVE  UNCHANGED <<user, desk>>
  BY <1>5 DEF LoginFails, WindowPasses, LockEnds, Cite
<1>6. ASSUME NEW b \in Browsers,
             ConfirmationFails(b) \/ ChangeUsername(b) \/ \E u \in Users : LoginSucceeds(b, u)
      PROVE  UNCHANGED <<user, desk>>
  BY <1>6 DEF ConfirmationFails, ChangeUsername, LoginSucceeds
<1>7. ASSUME NEW u \in Users, Bootstrap(u)
      PROVE  ChangesAreSound'
  BY <1>0, <1>2, <1>7, BootstrapRow DEF Bootstrap
<1>8. ASSUME NEW u \in Users, NEW r \in InternalRoles, CreateUser(u, r)
      PROVE  ChangesAreSound'
  BY <1>0, <1>2, <1>8, CreateRow DEF CreateUser
<1>9. ASSUME NEW u \in Users, ResetPassword(u)
      PROVE  ChangesAreSound'
  <2>1. user[u].version + 1 \in 0..MaxVersion
    BY <1>0, <1>9, UserParts DEF ResetPassword, Raised
  <2>2. RowBecomes(u, user[u].status, user[u].roles, user[u].version + 1)
    BY <1>0, <1>9, <2>1, RaisedRow DEF ResetPassword, Raised
  <2>3. QED
    BY <1>2, <1>9, <2>2 DEF ResetPassword
<1>10. ASSUME NEW u \in Users, MarkTest(u)
       PROVE  ChangesAreSound'
  BY <1>0, <1>2, <1>10, MarkedRow DEF MarkTest
<1>11. ASSUME NEW u \in Users, DeleteUser(u)
       PROVE  ChangesAreSound'
  BY <1>0, <1>2, <1>11, DeletedRow DEF DeleteUser, MayBeDeleted
<1>12. ASSUME NEW b \in Browsers, ChangePassword(b)
       PROVE  ChangesAreSound'
  <2> DEFINE u == session[b].of
  <2>1. u \in Users
    BY <1>0, <1>12, SessionParts DEF ChangePassword, Valid
  <2>2. user[u].version + 1 \in 0..MaxVersion
    BY <1>0, <1>12, <2>1, UserParts DEF ChangePassword, Raised
  <2>3. RowBecomes(u, user[u].status, user[u].roles, user[u].version + 1)
    BY <1>0, <1>12, <2>1, <2>2, RaisedRow DEF ChangePassword, Raised
  <2>4. QED
    BY <1>2, <1>12, <2>1, <2>3 DEF ChangePassword
<1>13. ASSUME NEW d \in Desks, NEW b \in Browsers, BeginLogout(d, b)
       PROVE  ChangesAreSound'
  <2> DEFINE q == [kind |-> "logout", of |-> session[b].of, version |-> session[b].version]
  <2>1. q \in Desk /\ q.kind = "logout"
    BY <1>0, <1>13, SessionParts, DeskKinds DEF BeginLogout, Valid
  <2>2. desk' = [desk EXCEPT ![d] = q] /\ UNCHANGED user
    BY <1>13 DEF BeginLogout
  <2>3. QED
    BY <1>3, <2>1, <2>2
<1>14. ASSUME NEW d \in Desks, LeaveDesk(d)
       PROVE  ChangesAreSound'
  BY <1>0, <1>3, <1>14 DEF LeaveDesk, AtEase
<1>15. ASSUME NEW d \in Desks, PlanMigration(d)
       PROVE  ChangesAreSound'
  <2>1. PICK U \in SUBSET Users : \E to \in [U -> InternalRoles] :
          desk' = [desk EXCEPT ![d] = [kind |-> "migration", to |-> to]] /\ UNCHANGED user
    BY <1>15 DEF PlanMigration
  <2>2. PICK to \in [U -> InternalRoles] :
          desk' = [desk EXCEPT ![d] = [kind |-> "migration", to |-> to]] /\ UNCHANGED user
    BY <2>1
  <2>3. QED
    BY <1>3, <2>2, DeskKinds
<1>16. ASSUME NEW d \in Desks, NEW u \in Users, NEW r \in InternalRoles, BeginRoles(d, u, r)
       PROVE  ChangesAreSound'
  <2> DEFINE q == [kind |-> "roles", of |-> u, role |-> r]
  <2>1. q \in Desk /\ q.of = u /\ q.kind = "roles" /\ q.role = r
    BY DeskKinds
  <2>2. desk' = [desk EXCEPT ![d] = q] /\ UNCHANGED user /\ RosterFree /\ Exists(u)
    BY <1>16 DEF BeginRoles
  <2>3. Withdraws(d)' /\ u \in ActiveSuperadmins => Spared(u)
    BY <1>0, <1>16, <2>1, <2>2 DEF BeginRoles, Withdraws, ActiveSuperadmins
  <2>4. QED
    BY <2>1, <2>2, <2>3, ChangeBegins
<1>17. ASSUME NEW d \in Desks, NEW u \in Users, NEW s \in {"ACTIVE", "DISABLED"}, BeginStatus(d, u, s)
       PROVE  ChangesAreSound'
  <2> DEFINE q == [kind |-> "status", of |-> u, status |-> s]
  <2>1. q \in Desk /\ q.of = u /\ q.kind = "status" /\ q.status = s
    BY DeskKinds
  <2>2. desk' = [desk EXCEPT ![d] = q] /\ UNCHANGED user /\ RosterFree /\ Exists(u)
    BY <1>17 DEF BeginStatus
  <2>3. Withdraws(d)' => Spared(u)
    BY <1>0, <1>17, <2>1, <2>2 DEF BeginStatus, Withdraws
  <2>4. QED
    BY <2>1, <2>2, <2>3, ChangeBegins
<1>18. ASSUME NEW d \in Desks, FinishLogout(d)
       PROVE  ChangesAreSound'
  <2> DEFINE u == desk[d].of
  <2>1. u \in Users /\ desk[d].version + 1 \in 0..MaxVersion /\ desk[d].kind = "logout"
    BY <1>0, <1>18, DeskParts DEF FinishLogout
  <2>2. RowBecomes(u, user[u].status, user[u].roles, desk[d].version + 1)
    BY <1>0, <1>18, <2>1, RaisedRow DEF FinishLogout
  <2>3. \A x \in Users : Untouched(x)
    BY <2>2 DEF RowBecomes, Untouched
  <2>4. desk' = [desk EXCEPT ![d] = AtEase]
    BY <1>18 DEF FinishLogout
  <2>5. desk' \in [Desks -> Desk] /\ \A e \in Desks : Changing(e)' => desk'[e] = desk[e]
    BY <1>0, <2>4 DEF Changing, AtEase
  <2>6. QED
    BY <1>e, <2>3, <2>5, ChangesStay DEF ActiveSuperadmins
<1>19. ASSUME NEW d \in Desks, FinishRoles(d) \/ FinishStatus(d)
       PROVE  ChangesAreSound'
  <2>1. desk' = [desk EXCEPT ![d] = AtEase] /\ Changing(d)
    BY <1>19 DEF FinishRoles, FinishStatus, Changing
  <2>2. \A e \in Desks : ~Changing(e)'
    BY <1>0, <2>1 DEF InternalInv, OneChange, Changing, AtEase
  <2>3. desk' \in [Desks -> Desk]
    BY <1>0, <2>1
  <2>4. QED
    BY <2>2, <2>3 DEF ChangesAreSound, OneChange, ChangeIsSound
<1>20. ASSUME NEW d \in Desks, ApplyMigration(d)
       PROVE  ChangesAreSound'
  <2>1. desk' = [desk EXCEPT ![d] = AtEase]
    BY <1>20 DEF ApplyMigration
  <2>2. desk' \in [Desks -> Desk] /\ \A e \in Desks : Changing(e)' => desk'[e] = desk[e]
    BY <1>0, <2>1 DEF Changing, AtEase
  <2>3. \A x \in Users : x \notin Remapped(d) => Untouched(x)
    BY <1>0, <1>20, MigratedRows DEF Untouched
  <2>4. \A x \in Remapped(d) : RowFree(x)
    BY <1>0, <1>20, MigratedRows
  <2>5. QED
    BY <1>e, <2>2, <2>3, <2>4, FreeRows, ChangesStay DEF ActiveSuperadmins
<1>21. QED
  BY <1>1, <1>4, <1>5, <1>6, <1>7, <1>8, <1>9, <1>10, <1>11, <1>12, <1>13, <1>14, <1>15, <1>16,
     <1>17, <1>18, <1>19, <1>20 DEF InternalNext

-----------------------------------------------------------------------------
\* Sessions.
SessionsAreSound ==
  /\ session \in [Browsers -> Session] /\ overtaken \subseteq Users
  /\ \A b \in Browsers : SessionIsSound(b)

\* The row of x ages, or is deleted for good.
Ages(x) ==
  /\ user[x].status = "DELETED" => user'[x].status = "DELETED"
  /\ user'[x].status = "DELETED" \/ user'[x].version >= user[x].version

\* A step that gives no token keeps the sessions sound when it outdates those it ends.
LEMMA SessionsStay ==
  ASSUME InternalInv, user' \in [Users -> User], session' \in [Browsers -> Session],
         overtaken \subseteq overtaken', overtaken' \subseteq Users,
         \A x \in Users \ overtaken' : Ages(x),
         \A b \in Browsers :
           /\ session'[b].of = session[b].of /\ session'[b].version = session[b].version
           /\ session[b].of \in Users \ overtaken' /\ session'[b].ended /\ ~session[b].ended =>
                \/ user'[session[b].of].status = "DELETED"
                \/ user'[session[b].of].version > session[b].version
  PROVE  SessionsAreSound'
<1>1. ASSUME NEW b \in Browsers, session[b].of \in Users, session[b].of \notin overtaken'
      PROVE  \/ user'[session[b].of].status = "DELETED"
             \/ /\ session'[b].version <= user'[session[b].of].version
                /\ session'[b].ended => session'[b].version < user'[session[b].of].version
  <2> DEFINE u == session[b].of
  <2>1. u \in Users /\ u \notin overtaken /\ Ages(u) /\ SessionIsSound(b)
    BY <1>1 DEF InternalInv
  <2>2. session[b].version \in Nat /\ user[u].version \in Nat /\ user'[u].version \in Nat
    BY <2>1, SessionParts, UserParts DEF InternalInv, User
  <2>3. QED
    BY <1>1, <2>1, <2>2 DEF Ages, SessionIsSound
<1>2. \A b \in Browsers : SessionIsSound(b)'
  BY <1>1 DEF SessionIsSound
<1>3. QED
  BY <1>2 DEF SessionsAreSound

LEMMA SessionsKept ==
  ASSUME InternalInv, InternalNext
  PROVE  SessionsAreSound'
<1>0. /\ InternalTypeOK /\ user \in [Users -> User] /\ session \in [Browsers -> Session]
      /\ overtaken \subseteq Users
  BY DEF InternalInv, InternalTypeOK
<1>1. CASE UNCHANGED <<user, session, overtaken>>
  BY <1>1, <1>0 DEF InternalInv, SessionsAreSound, SessionIsSound
<1>2. ASSUME NEW u \in Users, NEW s, NEW R, NEW v \in Nat, RowBecomes(u, s, R, v), UNCHANGED <<session, overtaken>>,
             user[u].status # "DELETED", s = "DELETED" \/ v >= user[u].version
      PROVE  SessionsAreSound'
  <2>1. \A x \in Users : Ages(x)
    BY <1>0, <1>2, UserParts DEF RowBecomes, Ages
  <2>2. QED
    BY <1>0, <1>2, <2>1, SessionsStay DEF RowBecomes
<1>3. ASSUME NEW u \in Users, NEW s, NEW R, RowBecomes(u, s, R, user[u].version + 1),
             Over({u}), UNCHANGED overtaken, Exists(u)
      PROVE  SessionsAreSound'
  <2>1. \A x \in Users : Ages(x)
    BY <1>0, <1>3, UserParts DEF RowBecomes, Ages, Exists
  <2>2. ASSUME NEW b \in Browsers, session[b].of = u, u \notin overtaken
        PROVE  user'[u].version > session[b].version
    BY <1>0, <1>3, <2>2, UserParts, SessionParts DEF InternalInv, SessionIsSound, RowBecomes, Exists
  <2>3. /\ session' \in [Browsers -> Session]
        /\ \A b \in Browsers :
              /\ session'[b].of = session[b].of /\ session'[b].version = session[b].version
              /\ session'[b].ended = (session[b].of \in {u} \/ session[b].ended)
    BY <1>0, <1>3, OverTells
  <2>4. QED
    BY <1>0, <1>3, <2>1, <2>2, <2>3, SessionsStay DEF RowBecomes
<1>4. CASE SyncRbac
  BY <1>1, <1>4 DEF SyncRbac
<1>5. ASSUME NEW u \in Users, LoginFails(u) \/ WindowPasses(u) \/ LockEnds(u) \/ Cite(u)
      PROVE  UNCHANGED <<user, session, overtaken>>
  BY <1>5 DEF LoginFails, WindowPasses, LockEnds, Cite
<1>6. ASSUME NEW b \in Browsers, ConfirmationFails(b) \/ ChangeUsername(b)
      PROVE  UNCHANGED <<user, session, overtaken>>
  BY <1>6 DEF ConfirmationFails, ChangeUsername
<1>7. ASSUME NEW u \in Users, Bootstrap(u)
      PROVE  SessionsAreSound'
  <2>1. RowBecomes(u, "ACTIVE", {"SUPER_ADMIN"}, 0)
    BY <1>0, <1>7, BootstrapRow
  <2>2. QED
    BY <1>2, <1>7, <2>1, NobodyIs DEF Bootstrap
<1>8. ASSUME NEW u \in Users, NEW r \in InternalRoles, CreateUser(u, r)
      PROVE  SessionsAreSound'
  <2>1. RowBecomes(u, "ACTIVE", {r}, 0)
    BY <1>0, <1>8, CreateRow
  <2>2. QED
    BY <1>2, <1>8, <2>1, NobodyIs DEF CreateUser
<1>9. ASSUME NEW u \in Users, ResetPassword(u)
      PROVE  SessionsAreSound'
  <2>1. user[u].version + 1 \in 0..MaxVersion
    BY <1>0, <1>9, UserParts DEF ResetPassword, Raised
  <2>2. RowBecomes(u, user[u].status, user[u].roles, user[u].version + 1)
    BY <1>0, <1>9, <2>1, RaisedRow DEF ResetPassword, Raised
  <2>3. QED
    BY <1>3, <1>9, <2>2 DEF ResetPassword
<1>10. ASSUME NEW u \in Users, MarkTest(u)
       PROVE  SessionsAreSound'
  <2>1. user[u].version \in Nat
    BY <1>0, UserParts
  <2>2. /\ user[u].status = "DISABLED" /\ UNCHANGED <<session, overtaken>>
        /\ RowBecomes(u, user[u].status, user[u].roles, user[u].version)
    BY <1>0, <1>10, MarkedRow DEF MarkTest, MayBeMarked
  <2>3. QED
    BY <1>2, <2>1, <2>2
<1>11. ASSUME NEW u \in Users, DeleteUser(u)
       PROVE  SessionsAreSound'
  BY <1>0, <1>2, <1>11, DeletedRow DEF DeleteUser, MayBeDeleted
<1>12. ASSUME NEW b \in Browsers, ChangePassword(b)
       PROVE  SessionsAreSound'
  <2> DEFINE u == session[b].of
  <2>1. u \in Users /\ user[u].status = "ACTIVE"
    BY <1>0, <1>12, SessionParts DEF ChangePassword, Valid
  <2>2. user[u].version + 1 \in 0..MaxVersion
    BY <1>0, <1>12, <2>1, UserParts DEF ChangePassword, Raised
  <2>3. RowBecomes(u, user[u].status, user[u].roles, user[u].version + 1)
    BY <1>0, <1>12, <2>1, <2>2, RaisedRow DEF ChangePassword, Raised
  <2>4. UNCHANGED overtaken /\ session[b].version = user[u].version
    BY <1>12 DEF ChangePassword, Valid
  <2>5. user[u].version \in Nat /\ \A c \in Browsers : session[c].version \in Nat
    BY <1>0, <2>1, UserParts, SessionParts
  <2>6. SessionIsSound(b)'
    <3>1. u \notin overtaken => ~session[b].ended
      BY <2>1, <2>4, <2>5 DEF InternalInv, SessionIsSound
    <3>2. QED
      BY <1>0, <1>12, <2>3, <2>4, <2>5, <3>1, PasswordTells DEF SessionIsSound, RowBecomes
  <2>7. ASSUME NEW c \in Browsers, c # b PROVE SessionIsSound(c)'
    <3>1. /\ session'[c].of = session[c].of /\ session'[c].version = session[c].version
          /\ session'[c].ended = (session[c].of = u \/ session[c].ended)
      BY <1>0, <1>12, <2>7, PasswordTells
    <3>2. SessionIsSound(c)
      BY DEF InternalInv
    <3>3. CASE session[c].of = u
      BY <2>1, <2>3, <2>4, <2>5, <3>1, <3>2, <3>3 DEF SessionIsSound, RowBecomes
    <3>4. CASE session[c].of # u
      BY <2>3, <2>4, <3>1, <3>2, <3>4 DEF SessionIsSound, RowBecomes
    <3>5. QED
      BY <3>3, <3>4
  <2>8. QED
    BY <1>0, <1>12, <2>4, <2>6, <2>7, PasswordTells DEF SessionsAreSound
<1>13. ASSUME NEW b \in Browsers, NEW u \in Users, LoginSucceeds(b, u)
       PROVE  SessionsAreSound'
  <2>1. UNCHANGED <<user, overtaken>>
    BY <1>13 DEF LoginSucceeds
  <2>2. CASE UNCHANGED session
    BY <1>1, <2>1, <2>2
  <2>3. CASE session' = [session EXCEPT ![b] = [of |-> u, version |-> user[u].version, ended |-> FALSE]]
    <3>1. [of |-> u, version |-> user[u].version, ended |-> FALSE] \in Session /\ user[u].version \in Nat
      BY <1>0, UserParts DEF Session
    <3>2. session' \in [Browsers -> Session]
      BY <1>0, <2>3, <3>1
    <3>3. \A c \in Browsers : SessionIsSound(c)'
      BY <1>0, <2>1, <2>3, <3>1 DEF InternalInv, SessionIsSound
    <3>4. QED
      BY <1>0, <2>1, <3>2, <3>3 DEF SessionsAreSound
  <2>4. QED
    BY <1>13, <2>2, <2>3 DEF LoginSucceeds
<1>14. ASSUME NEW d \in Desks,
              \/ \E b \in Browsers : BeginLogout(d, b)
              \/ \E u \in Users, r \in InternalRoles : BeginRoles(d, u, r)
              \/ \E u \in Users, s \in {"ACTIVE", "DISABLED"} : BeginStatus(d, u, s)
              \/ LeaveDesk(d) \/ PlanMigration(d)
       PROVE  UNCHANGED <<user, session, overtaken>>
  BY <1>14 DEF BeginLogout, BeginRoles, BeginStatus, LeaveDesk, PlanMigration
<1>15. ASSUME NEW d \in Desks, FinishLogout(d)
       PROVE  SessionsAreSound'
  <2> DEFINE u == desk[d].of
             v == desk[d].version
  <2>1. u \in Users /\ v + 1 \in 0..MaxVersion /\ v \in Nat /\ Exists(u)
    BY <1>0, <1>15, DeskParts DEF FinishLogout
  <2>2. RowBecomes(u, user[u].status, user[u].roles, v + 1)
    BY <1>0, <1>15, <2>1, RaisedRow DEF FinishLogout
  <2>3. overtaken' = IF user[u].version # v THEN overtaken \cup {u} ELSE overtaken
    BY <1>15 DEF FinishLogout
  <2>4. overtaken \subseteq overtaken' /\ overtaken' \subseteq Users
        /\ (u \notin overtaken' => user[u].version = v)
    BY <1>0, <2>1, <2>3
  <2>5. \A x \in Users \ overtaken' : Ages(x)
    BY <1>0, <2>1, <2>2, <2>4, UserParts DEF RowBecomes, Ages
  <2>6. /\ session' \in [Browsers -> Session]
        /\ \A b \in Browsers :
              /\ session'[b].of = session[b].of /\ session'[b].version = session[b].version
              /\ session'[b].ended = (session[b].ended \/ (session[b].of = u /\ session[b].version = v))
    BY <1>0, <1>15, LogoutTells
  <2>7. user' \in [Users -> User] /\ user'[u].version = v + 1 /\ v + 1 > v
    BY <2>1, <2>2 DEF RowBecomes
  <2> HIDE DEF u, v
  <2>8. QED
    BY <2>4, <2>5, <2>6, <2>7, SessionsStay
<1>16. ASSUME NEW d \in Desks, FinishRoles(d)
       PROVE  SessionsAreSound'
  <2>1. desk[d].of \in Users /\ Exists(desk[d].of)
    BY <1>0, <1>16, DeskParts DEF FinishRoles, InternalInv, ChangeIsSound, Changing
  <2>2. QED
    BY <1>0, <1>3, <1>16, <2>1, RolesRow DEF FinishRoles
<1>17. ASSUME NEW d \in Desks, FinishStatus(d)
       PROVE  SessionsAreSound'
  <2>1. desk[d].of \in Users /\ Exists(desk[d].of)
    BY <1>0, <1>17, DeskParts DEF FinishStatus, InternalInv, ChangeIsSound, Changing
  <2>2. QED
    BY <1>0, <1>3, <1>17, <2>1, StatusRow DEF FinishStatus
<1>18. ASSUME NEW d \in Desks, ApplyMigration(d)
       PROVE  SessionsAreSound'
  <2>1. Over(Remapped(d)) /\ UNCHANGED overtaken
    BY <1>18 DEF ApplyMigration, Remapped
  <2>2. /\ user' \in [Users -> User] /\ Remapped(d) \in SUBSET Users
        /\ \A u \in Users : u \notin Remapped(d) => user'[u] = user[u]
        /\ \A u \in Remapped(d) : Exists(u) /\ user'[u].status = user[u].status /\ user'[u].version = user[u].version + 1
    BY <1>0, <1>18, MigratedRows
  <2>3. \A x \in Users : Ages(x)
    BY <1>0, <2>2, UserParts DEF Ages
  <2>4. ASSUME NEW b \in Browsers, session[b].of \in Remapped(d), session[b].of \notin overtaken
        PROVE  user'[session[b].of].version > session[b].version
    BY <1>0, <2>2, <2>4, UserParts, SessionParts DEF InternalInv, SessionIsSound, Exists
  <2>5. /\ session' \in [Browsers -> Session]
        /\ \A b \in Browsers :
              /\ session'[b].of = session[b].of /\ session'[b].version = session[b].version
              /\ session'[b].ended = (session[b].of \in Remapped(d) \/ session[b].ended)
    BY <1>0, <2>1, <2>2, OverTells
  <2>6. QED
    BY <1>0, <2>1, <2>2, <2>3, <2>4, <2>5, SessionsStay
<1>19. QED
  BY <1>1, <1>4, <1>5, <1>6, <1>7, <1>8, <1>9, <1>10, <1>11, <1>12, <1>13, <1>14, <1>15, <1>16,
     <1>17, <1>18 DEF InternalNext

-----------------------------------------------------------------------------
LEMMA InternalStep == ASSUME InternalInv, InternalNext PROVE InternalInv'
BY GuardsKept, RowsKept, ChangesKept, SessionsKept
  DEF InternalInv, InternalTypeOK, GuardsAreSound, RowsAreSound, ChangesAreSound, SessionsAreSound

LEMMA InternalStutters == ASSUME InternalInv, UNCHANGED internalVars PROVE InternalInv'
BY DEF InternalInv, internalVars, InternalTypeOK, GuardIsSound, Forgotten, OneChange, Changing, ChangeIsSound,
  Exists, Withdraws, ActiveSuperadmins, Internal, SessionIsSound, SomebodyAdministers

LEMMA AlwaysInternal == InternalSpec => []InternalInv
<1>1. InternalInit => InternalInv
  BY InternalStarts
<1>2. InternalInv /\ [InternalNext]_internalVars => InternalInv'
  BY InternalStep, InternalStutters
<1>3. QED
  BY <1>1, <1>2, PTL DEF InternalSpec

\* The accounts, their tokens and the requests about them keep their types.
THEOREM AccountsTyped == InternalSpec => []InternalTypeOK
<1>1. InternalInv => InternalTypeOK
  BY DEF InternalInv
<1>2. QED
  BY <1>1, AlwaysInternal, PTL

\* However many super admins there are, and whatever they do to each other at the same
\* time, one of them stays, unless a role migration took their rights.
THEOREM OneSuperAdminStays == InternalSpec => []SomebodyAdministers
<1>1. InternalInv => SomebodyAdministers
  BY DEF InternalInv
<1>2. QED
  BY <1>1, AlwaysInternal, PTL

\* A session that was ended is not valid again, whatever happens to the account.
THEOREM EndedIsEnded == InternalSpec => []EndedSessionsStayEnded
<1>1. InternalInv => EndedSessionsStayEnded
  <2>1. ASSUME InternalInv, NEW b \in Browsers, Valid(b), session[b].ended, session[b].of \notin overtaken
        PROVE  FALSE
    <3>1. session[b].of \in Users /\ session[b].version \in Nat
      BY <2>1, SessionParts DEF InternalInv, Valid
    <3>2. QED
      BY <2>1, <3>1 DEF InternalInv, SessionIsSound, Valid
  <2>2. QED
    BY <2>1 DEF EndedSessionsStayEnded
<1>2. QED
  BY <1>1, AlwaysInternal, PTL

\* No more than MaxFailures wrong passwords in a row are judged, however the logins and
\* the confirmations of the sessions alternate.
THEOREM GuessesBounded == InternalSpec => []GuessesAreBounded
<1>1. InternalInv => GuessesAreBounded
  <2>1. ASSUME InternalInv, NEW u \in Users
        PROVE  tries[u] <= MaxFailures /\ (tries[u] = MaxFailures => guard[u].lock = "on")
    <3>1. /\ tries[u] \in 0..MaxFailures /\ guard[u].count \in 0..MaxFailures
          /\ guard[u].lock \in {"none", "on", "over"}
      BY <2>1 DEF InternalInv, InternalTypeOK, LoginState
    <3>2. GuardIsSound(u)
      BY <2>1 DEF InternalInv
    <3>3. QED
      BY <3>1, <3>2 DEF GuardIsSound, Forgotten
  <2>2. QED
    BY <2>1 DEF GuessesAreBounded
<1>2. QED
  BY <1>1, AlwaysInternal, PTL

-----------------------------------------------------------------------------
(***************************************************************************)
(* What the companies may receive.                                         *)
(***************************************************************************)

USE ProfileAssumption

\* Who asks for a removal asks the platform, about an area that is served; any other
\* active row is approved.
SoundRow(row) ==
  /\ row.removal => row.active /\ row.status = "PENDING"
  /\ row.active /\ ~row.removal => row.status = "APPROVED"

\* What the dispatch reads from a row.
Covers(i, row) ==
  row.active /\ (row.status = "APPROVED" \/ (i # "receiver" /\ row.status = "PENDING" /\ row.removal))

ProfileTyped ==
  /\ known \subseteq Regions
  /\ firm \in [Firms -> {"NONE", "ACTIVE", "DISABLED"}]
  /\ entry \in [Firms -> [Items -> Row]]
  /\ legacy \in [Firms -> SUBSET Items]
  /\ office \in [Offices -> Request \cup {Quiet}]
  /\ granted \in [Firms -> SUBSET Items] /\ crossed \in [Firms -> SUBSET Items]
  /\ byHand \subseteq Firms

\* Only a company that exists has requests, or anything in the tables of version 1.0.
FirmsExist ==
  /\ \A o \in Offices : office[o] # Quiet => firm[office[o].of] # "NONE"
  /\ \A k \in Firms : firm[k] = "NONE" => legacy[k] = {}

\* A row of k follows the decisions of the platform.
RowFollows(k, i) ==
  i \notin crossed[k] => SoundRow(entry[k][i]) /\ (Covers(i, entry[k][i]) <=> i \in granted[k])

TablesFollow == \A k \in Firms : k \notin byHand => legacy[k] \subseteq granted[k]

ProfileInv ==
  /\ ProfileTyped /\ FirmsExist /\ TablesFollow
  /\ \A k \in Firms, i \in Items : RowFollows(k, i)

-----------------------------------------------------------------------------
\* Rows.

LEMMA RowsAre ==
  /\ NoRow \in Row /\ Opened \in Row /\ Applied \in Row
  /\ SoundRow(NoRow) /\ SoundRow(Opened) /\ SoundRow(Applied)
  /\ \A i : ~Covers(i, NoRow) /\ Covers(i, Opened) /\ ~Covers(i, Applied)
  /\ Opened.status = "APPROVED" /\ Opened.active /\ ~Opened.removal
BY DEF NoRow, Opened, Applied, Row, SoundRow, Covers

LEMMA ItemsAre == "receiver" \in Items /\ Regions \subseteq Items /\ \A i \in Items : i # "receiver" => i \in Regions
BY DEF Items

\* What is asked for an area changes nothing about what is received.
LEMMA WantedKeeps ==
  ASSUME NEW row \in Row, NEW i \in Regions
  PROVE  /\ Wanted(row) \in Row
         /\ SoundRow(row) => SoundRow(Wanted(row)) /\ (Covers(i, Wanted(row)) <=> Covers(i, row))
BY RowsAre DEF Wanted, Row, SoundRow, Covers

LEMMA UnwantedKeeps ==
  ASSUME NEW row \in Row, NEW i \in Regions
  PROVE  /\ Unwanted(row) \in Row
         /\ SoundRow(row) => SoundRow(Unwanted(row)) /\ (Covers(i, Unwanted(row)) <=> Covers(i, row))
<1>1. CASE row.active /\ row.status = "APPROVED"
  <2>1. Unwanted(row) = [row EXCEPT !.status = "PENDING", !.removal = TRUE]
    BY <1>1 DEF Unwanted
  <2>2. QED
    BY <1>1, <2>1 DEF Row, SoundRow, Covers
<1>2. CASE ~(row.active /\ row.status = "APPROVED") /\ row.status = "PENDING" /\ ~row.active
  <2>1. Unwanted(row) = [row EXCEPT !.status = "REJECTED", !.removal = FALSE]
    BY <1>2 DEF Unwanted
  <2>2. QED
    BY <1>2, <2>1 DEF Row, SoundRow, Covers
<1>3. CASE ~(row.active /\ row.status = "APPROVED") /\ ~(row.status = "PENDING" /\ ~row.active)
  BY <1>3 DEF Unwanted
<1>4. QED
  BY <1>1, <1>2, <1>3

LEMMA ReappliedKeeps ==
  ASSUME NEW row \in Row
  PROVE  /\ Reapplied(row) \in Row
         /\ SoundRow(row) => SoundRow(Reapplied(row))
         /\ Covers("receiver", Reapplied(row)) <=> Covers("receiver", row)
BY RowsAre DEF Reapplied, Row, Covers

\* The word of the platform is what is received.
LEMMA JudgedDecides ==
  ASSUME NEW row \in Row, NEW yes \in BOOLEAN, NEW i
  PROVE  /\ Judged(row, yes) \in Row /\ Judged(row, yes).status # "NONE"
         /\ SoundRow(Judged(row, yes))
         /\ Covers(i, Judged(row, yes)) <=> Judged(row, yes).active
BY DEF Judged, Row, SoundRow, Covers

\* What is written over rows that nobody has changed, and what is not written.
LEMMA WrittenIsRow ==
  ASSUME NEW now \in Row, NEW before \in Row, NEW after \in Row, NEW noted
  PROVE  Written(now, before, after, noted) \in Row
BY DEF Written, Row

LEMMA WrittenUnseen ==
  ASSUME NEW before \in Row, NEW after \in Row, NEW noted
  PROVE  Written(before, before, after, noted) =
           IF before.status = "NONE" /\ after.status = "NONE" THEN before ELSE after
BY DEF Written, Row

LEMMA WrittenNothing ==
  ASSUME NEW now \in Row, NEW before \in Row
  PROVE  Written(now, before, before, FALSE) = now
BY DEF Written, Row

-----------------------------------------------------------------------------
\* Requests.

LEMMA RequestParts ==
  ASSUME NEW q \in Request
  PROVE  /\ q.of \in Firms /\ q.saw \in [Items -> Row]
         /\ q.kind \in {"replace", "configure", "review", "set", "request", "approveAll"}
         /\ q.kind \in {"replace", "configure"} => q.want \in SUBSET Regions /\ q.new \in SUBSET Regions
         /\ q.kind \in {"review", "set"} => q.item \in Items /\ q.yes \in BOOLEAN
BY DEF Request

LEMMA DraftKeeps ==
  ASSUME NEW q \in Request, NEW i \in Items
  PROVE  /\ Drafted(q)[i] \in Row
         /\ SoundRow(q.saw[i]) =>
              SoundRow(Drafted(q)[i]) /\ (Covers(i, Drafted(q)[i]) <=> Covers(i, q.saw[i]))
<1>0. q.saw \in [Items -> Row] /\ q.saw[i] \in Row
  BY RequestParts
<1>1. CASE q.kind \in {"replace", "configure"}
  <2>1. Drafted(q)[i] = IF i = "receiver" THEN q.saw[i]
                        ELSE IF i \in q.want THEN Wanted(q.saw[i]) ELSE Unwanted(q.saw[i])
    BY <1>1 DEF Drafted, Replaced
  <2>2. QED
    BY <1>0, <2>1, WantedKeeps, UnwantedKeeps, ItemsAre
<1>2. CASE q.kind = "request"
  <2>1. Drafted(q)[i] = IF i = "receiver" THEN Reapplied(q.saw[i]) ELSE q.saw[i]
    BY <1>0, <1>2 DEF Drafted
  <2>2. QED
    BY <1>0, <2>1, ReappliedKeeps
<1>3. CASE q.kind \notin {"replace", "configure", "request"}
  BY <1>0, <1>3 DEF Drafted
<1>4. QED
  BY <1>1, <1>2, <1>3

LEMMA OutcomeDecides ==
  ASSUME NEW q \in Request, NEW i \in Items
  PROVE  /\ Outcome(q)[i] \in Row
         /\ i \notin Decided(q) => Outcome(q)[i] = Drafted(q)[i]
         /\ i \in Decided(q) =>
              /\ Outcome(q)[i].status # "NONE"
              /\ SoundRow(Outcome(q)[i])
              /\ Covers(i, Outcome(q)[i]) <=> Outcome(q)[i].active
<1>0. Drafted(q)[i] \in Row
  BY DraftKeeps
<1>1. CASE i \notin Decided(q)
  BY <1>0, <1>1 DEF Outcome
<1>2. CASE i \in Decided(q) /\ q.kind = "set"
  <2>1. Outcome(q)[i] = [Opened EXCEPT !.active = q.yes] /\ q.yes \in BOOLEAN
    BY <1>2, RequestParts DEF Outcome
  <2>2. Outcome(q)[i] \in Row /\ Outcome(q)[i].status = "APPROVED" /\ ~Outcome(q)[i].removal
    BY <2>1 DEF Row, Opened
  <2>3. QED
    BY <1>2, <2>2 DEF SoundRow, Covers
<1>3. CASE i \in Decided(q) /\ q.kind # "set"
  <2>1. Outcome(q)[i] = Judged(Drafted(q)[i], Word(q, i)) /\ Word(q, i) \in BOOLEAN
    BY <1>3, RequestParts DEF Outcome, Word
  <2>2. QED
    BY <1>0, <1>3, <2>1, JudgedDecides
<1>4. QED
  BY <1>1, <1>2, <1>3

LEMMA DecidedItems ==
  ASSUME NEW q \in Request
  PROVE  Decided(q) \subseteq Items
<1>1. CASE q.kind \in {"review", "set"}
  BY <1>1, RequestParts, ItemsAre DEF Decided
<1>2. CASE q.kind \notin {"review", "set"}
  BY <1>2, ItemsAre DEF Decided, Openings, Unsettled
<1>3. QED
  BY <1>1, <1>2

\* The regions above a region are regions.
LEMMA MissingRegions ==
  ASSUME NEW W \in SUBSET Regions
  PROVE  Missing(W) \in SUBSET Regions
<1>1. ASSUME NEW r \in Regions PROVE Ancestors(r) \subseteq Regions
  BY DEF Ancestors
<1>2. QED
  BY <1>1 DEF Missing

-----------------------------------------------------------------------------
\* The invariant holds at first.
LEMMA ProfileStarts == ASSUME ProfileInit PROVE ProfileInv
<1> USE DEF ProfileInit
<1>1. ProfileTyped
  BY RowsAre DEF ProfileTyped
<1>2. FirmsExist /\ TablesFollow
  BY DEF FirmsExist, TablesFollow
<1>3. \A k \in Firms, i \in Items : RowFollows(k, i)
  BY RowsAre DEF RowFollows
<1>4. QED
  BY <1>1, <1>2, <1>3 DEF ProfileInv

\* The reading of a request.
LEMMA BeginKeeps ==
  ASSUME ProfileInv, NEW o \in Offices, NEW q \in Request, Begin(o, q)
  PROVE  ProfileInv'
<1> USE DEF ProfileInv, Begin
<1>1. ProfileTyped'
  BY DEF ProfileTyped
<1>2. FirmsExist' /\ TablesFollow'
  BY DEF ProfileTyped, FirmsExist, TablesFollow
<1>3. \A k \in Firms, i \in Items : RowFollows(k, i)'
  BY DEF RowFollows
<1>4. QED
  BY <1>1, <1>2, <1>3

\* The row of an item after the commit of q, when q has seen it as it is.
Committed(q, i, noted, more) ==
  Written(Written(q.saw[i], q.saw[i], Drafted(q)[i], noted), Drafted(q)[i], Outcome(q)[i], more)

AsMeant(q, i, row) ==
  /\ i \in Decided(q) => row = Outcome(q)[i]
  /\ i \notin Decided(q) =>
       row = Drafted(q)[i] \/ (row = q.saw[i] /\ q.saw[i].status = "NONE" /\ Drafted(q)[i].status = "NONE")

LEMMA CommittedSeen ==
  ASSUME NEW q \in Request, NEW i \in Items, NEW noted, NEW more,
         i \notin Decided(q) => more = FALSE
  PROVE  AsMeant(q, i, Committed(q, i, noted, more))
<1> USE DEF Committed, AsMeant
<1> DEFINE saw == q.saw[i]
           draft == Drafted(q)[i]
           after == Outcome(q)[i]
           first == Written(saw, saw, draft, noted)
<1>1. saw \in Row /\ draft \in Row /\ after \in Row
  BY RequestParts, DraftKeeps, OutcomeDecides
<1>2. first = IF saw.status = "NONE" /\ draft.status = "NONE" THEN saw ELSE draft
  BY <1>1, WrittenUnseen
<1>3. CASE i \notin Decided(q)
  <2>1. after = draft /\ more = FALSE
    BY <1>3, OutcomeDecides
  <2>2. first \in Row
    BY <1>1, <1>2
  <2>3. Written(first, draft, draft, FALSE) = first
    BY <1>1, <2>2, WrittenNothing
  <2>4. QED
    BY <1>2, <1>3, <2>1, <2>3
<1>4. CASE i \in Decided(q)
  <2>1. after.status # "NONE"
    BY <1>4, OutcomeDecides
  <2>2. CASE first = draft
    BY <1>1, <1>4, <2>1, <2>2, WrittenUnseen
  <2>3. CASE draft.status = "NONE"
    BY <1>4, <2>1, <2>3 DEF Written
  <2>4. QED
    BY <1>2, <2>2, <2>3
<1>5. QED
  BY <1>3, <1>4

LEMMA CommitKeeps ==
  ASSUME ProfileInv, NEW o \in Offices, Commit(o)
  PROVE  ProfileInv'
<1> DEFINE q == office[o]
           k == q.of
           on == Decided(q)
           open == {i \in on : Outcome(q)[i].active}
           written == {i \in Items : Outcome(q)[i] # q.saw[i] \/ Drafted(q)[i] # q.saw[i]} \cup on
           late == {i \in written : entry[k][i] # q.saw[i]}
           new == IF q.kind \in {"replace", "configure"} THEN q.new ELSE {}
<1>0. ProfileTyped /\ FirmsExist /\ TablesFollow /\ \A h \in Firms, i \in Items : RowFollows(h, i)
  BY DEF ProfileInv
<1>1. q \in Request /\ q # Quiet /\ k \in Firms
  BY <1>0, RequestParts DEF Commit, ProfileTyped
<1>2. /\ known' = known \cup new
      /\ legacy' = [legacy EXCEPT ![k] = (@ \ on) \cup open]
      /\ granted' = [granted EXCEPT ![k] = (@ \ on) \cup open]
      /\ crossed' = [crossed EXCEPT ![k] = (@ \ on) \cup late]
      /\ office' = [office EXCEPT ![o] = Quiet]
      /\ UNCHANGED <<firm, byHand>>
  BY DEF Commit
<1>3. PICK noted \in BOOLEAN :
        entry' = [entry EXCEPT ![k] = [i \in Items |->
            Written(Written(entry[k][i], q.saw[i], Drafted(q)[i], noted /\ i \in written),
                    Drafted(q)[i], Outcome(q)[i], noted /\ i \in on)]]
  BY DEF Commit
<1>4. on \subseteq Items /\ open \subseteq on /\ written \subseteq Items /\ late \subseteq written
      /\ on \subseteq written /\ new \subseteq Regions
  BY <1>1, DecidedItems, RequestParts
<1>5. ASSUME NEW i \in Items
      PROVE  /\ entry[k][i] \in Row /\ q.saw[i] \in Row /\ Drafted(q)[i] \in Row /\ Outcome(q)[i] \in Row
             /\ entry'[k][i] =
                  Written(Written(entry[k][i], q.saw[i], Drafted(q)[i], noted /\ i \in written),
                          Drafted(q)[i], Outcome(q)[i], noted /\ i \in on)
  <2>1. entry[k][i] \in Row /\ q.saw[i] \in Row /\ Drafted(q)[i] \in Row /\ Outcome(q)[i] \in Row
    BY <1>0, <1>1, RequestParts, DraftKeeps, OutcomeDecides DEF ProfileTyped
  <2>2. entry'[k] = [j \in Items |->
            Written(Written(entry[k][j], q.saw[j], Drafted(q)[j], noted /\ j \in written),
                    Drafted(q)[j], Outcome(q)[j], noted /\ j \in on)]
    BY <1>0, <1>1, <1>3 DEF ProfileTyped
  <2>3. QED
    BY <2>1, <2>2
<1> HIDE DEF new, written, late, open, on
<1>6. entry' \in [Firms -> [Items -> Row]]
  <2> DEFINE rows == [i \in Items |->
            Written(Written(entry[k][i], q.saw[i], Drafted(q)[i], noted /\ i \in written),
                    Drafted(q)[i], Outcome(q)[i], noted /\ i \in on)]
  <2>1. ASSUME NEW i \in Items PROVE rows[i] \in Row
    <3>1. (noted /\ i \in written) \in BOOLEAN /\ (noted /\ i \in on) \in BOOLEAN
      OBVIOUS
    <3>2. Written(entry[k][i], q.saw[i], Drafted(q)[i], noted /\ i \in written) \in Row
      BY <1>5, <3>1, WrittenIsRow
    <3>3. QED
      BY <1>5, <3>1, <3>2, WrittenIsRow
  <2>2. rows \in [Items -> Row]
    BY <2>1
  <2> HIDE DEF rows
  <2>3. entry' = [entry EXCEPT ![k] = rows]
    BY <1>3 DEF rows
  <2>4. QED
    BY <1>0, <1>1, <2>2, <2>3 DEF ProfileTyped
<1>7. ProfileTyped'
  <2>1. on \subseteq Items /\ open \subseteq Items /\ late \subseteq Items
    BY <1>4
  <2>2. legacy' \in [Firms -> SUBSET Items] /\ granted' \in [Firms -> SUBSET Items]
        /\ crossed' \in [Firms -> SUBSET Items]
    BY <1>0, <1>1, <1>2, <2>1 DEF ProfileTyped
  <2>3. office' \in [Offices -> Request \cup {Quiet}]
    BY <1>0, <1>2 DEF ProfileTyped
  <2>4. QED
    BY <1>0, <1>2, <1>4, <1>6, <2>2, <2>3 DEF ProfileTyped
<1>8. FirmsExist'
  <2>1. firm[k] # "NONE"
    BY <1>0, <1>1 DEF FirmsExist
  <2>2. QED
    BY <1>0, <1>1, <1>2, <2>1 DEF FirmsExist, ProfileTyped
<1>9. TablesFollow'
  BY <1>0, <1>1, <1>2 DEF TablesFollow, ProfileTyped
<1>10. ASSUME NEW h \in Firms, NEW i \in Items, h # k PROVE RowFollows(h, i)'
  <2>1. entry'[h] = entry[h]
    BY <1>0, <1>3, <1>10 DEF ProfileTyped
  <2>2. granted'[h] = granted[h] /\ crossed'[h] = crossed[h]
    BY <1>0, <1>2, <1>10 DEF ProfileTyped
  <2>3. QED
    BY <1>0, <2>1, <2>2 DEF RowFollows
<1>11. ASSUME NEW h \in Firms, h = k, NEW i \in Items PROVE RowFollows(h, i)'
  <2>1. SUFFICES ASSUME i \notin crossed'[h]
                 PROVE  SoundRow(entry'[h][i]) /\ (Covers(i, entry'[h][i]) <=> i \in granted'[h])
    BY DEF RowFollows
  <2>2. i \notin late /\ (i \in on \/ i \notin crossed[h])
    BY <1>0, <1>1, <1>2, <1>11, <2>1 DEF ProfileTyped
  <2>3. i \in granted'[h] <=> IF i \in on THEN i \in open ELSE i \in granted[h]
    BY <1>0, <1>1, <1>2, <1>4, <1>11 DEF ProfileTyped
  <2>4. PICK n, m :
          /\ i \notin written => n = FALSE
          /\ i \notin on => m = FALSE
          /\ entry'[h][i] = Written(Written(entry[h][i], q.saw[i], Drafted(q)[i], n), Drafted(q)[i], Outcome(q)[i], m)
    <3>2. /\ i \notin written => (noted /\ i \in written) = FALSE
          /\ i \notin on => (noted /\ i \in on) = FALSE
      OBVIOUS
    <3>3. entry'[h][i] =
            Written(Written(entry[h][i], q.saw[i], Drafted(q)[i], noted /\ i \in written),
                    Drafted(q)[i], Outcome(q)[i], noted /\ i \in on)
      BY <1>5, <1>11
    <3> WITNESS noted /\ i \in written, noted /\ i \in on
    <3>4. QED
      BY <3>2, <3>3
  <2>5. entry[h][i] \in Row /\ q.saw[i] \in Row
    BY <1>5, <1>11
  <2>6. CASE i \notin written
    <3>1. Outcome(q)[i] = q.saw[i] /\ Drafted(q)[i] = q.saw[i] /\ i \notin on
      BY <1>4, <2>6 DEF written, on
    <3>2. entry'[h][i] = entry[h][i]
      BY <2>4, <2>5, <2>6, <3>1, WrittenNothing
    <3>3. QED
      BY <1>0, <2>2, <2>3, <3>1, <3>2 DEF RowFollows
  <2>7. CASE i \in written
    <3>1. entry[h][i] = q.saw[i]
      BY <1>11, <2>2, <2>7 DEF late
    <3>2. /\ i \in Decided(q) => entry'[h][i] = Outcome(q)[i]
          /\ i \notin Decided(q) => entry'[h][i] = Drafted(q)[i]
               \/ (entry'[h][i] = q.saw[i] /\ q.saw[i].status = "NONE" /\ Drafted(q)[i].status = "NONE")
      <4>1. i \notin Decided(q) => m = FALSE
        BY <2>4 DEF on
      <4>2. entry'[h][i] = Committed(q, i, n, m)
        BY <2>4, <3>1 DEF Committed
      <4>3. q \in Request /\ i \in Items
        BY <1>1
      <4>4. AsMeant(q, i, Committed(q, i, n, m))
        BY <4>1, <4>3, CommittedSeen
      <4>5. QED
        BY <4>2, <4>4 DEF AsMeant
    <3>3. CASE i \in on
      BY <1>1, <2>3, <3>2, <3>3, OutcomeDecides DEF on, open
    <3>4. CASE i \notin on
      <4>1. SoundRow(q.saw[i]) /\ (Covers(i, q.saw[i]) <=> i \in granted[h])
        BY <1>0, <2>2, <3>1, <3>4 DEF RowFollows
      <4>2. QED
        BY <1>1, <2>3, <3>2, <3>4, <4>1, DraftKeeps DEF on
    <3>5. QED
      BY <3>3, <3>4
  <2>8. QED
    BY <2>6, <2>7
<1>12. \A h \in Firms, i \in Items : RowFollows(h, i)'
  BY <1>10, <1>11
<1>13. QED
  BY <1>7, <1>8, <1>9, <1>12 DEF ProfileInv

\* A request of every kind.
LEMMA RequestKinds ==
  ASSUME NEW k \in Firms, NEW saw \in [Items -> Row]
  PROVE  /\ [kind |-> "request", of |-> k, saw |-> saw] \in Request
         /\ [kind |-> "approveAll", of |-> k, saw |-> saw] \in Request
         /\ \A kind \in {"replace", "configure"}, W \in SUBSET Regions, new \in SUBSET Regions :
              [kind |-> kind, of |-> k, want |-> W, saw |-> saw, new |-> new] \in Request
         /\ \A kind \in {"review", "set"}, i \in Items, yes \in BOOLEAN :
              [kind |-> kind, of |-> k, item |-> i, yes |-> yes, saw |-> saw] \in Request
BY DEF Request

LEMMA AbandonKeeps ==
  ASSUME ProfileInv, NEW o \in Offices, Abandon(o)
  PROVE  ProfileInv'
<1> USE DEF ProfileInv, Abandon
<1>1. ProfileTyped'
  BY DEF ProfileTyped
<1>2. FirmsExist' /\ TablesFollow'
  BY DEF ProfileTyped, FirmsExist, TablesFollow
<1>3. \A k \in Firms, i \in Items : RowFollows(k, i)'
  BY DEF RowFollows
<1>4. QED
  BY <1>1, <1>2, <1>3

LEMMA RequestsKeep ==
  ASSUME ProfileInv, NEW o \in Offices, NEW k \in Firms,
         \/ RequestCapability(o, k) \/ ApprovePending(o, k)
         \/ \E W \in SUBSET Regions : ReplaceAreas(o, k, W)
         \/ \E yes \in BOOLEAN : \/ ConfigureCapability(o, k, yes)
                                 \/ \E i \in Items : Review(o, k, i, yes)
  PROVE  ProfileInv'
<1>0. entry[k] \in [Items -> Row]
  BY DEF ProfileInv, ProfileTyped
<1>1. CASE RequestCapability(o, k)
  <2>1. [kind |-> "request", of |-> k, saw |-> entry[k]] \in Request
    BY <1>0, RequestKinds
  <2>2. QED
    BY <1>1, <2>1, BeginKeeps DEF RequestCapability
<1>2. CASE ApprovePending(o, k)
  <2>1. [kind |-> "approveAll", of |-> k, saw |-> entry[k]] \in Request
    BY <1>0, RequestKinds
  <2>2. QED
    BY <1>2, <2>1, BeginKeeps DEF ApprovePending
<1>3. ASSUME NEW W \in SUBSET Regions, ReplaceAreas(o, k, W) PROVE ProfileInv'
  <2>1. PICK kind \in {"replace", "configure"} :
          Begin(o, [kind |-> kind, of |-> k, want |-> W, saw |-> entry[k], new |-> Missing(W)])
    BY <1>3 DEF ReplaceAreas
  <2>2. [kind |-> kind, of |-> k, want |-> W, saw |-> entry[k], new |-> Missing(W)] \in Request
    BY <1>0, RequestKinds, MissingRegions
  <2>3. QED
    BY <2>1, <2>2, BeginKeeps
<1>4. ASSUME NEW yes \in BOOLEAN, ConfigureCapability(o, k, yes) PROVE ProfileInv'
  <2>1. [kind |-> "set", of |-> k, item |-> "receiver", yes |-> yes, saw |-> entry[k]] \in Request
    BY <1>0, RequestKinds, ItemsAre
  <2>2. QED
    BY <1>4, <2>1, BeginKeeps DEF ConfigureCapability
<1>5. ASSUME NEW yes \in BOOLEAN, NEW i \in Items, Review(o, k, i, yes) PROVE ProfileInv'
  <2>1. [kind |-> "review", of |-> k, item |-> i, yes |-> yes, saw |-> entry[k]] \in Request
    BY <1>0, RequestKinds
  <2>2. QED
    BY <1>5, <2>1, BeginKeeps DEF Review
<1>6. QED
  BY <1>1, <1>2, <1>3, <1>4, <1>5

\* A company is created with everything it shall receive.
LEMMA CreateSimpleKeeps ==
  ASSUME ProfileInv, NEW k \in Firms, NEW W \in SUBSET Regions, CreateSimple(k, W)
  PROVE  ProfileInv'
<1> DEFINE rows == [i \in Items |-> IF i \in W \cup {"receiver"} THEN Opened ELSE NoRow]
<1>0. ProfileTyped /\ FirmsExist /\ TablesFollow /\ \A h \in Firms, i \in Items : RowFollows(h, i)
  BY DEF ProfileInv
<1>1. /\ firm[k] = "NONE" /\ firm' = [firm EXCEPT ![k] = "ACTIVE"]
      /\ entry' = [entry EXCEPT ![k] = rows]
      /\ known' = known \cup Missing(W)
      /\ granted' = [granted EXCEPT ![k] = W \cup {"receiver"}]
      /\ UNCHANGED <<legacy, office, crossed, byHand>>
  BY DEF CreateSimple
<1>2. rows \in [Items -> Row]
  BY RowsAre
<1>3. \A i \in Items : SoundRow(rows[i]) /\ (Covers(i, rows[i]) <=> i \in W \cup {"receiver"})
  BY RowsAre
<1> HIDE DEF rows
<1>4. ProfileTyped'
  <2>1. W \cup {"receiver"} \in SUBSET Items
    BY ItemsAre
  <2>2. entry' \in [Firms -> [Items -> Row]] /\ granted' \in [Firms -> SUBSET Items]
    BY <1>0, <1>1, <1>2, <2>1 DEF ProfileTyped
  <2>3. QED
    BY <1>0, <1>1, <2>2, MissingRegions DEF ProfileTyped
<1>5. FirmsExist'
  BY <1>0, <1>1 DEF FirmsExist, ProfileTyped
<1>6. TablesFollow'
  BY <1>0, <1>1 DEF TablesFollow, FirmsExist, ProfileTyped
<1>7. \A h \in Firms, i \in Items : RowFollows(h, i)'
  <2>1. ASSUME NEW h \in Firms, NEW i \in Items, h # k PROVE RowFollows(h, i)'
    BY <1>0, <1>1, <2>1 DEF RowFollows, ProfileTyped
  <2>2. ASSUME NEW i \in Items PROVE RowFollows(k, i)'
    <3>1. entry'[k][i] = rows[i] /\ granted'[k] = W \cup {"receiver"}
      BY <1>0, <1>1 DEF ProfileTyped
    <3>2. QED
      BY <1>3, <3>1 DEF RowFollows
  <2>3. QED
    BY <2>1, <2>2
<1>8. QED
  BY <1>4, <1>5, <1>6, <1>7 DEF ProfileInv

LEMMA SetScopeKeeps ==
  ASSUME ProfileInv, NEW k \in Firms, NEW S \in Scopes, SetScope(k, S)
  PROVE  ProfileInv'
<1> USE DEF ProfileInv, SetScope
<1>1. S \in SUBSET Items
  BY DEF Scopes
<1>2. ProfileTyped'
  BY <1>1 DEF ProfileTyped
<1>3. FirmsExist' /\ TablesFollow'
  BY DEF ProfileTyped, FirmsExist, TablesFollow
<1>4. \A h \in Firms, i \in Items : RowFollows(h, i)'
  BY DEF RowFollows
<1>5. QED
  BY <1>2, <1>3, <1>4

LEMMA SetFirmStatusKeeps ==
  ASSUME ProfileInv, NEW k \in Firms, NEW s \in {"ACTIVE", "DISABLED"}, SetFirmStatus(k, s)
  PROVE  ProfileInv'
<1> USE DEF ProfileInv, SetFirmStatus
<1>1. ProfileTyped'
  BY DEF ProfileTyped
<1>2. FirmsExist' /\ TablesFollow'
  BY DEF ProfileTyped, FirmsExist, TablesFollow
<1>3. \A h \in Firms, i \in Items : RowFollows(h, i)'
  BY DEF RowFollows
<1>4. QED
  BY <1>1, <1>2, <1>3

LEMMA ProfileStep == ASSUME ProfileInv, ProfileNext PROVE ProfileInv'
BY CommitKeeps, AbandonKeeps, RequestsKeep, CreateSimpleKeeps, SetScopeKeeps, SetFirmStatusKeeps
  DEF ProfileNext

LEMMA ProfileStutters == ASSUME ProfileInv, UNCHANGED profileVars PROVE ProfileInv'
BY DEF ProfileInv, profileVars, ProfileTyped, FirmsExist, TablesFollow, RowFollows

LEMMA AlwaysProfile == ProfileSpec => []ProfileInv
<1>1. ProfileInit => ProfileInv
  BY ProfileStarts
<1>2. ProfileInv /\ [ProfileNext]_profileVars => ProfileInv'
  BY ProfileStep, ProfileStutters
<1>3. QED
  BY <1>1, <1>2, PTL DEF ProfileSpec

\* The tables of the companies keep their types.
THEOREM ProfilesTyped == ProfileSpec => []ProfileTypeOK
<1>1. ProfileInv => ProfileTypeOK
  BY RequestParts DEF ProfileInv, ProfileTyped, ProfileTypeOK
<1>2. QED
  BY <1>1, AlwaysProfile, PTL

\* Whatever a company asks for meanwhile, it receives what the platform last decided,
\* except on a row that was written over a change nobody had seen.
THEOREM DecisionsCover == ProfileSpec => []CoverageFollowsDecisions
<1>1. ProfileInv => CoverageFollowsDecisions
  <2>1. SUFFICES ASSUME ProfileInv, NEW k \in Firms
                 PROVE  /\ \A r \in Regions \ crossed[k] : Serves(k, r) <=> r \in granted[k]
                        /\ "receiver" \notin crossed[k] => (MayReceive(k) <=> "receiver" \in granted[k])
                        /\ k \notin byHand => legacy[k] \subseteq granted[k]
    BY DEF CoverageFollowsDecisions
  <2>2. ASSUME NEW r \in Regions \ crossed[k] PROVE Serves(k, r) <=> r \in granted[k]
    <3>1. RowFollows(k, r) /\ r # "receiver"
      BY <2>1, ItemsAre DEF ProfileInv
    <3>2. Serves(k, r) <=> Covers(r, entry[k][r])
      BY <3>1 DEF Serves, Dispatchable, Covers
    <3>3. QED
      BY <3>1, <3>2 DEF RowFollows
  <2>3. ASSUME "receiver" \notin crossed[k] PROVE MayReceive(k) <=> "receiver" \in granted[k]
    BY <2>1, <2>3, ItemsAre DEF ProfileInv, RowFollows, MayReceive, Covers
  <2>4. QED
    BY <2>1, <2>2, <2>3 DEF ProfileInv, TablesFollow
<1>2. QED
  BY <1>1, AlwaysProfile, PTL

-----------------------------------------------------------------------------
\* What a configuration of the areas really leaves behind.

\* A commit does to a row nobody has changed what the request was meant to do.
LEMMA CommitIsAsMeant ==
  ASSUME ProfileInv, NEW o \in Offices, Commit(o), NEW i \in Items,
         entry[office[o].of][i] = office[o].saw[i]
  PROVE  AsMeant(office[o], i, entry'[office[o].of][i])
<1> DEFINE q == office[o]
           k == q.of
           on == Decided(q)
           written == {j \in Items : Outcome(q)[j] # q.saw[j] \/ Drafted(q)[j] # q.saw[j]} \cup on
<1>1. q \in Request /\ k \in Firms /\ entry \in [Firms -> [Items -> Row]]
  BY RequestParts DEF Commit, ProfileInv, ProfileTyped
<1>2. PICK noted \in BOOLEAN :
        entry' = [entry EXCEPT ![k] = [j \in Items |->
            Written(Written(entry[k][j], q.saw[j], Drafted(q)[j], noted /\ j \in written),
                    Drafted(q)[j], Outcome(q)[j], noted /\ j \in on)]]
  BY DEF Commit
<1> HIDE DEF written, on
<1>3. entry'[k][i] = Committed(q, i, noted /\ i \in written, noted /\ i \in on)
  <2>1. entry'[k] = [j \in Items |->
            Written(Written(entry[k][j], q.saw[j], Drafted(q)[j], noted /\ j \in written),
                    Drafted(q)[j], Outcome(q)[j], noted /\ j \in on)]
    BY <1>1, <1>2
  <2>2. QED
    BY <2>1 DEF Committed
<1>4. i \notin Decided(q) => (noted /\ i \in on) = FALSE
  BY DEF on
<1>5. AsMeant(q, i, Committed(q, i, noted /\ i \in written, noted /\ i \in on))
  BY <1>1, <1>4, CommittedSeen
<1>6. QED
  BY <1>3, <1>5

\* An area is served after it was configured, and also when it was left out and had a
\* row that was not active.
LEMMA ConfiguredRow ==
  ASSUME NEW q \in Request, q.kind = "configure", NEW r \in Regions, SoundRow(q.saw[r]),
         NEW row, AsMeant(q, r, row)
  PROVE  Covers(r, row) <=> r \in q.want \/ (q.saw[r].status # "NONE" /\ ~q.saw[r].active)
<1> DEFINE saw == q.saw[r]
           draft == Drafted(q)[r]
<1>1. r \in Items /\ r # "receiver" /\ saw \in Row
  BY RequestParts, ItemsAre DEF Items
<1>2. draft = IF r \in q.want THEN Wanted(saw) ELSE Unwanted(saw)
  BY <1>1 DEF Drafted, Replaced
<1>3. draft \in Row
  BY <1>1, DraftKeeps
<1>4. r \in Decided(q) <=>
        draft.status # "NONE" /\ (draft.removal \/ draft.status # "APPROVED" \/ ~draft.active)
  BY DEF Decided, Unsettled, Drafted
<1>5. Covers(r, row) <=> draft.status # "NONE" /\ ~draft.removal
  <2>1. CASE r \in Decided(q)
    <3>1. row = Outcome(q)[r] /\ (Covers(r, row) <=> Outcome(q)[r].active)
      BY <1>1, <2>1, OutcomeDecides DEF AsMeant
    <3>2. Outcome(q)[r] = Judged(draft, TRUE)
      BY <1>1, <2>1 DEF Outcome, Word
    <3>3. Judged(draft, TRUE).active <=> ~draft.removal
      BY <1>3 DEF Judged, Row
    <3>4. QED
      BY <1>4, <2>1, <3>1, <3>2, <3>3
  <2>2. CASE r \notin Decided(q) /\ draft.status = "NONE"
    BY <2>2 DEF AsMeant, Covers
  <2>3. CASE r \notin Decided(q) /\ draft.status # "NONE"
    BY <1>1, <1>4, <2>3 DEF AsMeant, Covers
  <2>4. QED
    BY <2>1, <2>2, <2>3
<1>6. CASE r \in q.want
  <2>1. Wanted(saw).status # "NONE" /\ ~Wanted(saw).removal
    BY <1>1 DEF Wanted, SoundRow, Applied, Opened, Row
  <2>2. QED
    BY <1>2, <1>5, <1>6, <2>1
<1>7. CASE r \notin q.want
  <2>1. Unwanted(saw).status # "NONE" /\ ~Unwanted(saw).removal <=> saw.status # "NONE" /\ ~saw.active
    <3>1. CASE saw.active /\ saw.status = "APPROVED"
      BY <1>1, <3>1 DEF Unwanted, Row
    <3>2. CASE ~(saw.active /\ saw.status = "APPROVED") /\ saw.status = "PENDING" /\ ~saw.active
      BY <1>1, <3>2 DEF Unwanted, Row
    <3>3. CASE ~(saw.active /\ saw.status = "APPROVED") /\ ~(saw.status = "PENDING" /\ ~saw.active)
      BY <1>1, <3>3 DEF Unwanted, SoundRow
    <3>4. QED
      BY <3>1, <3>2, <3>3
  <2>2. QED
    BY <1>2, <1>5, <1>7, <2>1
<1>8. QED
  BY <1>6, <1>7

\* Where nobody has changed a row, meanwhile or before, the commit of a configuration
\* leaves the area served that was asked for, or that had a row but was not active.
ServesWantedAndInactive ==
  \A o \in Offices, k \in Firms :
    office[o].kind = "configure" /\ office[o].of = k /\ Commit(o) =>
      \A r \in Regions \ crossed[k] :
        entry[k][r] = office[o].saw[r] =>
          (Serves(k, r)' <=> \/ r \in office[o].want
                             \/ (entry[k][r].status # "NONE" /\ ~entry[k][r].active))

\* What admin_configure_service_areas leaves served is the areas that were configured
\* and, beyond what is meant, each area left out that once had a row and is not active,
\* whether it was taken away, refused or only applied for; and nothing else.
THEOREM ConfiguredAndLeftOverAreServed == ProfileSpec => [][ServesWantedAndInactive]_profileVars
<1>1. ASSUME ProfileInv, NEW o \in Offices, NEW k \in Firms,
             office[o].kind = "configure", office[o].of = k, Commit(o),
             NEW r \in Regions \ crossed[k], entry[k][r] = office[o].saw[r]
      PROVE  Serves(k, r)' <=> \/ r \in office[o].want
                               \/ (entry[k][r].status # "NONE" /\ ~entry[k][r].active)
  <2>1. office[o] \in Request /\ r \in Items /\ r # "receiver"
    BY <1>1, RequestParts, ItemsAre DEF Commit, ProfileInv, ProfileTyped
  <2>2. SoundRow(office[o].saw[r])
    BY <1>1, <2>1 DEF ProfileInv, RowFollows
  <2>3. AsMeant(office[o], r, entry'[k][r])
    BY <1>1, <2>1, CommitIsAsMeant
  <2>4. Serves(k, r)' <=> Covers(r, entry'[k][r])
    BY <2>1 DEF Serves, Dispatchable, Covers
  <2>5. Covers(r, entry'[k][r]) <=>
          \/ r \in office[o].want
          \/ (office[o].saw[r].status # "NONE" /\ ~office[o].saw[r].active)
    BY <1>1, <2>1, <2>2, <2>3, ConfiguredRow
  <2>6. QED
    BY <1>1, <2>4, <2>5
<1>2. ProfileInv /\ [ProfileNext]_profileVars => [ServesWantedAndInactive]_profileVars
  BY <1>1 DEF ServesWantedAndInactive
<1>3. QED
  BY <1>2, AlwaysProfile, PTL DEF ProfileSpec

-----------------------------------------------------------------------------
\* The list of candidates and the check at the dispatch.

\* The districts a company serves are counted alike, alone or among the rows of all.
LEMMA DistrictsCounted ==
  ASSUME known \subseteq Regions, NEW r, NEW k \in Firms
  PROVE  Cardinality({x \in DistrictRows(r) : x[1] = k}) = Cardinality({d \in DistrictsOf(r) : Serves(k, d)})
<1> DEFINE D == {d \in DistrictsOf(r) : Serves(k, d)}
           X == {x \in DistrictRows(r) : x[1] = k}
           pair == [d \in D |-> <<k, d>>]
<1>1. IsFiniteSet(D)
  <2>1. D \in SUBSET Regions
    BY DEF DistrictsOf
  <2>2. QED
    BY <2>1, FS_Subset
<1>2. \A d \in D : <<k, d>> \in X
  BY DEF DistrictRows
<1>3. \A x \in X : \E d \in D : x = <<k, d>>
  BY DEF DistrictRows
<1>4. pair \in Bijection(D, X)
  <2>1. pair \in [D -> X]
    BY <1>2
  <2>2. \A a, b \in D : pair[a] = pair[b] => a = b
    OBVIOUS
  <2>3. \A x \in X : \E d \in D : pair[d] = x
    BY <1>3
  <2>4. QED
    BY <2>1, <2>2, <2>3 DEF Bijection, Injection, Surjection, IsInjective
<1>5. ExistsBijection(D, X)
  BY <1>4 DEF ExistsBijection
<1>6. QED
  BY <1>1, <1>5, FS_Bijection

\* A company that serves the region itself, one above it, or every district of it.
LEMMA DirectlyOffered ==
  ASSUME NEW r, NEW k \in Firms
  PROVE  k \in DirectFirms(r) <=> \E a \in Clause(r) : Serves(k, a)
<1>1. ASSUME NEW a \in Clause(r), Serves(k, a) PROVE k \in DirectFirms(r)
  <2>1. <<k, a>> \in AreaRows(r)
    BY <1>1 DEF AreaRows
  <2>2. QED
    BY <2>1 DEF DirectFirms
<1>2. ASSUME k \in DirectFirms(r) PROVE \E a \in Clause(r) : Serves(k, a)
  BY <1>2 DEF DirectFirms, AreaRows
<1>3. QED
  BY <1>1, <1>2

LEMMA MatchingOffered ==
  ASSUME known \subseteq Regions, NEW r, NEW k \in Firms
  PROVE  k \in DirectFirms(r) \cup WholeCityFirms(r) <=> RegionMatches(k, r)
<1> DEFINE whole == /\ r \in known /\ Level[r] = "CITY"
                    /\ Cardinality(DistrictsOf(r)) # 0
                    /\ Cardinality({d \in DistrictsOf(r) : Serves(k, d)}) = Cardinality(DistrictsOf(r))
           n == IF r \in known /\ Level[r] = "CITY" THEN Cardinality(DistrictsOf(r)) ELSE 0
<1>1. Cardinality({x \in DistrictRows(r) : x[1] = k}) = Cardinality({d \in DistrictsOf(r) : Serves(k, d)})
  BY DistrictsCounted
<1>2. k \in WholeCityFirms(r) <=> n # 0 /\ Cardinality({x \in DistrictRows(r) : x[1] = k}) = n
  BY DEF WholeCityFirms
<1>3. k \in WholeCityFirms(r) <=> whole
  BY <1>1, <1>2
<1>4. QED
  BY <1>3, DirectlyOffered DEF RegionMatches

\* Who is offered is accepted, and a supplier's lead goes to the public pool exactly
\* when nobody is offered.
THEOREM OfferedAccepted == ProfileSpec => []OfferedIsAccepted
<1>1. ProfileInv => OfferedIsAccepted
  <2>1. SUFFICES ASSUME ProfileInv, NEW r \in Regions, NEW s \in Firms \cup {"none"}
                 PROVE  /\ \A k \in Firms : k \in Offered(r, s) <=> Accepted(k, r, s)
                        /\ s # "none" => (PoolTarget(r, s) = "PUBLIC_POOL" <=> Offered(r, s) = {})
    BY DEF OfferedIsAccepted
  <2>2. known \subseteq Regions
    BY <2>1 DEF ProfileInv, ProfileTyped
  <2>3. ASSUME NEW k \in Firms PROVE k \in Offered(r, s) <=> Accepted(k, r, s)
    <3>1. k \in DirectFirms(r) \cup WholeCityFirms(r) <=> RegionMatches(k, r)
      BY <2>2, MatchingOffered
    <3>2. QED
      BY <3>1 DEF Offered, Accepted
  <2>4. DirectFirms(r) \subseteq Firms /\ WholeCityFirms(r) \subseteq Firms
    BY DEF DirectFirms, AreaRows, WholeCityFirms
  <2>5. HasReceiverCoverage(r, s) <=> Offered(r, s) # {}
    BY <2>4 DEF HasReceiverCoverage, Offered
  <2>6. QED
    BY <2>3, <2>5 DEF PoolTarget
<1>2. QED
  BY <1>1, AlwaysProfile, PTL

-----------------------------------------------------------------------------
(***************************************************************************)
(* The deletion of a test company.                                         *)
(***************************************************************************)

USE PurgeAssumption

Found == [deals : SUBSET Deals, rewards : SUBSET Deals]

PurgeTyped ==
  /\ party \in [status : {"ACTIVE", "DISABLED"}, test : BOOLEAN, gone : BOOLEAN]
  /\ stock \in [Stock -> Goods \cup {NoGoods}]
  /\ match \in [Stock -> SUBSET Stock]
  /\ deal \in [Deals -> Deal]
  /\ books \in SUBSET Entry /\ IsFiniteSet(books)
  /\ funds \in [Parties -> [PointKinds -> Int]]
  /\ cashed \in SUBSET Parties
  /\ clerk = NoClerk \/ clerk \in [kind : {"claim", "settle", "return"}, deal : Deals]
  /\ purge \in [phase : {"none", "locking", "locked", "read"}, found : Found, locked : Found,
                rounds : 0..MaxRounds, entries : SUBSET Entry]

\* A deal has its lead, a reward its supplier, and a deal nobody has claimed no reward.
DealIsSound(a) ==
  /\ deal[a].lead \in InStock
  /\ deal[a].reward # "none" => SupplierOf(a) \in Parties
  /\ deal[a].status = "PENDING" => deal[a].reward = "none"

\* What the transaction of the other side has checked is still so, because it has locked
\* the deal.
ClerkIsSound ==
  clerk # NoClerk =>
    /\ clerk.deal \in Done
    /\ clerk.kind = "claim" => deal[clerk.deal].status = "PENDING"
    /\ clerk.kind = "settle" => deal[clerk.deal].reward = "due"
    /\ clerk.kind = "return" => deal[clerk.deal].status = "CLAIMED"

\* The purge has found every deal of the company, locks none that is busy, and holds
\* all of them when it goes on.
LocksAreSound ==
  /\ clerk # NoClerk => clerk.deal \notin purge.locked.deals
  /\ purge # NoPurge => OwnDeals \subseteq purge.found.deals
  /\ purge.phase \in {"locked", "read"} => OwnDeals \subseteq purge.locked.deals
  /\ purge.found.rewards \subseteq purge.found.deals /\ purge.locked.rewards \subseteq purge.locked.deals

\* An entry says what its deal says, and follows the one it corrects.
EntryIsSound(e) ==
  /\ e.deal # "none" =>
       /\ e.deal \in Done
       /\ e.what = "correction" => Ledger("claim", e.deal, e.of, e.kind) \in books
       /\ e.what = "recorrection" => Ledger("correction", e.deal, e.of, e.kind) \in books
  /\ e.what = "claim" => deal[e.deal].status \in {"CLAIMED", "RETURNED"}
  /\ e.what = "refund" => deal[e.deal].status = "RETURNED"
  /\ e.what = "reward" => deal[e.deal].reward \in {"paid", "reversed"}
  /\ e.what = "reversal" => deal[e.deal].reward = "reversed"
  /\ e.what = "withdrawal" => e.of \in cashed

DealIsBooked(a) ==
  /\ deal[a].status \in {"CLAIMED", "RETURNED"} => Ledger("claim", a, deal[a].to, "CUSTOMER") \in books
  /\ deal[a].reward \in {"paid", "reversed"} => Ledger("reward", a, SupplierOf(a), "SUPPLY") \in books

AccountsAreSound ==
  \A k \in Parties, p \in PointKinds : ~(k = "t" /\ party.gone) => funds[k][p] = Sum(books, k, p)

BooksAreSound ==
  /\ \A e \in books : EntryIsSound(e)
  /\ \A a \in Done : DealIsBooked(a)
  /\ AccountsAreSound

\* A lead that is not deleted is out with a deal, or free; a duplicate knows its twin.
LeadIsUsable(l) ==
  ~stock[l].gone =>
    /\ stock[l].status = "OUT" <=> stock[l].on # "none"
    /\ stock[l].on # "none" => stock[l].on \in Done /\ deal[stock[l].on].lead = l
    /\ stock[l].status = "DUPLICATE" => \E k \in match[l] : k \in InStock /\ k # l

PurgeInv ==
  /\ PurgeTyped
  /\ \A a \in Done : DealIsSound(a)
  /\ ClerkIsSound
  /\ LocksAreSound
  /\ BooksAreSound
  /\ \A l \in InStock : LeadIsUsable(l)

-----------------------------------------------------------------------------
\* Rows.

LEMMA GoodsParts ==
  ASSUME PurgeTyped, NEW l \in Stock
  PROVE  /\ l \in InStock => stock[l] \in Goods
         /\ l \notin InStock => stock[l] = NoGoods
BY DEF PurgeTyped, InStock

LEMMA GoodsAreSome == \A g \in Goods : g # NoGoods
<1>1. \A g \in Goods : g.by # "none"
  BY DEF Goods, Parties
<1>2. QED
  BY <1>1 DEF NoGoods

LEMMA DealParts ==
  ASSUME PurgeTyped, NEW a \in Deals
  PROVE  /\ deal[a] \in Deal
         /\ a \in Done <=> deal[a] # NoDeal
         /\ a \in Done => deal[a] \in [status : {"PENDING", "CLAIMED", "RETURNED", "OVER"}, lead : Stock,
              to : Parties, reward : {"none", "due", "paid", "reversed", "cancelled"}]
         /\ a \in Done => deal[a].to \in Parties /\ deal[a].lead \in Stock
<1>1. deal[a] \in Deal
  BY DEF PurgeTyped
<1>2. CASE deal[a] = NoDeal
  BY <1>1, <1>2 DEF Done, NoDeal
<1>3. CASE deal[a] # NoDeal
  <2>1. deal[a] \in [status : {"PENDING", "CLAIMED", "RETURNED", "OVER"}, lead : Stock,
              to : Parties, reward : {"none", "due", "paid", "reversed", "cancelled"}]
    BY <1>1, <1>3 DEF Deal
  <2>2. QED
    BY <1>1, <1>3, <2>1 DEF Done
<1>4. QED
  BY <1>2, <1>3

LEMMA LedgerParts ==
  ASSUME NEW w, NEW a, NEW k, NEW p
  PROVE  /\ Ledger(w, a, k, p).what = w /\ Ledger(w, a, k, p).deal = a
         /\ Ledger(w, a, k, p).of = k /\ Ledger(w, a, k, p).kind = p
BY DEF Ledger

LEMMA LedgerEntries ==
  ASSUME NEW k \in Parties, NEW p \in PointKinds
  PROVE  /\ \A a \in Deals, w \in {"claim", "refund", "reward", "reversal", "correction", "recorrection"} :
              Ledger(w, a, k, p) \in Entry
         /\ Ledger("withdrawal", "none", k, p) \in Entry /\ Ledger("recharge", "none", k, p) \in Entry
BY DEF Ledger, Entry

LEMMA EntryParts ==
  ASSUME NEW e \in Entry
  PROVE  /\ e.what \in {"recharge", "withdrawal", "claim", "refund", "reward", "reversal", "correction", "recorrection"}
         /\ e.of \in Parties /\ e.kind \in PointKinds
         /\ e.what \in {"recharge", "withdrawal"} => e.deal = "none"
         /\ e.what \notin {"recharge", "withdrawal"} => e.deal \in Deals
         /\ e.deal # "none" => e.deal \in Deals
         /\ e = Ledger(e.what, e.deal, e.of, e.kind)
BY DEF Entry, Ledger

-----------------------------------------------------------------------------
\* What the entries of an account add up to.

CountOf(E, k, p, w) == Cardinality({e \in E : e.of = k /\ e.kind = p /\ e.what = w})

LEMMA SumIs ==
  ASSUME NEW E, NEW k, NEW p
  PROVE  Sum(E, k, p) =
           2 * CountOf(E, k, p, "recharge") + CountOf(E, k, p, "refund") + CountOf(E, k, p, "reward")
             + CountOf(E, k, p, "correction") - CountOf(E, k, p, "claim") - CountOf(E, k, p, "reversal")
             - CountOf(E, k, p, "withdrawal") - CountOf(E, k, p, "recorrection")
BY DEF Sum, CountOf

LEMMA CountAdd ==
  ASSUME NEW B, IsFiniteSet(B), NEW n, n \notin B, NEW k, NEW p, NEW w
  PROVE  /\ CountOf(B, k, p, w) \in Nat
         /\ CountOf(B \cup {n}, k, p, w) =
              IF n.of = k /\ n.kind = p /\ n.what = w THEN CountOf(B, k, p, w) + 1 ELSE CountOf(B, k, p, w)
<1> DEFINE F == {e \in B : e.of = k /\ e.kind = p /\ e.what = w}
           G == {e \in B \cup {n} : e.of = k /\ e.kind = p /\ e.what = w}
<1>1. IsFiniteSet(F) /\ n \notin F
  <2>1. F \in SUBSET B
    OBVIOUS
  <2>2. QED
    BY <2>1, FS_Subset
<1>2. Cardinality(F) \in Nat
  BY <1>1, FS_CardinalityType
<1>3. CASE n.of = k /\ n.kind = p /\ n.what = w
  <2>1. G = F \cup {n}
    BY <1>3
  <2>2. Cardinality(F \cup {n}) = Cardinality(F) + 1
    BY <1>1, FS_AddElement
  <2>3. QED
    BY <1>2, <1>3, <2>1, <2>2 DEF CountOf
<1>4. CASE ~(n.of = k /\ n.kind = p /\ n.what = w)
  <2>1. G = F
    BY <1>4
  <2>2. QED
    BY <1>2, <1>4, <2>1 DEF CountOf
<1>5. QED
  BY <1>3, <1>4

LEMMA SumIsInt ==
  ASSUME NEW B, IsFiniteSet(B), NEW k, NEW p
  PROVE  Sum(B, k, p) \in Int
<1>1. \A w : CountOf(B, k, p, w) \in Nat
  <2>1. TAKE w
  <2>2. {e \in B : e.of = k /\ e.kind = p /\ e.what = w} \in SUBSET B
    OBVIOUS
  <2>3. QED
    BY <2>2, FS_Subset, FS_CardinalityType DEF CountOf
<1>2. QED
  BY <1>1, SumIs

LEMMA SumAdd ==
  ASSUME NEW B, IsFiniteSet(B), NEW n \in Entry, n \notin B
  PROVE  Sum(B \cup {n}, n.of, n.kind) = Sum(B, n.of, n.kind) + Delta(n) /\ Delta(n) \in Int
<1> DEFINE k == n.of
           p == n.kind
<1>1. \A w : /\ CountOf(B, k, p, w) \in Nat
             /\ CountOf(B \cup {n}, k, p, w) =
                  IF n.what = w THEN CountOf(B, k, p, w) + 1 ELSE CountOf(B, k, p, w)
  BY CountAdd
<1>2. n.what \in {"recharge", "withdrawal", "claim", "refund", "reward", "reversal", "correction", "recorrection"}
  BY EntryParts
<1>3. Delta(n) = IF n.what = "recharge" THEN 2
                 ELSE IF n.what \in {"claim", "reversal", "withdrawal", "recorrection"} THEN -1 ELSE 1
  BY <1>2 DEF Delta
<1> HIDE DEF k, p
<1>4. Sum(B \cup {n}, k, p) = Sum(B, k, p) + Delta(n)
  <2> DEFINE Old(w) == CountOf(B, k, p, w)
             New(w) == CountOf(B \cup {n}, k, p, w)
  <2>1. \A w : Old(w) \in Nat /\ New(w) = IF n.what = w THEN Old(w) + 1 ELSE Old(w)
    BY <1>1
  <2>2. Sum(B, k, p) =
           2 * Old("recharge") + Old("refund") + Old("reward") + Old("correction")
             - Old("claim") - Old("reversal") - Old("withdrawal") - Old("recorrection")
    BY SumIs
  <2>3. Sum(B \cup {n}, k, p) =
           2 * New("recharge") + New("refund") + New("reward") + New("correction")
             - New("claim") - New("reversal") - New("withdrawal") - New("recorrection")
    BY SumIs
  <2> HIDE DEF Old, New
  <2>4. \A w \in {"recharge", "withdrawal", "claim", "refund", "reward", "reversal", "correction", "recorrection"} :
          n.what = w => Sum(B \cup {n}, k, p) = Sum(B, k, p) + Delta(n)
    BY <1>3, <2>1, <2>2, <2>3
  <2>5. QED
    BY <1>2, <2>4
<1>5. Delta(n) \in Int
  BY <1>3
<1>6. QED
  BY <1>4, <1>5 DEF k, p

\* Only the entries of the account count.
LEMMA SumOfOwn ==
  ASSUME NEW B, NEW C, NEW k, NEW p,
         {e \in B : e.of = k /\ e.kind = p} = {e \in C : e.of = k /\ e.kind = p}
  PROVE  Sum(B, k, p) = Sum(C, k, p)
<1>1. ASSUME NEW w PROVE CountOf(B, k, p, w) = CountOf(C, k, p, w)
  <2>1. {e \in B : e.of = k /\ e.kind = p /\ e.what = w} = {e \in C : e.of = k /\ e.kind = p /\ e.what = w}
    OBVIOUS
  <2>2. QED
    BY <2>1 DEF CountOf
<1>2. QED
  BY <1>1, SumIs

\* Entries that are new, and of different accounts, keep the balances true.
LEMMA BookedAddsUp ==
  ASSUME PurgeTyped, NEW E \in SUBSET Entry, IsFiniteSet(E), E \cap books = {},
         \A e, f \in E : e.of = f.of /\ e.kind = f.kind => e = f,
         Booked(E)
  PROVE  /\ books' = books \cup E /\ books' \in SUBSET Entry /\ IsFiniteSet(books')
         /\ funds' \in [Parties -> [PointKinds -> Int]]
         /\ \A k \in Parties, p \in PointKinds :
              funds[k][p] = Sum(books, k, p) => funds'[k][p] = Sum(books', k, p)
<1>1. books' = books \cup E /\ books \in SUBSET Entry /\ IsFiniteSet(books)
  BY DEF Booked, PurgeTyped
<1>2. IsFiniteSet(books')
  BY <1>1, FS_Union
<1>3. ASSUME NEW k \in Parties, NEW p \in PointKinds
      PROVE  /\ funds'[k][p] \in Int
             /\ funds[k][p] = Sum(books, k, p) => funds'[k][p] = Sum(books', k, p)
  <2> DEFINE new == {e \in E : e.of = k /\ e.kind = p}
  <2>1. funds'[k][p] = funds[k][p] + (IF new = {} THEN 0 ELSE Delta(CHOOSE e \in new : TRUE)) /\ funds[k][p] \in Int
    BY DEF Booked, PurgeTyped
  <2>2. CASE new = {}
    <3>1. Sum(books', k, p) = Sum(books, k, p)
      BY <1>1, <2>2, SumOfOwn
    <3>2. QED
      BY <2>1, <2>2, <3>1
  <2>3. CASE new # {}
    <3>1. PICK n \in new : n = CHOOSE e \in new : TRUE
      BY <2>3
    <3>2. new = {n} /\ n \in Entry /\ n \notin books /\ n.of = k /\ n.kind = p
      BY <3>1
    <3>3. {e \in books' : e.of = k /\ e.kind = p} = {e \in books \cup {n} : e.of = k /\ e.kind = p}
      BY <1>1, <3>2
    <3>4. Sum(books', k, p) = Sum(books \cup {n}, k, p)
      BY <3>3, SumOfOwn
    <3>5. Sum(books \cup {n}, k, p) = Sum(books, k, p) + Delta(n) /\ Delta(n) \in Int
      BY <1>1, <3>2, SumAdd
    <3>6. QED
      BY <2>1, <2>3, <3>1, <3>4, <3>5
  <2>4. QED
    BY <2>2, <2>3
<1>4. funds' \in [Parties -> [PointKinds -> Int]]
  <2>1. funds' = [k \in Parties |-> funds'[k]] /\ \A k \in Parties : funds'[k] = [p \in PointKinds |-> funds'[k][p]]
    BY DEF Booked
  <2>2. \A k \in Parties : funds'[k] \in [PointKinds -> Int]
    BY <1>3, <2>1
  <2>3. QED
    BY <2>1, <2>2
<1>5. QED
  BY <1>1, <1>2, <1>3, <1>4

-----------------------------------------------------------------------------
\* The first state.

LEMMA NoneAddUp == \A k, p : Sum({}, k, p) = 0
<1>1. \A k, p, w : CountOf({}, k, p, w) = 0
  <2>1. TAKE k, p, w
  <2>2. {e \in {} : e.of = k /\ e.kind = p /\ e.what = w} = {}
    OBVIOUS
  <2>3. QED
    BY <2>2, FS_EmptySet DEF CountOf
<1>2. TAKE k, p
<1>3. QED
  BY <1>1, SumIs

LEMMA PurgeStarts == PurgeInit => PurgeInv
<1> SUFFICES ASSUME PurgeInit PROVE PurgeInv
  OBVIOUS
<1> DEFINE t == Ledger("recharge", "none", "t", "CUSTOMER")
           x == Ledger("recharge", "none", "x", "CUSTOMER")
<1>1. books = ({} \cup {t}) \cup {x} /\ t \in Entry /\ x \in Entry /\ t # x
  <2>1. t \in Entry /\ x \in Entry
    BY LedgerEntries DEF Parties, PointKinds
  <2>2. ASSUME NEW e \in books PROVE e \in {t, x}
    <3>1. e.what = "recharge" /\ e.deal = "none" /\ e.of \in {"t", "x"} /\ e.kind = "CUSTOMER" /\ e \in Entry
      BY DEF PurgeInit, Entry, Parties, PointKinds
    <3>2. e = Ledger(e.what, e.deal, e.of, e.kind)
      BY <3>1, EntryParts
    <3>3. QED
      BY <3>1, <3>2
  <2>3. t \in books /\ x \in books
    BY DEF PurgeInit, Parties, Ledger
  <2>4. books = {t, x}
    BY <2>2, <2>3
  <2>5. QED
    BY <2>4, <2>1, LedgerParts
<1>2. /\ t.of = "t" /\ t.kind = "CUSTOMER" /\ t.what = "recharge"
      /\ x.of = "x" /\ x.kind = "CUSTOMER" /\ x.what = "recharge"
      /\ t.deal = "none" /\ x.deal = "none"
  BY LedgerParts
<1> HIDE DEF t, x
<1>3. IsFiniteSet({}) /\ IsFiniteSet({} \cup {t}) /\ IsFiniteSet(books)
  BY <1>1, FS_EmptySet, FS_AddElement
<1>4. \A k \in Parties, p \in PointKinds : funds[k][p] = Sum(books, k, p)
  <2>1. ASSUME NEW k \in Parties, NEW p \in PointKinds, p # "CUSTOMER" PROVE Sum(books, k, p) = 0
    <3>1. {e \in books : e.of = k /\ e.kind = p} = {e \in {} : e.of = k /\ e.kind = p}
      BY <1>1, <1>2, <2>1
    <3>2. QED
      BY <3>1, SumOfOwn, NoneAddUp
  <2>2. Sum({} \cup {t}, "t", "CUSTOMER") = Sum({}, "t", "CUSTOMER") + Delta(t)
    <3>1. Sum({} \cup {t}, t.of, t.kind) = Sum({}, t.of, t.kind) + Delta(t)
      BY <1>1, <1>3, SumAdd
    <3>2. QED
      BY <1>2, <3>1
  <2>3. Sum({} \cup {x}, "x", "CUSTOMER") = Sum({}, "x", "CUSTOMER") + Delta(x)
    <3>1. Sum({} \cup {x}, x.of, x.kind) = Sum({}, x.of, x.kind) + Delta(x)
      BY <1>1, <1>3, SumAdd
    <3>2. QED
      BY <1>2, <3>1
  <2>4. Sum(books, "t", "CUSTOMER") = Sum({} \cup {t}, "t", "CUSTOMER")
    <3>1. {e \in books : e.of = "t" /\ e.kind = "CUSTOMER"} = {e \in {} \cup {t} : e.of = "t" /\ e.kind = "CUSTOMER"}
      BY <1>1, <1>2
    <3>2. QED
      BY <3>1, SumOfOwn
  <2>5. Sum(books, "x", "CUSTOMER") = Sum({} \cup {x}, "x", "CUSTOMER")
    <3>1. {e \in books : e.of = "x" /\ e.kind = "CUSTOMER"} = {e \in {} \cup {x} : e.of = "x" /\ e.kind = "CUSTOMER"}
      BY <1>1, <1>2
    <3>2. QED
      BY <3>1, SumOfOwn
  <2>6. Delta(t) = 2 /\ Delta(x) = 2
    BY <1>2 DEF Delta
  <2>7. \A k \in Parties : Sum(books, k, "CUSTOMER") = 2
    BY <2>2, <2>3, <2>4, <2>5, <2>6, NoneAddUp DEF Parties
  <2>8. \A k \in Parties : funds[k].CUSTOMER = 2 /\ funds[k].SUPPLY = 0
    BY DEF PurgeInit
  <2>9. QED
    BY <2>1, <2>7, <2>8 DEF PointKinds
<1>5. InStock = {} /\ Done = {} /\ OwnDeals = {} /\ \A l \in Stock : stock[l] = NoGoods
  BY DEF PurgeInit, InStock, Done, OwnDeals, NoDeal
<1>6. PurgeTyped
  <2>1. books \in SUBSET Entry /\ IsFiniteSet(books)
    BY <1>1, <1>3
  <2>2. funds \in [Parties -> [PointKinds -> Int]]
    BY DEF PurgeInit, PointKinds
  <2>3. purge \in [phase : {"none", "locking", "locked", "read"}, found : Found, locked : Found,
                   rounds : 0..MaxRounds, entries : SUBSET Entry]
    BY DEF PurgeInit, NoPurge, Nothing, Found
  <2>4. QED
    BY <2>1, <2>2, <2>3 DEF PurgeInit, PurgeTyped, Deal
<1>7. \A e \in books : EntryIsSound(e)
  BY <1>1, <1>2 DEF EntryIsSound
<1>8. ClerkIsSound /\ LocksAreSound
  BY <1>5 DEF PurgeInit, ClerkIsSound, LocksAreSound, NoPurge, Nothing
<1>9. BooksAreSound
  BY <1>4, <1>5, <1>7 DEF BooksAreSound, AccountsAreSound
<1>10. QED
  BY <1>5, <1>6, <1>8, <1>9 DEF PurgeInv

-----------------------------------------------------------------------------
\* Steps that delete nothing.

RowsStay ==
  /\ InStock \subseteq InStock' /\ Done \subseteq Done'
  /\ \A l \in InStock : stock'[l].by = stock[l].by
  /\ \A a \in Done : deal'[a].lead = deal[a].lead /\ deal'[a].to = deal[a].to

LEMMA SuppliersStay ==
  ASSUME PurgeInv, RowsStay, NEW a \in Done
  PROVE  SupplierOf(a)' = SupplierOf(a)
BY DEF PurgeInv, RowsStay, DealIsSound, SupplierOf

\* Nothing new belongs to the company, so the locks stay complete.
LEMMA LocksStay ==
  ASSUME PurgeInv, RowsStay, UNCHANGED purge, clerk' \in {clerk, NoClerk},
         purge # NoPurge => /\ \A l \in InStock' \ InStock : stock'[l].by # "t"
                            /\ \A a \in Done' \ Done : /\ deal'[a].to # "t"
                                                       /\ stock'[deal'[a].lead].by # "t"
  PROVE  LocksAreSound'
<1>1. ASSUME purge # NoPurge PROVE OwnDeals' \subseteq OwnDeals
  <2>1. ASSUME NEW a \in OwnDeals' PROVE a \in OwnDeals
    <3>1. a \in Done' /\ (deal'[a].to = "t" \/ deal'[a].lead \in OwnGoods')
      BY <2>1 DEF OwnDeals
    <3>2. deal'[a].lead \in OwnGoods' => stock'[deal'[a].lead].by = "t"
      BY DEF OwnGoods
    <3>3. a \in Done
      BY <1>1, <3>1, <3>2
    <3>4. deal'[a].to = deal[a].to /\ deal'[a].lead = deal[a].lead /\ deal[a].lead \in InStock
      BY <3>3 DEF RowsStay, PurgeInv, DealIsSound
    <3>5. stock'[deal[a].lead].by = stock[deal[a].lead].by
      BY <3>4 DEF RowsStay
    <3>6. QED
      BY <3>1, <3>2, <3>3, <3>4, <3>5 DEF OwnDeals, OwnGoods
  <2>2. QED
    BY <2>1
<1>2. purge.phase \in {"locked", "read"} => purge # NoPurge
  BY DEF NoPurge
<1>3. QED
  BY <1>1, <1>2 DEF PurgeInv, LocksAreSound

\* The deals go on without an entry.
LEMMA BooksStay ==
  ASSUME PurgeInv, RowsStay, UNCHANGED <<party, books, funds, cashed>>,
         \A a \in Done : /\ \A s \in {"CLAIMED", "RETURNED"} : deal'[a].status = s <=> deal[a].status = s
                         /\ \A r \in {"paid", "reversed"} : deal'[a].reward = r <=> deal[a].reward = r,
         \A a \in Done' \ Done : /\ deal'[a].status \notin {"CLAIMED", "RETURNED"}
                                 /\ deal'[a].reward \notin {"paid", "reversed"}
  PROVE  BooksAreSound'
<1>1. ASSUME NEW e \in books PROVE EntryIsSound(e)'
  <2>1. EntryIsSound(e) /\ e \in Entry
    BY DEF PurgeInv, BooksAreSound, PurgeTyped
  <2>2. e.what \in {"claim", "refund", "reward", "reversal"} => e.deal \in Done
    BY <2>1, EntryParts, PurgeAssumption DEF EntryIsSound
  <2>3. QED
    BY <2>1, <2>2 DEF EntryIsSound, RowsStay
<1>2. ASSUME NEW a \in Done' PROVE DealIsBooked(a)'
  <2>1. CASE a \in Done
    <3>1. DealIsBooked(a)
      BY <2>1 DEF PurgeInv, BooksAreSound
    <3>2. SupplierOf(a)' = SupplierOf(a) /\ deal'[a].to = deal[a].to
      BY <2>1, SuppliersStay DEF RowsStay
    <3>3. QED
      BY <2>1, <3>1, <3>2 DEF DealIsBooked
  <2>2. CASE a \notin Done
    BY <2>2 DEF DealIsBooked
  <2>3. QED
    BY <2>1, <2>2
<1>3. AccountsAreSound'
  BY DEF PurgeInv, BooksAreSound, AccountsAreSound
<1>4. QED
  BY <1>1, <1>2, <1>3 DEF BooksAreSound

\* A lead is entered or changed.
LEMMA StockChange ==
  ASSUME PurgeTyped, NEW l \in Stock, NEW g \in Goods, stock' = [stock EXCEPT ![l] = g]
  PROVE  /\ stock' \in [Stock -> Goods \cup {NoGoods}]
         /\ InStock' = InStock \cup {l} /\ stock'[l] = g
         /\ \A k \in Stock \ {l} : stock'[k] = stock[k]
BY GoodsAreSome DEF PurgeTyped, InStock

\* A deal is made or changed.
LEMMA DealChange ==
  ASSUME PurgeTyped, NEW a \in Deals, NEW d \in Deal, d.status # "NONE", deal' = [deal EXCEPT ![a] = d]
  PROVE  /\ deal' \in [Deals -> Deal]
         /\ Done' = Done \cup {a} /\ deal'[a] = d
         /\ \A b \in Deals \ {a} : deal'[b] = deal[b]
BY DEF PurgeTyped, Done

LEMMA EnterKeeps ==
  ASSUME PurgeInv, NEW l \in Stock, NEW by \in {"platform"} \cup Parties, Enter(l, by)
  PROVE  PurgeInv'
<1> DEFINE g == [by |-> by, ok |-> by = "platform", gone |-> FALSE, on |-> "none",
                 status |-> IF InStock # {} THEN "DUPLICATE"
                            ELSE IF by = "platform" THEN "READY_DISPATCH" ELSE "PENDING_REVIEW"]
<1>0. PurgeTyped
  BY DEF PurgeInv
<1>1. /\ stock[l] = NoGoods /\ stock' = [stock EXCEPT ![l] = g]
      /\ by = "t" => purge = NoPurge
      /\ UNCHANGED <<party, deal, books, funds, cashed, clerk, purge>>
  BY DEF Enter, CompanyFree
<1>2. g \in Goods
  BY DEF Goods
<1>3. g.by = by /\ g.on = "none" /\ g.status # "OUT" /\ (g.status = "DUPLICATE" => InStock # {})
  OBVIOUS
<1>4. PICK m \in IF InStock = {} THEN {{}} ELSE {{k} : k \in InStock} : match' = [match EXCEPT ![l] = m]
  BY DEF Enter
<1> HIDE DEF g
<1>5. /\ stock' \in [Stock -> Goods \cup {NoGoods}]
      /\ InStock' = InStock \cup {l} /\ stock'[l] = g
      /\ \A k \in Stock \ {l} : stock'[k] = stock[k]
  BY <1>0, <1>1, <1>2, StockChange
<1>6. l \notin InStock /\ InStock \subseteq Stock /\ Done' = Done
  BY <1>1 DEF InStock, Done
<1>7. m \subseteq InStock /\ (InStock # {} => m # {})
  BY <1>4
<1>8. PurgeTyped'
  <2>1. match' \in [Stock -> SUBSET Stock]
    BY <1>0, <1>4, <1>6, <1>7 DEF PurgeTyped
  <2>2. QED
    BY <1>0, <1>1, <1>5, <2>1 DEF PurgeTyped
<1>9. RowsStay
  BY <1>1, <1>5, <1>6 DEF RowsStay
<1>10. ASSUME NEW a \in Done PROVE DealIsSound(a)'
  BY <1>1, <1>5, <1>9, <1>10, SuppliersStay DEF PurgeInv, DealIsSound
<1>11. ClerkIsSound'
  BY <1>1, <1>6 DEF PurgeInv, ClerkIsSound
<1>12. LocksAreSound'
  BY <1>1, <1>3, <1>5, <1>6, <1>9, LocksStay
<1>13. BooksAreSound'
  BY <1>1, <1>6, <1>9, BooksStay
<1>14. ASSUME NEW k \in InStock' PROVE LeadIsUsable(k)'
  <2>1. CASE k # l
    <3>1. LeadIsUsable(k) /\ stock'[k] = stock[k] /\ match'[k] = match[k]
      BY <1>0, <1>4, <1>5, <1>6, <2>1 DEF PurgeInv, PurgeTyped
    <3>2. QED
      BY <1>1, <1>5, <1>6, <3>1 DEF LeadIsUsable
  <2>2. CASE k = l
    <3>1. match'[l] = m
      BY <1>0, <1>4 DEF PurgeTyped
    <3>2. QED
      BY <1>3, <1>5, <1>6, <1>7, <2>2, <3>1 DEF LeadIsUsable
  <2>3. QED
    BY <2>1, <2>2
<1>15. QED
  BY <1>6, <1>8, <1>10, <1>11, <1>12, <1>13, <1>14 DEF PurgeInv

LEMMA SendOnKeeps ==
  ASSUME PurgeInv, NEW l \in Stock, SendOn(l)
  PROVE  PurgeInv'
<1>0. PurgeTyped /\ l \in InStock /\ LeadIsUsable(l) /\ ~stock[l].gone
  BY DEF PurgeInv, SendOn
<1>1. PICK g \in Goods : /\ stock' = [stock EXCEPT ![l] = g] /\ g.by = stock[l].by
                         /\ g.on = stock[l].on /\ g.status = "READY_DISPATCH"
  <2>1. stock[l] \in Goods
    BY <1>0, GoodsParts
  <2>2. PICK g : g = [[stock[l] EXCEPT !.ok = TRUE] EXCEPT !.status = "READY_DISPATCH"]
    OBVIOUS
  <2>3. g \in Goods /\ g.by = stock[l].by /\ g.on = stock[l].on /\ g.status = "READY_DISPATCH"
    BY <2>1, <2>2 DEF Goods
  <2>4. stock' = [stock EXCEPT ![l] = g]
    BY <1>0, <2>2 DEF SendOn, PurgeTyped
  <2>5. QED
    BY <2>3, <2>4
<1>2. UNCHANGED <<party, match, deal, books, funds, cashed, clerk, purge>>
  BY DEF SendOn
<1>3. stock[l].status \in {"PENDING_REVIEW", "DUPLICATE"}
  BY DEF SendOn
<1>4. g.on = "none"
  BY <1>0, <1>1, <1>3 DEF LeadIsUsable
<1>5. /\ stock' \in [Stock -> Goods \cup {NoGoods}]
      /\ InStock' = InStock /\ stock'[l] = g
      /\ \A k \in Stock \ {l} : stock'[k] = stock[k]
  <2>1. /\ stock' \in [Stock -> Goods \cup {NoGoods}]
        /\ InStock' = InStock \cup {l} /\ stock'[l] = g
        /\ \A k \in Stock \ {l} : stock'[k] = stock[k]
    BY <1>0, <1>1, StockChange
  <2>2. InStock \cup {l} = InStock
    BY <1>0
  <2>3. QED
    BY <2>1, <2>2
<1>6. InStock \subseteq Stock /\ Done' = Done
  BY <1>2 DEF InStock, Done
<1>8. PurgeTyped'
  BY <1>0, <1>2, <1>5 DEF PurgeTyped
<1>9. RowsStay
  BY <1>1, <1>2, <1>5, <1>6 DEF RowsStay
<1>10. ASSUME NEW a \in Done PROVE DealIsSound(a)'
  BY <1>2, <1>5, <1>9, <1>10, SuppliersStay DEF PurgeInv, DealIsSound
<1>11. ClerkIsSound'
  BY <1>2, <1>6 DEF PurgeInv, ClerkIsSound
<1>12. LocksAreSound'
  BY <1>2, <1>5, <1>6, <1>9, LocksStay
<1>13. BooksAreSound'
  BY <1>2, <1>6, <1>9, BooksStay
<1>14. ASSUME NEW k \in InStock' PROVE LeadIsUsable(k)'
  <2>1. CASE k # l
    <3>1. LeadIsUsable(k) /\ stock'[k] = stock[k]
      BY <1>5, <1>6, <2>1 DEF PurgeInv
    <3>2. QED
      BY <1>2, <1>5, <1>6, <3>1 DEF LeadIsUsable
  <2>2. CASE k = l
    BY <1>1, <1>4, <1>5, <2>2 DEF LeadIsUsable
  <2>3. QED
    BY <2>1, <2>2
<1>15. QED
  BY <1>6, <1>8, <1>10, <1>11, <1>12, <1>13, <1>14 DEF PurgeInv

\* What the deletion of a lead does to its deal.
LEMMA DealWithdrawn ==
  ASSUME PurgeInv, NEW a \in Done,
         deal' = [deal EXCEPT ![a].status = IF @ = "PENDING" THEN "OVER" ELSE @,
                              ![a].reward = IF @ = "due" THEN "cancelled" ELSE @]
  PROVE  \E d \in Deal :
           /\ deal' = [deal EXCEPT ![a] = d]
           /\ d.lead = deal[a].lead /\ d.to = deal[a].to
           /\ d.status = IF deal[a].status = "PENDING" THEN "OVER" ELSE deal[a].status
           /\ d.reward = IF deal[a].reward = "due" THEN "cancelled" ELSE deal[a].reward
<1> DEFINE e == deal[a]
           s == IF e.status = "PENDING" THEN "OVER" ELSE e.status
           r == IF e.reward = "due" THEN "cancelled" ELSE e.reward
           Rows == [status : {"PENDING", "CLAIMED", "RETURNED", "OVER"}, lead : Stock,
                    to : Parties, reward : {"none", "due", "paid", "reversed", "cancelled"}]
<1>1. e \in Rows /\ a \in Deals /\ deal \in [Deals -> Deal]
  BY DealParts DEF PurgeInv, PurgeTyped, Done
<1>2. PICK d : d = [[e EXCEPT !.status = s] EXCEPT !.reward = r]
  OBVIOUS
<1>3. d \in Rows /\ d.lead = e.lead /\ d.to = e.to /\ d.status = s /\ d.reward = r
  BY <1>1, <1>2
<1>4. deal' = [deal EXCEPT ![a] = d]
  BY <1>1, <1>2
<1>5. QED
  BY <1>3, <1>4 DEF Deal

LEMMA DeleteGoodsKeeps ==
  ASSUME PurgeInv, NEW l \in Stock, DeleteGoods(l)
  PROVE  PurgeInv'
<1> DEFINE a == stock[l].on
<1>0. PurgeTyped /\ l \in InStock /\ LeadIsUsable(l) /\ ~stock[l].gone
  BY DEF PurgeInv, DeleteGoods
<1>1. PICK g \in Goods : stock' = [stock EXCEPT ![l] = g] /\ g.by = stock[l].by /\ g.gone
  <2>1. stock[l] \in Goods
    BY <1>0, GoodsParts
  <2>2. PICK g : g = [[stock[l] EXCEPT !.gone = TRUE] EXCEPT !.on = "none"]
    OBVIOUS
  <2>3. g \in Goods /\ g.by = stock[l].by /\ g.gone
    BY <2>1, <2>2 DEF Goods
  <2>4. stock' = [stock EXCEPT ![l] = g]
    BY <1>0, <2>2 DEF DeleteGoods, PurgeTyped
  <2>5. QED
    BY <2>3, <2>4
<1>2. /\ a # "none" => a \in Done /\ (clerk # NoClerk => clerk.deal # a)
      /\ UNCHANGED <<party, match, books, funds, cashed, clerk, purge>>
  BY <1>0 DEF DeleteGoods, Open, LeadIsUsable
<1>3. /\ deal' \in [Deals -> Deal] /\ Done' = Done
      /\ \A b \in Done : /\ deal'[b].lead = deal[b].lead /\ deal'[b].to = deal[b].to
                         /\ \/ deal'[b] = deal[b]
                            \/ /\ b = a /\ a # "none"
                               /\ deal'[b].status = IF deal[b].status = "PENDING" THEN "OVER" ELSE deal[b].status
                               /\ deal'[b].reward = IF deal[b].reward = "due" THEN "cancelled" ELSE deal[b].reward
  <2>1. CASE a = "none"
    BY <1>0, <2>1 DEF DeleteGoods, PurgeTyped, Done
  <2>2. CASE a # "none"
    <3>1. deal' = [deal EXCEPT ![a].status = IF @ = "PENDING" THEN "OVER" ELSE @,
                               ![a].reward = IF @ = "due" THEN "cancelled" ELSE @]
      BY <2>2 DEF DeleteGoods
    <3>2. PICK d \in Deal :
           /\ deal' = [deal EXCEPT ![a] = d]
           /\ d.lead = deal[a].lead /\ d.to = deal[a].to
           /\ d.status = IF deal[a].status = "PENDING" THEN "OVER" ELSE deal[a].status
           /\ d.reward = IF deal[a].reward = "due" THEN "cancelled" ELSE deal[a].reward
      BY <1>2, <2>2, <3>1, DealWithdrawn
    <3>3. d.status # "NONE" /\ a \in Deals
      BY <1>2, <2>2, <3>2 DEF Done
    <3>4. deal' \in [Deals -> Deal] /\ Done' = Done \cup {a} /\ deal'[a] = d
          /\ \A b \in Deals \ {a} : deal'[b] = deal[b]
      BY <1>0, <3>2, <3>3, DealChange
    <3>5. Done \subseteq Deals
      BY DEF Done
    <3>6. QED
      BY <1>2, <2>2, <3>2, <3>4, <3>5
  <2>3. QED
    BY <2>1, <2>2
<1> HIDE DEF a
<1>5. /\ stock' \in [Stock -> Goods \cup {NoGoods}]
      /\ InStock' = InStock /\ stock'[l] = g
      /\ \A k \in Stock \ {l} : stock'[k] = stock[k]
  <2>1. /\ stock' \in [Stock -> Goods \cup {NoGoods}]
        /\ InStock' = InStock \cup {l} /\ stock'[l] = g
        /\ \A k \in Stock \ {l} : stock'[k] = stock[k]
    BY <1>0, <1>1, StockChange
  <2>2. InStock \cup {l} = InStock
    BY <1>0
  <2>3. QED
    BY <2>1, <2>2
<1>6. InStock \subseteq Stock
  BY DEF InStock
<1>8. PurgeTyped'
  BY <1>0, <1>2, <1>3, <1>5 DEF PurgeTyped
<1>9. RowsStay
  BY <1>1, <1>3, <1>5, <1>6 DEF RowsStay
<1>10. ASSUME NEW b \in Done PROVE DealIsSound(b)'
  <2>1. DealIsSound(b) /\ SupplierOf(b)' = SupplierOf(b)
    BY <1>9, SuppliersStay DEF PurgeInv
  <2>2. QED
    BY <1>3, <1>5, <2>1 DEF DealIsSound
<1>11. ClerkIsSound'
  BY <1>2, <1>3 DEF PurgeInv, ClerkIsSound
<1>12. LocksAreSound'
  BY <1>2, <1>3, <1>5, <1>9, LocksStay
<1>13. BooksAreSound'
  BY <1>2, <1>3, <1>9, BooksStay
<1>14. ASSUME NEW k \in InStock' PROVE LeadIsUsable(k)'
  <2>1. CASE k # l
    <3>1. LeadIsUsable(k) /\ stock'[k] = stock[k]
      BY <1>5, <1>6, <2>1 DEF PurgeInv
    <3>2. QED
      BY <1>2, <1>3, <1>5, <1>6, <3>1 DEF LeadIsUsable
  <2>2. CASE k = l
    BY <1>1, <1>5, <2>2 DEF LeadIsUsable
  <2>3. QED
    BY <2>1, <2>2
<1>15. QED
  BY <1>3, <1>8, <1>10, <1>11, <1>12, <1>13, <1>14 DEF PurgeInv

LEMMA DispatchKeeps ==
  ASSUME PurgeInv, NEW l \in Stock, NEW a \in Deals, NEW k \in Parties, Dispatch(a, l, k)
  PROVE  PurgeInv'
<1> DEFINE d == [status |-> "PENDING", lead |-> l, to |-> k, reward |-> "none"]
<1>0. PurgeTyped /\ l \in InStock /\ LeadIsUsable(l) /\ ~stock[l].gone
  BY DEF PurgeInv, Dispatch
<1>1. PICK g \in Goods : /\ stock' = [stock EXCEPT ![l] = g] /\ g.by = stock[l].by
                         /\ g.on = a /\ g.status = "OUT"
  <2>1. stock[l] \in Goods
    BY <1>0, GoodsParts
  <2>2. PICK g : g = [[stock[l] EXCEPT !.status = "OUT"] EXCEPT !.on = a]
    OBVIOUS
  <2>3. g \in Goods /\ g.by = stock[l].by /\ g.on = a /\ g.status = "OUT"
    BY <2>1, <2>2 DEF Goods
  <2>4. stock' = [stock EXCEPT ![l] = g]
    BY <1>0, <2>2 DEF Dispatch, PurgeTyped
  <2>5. QED
    BY <2>3, <2>4
<1>2. /\ deal[a] = NoDeal /\ deal' = [deal EXCEPT ![a] = d]
      /\ k = "t" \/ stock[l].by = "t" => purge = NoPurge
      /\ UNCHANGED <<party, match, books, funds, cashed, clerk, purge>>
  BY DEF Dispatch, CompanyFree
<1>3. d \in Deal
  BY DEF Deal
<1>4. d.status = "PENDING" /\ d.lead = l /\ d.to = k /\ d.reward = "none"
  OBVIOUS
<1> HIDE DEF d
<1>5. /\ stock' \in [Stock -> Goods \cup {NoGoods}]
      /\ InStock' = InStock /\ stock'[l] = g
      /\ \A h \in Stock \ {l} : stock'[h] = stock[h]
  <2>1. /\ stock' \in [Stock -> Goods \cup {NoGoods}]
        /\ InStock' = InStock \cup {l} /\ stock'[l] = g
        /\ \A h \in Stock \ {l} : stock'[h] = stock[h]
    BY <1>0, <1>1, StockChange
  <2>2. InStock \cup {l} = InStock
    BY <1>0
  <2>3. QED
    BY <2>1, <2>2
<1>6. /\ deal' \in [Deals -> Deal]
      /\ Done' = Done \cup {a} /\ deal'[a] = d
      /\ \A b \in Deals \ {a} : deal'[b] = deal[b]
  BY <1>0, <1>2, <1>3, <1>4, DealChange
<1>7. InStock \subseteq Stock /\ Done \subseteq Deals /\ a \notin Done
  BY <1>2 DEF InStock, Done, NoDeal
<1>8. PurgeTyped'
  BY <1>0, <1>2, <1>5, <1>6 DEF PurgeTyped
<1>9. RowsStay
  BY <1>1, <1>5, <1>6, <1>7 DEF RowsStay
<1>10. ASSUME NEW b \in Done' PROVE DealIsSound(b)'
  <2>1. CASE b \in Done
    BY <1>5, <1>6, <1>7, <1>9, <2>1, SuppliersStay DEF PurgeInv, DealIsSound
  <2>2. CASE b = a
    BY <1>0, <1>4, <1>5, <1>6, <2>2 DEF DealIsSound
  <2>3. QED
    BY <1>6, <2>1, <2>2
<1>11. ClerkIsSound'
  BY <1>2, <1>6, <1>7 DEF PurgeInv, ClerkIsSound
<1>12. LocksAreSound'
  BY <1>1, <1>2, <1>4, <1>5, <1>6, <1>9, LocksStay
<1>13. BooksAreSound'
  BY <1>2, <1>4, <1>6, <1>7, <1>9, BooksStay
<1>14. ASSUME NEW h \in InStock' PROVE LeadIsUsable(h)'
  <2>1. CASE h # l
    <3>1. LeadIsUsable(h) /\ stock'[h] = stock[h]
      BY <1>5, <1>7, <2>1 DEF PurgeInv
    <3>2. QED
      BY <1>2, <1>5, <1>6, <1>7, <3>1 DEF LeadIsUsable
  <2>2. CASE h = l
    <3>1. a # "none"
      BY PurgeAssumption
    <3>2. QED
      BY <1>1, <1>4, <1>5, <1>6, <2>2, <3>1 DEF LeadIsUsable
  <2>3. QED
    BY <2>1, <2>2
<1>15. QED
  BY <1>8, <1>10, <1>11, <1>12, <1>13, <1>14 DEF PurgeInv

-----------------------------------------------------------------------------
\* Steps that leave the business as it is.

LEMMA SameTrade ==
  ASSUME PurgeInv, UNCHANGED tradeVars, party'.gone = party.gone
  PROVE  /\ Done' = Done /\ InStock' = InStock /\ OwnDeals' = OwnDeals /\ OwnRewards' = OwnRewards
         /\ \A a \in Done' : DealIsSound(a)'
         /\ \A l \in InStock' : LeadIsUsable(l)'
         /\ BooksAreSound'
<1>1. Done' = Done /\ InStock' = InStock
  BY DEF tradeVars, Done, InStock
<1>2. OwnDeals' = OwnDeals /\ OwnRewards' = OwnRewards
  BY DEF tradeVars, OwnDeals, OwnRewards, OwnGoods, Done, InStock
<1>3. \A a \in Done' : DealIsSound(a)' /\ DealIsBooked(a)'
  BY <1>1 DEF tradeVars, PurgeInv, DealIsSound, SupplierOf, BooksAreSound, DealIsBooked
<1>4. \A l \in InStock' : LeadIsUsable(l)'
  BY <1>1 DEF tradeVars, PurgeInv, LeadIsUsable
<1>5. \A e \in books' : EntryIsSound(e)'
  BY <1>1 DEF tradeVars, PurgeInv, BooksAreSound, EntryIsSound
<1>6. AccountsAreSound'
  BY DEF tradeVars, PurgeInv, BooksAreSound, AccountsAreSound
<1>7. QED
  BY <1>1, <1>2, <1>3, <1>4, <1>5, <1>6 DEF BooksAreSound

LEMMA TakeKeeps ==
  ASSUME PurgeInv, NEW a \in Deals, NEW kind \in {"claim", "settle", "return"}, Take(kind, a)
  PROVE  PurgeInv'
<1>1. /\ clerk' = [kind |-> kind, deal |-> a] /\ a \in Done /\ a \notin purge.locked.deals
      /\ May(kind, a) /\ UNCHANGED <<party, tradeVars, purge>>
  BY DEF Take, Open
<1>2. clerk'.kind = kind /\ clerk'.deal = a
  BY <1>1
<1>3. /\ Done' = Done /\ InStock' = InStock /\ OwnDeals' = OwnDeals
      /\ \A b \in Done' : DealIsSound(b)'
      /\ \A l \in InStock' : LeadIsUsable(l)'
      /\ BooksAreSound'
  BY <1>1, SameTrade
<1>4. PurgeTyped'
  BY <1>1 DEF PurgeInv, PurgeTyped, tradeVars
<1>5. ClerkIsSound'
  BY <1>1, <1>2, <1>3 DEF ClerkIsSound, May, tradeVars
<1>6. LocksAreSound'
  BY <1>1, <1>2, <1>3 DEF PurgeInv, LocksAreSound
<1>7. QED
  BY <1>3, <1>4, <1>5, <1>6 DEF PurgeInv

\* The office of the platform looks at the company, or changes its row.
LEMMA LooksKeep ==
  ASSUME PurgeInv, UNCHANGED <<tradeVars, clerk>>, party'.gone = party.gone,
         party' \in [status : {"ACTIVE", "DISABLED"}, test : BOOLEAN, gone : BOOLEAN],
         purge' \in [phase : {"none", "locking", "locked", "read"}, found : Found, locked : Found,
                     rounds : 0..MaxRounds, entries : SUBSET Entry],
         LocksAreSound'
  PROVE  PurgeInv'
<1>1. /\ Done' = Done
      /\ \A b \in Done' : DealIsSound(b)'
      /\ \A l \in InStock' : LeadIsUsable(l)'
      /\ BooksAreSound'
  BY SameTrade
<1>2. PurgeTyped'
  BY DEF PurgeInv, PurgeTyped, tradeVars
<1>3. ClerkIsSound'
  BY <1>1 DEF PurgeInv, ClerkIsSound, tradeVars
<1>4. QED
  BY <1>1, <1>2, <1>3 DEF PurgeInv

LEMMA PartyKeeps ==
  ASSUME PurgeInv,
         (\E s \in {"ACTIVE", "DISABLED"} : SetPartyStatus(s)) \/ Preview \/ MarkCompany
  PROVE  PurgeInv'
<1>1. /\ UNCHANGED <<tradeVars, clerk, purge>> /\ party'.gone = party.gone
      /\ party' \in [status : {"ACTIVE", "DISABLED"}, test : BOOLEAN, gone : BOOLEAN]
  <2>1. party \in [status : {"ACTIVE", "DISABLED"}, test : BOOLEAN, gone : BOOLEAN]
    BY DEF PurgeInv, PurgeTyped
  <2>2. ASSUME NEW s \in {"ACTIVE", "DISABLED"}, SetPartyStatus(s)
        PROVE  /\ UNCHANGED <<tradeVars, clerk, purge>> /\ party'.gone = party.gone
               /\ party' \in [status : {"ACTIVE", "DISABLED"}, test : BOOLEAN, gone : BOOLEAN]
    BY <2>1, <2>2 DEF SetPartyStatus
  <2>3. CASE Preview
    BY <2>1, <2>3 DEF Preview
  <2>4. CASE MarkCompany
    BY <2>1, <2>4 DEF MarkCompany
  <2>5. QED
    BY <2>2, <2>3, <2>4
<1>2. OwnDeals' = OwnDeals
  BY <1>1, SameTrade
<1>3. LocksAreSound'
  BY <1>1, <1>2 DEF PurgeInv, LocksAreSound
<1>4. purge' \in [phase : {"none", "locking", "locked", "read"}, found : Found, locked : Found,
                  rounds : 0..MaxRounds, entries : SUBSET Entry]
  BY <1>1 DEF PurgeInv, PurgeTyped
<1>5. QED
  BY <1>1, <1>3, <1>4, LooksKeep

\* What the purge sees of itself.
PurgeRows == [phase : {"none", "locking", "locked", "read"}, found : Found, locked : Found,
              rounds : 0..MaxRounds, entries : SUBSET Entry]

LEMMA ScopeIsFound ==
  /\ Scope \in Found /\ Scope.deals = OwnDeals /\ Scope.rewards = OwnRewards
  /\ OwnRewards \subseteq OwnDeals
  /\ Nothing \in Found /\ Nothing.deals = {} /\ Nothing.rewards = {}
BY DEF Scope, Found, OwnRewards, OwnDeals, Done, Nothing

LEMMA NoPurgeParts ==
  /\ NoPurge \in PurgeRows /\ NoPurge.phase = "none" /\ NoPurge.found = Nothing
  /\ NoPurge.locked = Nothing /\ NoPurge.rounds = 0 /\ NoPurge.entries = {}
<1>1. 0 \in 0..MaxRounds
  BY PurgeAssumption
<1>2. QED
  BY <1>1, ScopeIsFound DEF NoPurge, PurgeRows

\* A step of the purge that deletes nothing.
LEMMA PurgingKeeps ==
  ASSUME PurgeInv, UNCHANGED <<party, tradeVars, clerk>>, purge' \in PurgeRows,
         clerk # NoClerk => clerk.deal \notin purge'.locked.deals,
         purge' # NoPurge => OwnDeals \subseteq purge'.found.deals,
         purge'.phase \in {"locked", "read"} => OwnDeals \subseteq purge'.locked.deals,
         purge'.found.rewards \subseteq purge'.found.deals,
         purge'.locked.rewards \subseteq purge'.locked.deals
  PROVE  PurgeInv'
<1>1. OwnDeals' = OwnDeals
  BY SameTrade
<1>2. LocksAreSound'
  BY <1>1 DEF LocksAreSound
<1>3. QED
  BY <1>2, LooksKeep DEF PurgeRows, PurgeInv, PurgeTyped

LEMMA PurgeFailsKeeps ==
  ASSUME PurgeInv, PurgeFails
  PROVE  PurgeInv'
BY PurgingKeeps, NoPurgeParts, ScopeIsFound DEF PurgeFails

LEMMA StartPurgeKeeps ==
  ASSUME PurgeInv, StartPurge
  PROVE  PurgeInv'
<1>1. purge' = [[NoPurge EXCEPT !.phase = "locking"] EXCEPT !.found = Scope]
      /\ UNCHANGED <<party, tradeVars, clerk>>
  BY DEF StartPurge
<1>2. PICK q \in PurgeRows : q = NoPurge
  BY NoPurgeParts
<1>3. purge' = [[q EXCEPT !.phase = "locking"] EXCEPT !.found = Scope]
  BY <1>1, <1>2
<1>4. /\ purge' \in PurgeRows /\ purge'.phase = "locking"
      /\ purge'.found = Scope /\ purge'.locked = q.locked
  BY <1>3, ScopeIsFound DEF PurgeRows
<1>5. q.locked = Nothing
  BY <1>2, NoPurgeParts
<1>6. QED
  BY <1>1, <1>4, <1>5, ScopeIsFound, PurgingKeeps

LEMMA LockScopeKeeps ==
  ASSUME PurgeInv, LockScope
  PROVE  PurgeInv'
<1>1. purge \in PurgeRows /\ LocksAreSound
  BY DEF PurgeInv, PurgeTyped, PurgeRows
<1>2. /\ purge.phase = "locking" /\ (clerk # NoClerk => clerk.deal \notin purge.found.deals)
      /\ purge.rounds < MaxRounds /\ UNCHANGED <<party, tradeVars, clerk>>
  BY DEF LockScope, Busy
<1>3. PICK s : s = IF purge.found = purge.locked /\ Scope = purge.found THEN "locked" ELSE purge.phase
  OBVIOUS
<1>4. purge' = [[[[purge EXCEPT !.locked = purge.found] EXCEPT !.found = Scope]
                  EXCEPT !.rounds = @ + 1] EXCEPT !.phase = s]
  BY <1>1, <1>3 DEF LockScope, PurgeRows
<1>5. purge.rounds + 1 \in 0..MaxRounds /\ s \in {"locking", "locked"}
  BY <1>1, <1>2, <1>3, PurgeAssumption DEF PurgeRows
<1>6. /\ purge' \in PurgeRows /\ purge'.phase = s
      /\ purge'.found = Scope /\ purge'.locked = purge.found
  BY <1>1, <1>4, <1>5, ScopeIsFound DEF PurgeRows
<1>7. s = "locked" => purge.found.deals = OwnDeals
  BY <1>2, <1>3, ScopeIsFound
<1>8. purge.found.rewards \subseteq purge.found.deals
  BY <1>1 DEF LocksAreSound
<1>9. QED
  BY <1>2, <1>5, <1>6, <1>7, <1>8, ScopeIsFound, PurgingKeeps

LEMMA LastRoundKeeps ==
  ASSUME PurgeInv, LastRound
  PROVE  PurgeInv'
<1>1. purge \in PurgeRows /\ LocksAreSound /\ UNCHANGED <<party, tradeVars, clerk>>
  BY DEF PurgeInv, PurgeTyped, PurgeRows, LastRound
<1>2. CASE purge' = NoPurge
  BY <1>1, <1>2, PurgingKeeps, NoPurgeParts, ScopeIsFound
<1>3. CASE purge.found.deals \subseteq purge.locked.deals /\ purge' = [purge EXCEPT !.phase = "locked"]
  <2>1. /\ purge' \in PurgeRows /\ purge'.phase = "locked"
        /\ purge'.found = purge.found /\ purge'.locked = purge.locked
    BY <1>1, <1>3 DEF PurgeRows
  <2>2. purge # NoPurge
    BY NoPurgeParts DEF LastRound
  <2>3. OwnDeals \subseteq purge.found.deals
    BY <1>1, <2>2 DEF LocksAreSound
  <2>4. QED
    BY <1>1, <1>3, <2>1, <2>3, PurgingKeeps DEF LocksAreSound
<1>4. QED
  BY <1>2, <1>3 DEF LastRound

LEMMA ReadLedgerKeeps ==
  ASSUME PurgeInv, ReadLedger
  PROVE  PurgeInv'
<1>1. purge \in PurgeRows /\ LocksAreSound /\ UNCHANGED <<party, tradeVars, clerk>>
  BY DEF PurgeInv, PurgeTyped, PurgeRows, ReadLedger
<1>2. OwnEntries \in SUBSET Entry
  BY DEF OwnEntries, Related, DirectEntries, PurgeInv, PurgeTyped
<1>3. purge' = [[purge EXCEPT !.phase = "read"] EXCEPT !.entries = OwnEntries] /\ purge.phase = "locked"
  BY DEF ReadLedger
<1>4. /\ purge' \in PurgeRows /\ purge'.phase = "read"
      /\ purge'.found = purge.found /\ purge'.locked = purge.locked
  BY <1>1, <1>2, <1>3 DEF PurgeRows
<1>5. purge # NoPurge
  BY <1>3, NoPurgeParts
<1>6. QED
  BY <1>1, <1>3, <1>4, <1>5, PurgingKeeps DEF LocksAreSound

-----------------------------------------------------------------------------
\* Steps that post.

\* The rows that a transaction of the other side writes.
LEMMA WrittenDeal ==
  ASSUME PurgeInv, Write
  PROVE  \E d \in Deal :
           /\ deal' = [deal EXCEPT ![clerk.deal] = d]
           /\ d.lead = deal[clerk.deal].lead /\ d.to = deal[clerk.deal].to
           /\ clerk.kind = "claim" => d.status = "CLAIMED" /\ d.reward \in {"none", "due"}
                /\ (d.reward = "due" => SupplierOf(clerk.deal) # "platform")
           /\ clerk.kind = "settle" => d.status = deal[clerk.deal].status /\ d.reward = "paid"
           /\ clerk.kind = "return" => /\ d.status = "RETURNED"
                /\ d.reward = IF deal[clerk.deal].reward = "paid" THEN "reversed"
                              ELSE IF deal[clerk.deal].reward = "due" THEN "cancelled"
                              ELSE deal[clerk.deal].reward
           /\ d.status # "NONE" /\ d.status # "PENDING"
<1> DEFINE a == clerk.deal
           e == deal[a]
           Rows == [status : {"PENDING", "CLAIMED", "RETURNED", "OVER"}, lead : Stock,
                    to : Parties, reward : {"none", "due", "paid", "reversed", "cancelled"}]
<1>1. /\ clerk # NoClerk /\ clerk.kind \in {"claim", "settle", "return"} /\ a \in Done
      /\ clerk.kind = "settle" => e.reward = "due"
      /\ a \in Deals
  BY DEF Write, PurgeInv, PurgeTyped, ClerkIsSound
<1>2. e \in Rows /\ deal \in [Deals -> Deal] /\ (e.status = "PENDING" => e.reward = "none")
  BY <1>1, DealParts DEF PurgeInv, PurgeTyped, DealIsSound
<1>3. PICK s : s = IF clerk.kind = "claim" THEN "CLAIMED"
                   ELSE IF clerk.kind = "return" THEN "RETURNED" ELSE e.status
  OBVIOUS
<1>4. PICK r : r = CASE clerk.kind = "claim" -> IF SupplierOf(a) = "platform" THEN "none" ELSE "due"
                     [] clerk.kind = "settle" -> "paid"
                     [] clerk.kind = "return" -> IF e.reward = "paid" THEN "reversed"
                                                 ELSE IF e.reward = "due" THEN "cancelled" ELSE e.reward
  OBVIOUS
<1>5. PICK d : d = [[e EXCEPT !.status = s] EXCEPT !.reward = r]
  OBVIOUS
<1>6. s \in {"PENDING", "CLAIMED", "RETURNED", "OVER"}
  BY <1>2, <1>3
<1>7. r \in {"none", "due", "paid", "reversed", "cancelled"}
  BY <1>1, <1>2, <1>4
<1>8. d \in Rows /\ d.lead = e.lead /\ d.to = e.to /\ d.status = s /\ d.reward = r
  BY <1>2, <1>5, <1>6, <1>7
<1>9. deal' = [deal EXCEPT ![a] = d]
  BY <1>1, <1>2, <1>3, <1>4, <1>5 DEF Write
<1>10. s # "PENDING"
  BY <1>1, <1>2, <1>3
<1>11. d \in Deal
  BY <1>8 DEF Deal
<1>12. s # "NONE"
  BY <1>6
<1>13. QED
  BY <1>1, <1>3, <1>4, <1>8, <1>9, <1>10, <1>11, <1>12

LEMMA WrittenLead ==
  ASSUME PurgeInv, Write
  PROVE  LET l == deal[clerk.deal].lead IN
         \/ stock' = stock /\ (clerk.kind = "return" => stock[l].on # clerk.deal)
         \/ /\ clerk.kind = "return" /\ stock[l].on = clerk.deal
            /\ \E g \in Goods : /\ stock' = [stock EXCEPT ![l] = g] /\ g.by = stock[l].by
                                /\ g.on = "none" /\ g.status = "READY_DISPATCH" /\ g.gone = stock[l].gone
<1> DEFINE l == deal[clerk.deal].lead
<1>1. clerk # NoClerk /\ clerk.deal \in Done /\ l \in InStock /\ PurgeTyped
  BY DEF Write, PurgeInv, ClerkIsSound, DealIsSound
<1>2. stock[l] \in Goods /\ l \in Stock /\ stock \in [Stock -> Goods \cup {NoGoods}]
  BY <1>1, GoodsParts DEF InStock, PurgeTyped
<1>3. CASE clerk.kind = "return" /\ stock[l].on = clerk.deal
  <2>1. PICK g : g = [[stock[l] EXCEPT !.on = "none"] EXCEPT !.status = "READY_DISPATCH"]
    OBVIOUS
  <2>2. g \in Goods /\ g.by = stock[l].by /\ g.on = "none" /\ g.status = "READY_DISPATCH" /\ g.gone = stock[l].gone
    BY <1>2, <2>1 DEF Goods
  <2>3. stock' = [stock EXCEPT ![l] = g]
    BY <1>2, <1>3, <2>1 DEF Write
  <2>4. QED
    BY <1>3, <2>2, <2>3
<1>4. CASE ~(clerk.kind = "return" /\ stock[l].on = clerk.deal)
  BY <1>4 DEF Write
<1>5. QED
  BY <1>3, <1>4

\* What is posted, and that it was not posted before.
LEMMA WrittenEntries ==
  ASSUME PurgeInv, Write
  PROVE  \E E \in SUBSET Entry :
           /\ IsFiniteSet(E) /\ E \cap books = {} /\ Booked(E)
           /\ \A e, f \in E : e.of = f.of /\ e.kind = f.kind => e = f
           /\ \A e \in E : e.deal = clerk.deal /\
                \/ clerk.kind = "claim" /\ e.what = "claim"
                \/ clerk.kind = "settle" /\ e.what = "reward"
                \/ clerk.kind = "return" /\ e.what = "refund"
                \/ clerk.kind = "return" /\ e.what = "reversal" /\ deal[clerk.deal].reward = "paid"
           /\ clerk.kind = "claim" => Ledger("claim", clerk.deal, deal[clerk.deal].to, "CUSTOMER") \in E
           /\ clerk.kind = "settle" => Ledger("reward", clerk.deal, SupplierOf(clerk.deal), "SUPPLY") \in E
<1> DEFINE a == clerk.deal
           to == deal[a].to
           by == SupplierOf(a)
           Fresh(w) == ~\E e \in books : e.what = w /\ e.deal = a
<1>1. /\ clerk # NoClerk /\ clerk.kind \in {"claim", "settle", "return"} /\ a \in Done /\ a \in Deals
      /\ clerk.kind = "claim" => deal[a].status = "PENDING"
      /\ clerk.kind = "settle" => deal[a].reward = "due"
      /\ clerk.kind = "return" => deal[a].status = "CLAIMED"
      /\ DealIsSound(a) /\ to \in Parties
  BY DealParts DEF Write, PurgeInv, PurgeTyped, ClerkIsSound
<1>2. deal[a].reward # "none" => by \in Parties
  BY <1>1 DEF DealIsSound
<1>3. \A e \in books : EntryIsSound(e)
  BY DEF PurgeInv, BooksAreSound
<1>4. /\ clerk.kind = "claim" => Fresh("claim")
      /\ clerk.kind = "settle" => Fresh("reward")
      /\ clerk.kind = "return" => Fresh("refund") /\ (deal[a].reward = "paid" => Fresh("reversal"))
  BY <1>1, <1>3 DEF EntryIsSound
<1>5. "CUSTOMER" \in PointKinds /\ "SUPPLY" \in PointKinds
  BY DEF PointKinds
<1> HIDE DEF a, to, by
<1>6. CASE clerk.kind = "claim"
  <2> DEFINE e == Ledger("claim", a, to, "CUSTOMER")
  <2>1. Booked({e})
    BY <1>6 DEF Write, a, to
  <2>2. e \in Entry /\ e.what = "claim" /\ e.deal = a
    BY <1>1, <1>5, LedgerEntries, LedgerParts
  <2> HIDE DEF e
  <2>3. {e} \in SUBSET Entry /\ IsFiniteSet({e}) /\ {e} \cap books = {}
    BY <1>4, <1>6, <2>2, FS_Singleton
  <2>4. QED
    BY <1>6, <2>1, <2>2, <2>3 DEF a, to, e
<1>7. CASE clerk.kind = "settle"
  <2> DEFINE e == Ledger("reward", a, by, "SUPPLY")
  <2>1. Booked({e})
    BY <1>7 DEF Write, a, by
  <2>2. e \in Entry /\ e.what = "reward" /\ e.deal = a
    BY <1>1, <1>2, <1>5, <1>7, LedgerEntries, LedgerParts
  <2> HIDE DEF e
  <2>3. {e} \in SUBSET Entry /\ IsFiniteSet({e}) /\ {e} \cap books = {}
    BY <1>4, <1>7, <2>2, FS_Singleton
  <2>4. QED
    BY <1>7, <2>1, <2>2, <2>3 DEF a, by, e
<1>8. CASE clerk.kind = "return"
  <2> DEFINE e == Ledger("refund", a, to, "CUSTOMER")
             f == Ledger("reversal", a, by, "SUPPLY")
             E == {e} \cup (IF deal[a].reward = "paid" THEN {f} ELSE {})
  <2>1. Booked(E)
    BY <1>8 DEF Write, a, by, to
  <2>2. e \in Entry /\ e.what = "refund" /\ e.deal = a /\ e.kind = "CUSTOMER"
    BY <1>1, <1>5, LedgerEntries, LedgerParts
  <2>3. /\ f.what = "reversal" /\ f.deal = a /\ f.kind = "SUPPLY"
        /\ deal[a].reward = "paid" => f \in Entry
    BY <1>1, <1>2, <1>5, LedgerEntries, LedgerParts
  <2> HIDE DEF e, f
  <2>4. E \in SUBSET Entry /\ E \cap books = {}
    BY <1>4, <1>8, <2>2, <2>3
  <2>5. IsFiniteSet(E)
    BY FS_Singleton, FS_EmptySet, FS_Union
  <2>6. \A g, h \in E : g.of = h.of /\ g.kind = h.kind => g = h
    BY <2>2, <2>3
  <2>7. \A g \in E : g.deal = a /\ (g.what = "refund" \/ (g.what = "reversal" /\ deal[a].reward = "paid"))
    BY <2>2, <2>3
  <2> HIDE DEF E
  <2>8. QED
    BY <1>8, <2>1, <2>4, <2>5, <2>6, <2>7 DEF a
<1>9. QED
  BY <1>1, <1>6, <1>7, <1>8

\* What was booked is what the deals said, and stays what they say.
LEMMA PostedBooks ==
  ASSUME PurgeInv, NEW E \in SUBSET Entry, IsFiniteSet(E), E \cap books = {},
         \A e, f \in E : e.of = f.of /\ e.kind = f.kind => e = f,
         Booked(E), UNCHANGED party
  PROVE  /\ books' = books \cup E /\ books' \in SUBSET Entry /\ IsFiniteSet(books')
         /\ funds' \in [Parties -> [PointKinds -> Int]]
         /\ AccountsAreSound'
<1>1. /\ books' = books \cup E /\ books' \in SUBSET Entry /\ IsFiniteSet(books')
      /\ funds' \in [Parties -> [PointKinds -> Int]]
      /\ \A k \in Parties, p \in PointKinds :
           funds[k][p] = Sum(books, k, p) => funds'[k][p] = Sum(books', k, p)
  BY BookedAddsUp DEF PurgeInv
<1>2. AccountsAreSound'
  BY <1>1 DEF PurgeInv, BooksAreSound, AccountsAreSound
<1>3. QED
  BY <1>1, <1>2

LEMMA WriteKeeps ==
  ASSUME PurgeInv, Write
  PROVE  PurgeInv'
<1> DEFINE a == clerk.deal
           l == deal[a].lead
<1>0. /\ PurgeTyped /\ a \in Done /\ a \in Deals /\ DealIsSound(a) /\ l \in InStock /\ l \in Stock
      /\ clerk.kind \in {"claim", "settle", "return"}
      /\ clerk.kind = "claim" => deal[a].status = "PENDING" /\ deal[a].reward = "none"
      /\ clerk.kind = "settle" => deal[a].reward = "due"
      /\ clerk.kind = "return" => deal[a].status = "CLAIMED"
  <2>1. PurgeTyped /\ ClerkIsSound /\ clerk # NoClerk
    BY DEF Write, PurgeInv
  <2>2. a \in Done /\ a \in Deals /\ clerk.kind \in {"claim", "settle", "return"}
    BY <2>1 DEF PurgeTyped, ClerkIsSound
  <2>3. DealIsSound(a)
    BY <2>2 DEF PurgeInv
  <2>4. QED
    BY <2>1, <2>2, <2>3 DEF ClerkIsSound, DealIsSound, InStock
<1>1. PICK d \in Deal :
           /\ deal' = [deal EXCEPT ![a] = d]
           /\ d.lead = deal[a].lead /\ d.to = deal[a].to
           /\ clerk.kind = "claim" => d.status = "CLAIMED" /\ d.reward \in {"none", "due"}
                /\ (d.reward = "due" => SupplierOf(a) # "platform")
           /\ clerk.kind = "settle" => d.status = deal[a].status /\ d.reward = "paid"
           /\ clerk.kind = "return" => /\ d.status = "RETURNED"
                /\ d.reward = IF deal[a].reward = "paid" THEN "reversed"
                              ELSE IF deal[a].reward = "due" THEN "cancelled"
                              ELSE deal[a].reward
           /\ d.status # "NONE" /\ d.status # "PENDING"
  BY WrittenDeal
<1>2. \/ stock' = stock /\ (clerk.kind = "return" => stock[l].on # a)
      \/ /\ clerk.kind = "return" /\ stock[l].on = a
         /\ \E g \in Goods : /\ stock' = [stock EXCEPT ![l] = g] /\ g.by = stock[l].by
                             /\ g.on = "none" /\ g.status = "READY_DISPATCH" /\ g.gone = stock[l].gone
  BY WrittenLead
<1>3. PICK E \in SUBSET Entry :
           /\ IsFiniteSet(E) /\ E \cap books = {} /\ Booked(E)
           /\ \A e, f \in E : e.of = f.of /\ e.kind = f.kind => e = f
           /\ \A e \in E : e.deal = a /\
                \/ clerk.kind = "claim" /\ e.what = "claim"
                \/ clerk.kind = "settle" /\ e.what = "reward"
                \/ clerk.kind = "return" /\ e.what = "refund"
                \/ clerk.kind = "return" /\ e.what = "reversal" /\ deal[a].reward = "paid"
           /\ clerk.kind = "claim" => Ledger("claim", a, deal[a].to, "CUSTOMER") \in E
           /\ clerk.kind = "settle" => Ledger("reward", a, SupplierOf(a), "SUPPLY") \in E
  BY WrittenEntries
<1>4. clerk' = NoClerk /\ UNCHANGED <<party, match, cashed, purge>>
  BY DEF Write
<1> HIDE DEF a, l
<1>5. /\ deal' \in [Deals -> Deal] /\ Done' = Done /\ deal'[a] = d
      /\ \A b \in Done \ {a} : deal'[b] = deal[b]
  <2>1. /\ deal' \in [Deals -> Deal] /\ Done' = Done \cup {a} /\ deal'[a] = d
        /\ \A b \in Deals \ {a} : deal'[b] = deal[b]
    BY <1>0, <1>1, DealChange
  <2>2. Done \cup {a} = Done /\ Done \subseteq Deals
    BY <1>0 DEF Done
  <2>3. QED
    BY <2>1, <2>2
<1>6. /\ stock' \in [Stock -> Goods \cup {NoGoods}] /\ InStock' = InStock
      /\ \A k \in InStock : stock'[k].by = stock[k].by /\ (k # l => stock'[k] = stock[k])
      /\ \/ stock'[l] = stock[l] /\ (clerk.kind = "return" => stock[l].on # a)
         \/ stock'[l].on = "none" /\ stock'[l].status = "READY_DISPATCH"
  <2>1. CASE stock' = stock /\ (clerk.kind = "return" => stock[l].on # a)
    BY <1>0, <2>1 DEF PurgeTyped, InStock
  <2>2. ASSUME NEW g \in Goods, stock' = [stock EXCEPT ![l] = g], g.by = stock[l].by,
               g.on = "none", g.status = "READY_DISPATCH"
        PROVE  /\ stock' \in [Stock -> Goods \cup {NoGoods}] /\ InStock' = InStock
               /\ \A k \in InStock : stock'[k].by = stock[k].by /\ (k # l => stock'[k] = stock[k])
               /\ stock'[l].on = "none" /\ stock'[l].status = "READY_DISPATCH"
    <3>1. /\ stock' \in [Stock -> Goods \cup {NoGoods}]
          /\ InStock' = InStock \cup {l} /\ stock'[l] = g
          /\ \A k \in Stock \ {l} : stock'[k] = stock[k]
      BY <1>0, <2>2, StockChange
    <3>2. InStock \cup {l} = InStock /\ InStock \subseteq Stock
      BY <1>0 DEF InStock
    <3>3. QED
      BY <2>2, <3>1, <3>2
  <2>3. QED
    BY <1>2, <2>1, <2>2
<1>7. /\ books' = books \cup E /\ books' \in SUBSET Entry /\ IsFiniteSet(books')
      /\ funds' \in [Parties -> [PointKinds -> Int]]
      /\ AccountsAreSound'
  BY <1>3, <1>4, PostedBooks
<1>8. PurgeTyped'
  BY <1>0, <1>4, <1>5, <1>6, <1>7 DEF PurgeTyped
<1>9. RowsStay
  BY <1>1, <1>5, <1>6 DEF RowsStay
<1>10. ASSUME NEW b \in Done PROVE DealIsSound(b)'
  <2>1. DealIsSound(b) /\ SupplierOf(b)' = SupplierOf(b)
    BY <1>9, SuppliersStay DEF PurgeInv
  <2>2. CASE b # a
    BY <1>5, <1>6, <2>1, <2>2 DEF DealIsSound
  <2>3. CASE b = a
    <3>1. SupplierOf(a) \in {"platform"} \cup Parties
      <4>1. stock[l] \in Goods
        BY <1>0, GoodsParts
      <4>2. QED
        BY <4>1 DEF SupplierOf, Goods, l
    <3>2. d.reward # "none" => SupplierOf(a) \in Parties
      BY <1>0, <1>1, <3>1 DEF DealIsSound
    <3>3. d.lead \in InStock
      BY <1>0, <1>1 DEF l
    <3>4. QED
      BY <1>1, <1>5, <1>6, <2>1, <2>3, <3>2, <3>3 DEF DealIsSound
  <2>4. QED
    BY <2>2, <2>3
<1>11. ClerkIsSound'
  BY <1>4 DEF ClerkIsSound
<1>12. LocksAreSound'
  BY <1>4, <1>5, <1>6, <1>9, LocksStay
<1>13. ASSUME NEW e \in books' PROVE EntryIsSound(e)'
  <2>1. CASE e \in books
    <3>1. EntryIsSound(e) /\ e \in Entry
      BY <1>0, <2>1 DEF PurgeInv, BooksAreSound, PurgeTyped
    <3>2. e.what \in {"claim", "refund", "reward", "reversal"} => e.deal \in Done
      BY <3>1, EntryParts, PurgeAssumption DEF EntryIsSound
    <3>3. CASE e.deal # a
      BY <1>4, <1>5, <1>7, <3>1, <3>2, <3>3 DEF EntryIsSound
    <3>4. CASE e.deal = a
      <4>1. /\ e.what = "claim" => d.status \in {"CLAIMED", "RETURNED"}
            /\ e.what = "refund" => d.status = "RETURNED"
            /\ e.what = "reward" => d.reward \in {"paid", "reversed"}
            /\ e.what = "reversal" => d.reward = "reversed"
        BY <1>0, <1>1, <3>1, <3>4 DEF EntryIsSound
      <4>2. QED
        BY <1>4, <1>5, <1>7, <3>1, <3>4, <4>1 DEF EntryIsSound
    <3>5. QED
      BY <3>3, <3>4
  <2>2. CASE e \in E
    BY <1>0, <1>1, <1>3, <1>5, <2>2 DEF EntryIsSound
  <2>3. QED
    BY <1>7, <2>1, <2>2
<1>14. ASSUME NEW b \in Done PROVE DealIsBooked(b)'
  <2>1. DealIsBooked(b) /\ SupplierOf(b)' = SupplierOf(b) /\ deal'[b].to = deal[b].to
    BY <1>9, SuppliersStay DEF PurgeInv, BooksAreSound, RowsStay
  <2>2. CASE b # a
    BY <1>5, <1>7, <2>1, <2>2 DEF DealIsBooked
  <2>3. CASE b = a
    BY <1>0, <1>1, <1>3, <1>5, <1>7, <2>1, <2>3 DEF DealIsBooked
  <2>4. QED
    BY <2>2, <2>3
<1>15. BooksAreSound'
  BY <1>5, <1>7, <1>13, <1>14 DEF BooksAreSound
<1>16. ASSUME NEW k \in InStock' PROVE LeadIsUsable(k)'
  <2>0. k \in InStock /\ LeadIsUsable(k)
    BY <1>6 DEF PurgeInv
  <2>1. CASE stock'[k] = stock[k]
    <3>1. ASSUME NEW b \in Done PROVE deal'[b].lead = deal[b].lead
      BY <1>9 DEF RowsStay
    <3>2. QED
      BY <1>4, <1>5, <1>6, <2>0, <2>1, <3>1 DEF LeadIsUsable
  <2>2. CASE stock'[k].on = "none" /\ stock'[k].status = "READY_DISPATCH"
    BY <2>2 DEF LeadIsUsable
  <2>3. QED
    BY <1>6, <2>0, <2>1, <2>2
<1>17. QED
  BY <1>5, <1>8, <1>10, <1>11, <1>12, <1>15, <1>16 DEF PurgeInv

\* Steps that post and change no deal and no lead.
LEMMA PostingKeeps ==
  ASSUME PurgeInv, NEW n \in Entry, n \notin books, Booked({n}),
         UNCHANGED <<party, stock, match, deal, clerk, purge>>,
         cashed' \in SUBSET Parties, cashed \subseteq cashed',
         n.what \in {"correction", "recorrection", "withdrawal"},
         n.what = "withdrawal" => n.of \in cashed',
         n.what = "correction" => Ledger("claim", n.deal, n.of, n.kind) \in books /\ n.deal \in Done,
         n.what = "recorrection" => Ledger("correction", n.deal, n.of, n.kind) \in books /\ n.deal \in Done
  PROVE  PurgeInv'
<1>1. {n} \in SUBSET Entry /\ IsFiniteSet({n}) /\ {n} \cap books = {}
  <2>1. {n} \in SUBSET Entry /\ {n} \cap books = {}
    OBVIOUS
  <2>2. QED
    BY <2>1, FS_Singleton
<1>2. \A e, f \in {n} : e.of = f.of /\ e.kind = f.kind => e = f
  OBVIOUS
<1>3. /\ books' = books \cup {n} /\ books' \in SUBSET Entry /\ IsFiniteSet(books')
      /\ funds' \in [Parties -> [PointKinds -> Int]]
      /\ AccountsAreSound'
  BY <1>1, <1>2, PostedBooks
<1>4. Done' = Done /\ InStock' = InStock
  BY DEF Done, InStock
<1>5. OwnDeals' = OwnDeals
  BY DEF OwnDeals, OwnGoods, Done, InStock
<1>6. PurgeTyped'
  BY <1>3 DEF PurgeInv, PurgeTyped
<1>7. \A a \in Done' : DealIsSound(a)' /\ DealIsBooked(a)'
  BY <1>3, <1>4 DEF PurgeInv, DealIsSound, SupplierOf, BooksAreSound, DealIsBooked
<1>8. ClerkIsSound' /\ LocksAreSound'
  BY <1>4, <1>5 DEF PurgeInv, ClerkIsSound, LocksAreSound
<1>9. \A l \in InStock' : LeadIsUsable(l)'
  BY <1>4 DEF PurgeInv, LeadIsUsable
<1>10. ASSUME NEW e \in books' PROVE EntryIsSound(e)'
  <2>1. CASE e \in books
    BY <1>3, <1>4, <2>1 DEF PurgeInv, BooksAreSound, EntryIsSound
  <2>2. CASE e = n
    <3>1. n.what = "withdrawal" => n.deal = "none"
      BY EntryParts
    <3>2. QED
      BY <1>3, <1>4, <2>2, <3>1 DEF EntryIsSound
  <2>3. QED
    BY <1>3, <2>1, <2>2
<1>11. QED
  BY <1>3, <1>6, <1>7, <1>8, <1>9, <1>10 DEF PurgeInv, BooksAreSound

LEMMA CorrectKeeps ==
  ASSUME PurgeInv, NEW e \in books, NEW what \in {"correction", "recorrection"}, Correct(e, what)
  PROVE  PurgeInv'
<1> DEFINE n == Ledger(what, e.deal, e.of, e.kind)
<1>1. /\ n \notin books /\ Booked({n}) /\ UNCHANGED <<party, stock, match, deal, cashed, clerk, purge>>
      /\ \/ e.what = "claim" /\ what = "correction"
         \/ e.what = "correction" /\ what = "recorrection"
  BY DEF Correct
<1>2. e \in Entry /\ EntryIsSound(e) /\ cashed \in SUBSET Parties
  BY DEF PurgeInv, BooksAreSound, PurgeTyped
<1>3. e.deal \in Deals /\ e.deal \in Done /\ e.of \in Parties /\ e.kind \in PointKinds
  BY <1>1, <1>2, EntryParts, PurgeAssumption DEF EntryIsSound
<1>4. n \in Entry
  BY <1>3, LedgerEntries
<1>5. n.what = what /\ n.deal = e.deal /\ n.of = e.of /\ n.kind = e.kind
  BY LedgerParts
<1>6. Ledger(e.what, n.deal, n.of, n.kind) = e
  BY <1>2, <1>5, EntryParts
<1> HIDE DEF n
<1>7. /\ n.what \in {"correction", "recorrection"} /\ n.deal \in Done
      /\ n.what = "correction" => Ledger("claim", n.deal, n.of, n.kind) \in books
      /\ n.what = "recorrection" => Ledger("correction", n.deal, n.of, n.kind) \in books
  BY <1>1, <1>3, <1>5, <1>6
<1>8. QED
  BY <1>1, <1>2, <1>4, <1>7, PostingKeeps

LEMMA CashInKeeps ==
  ASSUME PurgeInv, NEW k \in Parties, CashIn(k)
  PROVE  PurgeInv'
<1> DEFINE n == Ledger("withdrawal", "none", k, "SUPPLY")
<1>1. /\ k \notin cashed /\ cashed' = cashed \cup {k} /\ Booked({n})
      /\ UNCHANGED <<party, stock, match, deal, clerk, purge>>
  BY DEF CashIn
<1>2. n \in Entry /\ n.what = "withdrawal" /\ n.of = k
  BY LedgerEntries, LedgerParts DEF PointKinds
<1> HIDE DEF n
<1>3. n \notin books
  BY <1>1, <1>2 DEF PurgeInv, BooksAreSound, EntryIsSound
<1>4. cashed' \in SUBSET Parties /\ cashed \subseteq cashed' /\ n.of \in cashed'
  BY <1>1, <1>2 DEF PurgeInv, PurgeTyped
<1>5. QED
  BY <1>1, <1>2, <1>3, <1>4, PostingKeeps

-----------------------------------------------------------------------------
\* The deletion.

\* Corrections are found in two steps: what goes is all that was booked for the company
\* or for a deal of it.
LEMMA WhatIsDoomed ==
  ASSUME PurgeInv
  PROVE  OwnEntries = {e \in books : e.of = "t" \/ e.deal \in OwnDeals}
<1> DEFINE All == {e \in books : e.of = "t" \/ e.deal \in OwnDeals}
<1>1. DirectEntries \subseteq All
  BY DEF DirectEntries
<1>2. ASSUME NEW E \in SUBSET All PROVE Related(E) \subseteq All
  BY DEF Related, Corrects
<1>3. OwnEntries \subseteq All
  <2>1. Related(DirectEntries) \in SUBSET All
    BY <1>1, <1>2
  <2>2. QED
    BY <2>1, <1>2 DEF OwnEntries
<1>4. \A E : E \subseteq Related(E)
  BY DEF Related
<1>5. "none" \notin OwnDeals
  BY PurgeAssumption DEF OwnDeals, Done
<1>6. ASSUME NEW e \in All PROVE e \in OwnEntries
  <2>1. e \in books /\ EntryIsSound(e) /\ (e.of = "t" \/ e.deal \in OwnDeals)
    BY DEF PurgeInv, BooksAreSound
  <2>2. CASE e \in DirectEntries
    BY <1>4, <2>2 DEF OwnEntries
  <2>3. CASE e \notin DirectEntries
    <3>1. e.deal \in OwnDeals /\ e.deal # "none" /\ e.what \in {"correction", "recorrection"}
      BY <1>5, <2>1, <2>3 DEF DirectEntries
    <3>2. ASSUME NEW c \in books, c.what = "correction", c.deal = e.deal
          PROVE  c \in Related(DirectEntries)
      <4>1. EntryIsSound(c)
        BY DEF PurgeInv, BooksAreSound
      <4>2. PICK f : f = Ledger("claim", c.deal, c.of, c.kind)
        OBVIOUS
      <4>3. f \in books /\ f.what = "claim" /\ f.deal = c.deal /\ f.of = c.of
        BY <3>1, <3>2, <4>1, <4>2, LedgerParts DEF EntryIsSound
      <4>4. f \in DirectEntries
        BY <3>1, <3>2, <4>3 DEF DirectEntries
      <4>5. Corrects(c, f)
        BY <3>2, <4>3 DEF Corrects
      <4>6. QED
        BY <4>4, <4>5 DEF Related
    <3>3. CASE e.what = "correction"
      BY <1>4, <2>1, <3>2, <3>3 DEF OwnEntries
    <3>4. CASE e.what = "recorrection"
      <4>1. PICK c : c = Ledger("correction", e.deal, e.of, e.kind)
        OBVIOUS
      <4>2. c \in books /\ c.what = "correction" /\ c.deal = e.deal /\ c.of = e.of
        BY <2>1, <3>1, <3>4, <4>1, LedgerParts DEF EntryIsSound
      <4>3. c \in Related(DirectEntries)
        BY <3>2, <4>2
      <4>4. Corrects(e, c)
        BY <3>4, <4>2 DEF Corrects
      <4>5. QED
        BY <2>1, <4>3, <4>4 DEF OwnEntries, Related
    <3>5. QED
      BY <3>1, <3>3, <3>4
  <2>4. QED
    BY <2>2, <2>3
<1>7. QED
  BY <1>3, <1>6

\* What becomes of a lead that stays.
LEMMA RestoredLead ==
  ASSUME PurgeInv, NEW l \in InStock \ OwnGoods
  PROVE  /\ Restored(l) \in Goods
         /\ Restored(l).by = stock[l].by /\ Restored(l).gone = stock[l].gone
         /\ Restored(l).on = IF stock[l].on \in OwnDeals THEN "none" ELSE stock[l].on
         /\ ~stock[l].gone => (Restored(l).status = "OUT" <=> Restored(l).on # "none")
         /\ ~stock[l].gone /\ Restored(l).status = "DUPLICATE" =>
              \/ l \in Affected /\ InStock \ (OwnGoods \cup {l}) # {}
              \/ l \notin Affected /\ stock[l].status = "DUPLICATE"
<1> DEFINE h == stock[l]
           Twin == InStock \ (OwnGoods \cup {l}) # {}
<1>1. h \in Goods /\ LeadIsUsable(l)
  BY GoodsParts DEF PurgeInv, InStock
<1>2. PICK g : g = IF h.on \in OwnDeals THEN [[h EXCEPT !.on = "none"] EXCEPT !.status = "READY_DISPATCH"] ELSE h
  OBVIOUS
<1>3. /\ g \in Goods /\ g.by = h.by /\ g.gone = h.gone
      /\ g.on = IF h.on \in OwnDeals THEN "none" ELSE h.on
      /\ g.status = IF h.on \in OwnDeals THEN "READY_DISPATCH" ELSE h.status
  <2>1. CASE h.on \in OwnDeals
    <3>1. g = [[h EXCEPT !.on = "none"] EXCEPT !.status = "READY_DISPATCH"]
      BY <1>2, <2>1
    <3>2. QED
      BY <1>1, <2>1, <3>1 DEF Goods
  <2>2. CASE h.on \notin OwnDeals
    BY <1>1, <1>2, <2>2
  <2>3. QED
    BY <2>1, <2>2
<1>4. /\ ~h.gone => (g.status = "OUT" <=> g.on # "none")
      /\ ~h.gone /\ g.status = "DUPLICATE" => stock[l].status = "DUPLICATE"
  BY <1>1, <1>3 DEF LeadIsUsable
<1>5. Restored(l) = IF l \notin Affected \/ g.on # "none" THEN g
     ELSE IF Twin THEN [g EXCEPT !.status = "DUPLICATE"]
     ELSE IF g.status # "DUPLICATE" THEN g
     ELSE [g EXCEPT !.status = IF g.by # "platform" /\ ~g.ok THEN "PENDING_REVIEW" ELSE "READY_DISPATCH"]
  BY <1>2 DEF Restored
<1> HIDE DEF h, Twin
<1>6. PICK q : q = Restored(l)
  OBVIOUS
<1>7. CASE l \notin Affected \/ g.on # "none"
  <2>1. q = g
    BY <1>5, <1>6, <1>7
  <2>2. QED
    BY <1>3, <1>4, <1>6, <1>7, <2>1 DEF h
<1>8. CASE l \in Affected /\ g.on = "none"
  <2>1. CASE Twin
    <3>1. q = [g EXCEPT !.status = "DUPLICATE"]
      BY <1>5, <1>6, <1>8, <2>1
    <3>2. q \in Goods /\ q.by = g.by /\ q.gone = g.gone /\ q.on = g.on /\ q.status = "DUPLICATE"
      BY <1>3, <3>1 DEF Goods
    <3>3. QED
      BY <1>3, <1>6, <1>8, <2>1, <3>2 DEF h, Twin
  <2>2. CASE ~Twin /\ g.status # "DUPLICATE"
    <3>1. q = g
      BY <1>5, <1>6, <1>8, <2>2
    <3>2. QED
      BY <1>3, <1>4, <1>6, <2>2, <3>1 DEF h
  <2>3. CASE ~Twin /\ g.status = "DUPLICATE"
    <3>1. PICK s \in {"PENDING_REVIEW", "READY_DISPATCH"} :
            s = IF g.by # "platform" /\ ~g.ok THEN "PENDING_REVIEW" ELSE "READY_DISPATCH"
      OBVIOUS
    <3>2. q = [g EXCEPT !.status = s]
      BY <1>5, <1>6, <1>8, <2>3, <3>1
    <3>3. q \in Goods /\ q.by = g.by /\ q.gone = g.gone /\ q.on = g.on /\ q.status = s
      BY <1>3, <3>1, <3>2 DEF Goods
    <3>4. QED
      BY <1>3, <1>6, <1>8, <3>1, <3>3 DEF h
  <2>4. QED
    BY <2>1, <2>2, <2>3
<1>9. QED
  BY <1>7, <1>8

\* The rows after the deletion.
LEMMA DeletedRows ==
  ASSUME PurgeInv, Delete
  PROVE  /\ stock' \in [Stock -> Goods \cup {NoGoods}] /\ match' \in [Stock -> SUBSET Stock]
         /\ deal' \in [Deals -> Deal]
         /\ InStock' = InStock \ OwnGoods /\ Done' = Done \ OwnDeals
         /\ \A l \in InStock \ OwnGoods : stock'[l] = Restored(l)
         /\ \A a \in Done \ OwnDeals : deal'[a] = deal[a] /\ deal[a].to # "t" /\ deal[a].lead \in InStock \ OwnGoods
<1>0. PurgeTyped
  BY DEF PurgeInv
<1>1. stock' = [l \in Stock |-> IF l \in OwnGoods THEN NoGoods ELSE IF l \in InStock THEN Restored(l) ELSE NoGoods]
  BY DEF Delete
<1>2. \A l \in InStock \ OwnGoods : Restored(l) \in Goods /\ Restored(l) # NoGoods /\ l \in Stock
  BY RestoredLead, GoodsAreSome DEF InStock
<1>3. stock' \in [Stock -> Goods \cup {NoGoods}]
  <2>1. ASSUME NEW l \in Stock
        PROVE  (IF l \in OwnGoods THEN NoGoods ELSE IF l \in InStock THEN Restored(l) ELSE NoGoods) \in Goods \cup {NoGoods}
    BY <1>2
  <2>2. QED
    BY <1>1, <2>1
<1>4. \A l \in InStock \ OwnGoods : stock'[l] = Restored(l)
  BY <1>1, <1>2
<1>5. InStock' = InStock \ OwnGoods
  <2>1. \A l \in Stock : stock'[l] # NoGoods <=> l \in InStock \ OwnGoods
    BY <1>1, <1>2
  <2>2. InStock' = {l \in Stock : stock'[l] # NoGoods} /\ InStock \subseteq Stock
    BY DEF InStock
  <2>3. QED
    BY <2>1, <2>2
<1>6. match' \in [Stock -> SUBSET Stock]
  <2>1. ASSUME NEW l \in Stock
        PROVE  (IF l \in OwnGoods THEN {}
          ELSE (match[l] \ OwnGoods) \cup
               (IF l \in Affected /\ InStock \ (OwnGoods \cup {l}) # {}
                THEN {CHOOSE k \in InStock \ (OwnGoods \cup {l}) : TRUE} ELSE {})) \in SUBSET Stock
    <3>1. match[l] \in SUBSET Stock
      BY <1>0 DEF PurgeTyped
    <3>2. InStock \ (OwnGoods \cup {l}) # {} =>
            (CHOOSE k \in InStock \ (OwnGoods \cup {l}) : TRUE) \in Stock
      BY DEF InStock
    <3>3. QED
      BY <3>1, <3>2
  <2>2. QED
    BY <2>1 DEF Delete
<1>7. deal' = [a \in Deals |-> IF a \in OwnDeals THEN NoDeal ELSE deal[a]]
  BY DEF Delete
<1>8. deal' \in [Deals -> Deal]
  BY <1>0, <1>7 DEF PurgeTyped, Deal
<1>9. Done' = Done \ OwnDeals
  BY <1>7 DEF Done, NoDeal
<1>10. ASSUME NEW a \in Done \ OwnDeals
       PROVE  deal'[a] = deal[a] /\ deal[a].to # "t" /\ deal[a].lead \in InStock \ OwnGoods
  <2>1. a \in Deals /\ deal[a].lead \in InStock
    BY DEF Done, PurgeInv, DealIsSound
  <2>2. QED
    BY <1>7, <2>1 DEF OwnDeals
<1>11. QED
  BY <1>3, <1>4, <1>5, <1>6, <1>8, <1>9, <1>10

LEMMA DeletedAccounts ==
  ASSUME PurgeInv, Delete
  PROVE  /\ books' = {e \in books : e.of # "t" /\ e.deal \notin OwnDeals}
         /\ books' \in SUBSET Entry /\ IsFiniteSet(books')
         /\ funds' \in [Parties -> [PointKinds -> Int]]
         /\ AccountsAreSound'
<1>1. /\ books' = books \ OwnEntries
      /\ funds' = [k \in Parties |->
          IF k = "t" THEN [p \in PointKinds |-> 0]
          ELSE IF k \in Accounts(purge.entries) THEN [p \in PointKinds |-> Sum(books', k, p)] ELSE funds[k]]
      /\ party' = [party EXCEPT !.gone = TRUE]
      /\ Accounts(OwnEntries) \subseteq Accounts(purge.entries)
  BY DEF Delete, Doomed, ScopeChanged
<1>2. books' = {e \in books : e.of # "t" /\ e.deal \notin OwnDeals}
  BY <1>1, WhatIsDoomed
<1>3. books' \in SUBSET Entry /\ IsFiniteSet(books')
  <2>1. books \in SUBSET Entry /\ IsFiniteSet(books) /\ books' \subseteq books
    BY <1>1 DEF PurgeInv, PurgeTyped
  <2>2. QED
    BY <2>1, FS_Subset
<1>4. \A k \in Parties, p \in PointKinds : Sum(books', k, p) \in Int
  BY <1>3, SumIsInt
<1>5. funds' \in [Parties -> [PointKinds -> Int]]
  <2>1. funds \in [Parties -> [PointKinds -> Int]]
    BY DEF PurgeInv, PurgeTyped
  <2>2. ASSUME NEW k \in Parties PROVE funds'[k] \in [PointKinds -> Int]
    <3>1. CASE k = "t"
      <4>1. funds'[k] = [p \in PointKinds |-> 0]
        BY <1>1, <3>1
      <4>2. QED
        BY <4>1
    <3>2. CASE k # "t" /\ k \in Accounts(purge.entries)
      <4>1. funds'[k] = [p \in PointKinds |-> Sum(books', k, p)]
        BY <1>1, <3>2
      <4>2. QED
        BY <1>4, <4>1
    <3>3. CASE k # "t" /\ k \notin Accounts(purge.entries)
      <4>1. funds'[k] = funds[k]
        BY <1>1, <3>3
      <4>2. QED
        BY <2>1, <4>1
    <3>4. QED
      BY <3>1, <3>2, <3>3
  <2>3. funds' = [k \in Parties |-> funds'[k]]
    BY <1>1
  <2>4. QED
    BY <2>2, <2>3
<1>6. party'.gone
  BY <1>1 DEF PurgeInv, PurgeTyped
<1>7. ASSUME NEW k \in Parties, NEW p \in PointKinds, k # "t" PROVE funds'[k][p] = Sum(books', k, p)
  <2>1. CASE k \in Accounts(purge.entries)
    BY <1>1, <1>7, <2>1
  <2>2. CASE k \notin Accounts(purge.entries)
    <3>1. \A e \in OwnEntries : e.of # k
      BY <1>1, <2>2 DEF Accounts
    <3>2. {e \in books' : e.of = k /\ e.kind = p} = {e \in books : e.of = k /\ e.kind = p}
      BY <1>1, <3>1
    <3>3. Sum(books', k, p) = Sum(books, k, p)
      BY <3>2, SumOfOwn
    <3>4. funds[k][p] = Sum(books, k, p)
      BY <1>7 DEF PurgeInv, BooksAreSound, AccountsAreSound
    <3>5. QED
      BY <1>1, <1>7, <2>2, <3>3, <3>4
  <2>3. QED
    BY <2>1, <2>2
<1>8. AccountsAreSound'
  BY <1>6, <1>7 DEF AccountsAreSound
<1>9. QED
  BY <1>2, <1>3, <1>5, <1>8

LEMMA DeleteKeeps ==
  ASSUME PurgeInv, Delete
  PROVE  PurgeInv'
<1>1. /\ stock' \in [Stock -> Goods \cup {NoGoods}] /\ match' \in [Stock -> SUBSET Stock]
      /\ deal' \in [Deals -> Deal]
      /\ InStock' = InStock \ OwnGoods /\ Done' = Done \ OwnDeals
      /\ \A l \in InStock \ OwnGoods : stock'[l] = Restored(l)
      /\ \A a \in Done \ OwnDeals : deal'[a] = deal[a] /\ deal[a].to # "t" /\ deal[a].lead \in InStock \ OwnGoods
  BY DeletedRows
<1>2. /\ books' = {e \in books : e.of # "t" /\ e.deal \notin OwnDeals}
      /\ books' \in SUBSET Entry /\ IsFiniteSet(books')
      /\ funds' \in [Parties -> [PointKinds -> Int]]
      /\ AccountsAreSound'
  BY DeletedAccounts
<1>3. purge.phase = "read" /\ purge' = NoPurge /\ UNCHANGED <<cashed, clerk>>
      /\ party' = [party EXCEPT !.gone = TRUE]
  BY DEF Delete
<1>4. PurgeTyped'
  <2>1. purge' \in PurgeRows
    BY <1>3, NoPurgeParts
  <2>2. party' \in [status : {"ACTIVE", "DISABLED"}, test : BOOLEAN, gone : BOOLEAN]
    BY <1>3 DEF PurgeInv, PurgeTyped
  <2>3. QED
    BY <1>1, <1>2, <1>3, <2>1, <2>2 DEF PurgeInv, PurgeTyped, PurgeRows
<1>5. ASSUME NEW a \in Done \ OwnDeals PROVE SupplierOf(a)' = SupplierOf(a) /\ SupplierOf(a) # "t"
  <2>1. PICK l \in InStock \ OwnGoods : l = deal[a].lead /\ deal'[a].lead = l /\ stock'[l] = Restored(l)
    BY <1>1
  <2>2. Restored(l).by = stock[l].by
    BY RestoredLead
  <2>3. stock[l].by # "t"
    BY DEF OwnGoods
  <2>4. QED
    BY <2>1, <2>2, <2>3 DEF SupplierOf
<1>6. ASSUME NEW a \in Done' PROVE DealIsSound(a)'
  BY <1>1, <1>5 DEF PurgeInv, DealIsSound
<1>7. ClerkIsSound'
  <2>1. ASSUME clerk # NoClerk PROVE clerk.deal \in Done \ OwnDeals
    BY <1>3, <2>1 DEF PurgeInv, ClerkIsSound, LocksAreSound
  <2>2. QED
    BY <1>1, <1>3, <2>1 DEF PurgeInv, ClerkIsSound
<1>8. LocksAreSound'
  BY <1>3, NoPurgeParts, ScopeIsFound DEF LocksAreSound
<1>9. ASSUME NEW e \in books' PROVE EntryIsSound(e)'
  <2>1. e \in books /\ e.of # "t" /\ e.deal \notin OwnDeals /\ EntryIsSound(e) /\ e \in Entry
    BY <1>2 DEF PurgeInv, BooksAreSound
  <2>2. ASSUME NEW w, Ledger(w, e.deal, e.of, e.kind) \in books
        PROVE  Ledger(w, e.deal, e.of, e.kind) \in books'
    <3>1. PICK f : f = Ledger(w, e.deal, e.of, e.kind)
      OBVIOUS
    <3>2. f \in books /\ f.of = e.of /\ f.deal = e.deal
      BY <2>2, <3>1, LedgerParts
    <3>3. QED
      BY <1>2, <2>1, <3>1, <3>2
  <2>3. e.what \in {"claim", "refund", "reward", "reversal"} => e.deal \in Done
    BY <2>1, EntryParts, PurgeAssumption DEF EntryIsSound
  <2>4. e.deal \in Done => e.deal \in Done' /\ deal'[e.deal] = deal[e.deal]
    BY <1>1, <2>1
  <2>5. QED
    BY <1>3, <2>1, <2>2, <2>3, <2>4 DEF EntryIsSound
<1>10. ASSUME NEW a \in Done' PROVE DealIsBooked(a)'
  <2>1. /\ a \in Done \ OwnDeals /\ DealIsBooked(a) /\ deal'[a] = deal[a] /\ deal[a].to # "t"
        /\ SupplierOf(a)' = SupplierOf(a) /\ SupplierOf(a) # "t"
    BY <1>1, <1>5 DEF PurgeInv, BooksAreSound
  <2>2. ASSUME NEW w, NEW k, k # "t", NEW p, Ledger(w, a, k, p) \in books
        PROVE  Ledger(w, a, k, p) \in books'
    <3>1. PICK f : f = Ledger(w, a, k, p)
      OBVIOUS
    <3>2. f \in books /\ f.of = k /\ f.deal = a
      BY <2>2, <3>1, LedgerParts
    <3>3. QED
      BY <1>2, <2>1, <2>2, <3>1, <3>2
  <2>3. QED
    BY <2>1, <2>2 DEF DealIsBooked
<1>11. BooksAreSound'
  BY <1>2, <1>9, <1>10 DEF BooksAreSound
<1>12. ASSUME NEW l \in InStock' PROVE LeadIsUsable(l)'
  <2>1. l \in InStock \ OwnGoods /\ stock'[l] = Restored(l) /\ LeadIsUsable(l) /\ l \in Stock
    BY <1>1 DEF PurgeInv, InStock
  <2>2. /\ Restored(l).gone = stock[l].gone
        /\ Restored(l).on = IF stock[l].on \in OwnDeals THEN "none" ELSE stock[l].on
        /\ ~stock[l].gone => (Restored(l).status = "OUT" <=> Restored(l).on # "none")
        /\ ~stock[l].gone /\ Restored(l).status = "DUPLICATE" =>
             \/ l \in Affected /\ InStock \ (OwnGoods \cup {l}) # {}
             \/ l \notin Affected /\ stock[l].status = "DUPLICATE"
    BY <2>1, RestoredLead
  <2>3. ASSUME ~stock[l].gone, stock'[l].on # "none"
        PROVE  stock'[l].on \in Done' /\ deal'[stock'[l].on].lead = l
    BY <1>1, <2>1, <2>2, <2>3 DEF LeadIsUsable
  <2>4. ASSUME ~stock[l].gone, stock'[l].status = "DUPLICATE"
        PROVE  \E k \in match'[l] : k \in InStock' /\ k # l
    <3>0. match'[l] = (match[l] \ OwnGoods) \cup
               (IF l \in Affected /\ InStock \ (OwnGoods \cup {l}) # {}
                THEN {CHOOSE k \in InStock \ (OwnGoods \cup {l}) : TRUE} ELSE {})
      BY <2>1 DEF Delete
    <3>1. CASE l \in Affected /\ InStock \ (OwnGoods \cup {l}) # {}
      <4>1. PICK k : k = CHOOSE j \in InStock \ (OwnGoods \cup {l}) : TRUE
        OBVIOUS
      <4>2. k \in InStock \ (OwnGoods \cup {l}) /\ k \in match'[l]
        BY <3>0, <3>1, <4>1
      <4>3. QED
        BY <1>1, <4>2
    <3>2. CASE l \notin Affected /\ stock[l].status = "DUPLICATE"
      <4>1. PICK k \in match[l] : k \in InStock /\ k # l
        BY <2>1, <2>4, <3>2 DEF LeadIsUsable
      <4>2. k \notin OwnGoods
        BY <2>1, <3>2, <4>1 DEF Affected
      <4>3. QED
        BY <1>1, <3>0, <4>1, <4>2
    <3>3. QED
      BY <2>1, <2>2, <2>4, <3>1, <3>2
  <2>5. QED
    BY <2>1, <2>2, <2>3, <2>4 DEF LeadIsUsable
<1>13. QED
  BY <1>4, <1>6, <1>7, <1>8, <1>11, <1>12 DEF PurgeInv

-----------------------------------------------------------------------------
LEMMA PurgeStep == ASSUME PurgeInv, PurgeNext PROVE PurgeInv'
BY EnterKeeps, SendOnKeeps, DeleteGoodsKeeps, DispatchKeeps, TakeKeeps, WriteKeeps, CorrectKeeps,
   CashInKeeps, PartyKeeps, StartPurgeKeeps, LockScopeKeeps, PurgeFailsKeeps, LastRoundKeeps,
   ReadLedgerKeeps, DeleteKeeps
  DEF PurgeNext, PurgeBusy, PurgeRefused

LEMMA PurgeStutters == ASSUME PurgeInv, UNCHANGED purgeVars PROVE PurgeInv'
<1>1. UNCHANGED <<tradeVars, clerk, party, purge>>
  BY DEF purgeVars, tradeVars
<1>2. OwnDeals' = OwnDeals
  BY <1>1, SameTrade
<1>3. LocksAreSound'
  BY <1>1, <1>2 DEF PurgeInv, LocksAreSound
<1>4. QED
  BY <1>1, <1>3, LooksKeep DEF PurgeInv, PurgeTyped

LEMMA AlwaysPurge == PurgeSpec => []PurgeInv
<1>1. PurgeInit => PurgeInv
  BY PurgeStarts
<1>2. PurgeInv /\ [PurgeNext]_purgeVars => PurgeInv'
  BY PurgeStep, PurgeStutters
<1>3. QED
  BY <1>1, <1>2, PTL DEF PurgeSpec

\* The rows of the companies and of their business keep their types.
THEOREM PurgeTypes == PurgeSpec => []PurgeTypeOK
<1>1. PurgeInv => PurgeTypeOK
  <2>1. SUFFICES ASSUME PurgeInv PROVE PurgeTypeOK
    OBVIOUS
  <2>2. PurgeTyped /\ LocksAreSound /\ ClerkIsSound
    BY <2>1 DEF PurgeInv
  <2>3. clerk = NoClerk \/ clerk \in [kind : {"claim", "settle", "return"}, deal : Done]
    BY <2>2 DEF PurgeTyped, ClerkIsSound
  <2>4. /\ purge.locked.deals \subseteq Deals /\ purge.locked.rewards \subseteq purge.locked.deals
        /\ purge.entries \subseteq Entry /\ purge.rounds <= MaxRounds
    BY <2>2, PurgeAssumption DEF PurgeTyped, LocksAreSound, Found
  <2>5. QED
    BY <2>2, <2>3, <2>4 DEF PurgeTyped, PurgeTypeOK
<1>2. QED
  BY <1>1, AlwaysPurge, PTL

\* Also while a test company is deleted, and whatever is corrected by hand meanwhile, the
\* points of a company are what its entries add up to, and the entries those of the
\* deals there are.
THEOREM BooksMatch == PurgeSpec => []BooksMatchDeals
<1>1. PurgeInv => BooksMatchDeals
  BY DEF PurgeInv, BooksAreSound, AccountsAreSound, EntryIsSound, DealIsBooked, BooksMatchDeals
<1>2. QED
  BY <1>1, AlwaysPurge, PTL

\* No lead is left out with a deal that is deleted, or a duplicate of nothing.
THEOREM LeadsUsable == PurgeSpec => []LeadsStayUsable
<1>1. PurgeInv => LeadsStayUsable
  <2>1. SUFFICES ASSUME PurgeInv, NEW l \in InStock, ~stock[l].gone
                 PROVE  /\ stock[l].status = "OUT" <=> stock[l].on # "none"
                        /\ stock[l].on # "none" => deal[stock[l].on].lead = l
                        /\ stock[l].status = "DUPLICATE" => InStock # {l}
    BY DEF LeadsStayUsable
  <2>2. LeadIsUsable(l)
    BY <2>1 DEF PurgeInv
  <2>3. QED
    BY <2>1, <2>2 DEF LeadIsUsable
<1>2. QED
  BY <1>1, AlwaysPurge, PTL

-----------------------------------------------------------------------------
\* What the purge of a company with withdrawals lacks is all it lacks: a company that
\* never withdrew points is deleted by every purge that has locked everything, unless
\* somebody posted on an account it did not expect.
THEOREM OnlyWithdrawalsKeep == PurgeSpec /\ []("t" \notin cashed) => MarkedCompanyCanBeDeleted
<1>1. PurgeInv /\ "t" \notin cashed /\ [PurgeNext]_purgeVars =>
        [purge.phase = "read" /\ purge' = NoPurge => party'.gone \/ ScopeChanged]_purgeVars
  <2>1. SUFFICES ASSUME PurgeInv, "t" \notin cashed, PurgeNext, purge.phase = "read", purge' = NoPurge
                 PROVE  party'.gone \/ ScopeChanged
    OBVIOUS
  <2>2. purge' # purge
    BY <2>1, NoPurgeParts
  <2>3. PurgeRefused \/ Delete
    BY <2>1, <2>2 DEF PurgeNext, Enter, SendOn, DeleteGoods, Dispatch, Take, Write, Correct, CashIn,
       SetPartyStatus, Preview, MarkCompany, StartPurge, LockScope, PurgeBusy, LastRound, ReadLedger, NoPurge
  <2>4. CASE PurgeRefused
    BY <2>1, <2>4 DEF PurgeRefused
  <2>5. CASE Delete
    BY <2>1, <2>5 DEF Delete, PurgeInv, PurgeTyped
  <2>6. QED
    BY <2>3, <2>4, <2>5
<1>2. QED
  BY <1>1, AlwaysPurge, PTL DEF PurgeSpec, MarkedCompanyCanBeDeleted
=============================================================================
