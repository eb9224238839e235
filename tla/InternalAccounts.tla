-------------------------- MODULE InternalAccounts --------------------------
(***************************************************************************)
(* The internal accounts of the platform: the first super admin, the       *)
(* accounts the super admins manage, their sessions and the lockout of     *)
(* the password (internal_user_management.py, auth_service.py,             *)
(* routers/auth.py, superadmin_bootstrap.py, rbac.py).                     *)
(*                                                                         *)
(* A handler that locks the row of the account is one step.  Three are     *)
(* not: a change of role or status holds the advisory lock of the roster   *)
(* from its check to its commit, a logout writes the version it read       *)
(* without a lock, and a role migration is planned before it is applied.   *)
(***************************************************************************)
EXTENDS Naturals, FiniteSets

CONSTANTS
  Users,          \* rows of the table users without a company
  Browsers,       \* holders of an access token
  Desks,          \* requests in progress at a time
  MaxFailures,    \* login_max_failed_attempts
  MaxVersion      \* bound of the model: session versions of a user

ASSUME InternalAssumption == MaxFailures \in Nat \ {0} /\ MaxVersion \in Nat

VARIABLES
  rbac,           \* how the rows of the fixed roles compare with the code
  user,           \* user[u]: status, roles, session_version, is_test
  guard,          \* guard[u]: the row of auth_login_state
  session,        \* session[b]: the token of b
  desk,           \* desk[d]: the request of d
  cited,          \* users whom business rows refer to
  overtaken,      \* history: users whose logout was overtaken
  demoted,        \* history: a role migration took the rights of the super admins
  tries           \* history: wrong passwords judged since the last pause or success

internalVars == <<rbac, user, guard, session, desk, cited, overtaken, demoted, tries>>

-----------------------------------------------------------------------------
InternalRoles == {"SUPER_ADMIN", "OPERATION"}       \* TELESALES is like OPERATION
AllRoles == InternalRoles \cup {"LEGACY"}           \* a role of before the five

User == [status : {"NONE", "ACTIVE", "DISABLED", "DELETED"}, roles : SUBSET AllRoles,
         version : 0..MaxVersion, test : BOOLEAN]
Nobody == [status |-> "NONE", roles |-> {}, version |-> 0, test |-> FALSE]
Managed(r) == [Nobody EXCEPT !.status = "ACTIVE", !.roles = {r}]

LoginState == [count : 0..MaxFailures, recent : BOOLEAN, lock : {"none", "on", "over"}]
Clear == [count |-> 0, recent |-> FALSE, lock |-> "none"]

\* "ended" is what the owner of the token was told.
NoSession == [of |-> "none", version |-> 0, ended |-> FALSE]
Session == {NoSession} \cup [of : Users, version : 0..MaxVersion, ended : BOOLEAN]

AtEase == [kind |-> "none"]
Desk ==
  {AtEase} \cup [kind : {"roles"}, of : Users, role : InternalRoles]
           \cup [kind : {"status"}, of : Users, status : {"ACTIVE", "DISABLED"}]
           \cup [kind : {"logout"}, of : Users, version : 0..MaxVersion]
           \cup [kind : {"migration"}, to : UNION {[U -> InternalRoles] : U \in SUBSET Users}]

\* A migrated database without an account, or one with accounts of before the five roles.
InternalInit ==
  /\ rbac \in {"absent", "drifted"}
  /\ user \in [Users -> {Nobody} \cup
       {[Nobody EXCEPT !.status = "ACTIVE", !.roles = R] : R \in {{"SUPER_ADMIN"}, {"OPERATION", "LEGACY"}}}]
  /\ rbac = "absent" => \A u \in Users : user[u] = Nobody
  /\ rbac = "drifted" => \E u \in Users : user[u].roles = {"SUPER_ADMIN"}
  /\ guard = [u \in Users |-> Clear]
  /\ session = [b \in Browsers |-> NoSession]
  /\ desk = [d \in Desks |-> AtEase]
  /\ cited = {} /\ overtaken = {} /\ demoted = FALSE
  /\ tries = [u \in Users |-> 0]

-----------------------------------------------------------------------------
Exists(u) == user[u].status \in {"ACTIVE", "DISABLED"}

\* has_exactly_one_active_business_role
OneRole(u) == \E r \in InternalRoles : user[u].roles = {r}

\* _is_internal_user
Internal(u) == user[u].roles \subseteq InternalRoles

\* load_current_principal.  Fault: only the account is asked, not its version.
ValidByAccount(b) ==
  session[b] # NoSession /\ user[session[b].of].status = "ACTIVE" /\ OneRole(session[b].of)
Valid(b) ==
  /\ session[b] # NoSession
  /\ LET u == session[b].of
     IN user[u].status = "ACTIVE" /\ user[u].version = session[b].version /\ OneRole(u)

\* A handler of routers/users.py asks for the permission "*".
Asked == rbac = "exact" /\ \E b \in Browsers : Valid(b) /\ user[session[b].of].roles = {"SUPER_ADMIN"}

\* _active_superadmins
ActiveSuperadmins == {u \in Users : user[u].status = "ACTIVE" /\ Internal(u) /\ "SUPER_ADMIN" \in user[u].roles}

\* The advisory lock of the roster.
RosterFree == \A d \in Desks : desk[d].kind \notin {"roles", "status"}

\* Rows a change in progress has locked: its account, and the whole roster when it
\* had to be counted.
Withdraws(d) ==
  \/ desk[d].kind = "roles" /\ desk[d].role # "SUPER_ADMIN"
  \/ desk[d].kind = "status" /\ desk[d].status = "DISABLED"
LockedBy(d) ==
  IF desk[d].kind \notin {"roles", "status"} THEN {}
  ELSE {desk[d].of} \cup
       (IF Withdraws(d) /\ desk[d].of \in ActiveSuperadmins THEN ActiveSuperadmins ELSE {})
RowFree(u) == \A d \in Desks : u \notin LockedBy(d)

\* Everybody who holds a token of u is told that it is over.
Over(U) == session' = [b \in Browsers |->
  IF session[b].of \in U THEN [session[b] EXCEPT !.ended = TRUE] ELSE session[b]]

Raised(u) == user[u].version + 1

-----------------------------------------------------------------------------
\* Roles of the code, and the first account.

\* seed_rbac, by sync_rbac.py or by an instance that is not in production.
SyncRbac ==
  /\ rbac # "exact"
  /\ rbac' = "exact"
  /\ UNCHANGED <<user, guard, session, desk, cited, overtaken, demoted, tries>>

\* bootstrap_superadmin, in a database without an account.
Bootstrap(u) ==
  /\ \A v \in Users : user[v] = Nobody
  /\ user' = [user EXCEPT ![u] = Managed("SUPER_ADMIN")]
  /\ rbac' = "exact"
  /\ UNCHANGED <<guard, session, desk, cited, overtaken, demoted, tries>>

-----------------------------------------------------------------------------
\* Passwords.  What counts is whether a password is right.

\* The failures of before count no more.
Forgotten(u) == guard[u].lock = "over" \/ ~guard[u].recent

\* A wrong password is counted, at the login and wherever one is asked for.  Fault: the
\* lock comes one failure late.
FailedOnceMore(u) ==
  LET n == IF Forgotten(u) THEN 1 ELSE guard[u].count + 1
  IN [count |-> n, recent |-> TRUE, lock |-> IF n > MaxFailures THEN "on" ELSE "none"]
Failed(u) ==
  LET n == IF Forgotten(u) THEN 1 ELSE guard[u].count + 1
  IN [count |-> n, recent |-> TRUE, lock |-> IF n >= MaxFailures THEN "on" ELSE "none"]

WrongPassword(u) ==
  /\ Exists(u) /\ RowFree(u) /\ guard[u].lock # "on"
  /\ guard' = [guard EXCEPT ![u] = Failed(u)]
  /\ tries' = [tries EXCEPT ![u] = @ + 1]

\* authenticate_internal with a wrong password
LoginFails(u) ==
  /\ WrongPassword(u)
  /\ UNCHANGED <<rbac, user, session, desk, cited, overtaken, demoted>>

Pardon(u) ==
  /\ guard' = [guard EXCEPT ![u] = Clear]
  /\ tries' = [tries EXCEPT ![u] = 0]

\* ... with the right one.  A disabled account learns nothing; an account without one
\* role has its failures forgotten, and is refused.
LoginSucceeds(b, u) ==
  /\ Exists(u) /\ RowFree(u) /\ guard[u].lock # "on"
  /\ IF user[u].status = "ACTIVE" \/ Forgotten(u) THEN Pardon(u) ELSE UNCHANGED <<guard, tries>>
  /\ session' = IF user[u].status = "ACTIVE" /\ OneRole(u)
                THEN [session EXCEPT ![b] = [of |-> u, version |-> user[u].version, ended |-> FALSE]]
                ELSE session
  /\ UNCHANGED <<rbac, user, desk, cited, overtaken, demoted>>

\* verify_internal_password_for_sensitive_action with a wrong password
ConfirmationFails(b) ==
  /\ Valid(b)
  /\ WrongPassword(session[b].of)
  /\ UNCHANGED <<rbac, user, session, desk, cited, overtaken, demoted>>

\* change_own_username: nothing here but the confirmation.
ChangeUsername(b) ==
  /\ Valid(b)
  /\ RowFree(session[b].of) /\ guard[session[b].of].lock # "on"
  /\ Pardon(session[b].of)
  /\ UNCHANGED <<rbac, user, session, desk, cited, overtaken, demoted>>

\* change_own_password: this browser goes on with a new token.
ChangePassword(b) ==
  LET u == session[b].of
  IN /\ Valid(b)
     /\ RowFree(u) /\ guard[u].lock # "on" /\ Raised(u) <= MaxVersion
     /\ Pardon(u)
     /\ user' = [user EXCEPT ![u].version = Raised(u)]
     /\ session' = [c \in Browsers |->
          IF c = b THEN [session[b] EXCEPT !.version = Raised(u)]
          ELSE IF session[c].of = u THEN [session[c] EXCEPT !.ended = TRUE] ELSE session[c]]
     /\ UNCHANGED <<rbac, desk, cited, overtaken, demoted>>

\* The window of the failures, or the lock, runs out.
WindowPasses(u) ==
  /\ guard[u].recent
  /\ guard' = [guard EXCEPT ![u].recent = FALSE]
  /\ tries' = [tries EXCEPT ![u] = 0]
  /\ UNCHANGED <<rbac, user, session, desk, cited, overtaken, demoted>>

LockEnds(u) ==
  /\ guard[u].lock = "on"
  /\ guard' = [guard EXCEPT ![u].lock = "over"]
  /\ tries' = [tries EXCEPT ![u] = 0]
  /\ UNCHANGED <<rbac, user, session, desk, cited, overtaken, demoted>>

-----------------------------------------------------------------------------
\* Sessions.

\* logout reads the version ...
BeginLogout(d, b) ==
  /\ desk[d] = AtEase /\ Valid(b)
  /\ desk' = [desk EXCEPT ![d] =
       [kind |-> "logout", of |-> session[b].of, version |-> session[b].version]]
  /\ UNCHANGED <<rbac, user, guard, session, cited, overtaken, demoted, tries>>

\* ... and writes the next one, whatever the version is now.
FinishLogout(d) ==
  LET u == desk[d].of
      v == desk[d].version
  IN /\ desk[d].kind = "logout" /\ Exists(u) /\ RowFree(u)
     /\ v < MaxVersion
     /\ user' = [user EXCEPT ![u].version = v + 1]
     /\ overtaken' = IF user[u].version # v THEN overtaken \cup {u} ELSE overtaken
     /\ session' = [b \in Browsers |->
          IF session[b].of = u /\ session[b].version = v
          THEN [session[b] EXCEPT !.ended = TRUE] ELSE session[b]]
     /\ desk' = [desk EXCEPT ![d] = AtEase]
     /\ UNCHANGED <<rbac, guard, cited, demoted, tries>>

\* A request in progress fails.
LeaveDesk(d) ==
  /\ desk[d] # AtEase
  /\ desk' = [desk EXCEPT ![d] = AtEase]
  /\ UNCHANGED <<rbac, user, guard, session, cited, overtaken, demoted, tries>>

-----------------------------------------------------------------------------
\* The accounts, managed by a super admin.

\* create_managed_internal_user: only a super admin is added under the lock.
CreateUser(u, r) ==
  /\ Asked /\ user[u] = Nobody
  /\ r = "SUPER_ADMIN" => RosterFree
  /\ \E test \in BOOLEAN : user' = [user EXCEPT ![u] = [Managed(r) EXCEPT !.test = test]]
  /\ UNCHANGED <<rbac, guard, session, desk, cited, overtaken, demoted, tries>>

\* _protect_last_superadmin.  Fault: disabled super admins are counted too.
SparedByAnybody(u) ==
  u \in ActiveSuperadmins => Cardinality({v \in Users : "SUPER_ADMIN" \in user[v].roles}) > 1
Spared(u) == u \in ActiveSuperadmins => Cardinality(ActiveSuperadmins) > 1

\* update_internal_roles takes the lock of the roster and the rows, and checks ...
BeginRoles(d, u, r) ==
  /\ Asked /\ desk[d] = AtEase /\ RosterFree
  /\ Exists(u) /\ RowFree(u) /\ Internal(u) /\ user[u].roles # {r}
  /\ "SUPER_ADMIN" \in user[u].roles /\ r # "SUPER_ADMIN" => Spared(u)
  /\ desk' = [desk EXCEPT ![d] = [kind |-> "roles", of |-> u, role |-> r]]
  /\ UNCHANGED <<rbac, user, guard, session, cited, overtaken, demoted, tries>>

\* ... and commits.
FinishRoles(d) ==
  LET u == desk[d].of
  IN /\ desk[d].kind = "roles" /\ Raised(u) <= MaxVersion
     /\ user' = [user EXCEPT ![u].roles = {desk[d].role}, ![u].version = Raised(u)]
     /\ Over({u})
     /\ desk' = [desk EXCEPT ![d] = AtEase]
     /\ UNCHANGED <<rbac, guard, cited, overtaken, demoted, tries>>

\* set_internal_user_status, in the same way.
BeginStatus(d, u, s) ==
  /\ Asked /\ desk[d] = AtEase /\ RosterFree
  /\ Exists(u) /\ RowFree(u) /\ Internal(u) /\ user[u].status # s
  /\ s = "DISABLED" => Spared(u)
  /\ desk' = [desk EXCEPT ![d] = [kind |-> "status", of |-> u, status |-> s]]
  /\ UNCHANGED <<rbac, user, guard, session, cited, overtaken, demoted, tries>>

FinishStatus(d) ==
  LET u == desk[d].of
  IN /\ desk[d].kind = "status" /\ Raised(u) <= MaxVersion
     /\ user' = [user EXCEPT ![u].status = desk[d].status, ![u].version = Raised(u)]
     /\ Over({u})
     /\ desk' = [desk EXCEPT ![d] = AtEase]
     /\ UNCHANGED <<rbac, guard, cited, overtaken, demoted, tries>>

\* reset_internal_password leaves the failures as they are.
ResetPassword(u) ==
  /\ Asked /\ Exists(u) /\ RowFree(u) /\ Internal(u) /\ Raised(u) <= MaxVersion
  /\ user' = [user EXCEPT ![u].version = Raised(u)]
  /\ Over({u})
  /\ UNCHANGED <<rbac, guard, desk, cited, overtaken, demoted, tries>>

\* A lead, a task or a review refers to the account from now on.
Cite(u) ==
  /\ Exists(u) /\ RowFree(u) /\ u \notin cited
  /\ cited' = cited \cup {u}
  /\ UNCHANGED <<rbac, user, guard, session, desk, overtaken, demoted, tries>>

\* mark_internal_user_as_test
MayBeMarked(u) ==
  RowFree(u) /\ Internal(u) /\ user[u].status = "DISABLED" /\ ~user[u].test /\ u \notin cited

MarkTest(u) ==
  /\ Asked /\ MayBeMarked(u)
  /\ user' = [user EXCEPT ![u].test = TRUE]
  /\ UNCHANGED <<rbac, guard, session, desk, cited, overtaken, demoted, tries>>

\* delete_test_internal_user
MayBeDeleted(u) ==
  RowFree(u) /\ Internal(u) /\ user[u].status = "DISABLED" /\ user[u].test /\ u \notin cited

DeleteUser(u) ==
  /\ Asked /\ MayBeDeleted(u)
  /\ user' = [user EXCEPT ![u] = [Nobody EXCEPT !.status = "DELETED"]]
  /\ guard' = [guard EXCEPT ![u] = Clear]
  /\ tries' = [tries EXCEPT ![u] = 0]
  /\ UNCHANGED <<rbac, session, desk, cited, overtaken, demoted>>

-----------------------------------------------------------------------------
\* migrate_five_role_accounts.py: the mapping of a person must cover every account
\* without one role, and knows nothing of the roster ...
PlanMigration(d) ==
  \E U \in SUBSET Users : \E to \in [U -> InternalRoles] :
    /\ desk[d] = AtEase
    /\ \A u \in U : Exists(u) /\ user[u].roles # {to[u]}
    /\ U # {} /\ \A u \in Users : Exists(u) => OneRole(u) \/ u \in U
    /\ desk' = [desk EXCEPT ![d] = [kind |-> "migration", to |-> to]]
    /\ UNCHANGED <<rbac, user, guard, session, cited, overtaken, demoted, tries>>

\* ... and it is applied to the accounts as they are.
ApplyMigration(d) ==
  LET to == desk[d].to
      Changed == {u \in DOMAIN to : user[u].roles # {to[u]}}
  IN /\ desk[d].kind = "migration"
     /\ \A u \in DOMAIN to : Exists(u) /\ RowFree(u) /\ (u \in Changed => Raised(u) <= MaxVersion)
     /\ user' = [u \in Users |->
          IF u \in Changed THEN [user[u] EXCEPT !.roles = {to[u]}, !.version = Raised(u)] ELSE user[u]]
     /\ rbac' = "exact"
     /\ demoted' = (demoted \/ \E u \in Changed : u \in ActiveSuperadmins)
     /\ Over(Changed)
     /\ desk' = [desk EXCEPT ![d] = AtEase]
     /\ UNCHANGED <<guard, cited, overtaken, tries>>

-----------------------------------------------------------------------------
InternalNext ==
  \/ SyncRbac
  \/ \E u \in Users :
       \/ Bootstrap(u) \/ LoginFails(u) \/ WindowPasses(u) \/ LockEnds(u)
       \/ ResetPassword(u) \/ Cite(u) \/ MarkTest(u) \/ DeleteUser(u)
       \/ \E b \in Browsers : LoginSucceeds(b, u)
       \/ \E r \in InternalRoles : CreateUser(u, r)
  \/ \E b \in Browsers : ConfirmationFails(b) \/ ChangeUsername(b) \/ ChangePassword(b)
  \/ \E d \in Desks :
       \/ \E b \in Browsers : BeginLogout(d, b)
       \/ \E u \in Users, r \in InternalRoles : BeginRoles(d, u, r)
       \/ \E u \in Users, s \in {"ACTIVE", "DISABLED"} : BeginStatus(d, u, s)
       \/ FinishLogout(d) \/ FinishRoles(d) \/ FinishStatus(d) \/ LeaveDesk(d)
       \/ PlanMigration(d) \/ ApplyMigration(d)

InternalSpec == InternalInit /\ [][InternalNext]_internalVars

-----------------------------------------------------------------------------
InternalTypeOK ==
  /\ rbac \in {"absent", "drifted", "exact"}
  /\ user \in [Users -> User]
  /\ guard \in [Users -> LoginState]
  /\ session \in [Browsers -> Session]
  /\ desk \in [Desks -> Desk]
  /\ cited \subseteq Users /\ overtaken \subseteq Users /\ demoted \in BOOLEAN
  /\ tries \in [Users -> 0..MaxFailures]

\* Two super admins who withdraw the rights of each other at the same time leave one:
\* the platform can always be administered.  Only a role migration, which does not
\* know the roster, can end this.  (LAST_SUPER_ADMIN_REQUIRED)
SomebodyAdministers ==
  ~demoted => (\A u \in Users : user[u] = Nobody) \/ ActiveSuperadmins # {}

\* A session that was ended, by a logout, a new password, or a change of role or
\* status, does not come back, also when the account is enabled again.  Excepted is
\* who logged out while somebody else ended his sessions: the version he writes may
\* be one of before.  (get_valid_session_user, "every global session invalidation rule")
EndedSessionsStayEnded ==
  \A b \in Browsers : Valid(b) /\ session[b].ended => session[b].of \in overtaken

\* Wherever the password is asked for, no more than MaxFailures wrong ones in a row are
\* judged before a pause.  (AUTH_LOGIN_LOCKED, AUTH_SENSITIVE_ACTION_LOCKED)
GuessesAreBounded ==
  \A u \in Users : tries[u] <= MaxFailures /\ (tries[u] = MaxFailures => guard[u].lock = "on")
=============================================================================
