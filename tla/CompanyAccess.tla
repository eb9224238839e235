--------------------------- MODULE CompanyAccess ---------------------------
(***************************************************************************)
(* Who may act for a franchise company: the invitation that binds its      *)
(* owner's WeChat, the accounts of owner and employees, the requests of    *)
(* the owner about them, and the leads handed to one of them               *)
(* (auth_service.py, company_account_management.py, company_service.py,    *)
(* company_assignment_v12.py).                                             *)
(*                                                                         *)
(* A handler that locks the row of the company is one step.  Three are     *)
(* not: a binding looks up the WeChat identity and the invitation before   *)
(* it locks, the update of a company locks nothing and revokes the         *)
(* invitations before it writes the status, and the assignment of a lead   *)
(* inside the company locks that lead but not the employee.                *)
(***************************************************************************)
EXTENDS Naturals

CONSTANTS
  Companies,    \* rows of the table companies
  Accounts,     \* rows of the table users that belong to a company
  Openids,      \* WeChat identities
  Invites,      \* rows of the table invite_tokens
  Works,        \* assignments of leads to companies
  Asks,         \* rows of the table company_account_requests
  Clerks        \* requests in progress at a time

ASSUME AccessAssumption == "none" \notin Companies \cup Accounts

VARIABLES
  company,      \* company[k]: status and primary_user_id
  account,      \* account[p]: status, company and role
  identity,     \* identity[o]: the account openid o is bound to
  invite,       \* invite[i]: its company, its marks and who used it
  work,         \* work[w]: the assignment and its internal assignee
  ask,          \* ask[q]: a request of the owner about an employee
  clerk,        \* clerk[c]: the request of c
  late,         \* history: works that came, or came back, to somebody disabled
  retired       \* history: owners whose WeChat was unbound

accessVars == <<company, account, identity, invite, work, ask, clerk, late, retired>>

-----------------------------------------------------------------------------
Somebody == Accounts \cup {"none"}
Somewhere == Companies \cup {"none"}

Company == [status : {"ACTIVE", "PENDING", "DISABLED", "DELETED"}, primary : Somebody]
Account ==
  [status : {"NONE", "ACTIVE", "DISABLED"}, of : Somewhere, role : {"none", "OWNER", "EMPLOYEE"}]
Invite == [of : Somewhere, used : BOOLEAN, revoked : BOOLEAN, expired : BOOLEAN, by : Somebody]

\* HELD stands for CLAIMED, FOLLOWING and RETURN_PENDING.
Work ==
  [status : {"NONE", "PENDING", "HELD", "COMPLETED", "ENDED"}, of : Somewhere, assignee : Somebody]

\* Without a target the request is for a new employee.
Ask == [status : {"NONE", "PENDING", "APPROVED", "REJECTED", "DELETED"}, of : Somewhere, target : Somebody]

NoAccount == [status |-> "NONE", of |-> "none", role |-> "none"]
NewInvite(k) == [of |-> k, used |-> FALSE, revoked |-> FALSE, expired |-> FALSE, by |-> "none"]
NoInvite == NewInvite("none")
NoWork == [status |-> "NONE", of |-> "none", assignee |-> "none"]
NoAsk == [status |-> "NONE", of |-> "none", target |-> "none"]
Free == [kind |-> "free"]

Clerk ==
  {Free} \cup [kind : {"bind"}, openid : Openids, invite : Invites]
         \cup [kind : {"update"}, of : Companies, status : {"ACTIVE", "PENDING", "DISABLED"},
               revoking : SUBSET Invites]
         \cup [kind : {"assign"}, work : Works, to : Somebody]

\* create_simple_company leaves the owner open.
AccessInit ==
  /\ company = [k \in Companies |-> [status |-> "ACTIVE", primary |-> "none"]]
  /\ account = [p \in Accounts |-> NoAccount]
  /\ identity = [o \in Openids |-> "none"]
  /\ invite = [i \in Invites |-> NoInvite]
  /\ work = [w \in Works |-> NoWork]
  /\ ask = [q \in Asks |-> NoAsk]
  /\ clerk = [c \in Clerks |-> Free]
  /\ late = {} /\ retired = {}

-----------------------------------------------------------------------------
Staff(k, role) ==
  {p \in Accounts : account[p].status = "ACTIVE" /\ account[p].of = k /\ account[p].role = role}
Members(k) == {p \in Accounts : account[p].of = k}
Bound(p) == \E o \in Openids : identity[o] = p

Usable(i) == invite[i].of # "none" /\ ~invite[i].used /\ ~invite[i].revoked /\ ~invite[i].expired
Invited(k) == {i \in Invites : invite[i].of = k /\ Usable(i)}

\* An update that is not committed keeps the invitations it revoked locked.
InviteLocked(i) == \E c \in Clerks : clerk[c].kind = "update" /\ i \in clerk[c].revoking
WorkLocked(w) == \E c \in Clerks : clerk[c].kind = "assign" /\ clerk[c].work = w

Revoke(I) == invite' = [i \in Invites |-> IF i \in I THEN [invite[i] EXCEPT !.revoked = TRUE] ELSE invite[i]]

\* Fault: nobody asks again, under the lock, whether the company has an owner.
MayClaimBlindly(k, o) == identity[o] = "none"

HasNoOwner(k) == Staff(k, "OWNER") = {}

\* Fault: a lead that is not claimed yet does not keep its employee.
ClaimedOnly == {"HELD"}
BlockingStatuses == {"PENDING", "HELD"}

-----------------------------------------------------------------------------
\* Invitations.

\* create_company_invite supersedes the one before.
CreateInvite(k, i) ==
  /\ invite[i] = NoInvite
  /\ company[k].status = "ACTIVE" /\ company[k].primary = "none"
  /\ \A j \in Invited(k) : ~InviteLocked(j)
  /\ invite' = [j \in Invites |->
       IF j = i THEN NewInvite(k)
       ELSE IF j \in Invited(k) THEN [invite[j] EXCEPT !.revoked = TRUE] ELSE invite[j]]
  /\ UNCHANGED <<company, account, identity, work, ask, clerk, late, retired>>

\* revoke_company_invite locks the invitation.
RevokeCompanyInvite(i) ==
  /\ Usable(i) /\ ~InviteLocked(i)
  /\ Revoke({i})
  /\ UNCHANGED <<company, account, identity, work, ask, clerk, late, retired>>

InviteExpires(i) ==
  /\ Usable(i)
  /\ invite' = [invite EXCEPT ![i].expired = TRUE]
  /\ UNCHANGED <<company, account, identity, work, ask, clerk, late, retired>>

\* login_or_bind_wechat reads identity and invitation, and locks the company.
BeginBinding(c, o, i) ==
  /\ clerk[c] = Free
  /\ identity[o] = "none" /\ Usable(i) /\ company[invite[i].of].status = "ACTIVE"
  /\ clerk' = [clerk EXCEPT ![c] = [kind |-> "bind", openid |-> o, invite |-> i]]
  /\ UNCHANGED <<company, account, identity, invite, work, ask, late, retired>>

\* The primary account is still to be had, and the openid, which is unique, too.
MayClaim(k, o) == company[k].status = "ACTIVE" /\ company[k].primary = "none" /\ identity[o] = "none"

\* The rest of it: the invitation is consumed, the owner's account made, and the
\* primary account claimed.  A WeChat that was bound meanwhile is only logged in.
FinishBinding(c, p) ==
  LET o == clerk[c].openid
      i == clerk[c].invite
      k == invite[i].of
  IN /\ clerk[c].kind = "bind"
     /\ Usable(i) /\ ~InviteLocked(i)
     /\ MayClaim(k, o)
     /\ account[p] = NoAccount
     /\ account' = [account EXCEPT ![p] = [status |-> "ACTIVE", of |-> k, role |-> "OWNER"]]
     /\ company' = [company EXCEPT ![k].primary = p]
     /\ identity' = [identity EXCEPT ![o] = p]
     /\ invite' = [invite EXCEPT ![i] = [@ EXCEPT !.used = TRUE, !.by = p]]
     /\ clerk' = [clerk EXCEPT ![c] = Free]
     /\ UNCHANGED <<work, ask, late, retired>>

\* A request is refused, or ends in a login, a conflict or a deadlock.
GiveUp(c) ==
  /\ clerk[c] # Free
  /\ clerk' = [clerk EXCEPT ![c] = Free]
  /\ UNCHANGED <<company, account, identity, invite, work, ask, late, retired>>

-----------------------------------------------------------------------------
\* The company.

\* update_company sends the revocations; the status it compares with was read before,
\* so a company may be disabled a second time ...
BeginUpdate(c, k, s) ==
  /\ clerk[c] = Free /\ company[k].status # "DELETED"
  /\ s = company[k].status => s = "DISABLED"
  /\ \A i \in Invited(k) : s = "DISABLED" => ~InviteLocked(i)
  /\ clerk' = [clerk EXCEPT ![c] =
       [kind |-> "update", of |-> k, status |-> s,
        revoking |-> IF s = "DISABLED" THEN Invited(k) ELSE {}]]
  /\ UNCHANGED <<company, account, identity, invite, work, ask, late, retired>>

\* ... and writes the status at the commit.
FinishUpdate(c) ==
  /\ clerk[c].kind = "update" /\ company[clerk[c].of].status # "DELETED"
  /\ company' = [company EXCEPT ![clerk[c].of].status = clerk[c].status]
  /\ Revoke(clerk[c].revoking)
  /\ clerk' = [clerk EXCEPT ![c] = Free]
  /\ UNCHANGED <<account, identity, work, ask, late, retired>>

\* unbind_company_owner_wechat
Unbind(k) ==
  LET p == company[k].primary
      dead == {i \in Invites : invite[i].of = k /\ ~invite[i].used}
  IN /\ company[k].status = "DISABLED" /\ p # "none" /\ Bound(p)
     /\ \A i \in dead : ~InviteLocked(i)
     /\ company' = [company EXCEPT ![k].primary = "none"]
     /\ account' = [account EXCEPT ![p].status = "DISABLED"]
     /\ identity' = [o \in Openids |-> IF identity[o] = p THEN "none" ELSE identity[o]]
     /\ Revoke(dead)
     /\ retired' = retired \cup {p}
     /\ UNCHANGED <<work, ask, clerk, late>>

\* delete_test_company: the members stay as disabled accounts of nobody.
DeleteTestCompany(k) ==
  /\ company[k].status = "DISABLED"
  /\ \A i \in Invites : invite[i].of = k => ~InviteLocked(i)
  /\ \A w \in Works : work[w].of = k => ~WorkLocked(w)
  /\ company' = [company EXCEPT ![k] = [status |-> "DELETED", primary |-> "none"]]
  /\ account' = [p \in Accounts |->
       IF p \in Members(k) THEN [account[p] EXCEPT !.status = "DISABLED", !.of = "none"] ELSE account[p]]
  /\ identity' = [o \in Openids |-> IF identity[o] \in Members(k) THEN "none" ELSE identity[o]]
  /\ invite' = [i \in Invites |->
       IF invite[i].of = k THEN [invite[i] EXCEPT !.of = "none", !.revoked = TRUE] ELSE invite[i]]
  /\ work' = [w \in Works |->
       IF work[w].of = k THEN [work[w] EXCEPT !.status = "ENDED", !.of = "none"] ELSE work[w]]
  /\ ask' = [q \in Asks |->
       IF ask[q].of = k THEN [ask[q] EXCEPT !.status = "DELETED", !.of = "none"] ELSE ask[q]]
  /\ late' = {w \in late : work[w].of # k}
  /\ UNCHANGED <<clerk, retired>>

-----------------------------------------------------------------------------
\* Accounts, and the requests about them.

\* create_company_account: a new owner becomes the primary account.
NewAccount(k, p, role) ==
  /\ account[p] = NoAccount /\ company[k].status = "ACTIVE"
  /\ IF role = "OWNER" THEN HasNoOwner(k) ELSE ~HasNoOwner(k)
  /\ account' = [account EXCEPT ![p] = [status |-> "ACTIVE", of |-> k, role |-> role]]
  /\ company' = IF role = "OWNER" THEN [company EXCEPT ![k].primary = p] ELSE company

CreateAccount(k, p, role) ==
  /\ NewAccount(k, p, role)
  /\ UNCHANGED <<identity, invite, work, ask, clerk, late, retired>>

\* has_active_internal_assignments
HasOpenWork(p) ==
  \E w \in Works : work[w].assignee = p /\ work[w].of = account[p].of /\ work[w].status \in BlockingStatuses

\* set_company_account_status, under the lock of the company.
SetAccountStatus(p, s) ==
  /\ account[p].of # "none" /\ account[p].status # s
  /\ s = "DISABLED" =>
       /\ company[account[p].of].primary # p
       /\ account[p].role = "EMPLOYEE" => ~HasOpenWork(p)
  /\ account' = [account EXCEPT ![p].status = s]

EnableAccount(p) ==
  /\ SetAccountStatus(p, "ACTIVE")
  /\ late' = {w \in late : work[w].assignee # p}
  /\ UNCHANGED <<company, identity, invite, work, ask, clerk, retired>>

DisableAccount(p) ==
  /\ SetAccountStatus(p, "DISABLED")
  /\ UNCHANGED <<company, identity, invite, work, ask, clerk, late, retired>>

\* create_company_account_request, by the owner.
Request(k, q, p) ==
  /\ ask[q] = NoAsk /\ company[k].status = "ACTIVE" /\ ~HasNoOwner(k)
  /\ p # "none" =>
       /\ p \in Staff(k, "EMPLOYEE")
       /\ \A r \in Asks : ask[r].status = "PENDING" => ask[r].of # k \/ ask[r].target # p
  /\ ask' = [ask EXCEPT ![q] = [status |-> "PENDING", of |-> k, target |-> p]]
  /\ UNCHANGED <<company, account, identity, invite, work, clerk, late, retired>>

\* approve_company_account_request does what was asked for, under its rules.
Approve(q) ==
  /\ ask[q].status = "PENDING"
  /\ \/ /\ ask[q].target = "none"
        /\ \E p \in Accounts : NewAccount(ask[q].of, p, "EMPLOYEE")
     \/ /\ ask[q].target # "none"
        /\ SetAccountStatus(ask[q].target, "DISABLED")
        /\ UNCHANGED company
  /\ ask' = [ask EXCEPT ![q].status = "APPROVED"]
  /\ UNCHANGED <<identity, invite, work, clerk, late, retired>>

Reject(q) ==
  /\ ask[q].status = "PENDING"
  /\ ask' = [ask EXCEPT ![q].status = "REJECTED"]
  /\ UNCHANGED <<company, account, identity, invite, work, clerk, late, retired>>

-----------------------------------------------------------------------------
\* Leads handed to somebody of the company.

\* resolve_company_owner
OwnerOf(k, p) ==
  /\ p \in Staff(k, "OWNER")
  /\ p = company[k].primary \/ (company[k].primary \notin Staff(k, "OWNER") /\ Staff(k, "OWNER") = {p})

\* resolve_direct_dispatch_recipients: the owner only if there is no employee.
Recipient(k, p) ==
  /\ \E owner \in Accounts : OwnerOf(k, owner)
  /\ p \in Staff(k, "EMPLOYEE") \/ (OwnerOf(k, p) /\ Staff(k, "EMPLOYEE") = {})

\* dispatch_manually, under the lock of the company.
DispatchWork(w, k, p) ==
  /\ work[w] = NoWork /\ company[k].status = "ACTIVE" /\ Recipient(k, p)
  /\ work' = [work EXCEPT ![w] = [status |-> "PENDING", of |-> k, assignee |-> p]]
  /\ UNCHANGED <<company, account, identity, invite, ask, clerk, late, retired>>

\* Nobody but the assignee may claim.
ClaimWork(w) ==
  /\ work[w].status = "PENDING"
  /\ account[work[w].assignee].status = "ACTIVE" /\ company[work[w].of].status = "ACTIVE"
  /\ work' = [work EXCEPT ![w].status = "HELD"]
  /\ UNCHANGED <<company, account, identity, invite, ask, clerk, late, retired>>

\* The assignee can act no more, though he is an employee.
Disabled(p) == p # "none" /\ account[p].role = "EMPLOYEE" /\ account[p].status # "ACTIVE"

\* A deal, or the rejected return of what was completed.
CompleteWork(w) ==
  /\ work[w].status = "HELD" /\ ~WorkLocked(w)
  /\ work' = [work EXCEPT ![w].status = "COMPLETED"]
  /\ late' = late \ {w}
  /\ UNCHANGED <<company, account, identity, invite, ask, clerk, retired>>

\* submit_return_request takes completed work up again, as RETURN_PENDING, whoever
\* has it: he may have been disabled since, and his owner asks for the return.
ReturnCompletedWork(w) ==
  /\ work[w].status = "COMPLETED"
  /\ work' = [work EXCEPT ![w].status = "HELD"]
  /\ late' = IF Disabled(work[w].assignee) THEN late \cup {w} ELSE late
  /\ UNCHANGED <<company, account, identity, invite, ask, clerk, retired>>

\* Refusal, timeout, recall, an approved return, or the deletion of the lead.
EndWork(w) ==
  /\ work[w].status \in {"PENDING", "HELD", "COMPLETED"} /\ ~WorkLocked(w)
  /\ work' = [work EXCEPT ![w].status = "ENDED"]
  /\ late' = late \ {w}
  /\ UNCHANGED <<company, account, identity, invite, ask, clerk, retired>>

\* assign_internal_employee locks the work and reads the employee ...
BeginAssign(c, w, p) ==
  /\ clerk[c] = Free
  /\ work[w].status = "HELD" /\ ~WorkLocked(w)
  /\ company[work[w].of].status = "ACTIVE" /\ ~HasNoOwner(work[w].of)
  /\ p = "none" \/ p \in Staff(work[w].of, "EMPLOYEE")
  /\ clerk' = [clerk EXCEPT ![c] = [kind |-> "assign", work |-> w, to |-> p]]
  /\ UNCHANGED <<company, account, identity, invite, work, ask, late, retired>>

\* ... who may have been disabled when it commits.
FinishAssign(c) ==
  LET w == clerk[c].work
      p == clerk[c].to
  IN /\ clerk[c].kind = "assign"
     /\ work' = [work EXCEPT ![w].assignee = p]
     /\ late' = IF Disabled(p) THEN late \cup {w} ELSE late \ {w}
     /\ clerk' = [clerk EXCEPT ![c] = Free]
     /\ UNCHANGED <<company, account, identity, invite, ask, retired>>

-----------------------------------------------------------------------------
AccessNext ==
  \/ \E k \in Companies :
       \/ \E i \in Invites : CreateInvite(k, i)
       \/ Unbind(k) \/ DeleteTestCompany(k)
       \/ \E p \in Accounts, role \in {"OWNER", "EMPLOYEE"} : CreateAccount(k, p, role)
       \/ \E q \in Asks, p \in Somebody : Request(k, q, p)
       \/ \E w \in Works, p \in Accounts : DispatchWork(w, k, p)
  \/ \E i \in Invites : RevokeCompanyInvite(i) \/ InviteExpires(i)
  \/ \E p \in Accounts : EnableAccount(p) \/ DisableAccount(p)
  \/ \E q \in Asks : Approve(q) \/ Reject(q)
  \/ \E w \in Works : ClaimWork(w) \/ CompleteWork(w) \/ ReturnCompletedWork(w) \/ EndWork(w)
  \/ \E c \in Clerks :
       \/ \E o \in Openids, i \in Invites : BeginBinding(c, o, i)
       \/ \E p \in Accounts : FinishBinding(c, p)
       \/ \E k \in Companies, s \in {"ACTIVE", "PENDING", "DISABLED"} : BeginUpdate(c, k, s)
       \/ \E w \in Works, p \in Somebody : BeginAssign(c, w, p)
       \/ FinishUpdate(c) \/ FinishAssign(c) \/ GiveUp(c)

AccessSpec == AccessInit /\ [][AccessNext]_accessVars

-----------------------------------------------------------------------------
\* Type correctness.  Everything that is there belongs to a company, or did.
AccessTypeOK ==
  /\ company \in [Companies -> Company]
  /\ account \in [Accounts -> Account]
  /\ identity \in [Openids -> Somebody]
  /\ invite \in [Invites -> Invite]
  /\ work \in [Works -> Work]
  /\ ask \in [Asks -> Ask]
  /\ clerk \in [Clerks -> Clerk]
  /\ late \subseteq Works /\ retired \subseteq Accounts

\* The primary account is an owner of its company who is not disabled, and nobody
\* took its place: another owner is one who was unbound, and enabled again.
PrimaryLeads ==
  \A k \in Companies :
    /\ company[k].primary # "none" => company[k].primary \in Staff(k, "OWNER")
    /\ Staff(k, "OWNER") \subseteq {company[k].primary} \cup retired

\* Whoever is bound is the primary account of his company, by one WeChat.
BoundIsPrimary ==
  /\ \A o \in Openids : identity[o] # "none" =>
       \E k \in Companies : account[identity[o]].of = k /\ company[k].primary = identity[o]
  /\ \A o, u \in Openids : o # u /\ identity[o] = identity[u] => identity[o] = "none"

\* At most one invitation of a company can be used, and none once it is bound.
OneInvitation ==
  \A k \in Companies, i \in Invites : i \in Invited(k) =>
    /\ Invited(k) = {i}
    /\ \A p \in Members(k) : ~Bound(p)

\* An invitation admitted one account, and was not revoked afterwards.
UsedOnce ==
  \A i \in Invites : invite[i].used /\ invite[i].of # "none" =>
    /\ ~invite[i].revoked /\ invite[i].by # "none"
    /\ \A j \in Invites : invite[j].by = invite[i].by => i = j

\* The truth about who is bound, in spite of bindings and updates of the company
\* that act on what they read without its lock.  (audit_primary_binding_integrity;
\* create_company_invite: "the single valid invite for a company")
BindingIsTrue == PrimaryLeads /\ BoundIsPrimary /\ OneInvitation /\ UsedOnce

\* Nobody is disabled before he has handed over: a lead that is open is with an
\* employee of its company who can work on it, from its dispatch to its end.  Two
\* ways lead around the check, until it is given to another or he is enabled again:
\* a lead given to somebody who was disabled between the check and the commit, and
\* one that was completed when he was disabled and is taken up again by a return.
\* (COMPANY_ACCOUNT_HANDOVER_REQUIRED)
HandoverIsComplete ==
  \A w \in Works :
    work[w].status \in {"PENDING", "HELD"} /\ work[w].assignee # "none" =>
      LET p == work[w].assignee
      IN account[p].role = "EMPLOYEE" =>
           account[p].of = work[w].of /\ (account[p].status = "ACTIVE" \/ w \in late)
=============================================================================
