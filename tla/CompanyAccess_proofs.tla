------------------------ MODULE CompanyAccess_proofs ------------------------
(***************************************************************************)
(* Proofs about CompanyAccess: its type invariant, that the records about  *)
(* who is bound are true, and that a lead is with somebody who can work on *)
(* it.                                                                     *)
(***************************************************************************)
EXTENDS CompanyAccess, TLAPS

\* An owner of a company is its primary account, or was unbound.
OwnersAreKnown == \A p \in Accounts :
  account[p].role = "OWNER" /\ account[p].of # "none" =>
    company[account[p].of].primary = p \/ p \in retired

\* Whoever used an invitation, or was given a lead, has an account.
NamesAreReal ==
  /\ \A i \in Invites : invite[i].by # "none" => account[invite[i].by].status # "NONE"
  /\ \A w \in Works : work[w].assignee # "none" => account[work[w].assignee].status # "NONE"

\* Whoever is active belongs to a company.
ActiveBelongs == \A p \in Accounts : account[p].status = "ACTIVE" => account[p].of # "none"

\* An invitation that an update is about to revoke is not used meanwhile.
UpdateIsSound == \A c \in Clerks : clerk[c].kind = "update" =>
  \A i \in clerk[c].revoking : ~invite[i].used

\* A lead about to be handed over is held, and stays with the company of the one
\* who gets it.
AssignIsSound == \A c \in Clerks : clerk[c].kind = "assign" =>
  /\ work[clerk[c].work].status = "HELD"
  /\ clerk[c].to # "none" =>
       /\ account[clerk[c].to].role = "EMPLOYEE" /\ account[clerk[c].to].status # "NONE"
       /\ account[clerk[c].to].of = work[clerk[c].work].of

\* A request that waits belongs to a company.
AsksBelong == \A q \in Asks : ask[q].status = "PENDING" => ask[q].of # "none"

\* Work stays with the people of its company, also when it is completed.
WorkStaysInside == \A w \in Works :
  work[w].status \in {"PENDING", "HELD", "COMPLETED"} /\ work[w].assignee # "none"
    /\ account[work[w].assignee].role = "EMPLOYEE" => account[work[w].assignee].of = work[w].of

AccessInv ==
  /\ AccessTypeOK /\ PrimaryLeads /\ BoundIsPrimary /\ OneInvitation /\ UsedOnce
  /\ OwnersAreKnown /\ NamesAreReal /\ ActiveBelongs /\ UpdateIsSound /\ AssignIsSound /\ AsksBelong
  /\ WorkStaysInside /\ HandoverIsComplete

USE AccessAssumption

-----------------------------------------------------------------------------
\* The invariant holds at first.
LEMMA AccessStarts == ASSUME AccessInit PROVE AccessInv
BY DEF AccessInit, AccessInv, AccessTypeOK, PrimaryLeads, BoundIsPrimary, OneInvitation,
  UsedOnce, OwnersAreKnown, NamesAreReal, ActiveBelongs, UpdateIsSound, AssignIsSound,
  AsksBelong, WorkStaysInside, HandoverIsComplete, Company, Account, Invite, Work, Ask, Clerk, Free, Somebody, Somewhere,
  NoAccount, NewInvite, NoInvite, NoWork, NoAsk, Staff, Invited, Usable

-----------------------------------------------------------------------------
\* An invitation or an account stays one, whatever the handlers write in it.
LEMMA InvitesStayInvites ==
  ASSUME NEW i \in Invite
  PROVE  /\ [i EXCEPT !.revoked = TRUE] \in Invite
         /\ [i EXCEPT !.expired = TRUE] \in Invite
         /\ [i EXCEPT !.of = "none", !.revoked = TRUE] \in Invite
         /\ \A p \in Somebody : [i EXCEPT !.used = TRUE, !.by = p] \in Invite
         /\ \A k \in Companies : NewInvite(k) \in Invite
BY DEF Invite, Somebody, Somewhere, NewInvite

LEMMA AccountsStayAccounts ==
  ASSUME NEW a \in Account
  PROVE  /\ [a EXCEPT !.status = "DISABLED"] \in Account
         /\ [a EXCEPT !.status = "DISABLED", !.of = "none"] \in Account
BY DEF Account, Somewhere

-----------------------------------------------------------------------------
\* What a request in progress remembers.
LEMMA ClerkParts ==
  ASSUME AccessTypeOK, NEW c \in Clerks
  PROVE  /\ clerk[c] \in Clerk
         /\ clerk[c].kind = "bind" => clerk[c].openid \in Openids /\ clerk[c].invite \in Invites
         /\ clerk[c].kind = "update" =>
              /\ clerk[c].of \in Companies /\ clerk[c].revoking \in SUBSET Invites
              /\ clerk[c].status \in {"ACTIVE", "PENDING", "DISABLED"}
         /\ clerk[c].kind = "assign" => clerk[c].work \in Works /\ clerk[c].to \in Somebody
BY DEF AccessTypeOK, Clerk, Free

-----------------------------------------------------------------------------
\* Invitations.

LEMMA CreateInviteKeeps ==
  ASSUME AccessInv, NEW k \in Companies, NEW i \in Invites,
         CreateInvite(k, i)
  PROVE  AccessInv'
<1> USE DEF AccessInv, AccessTypeOK, CreateInvite, NewInvite, NoInvite, InviteLocked, Invited,
           Usable, Members, Bound
<1>1. AccessTypeOK'
  <2>1. ASSUME NEW x \in Invites PROVE invite'[x] \in Invite
    BY InvitesStayInvites
  <2>2. invite' \in [Invites -> Invite]
    BY <2>1
  <2>3. QED
    BY <2>2
<1>2. PrimaryLeads'
  BY DEF PrimaryLeads, Staff
<1>3. BoundIsPrimary'
  BY DEF BoundIsPrimary
<1>4. OneInvitation'
  <2>1. \A q \in Members(k) : ~Bound(q)
    BY DEF BoundIsPrimary
  <2>2. \A h \in Companies, j \in Invites :
          j \in Invited(h)' <=> IF j = i THEN h = k ELSE h # k /\ j \in Invited(h)
    BY DEF Invite
  <2>3. \A q \in Accounts, h \in Companies : (q \in Members(h))' = (q \in Members(h)) /\ Bound(q)' = Bound(q)
    OBVIOUS
  <2>4. QED
    BY SMTT(30), <2>1, <2>2, <2>3 DEF OneInvitation
<1>5. UsedOnce'
  BY DEF UsedOnce
<1>6. OwnersAreKnown'
  BY DEF OwnersAreKnown
<1>7. NamesAreReal'
  BY DEF NamesAreReal
<1>8. ActiveBelongs'
  BY DEF ActiveBelongs
<1>9. UpdateIsSound'
  BY ClerkParts DEF UpdateIsSound
<1>10. AssignIsSound'
  BY ClerkParts DEF AssignIsSound
<1>11. AsksBelong'
  BY DEF AsksBelong
<1>12. HandoverIsComplete'
  BY DEF HandoverIsComplete
<1>13. WorkStaysInside'
  BY DEF WorkStaysInside
<1>14. QED
  BY <1>1, <1>2, <1>3, <1>4, <1>5, <1>6, <1>7, <1>8, <1>9, <1>10, <1>11, <1>12, <1>13

LEMMA RevokeCompanyInviteKeeps ==
  ASSUME AccessInv, NEW i \in Invites,
         RevokeCompanyInvite(i)
  PROVE  AccessInv'
<1> USE DEF AccessInv, AccessTypeOK, RevokeCompanyInvite, Revoke, Usable, InviteLocked
<1>1. AccessTypeOK'
  <2>1. ASSUME NEW x \in Invites PROVE invite'[x] \in Invite
    BY InvitesStayInvites
  <2>2. invite' \in [Invites -> Invite]
    BY <2>1
  <2>3. QED
    BY <2>2
<1>2. PrimaryLeads'
  BY DEF PrimaryLeads, Staff
<1>3. BoundIsPrimary'
  BY DEF BoundIsPrimary
<1>4. OneInvitation'
  BY DEF OneInvitation, Invited, Members, Bound
<1>5. UsedOnce'
  BY DEF UsedOnce
<1>6. OwnersAreKnown'
  BY DEF OwnersAreKnown
<1>7. NamesAreReal'
  BY DEF NamesAreReal
<1>8. ActiveBelongs'
  BY DEF ActiveBelongs
<1>9. UpdateIsSound'
  BY ClerkParts DEF UpdateIsSound
<1>10. AssignIsSound'
  BY ClerkParts DEF AssignIsSound
<1>11. AsksBelong'
  BY DEF AsksBelong
<1>12. HandoverIsComplete'
  BY DEF HandoverIsComplete
<1>13. WorkStaysInside'
  BY DEF WorkStaysInside
<1>14. QED
  BY <1>1, <1>2, <1>3, <1>4, <1>5, <1>6, <1>7, <1>8, <1>9, <1>10, <1>11, <1>12, <1>13

LEMMA InviteExpiresKeeps ==
  ASSUME AccessInv, NEW i \in Invites,
         InviteExpires(i)
  PROVE  AccessInv'
<1> USE DEF AccessInv, AccessTypeOK, InviteExpires, Usable
<1>1. AccessTypeOK'
  <2>1. ASSUME NEW x \in Invites PROVE invite'[x] \in Invite
    BY InvitesStayInvites
  <2>2. invite' \in [Invites -> Invite]
    BY <2>1
  <2>3. QED
    BY <2>2
<1>2. PrimaryLeads'
  BY DEF PrimaryLeads, Staff
<1>3. BoundIsPrimary'
  BY DEF BoundIsPrimary
<1>4. OneInvitation'
  BY DEF OneInvitation, Invited, Members, Bound
<1>5. UsedOnce'
  BY DEF UsedOnce
<1>6. OwnersAreKnown'
  BY DEF OwnersAreKnown
<1>7. NamesAreReal'
  BY DEF NamesAreReal
<1>8. ActiveBelongs'
  BY DEF ActiveBelongs
<1>9. UpdateIsSound'
  BY ClerkParts DEF UpdateIsSound
<1>10. AssignIsSound'
  BY ClerkParts DEF AssignIsSound
<1>11. AsksBelong'
  BY DEF AsksBelong
<1>12. HandoverIsComplete'
  BY DEF HandoverIsComplete
<1>13. WorkStaysInside'
  BY DEF WorkStaysInside
<1>14. QED
  BY <1>1, <1>2, <1>3, <1>4, <1>5, <1>6, <1>7, <1>8, <1>9, <1>10, <1>11, <1>12, <1>13

LEMMA BeginBindingKeeps ==
  ASSUME AccessInv, NEW c \in Clerks, NEW o \in Openids, NEW i \in Invites,
         BeginBinding(c, o, i)
  PROVE  AccessInv'
<1> USE DEF AccessInv, AccessTypeOK, BeginBinding
<1>1. AccessTypeOK'
  <2>1. ASSUME NEW x \in Clerks PROVE clerk'[x] \in Clerk
    BY DEF Clerk, Free, Somebody
  <2>2. clerk' \in [Clerks -> Clerk]
    BY <2>1
  <2>3. QED
    BY <2>2
<1>2. PrimaryLeads'
  BY DEF PrimaryLeads, Staff
<1>3. BoundIsPrimary'
  BY DEF BoundIsPrimary
<1>4. OneInvitation'
  BY DEF OneInvitation, Invited, Usable, Members, Bound
<1>5. UsedOnce'
  BY DEF UsedOnce
<1>6. OwnersAreKnown'
  BY DEF OwnersAreKnown
<1>7. NamesAreReal'
  BY DEF NamesAreReal
<1>8. ActiveBelongs'
  BY DEF ActiveBelongs
<1>9. UpdateIsSound'
  BY ClerkParts DEF UpdateIsSound, Free
<1>10. AssignIsSound'
  BY ClerkParts DEF AssignIsSound, Free
<1>11. AsksBelong'
  BY DEF AsksBelong
<1>12. HandoverIsComplete'
  BY DEF HandoverIsComplete
<1>13. WorkStaysInside'
  BY DEF WorkStaysInside
<1>14. QED
  BY <1>1, <1>2, <1>3, <1>4, <1>5, <1>6, <1>7, <1>8, <1>9, <1>10, <1>11, <1>12, <1>13

LEMMA FinishBindingKeeps ==
  ASSUME AccessInv, NEW c \in Clerks, NEW p \in Accounts,
         FinishBinding(c, p)
  PROVE  AccessInv'
<1> USE DEF AccessInv, AccessTypeOK, MayClaim, NoAccount, Usable, Invited, InviteLocked
<1> DEFINE o == clerk[c].openid
           i == clerk[c].invite
           k == invite[i].of
<1>0. /\ k = invite[i].of /\ o \in Openids /\ i \in Invites /\ k \in Companies
      /\ Usable(i) /\ ~InviteLocked(i) /\ MayClaim(k, o) /\ account[p] = NoAccount
      /\ account' = [account EXCEPT ![p] = [status |-> "ACTIVE", of |-> k, role |-> "OWNER"]]
      /\ company' = [company EXCEPT ![k].primary = p]
      /\ identity' = [identity EXCEPT ![o] = p]
      /\ invite' = [invite EXCEPT ![i].used = TRUE, ![i].by = p]
      /\ clerk' = [clerk EXCEPT ![c] = Free]
      /\ UNCHANGED <<work, ask, late, retired>>
  BY ClerkParts DEF FinishBinding, Usable, Invite, Somewhere
<1> HIDE DEF o, i, k
<1>1. AccessTypeOK'
  <2>1. ASSUME NEW x \in Accounts PROVE account'[x] \in Account
    BY <1>0, ClerkParts DEF Account, Somewhere
  <2>2. account' \in [Accounts -> Account]
    BY <2>1, <1>0
  <2>3. ASSUME NEW x \in Companies PROVE company'[x] \in Company
    BY <1>0, ClerkParts DEF Company, Somebody
  <2>4. company' \in [Companies -> Company]
    BY <2>3, <1>0
  <2>5. ASSUME NEW x \in Openids PROVE identity'[x] \in Somebody
    BY <1>0, ClerkParts DEF Somebody
  <2>6. identity' \in [Openids -> Somebody]
    BY <2>5, <1>0
  <2>7. ASSUME NEW x \in Invites PROVE invite'[x] \in Invite
    <3>1. [invite[i] EXCEPT !.used = TRUE, !.by = p] \in Invite
      BY <1>0, InvitesStayInvites DEF Somebody
    <3>2. QED
      BY <3>1, <1>0
  <2>8. invite' \in [Invites -> Invite]
    BY <2>7, <1>0
  <2>9. ASSUME NEW x \in Clerks PROVE clerk'[x] \in Clerk
    BY <1>0, ClerkParts DEF Clerk, Free, Somebody
  <2>10. clerk' \in [Clerks -> Clerk]
    BY <2>9, <1>0
  <2>11. QED
    BY <1>0, <2>2, <2>4, <2>6, <2>8, <2>10
<1>2. PrimaryLeads'
  BY <1>0 DEF PrimaryLeads, Staff
<1>3. BoundIsPrimary'
  BY <1>0 DEF BoundIsPrimary, Somebody
<1>4. OneInvitation'
  <2>1. Invited(k) = {i} /\ \A h \in Companies : h # k => i \notin Invited(h)
    BY <1>0 DEF OneInvitation
  <2>2. \A h \in Companies, j \in Invites : j \in Invited(h)' <=> h # k /\ j \in Invited(h)
    BY <1>0, <2>1 DEF Invite
  <2>3. \A h \in Companies : h # k => Members(h)' = Members(h) /\ p \notin Members(h)
    BY <1>0 DEF Members
  <2>4. \A h \in Companies, q \in Accounts : h # k /\ q \in Members(h) /\ Bound(q)' => Bound(q)
    BY <1>0, <2>3 DEF Bound
  <2>5. QED
    BY <2>2, <2>3, <2>4 DEF OneInvitation, Members
<1>5. UsedOnce'
  BY <1>0 DEF UsedOnce, Invite, Somebody, NamesAreReal
<1>6. OwnersAreKnown'
  BY <1>0 DEF OwnersAreKnown, Account, Somewhere
<1>7. NamesAreReal'
  BY <1>0 DEF NamesAreReal, Invite, Work, Somebody
<1>8. ActiveBelongs'
  BY <1>0 DEF ActiveBelongs
<1>9. UpdateIsSound'
  BY ClerkParts, <1>0 DEF UpdateIsSound, Free
<1>10. AssignIsSound'
  BY ClerkParts, <1>0 DEF AssignIsSound, Free
<1>11. AsksBelong'
  BY <1>0 DEF AsksBelong
<1>12. HandoverIsComplete'
  BY <1>0 DEF HandoverIsComplete, Work, Somebody
<1>13. WorkStaysInside'
  BY <1>0 DEF WorkStaysInside, Work, Somebody
<1>14. QED
  BY <1>1, <1>2, <1>3, <1>4, <1>5, <1>6, <1>7, <1>8, <1>9, <1>10, <1>11, <1>12, <1>13

LEMMA GiveUpKeeps ==
  ASSUME AccessInv, NEW c \in Clerks,
         GiveUp(c)
  PROVE  AccessInv'
<1> USE DEF AccessInv, AccessTypeOK, GiveUp
<1>1. AccessTypeOK'
  <2>1. ASSUME NEW x \in Clerks PROVE clerk'[x] \in Clerk
    BY DEF Clerk, Free, Somebody
  <2>2. clerk' \in [Clerks -> Clerk]
    BY <2>1
  <2>3. QED
    BY <2>2
<1>2. PrimaryLeads'
  BY DEF PrimaryLeads, Staff
<1>3. BoundIsPrimary'
  BY DEF BoundIsPrimary
<1>4. OneInvitation'
  BY DEF OneInvitation, Invited, Usable, Members, Bound
<1>5. UsedOnce'
  BY DEF UsedOnce
<1>6. OwnersAreKnown'
  BY DEF OwnersAreKnown
<1>7. NamesAreReal'
  BY DEF NamesAreReal
<1>8. ActiveBelongs'
  BY DEF ActiveBelongs
<1>9. UpdateIsSound'
  BY ClerkParts DEF UpdateIsSound, Free
<1>10. AssignIsSound'
  BY ClerkParts DEF AssignIsSound, Free
<1>11. AsksBelong'
  BY DEF AsksBelong
<1>12. HandoverIsComplete'
  BY DEF HandoverIsComplete
<1>13. WorkStaysInside'
  BY DEF WorkStaysInside
<1>14. QED
  BY <1>1, <1>2, <1>3, <1>4, <1>5, <1>6, <1>7, <1>8, <1>9, <1>10, <1>11, <1>12, <1>13

-----------------------------------------------------------------------------
\* The company.

LEMMA BeginUpdateKeeps ==
  ASSUME AccessInv, NEW c \in Clerks, NEW k \in Companies, NEW s \in {"ACTIVE", "PENDING", "DISABLED"},
         BeginUpdate(c, k, s)
  PROVE  AccessInv'
<1> USE DEF AccessInv, AccessTypeOK, BeginUpdate, Invited, Usable
<1>1. AccessTypeOK'
  <2>1. ASSUME NEW x \in Clerks PROVE clerk'[x] \in Clerk
    BY DEF Clerk, Free, Somebody
  <2>2. clerk' \in [Clerks -> Clerk]
    BY <2>1
  <2>3. QED
    BY <2>2
<1>2. PrimaryLeads'
  BY DEF PrimaryLeads, Staff
<1>3. BoundIsPrimary'
  BY DEF BoundIsPrimary
<1>4. OneInvitation'
  BY DEF OneInvitation, Members, Bound
<1>5. UsedOnce'
  BY DEF UsedOnce
<1>6. OwnersAreKnown'
  BY DEF OwnersAreKnown
<1>7. NamesAreReal'
  BY DEF NamesAreReal
<1>8. ActiveBelongs'
  BY DEF ActiveBelongs
<1>9. UpdateIsSound'
  BY ClerkParts DEF UpdateIsSound, Free
<1>10. AssignIsSound'
  BY ClerkParts DEF AssignIsSound, Free
<1>11. AsksBelong'
  BY DEF AsksBelong
<1>12. HandoverIsComplete'
  BY DEF HandoverIsComplete
<1>13. WorkStaysInside'
  BY DEF WorkStaysInside
<1>14. QED
  BY <1>1, <1>2, <1>3, <1>4, <1>5, <1>6, <1>7, <1>8, <1>9, <1>10, <1>11, <1>12, <1>13

LEMMA FinishUpdateKeeps ==
  ASSUME AccessInv, NEW c \in Clerks,
         FinishUpdate(c)
  PROVE  AccessInv'
<1> USE DEF AccessInv, AccessTypeOK, FinishUpdate, Revoke
<1>1. AccessTypeOK'
  <2>1. ASSUME NEW x \in Companies PROVE company'[x] \in Company
    BY ClerkParts DEF Company, Somebody
  <2>2. company' \in [Companies -> Company]
    BY <2>1
  <2>3. ASSUME NEW x \in Invites PROVE invite'[x] \in Invite
    BY ClerkParts, InvitesStayInvites
  <2>4. invite' \in [Invites -> Invite]
    BY <2>3
  <2>5. ASSUME NEW x \in Clerks PROVE clerk'[x] \in Clerk
    BY ClerkParts DEF Clerk, Free, Somebody
  <2>6. clerk' \in [Clerks -> Clerk]
    BY <2>5
  <2>7. QED
    BY <2>2, <2>4, <2>6
<1>2. PrimaryLeads'
  BY DEF PrimaryLeads, Staff
<1>3. BoundIsPrimary'
  BY DEF BoundIsPrimary
<1>4. OneInvitation'
  BY DEF OneInvitation, Invited, Usable, Members, Bound
<1>5. UsedOnce'
  <2>1. \A i \in Invites : /\ invite'[i].used = invite[i].used /\ invite'[i].by = invite[i].by
                           /\ invite'[i].of = invite[i].of
                           /\ invite[i].used => invite'[i].revoked = invite[i].revoked
    BY ClerkParts DEF UpdateIsSound, Invite
  <2>2. ASSUME NEW i \in Invites, invite'[i].used, invite'[i].of # "none"
        PROVE  /\ ~invite'[i].revoked /\ invite'[i].by # "none"
               /\ \A j \in Invites : invite'[j].by = invite'[i].by => i = j
    <3> HIDE DEF FinishUpdate, Revoke, AccessTypeOK
    <3>1. invite[i].used /\ invite[i].of # "none"
      BY <2>1, <2>2
    <3>2. QED
      BY <2>1, <3>1 DEF UsedOnce
  <2>3. QED
    BY <2>2 DEF UsedOnce
<1>6. OwnersAreKnown'
  BY DEF OwnersAreKnown
<1>7. NamesAreReal'
  BY DEF NamesAreReal
<1>8. ActiveBelongs'
  BY DEF ActiveBelongs
<1>9. UpdateIsSound'
  BY ClerkParts DEF UpdateIsSound, Free
<1>10. AssignIsSound'
  BY ClerkParts DEF AssignIsSound, Free
<1>11. AsksBelong'
  BY DEF AsksBelong
<1>12. HandoverIsComplete'
  BY DEF HandoverIsComplete
<1>13. WorkStaysInside'
  BY DEF WorkStaysInside
<1>14. QED
  BY <1>1, <1>2, <1>3, <1>4, <1>5, <1>6, <1>7, <1>8, <1>9, <1>10, <1>11, <1>12, <1>13

LEMMA UnbindKeeps ==
  ASSUME AccessInv, NEW k \in Companies,
         Unbind(k)
  PROVE  AccessInv'
<1> USE DEF AccessInv, AccessTypeOK, Unbind, Revoke, Bound, InviteLocked
<1>1. AccessTypeOK'
  <2>1. ASSUME NEW x \in Companies PROVE company'[x] \in Company
    BY DEF Company, Somebody
  <2>2. company' \in [Companies -> Company]
    BY <2>1
  <2>3. ASSUME NEW x \in Accounts PROVE account'[x] \in Account
    BY AccountsStayAccounts
  <2>4. account' \in [Accounts -> Account]
    BY <2>3
  <2>5. ASSUME NEW x \in Openids PROVE identity'[x] \in Somebody
    BY DEF Somebody
  <2>6. identity' \in [Openids -> Somebody]
    BY <2>5
  <2>7. ASSUME NEW x \in Invites PROVE invite'[x] \in Invite
    BY InvitesStayInvites
  <2>8. invite' \in [Invites -> Invite]
    BY <2>7
  <2>9. QED
    BY <2>2, <2>4, <2>6, <2>8
<1>2. PrimaryLeads'
  BY DEF PrimaryLeads, Staff
<1>3. BoundIsPrimary'
  BY DEF BoundIsPrimary
<1>4. OneInvitation'
  BY DEF OneInvitation, Invited, Usable, Members
<1>5. UsedOnce'
  BY DEF UsedOnce
<1>6. OwnersAreKnown'
  BY DEF OwnersAreKnown
<1>7. NamesAreReal'
  BY DEF NamesAreReal
<1>8. ActiveBelongs'
  BY DEF ActiveBelongs
<1>9. UpdateIsSound'
  BY ClerkParts DEF UpdateIsSound
<1>10. AssignIsSound'
  BY ClerkParts DEF AssignIsSound
<1>11. AsksBelong'
  BY DEF AsksBelong
<1>12. HandoverIsComplete'
  <2>1. account[company[k].primary].role = "OWNER"
    BY DEF PrimaryLeads, Staff
  <2>2. \A p \in Accounts : /\ account'[p].role = account[p].role /\ account'[p].of = account[p].of
                            /\ account[p].role = "EMPLOYEE" => account'[p].status = account[p].status
    BY <2>1 DEF Account
  <2>3. QED
    BY <2>2 DEF HandoverIsComplete, Work, Somebody
<1>13. WorkStaysInside'
  BY DEF WorkStaysInside
<1>14. QED
  BY <1>1, <1>2, <1>3, <1>4, <1>5, <1>6, <1>7, <1>8, <1>9, <1>10, <1>11, <1>12, <1>13

LEMMA DeleteTestCompanyKeeps ==
  ASSUME AccessInv, NEW k \in Companies,
         DeleteTestCompany(k)
  PROVE  AccessInv'
<1> USE DEF AccessInv, AccessTypeOK, Members, InviteLocked, WorkLocked
<1>a. /\ \A i \in Invites : invite[i].of = k => ~InviteLocked(i)
      /\ \A w \in Works : work[w].of = k => ~WorkLocked(w)
      /\ \A h \in Companies : company'[h] =
           IF h = k THEN [status |-> "DELETED", primary |-> "none"] ELSE company[h]
      /\ \A o \in Openids : identity'[o] = IF identity[o] \in Members(k) THEN "none" ELSE identity[o]
      /\ late' = {w \in late : work[w].of # k}
      /\ UNCHANGED <<clerk, retired>> /\ k # "none"
  BY DEF DeleteTestCompany
<1>b. \A p \in Accounts : /\ account'[p].role = account[p].role
                          /\ account[p].of = k => account'[p].status = "DISABLED" /\ account'[p].of = "none"
                          /\ account[p].of # k => account'[p] = account[p]
  <2>1. \A p \in Accounts : account'[p] =
          IF account[p].of = k THEN [account[p] EXCEPT !.status = "DISABLED", !.of = "none"] ELSE account[p]
    BY DEF DeleteTestCompany, Members
  <2>2. ASSUME NEW p \in Accounts, account[p].of = k
        PROVE  account'[p].status = "DISABLED" /\ account'[p].of = "none"
    <3>1. account'[p] = [account[p] EXCEPT !.status = "DISABLED", !.of = "none"] /\ account[p] \in Account
      BY <2>1, <2>2
    <3>2. QED
      BY <3>1 DEF Account
  <2>3. ASSUME NEW p \in Accounts PROVE account'[p].role = account[p].role
    BY <2>1 DEF Account
  <2>4. QED
    BY <2>1, <2>2, <2>3
<1>c. \A i \in Invites : /\ invite'[i].used = invite[i].used /\ invite'[i].by = invite[i].by
                         /\ invite[i].of = k => invite'[i].of = "none"
                         /\ invite[i].of # k => invite'[i] = invite[i]
  <2>1. \A i \in Invites : invite'[i] =
          IF invite[i].of = k THEN [invite[i] EXCEPT !.of = "none", !.revoked = TRUE] ELSE invite[i]
    BY DEF DeleteTestCompany
  <2>2. QED
    BY <2>1 DEF Invite
<1>d. /\ \A w \in Works : work'[w].assignee = work[w].assignee
      /\ \A w \in Works : work[w].of = k => work'[w].status = "ENDED"
      /\ \A w \in Works : work[w].of # k => work'[w] = work[w]
  BY DEF DeleteTestCompany, Work
<1>1. AccessTypeOK'
  <2>1. ASSUME NEW x \in Companies PROVE company'[x] \in Company
    BY DEF Company, Somebody, DeleteTestCompany
  <2>2. company' \in [Companies -> Company]
    BY <2>1 DEF DeleteTestCompany
  <2>3. ASSUME NEW x \in Accounts PROVE account'[x] \in Account
    BY AccountsStayAccounts DEF DeleteTestCompany
  <2>4. account' \in [Accounts -> Account]
    BY <2>3 DEF DeleteTestCompany
  <2>5. ASSUME NEW x \in Openids PROVE identity'[x] \in Somebody
    BY DEF Somebody, DeleteTestCompany
  <2>6. identity' \in [Openids -> Somebody]
    BY <2>5 DEF DeleteTestCompany
  <2>7. ASSUME NEW x \in Invites PROVE invite'[x] \in Invite
    BY InvitesStayInvites DEF DeleteTestCompany
  <2>8. invite' \in [Invites -> Invite]
    BY <2>7 DEF DeleteTestCompany
  <2>9. ASSUME NEW x \in Works PROVE work'[x] \in Work
    BY DEF Work, Somebody, Somewhere, DeleteTestCompany
  <2>10. work' \in [Works -> Work]
    BY <2>9 DEF DeleteTestCompany
  <2>11. ASSUME NEW x \in Asks PROVE ask'[x] \in Ask
    BY DEF Ask, Somebody, Somewhere, DeleteTestCompany
  <2>12. ask' \in [Asks -> Ask]
    BY <2>11 DEF DeleteTestCompany
  <2>13. QED
    BY <2>2, <2>4, <2>6, <2>8, <2>10, <2>12 DEF DeleteTestCompany
<1>2. PrimaryLeads'
  BY <1>a, <1>b, <1>c, <1>d DEF PrimaryLeads, Staff
<1>3. BoundIsPrimary'
  BY <1>a, <1>b, <1>c, <1>d DEF BoundIsPrimary, Somebody
<1>4. OneInvitation'
  BY SMTT(30), <1>a, <1>b, <1>c, <1>d DEF OneInvitation, Invited, Usable, Bound
<1>5. UsedOnce'
  BY <1>a, <1>b, <1>c, <1>d DEF UsedOnce, Invite, Somebody
<1>6. OwnersAreKnown'
  BY <1>a, <1>b, <1>c, <1>d DEF OwnersAreKnown, Account, Somewhere
<1>7. NamesAreReal'
  BY <1>a, <1>b, <1>c, <1>d DEF NamesAreReal, Invite, Work, Somebody
<1>8. ActiveBelongs'
  BY <1>a, <1>b, <1>c, <1>d DEF ActiveBelongs
<1>9. UpdateIsSound'
  BY ClerkParts, <1>a, <1>b, <1>c, <1>d DEF UpdateIsSound
<1>10. AssignIsSound'
  <2>1. ASSUME NEW c \in Clerks, clerk[c].kind = "assign"
        PROVE  /\ clerk[c].work \in Works /\ work[clerk[c].work].of # k /\ clerk[c].to \in Somebody
               /\ clerk' = clerk /\ work'[clerk[c].work] = work[clerk[c].work]
    BY <2>1, <1>a, <1>d, ClerkParts
  <2>2. ASSUME NEW c \in Clerks, clerk[c].kind = "assign", clerk[c].to # "none"
        PROVE  account'[clerk[c].to] = account[clerk[c].to]
    BY <2>1, <2>2, <1>b DEF AssignIsSound, Somebody
  <2>3. ASSUME NEW c \in Clerks, clerk'[c].kind = "assign"
        PROVE  /\ work'[clerk'[c].work].status = "HELD"
               /\ clerk'[c].to # "none" =>
                    /\ account'[clerk'[c].to].role = "EMPLOYEE" /\ account'[clerk'[c].to].status # "NONE"
                    /\ account'[clerk'[c].to].of = work'[clerk'[c].work].of
    <3>1. clerk' = clerk
      BY <1>a
    <3>2. QED
      BY <2>1, <2>2, <2>3, <3>1 DEF AssignIsSound
  <2>4. QED
    BY <2>3 DEF AssignIsSound
<1>11. AsksBelong'
  <2>1. ASSUME NEW q \in Asks, ask[q].of = k PROVE ask'[q].status # "PENDING"
    <3>1. ask'[q] = [ask[q] EXCEPT !.status = "DELETED", !.of = "none"] /\ ask[q] \in Ask
      BY <2>1 DEF DeleteTestCompany
    <3>2. QED
      BY <3>1 DEF Ask
  <2>2. ASSUME NEW q \in Asks, ask[q].of # k PROVE ask'[q] = ask[q]
    BY <2>2 DEF DeleteTestCompany
  <2>3. QED
    BY <2>1, <2>2 DEF AsksBelong
<1>12. HandoverIsComplete'
  BY <1>a, <1>b, <1>c, <1>d DEF HandoverIsComplete, Work, Somebody
<1>13. WorkStaysInside'
  BY <1>a, <1>b, <1>c, <1>d DEF WorkStaysInside, Work, Somebody
<1>14. QED
  BY <1>1, <1>2, <1>3, <1>4, <1>5, <1>6, <1>7, <1>8, <1>9, <1>10, <1>11, <1>12, <1>13

-----------------------------------------------------------------------------
\* Accounts and requests.

LEMMA NewAccountKeeps ==
  ASSUME AccessInv, NEW k \in Companies, NEW p \in Accounts, NEW role \in {"OWNER", "EMPLOYEE"},
         NewAccount(k, p, role),
         UNCHANGED <<identity, invite, work, clerk, late, retired>>, ask' \in [Asks -> Ask], AsksBelong'
  PROVE  AccessInv'
<1> USE DEF AccessInv, AccessTypeOK, NoAccount, HasNoOwner, Staff
<1>0. /\ role = "OWNER" => company[k].primary = "none"
      /\ \A h \in Companies : company[h].primary # "none" => company'[h] = company[h]
      /\ \A h \in Companies : h # k \/ role # "OWNER" => company'[h] = company[h]
      /\ role = "OWNER" => company'[k].primary = p
      /\ account'[p] = [status |-> "ACTIVE", of |-> k, role |-> role]
      /\ account[p] = NoAccount /\ \A q \in Accounts : q # p => account'[q] = account[q]
      /\ \A o \in Openids : identity[o] # p
      /\ UNCHANGED <<identity, invite, work, clerk, late, retired>>
  BY DEF NewAccount, HasNoOwner, NoAccount, PrimaryLeads, BoundIsPrimary, Staff, Company
<1>1. AccessTypeOK'
  <2>1. ASSUME NEW x \in Accounts PROVE account'[x] \in Account
    BY DEF Account, Somewhere, NewAccount
  <2>2. account' \in [Accounts -> Account]
    BY <2>1 DEF NewAccount
  <2>3. ASSUME NEW x \in Companies PROVE company'[x] \in Company
    BY DEF Company, Somebody, NewAccount
  <2>4. company' \in [Companies -> Company]
    BY <2>3 DEF NewAccount
  <2>5. QED
    BY <2>2, <2>4 DEF NewAccount
<1>2. PrimaryLeads'
  BY <1>0 DEF PrimaryLeads
<1>3. BoundIsPrimary'
  BY <1>0 DEF BoundIsPrimary, Somebody
<1>4. OneInvitation'
  BY <1>0 DEF OneInvitation, Invited, Usable, Members, Bound
<1>5. UsedOnce'
  BY <1>0 DEF UsedOnce, Invite, Somebody
<1>6. OwnersAreKnown'
  BY <1>0 DEF OwnersAreKnown, Account, Somewhere
<1>7. NamesAreReal'
  BY SMTT(30), <1>0 DEF NamesAreReal, Invite, Work, Somebody
<1>8. ActiveBelongs'
  BY <1>0 DEF ActiveBelongs
<1>9. UpdateIsSound'
  BY ClerkParts, <1>0 DEF UpdateIsSound
<1>10. AssignIsSound'
  <2>1. ASSUME NEW c \in Clerks, clerk[c].kind = "assign"
        PROVE  clerk[c].to # "none" => clerk[c].to \in Accounts /\ clerk[c].to # p
    BY <2>1, <1>0, ClerkParts DEF AssignIsSound, Somebody, NoAccount
  <2>2. QED
    BY <2>1, <1>0 DEF AssignIsSound
<1>11. AsksBelong'
  BY <1>0 DEF AsksBelong
<1>12. \A w \in Works : work[w].assignee # "none" =>
         work[w].assignee \in Accounts /\ account'[work[w].assignee] = account[work[w].assignee]
  BY <1>0 DEF Work, Somebody, NamesAreReal, NoAccount
<1>13. HandoverIsComplete'
  BY <1>0, <1>12 DEF HandoverIsComplete
<1>14. WorkStaysInside'
  BY <1>0, <1>12 DEF WorkStaysInside
<1>15. QED
  BY <1>1, <1>2, <1>3, <1>4, <1>5, <1>6, <1>7, <1>8, <1>9, <1>10, <1>11, <1>13, <1>14

LEMMA EnableAccountKeeps ==
  ASSUME AccessInv, NEW p \in Accounts,
         EnableAccount(p)
  PROVE  AccessInv'
<1> USE DEF AccessInv, AccessTypeOK, EnableAccount, SetAccountStatus
<1>1. AccessTypeOK'
  <2>1. ASSUME NEW x \in Accounts PROVE account'[x] \in Account
    BY DEF Account, Somewhere
  <2>2. account' \in [Accounts -> Account]
    BY <2>1
  <2>3. QED
    BY <2>2
<1>2. PrimaryLeads'
  <2>1. \A q \in Accounts : /\ account'[q].role = account[q].role /\ account'[q].of = account[q].of
                            /\ q # p => account'[q].status = account[q].status
                            /\ account'[p].status = "ACTIVE"
    BY DEF Account
  <2>2. \A k \in Companies : account[p].of = k /\ account[p].role = "OWNER" =>
          company[k].primary = p \/ p \in retired
    BY DEF OwnersAreKnown
  <2>3. UNCHANGED <<company, retired>>
    OBVIOUS
  <2>4. QED
    BY <2>1, <2>2, <2>3 DEF PrimaryLeads, Staff
<1>3. BoundIsPrimary'
  BY DEF BoundIsPrimary
<1>4. OneInvitation'
  BY DEF OneInvitation, Invited, Usable, Members, Bound
<1>5. UsedOnce'
  BY DEF UsedOnce
<1>6. OwnersAreKnown'
  BY DEF OwnersAreKnown
<1>7. NamesAreReal'
  BY DEF NamesAreReal
<1>8. ActiveBelongs'
  BY DEF ActiveBelongs
<1>9. UpdateIsSound'
  BY ClerkParts DEF UpdateIsSound
<1>10. AssignIsSound'
  BY ClerkParts DEF AssignIsSound
<1>11. AsksBelong'
  BY DEF AsksBelong
<1>12. HandoverIsComplete'
  BY DEF HandoverIsComplete
<1>13. WorkStaysInside'
  BY DEF WorkStaysInside
<1>14. QED
  BY <1>1, <1>2, <1>3, <1>4, <1>5, <1>6, <1>7, <1>8, <1>9, <1>10, <1>11, <1>12, <1>13

LEMMA SetDisabledKeeps ==
  ASSUME AccessInv, NEW p \in Accounts,
         SetAccountStatus(p, "DISABLED"),
         UNCHANGED <<company, identity, invite, work, clerk, late, retired>>, ask' \in [Asks -> Ask], AsksBelong'
  PROVE  AccessInv'
<1> USE DEF AccessInv, AccessTypeOK, SetAccountStatus, HasOpenWork, BlockingStatuses
<1>1. AccessTypeOK'
  <2>1. ASSUME NEW x \in Accounts PROVE account'[x] \in Account
    BY DEF Account, Somewhere
  <2>2. account' \in [Accounts -> Account]
    BY <2>1
  <2>3. QED
    BY <2>2
<1>2. PrimaryLeads'
  BY DEF PrimaryLeads, Staff
<1>3. BoundIsPrimary'
  BY DEF BoundIsPrimary
<1>4. OneInvitation'
  BY DEF OneInvitation, Invited, Usable, Members, Bound
<1>5. UsedOnce'
  BY DEF UsedOnce
<1>6. OwnersAreKnown'
  BY DEF OwnersAreKnown
<1>7. NamesAreReal'
  BY DEF NamesAreReal
<1>8. ActiveBelongs'
  BY DEF ActiveBelongs
<1>9. UpdateIsSound'
  BY ClerkParts DEF UpdateIsSound
<1>10. AssignIsSound'
  BY ClerkParts DEF AssignIsSound
<1>11. AsksBelong'
  BY DEF AsksBelong
<1>12. HandoverIsComplete'
  BY DEF HandoverIsComplete
<1>13. WorkStaysInside'
  BY DEF WorkStaysInside
<1>14. QED
  BY <1>1, <1>2, <1>3, <1>4, <1>5, <1>6, <1>7, <1>8, <1>9, <1>10, <1>11, <1>12, <1>13

LEMMA RequestKeeps ==
  ASSUME AccessInv, NEW k \in Companies, NEW q \in Asks, NEW p \in Somebody,
         Request(k, q, p)
  PROVE  AccessInv'
<1> USE DEF AccessInv, AccessTypeOK, Request
<1>1. AccessTypeOK'
  <2>1. ASSUME NEW x \in Asks PROVE ask'[x] \in Ask
    BY DEF Ask, Somebody, Somewhere
  <2>2. ask' \in [Asks -> Ask]
    BY <2>1
  <2>3. QED
    BY <2>2
<1>2. PrimaryLeads'
  BY DEF PrimaryLeads, Staff
<1>3. BoundIsPrimary'
  BY DEF BoundIsPrimary
<1>4. OneInvitation'
  BY DEF OneInvitation, Invited, Usable, Members, Bound
<1>5. UsedOnce'
  BY DEF UsedOnce
<1>6. OwnersAreKnown'
  BY DEF OwnersAreKnown
<1>7. NamesAreReal'
  BY DEF NamesAreReal
<1>8. ActiveBelongs'
  BY DEF ActiveBelongs
<1>9. UpdateIsSound'
  BY ClerkParts DEF UpdateIsSound
<1>10. AssignIsSound'
  BY ClerkParts DEF AssignIsSound
<1>11. AsksBelong'
  BY DEF AsksBelong
<1>12. HandoverIsComplete'
  BY DEF HandoverIsComplete
<1>13. WorkStaysInside'
  BY DEF WorkStaysInside
<1>14. QED
  BY <1>1, <1>2, <1>3, <1>4, <1>5, <1>6, <1>7, <1>8, <1>9, <1>10, <1>11, <1>12, <1>13

LEMMA RejectKeeps ==
  ASSUME AccessInv, NEW q \in Asks,
         Reject(q)
  PROVE  AccessInv'
<1> USE DEF AccessInv, AccessTypeOK, Reject
<1>1. AccessTypeOK'
  <2>1. ASSUME NEW x \in Asks PROVE ask'[x] \in Ask
    BY DEF Ask, Somebody, Somewhere
  <2>2. ask' \in [Asks -> Ask]
    BY <2>1
  <2>3. QED
    BY <2>2
<1>2. PrimaryLeads'
  BY DEF PrimaryLeads, Staff
<1>3. BoundIsPrimary'
  BY DEF BoundIsPrimary
<1>4. OneInvitation'
  BY DEF OneInvitation, Invited, Usable, Members, Bound
<1>5. UsedOnce'
  BY DEF UsedOnce
<1>6. OwnersAreKnown'
  BY DEF OwnersAreKnown
<1>7. NamesAreReal'
  BY DEF NamesAreReal
<1>8. ActiveBelongs'
  BY DEF ActiveBelongs
<1>9. UpdateIsSound'
  BY ClerkParts DEF UpdateIsSound
<1>10. AssignIsSound'
  BY ClerkParts DEF AssignIsSound
<1>11. AsksBelong'
  BY DEF AsksBelong
<1>12. HandoverIsComplete'
  BY DEF HandoverIsComplete
<1>13. WorkStaysInside'
  BY DEF WorkStaysInside
<1>14. QED
  BY <1>1, <1>2, <1>3, <1>4, <1>5, <1>6, <1>7, <1>8, <1>9, <1>10, <1>11, <1>12, <1>13

-----------------------------------------------------------------------------
\* Leads handed to somebody.

LEMMA DispatchWorkKeeps ==
  ASSUME AccessInv, NEW w \in Works, NEW k \in Companies, NEW p \in Accounts,
         DispatchWork(w, k, p)
  PROVE  AccessInv'
<1> USE DEF AccessInv, AccessTypeOK, DispatchWork, Recipient, OwnerOf, Staff, NoWork
<1>1. AccessTypeOK'
  <2>1. ASSUME NEW x \in Works PROVE work'[x] \in Work
    BY DEF Work, Somebody, Somewhere
  <2>2. work' \in [Works -> Work]
    BY <2>1
  <2>3. QED
    BY <2>2
<1>2. PrimaryLeads'
  BY DEF PrimaryLeads
<1>3. BoundIsPrimary'
  BY DEF BoundIsPrimary
<1>4. OneInvitation'
  BY DEF OneInvitation, Invited, Usable, Members, Bound
<1>5. UsedOnce'
  BY DEF UsedOnce
<1>6. OwnersAreKnown'
  BY DEF OwnersAreKnown
<1>7. NamesAreReal'
  BY DEF NamesAreReal
<1>8. ActiveBelongs'
  BY DEF ActiveBelongs
<1>9. UpdateIsSound'
  BY ClerkParts DEF UpdateIsSound
<1>10. AssignIsSound'
  BY ClerkParts DEF AssignIsSound
<1>11. AsksBelong'
  BY DEF AsksBelong
<1>12. HandoverIsComplete'
  BY DEF HandoverIsComplete
<1>13. WorkStaysInside'
  BY DEF WorkStaysInside
<1>14. QED
  BY <1>1, <1>2, <1>3, <1>4, <1>5, <1>6, <1>7, <1>8, <1>9, <1>10, <1>11, <1>12, <1>13

LEMMA ClaimWorkKeeps ==
  ASSUME AccessInv, NEW w \in Works,
         ClaimWork(w)
  PROVE  AccessInv'
<1> USE DEF AccessInv, AccessTypeOK, ClaimWork
<1>1. AccessTypeOK'
  <2>1. ASSUME NEW x \in Works PROVE work'[x] \in Work
    BY DEF Work, Somebody, Somewhere
  <2>2. work' \in [Works -> Work]
    BY <2>1
  <2>3. QED
    BY <2>2
<1>2. PrimaryLeads'
  BY DEF PrimaryLeads, Staff
<1>3. BoundIsPrimary'
  BY DEF BoundIsPrimary
<1>4. OneInvitation'
  BY DEF OneInvitation, Invited, Usable, Members, Bound
<1>5. UsedOnce'
  BY DEF UsedOnce
<1>6. OwnersAreKnown'
  BY DEF OwnersAreKnown
<1>7. NamesAreReal'
  BY DEF NamesAreReal
<1>8. ActiveBelongs'
  BY DEF ActiveBelongs
<1>9. UpdateIsSound'
  BY ClerkParts DEF UpdateIsSound
<1>10. AssignIsSound'
  BY ClerkParts DEF AssignIsSound
<1>11. AsksBelong'
  BY DEF AsksBelong
<1>12. HandoverIsComplete'
  BY DEF HandoverIsComplete
<1>13. WorkStaysInside'
  BY DEF WorkStaysInside
<1>14. QED
  BY <1>1, <1>2, <1>3, <1>4, <1>5, <1>6, <1>7, <1>8, <1>9, <1>10, <1>11, <1>12, <1>13

LEMMA CompleteWorkKeeps ==
  ASSUME AccessInv, NEW w \in Works,
         CompleteWork(w)
  PROVE  AccessInv'
<1> USE DEF AccessInv, AccessTypeOK, CompleteWork, WorkLocked
<1>1. AccessTypeOK'
  <2>1. ASSUME NEW x \in Works PROVE work'[x] \in Work
    BY DEF Work, Somebody, Somewhere
  <2>2. work' \in [Works -> Work]
    BY <2>1
  <2>3. QED
    BY <2>2
<1>2. PrimaryLeads'
  BY DEF PrimaryLeads, Staff
<1>3. BoundIsPrimary'
  BY DEF BoundIsPrimary
<1>4. OneInvitation'
  BY DEF OneInvitation, Invited, Usable, Members, Bound
<1>5. UsedOnce'
  BY DEF UsedOnce
<1>6. OwnersAreKnown'
  BY DEF OwnersAreKnown
<1>7. NamesAreReal'
  BY DEF NamesAreReal
<1>8. ActiveBelongs'
  BY DEF ActiveBelongs
<1>9. UpdateIsSound'
  BY ClerkParts DEF UpdateIsSound
<1>10. AssignIsSound'
  BY ClerkParts DEF AssignIsSound
<1>11. AsksBelong'
  BY DEF AsksBelong
<1>12. HandoverIsComplete'
  BY DEF HandoverIsComplete
<1>13. WorkStaysInside'
  BY DEF WorkStaysInside
<1>14. QED
  BY <1>1, <1>2, <1>3, <1>4, <1>5, <1>6, <1>7, <1>8, <1>9, <1>10, <1>11, <1>12, <1>13

LEMMA ReturnCompletedWorkKeeps ==
  ASSUME AccessInv, NEW w \in Works,
         ReturnCompletedWork(w)
  PROVE  AccessInv'
<1> USE DEF AccessInv, AccessTypeOK, ReturnCompletedWork, Disabled
<1>1. AccessTypeOK'
  <2>1. ASSUME NEW x \in Works PROVE work'[x] \in Work
    BY DEF Work, Somebody, Somewhere
  <2>2. work' \in [Works -> Work]
    BY <2>1
  <2>3. QED
    BY <2>2
<1>2. PrimaryLeads'
  BY DEF PrimaryLeads, Staff
<1>3. BoundIsPrimary'
  BY DEF BoundIsPrimary
<1>4. OneInvitation'
  BY DEF OneInvitation, Invited, Usable, Members, Bound
<1>5. UsedOnce'
  BY DEF UsedOnce
<1>6. OwnersAreKnown'
  BY DEF OwnersAreKnown
<1>7. NamesAreReal'
  BY DEF NamesAreReal
<1>8. ActiveBelongs'
  BY DEF ActiveBelongs
<1>9. UpdateIsSound'
  BY ClerkParts DEF UpdateIsSound
<1>10. AssignIsSound'
  BY ClerkParts DEF AssignIsSound
<1>11. AsksBelong'
  BY DEF AsksBelong
<1>12. HandoverIsComplete'
  <2>1. \A v \in Works : v # w => work'[v] = work[v] /\ (v \in late => v \in late')
    OBVIOUS
  <2>2. work'[w].assignee = work[w].assignee /\ work'[w].of = work[w].of
    BY DEF Work
  <2>3. Disabled(work[w].assignee) => w \in late'
    OBVIOUS
  <2>4. UNCHANGED account
    OBVIOUS
  <2>5. QED
    BY <2>1, <2>2, <2>3, <2>4 DEF HandoverIsComplete, WorkStaysInside
<1>13. WorkStaysInside'
  BY DEF WorkStaysInside
<1>14. QED
  BY <1>1, <1>2, <1>3, <1>4, <1>5, <1>6, <1>7, <1>8, <1>9, <1>10, <1>11, <1>12, <1>13

LEMMA EndWorkKeeps ==
  ASSUME AccessInv, NEW w \in Works,
         EndWork(w)
  PROVE  AccessInv'
<1> USE DEF AccessInv, AccessTypeOK, EndWork, WorkLocked
<1>1. AccessTypeOK'
  <2>1. ASSUME NEW x \in Works PROVE work'[x] \in Work
    BY DEF Work, Somebody, Somewhere
  <2>2. work' \in [Works -> Work]
    BY <2>1
  <2>3. QED
    BY <2>2
<1>2. PrimaryLeads'
  BY DEF PrimaryLeads, Staff
<1>3. BoundIsPrimary'
  BY DEF BoundIsPrimary
<1>4. OneInvitation'
  BY DEF OneInvitation, Invited, Usable, Members, Bound
<1>5. UsedOnce'
  BY DEF UsedOnce
<1>6. OwnersAreKnown'
  BY DEF OwnersAreKnown
<1>7. NamesAreReal'
  BY DEF NamesAreReal
<1>8. ActiveBelongs'
  BY DEF ActiveBelongs
<1>9. UpdateIsSound'
  BY ClerkParts DEF UpdateIsSound
<1>10. AssignIsSound'
  BY ClerkParts DEF AssignIsSound
<1>11. AsksBelong'
  BY DEF AsksBelong
<1>12. HandoverIsComplete'
  BY DEF HandoverIsComplete
<1>13. WorkStaysInside'
  BY DEF WorkStaysInside
<1>14. QED
  BY <1>1, <1>2, <1>3, <1>4, <1>5, <1>6, <1>7, <1>8, <1>9, <1>10, <1>11, <1>12, <1>13

LEMMA BeginAssignKeeps ==
  ASSUME AccessInv, NEW c \in Clerks, NEW w \in Works, NEW p \in Somebody,
         BeginAssign(c, w, p)
  PROVE  AccessInv'
<1> USE DEF AccessInv, AccessTypeOK, BeginAssign, WorkLocked, Staff
<1>1. AccessTypeOK'
  <2>1. ASSUME NEW x \in Clerks PROVE clerk'[x] \in Clerk
    BY DEF Clerk, Free, Somebody
  <2>2. clerk' \in [Clerks -> Clerk]
    BY <2>1
  <2>3. QED
    BY <2>2
<1>2. PrimaryLeads'
  BY DEF PrimaryLeads
<1>3. BoundIsPrimary'
  BY DEF BoundIsPrimary
<1>4. OneInvitation'
  BY DEF OneInvitation, Invited, Usable, Members, Bound
<1>5. UsedOnce'
  BY DEF UsedOnce
<1>6. OwnersAreKnown'
  BY DEF OwnersAreKnown
<1>7. NamesAreReal'
  BY DEF NamesAreReal
<1>8. ActiveBelongs'
  BY DEF ActiveBelongs
<1>9. UpdateIsSound'
  BY ClerkParts DEF UpdateIsSound, Free
<1>10. AssignIsSound'
  BY ClerkParts DEF AssignIsSound, Free
<1>11. AsksBelong'
  BY DEF AsksBelong
<1>12. HandoverIsComplete'
  BY DEF HandoverIsComplete
<1>13. WorkStaysInside'
  BY DEF WorkStaysInside
<1>14. QED
  BY <1>1, <1>2, <1>3, <1>4, <1>5, <1>6, <1>7, <1>8, <1>9, <1>10, <1>11, <1>12, <1>13

LEMMA FinishAssignKeeps ==
  ASSUME AccessInv, NEW c \in Clerks,
         FinishAssign(c)
  PROVE  AccessInv'
<1> USE DEF AccessInv, AccessTypeOK, FinishAssign
<1> DEFINE w == clerk[c].work
           p == clerk[c].to
<1>0. /\ w \in Works /\ p \in Somebody /\ work[w].status = "HELD"
      /\ \A v \in Works : v # w => work'[v] = work[v]
      /\ work'[w] = [work[w] EXCEPT !.assignee = p]
      /\ late' = IF Disabled(p) THEN late \cup {w} ELSE late \ {w}
      /\ UNCHANGED <<company, account, identity, invite, ask, retired>>
  BY ClerkParts DEF FinishAssign, AssignIsSound
<1>a. p # "none" => /\ account[p].role = "EMPLOYEE" /\ account[p].status # "NONE"
                   /\ account[p].of = work[w].of
  BY ClerkParts DEF FinishAssign, AssignIsSound
<1>b. /\ work'[w].status = work[w].status /\ work'[w].of = work[w].of /\ work'[w].assignee = p
  BY <1>0 DEF Work
<1> HIDE DEF w, p
<1>1. AccessTypeOK'
  <2>1. ASSUME NEW x \in Works PROVE work'[x] \in Work
    BY ClerkParts DEF Work, Somebody, Somewhere
  <2>2. work' \in [Works -> Work]
    BY <2>1
  <2>3. ASSUME NEW x \in Clerks PROVE clerk'[x] \in Clerk
    BY ClerkParts DEF Clerk, Free, Somebody
  <2>4. clerk' \in [Clerks -> Clerk]
    BY <2>3
  <2>5. QED
    BY <2>2, <2>4
<1>2. PrimaryLeads'
  BY DEF PrimaryLeads, Staff
<1>3. BoundIsPrimary'
  BY DEF BoundIsPrimary, Somebody
<1>4. OneInvitation'
  BY DEF OneInvitation, Invited, Usable, Members, Bound
<1>5. UsedOnce'
  BY DEF UsedOnce, Invite, Somebody
<1>6. OwnersAreKnown'
  BY DEF OwnersAreKnown, Account, Somewhere
<1>7. NamesAreReal'
  BY <1>0, <1>a, <1>b DEF NamesAreReal, Invite, Work, Somebody
<1>8. ActiveBelongs'
  BY DEF ActiveBelongs
<1>9. UpdateIsSound'
  BY ClerkParts DEF UpdateIsSound, Free
<1>10. AssignIsSound'
  BY ClerkParts DEF AssignIsSound, Free
<1>11. AsksBelong'
  BY DEF AsksBelong
<1>12. HandoverIsComplete'
  <2>1. ASSUME NEW v \in Works, v # w PROVE (v \in late <=> v \in late') /\ work'[v] = work[v]
    BY <2>1, <1>0
  <2>2. p # "none" =>
          account[p].of = work[w].of /\ (account[p].status = "ACTIVE" \/ w \in late')
    BY <1>0, <1>a DEF Disabled
  <2>3. QED
    <3> HIDE DEF FinishAssign, AccessTypeOK
    <3>1. ASSUME NEW v \in Works, v # w, work'[v].status \in {"PENDING", "HELD"},
                 work'[v].assignee # "none", account'[work'[v].assignee].role = "EMPLOYEE"
          PROVE  /\ account'[work'[v].assignee].of = work'[v].of
                 /\ account'[work'[v].assignee].status = "ACTIVE" \/ v \in late'
      BY <2>1, <3>1, <1>0 DEF HandoverIsComplete
    <3>2. work'[w].assignee # "none" =>
            /\ account'[work'[w].assignee].of = work'[w].of
            /\ account'[work'[w].assignee].status = "ACTIVE" \/ w \in late'
      BY <2>2, <1>0, <1>b
    <3>3. QED
      BY <3>1, <3>2, <1>0 DEF HandoverIsComplete
<1>13. WorkStaysInside'
  BY <1>0, <1>a, <1>b DEF WorkStaysInside, Work, Somebody
<1>14. QED
  BY <1>1, <1>2, <1>3, <1>4, <1>5, <1>6, <1>7, <1>8, <1>9, <1>10, <1>11, <1>12, <1>13

-----------------------------------------------------------------------------
\* Handlers that share a part.

LEMMA CreateAccountKeeps ==
  ASSUME AccessInv, NEW k \in Companies, NEW p \in Accounts, NEW role \in {"OWNER", "EMPLOYEE"},
         CreateAccount(k, p, role)
  PROVE  AccessInv'
<1>1. NewAccount(k, p, role) /\ UNCHANGED <<identity, invite, work, ask, clerk, late, retired>>
  BY DEF CreateAccount
<1>2. ask' \in [Asks -> Ask] /\ AsksBelong'
  BY <1>1 DEF AccessInv, AccessTypeOK, AsksBelong
<1>3. QED
  BY <1>1, <1>2, NewAccountKeeps

LEMMA DisableAccountKeeps ==
  ASSUME AccessInv, NEW p \in Accounts, DisableAccount(p)
  PROVE  AccessInv'
<1>1. /\ SetAccountStatus(p, "DISABLED")
      /\ UNCHANGED <<company, identity, invite, work, ask, clerk, late, retired>>
  BY DEF DisableAccount
<1>2. ask' \in [Asks -> Ask] /\ AsksBelong'
  BY <1>1 DEF AccessInv, AccessTypeOK, AsksBelong
<1>3. QED
  BY <1>1, <1>2, SetDisabledKeeps

LEMMA ApproveKeeps ==
  ASSUME AccessInv, NEW q \in Asks, Approve(q)
  PROVE  AccessInv'
<1>1. /\ ask[q].status = "PENDING" /\ ask' = [ask EXCEPT ![q].status = "APPROVED"]
      /\ UNCHANGED <<identity, invite, work, clerk, late, retired>>
  BY DEF Approve
<1>2. ask[q].of \in Companies /\ ask[q].target \in Somebody
  BY <1>1 DEF AccessInv, AccessTypeOK, AsksBelong, Ask, Somewhere
<1>3. ask' \in [Asks -> Ask]
  <2>1. [ask[q] EXCEPT !.status = "APPROVED"] \in Ask
    BY DEF AccessInv, AccessTypeOK, Ask
  <2>2. QED
    BY <1>1, <2>1 DEF AccessInv, AccessTypeOK
<1>4. AsksBelong'
  BY <1>1 DEF AccessInv, AccessTypeOK, AsksBelong, Ask
<1>5. CASE ask[q].target = "none"
  <2>1. PICK p \in Accounts : NewAccount(ask[q].of, p, "EMPLOYEE")
    BY <1>5 DEF Approve
  <2>2. QED
    BY <1>1, <1>2, <1>3, <1>4, <2>1, NewAccountKeeps
<1>6. CASE ask[q].target # "none"
  <2>1. SetAccountStatus(ask[q].target, "DISABLED") /\ UNCHANGED company
    BY <1>6 DEF Approve
  <2>2. ask[q].target \in Accounts
    BY <1>2, <1>6 DEF Somebody
  <2>3. QED
    BY <1>1, <1>3, <1>4, <2>1, <2>2, SetDisabledKeeps
<1>7. QED
  BY <1>5, <1>6

-----------------------------------------------------------------------------
\* Every step keeps the invariant.

LEMMA AccessSteps == ASSUME AccessInv, [AccessNext]_accessVars PROVE AccessInv'
<1>1. ASSUME NEW k \in Companies, NEW i \in Invites, CreateInvite(k, i) PROVE AccessInv'
  BY <1>1, CreateInviteKeeps
<1>2. ASSUME NEW k \in Companies, Unbind(k) PROVE AccessInv'
  BY <1>2, UnbindKeeps
<1>3. ASSUME NEW k \in Companies, DeleteTestCompany(k) PROVE AccessInv'
  BY <1>3, DeleteTestCompanyKeeps
<1>4. ASSUME NEW k \in Companies, NEW p \in Accounts, NEW role \in {"OWNER", "EMPLOYEE"},
             CreateAccount(k, p, role)
      PROVE  AccessInv'
  BY <1>4, CreateAccountKeeps
<1>5. ASSUME NEW k \in Companies, NEW q \in Asks, NEW p \in Somebody, Request(k, q, p) PROVE AccessInv'
  BY <1>5, RequestKeeps
<1>6. ASSUME NEW k \in Companies, NEW w \in Works, NEW p \in Accounts, DispatchWork(w, k, p)
      PROVE  AccessInv'
  BY <1>6, DispatchWorkKeeps
<1>7. ASSUME NEW i \in Invites, RevokeCompanyInvite(i) PROVE AccessInv'
  BY <1>7, RevokeCompanyInviteKeeps
<1>8. ASSUME NEW i \in Invites, InviteExpires(i) PROVE AccessInv'
  BY <1>8, InviteExpiresKeeps
<1>9. ASSUME NEW p \in Accounts, EnableAccount(p) PROVE AccessInv'
  BY <1>9, EnableAccountKeeps
<1>10. ASSUME NEW p \in Accounts, DisableAccount(p) PROVE AccessInv'
  BY <1>10, DisableAccountKeeps
<1>11. ASSUME NEW q \in Asks, Approve(q) PROVE AccessInv'
  BY <1>11, ApproveKeeps
<1>12. ASSUME NEW q \in Asks, Reject(q) PROVE AccessInv'
  BY <1>12, RejectKeeps
<1>13. ASSUME NEW w \in Works, ClaimWork(w) PROVE AccessInv'
  BY <1>13, ClaimWorkKeeps
<1>14. ASSUME NEW w \in Works, EndWork(w) PROVE AccessInv'
  BY <1>14, EndWorkKeeps
<1>15. ASSUME NEW w \in Works, CompleteWork(w) PROVE AccessInv'
  BY <1>15, CompleteWorkKeeps
<1>16. ASSUME NEW w \in Works, ReturnCompletedWork(w) PROVE AccessInv'
  BY <1>16, ReturnCompletedWorkKeeps
<1>17. ASSUME NEW c \in Clerks, NEW o \in Openids, NEW i \in Invites, BeginBinding(c, o, i)
       PROVE  AccessInv'
  BY <1>17, BeginBindingKeeps
<1>18. ASSUME NEW c \in Clerks, NEW p \in Accounts, FinishBinding(c, p) PROVE AccessInv'
  BY <1>18, FinishBindingKeeps
<1>19. ASSUME NEW c \in Clerks, NEW k \in Companies, NEW s \in {"ACTIVE", "PENDING", "DISABLED"},
              BeginUpdate(c, k, s)
       PROVE  AccessInv'
  BY <1>19, BeginUpdateKeeps
<1>20. ASSUME NEW c \in Clerks, NEW w \in Works, NEW p \in Somebody, BeginAssign(c, w, p)
       PROVE  AccessInv'
  BY <1>20, BeginAssignKeeps
<1>21. ASSUME NEW c \in Clerks, FinishUpdate(c) PROVE AccessInv'
  BY <1>21, FinishUpdateKeeps
<1>22. ASSUME NEW c \in Clerks, FinishAssign(c) PROVE AccessInv'
  BY <1>22, FinishAssignKeeps
<1>23. ASSUME NEW c \in Clerks, GiveUp(c) PROVE AccessInv'
  BY <1>23, GiveUpKeeps
<1>24. CASE UNCHANGED accessVars
  BY <1>24 DEF accessVars, AccessInv, AccessTypeOK, PrimaryLeads, BoundIsPrimary, OneInvitation,
    UsedOnce, OwnersAreKnown, NamesAreReal, ActiveBelongs, UpdateIsSound, AssignIsSound, AsksBelong,
    WorkStaysInside, HandoverIsComplete, Staff, Members, Bound, Invited, Usable
<1>25. QED
  BY <1>1, <1>2, <1>3, <1>4, <1>5, <1>6, <1>7, <1>8, <1>9, <1>10, <1>11, <1>12, <1>13, <1>14,
     <1>15, <1>16, <1>17, <1>18, <1>19, <1>20, <1>21, <1>22, <1>23, <1>24 DEF AccessNext

LEMMA AccessInvariant == AccessSpec => []AccessInv
<1>1. AccessInit => AccessInv
  BY AccessStarts
<1>2. AccessInv /\ [AccessNext]_accessVars => AccessInv'
  BY AccessSteps
<1>3. QED
  BY <1>1, <1>2, PTL DEF AccessSpec

-----------------------------------------------------------------------------
\* Every variable has the values of its column.
THEOREM AccessTypeCorrect == AccessSpec => []AccessTypeOK
<1>1. AccessInv => AccessTypeOK
  BY DEF AccessInv
<1>2. QED
  BY <1>1, AccessInvariant, PTL

\* The records about the owner of a company are true, however many bindings,
\* updates, unbindings and deletions go on at a time: the primary account is its
\* active owner, who is bound is primary, one WeChat is bound to him, one invitation
\* can be used, and each admits one owner.
THEOREM TheRightOwnerIsBound == AccessSpec => []BindingIsTrue
<1>1. AccessInv => BindingIsTrue
  BY DEF AccessInv, BindingIsTrue
<1>2. QED
  BY <1>1, AccessInvariant, PTL

\* An open lead is with an active employee of its company: one is disabled only when
\* his leads are finished or handed over.  Excepted are a lead handed to him while he
\* was being disabled, and one completed before that a return takes up again, until
\* it is given to another or he is enabled.
THEOREM WorkHasAWorker == AccessSpec => []HandoverIsComplete
<1>1. AccessInv => HandoverIsComplete
  BY DEF AccessInv
<1>2. QED
  BY <1>1, AccessInvariant, PTL
=============================================================================
