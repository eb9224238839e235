--------------------------- MODULE MCOrganisation ---------------------------
(***************************************************************************)
(* Small instances of InternalAccounts, CompanyProfile and                 *)
(* TestCompanyPurge: who administers the platform, what the companies may  *)
(* receive, and the end of a test company.  They share no state, so the    *)
(* run looks at one at a time; the first state chooses the scene.          *)
(*                                                                         *)
(* Accounts: three of them and the changes of the roster; two of them and  *)
(* a role migration, their sessions, their passwords, or their whole life. *)
(* Companies: one and the crossing of two requests about its areas, or     *)
(* about its capability; one and its areas on every level; or two and what *)
(* each of them receives.                                                  *)
(* Purge: one deal and everything that may be posted for it, or two of     *)
(* them and the leads they leave.                                          *)
(***************************************************************************)
EXTENDS InternalAccounts, CompanyProfile, TestCompanyPurge, TLC

CONSTANTS f1, f2, b1, s1, s2, a1, a2

VARIABLE scene

AccountScenes == {"roster", "migration", "sessions", "passwords", "staff"}
ProfileScenes == {"races", "capability", "areas", "firms"}
PurgeScenes == {"one deal", "two deals"}

MCLevel == [r \in Regions |->
  IF r = "c" THEN "CITY" ELSE IF r = "t" THEN "TOWNSHIP" ELSE "DISTRICT"]
MCParent == [r \in Regions |->
  IF r = "c" THEN "none" ELSE IF r = "t" THEN "d" ELSE "c"]

\* Requests at one desk are not told from those at another, nor one account from
\* another.
Interchangeable == Permutations(Users) \cup Permutations(Desks)

-----------------------------------------------------------------------------
\* What a scene leaves out.

AtMostTwo == Cardinality({u \in Users : user'[u].status # "NONE"}) <= 2
NoPasswords == guard' = guard
OneBrowser == \A b \in Browsers \ {b1} : session'[b] = NoSession
OnDesks(K) == \A d \in Desks : desk'[d].kind \in K \cup {"none"}
NoTests == \A u \in Users : ~user'[u].test
NoWaiting == \A d \in Desks : desk[d] # AtEase => desk'[d] # desk[d]

AccountScene ==
  CASE scene = "roster" ->
         /\ NoPasswords /\ cited' = {} /\ NoTests /\ OneBrowser
         /\ OnDesks({"roles", "status"})
         /\ \A u \in Users : user'[u].version <= 2
    [] scene = "migration" ->
         /\ NoPasswords /\ cited' = {} /\ NoTests /\ OneBrowser /\ AtMostTwo
         /\ OnDesks({"roles", "status", "migration"})
         /\ \A u \in Users : user'[u].version <= 2
    [] scene = "sessions" ->
         /\ NoPasswords /\ cited' = {} /\ NoTests /\ AtMostTwo
         /\ OnDesks({"status", "logout"})
         /\ \A d \in Desks : desk[d].kind = "status" => desk'[d] = AtEase
         /\ \A u \in Users : "LEGACY" \notin user[u].roles /\ user'[u].version <= 2
    [] scene = "passwords" ->
         /\ cited' = {} /\ NoTests /\ AtMostTwo /\ OneBrowser
         /\ OnDesks({"status"}) /\ NoWaiting
         /\ \A u \in Users : user'[u].version <= 2
    [] scene = "staff" ->
         /\ NoPasswords /\ AtMostTwo
         /\ OnDesks({"roles", "status"}) /\ NoWaiting
         /\ \A u \in Users : user'[u].version <= 2

OneRequest == \E o \in Offices : office'[o] = Quiet
NoRows(k, I) == \A i \in I : entry'[k][i] = NoRow
Kinds(K) == \A o \in Offices : office'[o].kind \in K \cup {"none"}
Wants(R) == \A o \in Offices : office'[o].kind \in {"replace", "configure"} => office'[o].want \subseteq R

ProfileScene ==
  CASE scene = "races" ->
         /\ known = Regions /\ byHand' = {} /\ firm'[f2] = "NONE" /\ firm'[f1] # "DISABLED"
         /\ NoRows(f1, {"e", "t"}) /\ Wants({"c", "d"})
         /\ firm'[f1] = "NONE" \/ \A i \in {"c", "receiver"} : entry'[f1][i] = Opened
         /\ Kinds({"replace", "configure", "review", "approveAll"})
         /\ \A o \in Offices : office'[o].kind = "review" => office'[o].item = "d"
    [] scene = "capability" ->
         /\ known = Regions /\ firm'[f2] = "NONE" /\ NoRows(f1, Regions)
         /\ Kinds({"request", "set", "review", "approveAll"})
    [] scene = "areas" ->
         /\ OneRequest /\ byHand' = {} /\ firm'[f2] = "NONE" /\ firm'[f1] # "DISABLED"
         /\ NoRows(f1, {"e"}) /\ Wants(Regions \ {"e"}) /\ entry'[f1]["receiver"] \in {NoRow, Opened}
         /\ Kinds({"replace", "configure", "review", "approveAll"})
         /\ \A o \in Offices : office'[o].kind = "review" => office'[o].item # "receiver"
    [] scene = "firms" ->
         /\ "t" \notin known /\ OneRequest /\ byHand' = {}
         /\ NoRows(f1, {"t"}) /\ NoRows(f2, {"c", "t"})
         /\ Kinds({"set", "review"})
         /\ \A o \in Offices : office'[o] # Quiet =>
              ~office'[o].yes /\ (office'[o].of = f1 \/ office'[o].item = "d")

\* Where requests do not meet, each ends before anything else happens.
ProfileStep ==
  IF scene \in {"areas", "firms"} /\ \E o \in Offices : office[o] # Quiet
  THEN \E o \in Offices : Commit(o) \/ Abandon(o)
  ELSE ProfileNext

\* Rows come into being in one order.
InOrder ==
  /\ stock[s2] = NoGoods /\ stock'[s2] # NoGoods => stock[s1] # NoGoods
  /\ deal[a2] = NoDeal /\ deal'[a2] # NoDeal => deal[a1] # NoDeal

PurgeScene ==
  /\ InOrder
  /\ IF scene = "one deal" THEN deal'[a2] = NoDeal
     ELSE cashed' = {} /\ \A e \in books' : e.what # "correction"

-----------------------------------------------------------------------------
Init ==
  /\ InternalInit /\ ProfileInit /\ PurgeInit
  /\ scene \in AccountScenes \cup ProfileScenes \cup PurgeScenes
  /\ scene \notin ProfileScenes => known = {}
  /\ scene \notin AccountScenes => rbac = "absent"

Next ==
  /\ UNCHANGED scene
  /\ \/ /\ scene \in AccountScenes
        /\ InternalNext /\ AccountScene
        /\ UNCHANGED <<profileVars, purgeVars>>
     \/ /\ scene \in ProfileScenes
        /\ ProfileStep /\ ProfileScene
        /\ UNCHANGED <<internalVars, purgeVars>>
     \/ /\ scene \in PurgeScenes
        /\ PurgeNext /\ PurgeScene
        /\ UNCHANGED <<internalVars, profileVars>>

Spec == Init /\ [][Next]_<<scene, internalVars, profileVars, purgeVars>>
=============================================================================
