---------------------------- MODULE MCAdmission ----------------------------
(***************************************************************************)
(* Small instances of LeadSupply and CompanyAccess: what gets into the     *)
(* system, leads and the people of the companies.  The two meet in the     *)
(* status of a company only, which LeadSupply leaves open, so the run      *)
(* looks at them one at a time.  The first state chooses the scene.        *)
(*                                                                         *)
(* Leads: one of operations and one of a supplier, one of the two on its   *)
(* whole way, with nothing or the deleted other one before it, or both     *)
(* while they are entered, submitted and deleted side by side.             *)
(* Companies: the owners of one, the owner of two of them, or the team of  *)
(* one.                                                                    *)
(***************************************************************************)
EXTENDS LeadSupply, CompanyAccess, TLC

CONSTANTS l1, l2, c1, c2, k1, k2, a1, a2, a3, i1, i2, i3, o2

MCSourceOf == [l \in Leads |-> IF l = l1 THEN "PLATFORM_MANUAL" ELSE "supplier"]

VARIABLE scene

LeadScenes == {"operations", "supplier", "both"}
CompanyScenes == {"binding", "rivals", "team"}

Other(l) == IF l = l1 THEN l2 ELSE l1
Main == IF scene = "operations" THEN l1 ELSE l2

\* The lead before the main one is entered, submitted and deleted.
Before(l) ==
  /\ row'[l].status \in {"NONE", "DRAFT", "READY_DISPATCH"} /\ tasks'[l] = <<>>
  /\ row'[l].status # "NONE" => row'[l].located /\ row'[l].phone # "none"
  /\ row'[l].deleted => row'[l].status = "READY_DISPATCH"
  /\ row[l].deleted => row'[l] = row[l]
  /\ row[Main].status # "NONE" => row'[l] = row[l]

\* A lead that was overtaken or sold is followed for two rounds, another for
\* MaxTasks.  A result that is both qualified and not reached is tried in the first
\* round only, and the last one reaches the customer.
OneAfterTheOther ==
  /\ Before(Other(Main))
  /\ Main \in overtaken' \/ row'[Main].sold => Len(tasks'[Main]) <= 2
  /\ \A i \in DOMAIN tasks'[Main] :
       tasks'[Main][i].missed => i = 1 \/ (i < MaxTasks /\ ~tasks'[Main][i].passed)
  /\ session'[c2] = Idle
  /\ Exists(Other(Main)) /\ ~row[Other(Main)].deleted
       => row'[Main] = row[Main] /\ (session'[c1] # Idle => session'[c1].lead # Main)

SideBySide ==
  \A l \in Leads :
    /\ row'[l].status \in Absent \cup {"DRAFT", "READY_DISPATCH", "DUPLICATE"}
    /\ row'[l].located = (row'[l].status \notin Absent)

\* Accounts and invitations come into being in one order.
InOrder ==
  /\ \A p, q \in {a1, a2, a3} :
       <<p, q>> \in {<<a1, a2>>, <<a2, a3>>} /\ account[p].status = "NONE" => account'[q].status = "NONE"
  /\ \A i, j \in {i1, i2, i3} :
       <<i, j>> \in {<<i1, i2>>, <<i2, i3>>} /\ invite[i] = NoInvite => invite'[j] = NoInvite

NoLeads == work' = work /\ ask' = ask
OwnersOnly == \A p \in Accounts : account'[p].role # "EMPLOYEE"

OnScene ==
  CASE scene = "binding" -> NoLeads /\ OwnersOnly /\ company'[k2] = company[k2]
                            /\ \A i \in Invites : invite'[i].of # k2
    [] scene = "rivals" -> /\ NoLeads /\ OwnersOnly /\ invite'[i3] = NoInvite
                           /\ account'[a3].status = "NONE"
                           /\ \A k \in Companies : company'[k].status \in {"ACTIVE", "DISABLED"}
                           /\ \A i \in Invites : ~invite'[i].expired
                           /\ \A c \in Clerks : clerk'[c].kind = "bind" => clerk'[c].openid # o2
    [] scene = "team" -> /\ company'[k2] = company[k2]
                         /\ \A i \in Invites : invite'[i] = NoInvite

Init ==
  /\ SupplyInit /\ AccessInit
  /\ scene \in LeadScenes \cup CompanyScenes

Next ==
  /\ UNCHANGED scene
  /\ \/ /\ scene \in LeadScenes
        /\ SupplyNext
        /\ IF scene = "both" THEN SideBySide ELSE OneAfterTheOther
        /\ UNCHANGED accessVars
     \/ /\ scene \in CompanyScenes
        /\ AccessNext
        /\ InOrder /\ OnScene
        /\ UNCHANGED supplyVars

Spec == Init /\ [][Next]_<<scene, supplyVars, accessVars>>
=============================================================================
