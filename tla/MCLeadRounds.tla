---------------------------- MODULE MCLeadRounds ----------------------------
(***************************************************************************)
(* Two small instances of LeadLifecycle in one run, with what LeadReports  *)
(* shows of them: a lead in two rounds, the second after a return, a       *)
(* recall or a deal, or two leads dispatched to a receiver who can pay for *)
(* one of them.  The first state chooses the scene.                        *)
(***************************************************************************)
EXTENDS LeadReports, TLC

VARIABLE scene

RowSymmetry == Permutations(Leads) \cup Permutations(Assignments)

Untouched(l) ==
  /\ leadStatus'[l] = "READY_DISPATCH" /\ current'[l] = None
  /\ ~correction'[l] /\ ~issues'[l]
  /\ \A a \in Assignments : leadOf'[a] # l

\* What may lie between two rounds, or hold one up, is tried before the last one:
\* supply, a correction, and a return that has to be proved again.
SameDetours ==
  /\ \A l \in Leads :
       /\ leadStatus'[l] = "IN_SUPPLY" => leadStatus[l] = "IN_SUPPLY"
       /\ issues'[l] => issues[l]
  /\ \A a \in Assignments : request'[a] = "NEED_MORE" => request[a] = "NEED_MORE"

\* Only one lead moves.
InRounds ==
  /\ \A k, l \in Leads : k = l \/ Untouched(k) \/ Untouched(l)
  /\ \A a \in Assignments : conclusion'[a] # "INCONCLUSIVE"
  /\ (\A a \in Assignments : status[a] # "NEW") => SameDetours

\* The clock stands; nothing is corrected, and a lead that was closed stays so.
InFunding ==
  /\ UNCHANGED now
  /\ \A l \in Leads :
       /\ leadStatus'[l] # "IN_SUPPLY" /\ ~issues'[l]
       /\ leadStatus[l] = "CLOSED" => leadStatus'[l] # "READY_DISPATCH"

SceneInit ==
  /\ ReportInit
  /\ \/ scene = "rounds" /\ price = 1
     \/ scene = "funding" /\ price = Grant

SceneNext ==
  /\ ReportNext
  /\ UNCHANGED <<scene, price, supplyFrozen>>
  /\ IF scene = "rounds" THEN InRounds ELSE InFunding

SceneSpec == SceneInit /\ [][SceneNext]_<<scene, reportVars>>
=============================================================================
