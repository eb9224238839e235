------------------------------ MODULE MCPoints ------------------------------
(***************************************************************************)
(* The two sides of an account in one run: the finance requests on the     *)
(* ledger, and the way of supply points out of the platform.  They share   *)
(* change_points and nothing else, so the first state chooses the scene.   *)
(***************************************************************************)
EXTENDS MCPointsLedger, MCSupplySettlement

VARIABLE scene

AccountInit == Init /\ SettlementInit /\ scene \in {"ledger", "settlement"}

AccountNext ==
  /\ UNCHANGED scene
  /\ \/ scene = "ledger" /\ Next /\ UNCHANGED settlementVars
     \/ scene = "settlement" /\ SettlementNext /\ UNCHANGED vars

AccountSpec == AccountInit /\ [][AccountNext]_<<scene, vars, settlementVars>>

\* Keys, rewards and withdrawals are interchangeable, and the scenes share none of
\* them: keys and rewards change places together.  (So are the finance requests; to
\* try their permutations on every state costs more than it saves.)
Swaps(S) == {p \in Permutations(S) : \A x \in S : p[x] # x}
Interchangeable ==
  Permutations(Withdrawals) \cup {r @@ k : r \in Swaps(Rewards), k \in Swaps(Keys)}
=============================================================================
