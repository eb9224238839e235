---------------------------- MODULE PointsAccount ----------------------------
(***************************************************************************)
(* The one operation through which every balance of the platform changes:  *)
(* change_points (services/points_service.py).  A company owns one account *)
(* with two wallets, CUSTOMER and SUPPLY; each wallet has a balance and a  *)
(* frozen part.  A posting is described by a change record; the operators  *)
(* below say when the code accepts it and what the account and the ledger  *)
(* entry become.  The operators have no state of their own: the modules    *)
(* that own an account use them inside their actions, under the account    *)
(* row lock that _serialize_points_account takes.                          *)
(***************************************************************************)
EXTENDS Integers, Sequences

Kinds == {"CUSTOMER", "SUPPLY"}

\* The types written through change_points; MIGRATION_SPLIT is written by the
\* migration alone.
LedgerTypes == {"RECHARGE", "ADJUST", "REVERSAL", "CLAIM", "RETURN", "REWARD",
                "TERMINATION_WRITEOFF", "WITHDRAWAL_WRITEOFF"}

Accounts == [balance : [Kinds -> Int], frozen : [Kinds -> Nat],
             ready : BOOLEAN, settling : BOOLEAN]

EmptyAccount == [balance  |-> [k \in Kinds |-> 0],
                 frozen   |-> [k \in Kinds |-> 0],
                 ready    |-> TRUE,
                 settling |-> FALSE]

\* The wallets a ledger type may be posted to.
WalletsOf(type) ==
  CASE type = "REWARD"                            -> {"SUPPLY"}
    [] type \in {"RECHARGE", "CLAIM", "RETURN"}   -> {"CUSTOMER"}
    [] OTHER                                      -> Kinds

\* What change_points checks of its arguments before it looks at the account.
\* related is 0 when no ledger is related; a REVERSAL names an entry of the
\* same wallet, which the callers' change records do by construction.
WellFormed(ch) ==
  /\ ch.delta # 0
  /\ ch.kind \in WalletsOf(ch.type)
  /\ ch.type = "REVERSAL" => ch.related # 0
  /\ ch.allowNegative => ch.type = "REVERSAL"

\* A settlement in progress closes the supply wallet to everything but the
\* write-off itself, in both directions.
SupplyClosed(a, ch) ==
  /\ ch.kind = "SUPPLY"
  /\ ~ch.allowFrozen
  /\ a.frozen["SUPPLY"] > 0 \/ a.settling

\* A debit may not overdraw the wallet, nor reach into its frozen part.
Covered(a, ch) ==
  LET after == a.balance[ch.kind] + ch.delta IN
  ch.delta < 0 =>
    /\ ch.allowNegative \/ after >= 0
    /\ ch.allowFrozen \/ ch.allowNegative \/ after >= a.frozen[ch.kind]

\* The account accepts a change that is not a replay.
Accepts(a, ch) ==
  /\ WellFormed(ch)
  /\ a.ready
  /\ ~SupplyClosed(a, ch)
  /\ Covered(a, ch)

\* The account after an accepted change.
Credited(a, ch) == [a EXCEPT !.balance[ch.kind] = @ + ch.delta]

\* A replay under a known key is honoured only for the same posting.
SamePosting(entry, ch) ==
  /\ entry.delta = ch.delta
  /\ entry.type = ch.type
  /\ entry.business = ch.business
  /\ entry.kind = ch.kind
  /\ entry.ref = ch.ref
  /\ entry.related = ch.related

\* Fault: the entry records the balance read before the change.
EntryWithOldBalance(a, ch) ==
  [type |-> ch.type, kind |-> ch.kind, delta |-> ch.delta,
   after |-> a.balance[ch.kind], business |-> ch.business,
   key |-> ch.key, ref |-> ch.ref, related |-> ch.related]

\* The ledger entry written with an accepted change.
EntryFor(a, ch) ==
  [type |-> ch.type, kind |-> ch.kind, delta |-> ch.delta,
   after |-> a.balance[ch.kind] + ch.delta, business |-> ch.business,
   key |-> ch.key, ref |-> ch.ref, related |-> ch.related]
===============================================================================
