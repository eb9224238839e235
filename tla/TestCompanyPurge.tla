-------------------------- MODULE TestCompanyPurge --------------------------
(***************************************************************************)
(* The deletion of a test company with everything it did                   *)
(* (company_service.py, routers/companies.py).  What it did reaches into   *)
(* the data of others: leads of the platform it received, points of the    *)
(* companies it dealt with, leads that were taken for duplicates of its    *)
(* own.  The purge discovers what belongs to it, locks that without        *)
(* waiting, and deletes it in one transaction, while business goes on.     *)
(*                                                                         *)
(* There is one test company, t, one other, x, and the platform.  All      *)
(* leads have the same phone.                                              *)
(***************************************************************************)
EXTENDS Integers, FiniteSets

CONSTANTS
  Stock,          \* rows of leads
  Deals,          \* rows of assignments
  MaxRounds       \* rounds in which the purge looks for what belongs to it: 3

ASSUME PurgeAssumption == MaxRounds \in Nat \ {0} /\ "none" \notin Deals

VARIABLES
  party,          \* the row of company t
  stock,          \* stock[l]: a lead
  match,          \* match[l]: the leads that l was found to be a duplicate of
  deal,           \* deal[a]: an assignment, its return and its reward
  books,          \* the entries of the ledger
  funds,          \* funds[k]: the account of company k
  cashed,         \* companies with a row of supply_points_withdrawals
  clerk,          \* the business transaction in progress
  shown,          \* the preview that somebody looks at
  purge           \* the purge in progress

purgeVars == <<party, stock, match, deal, books, funds, cashed, clerk, shown, purge>>
tradeVars == <<stock, match, deal, books, funds, cashed>>

-----------------------------------------------------------------------------
Parties == {"t", "x"}
PointKinds == {"CUSTOMER", "SUPPLY"}

\* A lead.  "ok": its review approved it.
Goods == [by : {"platform"} \cup Parties, ok : BOOLEAN, gone : BOOLEAN, on : Deals \cup {"none"},
          status : {"PENDING_REVIEW", "READY_DISPATCH", "DUPLICATE", "OUT"}]
NoGoods == [by |-> "none", ok |-> FALSE, gone |-> FALSE, on |-> "none", status |-> "NONE"]

NoDeal == [status |-> "NONE", lead |-> "none", to |-> "none", reward |-> "none"]
Deal == {NoDeal} \cup
  [status : {"PENDING", "CLAIMED", "RETURNED", "OVER"}, lead : Stock, to : Parties,
   reward : {"none", "due", "paid", "reversed", "cancelled"}]

\* An entry of the ledger.  A correction is a reversal by hand: it names the entry it
\* corrects, and no business; it can be corrected in its turn.
Entry == [what : {"recharge", "withdrawal"}, deal : {"none"}, of : Parties, kind : PointKinds]
   \cup  [what : {"claim", "refund", "reward", "reversal", "correction", "recorrection"},
          deal : Deals, of : Parties, kind : PointKinds]

Delta(e) ==
  CASE e.what = "recharge" -> 2
    [] e.what \in {"claim", "reversal", "withdrawal", "recorrection"} -> -1
    [] e.what \in {"refund", "reward", "correction"} -> 1

NoClerk == [kind |-> "none"]
NotShown == [deals |-> {}]
Nothing == [deals |-> {}, rewards |-> {}]
NoPurge == [phase |-> "none", found |-> Nothing, locked |-> Nothing, rounds |-> 0, entries |-> {}]

PurgeInit ==
  /\ party = [status |-> "ACTIVE", test |-> FALSE, gone |-> FALSE]
  /\ stock = [l \in Stock |-> NoGoods]
  /\ match = [l \in Stock |-> {}]
  /\ deal = [a \in Deals |-> NoDeal]
  /\ books = [what : {"recharge"}, deal : {"none"}, of : Parties, kind : {"CUSTOMER"}]
  /\ funds = [k \in Parties |-> [CUSTOMER |-> 2, SUPPLY |-> 0]]
  /\ cashed = {} /\ clerk = NoClerk /\ shown = NotShown /\ purge = NoPurge

-----------------------------------------------------------------------------
InStock == {l \in Stock : stock[l] # NoGoods}
Done == {a \in Deals : deal[a].status # "NONE"}
SupplierOf(a) == stock[deal[a].lead].by

\* Rows that a transaction of the other side has locked.  The purge holds the row of
\* the company from its first step on, so nothing new refers to t.
Open(a) == a \notin purge.locked.deals /\ (clerk # NoClerk => clerk.deal # a)
CompanyFree == purge = NoPurge

\* change_points
Booked(E) ==
  /\ books' = books \cup E
  /\ funds' = [k \in Parties |-> [p \in PointKinds |->
       funds[k][p] + LET new == {e \in E : e.of = k /\ e.kind = p}
                     IN IF new = {} THEN 0 ELSE Delta(CHOOSE e \in new : TRUE)]]
Ledger(what, a, k, p) == [what |-> what, deal |-> a, of |-> k, kind |-> p]

-----------------------------------------------------------------------------
\* Business.

\* A lead is entered: no other that is not deleted may have the phone, and a deleted
\* one makes it a duplicate.
Enter(l, by) ==
  LET Others == InStock
  IN /\ stock[l] = NoGoods /\ \A k \in Others : stock[k].gone
     /\ by = "t" => party.status = "ACTIVE" /\ CompanyFree
     /\ \E m \in IF Others = {} THEN {{}} ELSE {{k} : k \in Others} : match' = [match EXCEPT ![l] = m]
     /\ stock' = [stock EXCEPT ![l] =
          [by |-> by, ok |-> by = "platform", gone |-> FALSE, on |-> "none",
           status |-> IF Others # {} THEN "DUPLICATE"
                      ELSE IF by = "platform" THEN "READY_DISPATCH" ELSE "PENDING_REVIEW"]]
     /\ UNCHANGED <<party, deal, books, funds, cashed, clerk, shown, purge>>

\* A review, or the override of a duplicate, sends a lead on.
SendOn(l) ==
  /\ l \in InStock /\ ~stock[l].gone /\ stock[l].status \in {"PENDING_REVIEW", "DUPLICATE"}
  /\ ~(stock[l].by = "t" /\ purge # NoPurge)
  /\ stock' = [stock EXCEPT ![l].ok = TRUE, ![l].status = "READY_DISPATCH"]
  /\ UNCHANGED <<party, match, deal, books, funds, cashed, clerk, shown, purge>>

\* delete_lead_v12
DeleteGoods(l) ==
  LET a == stock[l].on
  IN /\ l \in InStock /\ ~stock[l].gone
     /\ ~(stock[l].by = "t" /\ purge # NoPurge)
     /\ a # "none" => Open(a)
     /\ stock' = [stock EXCEPT ![l].gone = TRUE, ![l].on = "none"]
     /\ deal' = IF a = "none" THEN deal
                ELSE [deal EXCEPT ![a].status = IF @ = "PENDING" THEN "OVER" ELSE @,
                                  ![a].reward = IF @ = "due" THEN "cancelled" ELSE @]
     /\ UNCHANGED <<party, match, books, funds, cashed, clerk, shown, purge>>

\* dispatch_manually locks the receiver.
Dispatch(a, l, k) ==
  /\ deal[a] = NoDeal /\ l \in InStock
  /\ ~stock[l].gone /\ stock[l].status = "READY_DISPATCH" /\ stock[l].by # k
  /\ k = "t" => party.status = "ACTIVE"
  /\ k = "t" \/ stock[l].by = "t" => ~party.gone /\ CompanyFree
  /\ funds[k].CUSTOMER > 0
  /\ deal' = [deal EXCEPT ![a] = [status |-> "PENDING", lead |-> l, to |-> k, reward |-> "none"]]
  /\ stock' = [stock EXCEPT ![l].status = "OUT", ![l].on = a]
  /\ UNCHANGED <<party, match, books, funds, cashed, clerk, shown, purge>>

\* Fault: a dispatch nobody has claimed can be returned.
MayUnclaimed(kind, a) ==
  CASE kind = "claim" -> deal[a].status = "PENDING" /\ funds[deal[a].to].CUSTOMER > 0
    [] kind = "settle" -> deal[a].reward = "due"
    [] kind = "return" -> deal[a].status \in {"PENDING", "CLAIMED"}

\* A claim, the settlement of a reward and the approval of a return lock the
\* assignment and what belongs to it ...
May(kind, a) ==
  CASE kind = "claim" -> deal[a].status = "PENDING" /\ funds[deal[a].to].CUSTOMER > 0
    [] kind = "settle" -> deal[a].reward = "due"
    [] kind = "return" -> deal[a].status = "CLAIMED"

Take(kind, a) ==
  /\ clerk = NoClerk /\ a \in Done /\ Open(a)
  /\ ~stock[deal[a].lead].gone /\ May(kind, a)
  /\ clerk' = [kind |-> kind, deal |-> a]
  /\ UNCHANGED <<party, tradeVars, shown, purge>>

\* ... then the accounts, and commit.
Write ==
  LET a == clerk.deal
      to == deal[a].to
      by == SupplierOf(a)
      Entries ==
        CASE clerk.kind = "claim" -> {Ledger("claim", a, to, "CUSTOMER")}
          [] clerk.kind = "settle" -> {Ledger("reward", a, by, "SUPPLY")}
          [] clerk.kind = "return" -> {Ledger("refund", a, to, "CUSTOMER")} \cup
               (IF deal[a].reward = "paid" THEN {Ledger("reversal", a, by, "SUPPLY")} ELSE {})
  IN /\ clerk # NoClerk
     /\ Booked(Entries)
     /\ deal' = [deal EXCEPT
          ![a].status = IF clerk.kind = "claim" THEN "CLAIMED"
                        ELSE IF clerk.kind = "return" THEN "RETURNED" ELSE @,
          ![a].reward = CASE clerk.kind = "claim" -> IF by = "platform" THEN "none" ELSE "due"
                          [] clerk.kind = "settle" -> "paid"
                          [] clerk.kind = "return" -> IF @ = "paid" THEN "reversed"
                                                      ELSE IF @ = "due" THEN "cancelled" ELSE @]
     /\ stock' = IF clerk.kind = "return" /\ stock[deal[a].lead].on = a
                 THEN [stock EXCEPT ![deal[a].lead].on = "none", ![deal[a].lead].status = "READY_DISPATCH"]
                 ELSE stock
     /\ clerk' = NoClerk
     /\ UNCHANGED <<party, match, cashed, shown, purge>>

\* reverse_ledger locks an account, and no assignment: a claim is corrected by hand,
\* or the correction is.
Correct(e, what) ==
  LET new == Ledger(what, e.deal, e.of, e.kind)
  IN /\ e \in books /\ new \notin books
     /\ <<e.what, what>> \in {<<"claim", "correction">>, <<"correction", "recorrection">>}
     /\ e.of = "t" => CompanyFree
     /\ Booked({new})
     /\ UNCHANGED <<party, stock, match, deal, cashed, clerk, shown, purge>>

\* A withdrawal of supply points is requested and confirmed.
CashIn(k) ==
  /\ k \notin cashed /\ funds[k].SUPPLY > 0 /\ (k = "t" => ~party.gone /\ CompanyFree)
  /\ cashed' = cashed \cup {k}
  /\ Booked({Ledger("withdrawal", "none", k, "SUPPLY")})
  /\ UNCHANGED <<party, stock, match, deal, clerk, shown, purge>>

-----------------------------------------------------------------------------
\* What belongs to t.

\* _test_company_purge_scope
OwnGoods == {l \in InStock : stock[l].by = "t"}
OwnDeals == {a \in Done : deal[a].to = "t" \/ deal[a].lead \in OwnGoods}
OwnRewards == {a \in OwnDeals : deal[a].reward # "none"}

\* Entries of the accounts of t, and of its business ...
DirectEntries == {e \in books : e.of = "t" \/ (e.deal \in OwnDeals /\ e.what \notin {"correction", "recorrection"})}

\* ... and what corrects them, or is corrected by them.
Corrects(c, e) == c.deal = e.deal /\ c.of = e.of /\
  <<e.what, c.what>> \in {<<"claim", "correction">>, <<"correction", "recorrection">>}
Related(E) == E \cup {c \in books : \E e \in E : Corrects(c, e) \/ Corrects(e, c)}

\* _discover_purge_ledgers.  Fault: the corrections of corrections are not followed.
OwnEntriesOnce == Related(DirectEntries)
OwnEntries == Related(Related(DirectEntries))

Accounts(E) == {"t"} \cup {e.of : e \in E}

\* The leads that were found to be duplicates of those that go.
Affected == {l \in InStock \ OwnGoods : match[l] \cap OwnGoods # {}}

-----------------------------------------------------------------------------
\* The purge.

\* update_company: a new status
SetPartyStatus(s) ==
  /\ ~party.gone /\ CompanyFree /\ party.status # s
  /\ party' = [party EXCEPT !.status = s]
  /\ shown' = NotShown
  /\ UNCHANGED <<tradeVars, clerk, purge>>

\* preview_test_company_purge
Token == [deals |-> OwnDeals, rewards |-> OwnRewards, entries |-> OwnEntries]
Preview ==
  /\ ~party.gone /\ party.status = "DISABLED" /\ ~party.test
  /\ shown' = Token
  /\ UNCHANGED <<party, tradeVars, clerk, purge>>

\* mark_company_as_test
MarkCompany ==
  /\ ~party.gone /\ party.status = "DISABLED" /\ ~party.test
  /\ shown = Token
  /\ party' = [party EXCEPT !.test = TRUE]
  /\ shown' = NotShown
  /\ UNCHANGED <<tradeVars, clerk, purge>>

\* delete_test_company locks the company ...
Scope == [deals |-> OwnDeals, rewards |-> OwnRewards]
StartPurge ==
  /\ purge = NoPurge /\ ~party.gone /\ party.status = "DISABLED" /\ party.test
  /\ purge' = [NoPurge EXCEPT !.phase = "locking", !.found = Scope]
  /\ UNCHANGED <<party, tradeVars, clerk, shown>>

PurgeFails ==
  /\ purge' = NoPurge
  /\ UNCHANGED <<party, tradeVars, clerk, shown>>

\* ... then, round by round, what it has found, and looks again.
Busy == clerk # NoClerk /\ clerk.deal \in purge.found.deals
LockScope ==
  /\ purge.phase = "locking" /\ ~Busy /\ purge.rounds < MaxRounds
  /\ purge' = [purge EXCEPT
       !.locked = purge.found, !.found = Scope, !.rounds = @ + 1,
       !.phase = IF purge.found = purge.locked /\ Scope = purge.found THEN "locked" ELSE @]
  /\ UNCHANGED <<party, tradeVars, clerk, shown>>

\* COMPANY_PURGE_BUSY_RETRY
PurgeBusy == purge.phase = "locking" /\ Busy /\ PurgeFails

\* After the last round it goes on when nothing new has been found
\* (COMPANY_PURGE_SCOPE_CHANGED_RETRY).
LastRound ==
  /\ purge.phase = "locking" /\ purge.rounds = MaxRounds
  /\ purge' = IF purge.found.deals \subseteq purge.locked.deals
                  /\ purge.found.rewards \subseteq purge.locked.rewards
               THEN [purge EXCEPT !.phase = "locked"] ELSE NoPurge
  /\ UNCHANGED <<party, tradeVars, clerk, shown>>

\* It reads the ledger to see which accounts it has to lock ...
ReadLedger ==
  /\ purge.phase = "locked"
  /\ purge' = [purge EXCEPT !.phase = "read", !.entries = OwnEntries]
  /\ UNCHANGED <<party, tradeVars, clerk, shown>>

\* ... and again once they are locked.
Doomed == OwnEntries

\* COMPANY_PURGE_SCOPE_CHANGED_RETRY.  And there is no step for the withdrawals, whose
\* rows keep the company.
ScopeChanged == ~(Accounts(Doomed) \subseteq Accounts(purge.entries))
PurgeRefused == purge.phase = "read" /\ (ScopeChanged \/ "t" \in cashed) /\ PurgeFails

\* The balances of the others are what the entries that stay add up to.
Sum(E, k, p) ==
  LET Of(w) == Cardinality({e \in E : e.of = k /\ e.kind = p /\ e.what = w})
  IN 2 * Of("recharge") + Of("refund") + Of("reward") + Of("correction")
     - Of("claim") - Of("reversal") - Of("withdrawal") - Of("recorrection")

\* _restore_dedup_affected_lead, after a new look for the phone among what stays.
\* Fault: the leads that were duplicates of what goes stay duplicates.
RestoredNever(l) == stock[l]
Restored(l) ==
  LET g == IF stock[l].on \in OwnDeals
           THEN [stock[l] EXCEPT !.on = "none", !.status = "READY_DISPATCH"] ELSE stock[l]
      Duplicate == InStock \ (OwnGoods \cup {l}) # {}
  IN IF l \notin Affected \/ g.on # "none" THEN g
     ELSE IF Duplicate THEN [g EXCEPT !.status = "DUPLICATE"]
     ELSE IF g.status # "DUPLICATE" THEN g
     ELSE [g EXCEPT !.status = IF g.by # "platform" /\ ~g.ok THEN "PENDING_REVIEW" ELSE "READY_DISPATCH"]

Delete ==
  LET kept == books \ Doomed
  IN /\ purge.phase = "read" /\ ~ScopeChanged /\ "t" \notin cashed
     /\ books' = kept
     /\ funds' = [k \in Parties |->
          IF k = "t" THEN [p \in PointKinds |-> 0]
          ELSE IF k \in Accounts(purge.entries) THEN [p \in PointKinds |-> Sum(kept, k, p)] ELSE funds[k]]
     /\ deal' = [a \in Deals |-> IF a \in OwnDeals THEN NoDeal ELSE deal[a]]
     /\ stock' = [l \in Stock |->
          IF l \in OwnGoods THEN NoGoods ELSE IF l \in InStock THEN Restored(l) ELSE NoGoods]
     /\ match' = [l \in Stock |->
          IF l \in OwnGoods THEN {}
          ELSE (match[l] \ OwnGoods) \cup
               (IF l \in Affected /\ InStock \ (OwnGoods \cup {l}) # {}
                THEN {CHOOSE k \in InStock \ (OwnGoods \cup {l}) : TRUE} ELSE {})]
     /\ party' = [party EXCEPT !.gone = TRUE]
     /\ purge' = NoPurge
     /\ UNCHANGED <<cashed, clerk, shown>>

PurgeNext ==
  \/ \E l \in Stock :
       \/ \E by \in {"platform"} \cup Parties : Enter(l, by)
       \/ SendOn(l) \/ DeleteGoods(l)
       \/ \E a \in Deals, k \in Parties : Dispatch(a, l, k)
  \/ \E a \in Deals, kind \in {"claim", "settle", "return"} : Take(kind, a)
  \/ Write
  \/ \E e \in books, what \in {"correction", "recorrection"} : Correct(e, what)
  \/ \E k \in Parties : CashIn(k)
  \/ \E s \in {"ACTIVE", "DISABLED"} : SetPartyStatus(s)
  \/ Preview \/ MarkCompany
  \/ StartPurge \/ LockScope \/ PurgeBusy \/ LastRound \/ ReadLedger \/ PurgeRefused \/ Delete

PurgeSpec == PurgeInit /\ [][PurgeNext]_purgeVars

-----------------------------------------------------------------------------
PurgeTypeOK ==
  /\ party \in [status : {"ACTIVE", "DISABLED"}, test : BOOLEAN, gone : BOOLEAN]
  /\ stock \in [Stock -> Goods \cup {NoGoods}]
  /\ match \in [Stock -> SUBSET Stock]
  /\ deal \in [Deals -> Deal]
  /\ books \subseteq Entry
  /\ funds \in [Parties -> [PointKinds -> Int]]
  /\ cashed \subseteq Parties
  /\ clerk = NoClerk \/ clerk \in [kind : {"claim", "settle", "return"}, deal : Done]
  /\ purge.locked.deals \subseteq Deals /\ purge.locked.rewards \subseteq purge.locked.deals
  /\ purge.entries \subseteq Entry /\ purge.rounds <= MaxRounds

\* The points of every company are what its entries add up to, and the entries are
\* those of the deals there are: the purge takes back from the others exactly what
\* the test company caused, also what was corrected by hand while it looked.
\* ("后续扣分、奖励和对账")
BooksMatchDeals ==
  /\ \A k \in Parties, p \in PointKinds :
       ~(k = "t" /\ party.gone) => funds[k][p] = Sum(books, k, p)
  /\ \A e \in books : e.deal # "none" =>
       /\ e.deal \in Done
       /\ e.what = "correction" => Ledger("claim", e.deal, e.of, e.kind) \in books
       /\ e.what = "recorrection" => Ledger("correction", e.deal, e.of, e.kind) \in books
  /\ \A a \in Done :
       /\ deal[a].status \in {"CLAIMED", "RETURNED"} => Ledger("claim", a, deal[a].to, "CUSTOMER") \in books
       /\ deal[a].reward \in {"paid", "reversed"} => Ledger("reward", a, SupplierOf(a), "SUPPLY") \in books

\* What the purge leaves behind can be worked with: a lead that is out is out with a
\* dispatch that exists, and one held as a duplicate is one of a lead that exists.
LeadsStayUsable ==
  \A l \in InStock : ~stock[l].gone =>
    /\ stock[l].status = "OUT" <=> stock[l].on # "none"
    /\ stock[l].on # "none" => deal[stock[l].on].lead = l
    /\ stock[l].status = "DUPLICATE" => InStock # {l}

\* A purge that has locked everything deletes the company, unless somebody posted on
\* an account it did not expect.  ("不因已产生业务或已派发客资而阻止")
MarkedCompanyCanBeDeleted ==
  [][purge.phase = "read" /\ purge' = NoPurge => party'.gone \/ ScopeChanged]_purgeVars
=============================================================================
