------------------------------ MODULE LeadSale ------------------------------
(***************************************************************************)
(* What the platform promises the two sides of a lead, without saying how: *)
(* a lead is offered to one receiver at a time, a receiver that takes it   *)
(* pays for it and may get its points back once, and the supplier is paid  *)
(* for a sale that stands.  A sale that was carried through may be left    *)
(* to its receiver and the lead sold anew.  LeadLifecycle implements it.   *)
(***************************************************************************)
EXTENDS FiniteSets

CONSTANTS Leads, Rounds, Receivers, None

VARIABLES
  lead,    \* lead[a]: what round a offers
  buyer,   \* buyer[a]: to whom
  sale,    \* sale[a]: how far the round came
  pay,     \* pay[a]: the supplier's reward for it
  gone     \* leads deleted

saleVars == <<lead, buyer, sale, pay, gone>>

\* kept: the receiver keeps what it paid for, and the lead is free again.
SaleStates == {"none", "offered", "withdrawn", "charged", "refunded", "kept"}
PayStates == {"none", "promised", "paid", "recovered"}

SaleInit ==
  /\ lead = [a \in Rounds |-> None]
  /\ buyer = [a \in Rounds |-> None]
  /\ sale = [a \in Rounds |-> "none"]
  /\ pay = [a \in Rounds |-> "none"]
  /\ gone = {}

RoundsOfSale(l) == {b \in Rounds : lead[b] = l}

\* A lead is offered again only when what came before was withdrawn unpaid,
\* refunded, or left to its receiver.
Offer(a, l, r) ==
  /\ sale[a] = "none"
  /\ l \notin gone
  /\ \A b \in RoundsOfSale(l) : sale[b] \in {"withdrawn", "refunded", "kept"}
  /\ lead' = [lead EXCEPT ![a] = l]
  /\ buyer' = [buyer EXCEPT ![a] = r]
  /\ sale' = [sale EXCEPT ![a] = "offered"]
  /\ UNCHANGED <<pay, gone>>

Withdraw(a) ==
  /\ sale[a] = "offered"
  /\ sale' = [sale EXCEPT ![a] = "withdrawn"]
  /\ UNCHANGED <<lead, buyer, pay, gone>>

Charge(a) ==
  /\ sale[a] = "offered"
  /\ sale' = [sale EXCEPT ![a] = "charged"]
  /\ pay' \in {pay, [pay EXCEPT ![a] = "promised"]}
  /\ UNCHANGED <<lead, buyer, gone>>

\* The standing sale of a lead is left to its receiver, once the supplier's
\* reward for it is decided.
Keep(a) ==
  /\ sale[a] = "charged" /\ lead[a] \notin gone
  /\ pay[a] # "promised"
  /\ sale' = [sale EXCEPT ![a] = "kept"]
  /\ UNCHANGED <<lead, buyer, pay, gone>>

\* A refund and the end of the reward are one step.  A sale that was kept may
\* still be refunded, but not while the lead is on offer; one that stands by
\* then is left to its own receiver.
RefundSale(a) ==
  /\ sale[a] \in {"charged", "kept"} /\ lead[a] \notin gone
  /\ \A b \in RoundsOfSale(lead[a]) \ {a} :
       sale[b] # "offered" /\ (sale[b] = "charged" => pay[b] # "promised")
  /\ sale' = [b \in Rounds |->
                IF b = a THEN "refunded"
                ELSE IF lead[b] = lead[a] /\ sale[b] = "charged" THEN "kept" ELSE sale[b]]
  /\ pay' = [pay EXCEPT ![a] = IF @ = "promised" THEN "none"
                               ELSE IF @ = "paid" THEN "recovered" ELSE @]
  /\ UNCHANGED <<lead, buyer, gone>>

PaySupplier(a) ==
  /\ sale[a] = "charged" /\ lead[a] \notin gone
  /\ pay[a] = "promised"
  /\ pay' = [pay EXCEPT ![a] = "paid"]
  /\ UNCHANGED <<lead, buyer, sale, gone>>

\* An operator takes a reward back.
Recover(a) ==
  /\ pay[a] = "paid"
  /\ pay' = [pay EXCEPT ![a] = "recovered"]
  /\ UNCHANGED <<lead, buyer, sale, gone>>

\* Deletion withdraws what is on offer, leaves what stands to its receiver, and
\* decides every reward still promised.
Delete(l) ==
  /\ l \notin gone
  /\ gone' = gone \cup {l}
  /\ sale' = [a \in Rounds |->
                IF lead[a] = l /\ sale[a] = "offered" THEN "withdrawn"
                ELSE IF lead[a] = l /\ sale[a] = "charged" THEN "kept" ELSE sale[a]]
  /\ \E paid \in SUBSET {a \in Rounds : lead[a] = l /\ pay[a] = "promised"} :
       pay' = [a \in Rounds |->
                 IF a \in paid THEN "paid"
                 ELSE IF lead[a] = l /\ pay[a] = "promised" THEN "none"
                 ELSE pay[a]]
  /\ UNCHANGED <<lead, buyer>>

SaleNext ==
  \/ \E a \in Rounds, l \in Leads, r \in Receivers : Offer(a, l, r)
  \/ \E a \in Rounds : \/ Withdraw(a) \/ Charge(a) \/ Keep(a) \/ RefundSale(a)
                       \/ PaySupplier(a) \/ Recover(a)
  \/ \E l \in Leads : Delete(l)

SaleSpec == SaleInit /\ [][SaleNext]_saleVars

-----------------------------------------------------------------------------
SaleTypeOK ==
  /\ lead \in [Rounds -> Leads \cup {None}]
  /\ buyer \in [Rounds -> Receivers \cup {None}]
  /\ sale \in [Rounds -> SaleStates]
  /\ pay \in [Rounds -> PayStates]
  /\ gone \subseteq Leads

\* A lead is with one receiver at a time: of its rounds, one at most is
\* offered or paid for.
OneSaleStands ==
  \A a, b \in Rounds :
    /\ lead[a] = lead[b]
    /\ sale[a] \in {"offered", "charged"} /\ sale[b] \in {"offered", "charged"}
    => a = b

\* A reward is promised for a sale that stands, and stays paid only for one
\* that stands or was kept: a second reward for a lead takes a sale that was
\* kept, with its own reward decided, before the lead was offered anew.
OneRewardForTheSale ==
  /\ \A a \in Rounds : pay[a] = "promised" => sale[a] = "charged"
  /\ \A a \in Rounds : pay[a] = "paid" => sale[a] \in {"charged", "kept"}
  /\ \A a, b \in Rounds :
       a # b /\ lead[a] = lead[b] /\ {pay[a], pay[b]} \subseteq {"promised", "paid"}
       => "kept" \in {sale[a], sale[b]}
=============================================================================
