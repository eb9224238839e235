--------------------------- MODULE LeadSale_proofs ---------------------------
(***************************************************************************)
(* What follows from LeadSale for any leads, rounds and receivers: a lead  *)
(* is sold to one receiver at a time, and its supplier is paid for the     *)
(* sale that stands, and again only where one was left to its receiver.    *)
(* With the refinement these hold of LeadLifecycle too.                    *)
(***************************************************************************)
EXTENDS LeadSale, TLAPS

\* The promises as one inductive invariant.
SaleInv == SaleTypeOK /\ OneSaleStands /\ OneRewardForTheSale

\* The pay of a round by itself.
PayFollowsSale ==
  \A a \in Rounds : /\ pay[a] = "promised" => sale[a] = "charged"
                    /\ pay[a] = "paid" => sale[a] \in {"charged", "kept"}

\* Every step keeps the types.
LEMMA SaleTypes ==
  ASSUME SaleTypeOK, [SaleNext]_saleVars
  PROVE  SaleTypeOK'
  <1> USE DEF SaleTypeOK, SaleStates, PayStates
  <1>1. ASSUME NEW a \in Rounds, NEW l \in Leads, NEW r \in Receivers, Offer(a, l, r)
        PROVE  SaleTypeOK'
    BY <1>1 DEF Offer
  <1>2. ASSUME NEW a \in Rounds, Withdraw(a) \/ Charge(a) \/ Keep(a)
        PROVE  SaleTypeOK'
    BY <1>2 DEF Withdraw, Charge, Keep
  <1>3. ASSUME NEW a \in Rounds, RefundSale(a) \/ PaySupplier(a) \/ Recover(a)
        PROVE  SaleTypeOK'
    BY <1>3 DEF RefundSale, PaySupplier, Recover
  <1>4. ASSUME NEW l \in Leads, Delete(l)
        PROVE  SaleTypeOK'
    <2>1. PICK paid \in SUBSET {a \in Rounds : lead[a] = l /\ pay[a] = "promised"} :
            pay' = [a \in Rounds |->
                      IF a \in paid THEN "paid"
                      ELSE IF lead[a] = l /\ pay[a] = "promised" THEN "none"
                      ELSE pay[a]]
      BY <1>4 DEF Delete
    <2>2. sale' \in [Rounds -> SaleStates] /\ pay' \in [Rounds -> PayStates]
      BY <1>4, <2>1 DEF Delete
    <2> QED
      BY <1>4, <2>2 DEF Delete
  <1>5. CASE UNCHANGED saleVars
    BY <1>5 DEF saleVars
  <1> QED
    BY <1>1, <1>2, <1>3, <1>4, <1>5 DEF SaleNext

\* Every step keeps the promises.
LEMMA SalePromises ==
  ASSUME SaleInv, [SaleNext]_saleVars
  PROVE  OneSaleStands' /\ PayFollowsSale'
  <1> USE DEF SaleInv, SaleTypeOK, OneSaleStands, PayFollowsSale, OneRewardForTheSale
  <1>1. ASSUME NEW a \in Rounds, NEW l \in Leads, NEW r \in Receivers, Offer(a, l, r)
        PROVE  OneSaleStands' /\ PayFollowsSale'
    BY <1>1 DEF Offer, RoundsOfSale
  <1>2. ASSUME NEW a \in Rounds, Withdraw(a) \/ Charge(a) \/ Keep(a)
        PROVE  OneSaleStands' /\ PayFollowsSale'
    BY <1>2 DEF Withdraw, Charge, Keep
  <1>3. ASSUME NEW a \in Rounds, RefundSale(a)
        PROVE  OneSaleStands' /\ PayFollowsSale'
    BY <1>3 DEF RefundSale, RoundsOfSale
  <1>4. ASSUME NEW a \in Rounds, PaySupplier(a) \/ Recover(a)
        PROVE  OneSaleStands' /\ PayFollowsSale'
    BY <1>4 DEF PaySupplier, Recover
  <1>5. ASSUME NEW l \in Leads, Delete(l)
        PROVE  OneSaleStands' /\ PayFollowsSale'
    BY <1>5 DEF Delete
  <1>6. CASE UNCHANGED saleVars
    BY <1>6 DEF saleVars
  <1> QED
    BY <1>1, <1>2, <1>3, <1>4, <1>5, <1>6 DEF SaleNext

\* The invariant holds throughout.
LEMMA SaleInvariant == SaleSpec => []SaleInv
  <1>1. SaleInit => SaleInv
    BY DEF SaleInit, SaleInv, SaleTypeOK, SaleStates, PayStates, OneSaleStands,
           OneRewardForTheSale
  <1>2. SaleInv /\ [SaleNext]_saleVars => SaleInv'
    <2> SUFFICES ASSUME SaleInv, [SaleNext]_saleVars
                 PROVE  SaleInv'
      OBVIOUS
    <2>1. SaleTypeOK'
      BY SaleTypes DEF SaleInv
    <2>2. OneSaleStands' /\ OneRewardForTheSale'
      <3>1. OneSaleStands' /\ PayFollowsSale'
        BY SalePromises
      <3> QED
        BY <3>1 DEF OneSaleStands, PayFollowsSale, OneRewardForTheSale
    <2> QED
      BY <2>1, <2>2 DEF SaleInv
  <1> QED
    BY <1>1, <1>2, PTL DEF SaleSpec

\* A lead is offered to, or paid for by, one receiver at a time.
THEOREM SoldToOneReceiver == SaleSpec => []OneSaleStands
  <1>1. SaleInv => OneSaleStands
    BY DEF SaleInv
  <1> QED
    BY <1>1, SaleInvariant, PTL

\* The supplier is promised a reward for the sale that stands only, and of two
\* rewards for a lead one is of a sale that was left to its receiver.
THEOREM PaidForOneSale == SaleSpec => []OneRewardForTheSale
  <1>1. SaleInv => OneRewardForTheSale
    BY DEF SaleInv
  <1> QED
    BY <1>1, SaleInvariant, PTL
=============================================================================
