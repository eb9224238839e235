------------------------ MODULE LeadLifecycle_proofs ------------------------
(***************************************************************************)
(* Proofs about LeadLifecycle, for any number of leads, dispatches and     *)
(* receivers, any prices and any windows.                                  *)
(*                                                                         *)
(* The invariant ties together four rows that the handlers change in one   *)
(* transaction each, and in different ones: the lead with the assignment   *)
(* it points at, the assignment with its return request, the ledger        *)
(* entries of the claim, and the supplier's reward.  The last part shows   *)
(* that LeadLifecycle implements LeadSale: every transaction of the        *)
(* handlers is one step of the sale, or none.                              *)
(***************************************************************************)
EXTENDS LeadLifecycle, FiniteSetTheorems, TLAPS

\* The lead of a round is still there.
Alive(a) == leadStatus[leadOf[a]] # "DELETED"

Refunds(a) == posted[a] \cap RefundKeys

\* A round belongs to a lead from its dispatch on.
RoundHasLead(a) == status[a] = "NEW" <=> leadOf[a] = None

\* A round in the receiver's hands is the one its lead points at and the lead
\* has the status that goes with the round's, unless the round had its deal: then
\* the lead may have been reopened and the round has been let go.
RoundIsCurrent(a) ==
  /\ status[a] = "PENDING_CLAIM" =>
       current[leadOf[a]] = a /\ leadStatus[leadOf[a]] = "DISPATCHED"
  /\ status[a] \in {"CLAIMED", "FOLLOWING"} =>
       /\ leadStatus[leadOf[a]] \in {"CLAIMED", "FOLLOWING"}
       /\ current[leadOf[a]] = a \/ dealAt[a] # 0
  /\ status[a] = "RETURN_PENDING" =>
       /\ Alive(a)
       /\ current[leadOf[a]] = a => leadStatus[leadOf[a]] \in {"CLAIMED", "FOLLOWING", "CLOSED"}
       /\ dealAt[a] = 0 =>
            current[leadOf[a]] = a /\ leadStatus[leadOf[a]] \in {"CLAIMED", "FOLLOWING"}
  /\ status[a] = "COMPLETED" =>
       dealAt[a] # 0 /\ (current[leadOf[a]] = a => leadStatus[leadOf[a]] = "CLOSED")

\* A deal decides the reward, and only an appeal freezes one.
DealIsPaid(a) ==
  /\ dealAt[a] # 0 => reward[a] \notin UnsettledRewards
  /\ status[a] \in {"NEW", "PENDING_CLAIM"} => dealAt[a] = 0
  /\ reward[a] = "FROZEN" => status[a] = "RETURN_PENDING"

\* An open return holds its round, an approved one has ended it.
ReturnHoldsRound(a) ==
  /\ request[a] \in OpenReturns => status[a] = "RETURN_PENDING"
  /\ request[a] = "APPROVED" => status[a] = "RETURNED"

\* The ledger entries of a round and the status of its reward say the same.
LedgerFollowsReward(a) ==
  /\ "claim" \in posted[a] <=> reward[a] # "NONE"
  /\ "settle" \in posted[a] <=> reward[a] \in {"SETTLED", "REVERSED"}
  /\ "reverse" \in posted[a] <=> reward[a] = "REVERSED"

\* Nothing is posted before the claim, and who holds the contact has paid.
LedgerFollowsRound(a) ==
  /\ status[a] \in {"NEW", "PENDING_CLAIM", "EXPIRED"} => posted[a] = {}
  /\ status[a] \in HeldStatuses => "claim" \in posted[a]

\* A refund ends the round and the reward, and comes once; a round that ended
\* after its claim was refunded, unless its lead was deleted.
RefundEndsRound(a) ==
  /\ Refunds(a) # {} =>
       /\ "claim" \in posted[a]
       /\ status[a] \in {"RETURNED", "RELEASED"}
       /\ reward[a] \notin UnsettledRewards \cup {"SETTLED"}
  /\ \A j, k \in Refunds(a) : j = k
  /\ status[a] \in {"RETURNED", "RELEASED"} /\ "claim" \in posted[a] /\ Alive(a) =>
       Refunds(a) # {}

\* A reward promised or kept goes with a round the receiver holds.
RewardFollowsRound(a) ==
  /\ reward[a] \in UnsettledRewards => Alive(a)
  /\ reward[a] \in UnsettledRewards \cup {"SETTLED"} /\ Alive(a) => status[a] \in HeldStatuses

RoundInv(a) ==
  /\ RoundHasLead(a) /\ RoundIsCurrent(a) /\ DealIsPaid(a) /\ ReturnHoldsRound(a)
  /\ LedgerFollowsReward(a) /\ LedgerFollowsRound(a)
  /\ RefundEndsRound(a) /\ RewardFollowsRound(a)

\* What a lead points at is one of its rounds, in the status the lead shows; a
\* lead in the receiver's hands has a round that is active.
LeadInv(l) ==
  /\ current[l] # None =>
       /\ current[l] \in Assignments /\ leadOf[current[l]] = l
       /\ status[current[l]] \in {"PENDING_CLAIM"} \cup HeldStatuses
  /\ leadStatus[l] \in {"READY_DISPATCH", "PUBLIC_POOL", "IN_SUPPLY", "DELETED"} =>
       current[l] = None
  /\ leadStatus[l] = "DISPATCHED" =>
       current[l] # None /\ status[current[l]] = "PENDING_CLAIM"
  /\ leadStatus[l] \in {"CLAIMED", "FOLLOWING"} =>
       \E a \in Assignments :
         leadOf[a] = l /\ status[a] \in {"CLAIMED", "FOLLOWING", "RETURN_PENDING"}
  /\ leadStatus[l] = "CLOSED" /\ current[l] # None =>
       status[current[l]] \in {"COMPLETED", "RETURN_PENDING"} /\ dealAt[current[l]] # 0

\* One round of a lead is active.
OneActive ==
  \A a, b \in Assignments :
    leadOf[a] = leadOf[b] /\ status[a] \in ActiveStatuses /\ status[b] \in ActiveStatuses => a = b

\* Of the rounds of a lead with a reward promised or kept, one had no deal.
PaidOnce ==
  \A a, b \in Assignments :
    /\ leadOf[a] = leadOf[b] /\ dealAt[a] = 0 /\ dealAt[b] = 0
    /\ reward[a] \in UnsettledRewards \cup {"SETTLED"}
    /\ reward[b] \in UnsettledRewards \cup {"SETTLED"}
    => a = b

Inv ==
  /\ TypeOK
  /\ \A a \in Assignments : RoundInv(a)
  /\ \A l \in Leads : LeadInv(l)
  /\ OneActive /\ PaidOnce

-----------------------------------------------------------------------------
\* Types.

\* The deadline of a window is a time.
LEMMA DeadlineType ==
  ASSUME TypeOK, NEW a \in Assignments
  PROVE  AppealDeadline(a) \in Nat
  BY WindowsAssumption DEF TypeOK, AppealDeadline

\* A refund keeps the ledger and the balances typed.
LEMMA RefundTypes ==
  ASSUME TypeOK, NEW a \in Assignments, NEW key \in RefundKeys, Refund(a, key)
  PROVE  balance' \in [Receivers -> Nat] /\ posted' \in [Assignments -> SUBSET LedgerKeys]
  <1>1. posted' \in [Assignments -> SUBSET LedgerKeys]
    BY DEF TypeOK, Refund, LedgerKeys
  <1>2. \A r \in Receivers : balance[r] + charge[a] \in Nat
    BY DEF TypeOK
  <1>3. balance' \in [Receivers -> Nat]
    BY <1>2 DEF TypeOK, Refund
  <1> QED
    BY <1>1, <1>3

\* The world around the handlers.
LEMMA WorldTypes ==
  ASSUME TypeOK, Tick \/ FreezeSupply \/ \E p \in Prices : ChangePrice(p)
  PROVE  TypeOK'
  <1> USE DEF leadVars, roundVars, clockVars, returnVars, moneyVars, envVars
  <1>1. CASE Tick
    <2>1. used' \in [Assignments -> Nat]
      <3>1. \A a \in Assignments : used[a] \in Nat /\ used[a] + 1 \in Nat
        BY DEF TypeOK
      <3>2. used' = [a \in Assignments |->
                       IF status[a] \in HeldStatuses /\ ~paused[a] THEN used[a] + 1 ELSE used[a]]
        BY <1>1 DEF Tick
      <3> QED
        BY <3>1, <3>2
    <2>2. now' \in 1..Horizon
      BY <1>1, WindowsAssumption DEF Tick, TypeOK
    <2> QED
      BY <1>1, <2>1, <2>2 DEF Tick, TypeOK
  <1>2. CASE FreezeSupply
    BY <1>2 DEF FreezeSupply, TypeOK
  <1>3. CASE \E p \in Prices : ChangePrice(p)
    BY <1>3 DEF ChangePrice, TypeOK
  <1> QED
    BY <1>1, <1>2, <1>3

\* A dispatch.
LEMMA DispatchTypes ==
  ASSUME TypeOK, NEW l \in Leads, NEW a \in Assignments, NEW r \in Receivers,
         DispatchManually(l, a, r)
  PROVE  TypeOK'
  BY WindowsAssumption DEF DispatchManually, TypeOK, AssignmentStatuses, LeadStatuses,
     clockVars, returnVars, moneyVars, envVars

\* A dispatch that ends unclaimed.
LEMMA RefusalTypes ==
  ASSUME TypeOK, NEW a \in Assignments, RefusePendingAssignment(a) \/ ExpireAssignment(a)
  PROVE  TypeOK'
  BY DEF RefusePendingAssignment, ExpireAssignment, BackToPool, TypeOK, AssignmentStatuses,
         LeadStatuses, clockVars, returnVars, moneyVars, envVars

\* The claim and the follow-ups.
LEMMA ClaimTypes ==
  ASSUME TypeOK, NEW a \in Assignments, ClaimAssignment(a) \/ FollowUp(a) \/ Deal(a)
  PROVE  TypeOK'
  <1> USE DEF leadVars, roundVars, clockVars, returnVars, moneyVars, envVars
  <1>1. CASE ClaimAssignment(a)
    <2>1. balance' \in [Receivers -> Nat]
      <3>1. /\ balance' = [balance EXCEPT ![receiver[a]] = @ - price]
            /\ balance[receiver[a]] >= price
        BY <1>1 DEF ClaimAssignment
      <3>2. balance \in [Receivers -> Nat] /\ price \in Nat
        BY PointsAssumption DEF TypeOK
      <3>3. receiver[a] \in Receivers => balance[receiver[a]] - price \in Nat
        BY <3>1, <3>2
      <3> QED
        BY <3>1, <3>2, <3>3
    <2>2. posted' \in [Assignments -> SUBSET LedgerKeys] /\ reward' \in [Assignments -> RewardStatuses]
      BY <1>1 DEF ClaimAssignment, TypeOK, LedgerKeys, RewardStatuses
    <2>3. /\ charge' \in [Assignments -> Nat] /\ claimedAt' \in [Assignments -> Nat]
          /\ deadline' \in [Assignments -> Nat]
      BY <1>1, PointsAssumption, WindowsAssumption DEF ClaimAssignment, TypeOK
    <2> QED
      BY <1>1, <2>1, <2>2, <2>3 DEF ClaimAssignment, TypeOK, AssignmentStatuses, LeadStatuses
  <1>2. CASE FollowUp(a)
    BY <1>2 DEF FollowUp, TypeOK, AssignmentStatuses, LeadStatuses
  <1>3. CASE Deal(a)
    <2>1. posted' \in [Assignments -> SUBSET LedgerKeys] /\ reward' \in [Assignments -> RewardStatuses]
      BY <1>3 DEF Deal, PayForDeal, PayReward, TypeOK, LedgerKeys, RewardStatuses
    <2>2. dealAt' \in [Assignments -> Nat]
      BY <1>3 DEF Deal, TypeOK
    <2> QED
      BY <1>3, <2>1, <2>2 DEF Deal, TypeOK, AssignmentStatuses, LeadStatuses
  <1> QED
    BY <1>1, <1>2, <1>3

\* The return.
LEMMA ReturnTypes ==
  ASSUME TypeOK, NEW a \in Assignments,
         \/ CreateReturnDraft(a) \/ ReopenReturnDraft(a) \/ AddReturnEvidence(a)
         \/ ExpireReturnDraft(a) \/ SubmitReturn(a) \/ SubmitReturnTooLate(a)
         \/ ResubmitReturn(a) \/ AssignVerification(a) \/ StartVerification(a)
         \/ \E v \in VerdictsOfTelesales : SubmitVerification(a, v)
         \/ RequireMoreEvidence(a) \/ RejectReturn(a) \/ ApproveReturn(a)
         \/ CorrectRegionAndRedispatch(a) \/ DirectInvalidReturn(a)
  PROVE  TypeOK'
  <1> USE DEF leadVars, roundVars, clockVars, returnVars, moneyVars, envVars
  <1>1. CASE CreateReturnDraft(a) \/ ExpireReturnDraft(a) \/ SubmitReturnTooLate(a)
    BY <1>1 DEF CreateReturnDraft, ExpireReturnDraft, SubmitReturnTooLate, TypeOK, RequestStatuses
  <1>10. CASE ReopenReturnDraft(a)
    BY <1>10 DEF ReopenReturnDraft, TypeOK, RequestStatuses, TaskStatuses
  <1>11. CASE AddReturnEvidence(a)
    BY <1>11 DEF AddReturnEvidence, TypeOK
  <1>2. ASSUME OpenVerification(a)
        PROVE  /\ request' \in [Assignments -> RequestStatuses]
               /\ reviewedAt' \in [Assignments -> Nat]
               /\ status' \in [Assignments -> AssignmentStatuses]
               /\ task' \in [Assignments -> TaskStatuses]
               /\ conclusion' \in [Assignments -> VerdictsOfTelesales \cup {"NONE"}]
               /\ reward' \in [Assignments -> RewardStatuses]
    BY <1>2 DEF OpenVerification, TypeOK, RequestStatuses, AssignmentStatuses, TaskStatuses,
                RewardStatuses
  <1>3. CASE SubmitReturn(a)
    <2>1. AppealDeadline(a) - now \in Nat
      BY <1>3, DeadlineType DEF SubmitReturn, InWindow, TypeOK
    <2> QED
      BY <1>2, <1>3, <2>1, DeadlineType DEF SubmitReturn, TypeOK
  <1>4. CASE ResubmitReturn(a)
    BY <1>2, <1>4 DEF ResubmitReturn, TypeOK
  <1>5. CASE \/ AssignVerification(a) \/ StartVerification(a)
             \/ \E v \in VerdictsOfTelesales : SubmitVerification(a, v)
    BY <1>5 DEF AssignVerification, StartVerification, SubmitVerification, TaskStep, TypeOK,
                TaskStatuses, RequestStatuses
  <1>6. CASE RequireMoreEvidence(a)
    BY <1>6 DEF RequireMoreEvidence, TypeOK, TaskStatuses, RequestStatuses
  <1>7. CASE RejectReturn(a)
    <2>1. posted' \in [Assignments -> SUBSET LedgerKeys] /\ reward' \in [Assignments -> RewardStatuses]
      <3>1. CASE PayReward(a)
        BY <3>1 DEF PayReward, TypeOK, LedgerKeys, RewardStatuses
      <3>2. CASE ~PayReward(a)
        BY <1>7, <3>2 DEF RejectReturn, TypeOK, RewardStatuses
      <3> QED
        BY <3>1, <3>2
    <2>2. /\ deadline' \in [Assignments -> Nat] /\ paused' \in [Assignments -> BOOLEAN]
          /\ resumed' \in [Assignments -> BOOLEAN]
      <3>1. CASE ResumeWindow(a)
        <4>1. now + remaining[a] \in Nat
          BY DEF TypeOK
        <4> QED
          BY <3>1, <4>1 DEF ResumeWindow, TypeOK
      <3>2. CASE UNCHANGED <<deadline, paused, resumed>>
        BY <3>2 DEF TypeOK
      <3> QED
        BY <1>7, <3>1, <3>2 DEF RejectReturn
    <2>3. status' \in [Assignments -> AssignmentStatuses] /\ leadStatus' \in [Leads -> LeadStatuses]
      BY <1>7 DEF RejectReturn, RestoredStatus, TypeOK, AssignmentStatuses, LeadStatuses
    <2>4. /\ request' \in [Assignments -> RequestStatuses] /\ task' \in [Assignments -> TaskStatuses]
          /\ reviewedAt' \in [Assignments -> Nat]
      BY <1>7 DEF RejectReturn, TypeOK, RequestStatuses, TaskStatuses
    <2> QED
      BY <1>7, <2>1, <2>2, <2>3, <2>4 DEF RejectReturn, TypeOK
  <1>8. ASSUME NEW taskEnd \in {"RELEASED", "CANCELLED"},
               NEW leadEnd \in {"CLOSED", "READY_DISPATCH", "PUBLIC_POOL"},
               Approve(a, taskEnd, leadEnd)
        PROVE  TypeOK'
    <2>1. posted' \in [Assignments -> SUBSET LedgerKeys]
      <3>1. {"return"} \cup ReversalOf(a) \in SUBSET LedgerKeys
        BY DEF ReversalOf, LedgerKeys, RefundKeys
      <3> QED
        BY <1>8, <3>1 DEF Approve, TypeOK
    <2>2. balance' \in [Receivers -> Nat]
      <3>1. \/ balance' = balance
            \/ balance' = [balance EXCEPT ![receiver[a]] = @ + charge[a]]
        BY <1>8 DEF Approve
      <3>2. balance \in [Receivers -> Nat] /\ charge[a] \in Nat
        BY DEF TypeOK
      <3> QED
        BY <3>1, <3>2
    <2>3. reward' \in [Assignments -> RewardStatuses]
      BY <1>8 DEF Approve, TypeOK, RewardStatuses, UnsettledRewards
    <2>4. status' \in [Assignments -> AssignmentStatuses] /\ leadStatus' \in [Leads -> LeadStatuses]
      BY <1>8 DEF Approve, TypeOK, AssignmentStatuses, LeadStatuses
    <2>5. /\ request' \in [Assignments -> RequestStatuses] /\ task' \in [Assignments -> TaskStatuses]
          /\ reviewedAt' \in [Assignments -> Nat]
      <3>1. /\ request' = [request EXCEPT ![a] = "APPROVED"]
            /\ task' = [task EXCEPT ![a] = taskEnd]
            /\ reviewedAt' = [reviewedAt EXCEPT ![a] = now]
        BY <1>8 DEF Approve
      <3> QED
        BY <3>1 DEF TypeOK, RequestStatuses, TaskStatuses
    <2>6. /\ remaining' \in [Assignments -> Nat] /\ paused' \in [Assignments -> BOOLEAN]
          /\ current' \in [Leads -> Assignments \cup {None}] /\ correction' \in [Leads -> BOOLEAN]
      <3>1. /\ remaining' = [remaining EXCEPT ![a] = 0] /\ paused' = [paused EXCEPT ![a] = FALSE]
            /\ current' = [current EXCEPT ![leadOf[a]] = None]
            /\ correction' = [correction EXCEPT ![leadOf[a]] = FALSE]
        BY <1>8 DEF Approve
      <3> QED
        BY <3>1 DEF TypeOK
    <2> QED
      BY <1>8, <2>1, <2>2, <2>3, <2>4, <2>5, <2>6 DEF Approve, TypeOK
  <1>9. CASE ApproveReturn(a) \/ CorrectRegionAndRedispatch(a) \/ DirectInvalidReturn(a)
    BY <1>8, <1>9 DEF ApproveReturn, CorrectRegionAndRedispatch, DirectInvalidReturn
  <1> QED
    BY <1>1, <1>3, <1>4, <1>5, <1>6, <1>7, <1>9, <1>10, <1>11

\* The reward, the corrections and the deletion.
LEMMA RewardTypes ==
  ASSUME TypeOK, NEW a \in Assignments, SettleDueReward(a) \/ ReverseReward(a)
  PROVE  TypeOK'
  <1>1. posted' \in [Assignments -> SUBSET LedgerKeys] /\ reward' \in [Assignments -> RewardStatuses]
    BY DEF SettleDueReward, ReverseReward, PayReward, TypeOK, LedgerKeys, RewardStatuses
  <1> QED
    BY <1>1 DEF SettleDueReward, ReverseReward, TypeOK, leadVars, roundVars, clockVars,
                returnVars, envVars

\* A lead between the pools, and one that is reopened.
LEMMA SupplyTypes ==
  ASSUME TypeOK, NEW l \in Leads,
         \/ TransferFromPublicPool(l) \/ LeaveForSupply(l) \/ ReturnFromSupply(l)
         \/ ReopenClosedLead(l)
  PROVE  TypeOK'
  <1> USE DEF TypeOK, LeadStatuses, roundVars, clockVars, returnVars, moneyVars, envVars
  <1>1. CASE TransferFromPublicPool(l)
    BY <1>1 DEF TransferFromPublicPool
  <1>2. CASE LeaveForSupply(l)
    BY <1>2 DEF LeaveForSupply
  <1>3. CASE ReturnFromSupply(l)
    BY <1>3 DEF ReturnFromSupply, SupplySide
  <1>4. CASE ReopenClosedLead(l)
    BY <1>4 DEF ReopenClosedLead
  <1> QED
    BY <1>1, <1>2, <1>3, <1>4

LEMMA CorrectionTypes ==
  ASSUME TypeOK, NEW l \in Leads,
         \/ CorrectLead(l) \/ RecheckCorrection(l) \/ ReleaseCorrectedLead(l)
         \/ ReleaseMisdispatchedLead(l) \/ DeleteLead(l)
  PROVE  TypeOK'
  <1> USE DEF leadVars, roundVars, clockVars, returnVars, moneyVars, envVars
  <1>1. ASSUME NEW f \in BOOLEAN, NEW required \in BOOLEAN, StoreIssues(l, f, required)
        PROVE  TypeOK'
    BY <1>1 DEF StoreIssues, TypeOK
  <1>2. CASE CorrectLead(l) \/ RecheckCorrection(l)
    <2>1. CASE RecheckCorrection(l)
      BY <1>1, <2>1 DEF RecheckCorrection
    <2>2. CASE \E f, required \in BOOLEAN : StoreIssues(l, f, required)
      BY <1>1, <2>2
    <2>3. CASE CorrectLead(l) /\ ~\E f, required \in BOOLEAN : StoreIssues(l, f, required)
      BY <2>3 DEF CorrectLead, TypeOK, LeadStatuses
    <2> QED
      BY <1>2, <2>1, <2>2, <2>3
  <1>3. ASSUME NEW a \in Assignments, NEW key \in RefundKeys, ReleaseForRedispatch(l, a, key)
        PROVE  /\ balance' \in [Receivers -> Nat] /\ posted' \in [Assignments -> SUBSET LedgerKeys]
               /\ reward' \in [Assignments -> RewardStatuses]
               /\ status' \in [Assignments -> AssignmentStatuses]
               /\ leadStatus' \in [Leads -> LeadStatuses]
               /\ current' \in [Leads -> Assignments \cup {None}]
               /\ correction' \in [Leads -> BOOLEAN] /\ issues' \in [Leads -> BOOLEAN]
               /\ UNCHANGED <<leadOf, receiver, expires, dealAt, clockVars, charge, envVars>>
    <2>1. balance' \in [Receivers -> Nat] /\ posted' \in [Assignments -> SUBSET LedgerKeys]
      BY <1>3, RefundTypes DEF ReleaseForRedispatch, TypeOK
    <2>2. reward' \in [Assignments -> RewardStatuses]
      BY <1>3 DEF ReleaseForRedispatch, RewardOfReleased, TypeOK, RewardStatuses
    <2> QED
      BY <1>3, <2>1, <2>2 DEF ReleaseForRedispatch, TypeOK, AssignmentStatuses, LeadStatuses
  <1>4. current[l] # None => current[l] \in Assignments
    BY DEF TypeOK
  <1>5. CASE ReleaseCorrectedLead(l)
    BY <1>3, <1>4, <1>5 DEF ReleaseCorrectedLead, TypeOK, RefundKeys
  <1>6. CASE ReleaseMisdispatchedLead(l)
    <2>1. request' \in [Assignments -> RequestStatuses] /\ reviewedAt' \in [Assignments -> Nat]
      BY <1>6 DEF ReleaseMisdispatchedLead, TypeOK, RequestStatuses
    <2> QED
      BY <1>3, <1>4, <1>6, <2>1 DEF ReleaseMisdispatchedLead, TypeOK, RefundKeys
  <1>7. CASE DeleteLead(l)
    <2>1. /\ request' \in [Assignments -> RequestStatuses] /\ reviewedAt' \in [Assignments -> Nat]
          /\ task' \in [Assignments -> TaskStatuses]
          /\ status' \in [Assignments -> AssignmentStatuses]
      BY <1>7 DEF DeleteLead, TypeOK, RequestStatuses, TaskStatuses, AssignmentStatuses
    <2>2. reward' \in [Assignments -> RewardStatuses]
      BY <1>7 DEF DeleteLead, TypeOK, RewardStatuses
    <2>3. posted' \in [Assignments -> SUBSET LedgerKeys]
      BY <1>7 DEF DeleteLead, TypeOK, LedgerKeys
    <2>4. leadStatus' \in [Leads -> LeadStatuses] /\ current' \in [Leads -> Assignments \cup {None}]
      BY <1>7 DEF DeleteLead, TypeOK, LeadStatuses
    <2> QED
      BY <1>7, <2>1, <2>2, <2>3, <2>4 DEF DeleteLead, TypeOK
  <1> QED
    BY <1>2, <1>5, <1>6, <1>7

\* Every step keeps the types.
LEMMA TypeStep ==
  ASSUME TypeOK, [Next]_vars
  PROVE  TypeOK'
  <1>1. CASE UNCHANGED vars
    BY <1>1 DEF TypeOK, vars, leadVars, roundVars, clockVars, returnVars, moneyVars, envVars
  <1>2. CASE Tick \/ FreezeSupply \/ \E p \in Prices : ChangePrice(p)
    BY <1>2, WorldTypes
  <1>3. ASSUME NEW l \in Leads, NEW a \in Assignments, NEW r \in Receivers,
               DispatchManually(l, a, r)
        PROVE  TypeOK'
    BY <1>3, DispatchTypes
  <1>4. ASSUME NEW l \in Leads,
               \/ TransferFromPublicPool(l) \/ LeaveForSupply(l) \/ ReturnFromSupply(l)
               \/ ReopenClosedLead(l)
        PROVE  TypeOK'
    BY <1>4, SupplyTypes
  <1>5. ASSUME NEW l \in Leads,
               \/ CorrectLead(l) \/ RecheckCorrection(l)
               \/ ReleaseCorrectedLead(l) \/ ReleaseMisdispatchedLead(l) \/ DeleteLead(l)
        PROVE  TypeOK'
    BY <1>5, CorrectionTypes
  <1>6. ASSUME NEW a \in Assignments, RefusePendingAssignment(a) \/ ExpireAssignment(a)
        PROVE  TypeOK'
    BY <1>6, RefusalTypes
  <1>7. ASSUME NEW a \in Assignments, ClaimAssignment(a) \/ FollowUp(a) \/ Deal(a)
        PROVE  TypeOK'
    BY <1>7, ClaimTypes
  <1> QED
    BY <1>1, <1>2, <1>3, <1>4, <1>5, <1>6, <1>7, ReturnTypes, RewardTypes DEF Next

-----------------------------------------------------------------------------
\* Frames for the invariant.

\* A step that leaves leads, rounds, ledger and rewards alone, and opens and
\* approves no return, keeps it.
LEMMA QuietStep ==
  ASSUME Inv, TypeOK',
         UNCHANGED <<leadStatus, current, leadOf, status, dealAt, posted, reward>>,
         \A a \in Assignments :
           /\ request'[a] \in OpenReturns => request[a] \in OpenReturns
           /\ request'[a] = "APPROVED" => request[a] = "APPROVED"
  PROVE  Inv'
  <1>1. ASSUME NEW a \in Assignments
        PROVE  RoundInv(a)'
    <2>1. RoundInv(a)
      BY DEF Inv
    <2>2. ReturnHoldsRound(a)'
      BY <2>1 DEF RoundInv, ReturnHoldsRound
    <2> QED
      BY <2>1, <2>2 DEF RoundInv, RoundHasLead, RoundIsCurrent, DealIsPaid,
                  LedgerFollowsReward, LedgerFollowsRound, RefundEndsRound, RewardFollowsRound,
                  Alive, Refunds
  <1>2. ASSUME NEW l \in Leads
        PROVE  LeadInv(l)'
    BY DEF Inv, LeadInv
  <1>3. OneActive' /\ PaidOnce'
    BY DEF Inv, OneActive, PaidOnce
  <1> QED
    BY <1>1, <1>2, <1>3 DEF Inv

\* The step leaves everything alone that the invariant reads of a round.
RoundKept(b) ==
  /\ leadOf'[b] = leadOf[b] /\ status'[b] = status[b] /\ dealAt'[b] = dealAt[b]
  /\ request'[b] = request[b] /\ posted'[b] = posted[b] /\ reward'[b] = reward[b]

\* A round of a lead the step leaves alone keeps its part of the invariant.
LEMMA RoundElsewhere ==
  ASSUME Inv, NEW b \in Assignments, RoundKept(b),
         leadOf[b] \in Leads =>
           /\ leadStatus'[leadOf[b]] = leadStatus[leadOf[b]]
           /\ current'[leadOf[b]] = current[leadOf[b]]
  PROVE  RoundInv(b)'
  <1>1. RoundInv(b) /\ leadOf[b] \in Leads \cup {None}
    BY DEF Inv, TypeOK
  <1>2. CASE leadOf[b] \in Leads
    <2>1. Alive(b)' <=> Alive(b)
      BY <1>2 DEF Alive, RoundKept
    <2> QED
      BY <1>1, <1>2, <2>1 DEF RoundKept, RoundInv, RoundHasLead, RoundIsCurrent, DealIsPaid,
         ReturnHoldsRound, LedgerFollowsReward, LedgerFollowsRound, RefundEndsRound,
         RewardFollowsRound, Refunds
  <1>3. CASE leadOf[b] = None
    <2>1. status[b] = "NEW"
      BY <1>1, <1>3 DEF RoundInv, RoundHasLead
    <2> QED
      BY <1>1, <2>1 DEF RoundKept, RoundInv, RoundHasLead, RoundIsCurrent, DealIsPaid,
         ReturnHoldsRound, LedgerFollowsReward, LedgerFollowsRound, RefundEndsRound,
         RewardFollowsRound, Refunds, UnsettledRewards
  <1> QED
    BY <1>1, <1>2, <1>3

\* A lead the step leaves alone, with all its rounds, keeps its part.
LEMMA LeadElsewhere ==
  ASSUME Inv, NEW m \in Leads,
         leadStatus'[m] = leadStatus[m], current'[m] = current[m],
         \A b \in Assignments : leadOf[b] = m => RoundKept(b)
  PROVE  LeadInv(m)'
  <1>1. LeadInv(m)
    BY DEF Inv
  <1>2. current[m] # None => current[m] \in Assignments /\ RoundKept(current[m])
    BY <1>1 DEF LeadInv
  <1>3. leadStatus[m] \in {"CLAIMED", "FOLLOWING"} =>
          \E a \in Assignments :
            leadOf'[a] = m /\ status'[a] \in {"CLAIMED", "FOLLOWING", "RETURN_PENDING"}
    BY <1>1 DEF LeadInv, RoundKept
  <1> QED
    BY <1>1, <1>2, <1>3 DEF LeadInv, RoundKept

\* A round that is active, or completed, is the current one, or it had its deal.
LEMMA HeldIsCurrent ==
  ASSUME Inv, NEW a \in Assignments, status[a] \in ActiveStatuses \cup {"COMPLETED"}
  PROVE  /\ leadOf[a] \in Leads
         /\ status[a] \in ActiveStatuses => Alive(a)
         /\ current[leadOf[a]] = a \/ dealAt[a] # 0
  BY DEF Inv, RoundInv, RoundHasLead, RoundIsCurrent, TypeOK, ActiveStatuses, Alive

\* Where a round of a lead is active, no other one is.
LEMMA OthersEnded ==
  ASSUME Inv, NEW a \in Assignments, status[a] \in ActiveStatuses
  PROVE  \A b \in Assignments \ {a} : leadOf[b] = leadOf[a] => status[b] \notin ActiveStatuses
  BY DEF Inv, OneActive

\* A reward that is promised or kept without a deal, on a lead that is still
\* there, is that of the active round.
LEMMA RewardIsActive ==
  ASSUME Inv, NEW a \in Assignments, Alive(a), dealAt[a] = 0,
         reward[a] \in UnsettledRewards \cup {"SETTLED"}
  PROVE  status[a] \in ActiveStatuses /\ current[leadOf[a]] = a
  <1>1. status[a] \in HeldStatuses
    BY DEF Inv, RoundInv, RewardFollowsRound
  <1> QED
    BY <1>1 DEF Inv, RoundInv, RoundIsCurrent, HeldStatuses, ActiveStatuses

\* A step on the active round of a lead, or one that gives it a round, keeps the
\* invariant when it keeps it for that round and that lead: another round of the
\* lead is over or had its deal, and no part of the invariant of it looks at
\* what changed.
LEMMA CurrentRoundStep ==
  ASSUME Inv, TypeOK', NEW a \in Assignments, NEW l \in Leads,
         leadOf[a] \in {l, None}, leadOf'[a] = l,
         NEW s \in LeadStatuses, NEW c,
         c \in {a, None} \/ (c = current[l] /\ s = leadStatus[l]),
         leadStatus[l] # "DELETED", s # "DELETED",
         \A b \in Assignments \ {a} : leadOf[b] = l => status[b] \notin ActiveStatuses,
         leadStatus' = [leadStatus EXCEPT ![l] = s],
         current' = [current EXCEPT ![l] = c],
         \A b \in Assignments \ {a} : RoundKept(b),
         RoundInv(a)', LeadInv(l)'
  PROVE  Inv'
  <1>0. leadStatus'[l] = s /\ current'[l] = c
    BY DEF Inv, TypeOK
  <1>1. ASSUME NEW b \in Assignments \ {a}
        PROVE  RoundInv(b)'
    <2>1. RoundKept(b)
      OBVIOUS
    <2>2. CASE leadOf[b] = l
      <3>1. RoundInv(b)
        BY DEF Inv
      <3>2. status[b] \notin ActiveStatuses
        BY <2>2
      <3>3. Alive(b) /\ Alive(b)'
        BY <1>0, <2>1, <2>2 DEF Alive, RoundKept
      <3>4. status[b] = "COMPLETED" => current'[l] # b \/ leadStatus'[l] = "CLOSED"
        BY <1>0, <2>2, <3>1, NoneAssumption DEF RoundInv, RoundIsCurrent
      <3>5. RoundIsCurrent(b)'
        BY <2>1, <2>2, <3>1, <3>2, <3>4 DEF RoundKept, RoundInv, RoundIsCurrent, ActiveStatuses
      <3> QED
        BY <2>1, <3>1, <3>3, <3>5 DEF RoundKept, RoundInv, RoundHasLead, DealIsPaid, ReturnHoldsRound,
           LedgerFollowsReward, LedgerFollowsRound, RefundEndsRound, RewardFollowsRound, Refunds
    <2>3. CASE leadOf[b] # l
      <3>1. leadOf[b] \in Leads => /\ leadStatus'[leadOf[b]] = leadStatus[leadOf[b]]
                                   /\ current'[leadOf[b]] = current[leadOf[b]]
        BY <2>3 DEF Inv, TypeOK
      <3> QED
        BY <2>1, <3>1, RoundElsewhere
    <2> QED
      BY <2>2, <2>3
  <1>2. ASSUME NEW m \in Leads \ {l}
        PROVE  LeadInv(m)'
    <2>1. leadStatus'[m] = leadStatus[m] /\ current'[m] = current[m]
      BY DEF Inv, TypeOK
    <2>2. \A b \in Assignments : leadOf[b] = m => RoundKept(b)
      BY NoneAssumption
    <2> QED
      BY <2>1, <2>2, LeadElsewhere
  <1>3. OneActive'
    BY DEF Inv, OneActive, RoundKept
  <1>4. PaidOnce'
    <2> SUFFICES ASSUME NEW x \in Assignments, NEW y \in Assignments, leadOf'[x] = leadOf'[y],
                        dealAt'[x] = 0, dealAt'[y] = 0,
                        reward'[x] \in UnsettledRewards \cup {"SETTLED"},
                        reward'[y] \in UnsettledRewards \cup {"SETTLED"}
                 PROVE  x = y
      BY DEF PaidOnce
    <2>1. ASSUME NEW b \in Assignments \ {a}, leadOf[b] = l, dealAt[b] = 0,
                 reward[b] \in UnsettledRewards \cup {"SETTLED"}
          PROVE  FALSE
      BY <2>1, RewardIsActive DEF Alive
    <2>2. CASE x = a \/ y = a
      BY <2>1, <2>2 DEF RoundKept
    <2>3. CASE x # a /\ y # a
      BY <2>3 DEF Inv, PaidOnce, RoundKept
    <2> QED
      BY <2>2, <2>3
  <1> QED
    BY <1>1, <1>2, <1>3, <1>4 DEF Inv

\* A lead that moves between the pools, verification and its end while nobody
\* holds it, or that is taken from a round that had its deal, keeps the invariant.
LEMMA LeadOnlyStep ==
  ASSUME Inv, TypeOK', NEW l \in Leads, NEW s \in SupplySide \cup {"IN_SUPPLY"},
         leadStatus[l] \in SupplySide \cup {"IN_SUPPLY"},
         leadStatus' = [leadStatus EXCEPT ![l] = s],
         current' = [current EXCEPT ![l] = None],
         UNCHANGED <<leadOf, status, dealAt, request, posted, reward>>
  PROVE  Inv'
  <1>1. leadStatus'[l] = s /\ current'[l] = None
    BY DEF Inv, TypeOK
  <1>2. \A b \in Assignments : RoundKept(b)
    BY DEF RoundKept
  <1>3. ASSUME NEW a \in Assignments
        PROVE  RoundInv(a)'
    <2>1. CASE leadOf[a] = l
      <3>1. RoundInv(a)
        BY DEF Inv
      <3>2. RoundIsCurrent(a)'
        BY <1>1, <2>1, <3>1, NoneAssumption DEF RoundInv, RoundIsCurrent, SupplySide, Alive
      <3>3. Alive(a) /\ Alive(a)'
        BY <1>1, <2>1 DEF Alive, SupplySide
      <3> QED
        BY <3>1, <3>2, <3>3
           DEF RoundInv, RoundHasLead, DealIsPaid, ReturnHoldsRound, LedgerFollowsReward,
               LedgerFollowsRound, RefundEndsRound, RewardFollowsRound, Refunds
    <2>2. CASE leadOf[a] # l
      <3>1. leadOf[a] \in Leads => /\ leadStatus'[leadOf[a]] = leadStatus[leadOf[a]]
                                   /\ current'[leadOf[a]] = current[leadOf[a]]
        BY <2>2 DEF Inv, TypeOK
      <3> QED
        BY <1>2, <3>1, RoundElsewhere
    <2> QED
      BY <2>1, <2>2
  <1>4. LeadInv(l)'
    BY <1>1 DEF LeadInv, SupplySide
  <1>5. ASSUME NEW m \in Leads \ {l}
        PROVE  LeadInv(m)'
    <2>1. leadStatus'[m] = leadStatus[m] /\ current'[m] = current[m]
      BY DEF Inv, TypeOK
    <2> QED
      BY <1>2, <2>1, LeadElsewhere
  <1>6. OneActive' /\ PaidOnce'
    BY DEF Inv, OneActive, PaidOnce
  <1> QED
    BY <1>3, <1>4, <1>5, <1>6 DEF Inv

-----------------------------------------------------------------------------
\* The steps of the current round.

\* Everything the invariant says of one round, in the state it starts from.
LEMMA RoundFacts ==
  ASSUME Inv, NEW a \in Assignments
  PROVE  /\ RoundHasLead(a) /\ RoundIsCurrent(a) /\ DealIsPaid(a) /\ ReturnHoldsRound(a)
         /\ LedgerFollowsReward(a) /\ LedgerFollowsRound(a)
         /\ RefundEndsRound(a) /\ RewardFollowsRound(a)
  BY DEF Inv, RoundInv

\* The claim.
LEMMA InvClaim ==
  ASSUME Inv, TypeOK', NEW a \in Assignments, ClaimAssignment(a)
  PROVE  Inv'
  <1> DEFINE l == leadOf[a]
  <1>1. /\ status[a] = "PENDING_CLAIM" /\ leadStatus[l] = "DISPATCHED"
        /\ l \in Leads /\ current[l] = a /\ Alive(a)
    BY HeldIsCurrent DEF ClaimAssignment, AwaitsClaim, ActiveStatuses
  <1>2. /\ leadOf' = leadOf /\ current' = current /\ request' = request /\ dealAt' = dealAt
        /\ status' = [status EXCEPT ![a] = "CLAIMED"]
        /\ leadStatus' = [leadStatus EXCEPT ![l] = "CLAIMED"]
        /\ posted' = [posted EXCEPT ![a] = @ \cup {"claim"}]
        /\ \E s \in {"OBSERVING", "NOT_ELIGIBLE"} : reward' = [reward EXCEPT ![a] = s]
    BY DEF ClaimAssignment, returnVars
  <1>3. posted[a] = {} /\ dealAt[a] = 0
    BY <1>1, RoundFacts DEF LedgerFollowsRound, DealIsPaid
  <1>4. /\ status'[a] = "CLAIMED" /\ posted'[a] = {"claim"}
        /\ reward'[a] \in {"OBSERVING", "NOT_ELIGIBLE"}
        /\ leadStatus'[l] = "CLAIMED" /\ current'[l] = a /\ leadOf'[a] = l
    BY <1>1, <1>2, <1>3 DEF Inv, TypeOK
  <1>5. RoundInv(a)'
    BY <1>1, <1>2, <1>3, <1>4, RoundFacts, NoneAssumption
       DEF RoundInv, RoundHasLead, RoundIsCurrent, DealIsPaid, ReturnHoldsRound,
           LedgerFollowsReward, LedgerFollowsRound, RefundEndsRound, RewardFollowsRound, Refunds,
           RefundKeys, Alive, HeldStatuses, UnsettledRewards
  <1>6. LeadInv(l)'
    BY <1>1, <1>4, NoneAssumption DEF LeadInv, HeldStatuses
  <1>7. current' = [current EXCEPT ![l] = a]
    BY <1>1, <1>2 DEF Inv, TypeOK
  <1>8. \A b \in Assignments \ {a} : RoundKept(b)
    BY <1>2 DEF Inv, TypeOK, RoundKept
  <1>9. /\ leadStatus[l] # "DELETED" /\ "CLAIMED" \in LeadStatuses
        /\ status[a] \in ActiveStatuses
    BY <1>1 DEF LeadStatuses, ActiveStatuses
  <1> HIDE DEF l
  <1> QED
    BY <1>1, <1>2, <1>5, <1>6, <1>7, <1>8, <1>9, OthersEnded, CurrentRoundStep DEF l

\* A dispatch refused or not claimed in time.
LEMMA InvBackToPool ==
  ASSUME Inv, TypeOK', NEW a \in Assignments, RefusePendingAssignment(a) \/ ExpireAssignment(a)
  PROVE  Inv'
  <1> DEFINE l == leadOf[a]
  <1>1. /\ status[a] = "PENDING_CLAIM" /\ leadStatus[l] = "DISPATCHED"
        /\ l \in Leads /\ current[l] = a /\ Alive(a)
    BY HeldIsCurrent DEF RefusePendingAssignment, ExpireAssignment, AwaitsClaim, ActiveStatuses
  <1>2. /\ leadOf' = leadOf /\ request' = request /\ posted' = posted /\ reward' = reward
        /\ dealAt' = dealAt
        /\ \E s \in {"RELEASED", "EXPIRED"} : status' = [status EXCEPT ![a] = s]
        /\ leadStatus' = [leadStatus EXCEPT ![l] = "READY_DISPATCH"]
        /\ current' = [current EXCEPT ![l] = None]
    BY DEF RefusePendingAssignment, ExpireAssignment, BackToPool, returnVars, moneyVars
  <1>3. posted[a] = {} /\ reward[a] = "NONE"
    BY <1>1, RoundFacts DEF LedgerFollowsRound, LedgerFollowsReward
  <1>4. /\ status'[a] \in {"RELEASED", "EXPIRED"}
        /\ leadStatus'[l] = "READY_DISPATCH" /\ current'[l] = None
    BY <1>1, <1>2 DEF Inv, TypeOK
  <1>5. RoundInv(a)'
    BY <1>1, <1>2, <1>3, <1>4, RoundFacts, NoneAssumption
       DEF RoundInv, RoundHasLead, RoundIsCurrent, DealIsPaid, ReturnHoldsRound,
           LedgerFollowsReward, LedgerFollowsRound, RefundEndsRound, RewardFollowsRound, Refunds,
           RefundKeys, Alive, HeldStatuses, UnsettledRewards
  <1>6. LeadInv(l)'
    BY <1>1, <1>2, <1>4 DEF LeadInv
  <1>7. \A b \in Assignments \ {a} : RoundKept(b)
    BY <1>2 DEF Inv, TypeOK, RoundKept
  <1>8. /\ leadStatus[l] # "DELETED" /\ "READY_DISPATCH" \in LeadStatuses
        /\ status[a] \in ActiveStatuses
    BY <1>1 DEF LeadStatuses, ActiveStatuses
  <1> HIDE DEF l
  <1> QED
    BY <1>1, <1>2, <1>5, <1>6, <1>7, <1>8, OthersEnded, CurrentRoundStep DEF l

\* A follow-up or a deal.
LEMMA InvFollow ==
  ASSUME Inv, TypeOK', NEW a \in Assignments, FollowUp(a) \/ Deal(a)
  PROVE  Inv'
  <1> DEFINE l == leadOf[a]
  <1>1. /\ status[a] \in {"CLAIMED", "FOLLOWING"} /\ status[a] \in ActiveStatuses
        /\ l \in Leads /\ current[l] = a /\ Alive(a)
    BY HeldIsCurrent DEF FollowUp, Deal, MayFollow, ActiveStatuses
  <1>2. /\ leadOf' = leadOf /\ current' = current /\ request' = request
        /\ \A b \in Assignments \ {a} : dealAt'[b] = dealAt[b]
        /\ \/ /\ status' = [status EXCEPT ![a] = "FOLLOWING"]
              /\ leadStatus' = [leadStatus EXCEPT ![l] = "FOLLOWING"]
              /\ UNCHANGED <<posted, reward, dealAt>>
           \/ /\ status' = [status EXCEPT ![a] = "COMPLETED"]
              /\ leadStatus' = [leadStatus EXCEPT ![l] = "CLOSED"]
              /\ dealAt' = [dealAt EXCEPT ![a] = IF @ = 0 THEN now ELSE @]
              /\ \/ reward[a] # "OBSERVING" /\ UNCHANGED <<posted, reward>>
                 \/ /\ reward[a] = "OBSERVING"
                    /\ reward' = [reward EXCEPT ![a] = "SETTLED"]
                    /\ posted' = [posted EXCEPT ![a] = @ \cup {"settle"}]
    BY DEF FollowUp, Deal, PayForDeal, PayReward, returnVars, moneyVars, Inv, TypeOK
  <1>3. /\ current'[l] = a /\ leadOf'[a] = l
        /\ \/ /\ status'[a] = "FOLLOWING" /\ leadStatus'[l] = "FOLLOWING"
              /\ reward'[a] = reward[a] /\ dealAt'[a] = dealAt[a]
           \/ /\ status'[a] = "COMPLETED" /\ leadStatus'[l] = "CLOSED"
              /\ dealAt'[a] # 0 /\ reward'[a] # "OBSERVING"
        /\ \/ reward'[a] = reward[a] /\ posted'[a] = posted[a]
           \/ /\ reward[a] = "OBSERVING"
              /\ reward'[a] = "SETTLED" /\ posted'[a] = posted[a] \cup {"settle"}
    <2>1. now # 0
      BY WindowsAssumption DEF Inv, TypeOK
    <2> QED
      BY <1>1, <1>2, <2>1 DEF Inv, TypeOK
  <1>4. Refunds(a)' = Refunds(a) /\ Refunds(a) = {}
    BY <1>1, <1>3, RoundFacts DEF Refunds, RefundKeys, RefundEndsRound
  <1>5. /\ request[a] \notin OpenReturns /\ request[a] # "APPROVED" /\ "claim" \in posted[a]
        /\ reward[a] # "FROZEN"
    BY <1>1, RoundFacts DEF ReturnHoldsRound, LedgerFollowsRound, HeldStatuses, DealIsPaid
  <1>6. RoundInv(a)'
    <2>1. (RoundHasLead(a) /\ RoundIsCurrent(a) /\ ReturnHoldsRound(a) /\ RewardFollowsRound(a))'
      BY <1>1, <1>2, <1>3, <1>5, RoundFacts
         DEF RoundHasLead, RoundIsCurrent, ReturnHoldsRound, RewardFollowsRound, Alive, HeldStatuses
    <2>2. DealIsPaid(a)'
      BY <1>1, <1>3, <1>5, RoundFacts DEF DealIsPaid, UnsettledRewards
    <2>3. (LedgerFollowsReward(a) /\ LedgerFollowsRound(a))'
      BY <1>1, <1>3, <1>5, RoundFacts DEF LedgerFollowsReward, LedgerFollowsRound
    <2>4. RefundEndsRound(a)'
      BY <1>3, <1>4 DEF RefundEndsRound
    <2> QED
      BY <2>1, <2>2, <2>3, <2>4 DEF RoundInv
  <1>7. LeadInv(l)'
    BY <1>1, <1>2, <1>3, NoneAssumption DEF LeadInv, HeldStatuses
  <1>8. current' = [current EXCEPT ![l] = a]
    BY <1>1, <1>2 DEF Inv, TypeOK
  <1>9. \A b \in Assignments \ {a} : RoundKept(b)
    BY <1>2 DEF Inv, TypeOK, RoundKept
  <1>10. PICK s \in LeadStatuses : s # "DELETED" /\ leadStatus' = [leadStatus EXCEPT ![l] = s]
    BY <1>2 DEF LeadStatuses
  <1>11. /\ leadStatus[l] # "DELETED"
         /\ \A b \in Assignments \ {a} : leadOf[b] = l => status[b] \notin ActiveStatuses
    BY <1>1, OthersEnded DEF Alive
  <1>12. leadOf' = leadOf /\ l \in Leads
    BY <1>1, <1>2
  <1> HIDE DEF l
  <1> QED
    BY <1>6, <1>7, <1>8, <1>9, <1>10, <1>11, <1>12, CurrentRoundStep DEF l

\* A return submitted, or submitted again with more evidence.
LEMMA InvSubmit ==
  ASSUME Inv, TypeOK', NEW a \in Assignments, SubmitReturn(a) \/ ResubmitReturn(a)
  PROVE  Inv'
  <1> DEFINE l == leadOf[a]
  <1>1. status[a] \in HeldStatuses /\ l \in Leads /\ Alive(a)
    BY HeldIsCurrent DEF SubmitReturn, ResubmitReturn, LeadOpen, ReturnableStatuses,
       HeldStatuses, ActiveStatuses, Alive
  <1>2. /\ leadOf' = leadOf /\ current' = current /\ leadStatus' = leadStatus
        /\ posted' = posted /\ dealAt' = dealAt
        /\ status' = [status EXCEPT ![a] = "RETURN_PENDING"]
        /\ request' = [request EXCEPT ![a] = "VERIFYING"]
        /\ reward' = [reward EXCEPT ![a] = IF @ = "OBSERVING" THEN "FROZEN" ELSE @]
    BY DEF SubmitReturn, ResubmitReturn, OpenVerification, leadVars
  <1>3. /\ leadOf'[a] = l
        /\ status'[a] = "RETURN_PENDING" /\ posted'[a] = posted[a]
        /\ request'[a] = "VERIFYING"
        /\ reward'[a] = IF reward[a] = "OBSERVING" THEN "FROZEN" ELSE reward[a]
    BY <1>1, <1>2 DEF Inv, TypeOK
  <1>4. "claim" \in posted[a]
    BY <1>1, RoundFacts DEF LedgerFollowsRound
  <1>5. Refunds(a)' = Refunds(a) /\ Refunds(a) = {}
    BY <1>1, <1>3, RoundFacts DEF Refunds, RefundEndsRound, HeldStatuses
  <1>6. RoundInv(a)'
    <2>1. (RoundHasLead(a) /\ ReturnHoldsRound(a) /\ RewardFollowsRound(a))'
      BY <1>1, <1>2, <1>3, NoneAssumption
         DEF RoundHasLead, ReturnHoldsRound, RewardFollowsRound, Alive, HeldStatuses, OpenReturns
    <2>2. RoundIsCurrent(a)'
      BY <1>1, <1>2, <1>3, RoundFacts DEF RoundIsCurrent, HeldStatuses, Alive
    <2>3. DealIsPaid(a)'
      BY <1>1, <1>2, <1>3, RoundFacts DEF DealIsPaid, UnsettledRewards
    <2>4. (LedgerFollowsReward(a) /\ LedgerFollowsRound(a))'
      BY <1>1, <1>3, <1>4, RoundFacts DEF LedgerFollowsReward, LedgerFollowsRound
    <2>5. RefundEndsRound(a)'
      BY <1>3, <1>5 DEF RefundEndsRound
    <2> QED
      BY <2>1, <2>2, <2>3, <2>4, <2>5 DEF RoundInv
  <1>7. \A b \in Assignments \ {a} : RoundKept(b)
    BY <1>2 DEF Inv, TypeOK, RoundKept
  <1>8. LeadInv(l)'
    <2>1. LeadInv(l)
      BY <1>1 DEF Inv
    <2>2. current[l] # None /\ current[l] # a => status'[current[l]] = status[current[l]]
      BY <1>7, <2>1 DEF LeadInv, RoundKept
    <2> QED
      BY <1>1, <1>2, <1>3, <2>1, <2>2 DEF LeadInv, HeldStatuses
  <1>9. \A b \in Assignments \ {a} : leadOf[b] = l => status[b] \notin ActiveStatuses
    <2>1. CASE SubmitReturn(a)
      BY <2>1 DEF SubmitReturn, NoOtherActive, RoundsOf
    <2>2. CASE ResubmitReturn(a)
      <3>1. status[a] \in ActiveStatuses
        BY <2>2 DEF ResubmitReturn, ActiveStatuses
      <3> QED
        BY <3>1, OthersEnded
    <2> QED
      BY <2>1, <2>2
  <1>10. /\ current' = [current EXCEPT ![l] = current[l]]
         /\ leadStatus' = [leadStatus EXCEPT ![l] = leadStatus[l]]
         /\ leadStatus[l] # "DELETED" /\ leadStatus[l] \in LeadStatuses
    BY <1>1, <1>2 DEF Inv, TypeOK, Alive
  <1> HIDE DEF l
  <1> QED
    BY <1>1, <1>3, <1>6, <1>7, <1>8, <1>9, <1>10, CurrentRoundStep DEF l

\* A return rejected: the receiver holds the round again, and a reward that is
\* effective by now is paid.
LEMMA InvReject ==
  ASSUME Inv, TypeOK', NEW a \in Assignments, RejectReturn(a)
  PROVE  Inv'
  <1> DEFINE l == leadOf[a]
             s == IF leadStatus[l] \in {"CLAIMED", "FOLLOWING", "CLOSED"} THEN leadStatus[l]
                  ELSE "CLAIMED"
  <1>1. /\ request[a] = "REVIEWING" /\ status[a] = "RETURN_PENDING"
        /\ l \in Leads /\ Alive(a)
    <2>1. request[a] = "REVIEWING"
      BY DEF RejectReturn, Reviewable
    <2>2. status[a] = "RETURN_PENDING"
      BY <2>1, RoundFacts DEF ReturnHoldsRound, OpenReturns
    <2> QED
      BY <2>1, <2>2, HeldIsCurrent DEF ActiveStatuses
  <1>2. "claim" \in posted[a]
    BY <1>1, RoundFacts DEF LedgerFollowsRound, HeldStatuses
  <1>3. /\ leadOf' = leadOf /\ current' = current /\ dealAt' = dealAt
        /\ leadStatus' = [leadStatus EXCEPT ![l] = s]
        /\ request' = [request EXCEPT ![a] = "REJECTED"]
        /\ status' = [status EXCEPT ![a] = RestoredStatus(l)]
        /\ \/ /\ reward[a] \in UnsettledRewards
              /\ reward' = [reward EXCEPT ![a] = "SETTLED"]
              /\ posted' = [posted EXCEPT ![a] = @ \cup {"settle"}]
           \/ /\ reward' = [reward EXCEPT ![a] = IF @ = "FROZEN" THEN "OBSERVING" ELSE @]
              /\ posted' = posted
    BY <1>1 DEF RejectReturn, PayReward, Inv, TypeOK
  <1>4. /\ leadOf'[a] = l /\ leadStatus'[l] = s
        /\ request'[a] = "REJECTED"
        /\ status'[a] = RestoredStatus(l)
        /\ \/ /\ reward[a] \in UnsettledRewards
              /\ reward'[a] = "SETTLED" /\ posted'[a] = posted[a] \cup {"settle"}
           \/ /\ reward'[a] = IF reward[a] = "FROZEN" THEN "OBSERVING" ELSE reward[a]
              /\ posted'[a] = posted[a]
    BY <1>1, <1>3 DEF Inv, TypeOK
  <1>5. \/ leadStatus[l] = "CLOSED" /\ s = "CLOSED" /\ status'[a] = "COMPLETED"
        \/ leadStatus[l] = "FOLLOWING" /\ s = "FOLLOWING" /\ status'[a] = "FOLLOWING"
        \/ leadStatus[l] \notin {"CLOSED", "FOLLOWING"} /\ s = "CLAIMED" /\ status'[a] = "CLAIMED"
    BY <1>4 DEF RestoredStatus
  <1>6. Refunds(a)' = Refunds(a) /\ Refunds(a) = {}
    BY <1>1, <1>4, RoundFacts DEF Refunds, RefundKeys, RefundEndsRound
  <1>7. RoundInv(a)'
    <2>1. (RoundHasLead(a) /\ ReturnHoldsRound(a))'
      BY <1>1, <1>3, <1>4, <1>5, NoneAssumption DEF RoundHasLead, ReturnHoldsRound, OpenReturns
    <2>2. RoundIsCurrent(a)'
      BY <1>1, <1>3, <1>4, <1>5, RoundFacts DEF RoundIsCurrent
    <2>3. DealIsPaid(a)'
      BY <1>3, <1>4, <1>5, RoundFacts DEF DealIsPaid, UnsettledRewards
    <2>4. RewardFollowsRound(a)'
      BY <1>1, <1>4, <1>5 DEF RewardFollowsRound, Alive, HeldStatuses
    <2>5. (LedgerFollowsReward(a) /\ LedgerFollowsRound(a))'
      BY <1>1, <1>2, <1>4, <1>5, RoundFacts
         DEF LedgerFollowsReward, LedgerFollowsRound, UnsettledRewards
    <2>6. RefundEndsRound(a)'
      BY <1>4, <1>5, <1>6 DEF RefundEndsRound
    <2> QED
      BY <2>1, <2>2, <2>3, <2>4, <2>5, <2>6 DEF RoundInv
  <1>8. \A b \in Assignments \ {a} : RoundKept(b)
    BY <1>3 DEF Inv, TypeOK, RoundKept
  <1>9. \A b \in Assignments \ {a} : leadOf[b] = l => status[b] \notin ActiveStatuses
    BY <1>1, OthersEnded DEF ActiveStatuses
  <1>10. /\ LeadInv(l)
         /\ current[l] = None \/ s = leadStatus[l]
         /\ current[l] # None /\ current[l] # a => status'[current[l]] = status[current[l]]
    <2>1. LeadInv(l)
      BY <1>1 DEF Inv
    <2>2. current[l] # None /\ current[l] # a =>
            /\ status[current[l]] \notin ActiveStatuses
            /\ status'[current[l]] = status[current[l]]
      BY <1>8, <1>9, <2>1 DEF LeadInv, RoundKept
    <2>3. leadStatus[l] # "DISPATCHED" /\ leadStatus[l] # "DELETED"
      BY <1>1, <2>1, <2>2 DEF LeadInv, ActiveStatuses, Alive
    <2>4. leadStatus[l] \in LeadStatuses
      BY <1>1 DEF Inv, TypeOK
    <2> QED
      BY <1>5, <2>1, <2>2, <2>3, <2>4 DEF LeadInv, LeadStatuses
  <1>11. LeadInv(l)'
    BY <1>1, <1>3, <1>4, <1>5, <1>10 DEF LeadInv, HeldStatuses
  <1>12. current' = [current EXCEPT ![l] = current[l]]
    BY <1>1, <1>3 DEF Inv, TypeOK
  <1>13. leadStatus[l] # "DELETED" /\ s # "DELETED" /\ s \in LeadStatuses
    BY <1>1, <1>5 DEF LeadStatuses, Alive
  <1> HIDE DEF l, s
  <1>14. current[l] \in {a, None} \/ (current[l] = current[l] /\ s = leadStatus[l])
    BY <1>10
  <1> QED
    BY <1>1, <1>3, <1>4, <1>7, <1>8, <1>9, <1>11, <1>12, <1>13, <1>14, CurrentRoundStep DEF l

\* A return approved: the receiver is refunded and the reward ends with it.
LEMMA InvApprove ==
  ASSUME Inv, TypeOK', NEW a \in Assignments,
         ApproveReturn(a) \/ CorrectRegionAndRedispatch(a) \/ DirectInvalidReturn(a)
  PROVE  Inv'
  <1> DEFINE l == leadOf[a]
  <1>1. /\ request[a] \in OpenReturns
        /\ \E end \in {"RELEASED", "CANCELLED"}, s \in {"CLOSED", "READY_DISPATCH", "PUBLIC_POOL"} :
             Approve(a, end, s)
    BY DEF ApproveReturn, CorrectRegionAndRedispatch, DirectInvalidReturn, Reviewable, OpenReturns
  <1>2. /\ status[a] = "RETURN_PENDING"
        /\ l \in Leads /\ Alive(a)
    <2>1. status[a] = "RETURN_PENDING"
      BY <1>1, RoundFacts DEF ReturnHoldsRound
    <2> QED
      BY <2>1, HeldIsCurrent DEF ActiveStatuses
  <1>3. PICK s \in {"CLOSED", "READY_DISPATCH", "PUBLIC_POOL"} :
          /\ leadOf' = leadOf /\ dealAt' = dealAt
          /\ current' = [current EXCEPT ![l] = None]
          /\ leadStatus' = [leadStatus EXCEPT ![l] = s]
          /\ request' = [request EXCEPT ![a] = "APPROVED"]
          /\ status' = [status EXCEPT ![a] = "RETURNED"]
          /\ posted' = [posted EXCEPT ![a] = @ \cup {"return"} \cup ReversalOf(a)]
          /\ reward' = [reward EXCEPT ![a] =
                          CASE @ \in UnsettledRewards -> "CANCELLED"
                            [] @ = "SETTLED"          -> "REVERSED"
                            [] OTHER                  -> @]
    BY <1>1 DEF Approve
  <1>4. /\ current'[l] = None /\ leadOf'[a] = l /\ leadStatus'[l] = s
        /\ request'[a] = "APPROVED" /\ status'[a] = "RETURNED"
        /\ posted'[a] = posted[a] \cup {"return"} \cup ReversalOf(a)
    BY <1>2, <1>3 DEF Inv, TypeOK
  <1>5. \/ reward[a] \in UnsettledRewards /\ reward'[a] = "CANCELLED" /\ ReversalOf(a) = {}
        \/ reward[a] = "SETTLED" /\ reward'[a] = "REVERSED" /\ ReversalOf(a) = {"reverse"}
        \/ /\ reward[a] \notin UnsettledRewards \cup {"SETTLED"}
           /\ reward'[a] = reward[a] /\ ReversalOf(a) = {}
    BY <1>3 DEF Inv, TypeOK, ReversalOf, UnsettledRewards
  <1>6. "claim" \in posted[a] /\ Refunds(a) = {}
    BY <1>2, RoundFacts DEF LedgerFollowsRound, RefundEndsRound, HeldStatuses
  <1>7. Refunds(a)' = {"return"}
    BY <1>4, <1>5, <1>6 DEF Refunds, RefundKeys
  <1>8. RoundInv(a)'
    <2>1. (RoundHasLead(a) /\ RoundIsCurrent(a) /\ ReturnHoldsRound(a))'
      BY <1>2, <1>4, NoneAssumption
         DEF RoundHasLead, RoundIsCurrent, ReturnHoldsRound, OpenReturns
    <2>2. (RewardFollowsRound(a) /\ DealIsPaid(a))'
      BY <1>4, <1>5 DEF RewardFollowsRound, DealIsPaid, UnsettledRewards
    <2>3. LedgerFollowsReward(a)'
      BY <1>4, <1>5, <1>6, RoundFacts DEF LedgerFollowsReward, UnsettledRewards
    <2>4. LedgerFollowsRound(a)'
      BY <1>4 DEF LedgerFollowsRound, HeldStatuses
    <2>5. RefundEndsRound(a)'
      BY <1>4, <1>5, <1>6, <1>7 DEF RefundEndsRound, UnsettledRewards
    <2> QED
      BY <2>1, <2>2, <2>3, <2>4, <2>5 DEF RoundInv
  <1>9. LeadInv(l)'
    BY <1>3, <1>4 DEF LeadInv
  <1>10. \A b \in Assignments \ {a} : RoundKept(b)
    BY <1>3 DEF Inv, TypeOK, RoundKept
  <1>11. /\ leadStatus[l] # "DELETED" /\ s \in LeadStatuses /\ s # "DELETED"
         /\ status[a] \in ActiveStatuses
    BY <1>2 DEF LeadStatuses, Alive, ActiveStatuses
  <1> HIDE DEF l
  <1> QED
    BY <1>2, <1>3, <1>4, <1>8, <1>9, <1>10, <1>11, OthersEnded, CurrentRoundStep DEF l

\* The settlement job, on one reward.
LEMMA InvSettle ==
  ASSUME Inv, TypeOK', NEW a \in Assignments, SettleDueReward(a)
  PROVE  Inv'
  <1> DEFINE l == leadOf[a]
  <1>1. /\ reward[a] = "OBSERVING" /\ status[a] \in HeldStatuses /\ dealAt[a] = 0
        /\ l \in Leads /\ current[l] = a /\ Alive(a) /\ status[a] \in ActiveStatuses
    <2>1. /\ reward[a] = "OBSERVING" /\ status[a] \in HeldStatuses
          /\ current[l] = a /\ Alive(a)
      BY DEF SettleDueReward, SelectedAsDue, Settleable, LeadOpen, Alive
    <2>2. dealAt[a] = 0
      BY <2>1, RoundFacts DEF DealIsPaid, UnsettledRewards
    <2>3. status[a] \in ActiveStatuses
      BY <2>1, <2>2, RewardIsActive DEF UnsettledRewards
    <2> QED
      BY <2>1, <2>2, <2>3, HeldIsCurrent
  <1>2. /\ leadOf' = leadOf /\ current' = current /\ leadStatus' = leadStatus
        /\ status' = status /\ request' = request /\ dealAt' = dealAt
        /\ \/ /\ status[a] = "RETURN_PENDING" \/ AppealActive(a)
              /\ reward' = [reward EXCEPT ![a] = "FROZEN"] /\ posted' = posted
           \/ /\ reward' = [reward EXCEPT ![a] = "SETTLED"]
              /\ posted' = [posted EXCEPT ![a] = @ \cup {"settle"}]
    BY DEF SettleDueReward, PayReward, leadVars, roundVars, returnVars
  <1>3. \/ /\ reward'[a] = "FROZEN" /\ posted'[a] = posted[a]
           /\ status[a] = "RETURN_PENDING"
        \/ reward'[a] = "SETTLED" /\ posted'[a] = posted[a] \cup {"settle"}
    <2>1. AppealActive(a) => status[a] = "RETURN_PENDING"
      BY <1>1, RoundFacts DEF AppealActive, ReturnHoldsRound, HeldStatuses
    <2> QED
      BY <1>2, <2>1 DEF Inv, TypeOK
  <1>4. Refunds(a)' = Refunds(a) /\ Refunds(a) = {}
    BY <1>1, <1>3, RoundFacts DEF Refunds, RefundKeys, RefundEndsRound, HeldStatuses
  <1>5. RoundInv(a)'
    <2>1. (RoundHasLead(a) /\ RoundIsCurrent(a) /\ ReturnHoldsRound(a) /\ RewardFollowsRound(a))'
      BY <1>1, <1>2, RoundFacts
         DEF RoundHasLead, RoundIsCurrent, ReturnHoldsRound, RewardFollowsRound, Alive
    <2>2. DealIsPaid(a)'
      BY <1>1, <1>2, <1>3, RoundFacts DEF DealIsPaid
    <2>3. (LedgerFollowsReward(a) /\ LedgerFollowsRound(a))'
      BY <1>1, <1>2, <1>3, RoundFacts DEF LedgerFollowsReward, LedgerFollowsRound, HeldStatuses
    <2>4. RefundEndsRound(a)'
      BY <1>1, <1>2, <1>3, <1>4 DEF RefundEndsRound, HeldStatuses
    <2> QED
      BY <2>1, <2>2, <2>3, <2>4 DEF RoundInv
  <1>6. LeadInv(l)'
    BY <1>1, <1>2 DEF Inv, LeadInv
  <1>7. /\ current' = [current EXCEPT ![l] = a]
        /\ leadStatus' = [leadStatus EXCEPT ![l] = leadStatus[l]]
    BY <1>1, <1>2 DEF Inv, TypeOK
  <1>8. \A b \in Assignments \ {a} : RoundKept(b)
    BY <1>2 DEF Inv, TypeOK, RoundKept
  <1>9. leadStatus[l] # "DELETED" /\ leadStatus[l] \in LeadStatuses
    BY <1>1 DEF Alive, Inv, TypeOK
  <1>10. \A b \in Assignments \ {a} : leadOf[b] = l => status[b] \notin ActiveStatuses
    BY <1>1, OthersEnded
  <1>11. leadOf[a] \in {l, None} /\ leadOf'[a] = l
    BY <1>2
  <1> HIDE DEF l
  <1> QED
    BY <1>1, <1>2, <1>5, <1>6, <1>7, <1>8, <1>9, <1>10, <1>11, CurrentRoundStep DEF l

\* A reward reversed by hand, possibly of a lead that is gone.
LEMMA InvReverse ==
  ASSUME Inv, TypeOK', NEW a \in Assignments, ReverseReward(a)
  PROVE  Inv'
  <1>1. /\ reward[a] = "SETTLED"
        /\ UNCHANGED <<leadOf, current, leadStatus, status, request, dealAt>>
        /\ reward' = [reward EXCEPT ![a] = "REVERSED"]
        /\ posted' = [posted EXCEPT ![a] = @ \cup {"reverse"}]
    BY DEF ReverseReward, leadVars, roundVars, returnVars
  <1>2. reward'[a] = "REVERSED" /\ posted'[a] = posted[a] \cup {"reverse"}
    BY <1>1 DEF Inv, TypeOK
  <1>3. \A b \in Assignments \ {a} : posted'[b] = posted[b] /\ reward'[b] = reward[b]
    BY <1>1 DEF Inv, TypeOK
  <1>4. RoundInv(a)'
    <2>1. Refunds(a)' = Refunds(a)
      BY <1>2 DEF Refunds, RefundKeys
    <2>2. /\ (RoundHasLead(a) /\ RoundIsCurrent(a) /\ ReturnHoldsRound(a))'
          /\ (RewardFollowsRound(a) /\ DealIsPaid(a))'
      BY <1>1, <1>2, RoundFacts
         DEF RoundHasLead, RoundIsCurrent, ReturnHoldsRound, RewardFollowsRound, DealIsPaid,
             Alive, UnsettledRewards
    <2>3. (LedgerFollowsReward(a) /\ LedgerFollowsRound(a))'
      BY <1>1, <1>2, RoundFacts DEF LedgerFollowsReward, LedgerFollowsRound
    <2>4. RefundEndsRound(a)'
      BY <1>1, <1>2, <2>1, RoundFacts DEF RefundEndsRound, UnsettledRewards, Alive
    <2> QED
      BY <2>2, <2>3, <2>4 DEF RoundInv
  <1>5. ASSUME NEW b \in Assignments \ {a}
        PROVE  RoundInv(b)'
    BY <1>1, <1>3, RoundElsewhere DEF RoundKept
  <1>6. ASSUME NEW l \in Leads
        PROVE  LeadInv(l)'
    BY <1>1 DEF Inv, LeadInv
  <1>7. OneActive' /\ PaidOnce'
    BY <1>1, <1>2, <1>3 DEF Inv, OneActive, PaidOnce
  <1> QED
    BY <1>4, <1>5, <1>6, <1>7 DEF Inv

\* A round taken back for another dispatch; one that was paid for is refunded.
LEMMA InvRelease ==
  ASSUME Inv, TypeOK', NEW l \in Leads,
         ReleaseCorrectedLead(l) \/ ReleaseMisdispatchedLead(l)
  PROVE  Inv'
  <1>1. PICK a \in Assignments, key \in RefundKeys :
          a = current[l] /\ ReleaseForRedispatch(l, a, key)
    <2>1. current[l] \in Assignments
      BY DEF ReleaseCorrectedLead, ReleaseMisdispatchedLead, Inv, TypeOK
    <2>2. "correction" \in RefundKeys /\ "misdispatch" \in RefundKeys
      BY DEF RefundKeys
    <2> QED
      BY <2>1, <2>2 DEF ReleaseCorrectedLead, ReleaseMisdispatchedLead
  <1>2. /\ leadOf[a] = l /\ status[a] \in {"PENDING_CLAIM", "CLAIMED", "FOLLOWING"}
        /\ reward[a] # "SETTLED" /\ Alive(a) /\ status[a] \in ActiveStatuses
    <2>1. leadOf[a] = l
      BY <1>1, NoneAssumption DEF Inv, LeadInv
    <2>2. status[a] \in {"PENDING_CLAIM", "CLAIMED", "FOLLOWING"} /\ reward[a] # "SETTLED"
      BY <1>1 DEF ReleaseForRedispatch, Releasable
    <2> QED
      BY <2>1, <2>2, HeldIsCurrent DEF ActiveStatuses
  <1>3. /\ leadOf' = leadOf /\ dealAt' = dealAt
        /\ current' = [current EXCEPT ![l] = None]
        /\ leadStatus' = [leadStatus EXCEPT ![l] = "READY_DISPATCH"]
        /\ status' = [status EXCEPT ![a] = "RELEASED"]
        /\ reward' = [reward EXCEPT ![a] = RewardOfReleased(a)]
        /\ \/ status[a] = "PENDING_CLAIM" /\ posted' = posted
           \/ /\ status[a] # "PENDING_CLAIM" /\ "claim" \in posted[a]
              /\ posted' = [posted EXCEPT ![a] = @ \cup {key}]
    BY <1>1 DEF ReleaseForRedispatch, Refund
  <1>4. \A b \in Assignments : request'[b] = request[b] \/ (request'[b] = "EXPIRED" /\ b = a)
    BY <1>1 DEF ReleaseCorrectedLead, ReleaseMisdispatchedLead, returnVars, Inv, TypeOK
  <1>5. /\ current'[l] = None /\ leadOf'[a] = l /\ leadStatus'[l] = "READY_DISPATCH"
        /\ status'[a] = "RELEASED" /\ request'[a] \notin OpenReturns /\ request'[a] # "APPROVED"
        /\ reward'[a] = IF reward[a] \in UnsettledRewards THEN "CANCELLED" ELSE reward[a]
    <2>1. request[a] \notin OpenReturns /\ request[a] # "APPROVED"
      BY <1>2, RoundFacts DEF ReturnHoldsRound
    <2> QED
      BY <1>2, <1>3, <1>4, <2>1 DEF Inv, TypeOK, RewardOfReleased, OpenReturns
  <1>6. /\ Refunds(a) = {}
        /\ \/ posted[a] = {} /\ posted'[a] = {}
           \/ "claim" \in posted[a] /\ posted'[a] = posted[a] \cup {key}
    <2>1. Refunds(a) = {}
      BY <1>2, RoundFacts DEF RefundEndsRound
    <2>2. CASE status[a] = "PENDING_CLAIM" /\ posted' = posted
      BY <2>1, <2>2, RoundFacts DEF LedgerFollowsRound
    <2>3. CASE "claim" \in posted[a] /\ posted' = [posted EXCEPT ![a] = @ \cup {key}]
      BY <2>1, <2>3 DEF Inv, TypeOK
    <2> QED
      BY <1>3, <2>2, <2>3
  <1>7. RoundInv(a)'
    <2>1. (RoundHasLead(a) /\ RoundIsCurrent(a) /\ ReturnHoldsRound(a))'
      BY <1>5, NoneAssumption DEF RoundHasLead, RoundIsCurrent, ReturnHoldsRound
    <2>2. (RewardFollowsRound(a) /\ DealIsPaid(a))'
      BY <1>2, <1>5 DEF RewardFollowsRound, DealIsPaid, UnsettledRewards
    <2>3. LedgerFollowsReward(a)'
      BY <1>2, <1>5, <1>6, RoundFacts DEF LedgerFollowsReward, UnsettledRewards, RefundKeys
    <2>4. LedgerFollowsRound(a)'
      BY <1>5 DEF LedgerFollowsRound, HeldStatuses
    <2>5. RefundEndsRound(a)'
      <3>1. CASE posted'[a] = {}
        BY <3>1 DEF RefundEndsRound, Refunds
      <3>2. CASE "claim" \in posted[a] /\ posted'[a] = posted[a] \cup {key}
        <4>1. Refunds(a)' = {key}
          BY <1>6, <3>2 DEF Refunds
        <4> QED
          BY <1>2, <1>5, <3>2, <4>1 DEF RefundEndsRound, UnsettledRewards
      <3> QED
        BY <1>6, <3>1, <3>2
    <2> QED
      BY <2>1, <2>2, <2>3, <2>4, <2>5 DEF RoundInv
  <1>8. LeadInv(l)'
    BY <1>5 DEF LeadInv
  <1>9. \A b \in Assignments \ {a} : RoundKept(b)
    BY <1>3, <1>4 DEF Inv, TypeOK, RoundKept
  <1>10. leadStatus[l] # "DELETED" /\ "READY_DISPATCH" \in LeadStatuses
    BY <1>2 DEF LeadStatuses, Alive
  <1> QED
    BY <1>2, <1>3, <1>5, <1>7, <1>8, <1>9, <1>10, OthersEnded, CurrentRoundStep

\* A dispatch: the lead gets a round that was never used.
LEMMA InvDispatch ==
  ASSUME Inv, TypeOK', NEW l \in Leads, NEW a \in Assignments, NEW r \in Receivers,
         DispatchManually(l, a, r)
  PROVE  Inv'
  <1>1. /\ status[a] = "NEW" /\ leadStatus[l] = "READY_DISPATCH" /\ current[l] = None
        /\ \A b \in RoundsOf(l) \ {a} : status[b] \notin ActiveStatuses
        /\ leadOf' = [leadOf EXCEPT ![a] = l]
        /\ status' = [status EXCEPT ![a] = "PENDING_CLAIM"]
        /\ leadStatus' = [leadStatus EXCEPT ![l] = "DISPATCHED"]
        /\ current' = [current EXCEPT ![l] = a]
        /\ UNCHANGED <<request, posted, reward, dealAt>>
    BY DEF DispatchManually, NoOtherActive, returnVars, moneyVars
  <1>2. /\ leadOf[a] = None /\ request[a] \notin OpenReturns /\ request[a] # "APPROVED"
        /\ posted[a] = {} /\ reward[a] = "NONE" /\ dealAt[a] = 0
    BY <1>1, RoundFacts
       DEF RoundHasLead, DealIsPaid, ReturnHoldsRound, LedgerFollowsRound, LedgerFollowsReward
  <1>3. /\ leadOf'[a] = l /\ status'[a] = "PENDING_CLAIM"
        /\ leadStatus'[l] = "DISPATCHED" /\ current'[l] = a
    BY <1>1 DEF Inv, TypeOK
  <1>4. \A b \in Assignments \ {a} : leadOf[b] = l => status[b] \notin ActiveStatuses
    BY <1>1 DEF RoundsOf
  <1>5. RoundInv(a)'
    BY <1>1, <1>2, <1>3, NoneAssumption
       DEF RoundInv, RoundHasLead, RoundIsCurrent, DealIsPaid, ReturnHoldsRound,
           LedgerFollowsReward, LedgerFollowsRound, RefundEndsRound, RewardFollowsRound, Refunds, HeldStatuses,
           UnsettledRewards, OpenReturns
  <1>6. LeadInv(l)'
    BY <1>3, NoneAssumption DEF LeadInv
  <1>7. \A b \in Assignments \ {a} : RoundKept(b)
    BY <1>1 DEF Inv, TypeOK, RoundKept
  <1>8. "DISPATCHED" \in LeadStatuses
    BY DEF LeadStatuses
  <1> QED
    BY <1>1, <1>2, <1>3, <1>4, <1>5, <1>6, <1>7, <1>8, CurrentRoundStep

\* A lead between the pools, verification and its end, and a closed lead that is
\* reopened.
LEMMA InvSupply ==
  ASSUME Inv, TypeOK', NEW l \in Leads,
         \/ TransferFromPublicPool(l) \/ LeaveForSupply(l) \/ ReturnFromSupply(l)
         \/ ReopenClosedLead(l)
  PROVE  Inv'
  <1>1. PICK s \in SupplySide \cup {"IN_SUPPLY"} : leadStatus' = [leadStatus EXCEPT ![l] = s]
    BY DEF TransferFromPublicPool, LeaveForSupply, ReturnFromSupply, ReopenClosedLead, SupplySide
  <1>2. /\ leadStatus[l] \in SupplySide \cup {"IN_SUPPLY"}
        /\ UNCHANGED <<leadOf, status, dealAt, request, posted, reward>>
    BY DEF TransferFromPublicPool, LeaveForSupply, ReturnFromSupply, ReopenClosedLead, SupplySide,
           roundVars, returnVars, moneyVars
  <1>3. current' = [current EXCEPT ![l] = None]
    <2>1. CASE ReopenClosedLead(l)
      BY <2>1 DEF ReopenClosedLead
    <2>2. CASE TransferFromPublicPool(l) \/ LeaveForSupply(l) \/ ReturnFromSupply(l)
      <3>1. current[l] = None /\ current' = current
        BY <2>2 DEF TransferFromPublicPool, LeaveForSupply, ReturnFromSupply, Inv, LeadInv
      <3> QED
        BY <3>1 DEF Inv, TypeOK
    <2> QED
      BY <2>1, <2>2
  <1> QED
    BY <1>1, <1>2, <1>3, LeadOnlyStep

\* A correction: the lead keeps its place, or goes back to be verified.
LEMMA InvCorrect ==
  ASSUME Inv, TypeOK', NEW l \in Leads, CorrectLead(l)
  PROVE  Inv'
  <1>1. UNCHANGED <<leadOf, status, dealAt, request, posted, reward, current>>
    BY DEF CorrectLead, StoreIssues, roundVars, returnVars, moneyVars
  <1>2. CASE leadStatus' = leadStatus
    BY <1>1, <1>2, QuietStep DEF OpenReturns
  <1>3. CASE /\ leadStatus[l] = "READY_DISPATCH" /\ current[l] = None
             /\ leadStatus' = [leadStatus EXCEPT ![l] = "IN_SUPPLY"]
    <2>1. current' = [current EXCEPT ![l] = None]
      BY <1>1, <1>3 DEF Inv, TypeOK
    <2> QED
      BY <1>1, <1>3, <2>1, LeadOnlyStep DEF SupplySide
  <1> QED
    BY <1>2, <1>3 DEF CorrectLead, StoreIssues

\* What deletion does to the rounds of the lead, and that it leaves the others
\* alone.
LEMMA DeletedRounds ==
  ASSUME Inv, TypeOK', NEW l \in Leads, DeleteLead(l)
  PROVE  /\ leadOf' = leadOf /\ dealAt' = dealAt
         /\ leadStatus' = [leadStatus EXCEPT ![l] = "DELETED"]
         /\ current' = [current EXCEPT ![l] = None]
         /\ \A b \in Assignments : leadOf[b] # l =>
              /\ status'[b] = status[b] /\ request'[b] = request[b]
              /\ posted'[b] = posted[b] /\ reward'[b] = reward[b]
         /\ \A a \in Assignments : leadOf[a] = l =>
              /\ request'[a] \notin OpenReturns /\ (request'[a] = "APPROVED" => request[a] = "APPROVED")
              /\ status'[a] = IF status[a] \in ActiveStatuses THEN "RELEASED" ELSE status[a]
              /\ \/ /\ reward[a] \in UnsettledRewards /\ current[l] = a
                    /\ reward'[a] = "SETTLED" /\ posted'[a] = posted[a] \cup {"settle"}
                 \/ /\ reward[a] \in UnsettledRewards
                    /\ reward'[a] = "CANCELLED" /\ posted'[a] = posted[a]
                 \/ /\ reward[a] \notin UnsettledRewards
                    /\ reward'[a] = reward[a] /\ posted'[a] = posted[a]
  <1> DEFINE rounds == RoundsOf(l)
             due == {a \in rounds : reward[a] \in UnsettledRewards /\ Confirmed(a) /\ current[l] = a}
  <1>1. /\ leadOf' = leadOf /\ dealAt' = dealAt
        /\ leadStatus' = [leadStatus EXCEPT ![l] = "DELETED"]
        /\ current' = [current EXCEPT ![l] = None]
    BY DEF DeleteLead
  <1>2. /\ \A a \in Assignments : a \in rounds <=> leadOf[a] = l
        /\ \A a \in due : a \in rounds /\ reward[a] \in UnsettledRewards /\ current[l] = a
    BY DEF RoundsOf
  <1>3. \A a \in Assignments :
          request'[a] = IF a \in rounds /\ request[a] \in OpenReturns \cup {"DRAFT"}
                        THEN "CANCELLED" ELSE request[a]
    BY DEF DeleteLead
  <1>4. \A a \in Assignments :
          status'[a] = IF a \in rounds /\ status[a] \in ActiveStatuses
                       THEN "RELEASED" ELSE status[a]
    BY DEF DeleteLead
  <1>5. \A a \in Assignments :
          /\ reward'[a] = CASE a \in due -> "SETTLED"
                            [] a \in rounds \ due /\ reward[a] \in UnsettledRewards -> "CANCELLED"
                            [] OTHER -> reward[a]
          /\ posted'[a] = IF a \in due THEN posted[a] \cup {"settle"} ELSE posted[a]
    BY DEF DeleteLead
  <1> HIDE DEF rounds, due
  <1>6. ASSUME NEW b \in Assignments, leadOf[b] # l
        PROVE  /\ status'[b] = status[b] /\ request'[b] = request[b]
               /\ posted'[b] = posted[b] /\ reward'[b] = reward[b]
    BY <1>2, <1>3, <1>4, <1>5, <1>6
  <1>7. ASSUME NEW a \in Assignments, leadOf[a] = l
        PROVE  /\ request'[a] \notin OpenReturns /\ (request'[a] = "APPROVED" => request[a] = "APPROVED")
               /\ status'[a] = IF status[a] \in ActiveStatuses THEN "RELEASED" ELSE status[a]
               /\ \/ /\ reward[a] \in UnsettledRewards /\ current[l] = a
                     /\ reward'[a] = "SETTLED" /\ posted'[a] = posted[a] \cup {"settle"}
                  \/ /\ reward[a] \in UnsettledRewards
                     /\ reward'[a] = "CANCELLED" /\ posted'[a] = posted[a]
                  \/ /\ reward[a] \notin UnsettledRewards
                     /\ reward'[a] = reward[a] /\ posted'[a] = posted[a]
    <2>1. request'[a] \notin OpenReturns /\ (request'[a] = "APPROVED" => request[a] = "APPROVED")
      BY <1>2, <1>3, <1>7 DEF OpenReturns
    <2>2. status'[a] = IF status[a] \in ActiveStatuses THEN "RELEASED" ELSE status[a]
      BY <1>2, <1>4, <1>7
    <2>3. a \in rounds
      BY <1>2, <1>7
    <2>4. CASE a \in due
      <3>1. reward'[a] = "SETTLED" /\ posted'[a] = posted[a] \cup {"settle"}
        BY <1>5, <2>4
      <3> QED
        BY <1>2, <2>1, <2>2, <2>4, <3>1
    <2>5. CASE a \notin due
      <3>1. posted'[a] = posted[a]
        BY <1>5, <2>5
      <3>2. reward'[a] = IF reward[a] \in UnsettledRewards THEN "CANCELLED" ELSE reward[a]
        BY <1>5, <2>3, <2>5
      <3> QED
        BY <2>1, <2>2, <3>1, <3>2
    <2> QED
      BY <2>4, <2>5
  <1> QED
    BY <1>1, <1>6, <1>7

\* The deletion of a lead ends its rounds; the reward it still pays is that of
\* the current one.
LEMMA InvDelete ==
  ASSUME Inv, TypeOK', NEW l \in Leads, DeleteLead(l)
  PROVE  Inv'
  <1>1. leadStatus[l] # "DELETED"
    BY DEF DeleteLead
  <1>2. leadStatus'[l] = "DELETED" /\ current'[l] = None /\ leadOf' = leadOf /\ dealAt' = dealAt
    BY DeletedRounds DEF Inv, TypeOK
  <1>3. \A m \in Leads \ {l} : leadStatus'[m] = leadStatus[m] /\ current'[m] = current[m]
    BY DeletedRounds DEF Inv, TypeOK
  <1>4. ASSUME NEW a \in Assignments, leadOf[a] = l
        PROVE  RoundInv(a)'
    <2>1. ~Alive(a)' /\ Alive(a)
      BY <1>1, <1>2, <1>4 DEF Alive
    <2>2. /\ request'[a] \notin OpenReturns /\ (request'[a] = "APPROVED" => request[a] = "APPROVED")
          /\ status'[a] = IF status[a] \in ActiveStatuses THEN "RELEASED" ELSE status[a]
          /\ \/ /\ reward[a] \in UnsettledRewards
                /\ reward'[a] = "SETTLED" /\ posted'[a] = posted[a] \cup {"settle"}
             \/ /\ reward[a] \in UnsettledRewards
                /\ reward'[a] = "CANCELLED" /\ posted'[a] = posted[a]
             \/ /\ reward[a] \notin UnsettledRewards
                /\ reward'[a] = reward[a] /\ posted'[a] = posted[a]
      BY <1>4, DeletedRounds
    <2>3. Refunds(a)' = Refunds(a)
      BY <2>2 DEF Refunds, RefundKeys
    <2>4. (RoundHasLead(a) /\ RoundIsCurrent(a) /\ ReturnHoldsRound(a))'
      BY <1>2, <1>4, <2>1, <2>2, RoundFacts, NoneAssumption
         DEF RoundHasLead, RoundIsCurrent, ReturnHoldsRound, ActiveStatuses
    <2>5. (RewardFollowsRound(a) /\ DealIsPaid(a))'
      BY <1>2, <2>1, <2>2, RoundFacts
         DEF RewardFollowsRound, DealIsPaid, UnsettledRewards, ActiveStatuses
    <2>6. LedgerFollowsReward(a)'
      BY <2>2, RoundFacts DEF LedgerFollowsReward, UnsettledRewards
    <2>7. LedgerFollowsRound(a)'
      <3>1. status'[a] \in {"NEW", "PENDING_CLAIM", "EXPIRED"} =>
              status[a] = status'[a] /\ posted[a] = {} /\ reward[a] = "NONE"
        BY <2>2, RoundFacts DEF LedgerFollowsRound, LedgerFollowsReward, ActiveStatuses
      <3>2. status'[a] \in HeldStatuses => "claim" \in posted[a]
        BY <2>2, RoundFacts DEF LedgerFollowsRound, ActiveStatuses, HeldStatuses
      <3> QED
        BY <2>2, <3>1, <3>2 DEF LedgerFollowsRound, UnsettledRewards
    <2>8. RefundEndsRound(a)'
      BY <2>1, <2>2, <2>3, RoundFacts DEF RefundEndsRound, ActiveStatuses
    <2> QED
      BY <2>4, <2>5, <2>6, <2>7, <2>8 DEF RoundInv
  <1>5. ASSUME NEW b \in Assignments, leadOf[b] # l
        PROVE  RoundInv(b)'
    <2>1. RoundKept(b)
      BY <1>2, <1>5, DeletedRounds DEF RoundKept
    <2>2. leadOf[b] \in Leads => /\ leadStatus'[leadOf[b]] = leadStatus[leadOf[b]]
                                 /\ current'[leadOf[b]] = current[leadOf[b]]
      BY <1>3, <1>5
    <2> QED
      BY <2>1, <2>2, RoundElsewhere
  <1>6. LeadInv(l)'
    BY <1>2 DEF LeadInv
  <1>7. ASSUME NEW m \in Leads \ {l}
        PROVE  LeadInv(m)'
    <2>1. \A b \in Assignments : leadOf[b] = m => RoundKept(b)
      BY <1>2, DeletedRounds DEF RoundKept
    <2> QED
      BY <1>3, <2>1, LeadElsewhere
  <1>8. OneActive'
    BY <1>2, DeletedRounds DEF Inv, OneActive, ActiveStatuses
  <1>9. PaidOnce'
    BY <1>2, DeletedRounds DEF Inv, PaidOnce, UnsettledRewards
  <1> QED
    BY <1>4, <1>5, <1>6, <1>7, <1>8, <1>9 DEF Inv

\* The clock, the price, the supplier's wallet and the drafts.
LEMMA InvQuiet ==
  ASSUME Inv, TypeOK',
         \/ Tick \/ FreezeSupply \/ \E p \in Prices : ChangePrice(p)
         \/ \E l \in Leads : RecheckCorrection(l)
         \/ \E a \in Assignments :
              \/ CreateReturnDraft(a) \/ ReopenReturnDraft(a) \/ AddReturnEvidence(a)
              \/ ExpireReturnDraft(a) \/ SubmitReturnTooLate(a)
              \/ AssignVerification(a) \/ StartVerification(a)
              \/ \E v \in VerdictsOfTelesales : SubmitVerification(a, v)
              \/ RequireMoreEvidence(a)
         \/ UNCHANGED vars
  PROVE  Inv'
  <1>1. UNCHANGED <<leadStatus, current, leadOf, status, dealAt, posted, reward>>
    BY DEF Tick, FreezeSupply, ChangePrice, RecheckCorrection, StoreIssues,
           CreateReturnDraft, ReopenReturnDraft, AddReturnEvidence, ExpireReturnDraft,
           SubmitReturnTooLate, AssignVerification, StartVerification, SubmitVerification,
           TaskStep, RequireMoreEvidence, vars, leadVars, roundVars, moneyVars
  <1>2. \A a \in Assignments :
          /\ request'[a] \in OpenReturns => request[a] \in OpenReturns
          /\ request'[a] = "APPROVED" => request[a] = "APPROVED"
    <2>1. CASE request' = request
      BY <2>1
    <2>2. ASSUME NEW a \in Assignments,
                 \/ request' = [request EXCEPT ![a] = "DRAFT"]
                 \/ request' = [request EXCEPT ![a] = "EXPIRED"]
                 \/ request[a] \in OpenReturns /\ request' = [request EXCEPT ![a] = "REVIEWING"]
                 \/ request[a] \in OpenReturns /\ request' = [request EXCEPT ![a] = "NEED_MORE"]
          PROVE  \A b \in Assignments :
                   /\ request'[b] \in OpenReturns => request[b] \in OpenReturns
                   /\ request'[b] = "APPROVED" => request[b] = "APPROVED"
      BY <2>2 DEF Inv, TypeOK, OpenReturns
    <2>3. \/ request' = request
          \/ \E a \in Assignments :
               \/ request' = [request EXCEPT ![a] = "DRAFT"]
               \/ request' = [request EXCEPT ![a] = "EXPIRED"]
               \/ request[a] \in OpenReturns /\ request' = [request EXCEPT ![a] = "REVIEWING"]
               \/ request[a] \in OpenReturns /\ request' = [request EXCEPT ![a] = "NEED_MORE"]
      BY DEF Tick, FreezeSupply, ChangePrice, RecheckCorrection, StoreIssues,
             CreateReturnDraft, ReopenReturnDraft, AddReturnEvidence, ExpireReturnDraft,
             SubmitReturnTooLate, AssignVerification, StartVerification, SubmitVerification,
             TaskStep, RequireMoreEvidence, Reviewable, OpenReturns, vars, returnVars
    <2> QED
      BY <2>1, <2>2, <2>3
  <1> QED
    BY <1>1, <1>2, QuietStep

-----------------------------------------------------------------------------
\* The invariant holds from the start and every step keeps it.
LEMMA InitInv ==
  ASSUME Init
  PROVE  Inv
  <1>1. TypeOK
    <2>1. now \in 1..Horizon /\ price \in Prices /\ supplyFrozen \in BOOLEAN
      <3>1. now \in 1..Horizon
        BY WindowsAssumption DEF Init
      <3>2. price \in Prices
        BY DEF Init
      <3>3. supplyFrozen \in BOOLEAN
        BY DEF Init
      <3> QED
        BY <3>1, <3>2, <3>3
    <2>2. /\ leadStatus \in [Leads -> LeadStatuses]
          /\ current \in [Leads -> Assignments \cup {None}]
          /\ correction \in [Leads -> BOOLEAN] /\ issues \in [Leads -> BOOLEAN]
      BY DEF Init, LeadStatuses
    <2>3. /\ leadOf \in [Assignments -> Leads \cup {None}]
          /\ receiver \in [Assignments -> Receivers \cup {None}]
          /\ status \in [Assignments -> AssignmentStatuses]
          /\ expires \in [Assignments -> Nat] /\ dealAt \in [Assignments -> Nat]
      BY DEF Init, AssignmentStatuses
    <2>4. /\ claimedAt \in [Assignments -> Nat] /\ deadline \in [Assignments -> Nat]
          /\ paused \in [Assignments -> BOOLEAN] /\ remaining \in [Assignments -> Nat]
          /\ resumed \in [Assignments -> BOOLEAN] /\ used \in [Assignments -> Nat]
      BY DEF Init
    <2>5. /\ request \in [Assignments -> RequestStatuses]
          /\ submittedAt \in [Assignments -> Nat] /\ reviewedAt \in [Assignments -> Nat]
          /\ evidence \in [Assignments -> BOOLEAN] /\ task \in [Assignments -> TaskStatuses]
          /\ conclusion \in [Assignments -> VerdictsOfTelesales \cup {"NONE"}]
      BY DEF Init, RequestStatuses, TaskStatuses
    <2>6. /\ balance \in [Receivers -> Nat] /\ charge \in [Assignments -> Nat]
          /\ posted \in [Assignments -> SUBSET LedgerKeys]
          /\ reward \in [Assignments -> RewardStatuses]
      BY PointsAssumption DEF Init, RewardStatuses
    <2> QED
      BY <2>1, <2>2, <2>3, <2>4, <2>5, <2>6 DEF TypeOK
  <1>2. ASSUME NEW a \in Assignments
        PROVE  RoundInv(a)
    BY DEF Init, RoundInv, RoundHasLead, RoundIsCurrent, DealIsPaid, ReturnHoldsRound,
           LedgerFollowsReward, LedgerFollowsRound, RefundEndsRound, RewardFollowsRound,
           Refunds, OpenReturns, HeldStatuses, UnsettledRewards
  <1>3. ASSUME NEW l \in Leads
        PROVE  LeadInv(l)
    BY DEF Init, LeadInv
  <1>4. OneActive /\ PaidOnce
    BY DEF Init, OneActive, PaidOnce, ActiveStatuses, UnsettledRewards
  <1> QED
    BY <1>1, <1>2, <1>3, <1>4 DEF Inv

LEMMA InvStep ==
  ASSUME Inv, [Next]_vars
  PROVE  Inv'
  <1>1. TypeOK'
    BY TypeStep DEF Inv
  <1>2. ASSUME NEW l \in Leads,
               \/ \E a \in Assignments, r \in Receivers : DispatchManually(l, a, r)
               \/ TransferFromPublicPool(l) \/ LeaveForSupply(l) \/ ReturnFromSupply(l)
               \/ ReopenClosedLead(l) \/ CorrectLead(l) \/ ReleaseCorrectedLead(l)
               \/ ReleaseMisdispatchedLead(l) \/ DeleteLead(l)
        PROVE  Inv'
    BY <1>1, <1>2, InvDispatch, InvSupply, InvCorrect, InvRelease, InvDelete
  <1>3. ASSUME NEW a \in Assignments,
               \/ ClaimAssignment(a) \/ RefusePendingAssignment(a) \/ ExpireAssignment(a)
               \/ FollowUp(a) \/ Deal(a) \/ SubmitReturn(a) \/ ResubmitReturn(a)
               \/ RejectReturn(a) \/ ApproveReturn(a) \/ CorrectRegionAndRedispatch(a)
               \/ DirectInvalidReturn(a) \/ SettleDueReward(a) \/ ReverseReward(a)
        PROVE  Inv'
    BY <1>1, <1>3, InvClaim, InvBackToPool, InvFollow, InvSubmit, InvReject, InvApprove,
       InvSettle, InvReverse
  <1> QED
    BY <1>1, <1>2, <1>3, InvQuiet DEF Next

LEMMA AlwaysInv == Spec => []Inv
  <1> QED
    BY InitInv, InvStep, PTL DEF Spec

\* Every variable keeps the shape the code gives it.
THEOREM TypeCorrect == Spec => []TypeOK
  <1>1. Inv => TypeOK
    BY DEF Inv
  <1> QED
    BY <1>1, AlwaysInv, PTL

\* One round of a lead is active, whatever order claim, refusal, timeout, deal,
\* review, recall, reopening and deletion come in; the lead points at it, unless
\* it had its deal and the lead was reopened, and the lead's status follows it.
THEOREM LeadHasOneRound == Spec => []OneLiveRound
  <1>1. ASSUME Inv
        PROVE  OneLiveRound
    <2> SUFFICES ASSUME NEW l \in Leads
                 PROVE  /\ \A a, b \in RoundsOf(l) : {status[a], status[b]} \subseteq ActiveStatuses => a = b
                        /\ \A a \in RoundsOf(l) : status[a] \in ActiveStatuses =>
                             current[l] = a \/ dealAt[a] # 0
                        /\ current[l] # None => current[l] \in RoundsOf(l)
                        /\ leadStatus[l] \in {"CLAIMED", "FOLLOWING"} =>
                             \E a \in RoundsOf(l) :
                               status[a] \in {"CLAIMED", "FOLLOWING", "RETURN_PENDING"}
      BY <1>1 DEF OneLiveRound, Inv, LeadInv
    <2>1. \A a, b \in RoundsOf(l) : {status[a], status[b]} \subseteq ActiveStatuses => a = b
      BY <1>1 DEF Inv, OneActive, RoundsOf
    <2>2. \A a \in RoundsOf(l) : status[a] \in ActiveStatuses => current[l] = a \/ dealAt[a] # 0
      BY <1>1, HeldIsCurrent DEF RoundsOf
    <2>3. current[l] # None => current[l] \in RoundsOf(l)
      BY <1>1 DEF Inv, LeadInv, RoundsOf
    <2>4. leadStatus[l] \in {"CLAIMED", "FOLLOWING"} =>
            \E a \in RoundsOf(l) : status[a] \in {"CLAIMED", "FOLLOWING", "RETURN_PENDING"}
      BY <1>1 DEF Inv, LeadInv, RoundsOf
    <2> QED
      BY <2>1, <2>2, <2>3, <2>4
  <1> QED
    BY <1>1, AlwaysInv, PTL

\* No claim is refunded by two of the three paths that refund, and nothing is
\* refunded while the receiver keeps the contact.
THEOREM RefundComesOnce == Spec => []RefundedOnce
  <1>1. ASSUME Inv, NEW a \in Assignments
        PROVE  /\ Cardinality(posted[a] \cap RefundKeys) <= 1
               /\ posted[a] \cap RefundKeys # {} =>
                    "claim" \in posted[a] /\ status[a] \in {"RETURNED", "RELEASED"}
    <2>1. RefundEndsRound(a)
      BY <1>1, RoundFacts
    <2>2. Cardinality(Refunds(a)) <= 1
      <3>1. CASE Refunds(a) = {}
        BY <3>1, FS_EmptySet
      <3>2. CASE Refunds(a) # {}
        <4>1. PICK k \in Refunds(a) : Refunds(a) = {k}
          BY <2>1, <3>2 DEF RefundEndsRound
        <4>2. Cardinality({k}) = 1
          BY FS_Singleton
        <4> QED
          BY <4>1, <4>2
      <3> QED
        BY <3>1, <3>2
    <2> QED
      BY <2>1, <2>2 DEF RefundEndsRound, Refunds
  <1>2. Inv => RefundedOnce
    BY <1>1 DEF RefundedOnce
  <1> QED
    BY <1>2, AlwaysInv, PTL

\* A reward is kept exactly while its row says SETTLED.
LEMMA KeptIsSettled ==
  ASSUME Inv, NEW a \in Assignments
  PROVE  RewardKept(a) <=> reward[a] = "SETTLED"
  BY RoundFacts DEF LedgerFollowsReward, RewardKept

\* The supplier keeps no reward for a claim that was refunded, whatever order
\* deal, appeal, review, settlement job, recall and deletion come in.
THEOREM RewardNeedsTheClaim == Spec => []RewardOnlyForAStandingClaim
  <1>1. ASSUME Inv, NEW a \in Assignments, RewardKept(a)
        PROVE  "claim" \in posted[a] /\ posted[a] \cap RefundKeys = {}
    BY <1>1, RoundFacts, KeptIsSettled DEF RefundEndsRound, LedgerFollowsReward, Refunds
  <1>2. Inv => RewardOnlyForAStandingClaim
    BY <1>1 DEF RewardOnlyForAStandingClaim
  <1> QED
    BY <1>2, AlwaysInv, PTL

\* However often a lead is dispatched again, of the rewards its supplier keeps
\* one at most is for a round without a deal: another one takes a lead that was
\* reopened after a deal, whose own reward was decided by then.
THEOREM LeadIsPaidOnce == Spec => []OneRewardPerLead
  <1>1. ASSUME Inv, NEW a \in Assignments, NEW b \in Assignments, leadOf[a] = leadOf[b], a # b
        PROVE  /\ RewardKept(a) /\ RewardKept(b) => dealAt[a] # 0 \/ dealAt[b] # 0
               /\ reward[a] \in UnsettledRewards =>
                    reward[b] \notin UnsettledRewards /\ (RewardKept(b) => dealAt[b] # 0)
    <2>1. dealAt[a] # 0 \/ dealAt[b] # 0
          \/ reward[a] \notin UnsettledRewards \cup {"SETTLED"}
          \/ reward[b] \notin UnsettledRewards \cup {"SETTLED"}
      BY <1>1 DEF Inv, PaidOnce
    <2>2. (RewardKept(a) <=> reward[a] = "SETTLED") /\ (RewardKept(b) <=> reward[b] = "SETTLED")
      BY <1>1, KeptIsSettled
    <2>3. /\ dealAt[a] # 0 => reward[a] \notin UnsettledRewards
          /\ dealAt[b] # 0 => reward[b] \notin UnsettledRewards
      BY <1>1, RoundFacts DEF DealIsPaid
    <2> QED
      BY <2>1, <2>2, <2>3
  <1>2. Inv => OneRewardPerLead
    BY <1>1 DEF OneRewardPerLead, RoundsOf
  <1> QED
    BY <1>2, AlwaysInv, PTL

-----------------------------------------------------------------------------
\* The return window and the reward.  What the clock of a round and its reward
\* say goes with its return request, which is changed in other transactions.

\* A round that is not claimed has no return, and its clock has not moved.
ClockIsFresh(a) ==
  status[a] \in {"NEW", "PENDING_CLAIM"} =>
    request[a] = "NONE" /\ ~paused[a] /\ ~resumed[a] /\ used[a] = 0

\* A return under way was submitted and pauses the window, and nothing else
\* does while the receiver holds the lead; something is left of a paused window.
ReturnPausesClock(a) ==
  /\ request[a] \in OpenReturns => submittedAt[a] # 0 /\ paused[a]
  /\ status[a] \in HeldStatuses /\ paused[a] => request[a] \in OpenReturns
  /\ paused[a] => remaining[a] > 0

\* How a round follows its return.
RoundFollowsReturn(a) ==
  /\ status[a] = "RETURN_PENDING" => request[a] \in OpenReturns
  /\ request[a] = "REJECTED" => resumed[a]

\* A reward waits frozen for a return under way, and for nothing else.
RewardWaitsForReturn(a) ==
  /\ request[a] \in OpenReturns => reward[a] # "OBSERVING"
  /\ reward[a] = "FROZEN" => request[a] \in OpenReturns

\* Without a deal a reward was paid because the window was over.
ClockPaid(a) ==
  reward[a] = "SETTLED" /\ dealAt[a] = 0 =>
    request[a] \notin OpenReturns /\ (LeadOpen(a) => AppealDeadline(a) <= now)

\* What is left of the window and what was used make up the whole.
WindowKept(a) ==
  status[a] \in HeldStatuses =>
    IF paused[a] THEN remaining[a] + used[a] = AppealWindow
    ELSE AppealDeadline(a) + used[a] = now + AppealWindow

ClockInv(a) ==
  /\ ClockIsFresh(a) /\ ReturnPausesClock(a) /\ RoundFollowsReturn(a)
  /\ RewardWaitsForReturn(a) /\ ClockPaid(a) /\ WindowKept(a)

Clocks == \A a \in Assignments : ClockInv(a)

\* The step leaves everything alone that ClockInv reads of a round.
RoundUntouched(b) ==
  /\ status'[b] = status[b] /\ dealAt'[b] = dealAt[b] /\ reward'[b] = reward[b]
  /\ claimedAt'[b] = claimedAt[b] /\ deadline'[b] = deadline[b] /\ paused'[b] = paused[b]
  /\ remaining'[b] = remaining[b] /\ resumed'[b] = resumed[b] /\ used'[b] = used[b]
  /\ request'[b] = request[b] /\ submittedAt'[b] = submittedAt[b]

\* No deleted lead comes back.
NoLeadComesBack == \A b \in Assignments : LeadOpen(b)' => LeadOpen(b)

LEMMA LeadsStayOpen ==
  ASSUME TypeOK, leadOf' = leadOf, NEW l, NEW s,
         leadStatus[l] # "DELETED" \/ s = "DELETED",
         leadStatus' = [leadStatus EXCEPT ![l] = s]
  PROVE  NoLeadComesBack
  BY NoneAssumption DEF NoLeadComesBack, LeadOpen, TypeOK

\* A round that is left alone keeps its clock.
LEMMA ClockKept ==
  ASSUME NEW b \in Assignments, ClockInv(b), now' = now, RoundUntouched(b),
         LeadOpen(b)' => LeadOpen(b)
  PROVE  ClockInv(b)'
  BY DEF RoundUntouched, ClockInv, ClockIsFresh, ReturnPausesClock, RoundFollowsReturn,
         RewardWaitsForReturn, ClockPaid, WindowKept, AppealDeadline

\* A step on one round keeps the clocks when it keeps that one's.
LEMMA ClockOfOne ==
  ASSUME Clocks, now' = now, NoLeadComesBack, NEW a \in Assignments,
         \A b \in Assignments \ {a} : RoundUntouched(b),
         ClockInv(a)'
  PROVE  Clocks'
  <1> SUFFICES ASSUME NEW b \in Assignments
               PROVE  ClockInv(b)'
    BY DEF Clocks
  <1>1. CASE b = a
    BY <1>1
  <1>2. CASE b # a
    BY <1>2, ClockKept DEF Clocks, NoLeadComesBack
  <1> QED
    BY <1>1, <1>2

\* The steps that touch no round.
LEMMA ClockQuiet ==
  ASSUME TypeOK, Clocks,
         \/ FreezeSupply \/ \E p \in Prices : ChangePrice(p)
         \/ \E l \in Leads :
              \/ CorrectLead(l) \/ RecheckCorrection(l) \/ TransferFromPublicPool(l)
              \/ LeaveForSupply(l) \/ ReturnFromSupply(l) \/ ReopenClosedLead(l)
         \/ \E a \in Assignments :
              AddReturnEvidence(a) \/ AssignVerification(a) \/ StartVerification(a)
         \/ UNCHANGED vars
  PROVE  Clocks'
  <1> USE DEF leadVars, roundVars, clockVars, returnVars, moneyVars, envVars
  <1>1. /\ now' = now /\ leadOf' = leadOf
        /\ UNCHANGED <<status, dealAt, reward, clockVars, request, submittedAt>>
    BY DEF FreezeSupply, ChangePrice, CorrectLead, RecheckCorrection, StoreIssues,
       TransferFromPublicPool, LeaveForSupply, ReturnFromSupply, ReopenClosedLead,
       AddReturnEvidence, AssignVerification, StartVerification,
       TaskStep, vars
  <1>2. \/ leadStatus' = leadStatus
        \/ \E l \in Leads, s \in SupplySide \cup {"IN_SUPPLY"} :
             leadStatus[l] # "DELETED" /\ leadStatus' = [leadStatus EXCEPT ![l] = s]
    BY DEF FreezeSupply, ChangePrice, CorrectLead, RecheckCorrection, StoreIssues,
       TransferFromPublicPool, LeaveForSupply, ReturnFromSupply, ReopenClosedLead,
       AddReturnEvidence, AssignVerification, StartVerification,
       TaskStep, vars, SupplySide
  <1>3. NoLeadComesBack
    <2>1. CASE leadStatus' = leadStatus
      BY <1>1, <2>1 DEF NoLeadComesBack, LeadOpen
    <2> QED
      BY <1>1, <1>2, <2>1, LeadsStayOpen
  <1> QED
    BY <1>1, <1>3, ClockKept DEF Clocks, RoundUntouched, NoLeadComesBack

\* The clock ticks.
LEMMA ClockTick ==
  ASSUME TypeOK, Clocks, Tick
  PROVE  Clocks'
  <1> SUFFICES ASSUME NEW a \in Assignments
               PROVE  ClockInv(a)'
    BY DEF Clocks
  <1> USE DEF leadVars, roundVars, clockVars, returnVars, moneyVars, envVars
  <1>1. /\ now' = now + 1
        /\ used'[a] = IF status[a] \in HeldStatuses /\ ~paused[a] THEN used[a] + 1 ELSE used[a]
        /\ UNCHANGED <<status, dealAt, reward, claimedAt, deadline, paused, remaining,
                       resumed, request, submittedAt, leadOf, leadStatus>>
    BY DEF Tick
  <1>2. ClockInv(a) /\ now \in Nat /\ used[a] \in Nat /\ AppealDeadline(a) \in Nat
    BY DeadlineType DEF Clocks, TypeOK
  <1>3. AppealDeadline(a)' = AppealDeadline(a) /\ (LeadOpen(a)' <=> LeadOpen(a))
    BY <1>1 DEF AppealDeadline, LeadOpen
  <1>4. ClockIsFresh(a)'
    BY <1>1, <1>2 DEF ClockInv, ClockIsFresh, HeldStatuses
  <1>5. WindowKept(a)'
    BY <1>1, <1>2, <1>3, WindowsAssumption DEF ClockInv, WindowKept
  <1>6. ClockPaid(a)'
    BY <1>1, <1>2, <1>3 DEF ClockInv, ClockPaid
  <1> QED
    BY <1>1, <1>2, <1>4, <1>5, <1>6 DEF ClockInv, ReturnPausesClock, RoundFollowsReturn,
       RewardWaitsForReturn

\* Dispatch, and a dispatch that ends unclaimed.
LEMMA ClockDispatch ==
  ASSUME Inv, Clocks, NEW l \in Leads, NEW a \in Assignments, NEW r \in Receivers,
         DispatchManually(l, a, r)
  PROVE  Clocks'
  <1> USE DEF clockVars, returnVars, moneyVars, envVars
  <1>1. /\ status[a] = "NEW" /\ leadStatus[l] = "READY_DISPATCH"
        /\ status' = [status EXCEPT ![a] = "PENDING_CLAIM"]
        /\ leadOf' = [leadOf EXCEPT ![a] = l]
        /\ leadStatus' = [leadStatus EXCEPT ![l] = "DISPATCHED"]
        /\ UNCHANGED <<now, dealAt, reward, claimedAt, deadline, paused, remaining, resumed,
                       used, request, submittedAt>>
    BY DEF DispatchManually
  <1>2. TypeOK /\ ClockInv(a) /\ reward[a] = "NONE"
    BY <1>1, RoundFacts DEF Inv, Clocks, LedgerFollowsRound, LedgerFollowsReward
  <1>3. status'[a] = "PENDING_CLAIM"
    BY <1>1, <1>2 DEF TypeOK
  <1>4. ClockInv(a)'
    BY <1>1, <1>2, <1>3 DEF ClockInv, ClockIsFresh, ReturnPausesClock, RoundFollowsReturn,
       RewardWaitsForReturn, ClockPaid, WindowKept, HeldStatuses, OpenReturns
  <1>5. ASSUME NEW b \in Assignments \ {a}
        PROVE  ClockInv(b)'
    <2>1. RoundUntouched(b)
      BY <1>1, <1>2 DEF RoundUntouched, TypeOK
    <2>2. LeadOpen(b)' => LeadOpen(b)
      BY <1>1, <1>2 DEF LeadOpen, TypeOK
    <2> QED
      BY <1>1, <2>1, <2>2, ClockKept DEF Clocks
  <1> QED
    BY <1>4, <1>5 DEF Clocks

LEMMA ClockBackToPool ==
  ASSUME Inv, Clocks, NEW a \in Assignments,
         RefusePendingAssignment(a) \/ ExpireAssignment(a)
  PROVE  Clocks'
  <1> USE DEF clockVars, returnVars, moneyVars, envVars
  <1>1. PICK s \in {"RELEASED", "EXPIRED"} :
          /\ status[a] = "PENDING_CLAIM" /\ leadStatus[leadOf[a]] = "DISPATCHED"
          /\ status' = [status EXCEPT ![a] = s]
          /\ leadStatus' = [leadStatus EXCEPT ![leadOf[a]] = "READY_DISPATCH"]
          /\ UNCHANGED <<now, leadOf, dealAt, reward, claimedAt, deadline, paused, remaining,
                         resumed, used, request, submittedAt>>
    BY DEF RefusePendingAssignment, ExpireAssignment, AwaitsClaim, BackToPool
  <1>2. TypeOK /\ ClockInv(a) /\ reward[a] = "NONE"
    BY <1>1, RoundFacts DEF Inv, Clocks, LedgerFollowsRound, LedgerFollowsReward
  <1>3. status'[a] = s
    BY <1>1, <1>2 DEF TypeOK
  <1>4. ClockInv(a)'
    BY <1>1, <1>2, <1>3 DEF ClockInv, ClockIsFresh, ReturnPausesClock, RoundFollowsReturn,
       RewardWaitsForReturn, ClockPaid, WindowKept, HeldStatuses, OpenReturns
  <1>5. NoLeadComesBack
    BY <1>1, <1>2, LeadsStayOpen
  <1>6. \A b \in Assignments \ {a} : RoundUntouched(b)
    BY <1>1, <1>2 DEF RoundUntouched, TypeOK
  <1> QED
    BY <1>1, <1>4, <1>5, <1>6, ClockOfOne

\* The claim starts the window.
LEMMA ClockClaim ==
  ASSUME Inv, Clocks, NEW a \in Assignments, ClaimAssignment(a)
  PROVE  Clocks'
  <1> USE DEF clockVars, returnVars, moneyVars, envVars
  <1>1. PICK s \in {"OBSERVING", "NOT_ELIGIBLE"} :
          /\ status[a] = "PENDING_CLAIM" /\ leadStatus[leadOf[a]] = "DISPATCHED"
          /\ status' = [status EXCEPT ![a] = "CLAIMED"]
          /\ reward' = [reward EXCEPT ![a] = s]
          /\ claimedAt' = [claimedAt EXCEPT ![a] = now]
          /\ deadline' = [deadline EXCEPT ![a] = now + AppealWindow]
          /\ leadStatus' = [leadStatus EXCEPT ![leadOf[a]] = "CLAIMED"]
          /\ UNCHANGED <<now, leadOf, dealAt, paused, remaining, resumed, used, request,
                         submittedAt>>
    BY DEF ClaimAssignment, AwaitsClaim
  <1>2. TypeOK /\ ClockInv(a) /\ now \in Nat
    BY DEF Inv, Clocks, TypeOK
  <1>3. /\ status'[a] = "CLAIMED" /\ reward'[a] = s /\ claimedAt'[a] = now
        /\ request'[a] = "NONE" /\ ~paused'[a] /\ ~resumed'[a] /\ used'[a] = 0
    BY <1>1, <1>2 DEF TypeOK, ClockInv, ClockIsFresh
  <1>4. WindowKept(a)'
    BY <1>1, <1>2, <1>3, WindowsAssumption DEF WindowKept, AppealDeadline
  <1>5. ClockInv(a)'
    BY <1>1, <1>2, <1>3, <1>4 DEF ClockInv, ClockIsFresh, ReturnPausesClock,
       RoundFollowsReturn, RewardWaitsForReturn, ClockPaid, HeldStatuses, OpenReturns
  <1>6. NoLeadComesBack
    BY <1>1, <1>2, LeadsStayOpen
  <1>7. \A b \in Assignments \ {a} : RoundUntouched(b)
    BY <1>1, <1>2 DEF RoundUntouched, TypeOK
  <1> QED
    BY <1>1, <1>5, <1>6, <1>7, ClockOfOne

\* A follow-up, and a deal, which may pay the reward.
LEMMA ClockFollow ==
  ASSUME Inv, Clocks, NEW a \in Assignments, FollowUp(a) \/ Deal(a)
  PROVE  Clocks'
  <1> USE DEF clockVars, returnVars, moneyVars, envVars
  <1>1. /\ status[a] \in {"CLAIMED", "FOLLOWING"}
        /\ now' = now /\ leadOf' = leadOf
        /\ UNCHANGED <<claimedAt, deadline, paused, remaining, resumed, used, request,
                       submittedAt>>
    BY DEF FollowUp, Deal, MayFollow
  <1>2. PICK s \in {"FOLLOWING", "COMPLETED"}, t \in {"FOLLOWING", "CLOSED"} :
          /\ status' = [status EXCEPT ![a] = s]
          /\ leadStatus' = [leadStatus EXCEPT ![leadOf[a]] = t]
    BY DEF FollowUp, Deal
  <1>3. /\ TypeOK /\ ClockInv(a) /\ RoundIsCurrent(a) /\ request[a] \notin OpenReturns
        /\ now # 0
    BY <1>1, RoundFacts DEF Inv, Clocks, TypeOK, ReturnHoldsRound
  <1>4. /\ status'[a] = s /\ ~paused[a]
        /\ AppealDeadline(a)' = AppealDeadline(a)
    BY <1>1, <1>2, <1>3 DEF TypeOK, AppealDeadline, ClockInv, ReturnPausesClock, HeldStatuses
  <1>5. /\ dealAt'[a] = 0 => dealAt[a] = 0 /\ reward'[a] = reward[a]
        /\ reward'[a] \in {reward[a], "SETTLED"}
        /\ \A b \in Assignments \ {a} : dealAt'[b] = dealAt[b] /\ reward'[b] = reward[b]
    <2>1. CASE FollowUp(a)
      BY <2>1 DEF FollowUp
    <2>2. CASE Deal(a)
      <3>1. dealAt' = [dealAt EXCEPT ![a] = IF dealAt[a] = 0 THEN now ELSE dealAt[a]]
        BY <2>2 DEF Deal
      <3>2. reward' = reward \/ reward' = [reward EXCEPT ![a] = "SETTLED"]
        BY <2>2 DEF Deal, PayForDeal, PayReward
      <3> QED
        BY <1>3, <3>1, <3>2 DEF TypeOK
    <2> QED
      BY <2>1, <2>2
  <1>6. NoLeadComesBack
    BY <1>1, <1>2, <1>3, LeadsStayOpen DEF RoundIsCurrent
  <1>7. WindowKept(a)'
    BY <1>1, <1>2, <1>3, <1>4 DEF ClockInv, WindowKept, HeldStatuses
  <1>8. ClockPaid(a)'
    BY <1>1, <1>3, <1>4, <1>5, <1>6 DEF ClockInv, ClockPaid, NoLeadComesBack
  <1>9. ClockInv(a)'
    BY <1>1, <1>3, <1>4, <1>5, <1>7, <1>8 DEF ClockInv, ClockIsFresh, ReturnPausesClock,
       RoundFollowsReturn, RewardWaitsForReturn, HeldStatuses
  <1>10. \A b \in Assignments \ {a} : RoundUntouched(b)
    BY <1>1, <1>2, <1>3, <1>5 DEF RoundUntouched, TypeOK
  <1> QED
    BY <1>1, <1>6, <1>9, <1>10, ClockOfOne

\* The steps that move a return and leave its round alone.
LEMMA ClockReturn ==
  ASSUME Inv, Clocks, NEW a \in Assignments,
         \/ CreateReturnDraft(a) \/ ReopenReturnDraft(a) \/ ExpireReturnDraft(a)
         \/ SubmitReturnTooLate(a) \/ \E v \in VerdictsOfTelesales : SubmitVerification(a, v)
         \/ RequireMoreEvidence(a)
  PROVE  Clocks'
  <1> USE DEF leadVars, roundVars, clockVars, returnVars, moneyVars, envVars
  <1>1. /\ UNCHANGED <<now, leadOf, leadStatus, status, dealAt, reward, claimedAt, deadline,
                       paused, remaining, resumed, used>>
        /\ \A b \in Assignments \ {a} : request'[b] = request[b] /\ submittedAt'[b] = submittedAt[b]
    BY DEF Inv, TypeOK, CreateReturnDraft, ReopenReturnDraft, ExpireReturnDraft,
       SubmitReturnTooLate, SubmitVerification, RequireMoreEvidence, TaskStep
  <1>2. TypeOK /\ ClockInv(a) /\ AppealDeadline(a)' = AppealDeadline(a)
        /\ (LeadOpen(a)' <=> LeadOpen(a))
    BY <1>1 DEF Inv, Clocks, AppealDeadline, LeadOpen
  <1>3. \/ /\ request[a] \in {"NONE", "DRAFT", "REJECTED"} /\ request'[a] \in {"DRAFT", "EXPIRED"}
           /\ (request[a] = "NONE" => status[a] \in ReturnableStatuses)
        \/ /\ request[a] \in OpenReturns /\ request'[a] \in OpenReturns
           /\ submittedAt'[a] = submittedAt[a]
    BY <1>2 DEF TypeOK, CreateReturnDraft, ReopenReturnDraft, ExpireReturnDraft, Reviewable,
       SubmitReturnTooLate, SubmitVerification, RequireMoreEvidence, TaskStep, OpenReturns
  <1>4. ClockInv(a)'
    BY <1>1, <1>2, <1>3 DEF ClockInv, ClockIsFresh, ReturnPausesClock, RoundFollowsReturn,
       RewardWaitsForReturn, ClockPaid, WindowKept, OpenReturns, ReturnableStatuses
  <1>5. NoLeadComesBack
    BY <1>1 DEF NoLeadComesBack, LeadOpen
  <1>6. \A b \in Assignments \ {a} : RoundUntouched(b)
    BY <1>1 DEF RoundUntouched
  <1> QED
    BY <1>1, <1>4, <1>5, <1>6, ClockOfOne

\* A submission pauses the window with what is left of it.
LEMMA ClockSubmit ==
  ASSUME Inv, Clocks, NEW a \in Assignments, SubmitReturn(a) \/ ResubmitReturn(a)
  PROVE  Clocks'
  <1> USE DEF leadVars, roundVars, clockVars, returnVars, moneyVars, envVars
  <1>1. /\ OpenVerification(a) /\ LeadOpen(a)
        /\ UNCHANGED <<now, leadOf, leadStatus, dealAt, claimedAt, resumed, used>>
    BY DEF SubmitReturn, ResubmitReturn
  <1>2. TypeOK /\ ClockInv(a) /\ now \in Nat \ {0} /\ AppealDeadline(a) \in Nat
    BY DeadlineType DEF Inv, Clocks, TypeOK
  <1>3. /\ status'[a] = "RETURN_PENDING" /\ request'[a] = "VERIFYING"
        /\ reward'[a] = IF reward[a] = "OBSERVING" THEN "FROZEN" ELSE reward[a]
        /\ \A b \in Assignments \ {a} :
             status'[b] = status[b] /\ request'[b] = request[b] /\ reward'[b] = reward[b]
    BY <1>1, <1>2 DEF OpenVerification, TypeOK
  <1>4. CASE SubmitReturn(a)
    <2>1. /\ status[a] \in ReturnableStatuses /\ request[a] = "DRAFT" /\ InWindow(a)
          /\ submittedAt'[a] = now /\ deadline'[a] = AppealDeadline(a) /\ paused'[a]
          /\ remaining'[a] = AppealDeadline(a) - now
      BY <1>2, <1>4 DEF SubmitReturn, TypeOK
    <2>2. ~paused[a] /\ AppealDeadline(a) + used[a] = now + AppealWindow
      BY <1>2, <2>1 DEF ClockInv, ReturnPausesClock, WindowKept, ReturnableStatuses,
         HeldStatuses, OpenReturns
    <2>3. WindowKept(a)' /\ remaining'[a] > 0
      <3>1. used[a] \in Nat /\ used'[a] = used[a]
        BY <1>1, <1>2 DEF TypeOK
      <3> QED
        BY <1>2, <2>1, <2>2, <3>1, WindowsAssumption DEF WindowKept, InWindow
    <2>4. ~(reward'[a] = "SETTLED" /\ dealAt'[a] = 0)
      BY <1>1, <1>2, <1>3, <2>1 DEF ClockInv, ClockPaid, InWindow
    <2>5. ClockInv(a)'
      BY <1>2, <1>3, <2>1, <2>3, <2>4 DEF ClockInv, ClockIsFresh, ReturnPausesClock,
         RoundFollowsReturn, RewardWaitsForReturn, ClockPaid, OpenReturns
    <2>6. \A b \in Assignments \ {a} : RoundUntouched(b)
      <3>1. ASSUME NEW b \in Assignments \ {a}
            PROVE  /\ submittedAt'[b] = submittedAt[b] /\ deadline'[b] = deadline[b]
                   /\ paused'[b] = paused[b] /\ remaining'[b] = remaining[b]
        BY <1>2, <1>4 DEF SubmitReturn, TypeOK
      <3> QED
        BY <1>1, <1>3, <3>1 DEF RoundUntouched
    <2>7. NoLeadComesBack
      BY <1>1 DEF NoLeadComesBack, LeadOpen
    <2> QED
      BY <1>1, <2>5, <2>6, <2>7, ClockOfOne
  <1>5. CASE ResubmitReturn(a)
    <2>1. /\ request[a] = "NEED_MORE" /\ status[a] = "RETURN_PENDING"
          /\ UNCHANGED <<clockVars, submittedAt>>
      BY <1>5 DEF ResubmitReturn
    <2>2. AppealDeadline(a)' = AppealDeadline(a)
      BY <1>1, <2>1 DEF AppealDeadline
    <2>3. ClockInv(a)'
      BY <1>1, <1>2, <1>3, <2>1, <2>2 DEF ClockInv, ClockIsFresh, ReturnPausesClock,
         RoundFollowsReturn, RewardWaitsForReturn, ClockPaid, WindowKept, OpenReturns,
         HeldStatuses
    <2>4. \A b \in Assignments \ {a} : RoundUntouched(b)
      BY <1>1, <1>3, <2>1 DEF RoundUntouched
    <2>5. NoLeadComesBack
      BY <1>1 DEF NoLeadComesBack, LeadOpen
    <2> QED
      BY <1>1, <2>3, <2>4, <2>5, ClockOfOne
  <1> QED
    BY <1>4, <1>5

\* A rejection gives back what was left of the window, and pays nothing that
\* the deal does not pay.
LEMMA ClockReject ==
  ASSUME Inv, Clocks, NEW a \in Assignments, RejectReturn(a)
  PROVE  Clocks'
  <1> USE DEF leadVars, roundVars, clockVars, returnVars, moneyVars, envVars
  <1>1. /\ request[a] = "REVIEWING" /\ LeadOpen(a)
        /\ UNCHANGED <<now, leadOf, dealAt, claimedAt, remaining, used, submittedAt>>
    BY DEF RejectReturn, Reviewable
  <1>2. TypeOK /\ ClockInv(a) /\ now \in Nat /\ remaining[a] \in Nat /\ used[a] \in Nat
    BY DEF Inv, Clocks, TypeOK
  <1>3. status[a] = "RETURN_PENDING" /\ paused[a] /\ remaining[a] > 0 /\ reward[a] # "OBSERVING"
    BY <1>1, <1>2, RoundFacts DEF ReturnHoldsRound, ClockInv, ReturnPausesClock,
       RewardWaitsForReturn, OpenReturns
  <1>4. /\ request'[a] = "REJECTED" /\ status'[a] \in ReturnableStatuses
        /\ deadline'[a] = now + remaining[a] /\ ~paused'[a] /\ resumed'[a]
    BY <1>2, <1>3 DEF RejectReturn, ResumeWindow, RestoredStatus, ReturnableStatuses, TypeOK
  <1>5. AppealDeadline(a)' = now + remaining[a]
    BY <1>4 DEF AppealDeadline
  <1>6. WindowKept(a)'
    <2>1. remaining[a] + used[a] = AppealWindow
      BY <1>2, <1>3 DEF ClockInv, WindowKept, HeldStatuses
    <2> QED
      BY <1>1, <1>2, <1>4, <1>5, <2>1 DEF WindowKept
  <1>7. dealAt'[a] = 0 => ~Confirmed(a)'
    <2>1. ~WindowConfirms(a)'
      BY <1>1, <1>2, <1>3, <1>5 DEF WindowConfirms
    <2>2. ~RejectionConfirms(a)'
      BY <1>4 DEF RejectionConfirms
    <2> QED
      BY <2>1, <2>2 DEF Confirmed, DealConfirms
  <1>8. /\ reward'[a] # "FROZEN"
        /\ reward'[a] = "SETTLED" => reward[a] = "SETTLED" \/ Confirmed(a)'
        /\ \A b \in Assignments \ {a} : reward'[b] = reward[b]
    BY <1>2 DEF RejectReturn, PayReward, TypeOK, UnsettledRewards
  <1>9. ~(reward'[a] = "SETTLED" /\ dealAt'[a] = 0)
    BY <1>1, <1>2, <1>7, <1>8 DEF ClockInv, ClockPaid, OpenReturns
  <1>10. ClockInv(a)'
    BY <1>4, <1>6, <1>8, <1>9 DEF ClockInv, ClockIsFresh, ReturnPausesClock,
       RoundFollowsReturn, RewardWaitsForReturn, ClockPaid, ReturnableStatuses, OpenReturns
  <1>11. NoLeadComesBack
    <2>1. leadStatus[leadOf[a]] # "DELETED"
      BY <1>1 DEF LeadOpen
    <2>2. PICK t : leadStatus' = [leadStatus EXCEPT ![leadOf[a]] = t]
      BY DEF RejectReturn
    <2> QED
      BY <1>1, <1>2, <2>1, <2>2, LeadsStayOpen
  <1>12. ASSUME NEW b \in Assignments \ {a}
         PROVE  RoundUntouched(b)
    <2>1. status'[b] = status[b] /\ request'[b] = request[b]
      BY <1>2 DEF RejectReturn, TypeOK
    <2>2. deadline'[b] = deadline[b] /\ paused'[b] = paused[b] /\ resumed'[b] = resumed[b]
      BY <1>2, <1>3 DEF RejectReturn, ResumeWindow, TypeOK
    <2> QED
      BY <1>1, <1>8, <2>1, <2>2 DEF RoundUntouched
  <1> QED
    BY <1>1, <1>10, <1>11, <1>12, ClockOfOne

\* An approval ends the round.
LEMMA ClockApprove ==
  ASSUME Inv, Clocks, NEW a \in Assignments,
         ApproveReturn(a) \/ CorrectRegionAndRedispatch(a) \/ DirectInvalidReturn(a)
  PROVE  Clocks'
  <1> USE DEF leadVars, roundVars, clockVars, returnVars, moneyVars, envVars
  <1>1. PICK e \in {"RELEASED", "CANCELLED"}, t \in {"CLOSED", "READY_DISPATCH", "PUBLIC_POOL"} :
          Approve(a, e, t)
    BY DEF ApproveReturn, CorrectRegionAndRedispatch, DirectInvalidReturn
  <1>2. LeadOpen(a)
    BY DEF ApproveReturn, CorrectRegionAndRedispatch, DirectInvalidReturn, Reviewable
  <1>3. TypeOK /\ ClockInv(a)
    BY DEF Inv, Clocks
  <1>4. /\ UNCHANGED <<now, leadOf, dealAt, claimedAt, deadline, resumed, used, submittedAt>>
        /\ status' = [status EXCEPT ![a] = "RETURNED"]
        /\ request' = [request EXCEPT ![a] = "APPROVED"]
        /\ paused' = [paused EXCEPT ![a] = FALSE]
        /\ remaining' = [remaining EXCEPT ![a] = 0]
        /\ leadStatus' = [leadStatus EXCEPT ![leadOf[a]] = t]
    BY <1>1 DEF Approve
  <1>5. /\ reward'[a] \notin UnsettledRewards \cup {"SETTLED"}
        /\ \A b \in Assignments \ {a} : reward'[b] = reward[b]
    BY <1>1, <1>3 DEF Approve, TypeOK, UnsettledRewards
  <1>6. status'[a] = "RETURNED" /\ request'[a] = "APPROVED" /\ ~paused'[a]
    BY <1>3, <1>4 DEF TypeOK
  <1>7. ClockInv(a)'
    BY <1>5, <1>6 DEF ClockInv, ClockIsFresh, ReturnPausesClock, RoundFollowsReturn,
       RewardWaitsForReturn, ClockPaid, WindowKept, OpenReturns, HeldStatuses, UnsettledRewards
  <1>8. NoLeadComesBack
    BY <1>2, <1>3, <1>4, LeadsStayOpen DEF LeadOpen
  <1>9. \A b \in Assignments \ {a} : RoundUntouched(b)
    BY <1>3, <1>4, <1>5 DEF RoundUntouched, TypeOK
  <1> QED
    BY <1>4, <1>7, <1>8, <1>9, ClockOfOne

\* The settlement job freezes nothing: what it could freeze is frozen already.
\* It pays a reward whose window is over or whose lead was sold.
LEMMA ClockSettle ==
  ASSUME Inv, Clocks, NEW a \in Assignments, SettleDueReward(a) \/ ReverseReward(a)
  PROVE  Clocks'
  <1> USE DEF leadVars, roundVars, clockVars, returnVars, envVars
  <1>1. UNCHANGED <<now, leadOf, leadStatus, status, dealAt, claimedAt, deadline, paused,
                    remaining, resumed, used, request, submittedAt>>
    BY DEF SettleDueReward, ReverseReward
  <1>2. TypeOK /\ ClockInv(a) /\ AppealDeadline(a)' = AppealDeadline(a)
        /\ (LeadOpen(a)' <=> LeadOpen(a))
    BY <1>1 DEF Inv, Clocks, AppealDeadline, LeadOpen
  <1>3. \A b \in Assignments \ {a} : RoundUntouched(b)
    BY <1>1, <1>2 DEF SettleDueReward, ReverseReward, PayReward, RoundUntouched, TypeOK
  <1>4. NoLeadComesBack
    BY <1>1 DEF NoLeadComesBack, LeadOpen
  <1>5. CASE SettleDueReward(a)
    <2>1. reward[a] = "OBSERVING" /\ status[a] \in HeldStatuses /\ Settleable(a)
      BY <1>5 DEF SettleDueReward, SelectedAsDue
    <2>2. request[a] \notin OpenReturns /\ ~AppealActive(a) /\ status[a] # "RETURN_PENDING"
      BY <1>2, <2>1, RoundFacts DEF ClockInv, RewardWaitsForReturn, RoundFollowsReturn,
         ReturnHoldsRound, AppealActive, HeldStatuses
    <2>3. reward'[a] = "SETTLED"
      BY <1>2, <1>5, <2>2 DEF SettleDueReward, PayReward, TypeOK
    <2>4. dealAt[a] = 0 => AppealDeadline(a) <= now
      BY <1>2, <2>1, <2>2 DEF Settleable, Confirmed, DealConfirms, WindowConfirms,
         RejectionConfirms, ClockInv, RoundFollowsReturn
    <2>5. ClockInv(a)'
      BY <1>1, <1>2, <2>2, <2>3, <2>4 DEF ClockInv, ClockIsFresh, ReturnPausesClock,
         RoundFollowsReturn, RewardWaitsForReturn, ClockPaid, WindowKept
    <2> QED
      BY <1>1, <1>3, <1>4, <2>5, ClockOfOne
  <1>6. CASE ReverseReward(a)
    <2>1. reward'[a] = "REVERSED"
      BY <1>2, <1>6 DEF ReverseReward, TypeOK
    <2>2. ClockInv(a)'
      BY <1>1, <1>2, <2>1 DEF ClockInv, ClockIsFresh, ReturnPausesClock,
         RoundFollowsReturn, RewardWaitsForReturn, ClockPaid, WindowKept
    <2> QED
      BY <1>1, <1>3, <1>4, <2>2, ClockOfOne
  <1> QED
    BY <1>5, <1>6

\* The round a release takes back, and what the release does to it.
LEMMA ReleasedRound ==
  ASSUME Inv, NEW l \in Leads, ReleaseCorrectedLead(l) \/ ReleaseMisdispatchedLead(l)
  PROVE  \E a \in Assignments :
           /\ leadOf[a] = l /\ Alive(a) /\ leadStatus[l] # "DELETED" /\ Releasable(a)
           /\ UNCHANGED <<leadOf, receiver, dealAt, clockVars, charge, now, price, submittedAt>>
           /\ status' = [status EXCEPT ![a] = "RELEASED"]
           /\ reward' = [reward EXCEPT ![a] = RewardOfReleased(a)]
           /\ leadStatus' = [leadStatus EXCEPT ![l] = "READY_DISPATCH"]
           /\ \E key \in RefundKeys : UNCHANGED <<posted, balance>> \/ Refund(a, key)
           /\ \/ request' = request
              \/ request[a] = "DRAFT" /\ request' = [request EXCEPT ![a] = "EXPIRED"]
  <1>1. PICK a \in Assignments, key \in RefundKeys :
          a = current[l] /\ ReleaseForRedispatch(l, a, key)
    <2>1. current[l] \in Assignments
      BY DEF ReleaseCorrectedLead, ReleaseMisdispatchedLead, Inv, TypeOK
    <2>2. "correction" \in RefundKeys /\ "misdispatch" \in RefundKeys
      BY DEF RefundKeys
    <2> QED
      BY <2>1, <2>2 DEF ReleaseCorrectedLead, ReleaseMisdispatchedLead
  <1>2. leadOf[a] = l /\ Releasable(a)
    BY <1>1, NoneAssumption DEF Inv, LeadInv, ReleaseForRedispatch
  <1>3. Alive(a)
    BY <1>2, HeldIsCurrent DEF Releasable, ActiveStatuses
  <1>4. /\ submittedAt' = submittedAt
        /\ \/ request' = request
           \/ request[a] = "DRAFT" /\ request' = [request EXCEPT ![a] = "EXPIRED"]
    BY <1>1 DEF ReleaseCorrectedLead, ReleaseMisdispatchedLead, returnVars
  <1>5. /\ UNCHANGED <<leadOf, receiver, dealAt, clockVars, charge, now, price>>
        /\ status' = [status EXCEPT ![a] = "RELEASED"]
        /\ reward' = [reward EXCEPT ![a] = RewardOfReleased(a)]
        /\ leadStatus' = [leadStatus EXCEPT ![l] = "READY_DISPATCH"]
        /\ UNCHANGED <<posted, balance>> \/ Refund(a, key)
    BY <1>1 DEF ReleaseForRedispatch, envVars
  <1>6. leadStatus[l] # "DELETED"
    BY <1>2, <1>3 DEF Alive
  <1> QED
    BY <1>1, <1>2, <1>3, <1>4, <1>5, <1>6

LEMMA ClockRelease ==
  ASSUME Inv, Clocks, NEW l \in Leads, ReleaseCorrectedLead(l) \/ ReleaseMisdispatchedLead(l)
  PROVE  Clocks'
  <1> USE DEF clockVars
  <1>1. PICK a \in Assignments :
           /\ leadOf[a] = l /\ leadStatus[l] # "DELETED" /\ Releasable(a)
           /\ UNCHANGED <<leadOf, dealAt, clockVars, now, submittedAt>>
           /\ status' = [status EXCEPT ![a] = "RELEASED"]
           /\ reward' = [reward EXCEPT ![a] = RewardOfReleased(a)]
           /\ leadStatus' = [leadStatus EXCEPT ![l] = "READY_DISPATCH"]
           /\ \/ request' = request
              \/ request[a] = "DRAFT" /\ request' = [request EXCEPT ![a] = "EXPIRED"]
    BY ReleasedRound
  <1>2. TypeOK /\ ClockInv(a) /\ request[a] \notin OpenReturns
    BY <1>1, RoundFacts DEF Inv, Clocks, ReturnHoldsRound, Releasable
  <1>3. /\ status'[a] = "RELEASED" /\ request'[a] \in {request[a], "EXPIRED"}
        /\ reward'[a] \notin UnsettledRewards \cup {"SETTLED"}
    BY <1>1, <1>2 DEF TypeOK, RewardOfReleased, Releasable, UnsettledRewards
  <1>4. ClockInv(a)'
    BY <1>1, <1>2, <1>3 DEF ClockInv, ClockIsFresh, ReturnPausesClock, RoundFollowsReturn,
       RewardWaitsForReturn, ClockPaid, WindowKept, OpenReturns, HeldStatuses,
       UnsettledRewards, Releasable
  <1>5. NoLeadComesBack
    BY <1>1, <1>2, LeadsStayOpen
  <1>6. \A b \in Assignments \ {a} : RoundUntouched(b)
    BY <1>1, <1>2 DEF RoundUntouched, TypeOK
  <1> QED
    BY <1>1, <1>4, <1>5, <1>6, ClockOfOne

\* Deletion closes every return of the lead.
LEMMA ClockDelete ==
  ASSUME Inv, TypeOK', Clocks, NEW l \in Leads, DeleteLead(l)
  PROVE  Clocks'
  <1>1. /\ TypeOK /\ leadStatus[l] # "DELETED" /\ leadOf' = leadOf
        /\ leadStatus' = [leadStatus EXCEPT ![l] = "DELETED"]
        /\ UNCHANGED <<now, dealAt, claimedAt, deadline, paused, remaining, resumed, used,
                       submittedAt>>
    BY DEF Inv, DeleteLead, clockVars, envVars
  <1>2. ASSUME NEW b \in Assignments, leadOf[b] # l
        PROVE  ClockInv(b)'
    <2>1. RoundUntouched(b)
      BY <1>1, <1>2, DeletedRounds DEF RoundUntouched
    <2>2. LeadOpen(b)' => LeadOpen(b)
      BY <1>1, LeadsStayOpen DEF NoLeadComesBack
    <2> QED
      BY <1>1, <2>1, <2>2, ClockKept DEF Clocks
  <1>3. ASSUME NEW a \in Assignments, leadOf[a] = l
        PROVE  ClockInv(a)'
    <2>1. /\ request'[a] \notin OpenReturns
          /\ request'[a] \in {request[a], "CANCELLED"}
          /\ status'[a] = IF status[a] \in ActiveStatuses THEN "RELEASED" ELSE status[a]
          /\ reward'[a] \notin UnsettledRewards
      <3>1. request'[a] \in {request[a], "CANCELLED"}
        BY DEF DeleteLead
      <3> QED
        BY <1>3, <3>1, DeletedRounds DEF UnsettledRewards
    <2>2. ClockInv(a) /\ ~LeadOpen(a)' /\ AppealDeadline(a)' = AppealDeadline(a)
      BY <1>1, <1>3 DEF Clocks, LeadOpen, TypeOK, AppealDeadline
    <2>3. status[a] # "NEW"
      BY <1>3, RoundFacts, NoneAssumption DEF RoundHasLead
    <2>4. status'[a] \in HeldStatuses => status'[a] = status[a] /\ ~paused[a]
      BY <2>1, <2>2, RoundFacts DEF ClockInv, ReturnPausesClock, ReturnHoldsRound,
         HeldStatuses, ActiveStatuses
    <2>5. ClockIsFresh(a)' /\ RoundFollowsReturn(a)'
      BY <1>1, <2>1, <2>2, <2>3 DEF ClockInv, ClockIsFresh, RoundFollowsReturn, ActiveStatuses
    <2>6. ReturnPausesClock(a)' /\ RewardWaitsForReturn(a)' /\ ClockPaid(a)'
      BY <1>1, <2>1, <2>2, <2>4 DEF ClockInv, ReturnPausesClock, RewardWaitsForReturn,
         ClockPaid, UnsettledRewards
    <2>7. WindowKept(a)'
      BY <1>1, <2>2, <2>4 DEF ClockInv, WindowKept
    <2> QED
      BY <2>5, <2>6, <2>7 DEF ClockInv
  <1> QED
    BY <1>2, <1>3 DEF Clocks

-----------------------------------------------------------------------------
LEMMA InitClocks ==
  ASSUME Init
  PROVE  Clocks
  BY DEF Init, Clocks, ClockInv, ClockIsFresh, ReturnPausesClock, RoundFollowsReturn,
     RewardWaitsForReturn, ClockPaid, WindowKept, OpenReturns, HeldStatuses

LEMMA ClockStep ==
  ASSUME Inv, Inv', Clocks, [Next]_vars
  PROVE  Clocks'
  <1>1. TypeOK /\ TypeOK'
    BY DEF Inv
  <1>2. ASSUME NEW l \in Leads,
               \/ \E a \in Assignments, r \in Receivers : DispatchManually(l, a, r)
               \/ ReleaseCorrectedLead(l) \/ ReleaseMisdispatchedLead(l) \/ DeleteLead(l)
        PROVE  Clocks'
    BY <1>1, <1>2, ClockDispatch, ClockRelease, ClockDelete
  <1>3. ASSUME NEW a \in Assignments,
               \/ ClaimAssignment(a) \/ RefusePendingAssignment(a) \/ ExpireAssignment(a)
               \/ FollowUp(a) \/ Deal(a) \/ SubmitReturn(a) \/ ResubmitReturn(a)
               \/ RejectReturn(a) \/ ApproveReturn(a) \/ CorrectRegionAndRedispatch(a)
               \/ DirectInvalidReturn(a) \/ SettleDueReward(a) \/ ReverseReward(a)
        PROVE  Clocks'
    BY <1>3, ClockClaim, ClockBackToPool, ClockFollow, ClockSubmit, ClockReject,
       ClockApprove, ClockSettle
  <1>4. ASSUME NEW a \in Assignments,
               \/ CreateReturnDraft(a) \/ ReopenReturnDraft(a) \/ ExpireReturnDraft(a)
               \/ SubmitReturnTooLate(a)
               \/ \E v \in VerdictsOfTelesales : SubmitVerification(a, v)
               \/ RequireMoreEvidence(a)
        PROVE  Clocks'
    BY <1>4, ClockReturn
  <1>5. CASE Tick
    BY <1>1, <1>5, ClockTick
  <1> QED
    BY <1>1, <1>2, <1>3, <1>4, <1>5, ClockQuiet DEF Next

LEMMA AlwaysClocks == Spec => []Clocks
  <1> QED
    BY InitClocks, ClockStep, AlwaysInv, PTL DEF Spec

\* The receiver has its whole window, however many returns pause it.
THEOREM WindowIsWhole == Spec => []WindowIsConserved
  <1>1. Clocks => WindowIsConserved
    BY DEF Clocks, ClockInv, WindowKept, WindowIsConserved
  <1> QED
    BY <1>1, AlwaysClocks, PTL

\* A reward is frozen while, and only while, a return is open to decide it.
THEOREM FreezeGoesWithAppeal == Spec => []FrozenExactlyUnderAppeal
  <1>1. Inv /\ Clocks => FrozenExactlyUnderAppeal
    BY RoundFacts DEF Clocks, ClockInv, RewardWaitsForReturn, ReturnHoldsRound,
       FrozenExactlyUnderAppeal
  <1> QED
    BY <1>1, AlwaysInv, AlwaysClocks, PTL

\* Once the clock has paid the supplier, no return can take the payment back.
THEOREM ClockPaysLast == Spec => []ClockPaymentIsFinal
  <1>1. ASSUME Inv, Clocks, NEW a \in Assignments, RewardKept(a), dealAt[a] = 0
        PROVE  /\ request[a] \notin OpenReturns
               /\ ~(request[a] \in {"NONE", "DRAFT"} /\ LeadOpen(a) /\ now < AppealDeadline(a))
    <2>1. now \in Nat /\ AppealDeadline(a) \in Nat
      BY <1>1, DeadlineType DEF Inv, TypeOK
    <2> QED
      BY <1>1, <2>1, KeptIsSettled DEF Clocks, ClockInv, ClockPaid
  <1>2. Inv /\ Clocks => ClockPaymentIsFinal
    BY <1>1 DEF ClockPaymentIsFinal
  <1> QED
    BY <1>2, AlwaysInv, AlwaysClocks, PTL

-----------------------------------------------------------------------------
\* What a deleted lead still moves.

LEMMA NothingPosted ==
  ASSUME Inv, Inv', [Next]_vars, NEW a \in Assignments, leadOf[a] # None, ~LeadOpen(a)
  PROVE  posted'[a] \subseteq posted[a] \cup {"reverse"}
  <1> USE DEF leadVars, roundVars, clockVars, returnVars, moneyVars, envVars
  <1>1. TypeOK /\ TypeOK' /\ leadStatus[leadOf[a]] = "DELETED"
    BY DEF Inv, LeadOpen
  <1>2. ASSUME NEW c \in Assignments, NEW k, leadStatus[leadOf[c]] # "DELETED",
               posted' = posted \/ posted' = [posted EXCEPT ![c] = k]
        PROVE  posted'[a] = posted[a]
    BY <1>1, <1>2 DEF TypeOK
  <1>3. ASSUME NEW c \in Assignments, ClaimAssignment(c)
        PROVE  posted'[a] = posted[a]
    BY <1>2, <1>3 DEF ClaimAssignment, AwaitsClaim
  <1>4. ASSUME NEW c \in Assignments, Deal(c)
        PROVE  posted'[a] = posted[a]
    <2>1. leadStatus[leadOf[c]] # "DELETED"
      BY <1>4, RoundFacts DEF Deal, MayFollow, RoundIsCurrent
    <2> QED
      BY <1>2, <1>4, <2>1 DEF Deal, PayForDeal, PayReward
  <1>5. ASSUME NEW c \in Assignments, RejectReturn(c)
        PROVE  posted'[a] = posted[a]
    BY <1>2, <1>5 DEF RejectReturn, Reviewable, LeadOpen, PayReward
  <1>6. ASSUME NEW c \in Assignments,
               ApproveReturn(c) \/ CorrectRegionAndRedispatch(c) \/ DirectInvalidReturn(c)
        PROVE  posted'[a] = posted[a]
    BY <1>2, <1>6 DEF ApproveReturn, CorrectRegionAndRedispatch, DirectInvalidReturn,
       Approve, Reviewable, LeadOpen
  <1>7. ASSUME NEW c \in Assignments, SettleDueReward(c)
        PROVE  posted'[a] = posted[a]
    BY <1>2, <1>7 DEF SettleDueReward, SelectedAsDue, LeadOpen, PayReward
  <1>8. ASSUME NEW c \in Assignments, ReverseReward(c)
        PROVE  posted'[a] \subseteq posted[a] \cup {"reverse"}
    BY <1>1, <1>8 DEF ReverseReward, TypeOK
  <1>9. ASSUME NEW l \in Leads, ReleaseCorrectedLead(l) \/ ReleaseMisdispatchedLead(l)
        PROVE  posted'[a] = posted[a]
    <2>1. PICK c \in Assignments :
            /\ Alive(c)
            /\ \E key \in RefundKeys : UNCHANGED <<posted, balance>> \/ Refund(c, key)
      BY <1>9, ReleasedRound
    <2> QED
      BY <1>2, <2>1 DEF Alive, Refund
  <1>10. ASSUME NEW l \in Leads, DeleteLead(l)
         PROVE  posted'[a] = posted[a]
    <2>1. leadOf[a] # l
      BY <1>1, <1>10 DEF DeleteLead
    <2> QED
      BY <1>1, <1>10, <2>1, DeletedRounds
  <1>11. CASE posted' = posted
    BY <1>11
  <1> QED
    BY <1>3, <1>4, <1>5, <1>6, <1>7, <1>8, <1>9, <1>10, <1>11
       DEF Next, vars, Tick, FreezeSupply, ChangePrice, DispatchManually,
       TransferFromPublicPool, LeaveForSupply, ReturnFromSupply, ReopenClosedLead, CorrectLead, RecheckCorrection, StoreIssues,
       RefusePendingAssignment, ExpireAssignment, BackToPool, FollowUp, CreateReturnDraft,
       ReopenReturnDraft, AddReturnEvidence, ExpireReturnDraft, SubmitReturn,
       SubmitReturnTooLate, ResubmitReturn, AssignVerification, StartVerification,
       SubmitVerification, TaskStep, RequireMoreEvidence

\* Once a lead is deleted nothing is charged, refunded or paid for it.
THEOREM DeletionEndsThePoints == Spec => NothingPostedAfterDeletion
  <1>1. Inv /\ Inv' /\ [Next]_vars =>
          [\A a \in Assignments :
             leadOf[a] # None /\ ~LeadOpen(a) => posted'[a] \subseteq posted[a] \cup {"reverse"}]_vars
    BY NothingPosted
  <1> QED
    BY <1>1, AlwaysInv, PTL DEF Spec, NothingPostedAfterDeletion

-----------------------------------------------------------------------------
\* What is on offer to a receiver.

Pending(r) == {a \in Assignments : status[a] = "PENDING_CLAIM" /\ receiver[a] = r}

\* A receiver can pay for what is on offer to it.
Funded(r) == IsFiniteSet(Pending(r)) /\ Reserved(r) <= balance[r]

\* The arithmetic of prices.
LEMMA Distributes == \A p, m, d \in Int : p * (m + d) = p * m + p * d
  OBVIOUS

LEMMA Costs ==
  ASSUME NEW p \in Nat, NEW m \in Nat, NEW n \in Nat, m <= n
  PROVE  p * m <= p * n
  <1>1. PICK d \in Nat : n = m + d
    <2>1. n - m \in Nat /\ n = m + (n - m)
      OBVIOUS
    <2> QED
      BY <2>1
  <1>2. p * n = p * m + p * d
    BY <1>1, Distributes
  <1>3. p * d \in Nat /\ p * m \in Nat
    OBVIOUS
  <1> QED
    BY <1>2, <1>3

\* With a smaller offer, and no fewer points, it still can.
LEMMA FundedStays ==
  ASSUME TypeOK, TypeOK', NEW r \in Receivers, Funded(r), price' = price,
         Pending(r)' \subseteq Pending(r), balance[r] <= balance'[r]
  PROVE  Funded(r)'
  <1>1. IsFiniteSet(Pending(r)') /\ Cardinality(Pending(r)') <= Cardinality(Pending(r))
    BY FS_Subset DEF Funded
  <1>2. Cardinality(Pending(r)) \in Nat /\ Cardinality(Pending(r)') \in Nat
    BY <1>1, FS_CardinalityType DEF Funded
  <1>3. price \in Nat /\ balance[r] \in Nat /\ balance'[r] \in Nat
    BY PointsAssumption DEF TypeOK
  <1>5. price * Cardinality(Pending(r)') <= price * Cardinality(Pending(r))
    BY <1>1, <1>2, <1>3, Costs
  <1>6. Reserved(r) = price * Cardinality(Pending(r)) /\ Reserved(r)' = price * Cardinality(Pending(r)')
    BY DEF Reserved, Pending
  <1>7. price * Cardinality(Pending(r)) \in Nat /\ price * Cardinality(Pending(r)') \in Nat
    BY <1>2, <1>3
  <1> HIDE DEF Pending
  <1> QED
    BY <1>1, <1>3, <1>5, <1>6, <1>7 DEF Funded

\* A dispatch is made to a receiver who can pay for one more.
LEMMA FundedDispatch ==
  ASSUME TypeOK, TypeOK', NEW r \in Receivers, Funded(r), NEW l \in Leads,
         NEW a \in Assignments, NEW q \in Receivers, DispatchManually(l, a, q)
  PROVE  Funded(r)'
  <1>1. /\ status[a] = "NEW" /\ price' = price /\ balance' = balance
        /\ status' = [status EXCEPT ![a] = "PENDING_CLAIM"]
        /\ receiver' = [receiver EXCEPT ![a] = q]
    BY DEF DispatchManually, moneyVars, envVars
  <1>2. CASE r # q
    <2>1. Pending(r)' \subseteq Pending(r) /\ balance[r] <= balance'[r]
      BY <1>1, <1>2 DEF Pending, TypeOK
    <2> QED
      BY <1>1, <2>1, FundedStays
  <1>3. CASE r = q
    <2>1. Pending(r)' = Pending(r) \cup {a} /\ a \notin Pending(r)
      BY <1>1, <1>3 DEF Pending, TypeOK
    <2>2. /\ IsFiniteSet(Pending(r)')
          /\ Cardinality(Pending(r)') = Cardinality(Pending(r)) + 1
      BY <2>1, FS_AddElement DEF Funded
    <2>3. /\ Cardinality(Pending(r)) \in Nat /\ price \in Nat /\ balance[r] \in Nat
          /\ price * Cardinality(Pending(r)) \in Int
      <3>1. Cardinality(Pending(r)) \in Nat
        BY FS_CardinalityType DEF Funded
      <3>2. price \in Nat /\ balance[r] \in Nat
        BY PointsAssumption DEF TypeOK
      <3> QED
        BY <3>1, <3>2
    <2>4. Reserved(r)' = price * Cardinality(Pending(r)')
      BY <1>1 DEF Reserved, Pending
    <2>5. price * Cardinality(Pending(r)') = price * Cardinality(Pending(r)) + price
      BY <2>2, <2>3, Distributes
    <2>6. balance[r] - price * Cardinality(Pending(r)) >= price
      BY <1>3 DEF DispatchManually, AffordsAnother, Reserved, Pending
    <2> HIDE DEF Pending
    <2>7. Reserved(r)' <= balance'[r]
      BY <1>1, <2>3, <2>4, <2>5, <2>6
    <2> QED
      BY <2>2, <2>7 DEF Funded
  <1> QED
    BY <1>2, <1>3

\* The claim takes as much from the points as from what is reserved of them.
LEMMA FundedClaim ==
  ASSUME TypeOK, TypeOK', NEW r \in Receivers, Funded(r), NEW a \in Assignments,
         ClaimAssignment(a)
  PROVE  Funded(r)'
  <1>1. /\ status[a] = "PENDING_CLAIM" /\ price' = price /\ receiver' = receiver
        /\ status' = [status EXCEPT ![a] = "CLAIMED"]
        /\ balance' = [balance EXCEPT ![receiver[a]] = @ - price]
    BY DEF ClaimAssignment, AwaitsClaim, envVars
  <1>2. CASE r # receiver[a]
    <2>1. Pending(r)' \subseteq Pending(r) /\ balance[r] <= balance'[r]
      BY <1>1, <1>2 DEF Pending, TypeOK
    <2> QED
      BY <1>1, <2>1, FundedStays
  <1>3. CASE r = receiver[a]
    <2>1. Pending(r)' = Pending(r) \ {a} /\ a \in Pending(r)
      BY <1>1, <1>3 DEF Pending, TypeOK
    <2>2. /\ IsFiniteSet(Pending(r)')
          /\ Cardinality(Pending(r)') = Cardinality(Pending(r)) - 1
      BY <2>1, FS_RemoveElement DEF Funded
    <2>3. /\ Cardinality(Pending(r)) \in Nat /\ price \in Nat /\ balance[r] \in Nat
          /\ price * Cardinality(Pending(r)) \in Int /\ Cardinality(Pending(r)') \in Nat
          /\ price * Cardinality(Pending(r)') \in Int
      <3>1. Cardinality(Pending(r)) \in Nat /\ Cardinality(Pending(r)') \in Nat
        BY <2>2, FS_CardinalityType DEF Funded
      <3>2. price \in Nat /\ balance[r] \in Nat
        BY PointsAssumption DEF TypeOK
      <3> QED
        BY <3>1, <3>2
    <2>4. /\ Reserved(r)' = price * Cardinality(Pending(r)')
          /\ Reserved(r) = price * Cardinality(Pending(r))
      BY <1>1 DEF Reserved, Pending
    <2>5. price * Cardinality(Pending(r)) = price * Cardinality(Pending(r)') + price
      <3>1. Cardinality(Pending(r)) = Cardinality(Pending(r)') + 1
        BY <2>2, <2>3
      <3> QED
        BY <2>3, <3>1, Distributes
    <2>6. balance'[r] = balance[r] - price
      BY <1>1, <1>3 DEF TypeOK
    <2> HIDE DEF Pending
    <2>7. Reserved(r)' <= balance'[r]
      BY <2>3, <2>4, <2>5, <2>6 DEF Funded
    <2> QED
      BY <2>2, <2>7 DEF Funded
  <1> QED
    BY <1>2, <1>3

\* Every other step leaves the offer, or takes from it, and takes no points.
LEMMA OfferShrinks ==
  ASSUME Inv, Inv', [Next]_vars, NEW r \in Receivers,
         ~\E l \in Leads, a \in Assignments, q \in Receivers : DispatchManually(l, a, q),
         ~\E a \in Assignments : ClaimAssignment(a)
  PROVE  Pending(r)' \subseteq Pending(r) /\ balance[r] <= balance'[r]
  <1> USE DEF leadVars, roundVars, clockVars, returnVars, moneyVars, envVars
  <1>1. TypeOK /\ TypeOK' /\ balance[r] \in Nat
    BY DEF Inv, TypeOK
  <1>2. ASSUME receiver' = receiver,
               \A b \in Assignments : status'[b] = "PENDING_CLAIM" => status[b] = "PENDING_CLAIM"
        PROVE  Pending(r)' \subseteq Pending(r)
    BY <1>2 DEF Pending
  <1>3. ASSUME NEW a \in Assignments, NEW s, s # "PENDING_CLAIM",
               status' = [status EXCEPT ![a] = s]
        PROVE  \A b \in Assignments : status'[b] = "PENDING_CLAIM" => status[b] = "PENDING_CLAIM"
    BY <1>1, <1>3 DEF TypeOK
  <1>4. ASSUME NEW a \in Assignments, NEW q,
               balance' = balance \/ balance' = [balance EXCEPT ![q] = @ + charge[a]]
        PROVE  balance[r] <= balance'[r]
    <2>1. charge[a] \in Nat /\ balance \in [Receivers -> Nat]
      BY <1>1 DEF TypeOK
    <2> QED
      BY <1>4, <2>1
  <1>5. CASE UNCHANGED <<receiver, status, balance>>
    BY <1>1, <1>5 DEF Pending
  <1>6. ASSUME NEW a \in Assignments,
               \/ RefusePendingAssignment(a) \/ ExpireAssignment(a) \/ FollowUp(a) \/ Deal(a)
               \/ SubmitReturn(a) \/ ResubmitReturn(a)
        PROVE  Pending(r)' \subseteq Pending(r) /\ balance[r] <= balance'[r]
    <2>1. receiver' = receiver /\ balance' = balance
      BY <1>6 DEF RefusePendingAssignment, ExpireAssignment, BackToPool, FollowUp, Deal,
         SubmitReturn, ResubmitReturn
    <2>2. \E s \in {"RELEASED", "EXPIRED", "FOLLOWING", "COMPLETED", "RETURN_PENDING"} :
            status' = [status EXCEPT ![a] = s]
      BY <1>6 DEF RefusePendingAssignment, ExpireAssignment, BackToPool, FollowUp, Deal,
         SubmitReturn, ResubmitReturn, OpenVerification
    <2> QED
      BY <1>1, <1>2, <1>3, <2>1, <2>2
  <1>7. ASSUME NEW a \in Assignments, RejectReturn(a)
        PROVE  Pending(r)' \subseteq Pending(r) /\ balance[r] <= balance'[r]
    <2>1. receiver' = receiver /\ balance' = balance
          /\ status' = [status EXCEPT ![a] = RestoredStatus(leadOf[a])]
      BY <1>7 DEF RejectReturn
    <2>2. RestoredStatus(leadOf[a]) # "PENDING_CLAIM"
      BY DEF RestoredStatus
    <2> QED
      BY <1>1, <1>2, <1>3, <2>1, <2>2
  <1>8. ASSUME NEW a \in Assignments,
               ApproveReturn(a) \/ CorrectRegionAndRedispatch(a) \/ DirectInvalidReturn(a)
        PROVE  Pending(r)' \subseteq Pending(r) /\ balance[r] <= balance'[r]
    <2>1. /\ receiver' = receiver /\ status' = [status EXCEPT ![a] = "RETURNED"]
          /\ balance' = balance \/ balance' = [balance EXCEPT ![receiver[a]] = @ + charge[a]]
      BY <1>8 DEF ApproveReturn, CorrectRegionAndRedispatch, DirectInvalidReturn, Approve
    <2> QED
      BY <1>2, <1>3, <1>4, <2>1
  <1>9. ASSUME NEW l \in Leads, ReleaseCorrectedLead(l) \/ ReleaseMisdispatchedLead(l)
        PROVE  Pending(r)' \subseteq Pending(r) /\ balance[r] <= balance'[r]
    <2>1. PICK a \in Assignments :
            /\ receiver' = receiver /\ status' = [status EXCEPT ![a] = "RELEASED"]
            /\ \E key \in RefundKeys : UNCHANGED <<posted, balance>> \/ Refund(a, key)
      BY <1>9, ReleasedRound
    <2>2. balance' = balance \/ balance' = [balance EXCEPT ![receiver[a]] = @ + charge[a]]
      BY <2>1 DEF Refund
    <2> QED
      BY <1>2, <1>3, <1>4, <2>1, <2>2
  <1>10. ASSUME NEW l \in Leads, DeleteLead(l)
         PROVE  Pending(r)' \subseteq Pending(r) /\ balance[r] <= balance'[r]
    <2>1. receiver' = receiver /\ balance' = balance
      BY <1>10 DEF DeleteLead
    <2>2. \A b \in Assignments : status'[b] \in {status[b], "RELEASED"}
      BY <1>1, <1>10, DeletedRounds
    <2> QED
      BY <1>1, <1>2, <2>1, <2>2
  <1> QED
    BY <1>5, <1>6, <1>7, <1>8, <1>9, <1>10
       DEF Next, vars, Tick, FreezeSupply, ChangePrice, TransferFromPublicPool, LeaveForSupply,
       ReturnFromSupply, ReopenClosedLead, CorrectLead, RecheckCorrection, StoreIssues, CreateReturnDraft, ReopenReturnDraft,
       AddReturnEvidence, ExpireReturnDraft, SubmitReturnTooLate, AssignVerification,
       StartVerification, SubmitVerification, TaskStep, RequireMoreEvidence, SettleDueReward,
       ReverseReward

\* While the price stays what it is, a receiver can pay for everything on offer to it.
THEOREM OffersCanBePaid == Spec /\ [][price' = price]_price => []DispatchesAreFunded
  <1> DEFINE AllFunded == \A r \in Receivers : Funded(r)
  <1>1. Init => AllFunded
    <2> SUFFICES ASSUME Init, NEW r \in Receivers
                 PROVE  Funded(r)
      OBVIOUS
    <2>1. Pending(r) = {}
      BY DEF Init, Pending
    <2>2. IsFiniteSet(Pending(r)) /\ Cardinality(Pending(r)) = 0
      BY <2>1, FS_EmptySet
    <2>3. price \in Nat /\ balance[r] \in Nat
      BY PointsAssumption DEF Init
    <2>4. Reserved(r) = price * Cardinality(Pending(r))
      BY DEF Reserved, Pending
    <2>5. Reserved(r) <= balance[r]
      BY <2>2, <2>3, <2>4
    <2> QED
      BY <2>2, <2>5 DEF Funded
  <1>2. Inv /\ Inv' /\ AllFunded /\ [Next]_vars /\ [price' = price]_price => AllFunded'
    <2> SUFFICES ASSUME Inv, Inv', AllFunded, [Next]_vars, price' = price, NEW r \in Receivers
                 PROVE  Funded(r)'
      OBVIOUS
    <2>1. TypeOK /\ TypeOK' /\ Funded(r)
      BY DEF Inv
    <2>2. CASE \E l \in Leads, a \in Assignments, q \in Receivers : DispatchManually(l, a, q)
      BY <2>1, <2>2, FundedDispatch
    <2>3. CASE \E a \in Assignments : ClaimAssignment(a)
      BY <2>1, <2>3, FundedClaim
    <2> QED
      BY <2>1, <2>2, <2>3, OfferShrinks, FundedStays
  <1>3. AllFunded => DispatchesAreFunded
    BY DEF Funded, DispatchesAreFunded
  <1> HIDE DEF AllFunded
  <1> QED
    BY <1>1, <1>2, <1>3, AlwaysInv, PTL DEF Spec

-----------------------------------------------------------------------------
(***************************************************************************)
(* LeadLifecycle implements LeadSale.                                      *)
(***************************************************************************)

Ended == {"RETURNED", "RELEASED", "EXPIRED"}

\* How far a round came, read off its status and its ledger entries.
SaleShows(a) ==
  /\ status[a] = "NEW" => SaleOf(a) = "none"
  /\ status[a] = "PENDING_CLAIM" => SaleOf(a) = "offered"
  /\ status[a] \in HeldStatuses =>
       SaleOf(a) = IF current[leadOf[a]] = a THEN "charged" ELSE "kept"
  /\ status[a] \in Ended /\ "claim" \notin posted[a] => SaleOf(a) = "withdrawn"
  /\ status[a] \in Ended /\ "claim" \in posted[a] /\ Refunds(a) # {} => SaleOf(a) = "refunded"
  /\ status[a] \in Ended /\ "claim" \in posted[a] /\ Refunds(a) = {} => SaleOf(a) = "kept"

\* The supplier's pay, read off the row of the reward.
PayShows(a) ==
  /\ reward[a] = "SETTLED" => PayOf(a) = "paid"
  /\ reward[a] = "REVERSED" => PayOf(a) = "recovered"
  /\ reward[a] \in UnsettledRewards => PayOf(a) = "promised"
  /\ reward[a] \notin UnsettledRewards \cup {"SETTLED", "REVERSED"} => PayOf(a) = "none"

LEMMA ShownNow ==
  ASSUME Inv, NEW a \in Assignments
  PROVE  SaleShows(a) /\ PayShows(a)
  <1>1. PayShows(a)
    BY RoundFacts DEF PayShows, PayOf, LedgerFollowsReward, RewardKept, UnsettledRewards
  <1>2. SaleShows(a)
    <2>1. status[a] \in HeldStatuses => "claim" \in posted[a] /\ Refunds(a) = {}
      BY RoundFacts DEF LedgerFollowsRound, RefundEndsRound, HeldStatuses
    <2>2. ASSUME status[a] \in Ended, "claim" \in posted[a], Refunds(a) = {}
          PROVE  current[leadOf[a]] # a
      <3>1. ~Alive(a)
        BY <2>2, RoundFacts DEF RefundEndsRound, LedgerFollowsRound, Ended
      <3>2. leadOf[a] \in Leads
        BY <2>2, RoundFacts DEF RoundHasLead, Ended, Inv, TypeOK
      <3>3. current[leadOf[a]] = None
        BY <3>1, <3>2 DEF Alive, Inv, LeadInv
      <3> QED
        BY <3>3, NoneAssumption
    <2> QED
      BY <2>1, <2>2 DEF SaleShows, SaleOf, Refunds, HeldStatuses, Ended
  <1> QED
    BY <1>1, <1>2

LEMMA ShownNext ==
  ASSUME Inv', NEW a \in Assignments
  PROVE  (SaleShows(a) /\ PayShows(a))'
  <1>1. (/\ LedgerFollowsReward(a) /\ LedgerFollowsRound(a)
         /\ RefundEndsRound(a) /\ RoundHasLead(a))'
    BY DEF Inv, RoundInv
  <1>2. PayShows(a)'
    BY <1>1 DEF PayShows, PayOf, LedgerFollowsReward, RewardKept, UnsettledRewards
  <1>3. SaleShows(a)'
    <2>1. (status[a] \in HeldStatuses => "claim" \in posted[a] /\ Refunds(a) = {})'
      BY <1>1 DEF LedgerFollowsRound, RefundEndsRound, HeldStatuses
    <2>2. (status[a] \in Ended /\ "claim" \in posted[a] /\ Refunds(a) = {} =>
            current[leadOf[a]] # a)'
      BY <1>1, NoneAssumption
         DEF RefundEndsRound, LedgerFollowsRound, Ended, Alive, RoundHasLead, Inv, LeadInv, TypeOK
    <2> QED
      BY <2>1, <2>2 DEF SaleShows, SaleOf, Refunds, HeldStatuses, Ended
  <1> QED
    BY <1>2, <1>3

-----------------------------------------------------------------------------
\* What may become of one round in the sale while the others stay.
RoundStep(a) ==
  \/ SaleOf(a)' = SaleOf(a) /\ PayOf(a)' = PayOf(a)
  \/ SaleOf(a) = "offered" /\ SaleOf(a)' = "withdrawn" /\ PayOf(a)' = PayOf(a)
  \/ SaleOf(a) = "offered" /\ SaleOf(a)' = "charged" /\ PayOf(a)' \in {PayOf(a), "promised"}
  \/ /\ SaleOf(a) = "charged" /\ Alive(a) /\ SaleOf(a)' = "kept"
     /\ PayOf(a) # "promised" /\ PayOf(a)' = PayOf(a)
  \/ /\ SaleOf(a) = "charged" /\ Alive(a) /\ SaleOf(a)' = "charged"
     /\ PayOf(a) = "promised" /\ PayOf(a)' = "paid"
  \/ SaleOf(a)' = SaleOf(a) /\ PayOf(a) = "paid" /\ PayOf(a)' = "recovered"

\* A round whose rows stay shows the same, when its lead points at it no less
\* and no more than before.
LEMMA ShowsTheSame ==
  ASSUME Inv, NEW b \in Assignments,
         leadOf'[b] = leadOf[b], status'[b] = status[b],
         posted'[b] = posted[b], reward'[b] = reward[b],
         leadOf[b] \in Leads => (current'[leadOf[b]] = b <=> current[leadOf[b]] = b)
  PROVE  SaleOf(b)' = SaleOf(b) /\ PayOf(b)' = PayOf(b)
  <1>1. PayOf(b)' = PayOf(b)
    BY DEF PayOf, RewardKept
  <1>2. status[b] # "NEW" => leadOf[b] \in Leads
    BY RoundFacts DEF RoundHasLead, Inv, TypeOK
  <1> QED
    BY <1>1, <1>2 DEF SaleOf

\* A step that changes one round, and no lead's being there, is a step of the
\* sale when what becomes of that round is.
LEMMA OneRoundSale ==
  ASSUME Inv, NEW a \in Assignments,
         leadOf' = leadOf, receiver' = receiver,
         \/ current' = current
         \/ /\ current[leadOf[a]] \in {a, None}
            /\ current' = [current EXCEPT ![leadOf[a]] = None],
         \A m \in Leads : leadStatus'[m] = "DELETED" <=> leadStatus[m] = "DELETED",
         \A b \in Assignments \ {a} :
           status'[b] = status[b] /\ posted'[b] = posted[b] /\ reward'[b] = reward[b],
         RoundStep(a)
  PROVE  [Sale!SaleNext]_(Sale!saleVars)
  <1> DEFINE sale == [b \in Assignments |-> SaleOf(b)]
             pay == [b \in Assignments |-> PayOf(b)]
             gone == {m \in Leads : leadStatus[m] = "DELETED"}
  <1>1. gone' = gone
    OBVIOUS
  <1>2. \A b \in Assignments \ {a} : SaleOf(b)' = SaleOf(b) /\ PayOf(b)' = PayOf(b)
    <2> SUFFICES ASSUME NEW b \in Assignments \ {a}
                 PROVE  SaleOf(b)' = SaleOf(b) /\ PayOf(b)' = PayOf(b)
      OBVIOUS
    <2>1. leadOf[b] \in Leads => (current'[leadOf[b]] = b <=> current[leadOf[b]] = b)
      BY NoneAssumption DEF Inv, TypeOK
    <2> QED
      BY <2>1, ShowsTheSame
  <1>3. /\ sale' = [sale EXCEPT ![a] = SaleOf(a)']
        /\ pay' = [pay EXCEPT ![a] = PayOf(a)']
        /\ sale[a] = SaleOf(a) /\ pay[a] = PayOf(a)
    BY <1>2
  <1>4. Alive(a) => leadOf[a] \notin gone
    BY DEF Alive
  <1> HIDE DEF sale, pay, gone
  <1>5. /\ SaleOf(a)' = SaleOf(a) => sale' = sale
        /\ PayOf(a)' = PayOf(a) => pay' = pay
    BY <1>3 DEF sale, pay
  <1>6. a \in Assignments /\ leadOf' = leadOf /\ receiver' = receiver
    OBVIOUS
  <1>7. CASE SaleOf(a)' = SaleOf(a) /\ PayOf(a)' = PayOf(a)
    <2>1. UNCHANGED Sale!saleVars
      BY <1>1, <1>5, <1>6, <1>7 DEF Sale!saleVars, sale, pay, gone
    <2> QED
      BY <2>1
  <1>8. CASE SaleOf(a) = "offered" /\ SaleOf(a)' = "withdrawn" /\ PayOf(a)' = PayOf(a)
    <2>1. Sale!Withdraw(a)
      BY <1>1, <1>3, <1>5, <1>6, <1>8 DEF Sale!Withdraw, sale, pay, gone
    <2> QED
      BY <2>1 DEF Sale!SaleNext
  <1>9. CASE SaleOf(a) = "offered" /\ SaleOf(a)' = "charged" /\ PayOf(a)' \in {PayOf(a), "promised"}
    <2>1. Sale!Charge(a)
      BY <1>1, <1>3, <1>5, <1>6, <1>9 DEF Sale!Charge, sale, pay, gone
    <2> QED
      BY <2>1 DEF Sale!SaleNext
  <1>10. CASE /\ SaleOf(a) = "charged" /\ Alive(a) /\ SaleOf(a)' = "kept"
              /\ PayOf(a) # "promised" /\ PayOf(a)' = PayOf(a)
    <2>1. Sale!Keep(a)
      BY <1>1, <1>3, <1>4, <1>5, <1>6, <1>10 DEF Sale!Keep, sale, pay, gone
    <2> QED
      BY <2>1 DEF Sale!SaleNext
  <1>11. CASE /\ SaleOf(a) = "charged" /\ Alive(a) /\ SaleOf(a)' = "charged"
              /\ PayOf(a) = "promised" /\ PayOf(a)' = "paid"
    <2>1. Sale!PaySupplier(a)
      BY <1>1, <1>3, <1>4, <1>5, <1>6, <1>11 DEF Sale!PaySupplier, sale, pay, gone
    <2> QED
      BY <2>1 DEF Sale!SaleNext
  <1>12. CASE SaleOf(a)' = SaleOf(a) /\ PayOf(a) = "paid" /\ PayOf(a)' = "recovered"
    <2>1. Sale!Recover(a)
      BY <1>1, <1>3, <1>5, <1>6, <1>12 DEF Sale!Recover, sale, pay, gone
    <2> QED
      BY <2>1 DEF Sale!SaleNext
  <1> QED
    BY <1>7, <1>8, <1>9, <1>10, <1>11, <1>12 DEF RoundStep

\* A refund that takes the lead from the active round, and from a completed one
\* the lead may point at, is a refund of the sale.
LEMMA ActiveRefund ==
  ASSUME Inv, NEW a \in Assignments, status[a] \in ActiveStatuses,
         leadOf' = leadOf, receiver' = receiver,
         current' = [current EXCEPT ![leadOf[a]] = None],
         \A m \in Leads : leadStatus'[m] = "DELETED" <=> leadStatus[m] = "DELETED",
         \A b \in Assignments \ {a} :
           status'[b] = status[b] /\ posted'[b] = posted[b] /\ reward'[b] = reward[b],
         SaleOf(a) \in {"charged", "kept"}, SaleOf(a)' = "refunded",
         PayOf(a)' = IF PayOf(a) = "promised" THEN "none"
                     ELSE IF PayOf(a) = "paid" THEN "recovered" ELSE PayOf(a)
  PROVE  [Sale!SaleNext]_(Sale!saleVars)
  <1> DEFINE sale == [b \in Assignments |-> SaleOf(b)]
             pay == [b \in Assignments |-> PayOf(b)]
             gone == {m \in Leads : leadStatus[m] = "DELETED"}
  <1>1. leadOf[a] \in Leads /\ gone' = gone /\ leadOf[a] \notin gone
    BY HeldIsCurrent DEF Alive
  <1>2. ASSUME NEW b \in Assignments \ {a}
        PROVE  /\ leadOf[b] = leadOf[a] => SaleOf(b) # "offered"
               /\ leadOf[b] = leadOf[a] /\ SaleOf(b) = "charged" => PayOf(b) # "promised"
               /\ SaleOf(b)' = IF leadOf[b] = leadOf[a] /\ SaleOf(b) = "charged"
                               THEN "kept" ELSE SaleOf(b)
               /\ PayOf(b)' = PayOf(b)
    <2>1. CASE leadOf[b] # leadOf[a]
      <3>1. leadOf[b] \in Leads => current'[leadOf[b]] = current[leadOf[b]]
        BY <2>1 DEF Inv, TypeOK
      <3> QED
        BY <2>1, <3>1, ShowsTheSame
    <2>2. CASE leadOf[b] = leadOf[a]
      <3>1. status[b] \notin ActiveStatuses /\ status[b] # "NEW"
        BY <1>1, <2>2, OthersEnded, RoundFacts, NoneAssumption DEF RoundHasLead
      <3>2. SaleOf(b) # "offered"
        BY <3>1 DEF SaleOf, ActiveStatuses
      <3>3. current'[leadOf[b]] # b
        BY <1>1, <2>2, NoneAssumption DEF Inv, TypeOK
      <3>4. CASE current[leadOf[b]] = b
        <4>1. status[b] = "COMPLETED"
          BY <1>1, <2>2, <3>1, <3>4, NoneAssumption DEF Inv, LeadInv, HeldStatuses, ActiveStatuses
        <4>2. reward[b] \notin UnsettledRewards
          BY <4>1, RoundFacts DEF RoundIsCurrent, DealIsPaid
        <4>3. SaleOf(b) = "charged" /\ PayOf(b) # "promised"
          BY <3>4, <4>1, <4>2, ShownNow DEF SaleShows, PayShows, HeldStatuses
        <4>4. SaleOf(b)' = "kept" /\ PayOf(b)' = PayOf(b)
          <5>1. "claim" \in posted[b] /\ posted[b] \cap RefundKeys = {}
            BY <4>1, RoundFacts DEF LedgerFollowsRound, RefundEndsRound, Refunds, HeldStatuses
          <5> QED
            BY <3>3, <4>1, <5>1 DEF SaleOf, PayOf, RewardKept
        <4> QED
          BY <2>2, <4>3, <4>4
      <3>5. CASE current[leadOf[b]] # b
        <4>1. SaleOf(b) # "charged"
          BY <3>5 DEF SaleOf
        <4>2. SaleOf(b)' = SaleOf(b) /\ PayOf(b)' = PayOf(b)
          BY <3>3, <3>5, ShowsTheSame
        <4> QED
          BY <3>2, <4>1, <4>2
      <3> QED
        BY <3>2, <3>4, <3>5
    <2> QED
      BY <2>1, <2>2
  <1>3. /\ sale[a] \in {"charged", "kept"}
        /\ \A b \in Assignments \ {a} : leadOf[b] = leadOf[a] =>
             sale[b] # "offered" /\ (sale[b] = "charged" => pay[b] # "promised")
        /\ sale' = [b \in Assignments |->
                      IF b = a THEN "refunded"
                      ELSE IF leadOf[b] = leadOf[a] /\ sale[b] = "charged" THEN "kept" ELSE sale[b]]
        /\ pay' = [pay EXCEPT ![a] = IF @ = "promised" THEN "none"
                                     ELSE IF @ = "paid" THEN "recovered" ELSE @]
    BY <1>2
  <1> HIDE DEF sale, pay, gone
  <1>4. Sale!RefundSale(a)
    BY <1>1, <1>3 DEF Sale!RefundSale, Sale!RoundsOfSale, sale, pay, gone
  <1> QED
    BY <1>4 DEF Sale!SaleNext

-----------------------------------------------------------------------------
\* The transactions, one by one.

\* The claim charges the receiver and may promise the supplier a reward.
LEMMA ClaimIsCharge ==
  ASSUME Inv, Inv', NEW a \in Assignments, ClaimAssignment(a)
  PROVE  [Sale!SaleNext]_(Sale!saleVars)
  <1>1. /\ status[a] = "PENDING_CLAIM"
        /\ leadOf' = leadOf /\ receiver' = receiver /\ current' = current
        /\ current[leadOf[a]] = a
        /\ status' = [status EXCEPT ![a] = "CLAIMED"]
        /\ posted' = [posted EXCEPT ![a] = @ \cup {"claim"}]
        /\ \E s \in {"OBSERVING", "NOT_ELIGIBLE"} : reward' = [reward EXCEPT ![a] = s]
    BY DEF ClaimAssignment, AwaitsClaim
  <1>2. \A m \in Leads : leadStatus'[m] = "DELETED" <=> leadStatus[m] = "DELETED"
    <2>1. leadStatus' = [leadStatus EXCEPT ![leadOf[a]] = "CLAIMED"] /\ Alive(a)
      BY <1>1, HeldIsCurrent DEF ClaimAssignment, ActiveStatuses
    <2> QED
      BY <2>1 DEF Alive, Inv, TypeOK
  <1>3. /\ status'[a] = "CLAIMED" /\ reward'[a] \in {"OBSERVING", "NOT_ELIGIBLE"}
        /\ reward[a] = "NONE"
        /\ \A b \in Assignments \ {a} :
             status'[b] = status[b] /\ posted'[b] = posted[b] /\ reward'[b] = reward[b]
    BY <1>1, RoundFacts DEF Inv, TypeOK, LedgerFollowsRound, LedgerFollowsReward
  <1>4. RoundStep(a)
    BY <1>1, <1>3, ShownNow, ShownNext
       DEF SaleShows, PayShows, RoundStep, HeldStatuses, UnsettledRewards
  <1> QED
    BY <1>1, <1>2, <1>3, <1>4, OneRoundSale

\* A refusal and a timeout withdraw the offer.
LEMMA BackToPoolIsWithdraw ==
  ASSUME Inv, Inv', NEW a \in Assignments, RefusePendingAssignment(a) \/ ExpireAssignment(a)
  PROVE  [Sale!SaleNext]_(Sale!saleVars)
  <1>1. /\ status[a] = "PENDING_CLAIM"
        /\ leadOf' = leadOf /\ receiver' = receiver /\ posted' = posted /\ reward' = reward
        /\ \E s \in {"RELEASED", "EXPIRED"} : status' = [status EXCEPT ![a] = s]
        /\ leadStatus' = [leadStatus EXCEPT ![leadOf[a]] = "READY_DISPATCH"]
        /\ current[leadOf[a]] = a /\ current' = [current EXCEPT ![leadOf[a]] = None]
    BY DEF RefusePendingAssignment, ExpireAssignment, AwaitsClaim, BackToPool, moneyVars
  <1>2. \A m \in Leads : leadStatus'[m] = "DELETED" <=> leadStatus[m] = "DELETED"
    <2>1. Alive(a)
      BY <1>1, HeldIsCurrent DEF ActiveStatuses
    <2> QED
      BY <1>1, <2>1 DEF Alive, Inv, TypeOK
  <1>3. /\ status'[a] \in {"RELEASED", "EXPIRED"} /\ posted'[a] = {} /\ reward'[a] = reward[a]
        /\ \A b \in Assignments \ {a} :
             status'[b] = status[b] /\ posted'[b] = posted[b] /\ reward'[b] = reward[b]
    BY <1>1, RoundFacts DEF Inv, TypeOK, LedgerFollowsRound
  <1>4. RoundStep(a)
    <2>1. SaleOf(a) = "offered" /\ SaleOf(a)' = "withdrawn"
      BY <1>1, <1>3, ShownNow, ShownNext DEF SaleShows, Ended
    <2>2. PayOf(a)' = PayOf(a)
      BY <1>1 DEF PayOf, RewardKept
    <2> QED
      BY <2>1, <2>2 DEF RoundStep
  <1> QED
    BY <1>1, <1>2, <1>3, <1>4, OneRoundSale

\* While the receiver holds the round, its sale stands; a deal, the settlement
\* job and a rejected return may pay the supplier.
LEMMA HeldStaysCharged ==
  ASSUME Inv, Inv', NEW a \in Assignments,
         \/ FollowUp(a) \/ Deal(a) \/ SettleDueReward(a) \/ RejectReturn(a)
         \/ SubmitReturn(a) \/ ResubmitReturn(a)
  PROVE  [Sale!SaleNext]_(Sale!saleVars)
  <1>1. status[a] \in HeldStatuses /\ Alive(a)
    <2>1. CASE FollowUp(a) \/ Deal(a)
      BY <2>1, HeldIsCurrent DEF FollowUp, Deal, MayFollow, HeldStatuses, ActiveStatuses
    <2>2. CASE SettleDueReward(a)
      BY <2>2 DEF SettleDueReward, SelectedAsDue, LeadOpen, Alive
    <2>3. CASE RejectReturn(a)
      BY <2>3, RoundFacts DEF RejectReturn, Reviewable, ReturnHoldsRound, OpenReturns,
         HeldStatuses, LeadOpen, Alive
    <2>4. CASE SubmitReturn(a) \/ ResubmitReturn(a)
      BY <2>4 DEF SubmitReturn, ResubmitReturn, LeadOpen, ReturnableStatuses, HeldStatuses, Alive
    <2> QED
      BY <2>1, <2>2, <2>3, <2>4
  <1>2. leadOf' = leadOf /\ receiver' = receiver /\ current' = current
    BY DEF FollowUp, Deal, SettleDueReward, RejectReturn, SubmitReturn, ResubmitReturn,
           roundVars, leadVars
  <1>3. \/ status' = status
        \/ \E s \in HeldStatuses : status' = [status EXCEPT ![a] = s]
    BY DEF FollowUp, Deal, SettleDueReward, RejectReturn, SubmitReturn, ResubmitReturn,
           OpenVerification, RestoredStatus, HeldStatuses, roundVars
  <1>4. \/ posted' = posted /\ reward' = reward
        \/ /\ posted' = posted /\ reward[a] \in UnsettledRewards
           /\ \E s \in UnsettledRewards : reward' = [reward EXCEPT ![a] = s]
        \/ /\ reward[a] \in UnsettledRewards
           /\ reward' = [reward EXCEPT ![a] = "SETTLED"]
           /\ posted' = [posted EXCEPT ![a] = @ \cup {"settle"}]
    <2>1. CASE FollowUp(a)
      BY <2>1 DEF FollowUp, moneyVars
    <2>2. CASE Deal(a)
      BY <2>2 DEF Deal, PayForDeal, PayReward, UnsettledRewards
    <2>3. CASE SettleDueReward(a)
      BY <2>3 DEF SettleDueReward, SelectedAsDue, PayReward, UnsettledRewards
    <2>4. CASE RejectReturn(a)
      <3>1. CASE reward[a] = "FROZEN" \/ reward[a] \in UnsettledRewards
        BY <2>4, <3>1 DEF RejectReturn, PayReward, UnsettledRewards
      <3>2. CASE reward[a] \notin UnsettledRewards
        BY <2>4, <3>2 DEF RejectReturn, UnsettledRewards, Inv, TypeOK
      <3> QED
        BY <3>1, <3>2
    <2>5. CASE SubmitReturn(a) \/ ResubmitReturn(a)
      BY <2>5 DEF SubmitReturn, ResubmitReturn, OpenVerification, UnsettledRewards, Inv, TypeOK
    <2> QED
      BY <2>1, <2>2, <2>3, <2>4, <2>5
  <1>5. \A m \in Leads : leadStatus'[m] = "DELETED" <=> leadStatus[m] = "DELETED"
    <2>1. \/ leadStatus' = leadStatus
          \/ \E s \in LeadStatuses \ {"DELETED"} :
               leadStatus' = [leadStatus EXCEPT ![leadOf[a]] = s]
      BY DEF FollowUp, Deal, SettleDueReward, RejectReturn, SubmitReturn, ResubmitReturn,
             LeadStatuses, leadVars
    <2> QED
      BY <1>1, <2>1 DEF Alive, Inv, TypeOK
  <1>6. /\ status'[a] \in HeldStatuses
        /\ \A b \in Assignments \ {a} :
             status'[b] = status[b] /\ posted'[b] = posted[b] /\ reward'[b] = reward[b]
        /\ \/ reward'[a] = reward[a] /\ posted'[a] = posted[a]
           \/ reward[a] \in UnsettledRewards /\ reward'[a] \in UnsettledRewards
           \/ reward[a] \in UnsettledRewards /\ reward'[a] = "SETTLED"
    BY <1>1, <1>3, <1>4 DEF Inv, TypeOK
  <1>7. RoundStep(a)
    <2>1. SaleOf(a)' = SaleOf(a)
      BY <1>1, <1>2, <1>6, ShownNow, ShownNext DEF SaleShows
    <2>2. \/ PayOf(a)' = PayOf(a)
          \/ SaleOf(a) = "charged" /\ PayOf(a) = "promised" /\ PayOf(a)' = "paid"
      <3>1. CASE reward'[a] = reward[a] /\ posted'[a] = posted[a]
        BY <3>1 DEF PayOf, RewardKept
      <3>2. CASE reward[a] \in UnsettledRewards /\ reward'[a] \in UnsettledRewards
        BY <3>2, ShownNow, ShownNext DEF PayShows
      <3>3. CASE reward[a] \in UnsettledRewards /\ reward'[a] = "SETTLED"
        <4>1. current[leadOf[a]] = a
          BY <1>1, <3>3, RoundFacts, RewardIsActive DEF DealIsPaid, Inv, TypeOK
        <4> QED
          BY <1>1, <3>3, <4>1, ShownNow, ShownNext DEF SaleShows, PayShows
      <3> QED
        BY <1>6, <3>1, <3>2, <3>3
    <2> QED
      BY <1>1, <2>1, <2>2 DEF RoundStep
  <1> QED
    BY <1>2, <1>5, <1>6, <1>7, OneRoundSale

\* An approved return refunds the sale and ends the pay in one step.
LEMMA ApprovalIsRefund ==
  ASSUME Inv, Inv', NEW a \in Assignments,
         ApproveReturn(a) \/ CorrectRegionAndRedispatch(a) \/ DirectInvalidReturn(a)
  PROVE  [Sale!SaleNext]_(Sale!saleVars)
  <1>1. PICK end \in {"RELEASED", "CANCELLED"}, s \in {"CLOSED", "READY_DISPATCH", "PUBLIC_POOL"} :
          Approve(a, end, s) /\ request[a] \in OpenReturns
    BY DEF ApproveReturn, CorrectRegionAndRedispatch, DirectInvalidReturn, Reviewable, OpenReturns
  <1>2. status[a] = "RETURN_PENDING" /\ Alive(a)
    <2>1. status[a] = "RETURN_PENDING"
      BY <1>1, RoundFacts DEF ReturnHoldsRound
    <2> QED
      BY <2>1, HeldIsCurrent DEF ActiveStatuses
  <1>3. /\ leadOf' = leadOf /\ receiver' = receiver
        /\ leadStatus' = [leadStatus EXCEPT ![leadOf[a]] = s]
        /\ current' = [current EXCEPT ![leadOf[a]] = None]
        /\ status' = [status EXCEPT ![a] = "RETURNED"]
        /\ posted' = [posted EXCEPT ![a] = @ \cup {"return"} \cup ReversalOf(a)]
        /\ reward' = [reward EXCEPT ![a] =
                        CASE @ \in UnsettledRewards -> "CANCELLED"
                          [] @ = "SETTLED"          -> "REVERSED"
                          [] OTHER                  -> @]
    BY <1>1 DEF Approve
  <1>4. \A m \in Leads : leadStatus'[m] = "DELETED" <=> leadStatus[m] = "DELETED"
    BY <1>2, <1>3 DEF Alive, Inv, TypeOK
  <1>5. \A b \in Assignments \ {a} :
          status'[b] = status[b] /\ posted'[b] = posted[b] /\ reward'[b] = reward[b]
    BY <1>3 DEF Inv, TypeOK
  <1>6. SaleOf(a) \in {"charged", "kept"}
    BY <1>2, ShownNow DEF SaleShows, HeldStatuses
  <1>7. SaleOf(a)' = "refunded"
    <2>1. status'[a] = "RETURNED" /\ "return" \in posted'[a] /\ "claim" \in posted'[a]
      BY <1>2, <1>3, RoundFacts DEF Inv, TypeOK, LedgerFollowsRound, HeldStatuses
    <2>2. Refunds(a)' # {}
      BY <2>1 DEF Refunds, RefundKeys
    <2> QED
      BY <2>1, <2>2, ShownNext DEF SaleShows, Ended
  <1>8. PayOf(a)' = IF PayOf(a) = "promised" THEN "none"
                    ELSE IF PayOf(a) = "paid" THEN "recovered" ELSE PayOf(a)
    <2>1. CASE reward[a] \in UnsettledRewards
      <3>1. reward'[a] = "CANCELLED"
        BY <1>3, <2>1 DEF Inv, TypeOK, UnsettledRewards
      <3> QED
        BY <2>1, <3>1, ShownNow, ShownNext DEF PayShows, UnsettledRewards
    <2>2. CASE reward[a] = "SETTLED"
      <3>1. reward'[a] = "REVERSED"
        BY <1>3, <2>2 DEF Inv, TypeOK, UnsettledRewards
      <3> QED
        BY <2>2, <3>1, ShownNow, ShownNext DEF PayShows, UnsettledRewards
    <2>3. CASE reward[a] \notin UnsettledRewards \cup {"SETTLED"}
      <3>1. reward'[a] = reward[a]
        BY <1>3, <2>3 DEF Inv, TypeOK
      <3> QED
        BY <2>3, <3>1, ShownNow, ShownNext DEF PayShows
    <2> QED
      BY <2>1, <2>2, <2>3
  <1> QED
    BY <1>2, <1>3, <1>4, <1>5, <1>6, <1>7, <1>8, ActiveRefund DEF ActiveStatuses

\* A recall for another dispatch withdraws an offer or refunds a sale.
LEMMA ReleaseIsWithdrawOrRefund ==
  ASSUME Inv, Inv', NEW l \in Leads,
         ReleaseCorrectedLead(l) \/ ReleaseMisdispatchedLead(l)
  PROVE  [Sale!SaleNext]_(Sale!saleVars)
  <1>1. PICK a \in Assignments, key \in RefundKeys :
          a = current[l] /\ ReleaseForRedispatch(l, a, key)
    <2>1. current[l] \in Assignments
      BY DEF ReleaseCorrectedLead, ReleaseMisdispatchedLead, Inv, TypeOK
    <2>2. "correction" \in RefundKeys /\ "misdispatch" \in RefundKeys
      BY DEF RefundKeys
    <2> QED
      BY <2>1, <2>2 DEF ReleaseCorrectedLead, ReleaseMisdispatchedLead
  <1>2. /\ leadOf[a] = l /\ status[a] \in {"PENDING_CLAIM", "CLAIMED", "FOLLOWING"}
        /\ reward[a] # "SETTLED" /\ Alive(a)
    <2>1. leadOf[a] = l
      BY <1>1, NoneAssumption DEF Inv, LeadInv
    <2>2. status[a] \in {"PENDING_CLAIM", "CLAIMED", "FOLLOWING"} /\ reward[a] # "SETTLED"
      BY <1>1 DEF ReleaseForRedispatch, Releasable
    <2> QED
      BY <2>1, <2>2, HeldIsCurrent DEF ActiveStatuses
  <1>3. /\ leadOf' = leadOf /\ receiver' = receiver
        /\ leadStatus' = [leadStatus EXCEPT ![l] = "READY_DISPATCH"]
        /\ current' = [current EXCEPT ![l] = None]
        /\ status' = [status EXCEPT ![a] = "RELEASED"]
        /\ reward' = [reward EXCEPT ![a] = RewardOfReleased(a)]
        /\ \/ status[a] = "PENDING_CLAIM" /\ posted' = posted
           \/ /\ status[a] # "PENDING_CLAIM" /\ "claim" \in posted[a]
              /\ posted' = [posted EXCEPT ![a] = @ \cup {key}]
    BY <1>1 DEF ReleaseForRedispatch, Refund
  <1>4. \A m \in Leads : leadStatus'[m] = "DELETED" <=> leadStatus[m] = "DELETED"
    BY <1>2, <1>3 DEF Alive, Inv, TypeOK
  <1>5. \A b \in Assignments \ {a} :
          status'[b] = status[b] /\ posted'[b] = posted[b] /\ reward'[b] = reward[b]
    BY <1>3 DEF Inv, TypeOK
  <1>6. /\ status'[a] = "RELEASED"
        /\ reward'[a] = IF reward[a] \in UnsettledRewards THEN "CANCELLED" ELSE reward[a]
    BY <1>3 DEF Inv, TypeOK, RewardOfReleased
  <1>7. PayOf(a)' = IF PayOf(a) = "promised" THEN "none" ELSE PayOf(a)
    <2>1. CASE reward[a] \in UnsettledRewards
      BY <1>6, <2>1, ShownNow, ShownNext DEF PayShows, UnsettledRewards
    <2>2. CASE reward[a] \notin UnsettledRewards
      BY <1>6, <2>2, ShownNow, ShownNext DEF PayShows
    <2> QED
      BY <2>1, <2>2
  <1>8. PayOf(a) # "paid"
    BY <1>2, ShownNow DEF PayShows, UnsettledRewards
  <1>9. CASE status[a] = "PENDING_CLAIM"
    <2>1. posted'[a] = {} /\ reward[a] = "NONE"
      BY <1>3, <1>9, RoundFacts DEF LedgerFollowsRound, LedgerFollowsReward
    <2>2. SaleOf(a) = "offered" /\ SaleOf(a)' = "withdrawn"
      BY <1>6, <1>9, <2>1, ShownNow, ShownNext DEF SaleShows, Ended
    <2>3. PayOf(a) = "none"
      BY <2>1, ShownNow DEF PayShows, UnsettledRewards
    <2>4. RoundStep(a)
      BY <1>7, <2>2, <2>3 DEF RoundStep
    <2> QED
      BY <1>1, <1>2, <1>3, <1>4, <1>5, <2>4, OneRoundSale
  <1>10. CASE status[a] # "PENDING_CLAIM"
    <2>1. "claim" \in posted'[a] /\ Refunds(a)' # {}
      BY <1>3, <1>10 DEF Refunds, Inv, TypeOK
    <2>2. SaleOf(a) \in {"charged", "kept"} /\ SaleOf(a)' = "refunded"
      BY <1>2, <1>6, <1>10, <2>1, ShownNow, ShownNext DEF SaleShows, Ended, HeldStatuses
    <2>3. PayOf(a)' = IF PayOf(a) = "promised" THEN "none"
                      ELSE IF PayOf(a) = "paid" THEN "recovered" ELSE PayOf(a)
      BY <1>7, <1>8
    <2> QED
      BY <1>2, <1>3, <1>4, <1>5, <2>2, <2>3, ActiveRefund DEF ActiveStatuses
  <1> QED
    BY <1>9, <1>10

\* Reopening leaves the sale that stands to its receiver.
LEMMA ReopeningIsKeep ==
  ASSUME Inv, Inv', NEW l \in Leads, ReopenClosedLead(l)
  PROVE  [Sale!SaleNext]_(Sale!saleVars)
  <1>1. /\ leadStatus[l] = "CLOSED"
        /\ leadOf' = leadOf /\ receiver' = receiver /\ status' = status
        /\ posted' = posted /\ reward' = reward
        /\ leadStatus' = [leadStatus EXCEPT ![l] = "READY_DISPATCH"]
        /\ current' = [current EXCEPT ![l] = None]
    BY DEF ReopenClosedLead, roundVars, moneyVars
  <1>2. \A m \in Leads : leadStatus'[m] = "DELETED" <=> leadStatus[m] = "DELETED"
    BY <1>1 DEF Inv, TypeOK
  <1>3. CASE current[l] = None
    <2>1. current' = current
      BY <1>1, <1>3 DEF Inv, TypeOK
    <2>2. /\ [b \in Assignments |-> SaleOf(b)]' = [b \in Assignments |-> SaleOf(b)]
          /\ [b \in Assignments |-> PayOf(b)]' = [b \in Assignments |-> PayOf(b)]
          /\ {m \in Leads : leadStatus[m] = "DELETED"}' = {m \in Leads : leadStatus[m] = "DELETED"}
      BY <1>1, <1>2, <2>1 DEF SaleOf, PayOf, RewardKept
    <2>3. UNCHANGED Sale!saleVars
      BY <1>1, <2>2 DEF Sale!saleVars
    <2> QED
      BY <2>3
  <1>4. CASE current[l] # None
    <2>1. PICK a \in Assignments : a = current[l]
      BY <1>4 DEF Inv, TypeOK
    <2>2. leadOf[a] = l /\ status[a] \in {"COMPLETED", "RETURN_PENDING"} /\ dealAt[a] # 0
      BY <1>1, <1>4, <2>1 DEF Inv, LeadInv
    <2>3. reward[a] \notin UnsettledRewards
      BY <2>2, RoundFacts DEF DealIsPaid
    <2>4. SaleOf(a) = "charged" /\ PayOf(a) # "promised"
      BY <2>1, <2>2, <2>3, ShownNow DEF SaleShows, PayShows, HeldStatuses
    <2>5. SaleOf(a)' = "kept" /\ PayOf(a)' = PayOf(a)
      <3>1. current'[leadOf'[a]] # a
        BY <1>1, <2>2, NoneAssumption DEF Inv, TypeOK
      <3>2. status'[a] \in HeldStatuses
        BY <1>1, <2>2 DEF HeldStatuses
      <3>3. PayOf(a)' = PayOf(a)
        BY <1>1 DEF PayOf, RewardKept
      <3> QED
        BY <3>1, <3>2, <3>3, ShownNext DEF SaleShows
    <2>6. RoundStep(a)
      BY <1>1, <2>2, <2>4, <2>5 DEF RoundStep, Alive
    <2> QED
      BY <1>1, <1>2, <2>1, <2>2, <2>6, OneRoundSale
  <1> QED
    BY <1>3, <1>4

\* A reversal by hand takes the pay back and leaves the sale alone.
LEMMA ReversalIsRecover ==
  ASSUME Inv, Inv', NEW a \in Assignments, ReverseReward(a)
  PROVE  [Sale!SaleNext]_(Sale!saleVars)
  <1>1. /\ reward[a] = "SETTLED"
        /\ leadOf' = leadOf /\ receiver' = receiver /\ current' = current
        /\ leadStatus' = leadStatus /\ status' = status
        /\ reward' = [reward EXCEPT ![a] = "REVERSED"]
        /\ posted' = [posted EXCEPT ![a] = @ \cup {"reverse"}]
    BY DEF ReverseReward, leadVars, roundVars
  <1>2. /\ reward'[a] = "REVERSED" /\ posted'[a] = posted[a] \cup {"reverse"}
        /\ \A b \in Assignments \ {a} :
             status'[b] = status[b] /\ posted'[b] = posted[b] /\ reward'[b] = reward[b]
    BY <1>1 DEF Inv, TypeOK
  <1>3. RoundStep(a)
    <2>1. SaleOf(a)' = SaleOf(a)
      BY <1>1, <1>2 DEF SaleOf, RefundKeys
    <2>2. PayOf(a) = "paid" /\ PayOf(a)' = "recovered"
      BY <1>1, <1>2, ShownNow, ShownNext DEF PayShows
    <2> QED
      BY <2>1, <2>2 DEF RoundStep
  <1> QED
    BY <1>1, <1>2, <1>3, OneRoundSale

\* A dispatch offers a lead that nobody holds.
LEMMA DispatchIsOffer ==
  ASSUME Inv, Inv', NEW l \in Leads, NEW a \in Assignments, NEW r \in Receivers,
         DispatchManually(l, a, r)
  PROVE  [Sale!SaleNext]_(Sale!saleVars)
  <1> DEFINE sale == [b \in Assignments |-> SaleOf(b)]
             pay == [b \in Assignments |-> PayOf(b)]
             gone == {m \in Leads : leadStatus[m] = "DELETED"}
  <1>1. /\ status[a] = "NEW" /\ leadStatus[l] = "READY_DISPATCH" /\ current[l] = None
        /\ NoOtherActive(l, a) /\ leadOf[a] = None
        /\ leadOf' = [leadOf EXCEPT ![a] = l]
        /\ receiver' = [receiver EXCEPT ![a] = r]
        /\ status' = [status EXCEPT ![a] = "PENDING_CLAIM"]
        /\ leadStatus' = [leadStatus EXCEPT ![l] = "DISPATCHED"]
        /\ current' = [current EXCEPT ![l] = a]
        /\ posted' = posted /\ reward' = reward
    BY RoundFacts DEF DispatchManually, moneyVars, RoundHasLead
  <1>2. gone' = gone /\ l \notin gone
    BY <1>1 DEF Inv, TypeOK
  <1>3. SaleOf(a) = "none" /\ SaleOf(a)' = "offered"
    BY <1>1, ShownNow, ShownNext DEF SaleShows, Inv, TypeOK
  <1>4. /\ \A b \in Assignments \ {a} : SaleOf(b)' = SaleOf(b)
        /\ \A b \in Assignments : PayOf(b)' = PayOf(b)
    <2>1. ASSUME NEW b \in Assignments \ {a}
          PROVE  SaleOf(b)' = SaleOf(b)
      <3>1. /\ leadOf'[b] = leadOf[b] /\ status'[b] = status[b]
            /\ leadOf[b] \in Leads => (current'[leadOf[b]] = b <=> current[leadOf[b]] = b)
        BY <1>1, NoneAssumption DEF Inv, TypeOK
      <3> QED
        BY <1>1, <3>1, ShowsTheSame
    <2>2. \A b \in Assignments : PayOf(b)' = PayOf(b)
      BY <1>1 DEF PayOf, RewardKept
    <2> QED
      BY <2>1, <2>2
  <1>5. ASSUME NEW b \in Assignments, leadOf[b] = l
        PROVE  SaleOf(b) \in {"withdrawn", "refunded", "kept"}
    <2>1. Alive(b) /\ current[l] # b /\ b # a
      BY <1>1, <1>5, NoneAssumption DEF Alive
    <2>2. status[b] \notin ActiveStatuses
      BY <1>1, <1>5, <2>1 DEF RoundsOf, NoOtherActive
    <2>3. CASE status[b] = "COMPLETED"
      BY <1>5, <2>1, <2>3, ShownNow DEF SaleShows, HeldStatuses
    <2>4. CASE status[b] # "COMPLETED"
      <3>1. status[b] # "NEW"
        BY <1>5, RoundFacts, NoneAssumption DEF RoundHasLead
      <3>2. status[b] \in Ended
        BY <2>2, <2>4, <3>1 DEF Ended, ActiveStatuses, AssignmentStatuses, Inv, TypeOK
      <3> QED
        BY <3>2, ShownNow DEF SaleShows
    <2> QED
      BY <2>3, <2>4
  <1>6. /\ sale[a] = "none"
        /\ sale' = [sale EXCEPT ![a] = "offered"] /\ pay' = pay
        /\ \A b \in Assignments : leadOf[b] = l => sale[b] \in {"withdrawn", "refunded", "kept"}
    BY <1>3, <1>4, <1>5
  <1> HIDE DEF sale, pay, gone
  <1>7. Sale!Offer(a, l, r)
    BY <1>1, <1>2, <1>6 DEF Sale!Offer, Sale!RoundsOfSale, sale, pay, gone
  <1> QED
    BY <1>7 DEF Sale!SaleNext

\* The deletion of a lead withdraws what is on offer, leaves the sale that stands
\* to its receiver, and decides what is promised.
LEMMA DeletionIsDelete ==
  ASSUME Inv, Inv', NEW l \in Leads, DeleteLead(l)
  PROVE  [Sale!SaleNext]_(Sale!saleVars)
  <1> DEFINE sale == [b \in Assignments |-> SaleOf(b)]
             pay == [b \in Assignments |-> PayOf(b)]
             gone == {m \in Leads : leadStatus[m] = "DELETED"}
             paid == {b \in Assignments : leadOf[b] = l /\ pay[b] = "promised"
                                          /\ reward'[b] = "SETTLED"}
  <1>1. /\ leadOf' = leadOf /\ receiver' = receiver /\ leadStatus[l] # "DELETED"
        /\ leadStatus' = [leadStatus EXCEPT ![l] = "DELETED"]
    BY DEF DeleteLead
  <1>2. l \notin gone /\ gone' = gone \cup {l}
    BY <1>1 DEF Inv, TypeOK
  <1>3. ASSUME NEW b \in Assignments, leadOf[b] # l
        PROVE  SaleOf(b)' = SaleOf(b) /\ PayOf(b)' = PayOf(b)
    <2>1. /\ leadOf'[b] = leadOf[b] /\ status'[b] = status[b]
          /\ posted'[b] = posted[b] /\ reward'[b] = reward[b]
          /\ leadOf[b] \in Leads => current'[leadOf[b]] = current[leadOf[b]]
      BY <1>3, DeletedRounds DEF Inv, TypeOK
    <2> QED
      BY <2>1, ShowsTheSame
  <1>4. ASSUME NEW b \in Assignments, leadOf[b] = l
        PROVE  /\ SaleOf(b)' = IF SaleOf(b) = "offered" THEN "withdrawn"
                               ELSE IF SaleOf(b) = "charged" THEN "kept" ELSE SaleOf(b)
               /\ PayOf(b)' = IF PayOf(b) = "promised"
                              THEN IF reward'[b] = "SETTLED" THEN "paid" ELSE "none"
                              ELSE PayOf(b)
    <2>1. /\ status'[b] = IF status[b] \in ActiveStatuses THEN "RELEASED" ELSE status[b]
          /\ \/ /\ reward[b] \in UnsettledRewards
                /\ reward'[b] = "SETTLED" /\ posted'[b] = posted[b] \cup {"settle"}
             \/ /\ reward[b] \in UnsettledRewards
                /\ reward'[b] = "CANCELLED" /\ posted'[b] = posted[b]
             \/ /\ reward[b] \notin UnsettledRewards
                /\ reward'[b] = reward[b] /\ posted'[b] = posted[b]
      BY <1>4, DeletedRounds DEF Inv
    <2>2. PayOf(b)' = IF PayOf(b) = "promised"
                      THEN IF reward'[b] = "SETTLED" THEN "paid" ELSE "none"
                      ELSE PayOf(b)
      <3>1. CASE reward[b] \in UnsettledRewards
        BY <2>1, <3>1, ShownNow, ShownNext DEF PayShows, UnsettledRewards
      <3>2. CASE reward[b] \notin UnsettledRewards
        BY <2>1, <3>2, ShownNow, ShownNext DEF PayShows
      <3> QED
        BY <3>1, <3>2
    <2>3. /\ "claim" \in posted'[b] <=> "claim" \in posted[b]
          /\ Refunds(b)' = Refunds(b)
      BY <2>1 DEF Refunds, RefundKeys
    <2>4. leadOf'[b] = l /\ current'[l] # b
      BY <1>1, <1>4, NoneAssumption DEF DeleteLead, Inv, TypeOK
    <2>5. SaleOf(b)' = IF SaleOf(b) = "offered" THEN "withdrawn"
                       ELSE IF SaleOf(b) = "charged" THEN "kept" ELSE SaleOf(b)
      <3>1. CASE status[b] = "PENDING_CLAIM"
        <4>1. "claim" \notin posted[b]
          BY <3>1, RoundFacts DEF LedgerFollowsRound
        <4> QED
          BY <2>1, <2>3, <3>1, <4>1, ShownNow, ShownNext DEF SaleShows, ActiveStatuses, Ended
      <3>2. CASE status[b] \in {"CLAIMED", "FOLLOWING", "RETURN_PENDING"}
        <4>1. "claim" \in posted[b] /\ Refunds(b) = {}
          BY <3>2, RoundFacts DEF LedgerFollowsRound, RefundEndsRound, HeldStatuses
        <4> QED
          BY <2>1, <2>3, <3>2, <4>1, ShownNow, ShownNext
             DEF SaleShows, ActiveStatuses, Ended, HeldStatuses
      <3>3. CASE status[b] \notin ActiveStatuses
        <4>1. status'[b] = status[b]
          BY <2>1, <3>3
        <4> QED
          BY <2>3, <2>4, <3>3, <4>1 DEF SaleOf, Refunds, ActiveStatuses
      <3> QED
        BY <3>1, <3>2, <3>3 DEF ActiveStatuses
    <2> QED
      BY <2>2, <2>5
  <1>5. /\ sale' = [b \in Assignments |->
                      IF leadOf[b] = l /\ sale[b] = "offered" THEN "withdrawn"
                      ELSE IF leadOf[b] = l /\ sale[b] = "charged" THEN "kept" ELSE sale[b]]
        /\ pay' = [b \in Assignments |->
                      IF b \in paid THEN "paid"
                      ELSE IF leadOf[b] = l /\ pay[b] = "promised" THEN "none"
                      ELSE pay[b]]
    <2>1. \A b \in Assignments :
            SaleOf(b)' = IF leadOf[b] = l /\ sale[b] = "offered" THEN "withdrawn"
                         ELSE IF leadOf[b] = l /\ sale[b] = "charged" THEN "kept" ELSE sale[b]
      BY <1>3, <1>4
    <2>2. \A b \in Assignments :
            PayOf(b)' = IF b \in paid THEN "paid"
                        ELSE IF leadOf[b] = l /\ pay[b] = "promised" THEN "none"
                        ELSE pay[b]
      BY <1>3, <1>4
    <2> QED
      BY <2>1, <2>2
  <1>6. paid \in SUBSET {b \in Assignments : leadOf[b] = l /\ pay[b] = "promised"}
    OBVIOUS
  <1> HIDE DEF sale, pay, gone, paid
  <1>7. Sale!Delete(l)
    BY <1>1, <1>2, <1>5, <1>6 DEF Sale!Delete, sale, pay, gone
  <1> QED
    BY <1>7 DEF Sale!SaleNext

\* What changes neither rows nor ledger, nor takes a lead away, is no step of
\* the sale.
LEMMA QuietIsStutter ==
  ASSUME Inv,
         \/ Tick \/ FreezeSupply \/ \E p \in Prices : ChangePrice(p)
         \/ \E l \in Leads : \/ TransferFromPublicPool(l) \/ LeaveForSupply(l)
                            \/ ReturnFromSupply(l) \/ CorrectLead(l) \/ RecheckCorrection(l)
         \/ \E a \in Assignments :
              \/ CreateReturnDraft(a) \/ ReopenReturnDraft(a) \/ AddReturnEvidence(a)
              \/ ExpireReturnDraft(a) \/ SubmitReturnTooLate(a)
              \/ AssignVerification(a) \/ StartVerification(a)
              \/ \E v \in VerdictsOfTelesales : SubmitVerification(a, v)
              \/ RequireMoreEvidence(a)
         \/ UNCHANGED vars
  PROVE  UNCHANGED Sale!saleVars
  <1>1. UNCHANGED <<leadOf, receiver, status, posted, reward, current>>
    BY DEF Tick, FreezeSupply, ChangePrice, TransferFromPublicPool, LeaveForSupply,
           ReturnFromSupply, CorrectLead,
           RecheckCorrection, StoreIssues, CreateReturnDraft, ReopenReturnDraft,
           AddReturnEvidence, ExpireReturnDraft, SubmitReturnTooLate, AssignVerification,
           StartVerification, SubmitVerification, TaskStep, RequireMoreEvidence, vars,
           roundVars, moneyVars, leadVars
  <1>2. \/ leadStatus' = leadStatus
        \/ \E l \in Leads, s \in SupplySide \cup {"IN_SUPPLY"} :
             leadStatus[l] # "DELETED" /\ leadStatus' = [leadStatus EXCEPT ![l] = s]
    BY DEF Tick, FreezeSupply, ChangePrice, TransferFromPublicPool, LeaveForSupply,
           ReturnFromSupply, SupplySide, CorrectLead,
           RecheckCorrection, StoreIssues, CreateReturnDraft, ReopenReturnDraft,
           AddReturnEvidence, ExpireReturnDraft, SubmitReturnTooLate, AssignVerification,
           StartVerification, SubmitVerification, TaskStep, RequireMoreEvidence, vars,
           leadVars
  <1>3. \A m \in Leads : leadStatus'[m] = "DELETED" <=> leadStatus[m] = "DELETED"
    BY <1>2 DEF Inv, TypeOK, SupplySide
  <1>4. \A a \in Assignments : SaleOf(a)' = SaleOf(a) /\ PayOf(a)' = PayOf(a)
    BY <1>1 DEF SaleOf, PayOf, RewardKept
  <1>5. /\ [a \in Assignments |-> SaleOf(a)]' = [a \in Assignments |-> SaleOf(a)]
        /\ [a \in Assignments |-> PayOf(a)]' = [a \in Assignments |-> PayOf(a)]
        /\ {m \in Leads : leadStatus[m] = "DELETED"}' = {m \in Leads : leadStatus[m] = "DELETED"}
    BY <1>3, <1>4
  <1> QED
    BY <1>1, <1>5 DEF Sale!saleVars

LEMMA StepRefines ==
  ASSUME Inv, Inv', [Next]_vars
  PROVE  [Sale!SaleNext]_(Sale!saleVars)
  <1>1. ASSUME NEW l \in Leads,
               \/ \E a \in Assignments, r \in Receivers : DispatchManually(l, a, r)
               \/ ReopenClosedLead(l)
               \/ ReleaseCorrectedLead(l) \/ ReleaseMisdispatchedLead(l) \/ DeleteLead(l)
        PROVE  [Sale!SaleNext]_(Sale!saleVars)
    BY <1>1, DispatchIsOffer, ReopeningIsKeep, ReleaseIsWithdrawOrRefund, DeletionIsDelete
  <1>2. ASSUME NEW a \in Assignments,
               \/ ClaimAssignment(a) \/ RefusePendingAssignment(a) \/ ExpireAssignment(a)
               \/ FollowUp(a) \/ Deal(a) \/ SubmitReturn(a) \/ ResubmitReturn(a)
               \/ RejectReturn(a) \/ ApproveReturn(a) \/ CorrectRegionAndRedispatch(a)
               \/ DirectInvalidReturn(a) \/ SettleDueReward(a) \/ ReverseReward(a)
        PROVE  [Sale!SaleNext]_(Sale!saleVars)
    BY <1>2, ClaimIsCharge, BackToPoolIsWithdraw, HeldStaysCharged, ApprovalIsRefund,
       ReversalIsRecover
  <1> QED
    BY <1>1, <1>2, QuietIsStutter DEF Next

LEMMA InitRefines ==
  ASSUME Init
  PROVE  Sale!SaleInit
  <1>1. leadOf = [a \in Assignments |-> None] /\ receiver = [a \in Assignments |-> None]
    BY DEF Init
  <1>2. \A a \in Assignments : SaleOf(a) = "none" /\ PayOf(a) = "none"
    BY DEF Init, SaleOf, PayOf, RewardKept, UnsettledRewards
  <1>3. {l \in Leads : leadStatus[l] = "DELETED"} = {}
    BY DEF Init
  <1> QED
    BY <1>1, <1>2, <1>3 DEF Sale!SaleInit

\* The handlers, the jobs and the clock together keep what LeadSale promises:
\* a lead is with one receiver at a time, who pays once and is refunded once, and
\* it is offered again only when what came before was withdrawn or refunded, or
\* was left to its receiver with the supplier's reward for it decided.
THEOREM LifecycleImplementsSale == Spec => ImplementsSale
  <1>1. Inv /\ Inv' /\ [Next]_vars => [Sale!SaleNext]_(Sale!saleVars)
    BY StepRefines
  <1>2. Init => Sale!SaleInit
    BY InitRefines
  <1> QED
    BY <1>1, <1>2, AlwaysInv, PTL DEF Spec, ImplementsSale, Sale!SaleSpec
=============================================================================
