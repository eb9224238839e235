------------------------- MODULE LeadReports_proofs -------------------------
(***************************************************************************)
(* Proofs about LeadReports: the views agree with one another and with the *)
(* ledger, whatever the handlers of LeadLifecycle do, for any number of    *)
(* leads, rounds and receivers, any prices and any windows.                *)
(*                                                                         *)
(* A view is a function of the state, so most of the work is an invariant  *)
(* of LeadLifecycle: what the columns a view reads have to do with one     *)
(* another.  The sum of a ledger is the size of a set with one element for *)
(* each point, so a posting adds as many elements as it moves points.      *)
(***************************************************************************)
EXTENDS LeadReports, LeadLifecycle_proofs

\* The columns of a round that the views read: a claim leaves its time, its
\* charge and its entry together; a deal comes after it; a rejection is dated;
\* a window that was resumed has its deadline; an approved return, its refund
\* and the end of the round come together.
BookIsKept(a) ==
  /\ "claim" \in posted[a] <=> claimedAt[a] # 0
  /\ "claim" \in posted[a] => charge[a] # 0
  /\ dealAt[a] # 0 => claimedAt[a] # 0 /\ dealAt[a] <= now
  /\ request[a] = "REJECTED" => reviewedAt[a] # 0
  /\ resumed[a] => deadline[a] # 0
  /\ request[a] = "APPROVED" <=> status[a] = "RETURNED"
  /\ "return" \in posted[a] <=> status[a] = "RETURNED"

Books == \A a \in Assignments : BookIsKept(a)

-----------------------------------------------------------------------------
\* When a round became effective.

\* The appeal deadline of a claimed round is a time.
LEMMA ClaimedHasDeadline ==
  ASSUME TypeOK, NEW a \in Assignments, BookIsKept(a), claimedAt[a] # 0
  PROVE  AppealDeadline(a) # 0 /\ SqlDeadline(a) = AppealDeadline(a)
  BY WindowsAssumption DEF TypeOK, BookIsKept, AppealDeadline, SqlDeadline

\* A rejected return has resumed its window, so no rejection confirms by itself.
LEMMA EffectiveParts ==
  ASSUME TypeOK, NEW a \in Assignments, BookIsKept(a), RoundFollowsReturn(a)
  PROVE  /\ SqlManualFirst(a) <=> claimedAt[a] # 0 /\ DealConfirms(a)
         /\ SqlDeadlineEffective(a) <=>
              /\ claimedAt[a] # 0 /\ ~paused[a]
              /\ \/ submittedAt[a] = 0 \/ submittedAt[a] > AppealDeadline(a)
                 \/ RejectedAndResumed(a)
         /\ SqlEffectiveAt(a) = IF SqlManualFirst(a) THEN dealAt[a]
                                ELSE IF SqlDeadlineEffective(a) THEN AppealDeadline(a) ELSE 0
  <1>1. claimedAt[a] # 0 => AppealDeadline(a) # 0 /\ SqlDeadline(a) = AppealDeadline(a)
    BY ClaimedHasDeadline
  <1>2. claimedAt[a] = 0 => SqlDeadline(a) = 0 /\ dealAt[a] = 0
    BY DEF SqlDeadline, BookIsKept
  <1>3. /\ resumed[a] /\ SqlRejectedAt(a) # 0 <=> RejectedAndResumed(a)
        /\ RejectedAndResumed(a) => SqlRejectedAt(a) = reviewedAt[a]
    BY DEF SqlRejectedAt, RejectedAndResumed, BookIsKept
  <1>4. ~resumed[a] => SqlRejectedAt(a) = 0
    BY DEF SqlRejectedAt, RoundFollowsReturn
  <1>5. SqlManualFirst(a) <=> claimedAt[a] # 0 /\ DealConfirms(a)
    BY <1>1, <1>2, <1>3 DEF SqlManualFirst, DealConfirms
  <1>6. SqlDeadlineEffective(a) <=>
              /\ claimedAt[a] # 0 /\ ~paused[a]
              /\ \/ submittedAt[a] = 0 \/ submittedAt[a] > AppealDeadline(a)
                 \/ RejectedAndResumed(a)
    BY <1>1, <1>2, <1>3 DEF SqlDeadlineEffective
  <1>7. SqlDeadlineEffective(a) => SqlDeadline(a) = AppealDeadline(a)
    BY <1>1, <1>6
  <1>8. SqlEffectiveAt(a) = IF SqlManualFirst(a) THEN dealAt[a]
                            ELSE IF SqlDeadlineEffective(a) THEN AppealDeadline(a) ELSE 0
    BY <1>4, <1>7 DEF SqlEffectiveAt
  <1> QED
    BY <1>5, <1>6, <1>8

\* The two forms of the confirmation say the same at every time.
LEMMA SqlIsResolved ==
  ASSUME TypeOK, NEW a \in Assignments, BookIsKept(a), RoundFollowsReturn(a), NEW t \in Nat
  PROVE  /\ SqlEffectiveAt(a) \in Nat
         /\ ResolvedAt(a, t) = IF SqlEffectiveAt(a) <= t THEN SqlEffectiveAt(a) ELSE 0
  <1> DEFINE window == /\ ~paused[a]
                       /\ \/ submittedAt[a] = 0 \/ submittedAt[a] > AppealDeadline(a)
                          \/ RejectedAndResumed(a)
  <1>1. AppealDeadline(a) \in Nat /\ dealAt[a] \in Nat /\ claimedAt[a] \in Nat
    BY DeadlineType DEF TypeOK
  <1>2. SqlEffectiveAt(a) = IF claimedAt[a] # 0 /\ DealConfirms(a) THEN dealAt[a]
                            ELSE IF claimedAt[a] # 0 /\ window THEN AppealDeadline(a) ELSE 0
    BY EffectiveParts
  <1>3. ~(request[a] = "REJECTED" /\ ~resumed[a])
    BY DEF RoundFollowsReturn
  <1>4. ResolvedAt(a, t) = IF claimedAt[a] = 0 THEN 0
                           ELSE IF DealConfirms(a) /\ dealAt[a] <= t THEN dealAt[a]
                           ELSE IF AppealDeadline(a) <= t /\ window THEN AppealDeadline(a) ELSE 0
    BY <1>3 DEF ResolvedAt, DealConfirms
  <1>5. DealConfirms(a) => dealAt[a] <= AppealDeadline(a)
    BY DEF DealConfirms
  <1> QED
    <2> HIDE DEF window
    <2> QED
      BY <1>1, <1>2, <1>4, <1>5

\* The settlement job confirms what the reports show as confirmed.
LEMMA ConfirmedIsShown ==
  ASSUME TypeOK, NEW a \in Assignments, BookIsKept(a), RoundFollowsReturn(a)
  PROVE  Confirmed(a) <=> SqlEffectiveAt(a) # 0 /\ SqlEffectiveAt(a) <= now
  <1>1. AppealDeadline(a) \in Nat /\ dealAt[a] \in Nat /\ now \in Nat
    BY DeadlineType DEF TypeOK
  <1>2. claimedAt[a] # 0 => AppealDeadline(a) # 0
    BY ClaimedHasDeadline
  <1>3. ~RejectionConfirms(a)
    BY DEF RejectionConfirms, RoundFollowsReturn
  <1>4. DealConfirms(a) => dealAt[a] # 0 /\ dealAt[a] <= now /\ dealAt[a] <= AppealDeadline(a)
    BY DEF DealConfirms, BookIsKept
  <1>5. WindowConfirms(a) <=>
          /\ AppealDeadline(a) <= now /\ ~paused[a]
          /\ submittedAt[a] = 0 \/ submittedAt[a] > AppealDeadline(a) \/ RejectedAndResumed(a)
    BY DEF WindowConfirms
  <1> QED
    BY <1>1, <1>2, <1>3, <1>4, <1>5, EffectiveParts DEF Confirmed

\* What the job would pay for a lead that is there is a row of the report.
LEMMA ConfirmedIsRow ==
  ASSUME TypeOK, NEW a \in Assignments, BookIsKept(a), RoundFollowsReturn(a),
         Confirmed(a), LeadOpen(a)
  PROVE  FlowRow(a)
  BY ConfirmedIsShown DEF FlowRow, Confirmed, LeadOpen

-----------------------------------------------------------------------------
\* The steps that move a lead and none of its rounds.
LeadOnly(l) ==
  \/ TransferFromPublicPool(l) \/ LeaveForSupply(l) \/ ReturnFromSupply(l)
  \/ ReopenClosedLead(l) \/ CorrectLead(l) \/ RecheckCorrection(l)

LEMMA LeadOnlyLeaves ==
  ASSUME NEW l, LeadOnly(l)
  PROVE  UNCHANGED <<roundVars, clockVars, returnVars, moneyVars, envVars>>
  BY DEF LeadOnly, TransferFromPublicPool, LeaveForSupply, ReturnFromSupply,
         ReopenClosedLead, CorrectLead, RecheckCorrection, StoreIssues

-----------------------------------------------------------------------------
\* What makes the reports agree.

\* What was paid to a supplier is a row of the finance report.
PaidIsShown == \A a \in Assignments : "settle" \in posted[a] => FlowRow(a)

\* The account of a receiver is the sum of its ledger, which is finite.
AccountFits(r) ==
  /\ IsFiniteSet(EntryPoints(r, {"claim"})) /\ IsFiniteSet(EntryPoints(r, RefundKeys))
  /\ balance[r] + Cardinality(EntryPoints(r, {"claim"}))
       = Grant + Cardinality(EntryPoints(r, RefundKeys))

Accounts == \A r \in Receivers : AccountFits(r)

StampsOK == deletedAt \in [Leads -> Nat]

\* A return is verified while its task is open, and reviewed while it is submitted.
DesksAgree ==
  \A a \in Assignments :
    /\ request[a] = "VERIFYING" <=> task[a] \in {"PENDING", "ASSIGNED", "IN_PROGRESS"}
    /\ request[a] = "REVIEWING" <=> task[a] = "SUBMITTED"

LEMMA InvariantsMakeConfirmationsAgree ==
  ASSUME Inv, Clocks, Books, StampsOK
  PROVE  ConfirmationsAgree
  <1> SUFFICES ASSUME NEW a \in Assignments
               PROVE  /\ ListConfirmedAt(a) = ResolvedAt(a, now)
                      /\ Confirmed(a) <=> ListConfirmedAt(a) # 0
                      /\ FlowRow(a) <=> TraceConfirmedAt(a) # 0
                      /\ FlowRow(a) => TraceConfirmedAt(a) = SqlEffectiveAt(a)
    BY DEF ConfirmationsAgree
  <1>1. TypeOK /\ BookIsKept(a) /\ RoundFollowsReturn(a) /\ now \in Nat
    BY DEF Inv, Clocks, ClockInv, Books, TypeOK
  <1>2. SqlEffectiveAt(a) \in Nat
    BY <1>1, SqlIsResolved
  <1>3. ListConfirmedAt(a) = ResolvedAt(a, now)
    BY <1>1, SqlIsResolved DEF ListConfirmedAt
  <1>4. Confirmed(a) <=> ListConfirmedAt(a) # 0
    BY <1>1, ConfirmedIsShown DEF ListConfirmedAt
  <1>5. CASE leadOf[a] = None
    <2>1. claimedAt[a] = 0
      BY <1>1, <1>5, RoundFacts DEF RoundHasLead, LedgerFollowsRound, BookIsKept
    <2>2. TraceConfirmedAt(a) = 0
      BY <2>1 DEF TraceConfirmedAt, ResolvedAt
    <2> QED
      BY <1>3, <1>4, <2>1, <2>2 DEF FlowRow
  <1>6. CASE leadOf[a] # None
    <2>1. leadOf[a] \in Leads /\ deletedAt[leadOf[a]] \in Nat
      BY <1>1, <1>6 DEF TypeOK, StampsOK
    <2>2. /\ TraceAsOf(a) \in Nat
          /\ SqlEffectiveAt(a) <= TraceAsOf(a) <=>
               /\ SqlEffectiveAt(a) <= now
               /\ LeadOpen(a) \/ SqlEffectiveAt(a) <= deletedAt[leadOf[a]]
      BY <1>1, <1>2, <2>1 DEF TraceAsOf
    <2>3. TraceConfirmedAt(a) = IF SqlEffectiveAt(a) <= TraceAsOf(a) THEN SqlEffectiveAt(a) ELSE 0
      BY <1>1, <2>2, SqlIsResolved DEF TraceConfirmedAt
    <2>4. SqlEffectiveAt(a) # 0 => claimedAt[a] # 0
      BY <1>1, EffectiveParts
    <2>5. FlowRow(a) <=> SqlEffectiveAt(a) # 0 /\ SqlEffectiveAt(a) <= TraceAsOf(a)
      BY <1>6, <2>2, <2>4 DEF FlowRow
    <2> QED
      BY <1>3, <1>4, <2>3, <2>5
  <1> QED
    BY <1>5, <1>6

LEMMA InvariantsMakeCountsAgree ==
  ASSUME Inv, Clocks, Books, PaidIsShown, DesksAgree
  PROVE  CountsAgree
  <1>1. ASSUME NEW r \in Receivers
        PROVE  /\ OwnClaimed(r) \subseteq OwnConsumed(r)
               /\ OwnConfirmedInvalid(r) = {a \in OwnClaimed(r) : status[a] = "RETURNED"}
    <2>1. ASSUME NEW a \in Assignments
          PROVE  /\ status[a] \in HeldStatuses \cup {"RETURNED"} => "claim" \in posted[a]
                 /\ request[a] = "APPROVED" <=> status[a] = "RETURNED"
      BY RoundFacts DEF Books, BookIsKept, LedgerFollowsRound, RefundEndsRound, Refunds, RefundKeys
    <2> QED
      BY <2>1 DEF OwnClaimed, OwnConsumed, OwnConfirmedInvalid, OwnRounds
  <1>2. \A a \in CompletedRounds : dealAt[a] # 0
    BY RoundFacts DEF CompletedRounds, RoundIsCurrent
  <1>3. ASSUME NEW l \in Leads
        PROVE  /\ PerformanceNet(l) = SettledRewards \cap RoundsOf(l)
               /\ \A a, b \in PerformanceNet(l) : a = b \/ dealAt[a] # 0 \/ dealAt[b] # 0
               /\ PerformanceNet(l) # {} /\ leadStatus[l] # "DELETED" => l \in EffectiveLeads
    <2>0. PerformanceNet(l) = SettledRewards \cap RoundsOf(l)
      BY RoundFacts DEF PerformanceNet, SettledRewards, RoundsOf, LedgerFollowsReward
    <2>1. \A a \in PerformanceNet(l) : a \in RoundsOf(l) /\ reward[a] = "SETTLED" /\ FlowRow(a)
      BY RoundFacts DEF PerformanceNet, RoundsOf, LedgerFollowsReward, PaidIsShown
    <2>2. \A a, b \in PerformanceNet(l) : a = b \/ dealAt[a] # 0 \/ dealAt[b] # 0
      BY <2>1 DEF RoundsOf, Inv, PaidOnce
    <2>3. \A a \in PerformanceNet(l) : ListConfirmedAt(a) # 0
      BY <2>1 DEF FlowRow, ListConfirmedAt
    <2> QED
      BY <2>0, <2>1, <2>2, <2>3 DEF EffectiveLeads
  <1>4. ASSUME NEW a \in Assignments, FlowRow(a)
        PROVE  FlowPlatformNet(a) = LedgerNet(a) + (IF Recalled(a) THEN charge[a] ELSE 0)
    <2>0. charge[a] \in Nat /\ RewardPoints \in Nat
      BY PointsAssumption, RewardAssumption DEF Inv, TypeOK
    <2>1. /\ "claim" \in posted[a]
          /\ posted[a] \cap RefundKeys # {} <=> request[a] = "APPROVED" \/ Recalled(a)
          /\ ~(request[a] = "APPROVED" /\ Recalled(a))
      <3>1. "claim" \in posted[a] /\ ("return" \in posted[a] <=> request[a] = "APPROVED")
        BY <1>4 DEF FlowRow, Books, BookIsKept
      <3>2. \A j, k \in posted[a] \cap RefundKeys : j = k
        BY RoundFacts DEF RefundEndsRound, Refunds
      <3> QED
        BY <3>1, <3>2 DEF Recalled, RefundKeys
    <2>2. /\ "settle" \in posted[a] <=> reward[a] \in {"SETTLED", "REVERSED"}
          /\ "reverse" \in posted[a] <=> reward[a] = "REVERSED"
      BY RoundFacts DEF LedgerFollowsReward
    <2> QED
      BY <2>0, <2>1, <2>2 DEF FlowPlatformNet, LedgerNet, FlowConsumed, FlowRefunded,
                              FlowRewarded, FlowReversed
  <1>5. /\ OperationsQueue = FinalReviews
        /\ TelesalesQueue = {a \in Assignments : request[a] = "VERIFYING"}
    BY DEF DesksAgree, OperationsQueue, FinalReviews, TelesalesQueue
  <1>6. ASSUME NEW l \in Leads, leadStatus[l] # "DELETED",
               NEW a \in RoundsOf(l) \ {current[l]}, RewardKept(a) \/ status[a] \in HeldStatuses
        PROVE  dealAt[a] # 0
    <2>1. leadOf[a] = l /\ Alive(a) /\ current[leadOf[a]] # a
      BY <1>6 DEF RoundsOf, Alive
    <2>2. CASE RewardKept(a)
      <3>1. reward[a] = "SETTLED"
        BY <2>2, RoundFacts DEF RewardKept, LedgerFollowsReward, RoundsOf
      <3> QED
        BY <2>1, <3>1, RewardIsActive DEF RoundsOf
    <2>3. CASE status[a] \in HeldStatuses
      BY <2>1, <2>3, HeldIsCurrent DEF RoundsOf, HeldStatuses, ActiveStatuses
    <2> QED
      BY <1>6, <2>2, <2>3
  <1>7. ASSUME NEW l \in Leads
        PROVE  /\ l \in ReportRows("DISPATCHED", "ANY") => RowRound(l) = "PENDING_CLAIM"
               /\ RowRound(l) = "PENDING_CLAIM" => l \in ReportRows("DISPATCHED", "ANY")
               /\ RowRound(l) = "COMPLETED" => l \in ReportRows("CLOSED", "ANY")
               /\ \A s \in {"RELEASED", "EXPIRED", "RETURNED"} : l \notin ReportRows("ANY", s)
    <2>1. LeadInv(l)
      BY DEF Inv
    <2>2. l \in ReportRows("DISPATCHED", "ANY") => RowRound(l) = "PENDING_CLAIM"
      BY <2>1 DEF ReportRows, ReportLists, RowRound, LeadInv
    <2>3. ASSUME RowRound(l) \in {"PENDING_CLAIM", "COMPLETED"}
          PROVE  /\ RowRound(l) = "PENDING_CLAIM" => leadStatus[l] = "DISPATCHED"
                 /\ RowRound(l) = "COMPLETED" => leadStatus[l] = "CLOSED"
      <3>1. PICK a \in Assignments : a = current[l] /\ leadOf[a] = l /\ status[a] = RowRound(l)
        BY <2>1, <2>3 DEF RowRound, LeadInv
      <3> QED
        BY <3>1, RoundFacts DEF RoundIsCurrent
    <2>4. ASSUME NEW s \in {"RELEASED", "EXPIRED", "RETURNED"}
          PROVE  l \notin ReportRows("ANY", s)
      BY <2>1, <2>4 DEF ReportRows, ReportLists, RowRound, LeadInv, HeldStatuses
    <2> QED
      BY <2>2, <2>3, <2>4 DEF ReportRows, ReportLists
  <1>8. /\ \A a \in DisputedRewards : request[a] \in OpenReturns
        /\ \A a \in PendingRewards : request[a] \notin OpenReturns
    BY DEF Clocks, ClockInv, RewardWaitsForReturn, DisputedRewards, PendingRewards
  <1> QED
    BY <1>1, <1>2, <1>3, <1>4, <1>5, <1>6, <1>7, <1>8 DEF CountsAgree

LEMMA InvariantsMakeContactPaid ==
  ASSUME Inv
  PROVE  ContactIsPaidFor
  <1>1. ASSUME NEW a \in Assignments, ContactShown(a)
        PROVE  /\ "claim" \in posted[a] /\ posted[a] \cap RefundKeys = {}
               /\ leadOf[a] \in Leads
               /\ dealAt[a] = 0 => current[leadOf[a]] = a
    <2>1. status[a] \in HeldStatuses
      BY <1>1 DEF ContactShown, PhoneRevealed
    <2>2. "claim" \in posted[a] /\ Refunds(a) = {}
      BY <2>1, RoundFacts DEF LedgerFollowsRound, RefundEndsRound, HeldStatuses
    <2>3. leadOf[a] \in Leads /\ (dealAt[a] = 0 => current[leadOf[a]] = a)
      BY <2>1, HeldIsCurrent DEF HeldStatuses, ActiveStatuses
    <2> QED
      BY <2>2, <2>3 DEF Refunds
  <1>2. ASSUME NEW a \in Assignments, ContactShown(a), dealAt[a] = 0
        PROVE  /\ \A b \in RoundsOf(leadOf[a]) : ContactShown(b) /\ dealAt[b] = 0 => a = b
               /\ ~InDispatchPool(leadOf[a])
    <2>1. \A b \in RoundsOf(leadOf[a]) : ContactShown(b) /\ dealAt[b] = 0 => a = b
      BY <1>1, <1>2 DEF RoundsOf
    <2>2. ~InDispatchPool(leadOf[a])
      BY <1>1, <1>2, NoneAssumption DEF InDispatchPool
    <2> QED
      BY <2>1, <2>2
  <1> QED
    BY <1>1, <1>2 DEF ContactIsPaidFor

LEMMA InvariantsReconcile ==
  ASSUME Inv, Books, Accounts
  PROVE  ReconciliationFindsNothing
  <1>1. ASSUME NEW l \in Leads
        PROVE  ~DuplicateActive(l)
    BY DEF Inv, OneActive, DuplicateActive, RoundsOf
  <1>2. ASSUME NEW a \in Assignments
        PROVE  ~RewardMismatch(a)
    BY RoundFacts DEF RewardMismatch, LedgerFollowsReward
  <1>3. ASSUME NEW a \in Assignments
        PROVE  ~RefundMismatch(a)
    <2>1. charge[a] \in Nat
      BY DEF Inv, TypeOK
    <2>2. request[a] = "APPROVED" => {"claim", "return"} \subseteq posted[a] /\ charge[a] # 0
      BY RoundFacts DEF Books, BookIsKept, RefundEndsRound, Refunds, RefundKeys
    <2> QED
      BY <2>1, <2>2 DEF RefundMismatch
  <1>4. ASSUME NEW r \in Receivers
        PROVE  ~AccountMismatch(r)
    BY DEF Accounts, AccountFits, AccountMismatch
  <1> QED
    BY <1>1, <1>2, <1>3, <1>4 DEF ReconciliationFindsNothing
-----------------------------------------------------------------------------
\* The sum of a ledger.

\* The points of one entry are as many as its amount.
LEMMA EntryAmount ==
  ASSUME NEW a, NEW k, NEW n \in Nat
  PROVE  /\ IsFiniteSet({a} \X {k} \X (1..n))
         /\ Cardinality({a} \X {k} \X (1..n)) = n
  <1> DEFINE S == 1..n
             T == {a} \X {k} \X S
             f == [i \in S |-> <<a, k, i>>]
  <1>1. f \in [S -> T]
    OBVIOUS
  <1>2. \A i, j \in S : f[i] = f[j] => i = j
    OBVIOUS
  <1>3. \A t \in T : \E i \in S : f[i] = t
    OBVIOUS
  <1>4. f \in Bijection(S, T)
    BY <1>1, <1>2, <1>3 DEF Bijection, Injection, Surjection, IsInjective
  <1>5. ExistsBijection(S, T)
    BY <1>4 DEF ExistsBijection
  <1>6. IsFiniteSet(S) /\ Cardinality(S) = n
    BY FS_Interval
  <1> QED
    BY <1>5, <1>6, FS_Bijection

\* A step that leaves the entries under some keys alone: no such entry is
\* posted, and the rounds that have one keep their receiver and their charge.
EntriesKept(keys) ==
  \A b \in Assignments :
    /\ posted'[b] \cap keys = posted[b] \cap keys
    /\ posted[b] \cap keys # {} => receiver'[b] = receiver[b] /\ charge'[b] = charge[b]

LEMMA EntryMembers ==
  ASSUME NEW r, NEW keys, NEW x
  PROVE  x \in EntryPoints(r, keys) <=>
           \E b \in Assignments, k \in keys : \E i \in 1..charge[b] :
             receiver[b] = r /\ k \in posted[b] /\ x = <<b, k, i>>
  BY DEF EntryPoints

LEMMA SumKept ==
  ASSUME NEW r, NEW keys, EntriesKept(keys)
  PROVE  EntryPoints(r, keys)' = EntryPoints(r, keys)
  <1>1. ASSUME NEW b \in Assignments, NEW k \in keys
        PROVE  /\ k \in posted'[b] <=> k \in posted[b]
               /\ k \in posted[b] => receiver'[b] = receiver[b] /\ charge'[b] = charge[b]
    BY <1>1 DEF EntriesKept
  <1>2. ASSUME NEW x
        PROVE  x \in EntryPoints(r, keys)' <=> x \in EntryPoints(r, keys)
    <2>1. x \in EntryPoints(r, keys)' <=>
            \E b \in Assignments, k \in keys : \E i \in 1..charge'[b] :
              receiver'[b] = r /\ k \in posted'[b] /\ x = <<b, k, i>>
      BY DEF EntryPoints
    <2>2. x \in EntryPoints(r, keys) <=>
            \E b \in Assignments, k \in keys : \E i \in 1..charge[b] :
              receiver[b] = r /\ k \in posted[b] /\ x = <<b, k, i>>
      BY EntryMembers
    <2> QED
      BY <1>1, <2>1, <2>2
  <1> QED
    BY <1>2

\* Another entry adds its amount to the sum of its receiver's ledger.
LEMMA SumGrows ==
  ASSUME NEW a \in Assignments, NEW keys, NEW k \in keys,
         charge'[a] \in Nat, posted[a] \cap keys = {}, posted'[a] \cap keys = {k},
         receiver' = receiver,
         \A b \in Assignments \ {a} :
           posted'[b] \cap keys = posted[b] \cap keys /\ charge'[b] = charge[b],
         IsFiniteSet(EntryPoints(receiver[a], keys))
  PROVE  /\ IsFiniteSet(EntryPoints(receiver[a], keys)')
         /\ Cardinality(EntryPoints(receiver[a], keys)')
              = Cardinality(EntryPoints(receiver[a], keys)) + charge'[a]
  <1> DEFINE E == {a} \X {k} \X (1..charge'[a])
  <1>1. ASSUME NEW b \in Assignments, NEW j \in keys
        PROVE  /\ b # a => /\ j \in posted'[b] <=> j \in posted[b]
                           /\ charge'[b] = charge[b]
               /\ j \notin posted[a] /\ (j \in posted'[a] <=> j = k)
    BY <1>1
  <1>2. ASSUME NEW r, NEW x
        PROVE  /\ x \in EntryPoints(r, keys)' <=>
                    \E b \in Assignments, j \in keys : \E i \in 1..charge'[b] :
                      receiver[b] = r /\ j \in posted'[b] /\ x = <<b, j, i>>
               /\ x \in EntryPoints(r, keys) <=>
                    \E b \in Assignments, j \in keys : \E i \in 1..charge[b] :
                      receiver[b] = r /\ j \in posted[b] /\ x = <<b, j, i>>
    <2>1. x \in EntryPoints(r, keys) <=>
            \E b \in Assignments, j \in keys : \E i \in 1..charge[b] :
              receiver[b] = r /\ j \in posted[b] /\ x = <<b, j, i>>
      BY EntryMembers
    <2>2. x \in EntryPoints(r, keys)' <=>
            \E b \in Assignments, j \in keys : \E i \in 1..charge'[b] :
              receiver'[b] = r /\ j \in posted'[b] /\ x = <<b, j, i>>
      BY DEF EntryPoints
    <2> QED
      BY <2>1, <2>2
  <1>3. ASSUME NEW x
        PROVE  x \in E <=> \E i \in 1..charge'[a] : x = <<a, k, i>>
    OBVIOUS
  <1>4. EntryPoints(receiver[a], keys)' = EntryPoints(receiver[a], keys) \cup E
    <2>1. ASSUME NEW x \in E
          PROVE  x \in EntryPoints(receiver[a], keys)'
      BY <1>1, <1>2, <1>3, <2>1
    <2>2. ASSUME NEW x \in EntryPoints(receiver[a], keys)
          PROVE  x \in EntryPoints(receiver[a], keys)'
      <3>1. PICK b \in Assignments, j \in keys : \E i \in 1..charge[b] :
              receiver[b] = receiver[a] /\ j \in posted[b] /\ x = <<b, j, i>>
        BY <1>2, <2>2
      <3>2. b # a /\ j \in posted'[b] /\ charge'[b] = charge[b]
        BY <1>1, <3>1
      <3> QED
        BY <1>2, <3>1, <3>2
    <2>3. ASSUME NEW x \in EntryPoints(receiver[a], keys)', x \notin E
          PROVE  x \in EntryPoints(receiver[a], keys)
      <3>1. PICK b \in Assignments, j \in keys : \E i \in 1..charge'[b] :
              receiver[b] = receiver[a] /\ j \in posted'[b] /\ x = <<b, j, i>>
        BY <1>2, <2>3
      <3>2. b # a
        BY <1>1, <1>3, <2>3, <3>1
      <3> QED
        BY <1>1, <1>2, <3>1, <3>2
    <2> HIDE DEF E
    <2> QED
      BY <2>1, <2>2, <2>3
  <1>5. EntryPoints(receiver[a], keys) \cap E = {}
    <2>1. ASSUME NEW x \in E, x \in EntryPoints(receiver[a], keys)
          PROVE  FALSE
      <3>1. PICK i \in 1..charge'[a] : x = <<a, k, i>>
        BY <1>3, <2>1
      <3>2. PICK b \in Assignments, j \in keys : \E m \in 1..charge[b] :
              receiver[b] = receiver[a] /\ j \in posted[b] /\ x = <<b, j, m>>
        BY <1>2, <2>1
      <3>3. b = a
        BY <3>1, <3>2
      <3> QED
        BY <1>1, <3>2, <3>3
    <2> HIDE DEF E
    <2> QED
      BY <2>1
  <1>6. IsFiniteSet(E) /\ Cardinality(E) = charge'[a]
    BY EntryAmount
  <1> HIDE DEF E
  <1>7. /\ IsFiniteSet(EntryPoints(receiver[a], keys)')
        /\ Cardinality(EntryPoints(receiver[a], keys)')
             = Cardinality(EntryPoints(receiver[a], keys)) + charge'[a]
    <2> DEFINE P == EntryPoints(receiver[a], keys)
    <2>1. Cardinality(P \cap E) = 0 /\ Cardinality(P) \in Nat
      BY <1>5, FS_EmptySet, FS_CardinalityType
    <2>2. /\ IsFiniteSet(P \cup E)
          /\ Cardinality(P \cup E) = Cardinality(P) + Cardinality(E) - Cardinality(P \cap E)
      BY <1>6, FS_Union
    <2>3. Cardinality(P \cup E) = Cardinality(P) + charge'[a]
      BY <1>6, <2>1, <2>2
    <2> QED
      BY <1>4, <2>2, <2>3
  <1> QED
    BY <1>7

\* The sums of the other receivers do not change with it.
LEMMA SumOfOthers ==
  ASSUME NEW a \in Assignments, NEW keys, NEW r, r # receiver[a], receiver' = receiver,
         \A b \in Assignments \ {a} :
           posted'[b] \cap keys = posted[b] \cap keys /\ charge'[b] = charge[b]
  PROVE  EntryPoints(r, keys)' = EntryPoints(r, keys)
  <1>1. ASSUME NEW b \in Assignments, receiver[b] = r, NEW k \in keys
        PROVE  (k \in posted'[b] <=> k \in posted[b]) /\ charge'[b] = charge[b]
    BY <1>1
  <1>2. ASSUME NEW x
        PROVE  x \in EntryPoints(r, keys)' <=> x \in EntryPoints(r, keys)
    <2>1. x \in EntryPoints(r, keys)' <=>
            \E b \in Assignments, k \in keys : \E i \in 1..charge'[b] :
              receiver'[b] = r /\ k \in posted'[b] /\ x = <<b, k, i>>
      BY DEF EntryPoints
    <2>2. x \in EntryPoints(r, keys) <=>
            \E b \in Assignments, k \in keys : \E i \in 1..charge[b] :
              receiver[b] = r /\ k \in posted[b] /\ x = <<b, k, i>>
      BY EntryMembers
    <2> QED
      BY <1>1, <2>1, <2>2
  <1> QED
    BY <1>2
-----------------------------------------------------------------------------
\* The columns of a round, step by step.

\* The step leaves the columns alone that BookIsKept and the confirmation read
\* of a round, but for the status of a return that is neither rejected nor
\* approved.
ColumnsKept(b) ==
  /\ "claim" \in posted'[b] <=> "claim" \in posted[b]
  /\ "return" \in posted'[b] <=> "return" \in posted[b]
  /\ claimedAt'[b] = claimedAt[b] /\ dealAt'[b] = dealAt[b] /\ charge'[b] = charge[b]
  /\ submittedAt'[b] = submittedAt[b] /\ resumed'[b] = resumed[b]
  /\ paused'[b] = paused[b] /\ deadline'[b] = deadline[b]
  /\ status'[b] = "RETURNED" <=> status[b] = "RETURNED"
  /\ \/ request'[b] = request[b] /\ reviewedAt'[b] = reviewedAt[b]
     \/ {request[b], request'[b]} \cap {"REJECTED", "APPROVED"} = {}

\* What the reports show of a round as confirmed, they show after the step.
Steady(b) ==
  claimedAt[b] # 0 /\ SqlEffectiveAt(b) # 0 /\ SqlEffectiveAt(b) <= now =>
    claimedAt'[b] = claimedAt[b] /\ SqlEffectiveAt(b)' = SqlEffectiveAt(b)

\* The step keeps the book of the round, and what it shows.
Recorded(b) == BookIsKept(b)' /\ Steady(b)

LEMMA KeptIsRecorded ==
  ASSUME NEW b \in Assignments, BookIsKept(b), ColumnsKept(b), dealAt[b] \in Nat,
         now \in Nat, now' \in Nat, now' >= now
  PROVE  Recorded(b)
  <1>1. BookIsKept(b)'
    <2>1. dealAt'[b] # 0 => claimedAt'[b] # 0 /\ dealAt'[b] <= now'
      BY DEF BookIsKept, ColumnsKept
    <2>2. /\ request'[b] = "REJECTED" => reviewedAt'[b] # 0
          /\ request'[b] = "APPROVED" <=> status'[b] = "RETURNED"
      BY DEF BookIsKept, ColumnsKept
    <2> QED
      BY <2>1, <2>2 DEF BookIsKept, ColumnsKept
  <1>2. SqlRejectedAt(b)' = SqlRejectedAt(b)
    BY DEF ColumnsKept, SqlRejectedAt
  <1>3. SqlDeadline(b)' = SqlDeadline(b)
    BY DEF ColumnsKept, SqlDeadline, AppealDeadline
  <1>4. SqlEffectiveAt(b)' = SqlEffectiveAt(b)
    BY <1>2, <1>3 DEF ColumnsKept, SqlEffectiveAt, SqlManualFirst, SqlDeadlineEffective
  <1> QED
    BY <1>1, <1>4 DEF Recorded, Steady, ColumnsKept

\* The steps that leave the columns of every round alone.
LEMMA QuietColumns ==
  ASSUME Inv, NEW b \in Assignments,
         \/ Tick \/ FreezeSupply \/ \E p \in Prices : ChangePrice(p)
         \/ \E l \in Leads :
              \/ \E a \in Assignments, r \in Receivers : DispatchManually(l, a, r)
              \/ LeadOnly(l)
         \/ \E a \in Assignments :
              \/ RefusePendingAssignment(a) \/ ExpireAssignment(a) \/ FollowUp(a)
              \/ AddReturnEvidence(a) \/ AssignVerification(a) \/ StartVerification(a)
              \/ SettleDueReward(a) \/ ReverseReward(a)
         \/ UNCHANGED vars
  PROVE  ColumnsKept(b)
  <1> USE DEF leadVars, roundVars, clockVars, returnVars, moneyVars, envVars
  <1>1. TypeOK
    BY DEF Inv
  <1>2. UNCHANGED <<claimedAt, dealAt, charge, submittedAt, resumed, paused, deadline, request,
                    reviewedAt>>
    BY LeadOnlyLeaves
       DEF Tick, FreezeSupply, ChangePrice, DispatchManually, RefusePendingAssignment, ExpireAssignment,
       BackToPool, FollowUp, AddReturnEvidence, AssignVerification, StartVerification,
       TaskStep, SettleDueReward, ReverseReward, vars
  <1>3. \/ posted' = posted
        \/ \E a \in Assignments, k \in {"settle", "reverse"} :
             posted' = [posted EXCEPT ![a] = @ \cup {k}]
    BY LeadOnlyLeaves
       DEF Tick, FreezeSupply, ChangePrice, DispatchManually, RefusePendingAssignment, ExpireAssignment,
       BackToPool, FollowUp, AddReturnEvidence, AssignVerification, StartVerification,
       TaskStep, SettleDueReward, ReverseReward, PayReward, vars
  <1>4. \/ status' = status
        \/ \E a \in Assignments, s \in AssignmentStatuses \ {"RETURNED"} :
             status[a] # "RETURNED" /\ status' = [status EXCEPT ![a] = s]
    BY LeadOnlyLeaves
       DEF Tick, FreezeSupply, ChangePrice, DispatchManually, RefusePendingAssignment, ExpireAssignment,
       AwaitsClaim, BackToPool, FollowUp, MayFollow, AddReturnEvidence, AssignVerification,
       StartVerification, TaskStep, SettleDueReward, ReverseReward, AssignmentStatuses, vars
  <1>5. \A k \in {"claim", "return"} : k \in posted'[b] <=> k \in posted[b]
    BY <1>1, <1>3 DEF TypeOK
  <1>6. status'[b] = "RETURNED" <=> status[b] = "RETURNED"
    BY <1>1, <1>4 DEF TypeOK
  <1> QED
    BY <1>2, <1>5, <1>6 DEF ColumnsKept

\* The steps that move a return that is neither rejected nor approved.
LEMMA ReturnColumns ==
  ASSUME Inv, NEW b \in Assignments, NEW a \in Assignments,
         \/ CreateReturnDraft(a) \/ ExpireReturnDraft(a) \/ SubmitReturnTooLate(a)
         \/ ResubmitReturn(a) \/ \E v \in VerdictsOfTelesales : SubmitVerification(a, v)
         \/ RequireMoreEvidence(a)
  PROVE  ColumnsKept(b)
  <1> USE DEF leadVars, roundVars, clockVars, returnVars, moneyVars, envVars
  <1>1. TypeOK
    BY DEF Inv
  <1>2. UNCHANGED <<claimedAt, dealAt, charge, submittedAt, resumed, paused, deadline, posted>>
    BY DEF CreateReturnDraft, ExpireReturnDraft, SubmitReturnTooLate, ResubmitReturn,
       SubmitVerification, TaskStep, RequireMoreEvidence
  <1>3. \/ status' = status
        \/ status[a] = "RETURN_PENDING" /\ status' = [status EXCEPT ![a] = "RETURN_PENDING"]
    BY DEF CreateReturnDraft, ExpireReturnDraft, SubmitReturnTooLate, ResubmitReturn,
       OpenVerification, SubmitVerification, TaskStep, RequireMoreEvidence
  <1>4. /\ request[a] \notin {"REJECTED", "APPROVED"}
        /\ \E q \in {"DRAFT", "EXPIRED", "VERIFYING", "REVIEWING", "NEED_MORE"} :
             request' = [request EXCEPT ![a] = q]
    BY DEF CreateReturnDraft, ExpireReturnDraft, SubmitReturnTooLate, ResubmitReturn,
       OpenVerification, SubmitVerification, RequireMoreEvidence, Reviewable
  <1>5. \E t : reviewedAt' = [reviewedAt EXCEPT ![a] = t]
    <2>1. reviewedAt = [reviewedAt EXCEPT ![a] = reviewedAt[a]]
      BY <1>1 DEF TypeOK
    <2>2. reviewedAt' = reviewedAt \/ \E t : reviewedAt' = [reviewedAt EXCEPT ![a] = t]
      BY DEF CreateReturnDraft, ExpireReturnDraft, SubmitReturnTooLate, ResubmitReturn,
         OpenVerification, SubmitVerification, TaskStep, RequireMoreEvidence
    <2> QED
      BY <2>1, <2>2
  <1>6. status'[b] = "RETURNED" <=> status[b] = "RETURNED"
    BY <1>1, <1>3 DEF TypeOK
  <1>7. \/ request'[b] = request[b] /\ reviewedAt'[b] = reviewedAt[b]
        \/ {request[b], request'[b]} \cap {"REJECTED", "APPROVED"} = {}
    BY <1>1, <1>4, <1>5 DEF TypeOK
  <1> QED
    BY <1>2, <1>6, <1>7 DEF ColumnsKept

\* A release of a lead and its deletion.
LEMMA EndedColumns ==
  ASSUME Inv, TypeOK', NEW b \in Assignments, NEW l \in Leads,
         ReleaseCorrectedLead(l) \/ ReleaseMisdispatchedLead(l) \/ DeleteLead(l)
  PROVE  ColumnsKept(b)
  <1> USE DEF clockVars, returnVars, envVars
  <1>1. TypeOK
    BY DEF Inv
  <1>2. CASE ReleaseCorrectedLead(l) \/ ReleaseMisdispatchedLead(l)
    <2>1. PICK a \in Assignments, key \in {"correction", "misdispatch"} :
            ReleaseForRedispatch(l, a, key)
      BY <1>1, <1>2 DEF ReleaseCorrectedLead, ReleaseMisdispatchedLead, TypeOK
    <2>2. /\ UNCHANGED <<claimedAt, dealAt, charge, submittedAt, resumed, paused, deadline>>
          /\ posted' = posted \/ posted' = [posted EXCEPT ![a] = @ \cup {key}]
          /\ status[a] # "RETURNED" /\ status' = [status EXCEPT ![a] = "RELEASED"]
      BY <1>2, <2>1 DEF ReleaseForRedispatch, Releasable, Refund, ReleaseCorrectedLead,
         ReleaseMisdispatchedLead
    <2>3. \/ UNCHANGED <<request, reviewedAt>>
          \/ \E c \in Assignments :
               /\ request[c] = "DRAFT" /\ request' = [request EXCEPT ![c] = "EXPIRED"]
               /\ reviewedAt' = [reviewedAt EXCEPT ![c] = now]
      <3>1. current[l] # None => current[l] \in Assignments
        BY <1>1 DEF TypeOK
      <3> QED
        BY <1>2, <3>1 DEF ReleaseCorrectedLead, ReleaseMisdispatchedLead
    <2>4. \A k \in {"claim", "return"} : k \in posted'[b] <=> k \in posted[b]
      <3>1. key \notin {"claim", "return"}
        OBVIOUS
      <3>2. posted'[b] = posted[b] \/ posted'[b] = posted[b] \cup {key}
        BY <1>1, <2>2 DEF TypeOK
      <3> QED
        BY <3>1, <3>2
    <2>5. status'[b] = "RETURNED" <=> status[b] = "RETURNED"
      BY <1>1, <2>2 DEF TypeOK
    <2>6. \/ request'[b] = request[b] /\ reviewedAt'[b] = reviewedAt[b]
          \/ {request[b], request'[b]} \cap {"REJECTED", "APPROVED"} = {}
      BY <1>1, <2>3 DEF TypeOK
    <2> QED
      BY <2>2, <2>4, <2>5, <2>6 DEF ColumnsKept
  <1>3. CASE DeleteLead(l)
    <2>1. UNCHANGED <<claimedAt, dealAt, charge, submittedAt, resumed, paused, deadline>>
      BY <1>3 DEF DeleteLead
    <2>2. \A k \in {"claim", "return"} : k \in posted'[b] <=> k \in posted[b]
      BY <1>3 DEF DeleteLead
    <2>3. status'[b] = "RETURNED" <=> status[b] = "RETURNED"
      BY <1>3 DEF DeleteLead, ActiveStatuses
    <2>4. \/ request'[b] = request[b] /\ reviewedAt'[b] = reviewedAt[b]
          \/ {request[b], request'[b]} \cap {"REJECTED", "APPROVED"} = {}
      BY <1>3 DEF DeleteLead, OpenReturns
    <2> QED
      BY <2>1, <2>2, <2>3, <2>4 DEF ColumnsKept
  <1> QED
    BY <1>2, <1>3
\* What a step on one round starts from.
LEMMA RecordFacts ==
  ASSUME Inv, Clocks, Books, NEW a \in Assignments
  PROVE  /\ TypeOK /\ BookIsKept(a) /\ ClockInv(a) /\ RoundFollowsReturn(a)
         /\ now \in Nat \ {0} /\ dealAt[a] \in Nat /\ submittedAt[a] \in Nat
         /\ AppealDeadline(a) \in Nat
  BY DeadlineType DEF Inv, Clocks, ClockInv, Books, TypeOK

\* A step in no time on one round records what it records of that round.
LEMMA OneRoundRecorded ==
  ASSUME Inv, Clocks, Books, now' = now, NEW a \in Assignments, Recorded(a),
         \A b \in Assignments \ {a} : ColumnsKept(b), NEW b \in Assignments
  PROVE  Recorded(b)
  <1>1. CASE b = a
    BY <1>1
  <1>2. CASE b # a
    <2>1. ColumnsKept(b) /\ BookIsKept(b) /\ dealAt[b] \in Nat /\ now \in Nat /\ now <= now'
      BY <1>2, RecordFacts
    <2> QED
      BY <2>1, KeptIsRecorded
  <1> QED
    BY <1>1, <1>2

\* The claim: nothing was shown of the round before.
LEMMA ClaimRecorded ==
  ASSUME Inv, Clocks, Books, NEW a \in Assignments, ClaimAssignment(a), NEW b \in Assignments
  PROVE  Recorded(b)
  <1> USE DEF clockVars, returnVars, moneyVars, envVars
  <1>1. /\ TypeOK /\ BookIsKept(a) /\ ClockInv(a) /\ now \in Nat \ {0} /\ status[a] = "PENDING_CLAIM"
        /\ price \in Nat \ {0}
    BY RecordFacts, PointsAssumption DEF ClaimAssignment, AwaitsClaim, TypeOK
  <1>2. posted[a] = {} /\ claimedAt[a] = 0 /\ dealAt[a] = 0 /\ request[a] = "NONE" /\ ~resumed[a]
    BY <1>1, RoundFacts DEF LedgerFollowsRound, BookIsKept, ClockInv, ClockIsFresh
  <1>3. /\ status' = [status EXCEPT ![a] = "CLAIMED"]
        /\ posted' = [posted EXCEPT ![a] = @ \cup {"claim"}]
        /\ charge' = [charge EXCEPT ![a] = price]
        /\ claimedAt' = [claimedAt EXCEPT ![a] = now]
        /\ deadline' = [deadline EXCEPT ![a] = now + AppealWindow]
        /\ UNCHANGED <<now, dealAt, paused, resumed, request, reviewedAt, submittedAt>>
    BY DEF ClaimAssignment
  <1>4. BookIsKept(a)'
    <2>1. /\ status'[a] = "CLAIMED" /\ posted'[a] = {"claim"} /\ charge'[a] = price
          /\ claimedAt'[a] = now
      BY <1>1, <1>2, <1>3 DEF TypeOK
    <2> QED
      BY <1>1, <1>2, <1>3, <2>1 DEF BookIsKept
  <1>5. Recorded(a)
    BY <1>2, <1>4 DEF Recorded, Steady
  <1>6. ASSUME NEW c \in Assignments \ {a}
        PROVE  ColumnsKept(c)
    BY <1>1, <1>3 DEF ColumnsKept, TypeOK
  <1> QED
    BY <1>3, <1>5, <1>6, OneRoundRecorded

\* The deal: it confirms no earlier than the window did.
LEMMA DealRecorded ==
  ASSUME Inv, Clocks, Books, NEW a \in Assignments, Deal(a), NEW b \in Assignments
  PROVE  Recorded(b)
  <1> USE DEF clockVars, returnVars, moneyVars, envVars
  <1>1. /\ TypeOK /\ BookIsKept(a) /\ RoundFollowsReturn(a) /\ now \in Nat \ {0}
        /\ AppealDeadline(a) \in Nat /\ dealAt[a] \in Nat /\ submittedAt[a] \in Nat
        /\ status[a] \in {"CLAIMED", "FOLLOWING"}
    BY RecordFacts DEF Deal, MayFollow
  <1>2. claimedAt[a] # 0
    BY <1>1, RoundFacts DEF LedgerFollowsRound, BookIsKept, HeldStatuses
  <1>3. /\ status' = [status EXCEPT ![a] = "COMPLETED"]
        /\ dealAt' = [dealAt EXCEPT ![a] = IF dealAt[a] = 0 THEN now ELSE dealAt[a]]
        /\ UNCHANGED <<now, claimedAt, deadline, paused, resumed, request, reviewedAt,
                       submittedAt, charge>>
        /\ posted' = posted \/ posted' = [posted EXCEPT ![a] = @ \cup {"settle"}]
    BY DEF Deal, PayForDeal, PayReward
  <1>4. /\ status'[a] = "COMPLETED" /\ dealAt'[a] = IF dealAt[a] = 0 THEN now ELSE dealAt[a]
        /\ "claim" \in posted'[a] <=> "claim" \in posted[a]
        /\ "return" \in posted'[a] <=> "return" \in posted[a]
    BY <1>1, <1>3 DEF TypeOK
  <1>5. BookIsKept(a)'
    <2>1. dealAt'[a] # 0 => claimedAt'[a] # 0 /\ dealAt'[a] <= now'
      BY <1>1, <1>2, <1>3, <1>4 DEF BookIsKept
    <2> QED
      BY <1>1, <1>3, <1>4, <2>1 DEF BookIsKept
  <1>6. RoundFollowsReturn(a)'
    BY <1>1, <1>3, <1>4 DEF RoundFollowsReturn
  <1>7. Steady(a)
    <2> SUFFICES ASSUME SqlEffectiveAt(a) # 0, SqlEffectiveAt(a) <= now
                 PROVE  SqlEffectiveAt(a)' = SqlEffectiveAt(a)
      BY <1>3 DEF Steady
    <2>1. AppealDeadline(a) # 0 /\ SqlDeadline(a) = AppealDeadline(a)
      BY <1>1, <1>2, ClaimedHasDeadline
    <2>2. /\ SqlDeadline(a)' = SqlDeadline(a) /\ SqlRejectedAt(a)' = SqlRejectedAt(a)
          /\ SqlDeadlineEffective(a)' = SqlDeadlineEffective(a)
      BY <1>3 DEF SqlDeadline, AppealDeadline, SqlRejectedAt, SqlDeadlineEffective
    <2>3. CASE dealAt[a] # 0
      <3>1. dealAt'[a] = dealAt[a]
        BY <1>4, <2>3
      <3> QED
        BY <1>3, <2>2, <3>1 DEF SqlEffectiveAt, SqlManualFirst
    <2>4. CASE dealAt[a] = 0
      <3>1. ~SqlManualFirst(a)
        BY <2>4 DEF SqlManualFirst
      <3>2. SqlDeadlineEffective(a) /\ SqlEffectiveAt(a) = SqlDeadline(a)
        BY <1>1, <3>1, EffectiveParts, <2>1
      <3>3. SqlManualFirst(a)' => dealAt'[a] = SqlDeadline(a)
        <4>1. dealAt'[a] = now /\ SqlDeadline(a) <= now
          BY <1>4, <2>4, <3>2
        <4>2. SqlManualFirst(a)' => dealAt'[a] <= SqlDeadline(a)
          BY <2>1, <2>2 DEF SqlManualFirst
        <4> QED
          BY <1>1, <2>1, <4>1, <4>2
      <3>4. SqlEffectiveAt(a)' = IF SqlManualFirst(a)' THEN dealAt'[a] ELSE SqlDeadline(a)
        BY <2>2, <3>2 DEF SqlEffectiveAt
      <3> QED
        BY <3>2, <3>3, <3>4
    <2> QED
      BY <2>3, <2>4
  <1>8. ASSUME NEW c \in Assignments \ {a}
        PROVE  ColumnsKept(c)
    BY <1>1, <1>3 DEF ColumnsKept, TypeOK
  <1> QED
    BY <1>3, <1>5, <1>7, <1>8, OneRoundRecorded DEF Recorded

\* What is shown while the window still runs, or rests, is the deal.
LEMMA ShownIsDeal ==
  ASSUME Inv, Clocks, Books, NEW a \in Assignments, claimedAt[a] # 0,
         SqlEffectiveAt(a) # 0, SqlEffectiveAt(a) <= now, paused[a] \/ InWindow(a)
  PROVE  /\ SqlEffectiveAt(a) = dealAt[a] /\ dealAt[a] # 0 /\ dealAt[a] <= now
         /\ dealAt[a] <= AppealDeadline(a)
         /\ submittedAt[a] = 0 \/ dealAt[a] <= submittedAt[a] \/ RejectedAndResumed(a)
  <1>1. /\ TypeOK /\ BookIsKept(a) /\ RoundFollowsReturn(a) /\ now \in Nat
        /\ AppealDeadline(a) \in Nat
    BY RecordFacts
  <1>2. CASE SqlManualFirst(a)
    <2>1. DealConfirms(a) /\ SqlEffectiveAt(a) = dealAt[a]
      BY <1>1, <1>2, EffectiveParts
    <2> QED
      BY <2>1 DEF DealConfirms
  <1>3. CASE ~SqlManualFirst(a)
    <2>1. SqlDeadlineEffective(a) /\ SqlEffectiveAt(a) = AppealDeadline(a) /\ ~paused[a]
      BY <1>1, <1>3, EffectiveParts
    <2> QED
      BY <1>1, <2>1 DEF InWindow
  <1> QED
    BY <1>2, <1>3

\* The request of a rejected return is opened again while the window runs.
LEMMA ReopenRecorded ==
  ASSUME Inv, Clocks, Books, NEW a \in Assignments, ReopenReturnDraft(a), NEW b \in Assignments
  PROVE  Recorded(b)
  <1> USE DEF leadVars, roundVars, clockVars, moneyVars, envVars
  <1>1. /\ TypeOK /\ BookIsKept(a) /\ request[a] = "REJECTED" /\ InWindow(a)
        /\ request' = [request EXCEPT ![a] = "DRAFT"]
        /\ submittedAt' = [submittedAt EXCEPT ![a] = 0]
        /\ reviewedAt' = [reviewedAt EXCEPT ![a] = 0]
        /\ UNCHANGED <<now, status, posted, charge, claimedAt, dealAt, deadline, paused, resumed>>
    BY RecordFacts DEF ReopenReturnDraft
  <1>2. request'[a] = "DRAFT" /\ submittedAt'[a] = 0 /\ AppealDeadline(a)' = AppealDeadline(a)
    BY <1>1 DEF TypeOK, AppealDeadline
  <1>3. BookIsKept(a)'
    BY <1>1, <1>2 DEF BookIsKept
  <1>4. Steady(a)
    <2> SUFFICES ASSUME claimedAt[a] # 0, SqlEffectiveAt(a) # 0, SqlEffectiveAt(a) <= now
                 PROVE  SqlEffectiveAt(a)' = SqlEffectiveAt(a)
      BY <1>1 DEF Steady
    <2>1. SqlEffectiveAt(a) = dealAt[a] /\ dealAt[a] # 0 /\ dealAt[a] <= AppealDeadline(a)
      BY <1>1, ShownIsDeal
    <2> QED
      BY <1>1, <1>2, <2>1 DEF SqlEffectiveAt, SqlManualFirst, SqlDeadline
  <1>5. ASSUME NEW c \in Assignments \ {a}
        PROVE  ColumnsKept(c)
    BY <1>1 DEF ColumnsKept, TypeOK
  <1> QED
    BY <1>1, <1>3, <1>4, <1>5, OneRoundRecorded DEF Recorded

\* The submission pauses a window that still runs.
LEMMA SubmitRecorded ==
  ASSUME Inv, Clocks, Books, NEW a \in Assignments, SubmitReturn(a), NEW b \in Assignments
  PROVE  Recorded(b)
  <1> USE DEF leadVars, moneyVars, envVars
  <1>1. /\ TypeOK /\ BookIsKept(a) /\ now \in Nat \ {0} /\ AppealDeadline(a) \in Nat
        /\ request[a] = "DRAFT" /\ InWindow(a) /\ status[a] \in ReturnableStatuses
        /\ request' = [request EXCEPT ![a] = "VERIFYING"]
        /\ reviewedAt' = [reviewedAt EXCEPT ![a] = 0]
        /\ status' = [status EXCEPT ![a] = "RETURN_PENDING"]
        /\ submittedAt' = [submittedAt EXCEPT ![a] = now]
        /\ deadline' = [deadline EXCEPT ![a] = AppealDeadline(a)]
        /\ paused' = [paused EXCEPT ![a] = TRUE]
        /\ UNCHANGED <<now, posted, charge, claimedAt, dealAt, resumed>>
    BY RecordFacts DEF SubmitReturn, OpenVerification
  <1>2. /\ request'[a] = "VERIFYING" /\ submittedAt'[a] = now /\ status'[a] = "RETURN_PENDING"
        /\ deadline'[a] = AppealDeadline(a) /\ AppealDeadline(a)' = AppealDeadline(a)
    BY <1>1 DEF TypeOK, AppealDeadline
  <1>3. BookIsKept(a)'
    <2>1. status[a] # "RETURNED" /\ AppealDeadline(a) # 0
      BY <1>1 DEF ReturnableStatuses, InWindow
    <2> QED
      BY <1>1, <1>2, <2>1 DEF BookIsKept
  <1>4. Steady(a)
    <2> SUFFICES ASSUME claimedAt[a] # 0, SqlEffectiveAt(a) # 0, SqlEffectiveAt(a) <= now
                 PROVE  SqlEffectiveAt(a)' = SqlEffectiveAt(a)
      BY <1>1 DEF Steady
    <2>1. /\ SqlEffectiveAt(a) = dealAt[a] /\ dealAt[a] # 0 /\ dealAt[a] <= AppealDeadline(a)
          /\ dealAt[a] <= now
      BY <1>1, ShownIsDeal
    <2> QED
      BY <1>1, <1>2, <2>1 DEF SqlEffectiveAt, SqlManualFirst, SqlDeadline
  <1>5. ASSUME NEW c \in Assignments \ {a}
        PROVE  ColumnsKept(c)
    BY <1>1 DEF ColumnsKept, TypeOK
  <1> QED
    BY <1>1, <1>3, <1>4, <1>5, OneRoundRecorded DEF Recorded

\* The rejection lets the window go on: a deal shown came before the appeal.
LEMMA RejectRecorded ==
  ASSUME Inv, Clocks, Books, NEW a \in Assignments, RejectReturn(a), NEW b \in Assignments
  PROVE  Recorded(b)
  <1>1. /\ TypeOK /\ BookIsKept(a) /\ ClockInv(a) /\ now \in Nat \ {0} /\ request[a] = "REVIEWING"
        /\ remaining[a] \in Nat
    BY RecordFacts DEF RejectReturn, Reviewable, TypeOK
  <1>2. paused[a] /\ submittedAt[a] # 0 /\ status[a] = "RETURN_PENDING"
    BY <1>1, RoundFacts DEF ClockInv, ReturnPausesClock, ReturnHoldsRound, OpenReturns
  <1>3. PICK s \in ReturnableStatuses : status' = [status EXCEPT ![a] = s]
    BY DEF RejectReturn, RestoredStatus, ReturnableStatuses
  <1>4. /\ request' = [request EXCEPT ![a] = "REJECTED"]
        /\ reviewedAt' = [reviewedAt EXCEPT ![a] = now]
        /\ deadline' = [deadline EXCEPT ![a] = now + remaining[a]]
        /\ paused' = [paused EXCEPT ![a] = FALSE]
        /\ resumed' = [resumed EXCEPT ![a] = TRUE]
        /\ UNCHANGED <<now, charge, claimedAt, dealAt, submittedAt>>
        /\ posted' = posted \/ posted' = [posted EXCEPT ![a] = @ \cup {"settle"}]
    BY <1>2 DEF RejectReturn, ResumeWindow, PayReward, envVars
  <1>5. /\ status'[a] = s /\ request'[a] = "REJECTED" /\ reviewedAt'[a] = now
        /\ resumed'[a] /\ AppealDeadline(a)' = now + remaining[a] /\ deadline'[a] = now + remaining[a]
        /\ "claim" \in posted'[a] <=> "claim" \in posted[a]
        /\ "return" \in posted'[a] <=> "return" \in posted[a]
    BY <1>1, <1>3, <1>4 DEF TypeOK, AppealDeadline
  <1>6. BookIsKept(a)'
    <2>1. s # "RETURNED" /\ now + remaining[a] # 0
      BY <1>1 DEF ReturnableStatuses
    <2> QED
      BY <1>1, <1>2, <1>4, <1>5, <2>1 DEF BookIsKept
  <1>7. Steady(a)
    <2> SUFFICES ASSUME claimedAt[a] # 0, SqlEffectiveAt(a) # 0, SqlEffectiveAt(a) <= now
                 PROVE  SqlEffectiveAt(a)' = SqlEffectiveAt(a)
      BY <1>4 DEF Steady
    <2>1. /\ SqlEffectiveAt(a) = dealAt[a] /\ dealAt[a] # 0 /\ dealAt[a] <= now
          /\ dealAt[a] <= submittedAt[a]
      BY <1>1, <1>2, ShownIsDeal DEF RejectedAndResumed
    <2>2. dealAt[a] \in Nat /\ dealAt[a] <= now + remaining[a]
      BY <1>1, <2>1 DEF TypeOK
    <2> QED
      BY <1>4, <1>5, <2>1, <2>2 DEF SqlEffectiveAt, SqlManualFirst, SqlDeadline
  <1>8. ASSUME NEW c \in Assignments \ {a}
        PROVE  ColumnsKept(c)
    BY <1>1, <1>3, <1>4 DEF ColumnsKept, TypeOK
  <1> QED
    BY <1>4, <1>6, <1>7, <1>8, OneRoundRecorded DEF Recorded

\* The approval ends the round; a deal shown came before the appeal.
LEMMA ApproveRecorded ==
  ASSUME Inv, Clocks, Books, NEW a \in Assignments,
         ApproveReturn(a) \/ CorrectRegionAndRedispatch(a) \/ DirectInvalidReturn(a),
         NEW b \in Assignments
  PROVE  Recorded(b)
  <1>1. PICK e \in {"RELEASED", "CANCELLED"}, t \in {"CLOSED", "READY_DISPATCH", "PUBLIC_POOL"} :
          Approve(a, e, t)
    BY DEF ApproveReturn, CorrectRegionAndRedispatch, DirectInvalidReturn
  <1>2. TypeOK /\ BookIsKept(a) /\ ClockInv(a) /\ now \in Nat /\ request[a] \in {"REVIEWING", "VERIFYING"}
    BY RecordFacts DEF ApproveReturn, CorrectRegionAndRedispatch, DirectInvalidReturn, Reviewable
  <1>3. paused[a] /\ submittedAt[a] # 0
    BY <1>2 DEF ClockInv, ReturnPausesClock, OpenReturns
  <1>4. /\ status' = [status EXCEPT ![a] = "RETURNED"]
        /\ request' = [request EXCEPT ![a] = "APPROVED"]
        /\ reviewedAt' = [reviewedAt EXCEPT ![a] = now]
        /\ paused' = [paused EXCEPT ![a] = FALSE]
        /\ posted' = [posted EXCEPT ![a] = @ \cup {"return"} \cup ReversalOf(a)]
        /\ UNCHANGED <<now, charge, claimedAt, dealAt, submittedAt, deadline, resumed>>
    BY <1>1 DEF Approve, envVars
  <1>5. /\ status'[a] = "RETURNED" /\ request'[a] = "APPROVED"
        /\ "claim" \in posted'[a] <=> "claim" \in posted[a]
        /\ "return" \in posted'[a] /\ AppealDeadline(a)' = AppealDeadline(a)
    BY <1>2, <1>4 DEF TypeOK, AppealDeadline, ReversalOf
  <1>6. BookIsKept(a)'
    BY <1>2, <1>4, <1>5 DEF BookIsKept
  <1>7. Steady(a)
    <2> SUFFICES ASSUME claimedAt[a] # 0, SqlEffectiveAt(a) # 0, SqlEffectiveAt(a) <= now
                 PROVE  SqlEffectiveAt(a)' = SqlEffectiveAt(a)
      BY <1>4 DEF Steady
    <2>1. /\ SqlEffectiveAt(a) = dealAt[a] /\ dealAt[a] # 0 /\ dealAt[a] <= AppealDeadline(a)
          /\ dealAt[a] <= submittedAt[a]
      BY <1>2, <1>3, ShownIsDeal DEF RejectedAndResumed
    <2> QED
      BY <1>4, <1>5, <2>1 DEF SqlEffectiveAt, SqlManualFirst, SqlDeadline
  <1>8. ASSUME NEW c \in Assignments \ {a}
        PROVE  ColumnsKept(c)
    BY <1>2, <1>4 DEF ColumnsKept, TypeOK
  <1> QED
    BY <1>4, <1>6, <1>7, <1>8, OneRoundRecorded DEF Recorded

\* No step goes back in time.
LEMMA TimeGoesOn ==
  ASSUME Inv, Inv', [Next]_vars
  PROVE  now \in Nat /\ now' \in Nat /\ now <= now'
  <1>1. now \in Nat /\ now' \in Nat
    BY DEF Inv, TypeOK
  <1>2. CASE Tick
    BY <1>1, <1>2 DEF Tick
  <1>3. CASE FreezeSupply \/ (\E p \in Prices : ChangePrice(p)) \/ UNCHANGED vars
    BY <1>1, <1>3 DEF FreezeSupply, ChangePrice, vars, envVars
  <1>4. ASSUME NEW l \in Leads,
               \/ \E a \in Assignments, r \in Receivers : DispatchManually(l, a, r)
               \/ LeadOnly(l)
               \/ ReleaseCorrectedLead(l) \/ ReleaseMisdispatchedLead(l) \/ DeleteLead(l)
        PROVE  now' = now
    BY <1>4, LeadOnlyLeaves DEF envVars, DispatchManually, ReleaseCorrectedLead,
       ReleaseMisdispatchedLead, ReleaseForRedispatch, DeleteLead
  <1>5. ASSUME NEW a \in Assignments,
               \/ ClaimAssignment(a) \/ RefusePendingAssignment(a) \/ ExpireAssignment(a)
               \/ FollowUp(a) \/ Deal(a) \/ SettleDueReward(a) \/ ReverseReward(a)
               \/ ApproveReturn(a) \/ CorrectRegionAndRedispatch(a) \/ DirectInvalidReturn(a)
        PROVE  now' = now
    BY <1>5 DEF envVars, ClaimAssignment, RefusePendingAssignment, ExpireAssignment, BackToPool,
       FollowUp, Deal, SettleDueReward, ReverseReward, ApproveReturn,
       CorrectRegionAndRedispatch, DirectInvalidReturn, Approve
  <1>6. ASSUME NEW a \in Assignments,
               \/ CreateReturnDraft(a) \/ ReopenReturnDraft(a) \/ AddReturnEvidence(a)
               \/ ExpireReturnDraft(a) \/ SubmitReturn(a) \/ SubmitReturnTooLate(a)
               \/ ResubmitReturn(a) \/ AssignVerification(a) \/ StartVerification(a)
               \/ \E v \in VerdictsOfTelesales : SubmitVerification(a, v)
               \/ RequireMoreEvidence(a) \/ RejectReturn(a)
        PROVE  now' = now
    BY <1>6 DEF envVars, CreateReturnDraft, ReopenReturnDraft, AddReturnEvidence,
       ExpireReturnDraft, SubmitReturn, SubmitReturnTooLate, ResubmitReturn,
       AssignVerification, StartVerification, SubmitVerification, TaskStep,
       RequireMoreEvidence, RejectReturn
  <1> QED
    BY <1>1, <1>2, <1>3, <1>4, <1>5, <1>6 DEF Next, LeadOnly

LEMMA StepRecorded ==
  ASSUME Inv, Inv', Clocks, Books, [Next]_vars, NEW b \in Assignments
  PROVE  Recorded(b)
  <1>1. /\ TypeOK' /\ BookIsKept(b) /\ dealAt[b] \in Nat
        /\ now \in Nat /\ now' \in Nat /\ now <= now'
    BY RecordFacts, TimeGoesOn DEF Inv
  <1>2. ASSUME ColumnsKept(b)
        PROVE  Recorded(b)
    BY <1>1, <1>2, KeptIsRecorded
  <1>3. ASSUME NEW l \in Leads,
               ReleaseCorrectedLead(l) \/ ReleaseMisdispatchedLead(l) \/ DeleteLead(l)
        PROVE  Recorded(b)
    BY <1>1, <1>2, <1>3, EndedColumns
  <1>4. ASSUME NEW a \in Assignments,
               \/ ClaimAssignment(a) \/ Deal(a) \/ ReopenReturnDraft(a) \/ SubmitReturn(a)
               \/ RejectReturn(a) \/ ApproveReturn(a) \/ CorrectRegionAndRedispatch(a)
               \/ DirectInvalidReturn(a)
        PROVE  Recorded(b)
    BY <1>4, ClaimRecorded, DealRecorded, ReopenRecorded, SubmitRecorded, RejectRecorded,
       ApproveRecorded
  <1>5. ASSUME NEW a \in Assignments,
               \/ CreateReturnDraft(a) \/ ExpireReturnDraft(a) \/ SubmitReturnTooLate(a)
               \/ ResubmitReturn(a) \/ \E v \in VerdictsOfTelesales : SubmitVerification(a, v)
               \/ RequireMoreEvidence(a)
        PROVE  Recorded(b)
    BY <1>2, <1>5, ReturnColumns
  <1> QED
    BY <1>2, <1>3, <1>4, <1>5, QuietColumns DEF Next, LeadOnly

LEMMA InitBooks ==
  ASSUME Init
  PROVE  Books
  BY DEF Init, Books, BookIsKept

LEMMA AlwaysBooks == Spec => []Books
  <1>1. Inv /\ Inv' /\ Clocks /\ Books /\ [Next]_vars => Books'
    BY StepRecorded DEF Books, Recorded
  <1> QED
    BY <1>1, InitBooks, AlwaysInv, AlwaysClocks, PTL DEF Spec
-----------------------------------------------------------------------------
\* The account of a receiver and its ledger.

\* What a step does to the accounts: nothing, a claim, or one refund.
LedgerRests == balance' = balance /\ EntriesKept({"claim"}) /\ EntriesKept(RefundKeys)

ClaimBooked ==
  \E a \in Assignments :
    /\ posted[a] = {} /\ posted'[a] = {"claim"} /\ charge'[a] \in Nat
    /\ balance' = [balance EXCEPT ![receiver[a]] = @ - charge'[a]]
    /\ receiver' = receiver
    /\ \A b \in Assignments \ {a} : posted'[b] = posted[b] /\ charge'[b] = charge[b]

RefundBooked ==
  \E a \in Assignments, key \in RefundKeys :
    /\ posted[a] \cap RefundKeys = {} /\ posted'[a] \cap RefundKeys = {key}
    /\ posted'[a] \cap {"claim"} = posted[a] \cap {"claim"}
    /\ balance' = [balance EXCEPT ![receiver[a]] = @ + charge[a]]
    /\ receiver' = receiver /\ charge' = charge
    /\ \A b \in Assignments \ {a} : posted'[b] = posted[b]

\* The three ways keep an account equal to its ledger.
LEMMA AccountStep ==
  ASSUME TypeOK, NEW r \in Receivers, AccountFits(r), LedgerRests \/ ClaimBooked \/ RefundBooked
  PROVE  AccountFits(r)'
  <1> DEFINE C == EntryPoints(r, {"claim"})
             D == EntryPoints(r, RefundKeys)
  <1>1. /\ IsFiniteSet(C) /\ IsFiniteSet(D) /\ Cardinality(C) \in Nat /\ Cardinality(D) \in Nat
        /\ balance[r] + Cardinality(C) = Grant + Cardinality(D)
        /\ balance[r] \in Nat /\ Grant \in Nat
    BY FS_CardinalityType, PointsAssumption DEF AccountFits, TypeOK
  <1> SUFFICES /\ IsFiniteSet(C') /\ IsFiniteSet(D')
               /\ balance'[r] + Cardinality(C') = Grant + Cardinality(D')
    BY DEF AccountFits
  <1>2. CASE LedgerRests
    <2>1. C' = C /\ D' = D /\ balance'[r] = balance[r]
      BY <1>2, SumKept DEF LedgerRests
    <2> HIDE DEF C, D
    <2> QED
      BY <1>1, <2>1
  <1>3. CASE ClaimBooked
    <2>1. PICK a \in Assignments :
            /\ posted[a] = {} /\ posted'[a] = {"claim"} /\ charge'[a] \in Nat
            /\ balance' = [balance EXCEPT ![receiver[a]] = @ - charge'[a]]
            /\ receiver' = receiver
            /\ \A b \in Assignments \ {a} : posted'[b] = posted[b] /\ charge'[b] = charge[b]
      BY <1>3 DEF ClaimBooked
    <2>2. EntriesKept(RefundKeys)
      <3>1. {"claim"} \cap RefundKeys = {}
        BY DEF RefundKeys
      <3> QED
        BY <2>1, <3>1 DEF EntriesKept
    <2>3. D' = D
      BY <2>2, SumKept
    <2>4. CASE receiver[a] = r
      <3>1. IsFiniteSet(C') /\ Cardinality(C') = Cardinality(C) + charge'[a]
        BY <1>1, <2>1, <2>4, SumGrows
      <3>2. balance'[r] = balance[r] - charge'[a]
        BY <2>1, <2>4 DEF TypeOK
      <3> HIDE DEF C, D
      <3> QED
        BY <1>1, <2>1, <2>3, <3>1, <3>2
    <2>5. CASE receiver[a] # r
      <3>1. C' = C
        BY <2>1, <2>5, SumOfOthers
      <3>2. balance'[r] = balance[r]
        BY <2>1, <2>5 DEF TypeOK
      <3> HIDE DEF C, D
      <3> QED
        BY <1>1, <2>3, <3>1, <3>2
    <2> QED
      BY <2>4, <2>5
  <1>4. CASE RefundBooked
    <2>1. PICK a \in Assignments, key \in RefundKeys :
            /\ posted[a] \cap RefundKeys = {} /\ posted'[a] \cap RefundKeys = {key}
            /\ posted'[a] \cap {"claim"} = posted[a] \cap {"claim"}
            /\ balance' = [balance EXCEPT ![receiver[a]] = @ + charge[a]]
            /\ receiver' = receiver /\ charge' = charge
            /\ \A b \in Assignments \ {a} : posted'[b] = posted[b]
      BY <1>4 DEF RefundBooked
    <2>2. C' = C
      BY <2>1, SumKept DEF EntriesKept
    <2>3. charge'[a] \in Nat /\ charge'[a] = charge[a]
      BY <2>1 DEF TypeOK
    <2>4. CASE receiver[a] = r
      <3>1. IsFiniteSet(D') /\ Cardinality(D') = Cardinality(D) + charge'[a]
        BY <1>1, <2>1, <2>3, <2>4, SumGrows
      <3>2. balance'[r] = balance[r] + charge[a]
        BY <2>1, <2>4 DEF TypeOK
      <3> HIDE DEF C, D
      <3> QED
        BY <1>1, <2>2, <2>3, <3>1, <3>2
    <2>5. CASE receiver[a] # r
      <3>1. D' = D
        BY <2>1, <2>5, SumOfOthers
      <3>2. balance'[r] = balance[r]
        BY <2>1, <2>5 DEF TypeOK
      <3> HIDE DEF C, D
      <3> QED
        BY <1>1, <2>2, <3>1, <3>2
    <2> QED
      BY <2>4, <2>5
  <1> QED
    BY <1>2, <1>3, <1>4

\* Every step of the handlers is one of the three.
LEMMA StepBooked ==
  ASSUME Inv, Inv', [Next]_vars
  PROVE  LedgerRests \/ ClaimBooked \/ RefundBooked
  <1> USE DEF leadVars, roundVars, clockVars, returnVars, moneyVars, envVars
  <1>1. TypeOK /\ TypeOK'
    BY DEF Inv
  <1>2. ASSUME UNCHANGED <<balance, receiver, charge>>,
               \/ posted' = posted
               \/ \E a \in Assignments, k \in {"settle", "reverse"} :
                    posted' = [posted EXCEPT ![a] = @ \cup {k}]
        PROVE  LedgerRests
    <2>1. ASSUME NEW b \in Assignments
          PROVE  \/ posted'[b] = posted[b]
                 \/ \E k \in {"settle", "reverse"} : posted'[b] = posted[b] \cup {k}
      BY <1>1, <1>2 DEF TypeOK
    <2>2. ASSUME NEW b \in Assignments
          PROVE  /\ posted'[b] \cap {"claim"} = posted[b] \cap {"claim"}
                 /\ posted'[b] \cap RefundKeys = posted[b] \cap RefundKeys
      <3>1. CASE posted'[b] = posted[b]
        BY <3>1
      <3>2. CASE posted'[b] = posted[b] \cup {"settle"}
        BY <3>2 DEF RefundKeys
      <3>3. CASE posted'[b] = posted[b] \cup {"reverse"}
        BY <3>3 DEF RefundKeys
      <3> QED
        BY <2>1, <3>1, <3>2, <3>3
    <2> QED
      BY <1>2, <2>2 DEF LedgerRests, EntriesKept
  <1>3. ASSUME Tick \/ FreezeSupply \/ (\E p \in Prices : ChangePrice(p)) \/ UNCHANGED vars
        PROVE  LedgerRests
    BY <1>2, <1>3 DEF Tick, FreezeSupply, ChangePrice, vars
  <1>4. ASSUME NEW l \in Leads, LeadOnly(l)
        PROVE  LedgerRests
    BY <1>2, <1>4, LeadOnlyLeaves
  <1>5. ASSUME NEW a \in Assignments,
               \/ RefusePendingAssignment(a) \/ ExpireAssignment(a) \/ FollowUp(a) \/ Deal(a)
               \/ SettleDueReward(a) \/ ReverseReward(a) \/ RejectReturn(a)
        PROVE  LedgerRests
    <2>1. UNCHANGED <<balance, receiver, charge>>
      BY <1>5 DEF RefusePendingAssignment, ExpireAssignment, BackToPool, FollowUp, Deal,
         SettleDueReward, ReverseReward, RejectReturn
    <2>2. \/ posted' = posted
          \/ \E k \in {"settle", "reverse"} : posted' = [posted EXCEPT ![a] = @ \cup {k}]
      BY <1>5 DEF RefusePendingAssignment, ExpireAssignment, BackToPool, FollowUp, Deal,
         PayForDeal, SettleDueReward, ReverseReward, RejectReturn, PayReward
    <2> QED
      BY <1>2, <2>1, <2>2
  <1>6. ASSUME NEW a \in Assignments,
               \/ CreateReturnDraft(a) \/ ReopenReturnDraft(a) \/ AddReturnEvidence(a)
               \/ ExpireReturnDraft(a) \/ SubmitReturn(a) \/ SubmitReturnTooLate(a)
               \/ ResubmitReturn(a) \/ AssignVerification(a) \/ StartVerification(a)
               \/ \E v \in VerdictsOfTelesales : SubmitVerification(a, v)
               \/ RequireMoreEvidence(a)
        PROVE  LedgerRests
    BY <1>2, <1>6 DEF CreateReturnDraft, ReopenReturnDraft, AddReturnEvidence,
       ExpireReturnDraft, SubmitReturn, SubmitReturnTooLate, ResubmitReturn,
       AssignVerification, StartVerification, SubmitVerification, TaskStep, RequireMoreEvidence
  <1>7. ASSUME NEW l \in Leads, NEW a \in Assignments, NEW r \in Receivers,
               DispatchManually(l, a, r)
        PROVE  LedgerRests
    <2>1. posted[a] = {}
      BY <1>7, RoundFacts DEF DispatchManually, LedgerFollowsRound
    <2>2. receiver' = [receiver EXCEPT ![a] = r] /\ UNCHANGED <<balance, posted, charge>>
      BY <1>7 DEF DispatchManually
    <2> QED
      BY <1>1, <2>1, <2>2 DEF LedgerRests, EntriesKept, TypeOK
  <1>8. ASSUME NEW l \in Leads, DeleteLead(l)
        PROVE  LedgerRests
    <2>1. UNCHANGED <<balance, receiver, charge>>
      BY <1>8 DEF DeleteLead
    <2>2. \A b \in Assignments : posted'[b] = posted[b] \/ posted'[b] = posted[b] \cup {"settle"}
      BY <1>8 DEF DeleteLead
    <2> QED
      BY <2>1, <2>2 DEF LedgerRests, EntriesKept, RefundKeys
  <1>9. ASSUME NEW a \in Assignments, ClaimAssignment(a)
        PROVE  ClaimBooked
    <2>1. posted[a] = {}
      BY <1>9, RoundFacts DEF ClaimAssignment, AwaitsClaim, LedgerFollowsRound
    <2>2. /\ balance' = [balance EXCEPT ![receiver[a]] = @ - price]
          /\ charge' = [charge EXCEPT ![a] = price]
          /\ posted' = [posted EXCEPT ![a] = @ \cup {"claim"}]
          /\ receiver' = receiver
      BY <1>9 DEF ClaimAssignment
    <2>3. posted'[a] = {"claim"} /\ charge'[a] = price /\ price \in Nat
      BY <1>1, <2>1, <2>2, PointsAssumption DEF TypeOK
    <2>4. \A b \in Assignments \ {a} : posted'[b] = posted[b] /\ charge'[b] = charge[b]
      BY <1>1, <2>2 DEF TypeOK
    <2> QED
      BY <2>1, <2>2, <2>3, <2>4 DEF ClaimBooked
  <1>10. ASSUME NEW a \in Assignments,
                ApproveReturn(a) \/ CorrectRegionAndRedispatch(a) \/ DirectInvalidReturn(a)
         PROVE  RefundBooked
    <2>1. PICK e \in {"RELEASED", "CANCELLED"}, t \in {"CLOSED", "READY_DISPATCH", "PUBLIC_POOL"} :
            Approve(a, e, t)
      BY <1>10 DEF ApproveReturn, CorrectRegionAndRedispatch, DirectInvalidReturn
    <2>2. status[a] = "RETURN_PENDING"
      BY <1>10, RoundFacts DEF ApproveReturn, CorrectRegionAndRedispatch, DirectInvalidReturn,
         Reviewable, ReturnHoldsRound, OpenReturns
    <2>3. posted[a] \cap RefundKeys = {}
      BY <2>2, RoundFacts DEF RefundEndsRound, Refunds
    <2>4. "return" \in RefundKeys /\ "return" \notin posted[a]
      BY <2>3 DEF RefundKeys
    <2>5. /\ posted' = [posted EXCEPT ![a] = @ \cup {"return"} \cup ReversalOf(a)]
          /\ balance' = [balance EXCEPT ![receiver[a]] = @ + charge[a]]
          /\ UNCHANGED <<receiver, charge>>
      BY <2>1, <2>4 DEF Approve
    <2>6. posted'[a] = posted[a] \cup {"return"} \cup ReversalOf(a)
      BY <1>1, <2>5 DEF TypeOK
    <2>7. /\ posted'[a] \cap RefundKeys = {"return"}
          /\ posted'[a] \cap {"claim"} = posted[a] \cap {"claim"}
      BY <2>3, <2>6 DEF ReversalOf, RefundKeys
    <2>8. \A b \in Assignments \ {a} : posted'[b] = posted[b]
      BY <1>1, <2>5 DEF TypeOK
    <2> QED
      BY <2>3, <2>4, <2>5, <2>7, <2>8 DEF RefundBooked
  <1>11. ASSUME NEW l \in Leads, ReleaseCorrectedLead(l) \/ ReleaseMisdispatchedLead(l)
         PROVE  LedgerRests \/ RefundBooked
    <2>1. PICK a \in Assignments, key \in RefundKeys :
            /\ Releasable(a) /\ UNCHANGED <<receiver, charge>>
            /\ UNCHANGED <<posted, balance>> \/ Refund(a, key)
      BY <1>11, ReleasedRound
    <2>2. CASE UNCHANGED <<posted, balance>>
      BY <1>2, <2>1, <2>2
    <2>3. CASE Refund(a, key)
      <3>1. posted[a] \cap RefundKeys = {}
        BY <2>1, RoundFacts DEF RefundEndsRound, Refunds, Releasable
      <3>2. key \notin posted[a] /\ key # "claim"
        BY <3>1 DEF RefundKeys
      <3>3. /\ posted' = [posted EXCEPT ![a] = @ \cup {key}]
            /\ balance' = [balance EXCEPT ![receiver[a]] = @ + charge[a]]
        BY <2>3, <3>2 DEF Refund
      <3>4. posted'[a] = posted[a] \cup {key}
        BY <1>1, <3>3 DEF TypeOK
      <3>5. /\ posted'[a] \cap RefundKeys = {key}
            /\ posted'[a] \cap {"claim"} = posted[a] \cap {"claim"}
        BY <3>1, <3>2, <3>4
      <3>6. \A b \in Assignments \ {a} : posted'[b] = posted[b]
        BY <1>1, <3>3 DEF TypeOK
      <3> QED
        BY <2>1, <3>1, <3>3, <3>5, <3>6 DEF RefundBooked
    <2> QED
      BY <2>1, <2>2, <2>3
  <1> QED
    BY <1>3, <1>4, <1>5, <1>6, <1>7, <1>8, <1>9, <1>10, <1>11 DEF Next, LeadOnly

LEMMA InitAccounts ==
  ASSUME Init
  PROVE  Accounts
  <1>1. ASSUME NEW r, NEW keys
        PROVE  EntryPoints(r, keys) = {}
    <2>1. \A a \in Assignments : posted[a] = {}
      BY DEF Init
    <2>2. \A x : x \notin EntryPoints(r, keys)
      BY <2>1, EntryMembers
    <2> QED
      BY <2>2
  <1> QED
    BY <1>1, FS_EmptySet, PointsAssumption DEF Init, Accounts, AccountFits

LEMMA AlwaysAccounts == Spec => []Accounts
  <1>1. Inv /\ Inv' /\ Accounts /\ [Next]_vars => Accounts'
    BY StepBooked, AccountStep DEF Accounts, Inv
  <1> QED
    BY <1>1, InitAccounts, AlwaysInv, PTL DEF Spec

-----------------------------------------------------------------------------
\* The rows of the finance report.

\* The reports run on the same handlers, and stamp what is deleted.
LEMMA ReportsFollowHandlers == ReportSpec => Spec
  <1>1. ReportInit => Init
    BY DEF ReportInit
  <1>2. [ReportNext]_reportVars => [Next]_vars
    BY DEF ReportNext, reportVars
  <1> QED
    BY <1>1, <1>2, PTL DEF ReportSpec, Spec

LEMMA AlwaysStamped == ReportSpec => []StampsOK
  <1>1. ReportInit => StampsOK
    BY DEF ReportInit, StampsOK
  <1>2. ASSUME Inv, StampsOK, [ReportNext]_reportVars
        PROVE  StampsOK'
    <2>1. now \in Nat
      BY <1>2 DEF Inv, TypeOK
    <2> QED
      BY <1>2, <2>1 DEF StampsOK, ReportNext, StampDeletion, reportVars
  <1>3. Inv /\ StampsOK /\ [ReportNext]_reportVars => StampsOK'
    BY <1>2
  <1> QED
    BY <1>1, <1>3, ReportsFollowHandlers, AlwaysInv, PTL DEF ReportSpec

\* A round keeps the lead it was dispatched for.
LEMMA RoundKeepsLead ==
  ASSUME Inv, [Next]_vars, NEW b \in Assignments, leadOf[b] # None
  PROVE  leadOf'[b] = leadOf[b]
  <1> USE DEF leadVars, roundVars, clockVars, returnVars, moneyVars, envVars
  <1>1. ASSUME NEW l \in Leads, NEW a \in Assignments, NEW r \in Receivers,
               DispatchManually(l, a, r)
        PROVE  leadOf'[b] = leadOf[b]
    <2>1. b # a
      BY <1>1, RoundFacts DEF DispatchManually, RoundHasLead
    <2> QED
      BY <1>1, <2>1 DEF DispatchManually, Inv, TypeOK
  <1>2. ASSUME NEW l \in Leads,
               \/ LeadOnly(l)
               \/ ReleaseCorrectedLead(l) \/ ReleaseMisdispatchedLead(l) \/ DeleteLead(l)
        PROVE  leadOf' = leadOf
    BY <1>2, LeadOnlyLeaves DEF ReleaseCorrectedLead, ReleaseMisdispatchedLead,
       ReleaseForRedispatch, DeleteLead
  <1>3. ASSUME NEW a \in Assignments,
               \/ ClaimAssignment(a) \/ RefusePendingAssignment(a) \/ ExpireAssignment(a)
               \/ FollowUp(a) \/ Deal(a) \/ SettleDueReward(a) \/ ReverseReward(a)
               \/ ApproveReturn(a) \/ CorrectRegionAndRedispatch(a) \/ DirectInvalidReturn(a)
        PROVE  leadOf' = leadOf
    BY <1>3 DEF ClaimAssignment, RefusePendingAssignment, ExpireAssignment, BackToPool,
       FollowUp, Deal, SettleDueReward, ReverseReward, ApproveReturn,
       CorrectRegionAndRedispatch, DirectInvalidReturn, Approve
  <1>4. ASSUME NEW a \in Assignments,
               \/ CreateReturnDraft(a) \/ ReopenReturnDraft(a) \/ AddReturnEvidence(a)
               \/ ExpireReturnDraft(a) \/ SubmitReturn(a) \/ SubmitReturnTooLate(a)
               \/ ResubmitReturn(a) \/ AssignVerification(a) \/ StartVerification(a)
               \/ \E v \in VerdictsOfTelesales : SubmitVerification(a, v)
               \/ RequireMoreEvidence(a) \/ RejectReturn(a)
        PROVE  leadOf' = leadOf
    BY <1>4 DEF CreateReturnDraft, ReopenReturnDraft, AddReturnEvidence, ExpireReturnDraft,
       SubmitReturn, SubmitReturnTooLate, ResubmitReturn, AssignVerification,
       StartVerification, SubmitVerification, TaskStep, RequireMoreEvidence, RejectReturn
  <1>5. ASSUME Tick \/ FreezeSupply \/ (\E p \in Prices : ChangePrice(p)) \/ UNCHANGED vars
        PROVE  leadOf' = leadOf
    BY <1>5 DEF Tick, FreezeSupply, ChangePrice, vars
  <1> QED
    BY <1>1, <1>2, <1>3, <1>4, <1>5 DEF Next, LeadOnly

\* A row of the report stays, whatever happens to the round and to its lead.
LEMMA RowKept ==
  ASSUME Inv, Inv', Clocks, Books, StampsOK, [ReportNext]_reportVars,
         NEW a \in Assignments, FlowRow(a)
  PROVE  FlowRow(a)'
  <1> DEFINE l == leadOf[a]
  <1>1. [Next]_vars
    BY DEF ReportNext, reportVars
  <1>2. /\ l # None /\ claimedAt[a] # 0 /\ SqlEffectiveAt(a) # 0 /\ SqlEffectiveAt(a) <= now
        /\ LeadOpen(a) \/ SqlEffectiveAt(a) <= deletedAt[l]
    BY DEF FlowRow
  <1>3. claimedAt'[a] = claimedAt[a] /\ SqlEffectiveAt(a)' = SqlEffectiveAt(a)
    BY <1>1, <1>2, StepRecorded DEF Recorded, Steady
  <1>4. leadOf'[a] = l /\ l \in Leads
    BY <1>1, <1>2, RoundKeepsLead DEF Inv, TypeOK
  <1>5. SqlEffectiveAt(a) \in Nat /\ SqlEffectiveAt(a) <= now'
    <2>1. SqlEffectiveAt(a) \in Nat
      BY RecordFacts, SqlIsResolved
    <2> QED
      BY <1>1, <1>2, <2>1, TimeGoesOn
  <1>6. LeadOpen(a)' \/ SqlEffectiveAt(a) <= deletedAt'[l]
    <2>1. CASE LeadOpen(a)'
      BY <2>1
    <2>2. CASE ~LeadOpen(a)' /\ LeadOpen(a)
      <3>1. leadStatus[l] # "DELETED" /\ leadStatus'[l] = "DELETED"
        BY <1>2, <1>4, <2>2 DEF LeadOpen
      <3>2. deletedAt'[l] = now
        BY <1>4, <3>1 DEF ReportNext, StampDeletion, reportVars, vars, leadVars
      <3> QED
        BY <1>2, <3>2
    <2>3. CASE ~LeadOpen(a)
      <3>1. leadStatus[l] = "DELETED"
        BY <1>2, <2>3 DEF LeadOpen
      <3>2. deletedAt'[l] = deletedAt[l]
        BY <1>4, <3>1 DEF ReportNext, StampDeletion, reportVars
      <3> QED
        BY <1>2, <2>3, <3>2
    <2> QED
      BY <2>1, <2>2, <2>3
  <1> QED
    BY <1>2, <1>3, <1>4, <1>5, <1>6 DEF FlowRow

\* What the settlement would pay is a row of the report.
ConfirmedAreRows == \A a \in Assignments : Confirmed(a) /\ LeadOpen(a) => FlowRow(a)

LEMMA BooksMakeRows ==
  ASSUME Inv, Clocks, Books
  PROVE  ConfirmedAreRows
  BY RecordFacts, ConfirmedIsRow DEF ConfirmedAreRows

\* Who pays a supplier pays for a row: the deal and the rejection for one of
\* the state they leave, the settlement job and the deletion for one they found.
LEMMA PaidStep ==
  ASSUME Inv, Inv', Clocks, Books, StampsOK, ConfirmedAreRows, ConfirmedAreRows',
         PaidIsShown, [ReportNext]_reportVars
  PROVE  PaidIsShown'
  <1> SUFFICES ASSUME NEW b \in Assignments, "settle" \in posted'[b]
               PROVE  FlowRow(b)'
    BY DEF PaidIsShown
  <1> USE DEF leadVars, roundVars, clockVars, returnVars, moneyVars, envVars
  <1>1. TypeOK /\ TypeOK' /\ [Next]_vars
    BY DEF Inv, ReportNext, reportVars
  <1>2. ASSUME FlowRow(b)
        PROVE  FlowRow(b)'
    BY <1>2, RowKept
  <1>3. ASSUME "settle" \in posted[b]
        PROVE  FlowRow(b)'
    BY <1>2, <1>3 DEF PaidIsShown
  <1>4. ASSUME NEW a \in Assignments, NEW K \in SUBSET (LedgerKeys \ {"settle"}),
               posted' = [posted EXCEPT ![a] = @ \cup K]
        PROVE  FlowRow(b)'
    BY <1>1, <1>3, <1>4 DEF TypeOK
  <1>5. ASSUME NEW a \in Assignments, Deal(a) \/ RejectReturn(a)
        PROVE  FlowRow(b)'
    <2>1. posted' = posted \/ (posted' = [posted EXCEPT ![a] = @ \cup {"settle"}] /\ Confirmed(a)')
      BY <1>5 DEF Deal, PayForDeal, RejectReturn, PayReward
    <2>2. leadOf' = leadOf /\ leadOf[a] \in Leads /\ leadStatus'[leadOf[a]] # "DELETED"
      <3>1. leadOf[a] \in Leads
        BY <1>1, <1>5, RoundFacts, NoneAssumption
           DEF Deal, MayFollow, RejectReturn, Reviewable, LeadOpen, RoundHasLead, TypeOK
      <3> QED
        BY <1>1, <1>5, <3>1 DEF Deal, RejectReturn, TypeOK
    <2>3. LeadOpen(a)'
      BY <2>2, NoneAssumption DEF LeadOpen
    <2>4. CASE posted' = posted
      BY <1>3, <2>4
    <2>5. CASE posted' = [posted EXCEPT ![a] = @ \cup {"settle"}] /\ Confirmed(a)'
      <3>1. CASE b = a
        BY <2>3, <2>5, <3>1 DEF ConfirmedAreRows
      <3>2. CASE b # a
        BY <1>1, <1>3, <2>5, <3>2 DEF TypeOK
      <3> QED
        BY <3>1, <3>2
    <2> QED
      BY <2>1, <2>4, <2>5
  <1>6. ASSUME NEW a \in Assignments, SettleDueReward(a)
        PROVE  FlowRow(b)'
    <2>1. LeadOpen(a) /\ (AppealActive(a) \/ Confirmed(a))
      BY <1>6 DEF SettleDueReward, SelectedAsDue, Settleable
    <2>2. \/ posted' = posted
          \/ Confirmed(a) /\ posted' = [posted EXCEPT ![a] = @ \cup {"settle"}]
      BY <1>6, <2>1 DEF SettleDueReward, PayReward
    <2>3. CASE posted' = posted
      BY <1>3, <2>3
    <2>4. CASE Confirmed(a) /\ posted' = [posted EXCEPT ![a] = @ \cup {"settle"}]
      <3>1. FlowRow(a)
        BY <2>1, <2>4 DEF ConfirmedAreRows
      <3>2. b = a \/ "settle" \in posted[b]
        BY <1>1, <2>4 DEF TypeOK
      <3> QED
        BY <1>2, <1>3, <3>1, <3>2
    <2> QED
      BY <2>2, <2>3, <2>4
  <1>7. ASSUME NEW l \in Leads, DeleteLead(l)
        PROVE  FlowRow(b)'
    <2>1. \/ posted'[b] = posted[b]
          \/ leadOf[b] = l /\ Confirmed(b) /\ leadStatus[l] # "DELETED"
      BY <1>7 DEF DeleteLead, RoundsOf
    <2>2. CASE leadOf[b] = l /\ Confirmed(b) /\ leadStatus[l] # "DELETED"
      BY <1>2, <2>2, NoneAssumption DEF ConfirmedAreRows, LeadOpen
    <2> QED
      BY <1>3, <2>1, <2>2
  <1>8. ASSUME NEW l \in Leads,
               \/ \E a \in Assignments, r \in Receivers : DispatchManually(l, a, r)
               \/ LeadOnly(l)
        PROVE  FlowRow(b)'
    BY <1>3, <1>8, LeadOnlyLeaves DEF DispatchManually
  <1>9. ASSUME NEW l \in Leads, ReleaseCorrectedLead(l) \/ ReleaseMisdispatchedLead(l)
        PROVE  FlowRow(b)'
    <2>1. PICK a \in Assignments, key \in RefundKeys : posted' = posted \/ Refund(a, key)
      BY <1>9, ReleasedRound
    <2>2. {key} \in SUBSET (LedgerKeys \ {"settle"})
      BY DEF LedgerKeys, RefundKeys
    <2>3. posted' = posted \/ posted' = [posted EXCEPT ![a] = @ \cup {key}]
      BY <2>1 DEF Refund
    <2> QED
      BY <1>3, <1>4, <2>2, <2>3
  <1>10. ASSUME NEW a \in Assignments,
                ApproveReturn(a) \/ CorrectRegionAndRedispatch(a) \/ DirectInvalidReturn(a)
         PROVE  FlowRow(b)'
    <2>1. posted' = [posted EXCEPT ![a] = @ \cup {"return"} \cup ReversalOf(a)]
      BY <1>10 DEF ApproveReturn, CorrectRegionAndRedispatch, DirectInvalidReturn, Approve
    <2>2. "settle" \notin {"return"} \cup ReversalOf(a)
      BY DEF ReversalOf
    <2>3. "settle" \in posted[b]
      BY <1>1, <2>1, <2>2 DEF TypeOK
    <2> QED
      BY <1>3, <2>3
  <1>11. ASSUME NEW a \in Assignments, ClaimAssignment(a) \/ ReverseReward(a)
         PROVE  FlowRow(b)'
    <2>1. "settle" \in posted[b]
      BY <1>1, <1>11 DEF ClaimAssignment, ReverseReward, TypeOK
    <2> QED
      BY <1>3, <2>1
  <1>12. ASSUME NEW a \in Assignments,
                \/ RefusePendingAssignment(a) \/ ExpireAssignment(a) \/ FollowUp(a)
                \/ CreateReturnDraft(a) \/ ReopenReturnDraft(a) \/ AddReturnEvidence(a)
                \/ ExpireReturnDraft(a) \/ SubmitReturn(a) \/ SubmitReturnTooLate(a)
                \/ ResubmitReturn(a) \/ AssignVerification(a) \/ StartVerification(a)
                \/ \E v \in VerdictsOfTelesales : SubmitVerification(a, v)
                \/ RequireMoreEvidence(a)
         PROVE  FlowRow(b)'
    BY <1>3, <1>12 DEF RefusePendingAssignment, ExpireAssignment, BackToPool, FollowUp,
       CreateReturnDraft, ReopenReturnDraft, AddReturnEvidence, ExpireReturnDraft,
       SubmitReturn, SubmitReturnTooLate, ResubmitReturn, AssignVerification,
       StartVerification, SubmitVerification, TaskStep, RequireMoreEvidence
  <1>13. ASSUME Tick \/ FreezeSupply \/ (\E p \in Prices : ChangePrice(p)) \/ UNCHANGED vars
         PROVE  FlowRow(b)'
    BY <1>3, <1>13 DEF Tick, FreezeSupply, ChangePrice, vars
  <1> QED
    BY <1>1, <1>5, <1>6, <1>7, <1>8, <1>9, <1>10, <1>11, <1>12, <1>13 DEF Next, LeadOnly

LEMMA AlwaysPaidIsShown == ReportSpec => []PaidIsShown
  <1>1. ReportInit => PaidIsShown
    BY DEF ReportInit, Init, PaidIsShown
  <1>2. Inv /\ Clocks /\ Books => ConfirmedAreRows
    BY BooksMakeRows
  <1>3. Inv /\ Inv' /\ Clocks /\ Books /\ StampsOK /\ ConfirmedAreRows /\ ConfirmedAreRows'
          /\ PaidIsShown /\ [ReportNext]_reportVars => PaidIsShown'
    BY PaidStep
  <1> QED
    BY <1>1, <1>2, <1>3, ReportsFollowHandlers, AlwaysInv, AlwaysClocks, AlwaysBooks,
       AlwaysStamped, PTL DEF ReportSpec

-----------------------------------------------------------------------------
\* The desks.

\* A step on the return of one round moves request and task together.
LEMMA DesksStep ==
  ASSUME Inv, DesksAgree, [Next]_vars
  PROVE  DesksAgree'
  <1>1. /\ DOMAIN request = Assignments /\ DOMAIN task = Assignments
    BY DEF Inv, TypeOK
  <1>2. ASSUME NEW a \in Assignments,
               \/ CreateReturnDraft(a) \/ ReopenReturnDraft(a) \/ AddReturnEvidence(a)
               \/ ExpireReturnDraft(a) \/ SubmitReturn(a) \/ SubmitReturnTooLate(a)
               \/ ResubmitReturn(a)
        PROVE  DesksAgree'
    BY <1>1, <1>2 DEF DesksAgree, CreateReturnDraft, ReopenReturnDraft, AddReturnEvidence,
       ExpireReturnDraft, SubmitReturn, SubmitReturnTooLate, ResubmitReturn, OpenVerification
  <1>3. ASSUME NEW a \in Assignments,
               \/ AssignVerification(a) \/ StartVerification(a)
               \/ \E v \in VerdictsOfTelesales : SubmitVerification(a, v)
        PROVE  DesksAgree'
    BY <1>1, <1>3 DEF DesksAgree, AssignVerification, StartVerification, SubmitVerification,
       TaskStep
  <1>4. ASSUME NEW a \in Assignments,
               RequireMoreEvidence(a) \/ RejectReturn(a)
        PROVE  DesksAgree'
    BY <1>1, <1>4 DEF DesksAgree, RequireMoreEvidence, RejectReturn, Reviewable
  <1>5. ASSUME NEW a \in Assignments,
               ApproveReturn(a) \/ CorrectRegionAndRedispatch(a) \/ DirectInvalidReturn(a)
        PROVE  DesksAgree'
    BY <1>1, <1>5 DEF DesksAgree, ApproveReturn, CorrectRegionAndRedispatch,
       DirectInvalidReturn, Approve
  <1>6. ASSUME NEW l \in Leads,
               \/ ReleaseCorrectedLead(l) \/ ReleaseMisdispatchedLead(l) \/ DeleteLead(l)
        PROVE  DesksAgree'
    BY <1>1, <1>6 DEF DesksAgree, ReleaseCorrectedLead, ReleaseMisdispatchedLead, DeleteLead,
       OpenReturns, returnVars
  <1>7. ASSUME UNCHANGED <<request, task>>
        PROVE  DesksAgree'
    BY <1>7 DEF DesksAgree
  <1>8. ASSUME NEW l \in Leads,
               \/ \E a \in Assignments, r \in Receivers : DispatchManually(l, a, r)
               \/ LeadOnly(l)
        PROVE  UNCHANGED <<request, task>>
    BY <1>8, LeadOnlyLeaves DEF DispatchManually, returnVars
  <1>10. ASSUME NEW a \in Assignments,
               \/ ClaimAssignment(a) \/ RefusePendingAssignment(a) \/ ExpireAssignment(a)
               \/ FollowUp(a) \/ Deal(a) \/ SettleDueReward(a) \/ ReverseReward(a)
         PROVE  UNCHANGED <<request, task>>
    BY <1>10 DEF ClaimAssignment, RefusePendingAssignment, ExpireAssignment, BackToPool,
       FollowUp, Deal, SettleDueReward, ReverseReward, returnVars
  <1>9. ASSUME Tick \/ FreezeSupply \/ (\E p \in Prices : ChangePrice(p)) \/ UNCHANGED vars
        PROVE  UNCHANGED <<request, task>>
    BY <1>9 DEF Tick, FreezeSupply, ChangePrice, vars, returnVars
  <1> QED
    BY <1>2, <1>3, <1>4, <1>5, <1>6, <1>7, <1>8, <1>9, <1>10 DEF Next, LeadOnly

LEMMA AlwaysDesksAgree == Spec => []DesksAgree
  <1>1. Init => DesksAgree
    BY DEF Init, DesksAgree
  <1>2. Inv /\ DesksAgree /\ [Next]_vars => DesksAgree'
    BY DesksStep
  <1> QED
    BY <1>1, <1>2, AlwaysInv, PTL DEF Spec

-----------------------------------------------------------------------------
\* The theorems.

\* The reconciliation before a release has nothing to report of what the
\* handlers did: the balances are the sums of the ledger, and rewards and
\* refunds have their entries.
THEOREM NothingToReconcile == ReportSpec => []ReconciliationFindsNothing
  <1>1. Inv /\ Books /\ Accounts => ReconciliationFindsNothing
    BY InvariantsReconcile
  <1> QED
    BY <1>1, ReportsFollowHandlers, AlwaysInv, AlwaysBooks, AlwaysAccounts, PTL

\* Lists, reports, trace and settlement mean the same by a confirmed round.
THEOREM OneConfirmation == ReportSpec => []ConfirmationsAgree
  <1>1. Inv /\ Clocks /\ Books /\ StampsOK => ConfirmationsAgree
    BY InvariantsMakeConfirmationsAgree
  <1> QED
    BY <1>1, ReportsFollowHandlers, AlwaysInv, AlwaysClocks, AlwaysBooks, AlwaysStamped, PTL

\* The numbers of the company, supplier, finance, operations and management
\* reports are of the same rounds, but for a deal whose lead was reopened, which
\* the report of operations no longer shows.
THEOREM NumbersAgree == ReportSpec => []CountsAgree
  <1>1. Inv /\ Clocks /\ Books /\ PaidIsShown /\ DesksAgree => CountsAgree
    BY InvariantsMakeCountsAgree
  <1> QED
    BY <1>1, ReportsFollowHandlers, AlwaysInv, AlwaysClocks, AlwaysBooks,
       AlwaysPaidIsShown, AlwaysDesksAgree, PTL

\* The phone of a lead is shown to the receiver that paid for it, and beside it
\* only to one that made a deal before the lead was reopened.
THEOREM ContactGoesWithPayment == ReportSpec => []ContactIsPaidFor
  <1>1. Inv => ContactIsPaidFor
    BY InvariantsMakeContactPaid
  <1> QED
    BY <1>1, ReportsFollowHandlers, AlwaysInv, PTL

\* What the finance report has shown it shows for ever.
THEOREM RowsStay == ReportSpec => ConfirmedRowsStay
  <1>1. ASSUME Inv, Inv', Clocks, Books, StampsOK, [ReportNext]_reportVars
        PROVE  \A a \in Assignments : FlowRow(a) => FlowRow(a)'
    BY <1>1, RowKept
  <1>2. Inv /\ Inv' /\ Clocks /\ Books /\ StampsOK /\ [ReportNext]_reportVars =>
          [\A a \in Assignments : FlowRow(a) => FlowRow(a)']_reportVars
    BY <1>1
  <1> QED
    BY <1>2, ReportsFollowHandlers, AlwaysInv, AlwaysClocks, AlwaysBooks, AlwaysStamped, PTL
       DEF ReportSpec, ConfirmedRowsStay
=============================================================================
