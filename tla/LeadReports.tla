----------------------------- MODULE LeadReports -----------------------------
(***************************************************************************)
(* What the platform shows of the rounds of LeadLifecycle: the lists and   *)
(* details of the receivers, the reports of operations, finance and the    *)
(* companies, the trace of a lead, and the release reconciliation          *)
(* (routers/v12_dispatch.py, routers/v12_insights.py,                      *)
(* services/reconciliation_v12.py, the report form of the confirmation in  *)
(* services/supplier_reward_v12.py).                                       *)
(*                                                                         *)
(* A view changes nothing, so it is an operator on the state.  The same    *)
(* fact reaches the reader by several ways, written separately: a          *)
(* confirmation is computed by SQL for the reports and by Python for the   *)
(* trace and the settlement; a refund is a ledger entry, a number on the   *)
(* return request and a status of the round.  The properties compare them. *)
(***************************************************************************)
EXTENDS LeadLifecycle

CONSTANT RewardPoints  \* points of a supplier's reward

ASSUME RewardAssumption == RewardPoints \in Nat

VARIABLE deletedAt     \* deletedAt[l]: lead.deleted_at, 0 for NULL

reportVars == <<vars, deletedAt>>

ReportInit == Init /\ deletedAt = [l \in Leads |-> 0]

\* delete_operation_lead stamps the lead it deletes; nothing else does.
StampDeletion ==
  deletedAt' = [l \in Leads |->
    IF leadStatus[l] # "DELETED" /\ leadStatus'[l] = "DELETED" THEN now ELSE deletedAt[l]]

ReportNext == Next /\ StampDeletion

ReportSpec == ReportInit /\ [][ReportNext]_reportVars

-----------------------------------------------------------------------------
\* When a round became effective, for the reports and for the trace.

\* The window's end in SQL; a round not claimed has none.
SqlDeadline(a) == IF claimedAt[a] = 0 THEN 0 ELSE AppealDeadline(a)

\* The rejection a round ended its appeal with.
SqlRejectedAt(a) == IF request[a] = "REJECTED" THEN reviewedAt[a] ELSE 0

SqlManualFirst(a) ==
  /\ dealAt[a] # 0
  /\ SqlDeadline(a) = 0 \/ dealAt[a] <= SqlDeadline(a)
  /\ \/ submittedAt[a] = 0
     \/ dealAt[a] <= submittedAt[a]
     \/ resumed[a] /\ SqlRejectedAt(a) # 0 /\ SqlRejectedAt(a) <= dealAt[a]

\* Fault: the report counts a window that an appeal has stopped.
SqlDeadlineWhilePaused(a) ==
  /\ SqlDeadline(a) # 0
  /\ \/ submittedAt[a] = 0 \/ submittedAt[a] > SqlDeadline(a) \/ paused[a]
     \/ resumed[a] /\ SqlRejectedAt(a) # 0

SqlDeadlineEffective(a) ==
  /\ SqlDeadline(a) # 0
  /\ ~paused[a]
  /\ \/ submittedAt[a] = 0 \/ submittedAt[a] > SqlDeadline(a)
     \/ resumed[a] /\ SqlRejectedAt(a) # 0

\* confirmation_sql_expressions.effective_at; it may lie in the future.
SqlEffectiveAt(a) ==
  CASE SqlManualFirst(a)                        -> dealAt[a]
    [] ~SqlManualFirst(a) /\ SqlDeadlineEffective(a) -> SqlDeadline(a)
    [] OTHER -> IF resumed[a] THEN 0 ELSE SqlRejectedAt(a)

\* resolve_effective_confirmation(as_of = t).effective_at
ResolvedAt(a, t) ==
  LET manual == /\ dealAt[a] # 0 /\ dealAt[a] <= AppealDeadline(a)
                /\ \/ submittedAt[a] = 0
                   \/ dealAt[a] <= submittedAt[a]
                   \/ RejectedAndResumed(a) /\ reviewedAt[a] <= dealAt[a]
                /\ dealAt[a] <= t
      window == /\ AppealDeadline(a) <= t /\ ~paused[a]
                /\ submittedAt[a] = 0 \/ submittedAt[a] > AppealDeadline(a)
                                      \/ RejectedAndResumed(a)
      rejection == /\ submittedAt[a] # 0 /\ request[a] = "REJECTED"
                   /\ reviewedAt[a] <= t /\ ~resumed[a]
  IN CASE claimedAt[a] = 0 -> 0
       [] claimedAt[a] # 0 /\ manual -> dealAt[a]
       [] claimedAt[a] # 0 /\ ~manual /\ window -> AppealDeadline(a)
       [] claimedAt[a] # 0 /\ ~manual /\ ~window /\ rejection -> reviewedAt[a]
       [] OTHER -> 0

\* _assignment_confirmation_expressions: what the receiver's lists show.
ListConfirmedAt(a) == IF SqlEffectiveAt(a) <= now THEN SqlEffectiveAt(a) ELSE 0

\* _trace resolves the confirmation as of the lead's deletion.
TraceAsOf(a) ==
  IF ~LeadOpen(a) /\ deletedAt[leadOf[a]] < now THEN deletedAt[leadOf[a]] ELSE now
TraceConfirmedAt(a) == ResolvedAt(a, TraceAsOf(a))

-----------------------------------------------------------------------------
\* The point-flow report of finance.

\* Fault: the report loses what was confirmed before its lead was deleted.
FlowRowOfLiveLead(a) ==
  /\ leadOf[a] # None /\ claimedAt[a] # 0
  /\ SqlEffectiveAt(a) # 0 /\ SqlEffectiveAt(a) <= now
  /\ LeadOpen(a)

\* The rounds it lists: those confirmed, before their lead was deleted.
FlowRow(a) ==
  /\ leadOf[a] # None /\ claimedAt[a] # 0
  /\ SqlEffectiveAt(a) # 0 /\ SqlEffectiveAt(a) <= now
  /\ LeadOpen(a) \/ SqlEffectiveAt(a) <= deletedAt[leadOf[a]]

\* Its columns: the refund is read off an approved return request.
FlowConsumed(a) == charge[a]
FlowRefunded(a) == IF request[a] = "APPROVED" THEN charge[a] ELSE 0
FlowRewarded(a) == IF reward[a] \in {"SETTLED", "REVERSED"} THEN RewardPoints ELSE 0
FlowReversed(a) == IF reward[a] = "REVERSED" THEN RewardPoints ELSE 0
FlowPlatformNet(a) ==
  FlowConsumed(a) - FlowRefunded(a) - FlowRewarded(a) + FlowReversed(a)

\* The round was refunded without a return: the region was wrong, or the dispatch.
Recalled(a) == posted[a] \cap {"correction", "misdispatch"} # {}

\* What the ledger entries of the round leave the platform.
LedgerNet(a) ==
  (IF "claim" \in posted[a] THEN charge[a] ELSE 0)
  - (IF posted[a] \cap RefundKeys # {} THEN charge[a] ELSE 0)
  - (IF "settle" \in posted[a] THEN RewardPoints ELSE 0)
  + (IF "reverse" \in posted[a] THEN RewardPoints ELSE 0)

-----------------------------------------------------------------------------
\* Reports of a company and of the management.

\* own_report: the rounds of a company whose lead is still there.
OwnRounds(r) == {a \in Assignments : receiver[a] = r /\ LeadOpen(a)}

\* Fault: whoever was offered a lead is counted as if he had claimed it.
OwnClaimedOrReleased(r) ==
  {a \in OwnRounds(r) : status[a] \in HeldStatuses \cup {"RETURNED", "RELEASED"}}

OwnClaimed(r) == {a \in OwnRounds(r) : status[a] \in HeldStatuses \cup {"RETURNED"}}
OwnEffective(r) == {a \in OwnRounds(r) : status[a] = "COMPLETED"}
OwnConfirmedInvalid(r) == {a \in OwnRounds(r) : request[a] = "APPROVED"}
OwnConsumed(r) == {a \in OwnRounds(r) : "claim" \in posted[a]}

\* management overview: what waits for telesales, for operations, and the returns
\* in final review.
TelesalesQueue == {a \in Assignments : task[a] \in {"PENDING", "ASSIGNED", "IN_PROGRESS"}}
OperationsQueue == {a \in Assignments : task[a] = "SUBMITTED"}
FinalReviews == {a \in Assignments : request[a] = "REVIEWING"}

\* finance_dashboard: the rewards settled, those to come, and those in dispute.
SettledRewards == {a \in Assignments : reward[a] = "SETTLED"}
PendingRewards == {a \in Assignments : reward[a] = "OBSERVING"}
DisputedRewards == {a \in Assignments : reward[a] = "FROZEN"}

\* supplier_performance_report: effective leads, each counted once.
EffectiveLeads ==
  {l \in Leads : /\ leadStatus[l] # "DELETED"
                 /\ \E a \in RoundsOf(l) : ListConfirmedAt(a) # 0}

\* Its net points: the rewards paid and not taken back.
PerformanceNet(l) ==
  {a \in RoundsOf(l) : "settle" \in posted[a] /\ "reverse" \notin posted[a]}

\* management_dashboard: the completed rounds.
CompletedRounds == {a \in Assignments : status[a] = "COMPLETED"}

-----------------------------------------------------------------------------
\* The lead report of operations.

\* _report_select: a lead is shown with the round it points at, if it has one.
RowRound(l) == IF current[l] = None THEN "NONE" ELSE status[current[l]]

\* _conditions: the leads that are there, of the statuses asked for.
ReportLists(l, leadWanted, roundWanted) ==
  /\ leadStatus[l] # "DELETED"
  /\ leadWanted \in {"ANY", leadStatus[l]}
  /\ roundWanted = "ANY" \/ (current[l] # None /\ roundWanted = RowRound(l))

\* lead_report_list and search_lead_report
ReportRows(leadWanted, roundWanted) == {l \in Leads : ReportLists(l, leadWanted, roundWanted)}

-----------------------------------------------------------------------------
\* The contact.

\* own_assignments and own_assignment_detail show a receiver the rounds whose
\* lead is still there.
ReceiverSees(a) == LeadOpen(a)

\* _assignment_dict: the phone of a round it holds, unless the lead is under
\* correction.
PhoneRevealed(a) == status[a] \in HeldStatuses /\ ~correction[leadOf[a]]

ContactShown(a) == ReceiverSees(a) /\ PhoneRevealed(a)

\* dispatch_pool: what the dispatcher may send.
InDispatchPool(l) == leadStatus[l] = "READY_DISPATCH" /\ current[l] = None

-----------------------------------------------------------------------------
\* reconcile_v12: each operator is a finding.

DuplicateActive(l) ==
  \E a, b \in RoundsOf(l) : a # b /\ {status[a], status[b]} \subseteq ActiveStatuses

\* _reward_ledger_semantic_mismatches
RewardMismatch(a) ==
  \/ reward[a] \in {"SETTLED", "REVERSED"} /\ "settle" \notin posted[a]
  \/ reward[a] = "REVERSED" /\ "reverse" \notin posted[a]

\* _return_refund_semantic_mismatches: the refund is that of the claim.
RefundMismatch(a) ==
  request[a] = "APPROVED" /\ ~({"claim", "return"} \subseteq posted[a] /\ charge[a] > 0)

\* Points of the entries of a receiver under the given keys, as a set with one
\* element per point, so that its size is their sum.
EntryPoints(r, keys) ==
  UNION {{a} \X (posted[a] \cap keys) \X (1..charge[a]) : a \in {b \in Assignments : receiver[b] = r}}

\* The sum of the ledger of an account is its balance.
AccountMismatch(r) ==
  balance[r] + Cardinality(EntryPoints(r, {"claim"}))
    # Grant + Cardinality(EntryPoints(r, RefundKeys))

-----------------------------------------------------------------------------
\* Properties.

\* The reconciliation an operator runs before a release reports nothing about
\* rounds, rewards, refunds and balances, whatever was returned, recalled,
\* corrected or deleted in between.
ReconciliationFindsNothing ==
  /\ \A l \in Leads : ~DuplicateActive(l)
  /\ \A a \in Assignments : ~RewardMismatch(a) /\ ~RefundMismatch(a)
  /\ \A r \in Receivers : ~AccountMismatch(r)

\* The lists, the finance report and the trace, each with a form of its own,
\* show the same confirmation of a round; the settlement job acts on it too.
ConfirmationsAgree ==
  \A a \in Assignments :
    /\ ListConfirmedAt(a) = ResolvedAt(a, now)
    /\ Confirmed(a) <=> ListConfirmedAt(a) # 0
    /\ FlowRow(a) <=> TraceConfirmedAt(a) # 0
    /\ FlowRow(a) => TraceConfirmedAt(a) = SqlEffectiveAt(a)

\* Numbers that reach the reader from different tables are of the same rounds:
\* what the company report calls a confirmed invalid lead is a round it claimed
\* and paid, a completed round is one with a deal, a supplier's net points for a
\* lead are rewards settled for finance too, at most one of a round without a
\* deal, and of a lead its report counts as effective, and what waits for a
\* decision is counted alike as returns and as tasks.  A reward is in dispute for
\* finance while the return is open, and to come only when none is.  The report of
\* operations knows one round a lead.  It misses a reward kept, or a round the
\* receiver holds, only for a deal whose lead was reopened; what it shows beside
\* the lead's status is a round of that status, and a status only ended rounds
\* have selects nothing.  The platform's points in the finance report are those of
\* the ledger, except that a recalled round keeps the claim that was refunded.
CountsAgree ==
  /\ \A r \in Receivers :
       /\ OwnClaimed(r) \subseteq OwnConsumed(r)
       /\ OwnConfirmedInvalid(r) = {a \in OwnClaimed(r) : status[a] = "RETURNED"}
  /\ \A a \in CompletedRounds : dealAt[a] # 0
  /\ OperationsQueue = FinalReviews
  /\ TelesalesQueue = {a \in Assignments : request[a] = "VERIFYING"}
  /\ \A l \in Leads :
       /\ PerformanceNet(l) = SettledRewards \cap RoundsOf(l)
       /\ \A a, b \in PerformanceNet(l) : a = b \/ dealAt[a] # 0 \/ dealAt[b] # 0
       /\ PerformanceNet(l) # {} /\ leadStatus[l] # "DELETED" => l \in EffectiveLeads
       /\ leadStatus[l] # "DELETED" =>
            \A a \in RoundsOf(l) \ {current[l]} :
              RewardKept(a) \/ status[a] \in HeldStatuses => dealAt[a] # 0
       /\ l \in ReportRows("DISPATCHED", "ANY") => RowRound(l) = "PENDING_CLAIM"
       /\ RowRound(l) = "PENDING_CLAIM" => l \in ReportRows("DISPATCHED", "ANY")
       /\ RowRound(l) = "COMPLETED" => l \in ReportRows("CLOSED", "ANY")
       /\ \A s \in {"RELEASED", "EXPIRED", "RETURNED"} : l \notin ReportRows("ANY", s)
  /\ \A a \in DisputedRewards : request[a] \in OpenReturns
  /\ \A a \in PendingRewards : request[a] \notin OpenReturns
  /\ \A a \in Assignments :
       FlowRow(a) =>
         FlowPlatformNet(a) = LedgerNet(a) + (IF Recalled(a) THEN charge[a] ELSE 0)

\* The phone is shown to the receiver that has paid for it and was not
\* refunded, to one receiver at a time, and to none while the lead waits in the
\* pool for the next.  A receiver that made a deal is the exception: it sees the
\* phone beside the next one when its lead was reopened and sold again.
ContactIsPaidFor ==
  \A a \in Assignments : ContactShown(a) =>
    /\ "claim" \in posted[a] /\ posted[a] \cap RefundKeys = {}
    /\ dealAt[a] = 0 =>
         /\ \A b \in RoundsOf(leadOf[a]) : ContactShown(b) /\ dealAt[b] = 0 => a = b
         /\ current[leadOf[a]] = a /\ ~InDispatchPool(leadOf[a])

\* What the finance report has shown as confirmed it shows for ever: no return,
\* recall or deletion makes the row disappear.
ConfirmedRowsStay == [][\A a \in Assignments : FlowRow(a) => FlowRow(a)']_reportVars
=============================================================================
