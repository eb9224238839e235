--------------------------- MODULE LeadLifecycle ---------------------------
(***************************************************************************)
(* A lead from the dispatch pool to its end: manual dispatch to a receiver *)
(* company, the claim that pays for it, follow-ups and the deal, the       *)
(* formal return with its telesales verification and final review, the     *)
(* supplier's reward, corrections of the lead, redispatch, reopening of a  *)
(* closed lead and deletion                                                *)
(* (services/dispatch_v12.py, assignment_timeout_v12.py,                   *)
(* followup_service.py, return_v12.py, supplier_reward_v12.py,             *)
(* lead_supply_v12.py, pre_dispatch_v12.py, lead_deletion_v12.py).         *)
(*                                                                         *)
(* Every handler is one transaction that first locks the assignment, then  *)
(* the lead, and reads both again under the locks, so a handler is one     *)
(* action and the interleavings are those of whole handlers, of the        *)
(* scheduler's jobs and of the clock.  Handlers that only repeat what is   *)
(* done already (idempotent answers) change nothing and are stuttering     *)
(* steps.  Conditions that other parts of the platform decide (who is      *)
(* logged in, whether a company still has its capability, region or        *)
(* contact, the reason given) may always refuse a call: an action may be   *)
(* taken, it never has to.                                                 *)
(***************************************************************************)
EXTENDS Integers, FiniteSets

CONSTANTS
  Leads,          \* leads that have entered the dispatch pool
  Assignments,    \* assignment rows; a dispatch creates one
  Receivers,      \* companies that may receive leads
  Prices,         \* claim prices an administrator may configure
  Grant,          \* customer points a receiver starts with
  ClaimWindow,    \* settings.assignment_expire_hours, in ticks
  AppealWindow,   \* the 48 hours of the return window, in ticks
  Horizon,        \* bound: the clock stops there
  None            \* no assignment, no lead, no company

ASSUME WindowsAssumption ==
  ClaimWindow \in Nat \ {0} /\ AppealWindow \in Nat \ {0} /\ Horizon \in Nat \ {0}
ASSUME PointsAssumption == Prices \subseteq Nat \ {0} /\ Prices # {} /\ Grant \in Nat
ASSUME NoneAssumption == None \notin Leads \cup Assignments \cup Receivers

VARIABLES
  now,           \* the clock; it starts at 1, and 0 stands for NULL below
  price,         \* the configured claim price
  supplyFrozen,  \* the supplier's SUPPLY wallet is closed by a withdrawal
  leadStatus,    \* leadStatus[l]: lead.status, DELETED once deleted_at is set
  current,       \* current[l]: lead.current_assignment_id
  correction,    \* correction[l]: pending_reason is CORRECTION_REVIEW_REQUIRED
  issues,        \* issues[l]: raw_payload holds correction_issues
  leadOf,        \* leadOf[a]: assignment.lead_id
  receiver,      \* receiver[a]: assignment.company_id
  status,        \* status[a]: assignment.status, NEW before the row exists
  expires,       \* expires[a]: assignment.expires_at
  dealAt,        \* dealAt[a]: first DEAL follow-up
  claimedAt,     \* claimedAt[a]: assignment.claimed_at
  deadline,      \* deadline[a]: assignment.appeal_deadline_at
  paused,        \* paused[a]: assignment.appeal_paused_at is set
  remaining,     \* remaining[a]: assignment.appeal_remaining_seconds
  resumed,       \* resumed[a]: assignment.appeal_resumed_at is set
  used,          \* history: ticks of the window that ran while not paused
  request,       \* request[a]: status of its return request, NONE before it
  submittedAt,   \* submittedAt[a]: return_request.submitted_at
  reviewedAt,    \* reviewedAt[a]: return_request.reviewed_at
  evidence,      \* evidence[a]: does the request hold evidence not yet judged
  task,          \* task[a]: status of its current verification task
  conclusion,    \* conclusion[a]: that task's conclusion
  balance,       \* balance[r]: customer points of the receiver
  charge,        \* charge[a]: points the claim cost
  posted,        \* posted[a]: idempotency keys of its ledger entries
  reward         \* reward[a]: status of the supplier's reward, NONE before it

leadVars   == <<leadStatus, current, correction, issues>>
roundVars  == <<leadOf, receiver, status, expires, dealAt>>
clockVars  == <<claimedAt, deadline, paused, remaining, resumed, used>>
returnVars == <<request, submittedAt, reviewedAt, evidence, task, conclusion>>
moneyVars  == <<balance, charge, posted, reward>>
envVars    == <<now, price, supplyFrozen>>
vars == <<leadVars, roundVars, clockVars, returnVars, moneyVars, envVars>>

-----------------------------------------------------------------------------
\* IN_SUPPLY stands for the statuses of LeadSupply before the pool.
LeadStatuses == {"READY_DISPATCH", "PUBLIC_POOL", "IN_SUPPLY", "DISPATCHED", "CLAIMED",
                 "FOLLOWING", "CLOSED", "DELETED"}
AssignmentStatuses == {"NEW", "PENDING_CLAIM", "CLAIMED", "FOLLOWING", "COMPLETED",
                       "RETURN_PENDING", "RETURNED", "RELEASED", "EXPIRED"}
RequestStatuses == {"NONE", "DRAFT", "VERIFYING", "REVIEWING", "NEED_MORE",
                    "REJECTED", "APPROVED", "EXPIRED", "CANCELLED"}
TaskStatuses == {"NONE", "PENDING", "ASSIGNED", "IN_PROGRESS", "SUBMITTED",
                 "RELEASED", "CANCELLED"}
VerdictsOfTelesales == {"SUPPORT_RETURN", "DOES_NOT_SUPPORT_RETURN", "INCONCLUSIVE"}
RewardStatuses == {"NONE", "NOT_ELIGIBLE", "OBSERVING", "FROZEN", "SETTLED",
                   "CANCELLED", "REVERSED"}

\* The ledger entries an assignment can give rise to, by idempotency key:
\* v12-claim, v12-return:..:refund, v12-correction:..:redispatch-refund,
\* v12-misdispatch:..:redispatch-refund, v12-reward:..:settle and ..:reverse.
RefundKeys == {"return", "correction", "misdispatch"}
LedgerKeys == {"claim", "settle", "reverse"} \cup RefundKeys

\* ACTIVE_ASSIGNMENT_STATUSES; uq_assignments_active_lead_v12 allows a lead one.
ActiveStatuses == {"PENDING_CLAIM", "CLAIMED", "FOLLOWING", "RETURN_PENDING"}
\* The receiver holds the contact it paid for.
HeldStatuses == {"CLAIMED", "FOLLOWING", "COMPLETED", "RETURN_PENDING"}
ReturnableStatuses == {"CLAIMED", "FOLLOWING", "COMPLETED"}
OpenReturns == {"VERIFYING", "REVIEWING", "NEED_MORE"}
UnsettledRewards == {"OBSERVING", "FROZEN"}

RoundsOf(l) == {a \in Assignments : leadOf[a] = l}

Init ==
  /\ now = 1
  /\ price \in Prices
  /\ supplyFrozen = FALSE
  /\ leadStatus = [l \in Leads |-> "READY_DISPATCH"]
  /\ current = [l \in Leads |-> None]
  /\ correction = [l \in Leads |-> FALSE]
  /\ issues = [l \in Leads |-> FALSE]
  /\ leadOf = [a \in Assignments |-> None]
  /\ receiver = [a \in Assignments |-> None]
  /\ status = [a \in Assignments |-> "NEW"]
  /\ expires = [a \in Assignments |-> 0]
  /\ dealAt = [a \in Assignments |-> 0]
  /\ claimedAt = [a \in Assignments |-> 0]
  /\ deadline = [a \in Assignments |-> 0]
  /\ paused = [a \in Assignments |-> FALSE]
  /\ remaining = [a \in Assignments |-> 0]
  /\ resumed = [a \in Assignments |-> FALSE]
  /\ used = [a \in Assignments |-> 0]
  /\ request = [a \in Assignments |-> "NONE"]
  /\ submittedAt = [a \in Assignments |-> 0]
  /\ reviewedAt = [a \in Assignments |-> 0]
  /\ evidence = [a \in Assignments |-> FALSE]
  /\ task = [a \in Assignments |-> "NONE"]
  /\ conclusion = [a \in Assignments |-> "NONE"]
  /\ balance = [r \in Receivers |-> Grant]
  /\ charge = [a \in Assignments |-> 0]
  /\ posted = [a \in Assignments |-> {}]
  /\ reward = [a \in Assignments |-> "NONE"]

-----------------------------------------------------------------------------
\* The world around the handlers.

\* The clock.  used counts the ticks in which the return window of a held
\* assignment was not paused.
Tick ==
  /\ now < Horizon
  /\ now' = now + 1
  /\ used' = [a \in Assignments |->
                IF status[a] \in HeldStatuses /\ ~paused[a] THEN used[a] + 1 ELSE used[a]]
  /\ UNCHANGED <<leadVars, roundVars, returnVars, moneyVars, price, supplyFrozen,
                 claimedAt, deadline, paused, remaining, resumed>>

\* The administrator configures another claim price.
ChangePrice(p) ==
  /\ p # price
  /\ price' = p
  /\ UNCHANGED <<leadVars, roundVars, clockVars, returnVars, moneyVars, now, supplyFrozen>>

\* A withdrawal of the supplier freezes its SUPPLY wallet, or lets it go again.
FreezeSupply ==
  /\ supplyFrozen' = ~supplyFrozen
  /\ UNCHANGED <<leadVars, roundVars, clockVars, returnVars, moneyVars, now, price>>

-----------------------------------------------------------------------------
\* Points.

\* What dispatches not yet claimed reserve of a receiver's points: each costs
\* the price configured now.
Reserved(r) ==
  price * Cardinality({a \in Assignments : status[a] = "PENDING_CLAIM" /\ receiver[a] = r})

\* Fault: dispatches not yet claimed are left out of the account.
AffordsAnotherByBalance(r) == balance[r] >= price

\* A receiver qualifies for a dispatch when it can still pay for it.
AffordsAnother(r) == balance[r] - Reserved(r) >= price

\* Fault: the refund is reckoned at the price configured now.
RefundAtPriceNow(a, key) ==
  /\ posted' = [posted EXCEPT ![a] = @ \cup {key}]
  /\ balance' = IF key \in posted[a] THEN balance
                ELSE [balance EXCEPT ![receiver[a]] = @ + price]

\* change_points posts an entry once per key; a repeated key changes nothing.
Refund(a, key) ==
  /\ posted' = [posted EXCEPT ![a] = @ \cup {key}]
  /\ balance' = IF key \in posted[a] THEN balance
                ELSE [balance EXCEPT ![receiver[a]] = @ + charge[a]]

-----------------------------------------------------------------------------
\* When a held assignment has become effective for the supplier.

\* appeal_deadline: a resumed window has a deadline of its own.
AppealDeadline(a) ==
  IF resumed[a] THEN deadline[a] ELSE claimedAt[a] + AppealWindow

\* The return was rejected and the window went on.
RejectedAndResumed(a) == resumed[a] /\ request[a] = "REJECTED"

\* resolve_effective_confirmation: by a deal in time and not under appeal, by
\* the end of a window that ran out unpaused, or by a rejection.
DealConfirms(a) ==
  /\ dealAt[a] # 0
  /\ dealAt[a] <= AppealDeadline(a)
  /\ \/ submittedAt[a] = 0
     \/ dealAt[a] <= submittedAt[a]
     \/ RejectedAndResumed(a) /\ reviewedAt[a] <= dealAt[a]

WindowConfirms(a) ==
  /\ AppealDeadline(a) <= now
  /\ ~paused[a]
  /\ submittedAt[a] = 0 \/ submittedAt[a] > AppealDeadline(a) \/ RejectedAndResumed(a)

RejectionConfirms(a) ==
  submittedAt[a] # 0 /\ request[a] = "REJECTED" /\ ~resumed[a]

Confirmed(a) ==
  claimedAt[a] # 0 /\ (DealConfirms(a) \/ WindowConfirms(a) \/ RejectionConfirms(a))

\* _active_appeal_exists
AppealActive(a) == submittedAt[a] # 0 /\ request[a] \in OpenReturns \cup {"APPROVED"}

\* settle_supplier_reward credits the supplier; a frozen wallet makes it raise.
PayReward(a) ==
  /\ ~supplyFrozen
  /\ reward' = [reward EXCEPT ![a] = "SETTLED"]
  /\ posted' = [posted EXCEPT ![a] = @ \cup {"settle"}]

-----------------------------------------------------------------------------
\* Dispatch and claim.

\* Fault: whoever looks, looks at the round the lead points at only.
CurrentNotActive(l, a) == \A b \in {current[l]} \ {a, None} : status[b] \notin ActiveStatuses

\* uq_assignments_active_lead_v12: the database has room for one active round.
NoOtherActive(l, a) == \A b \in RoundsOf(l) \ {a} : status[b] \notin ActiveStatuses

\* dispatch_manually_with_outcome.  A receiver that returned the lead before is
\* excluded unless the dispatcher overrides it with a reason.
DispatchManually(l, a, r) ==
  /\ status[a] = "NEW"
  /\ leadStatus[l] = "READY_DISPATCH"
  /\ current[l] = None
  /\ NoOtherActive(l, a)
  /\ AffordsAnother(r)
  /\ leadOf' = [leadOf EXCEPT ![a] = l]
  /\ receiver' = [receiver EXCEPT ![a] = r]
  /\ status' = [status EXCEPT ![a] = "PENDING_CLAIM"]
  /\ expires' = [expires EXCEPT ![a] = now + ClaimWindow]
  /\ leadStatus' = [leadStatus EXCEPT ![l] = "DISPATCHED"]
  /\ current' = [current EXCEPT ![l] = a]
  /\ UNCHANGED <<correction, issues, dealAt, clockVars, returnVars, moneyVars, envVars>>

\* What claim and refusal ask of the lead.
AwaitsClaim(a) ==
  /\ status[a] = "PENDING_CLAIM"
  /\ current[leadOf[a]] = a
  /\ leadStatus[leadOf[a]] = "DISPATCHED"
  /\ ~correction[leadOf[a]]

\* claim_assignment charges the price configured now and starts the window.
\* No reward is due for a lead without supplier, nor for a duplicate.
ClaimAssignment(a) ==
  LET l == leadOf[a]  r == receiver[a] IN
  /\ AwaitsClaim(a)
  /\ now < expires[a]
  /\ balance[r] >= price
  /\ balance' = [balance EXCEPT ![r] = @ - price]
  /\ charge' = [charge EXCEPT ![a] = price]
  /\ posted' = [posted EXCEPT ![a] = @ \cup {"claim"}]
  /\ \E s \in {"OBSERVING", "NOT_ELIGIBLE"} : reward' = [reward EXCEPT ![a] = s]
  /\ status' = [status EXCEPT ![a] = "CLAIMED"]
  /\ claimedAt' = [claimedAt EXCEPT ![a] = now]
  /\ deadline' = [deadline EXCEPT ![a] = now + AppealWindow]
  /\ leadStatus' = [leadStatus EXCEPT ![l] = "CLAIMED"]
  /\ UNCHANGED <<current, correction, issues, leadOf, receiver, expires, dealAt, paused,
                 remaining, resumed, used, returnVars, envVars>>

\* The assignment ends unclaimed and the lead goes back to the pool.
BackToPool(a, s) ==
  LET l == leadOf[a] IN
  /\ status' = [status EXCEPT ![a] = s]
  /\ leadStatus' = [leadStatus EXCEPT ![l] = "READY_DISPATCH"]
  /\ current' = [current EXCEPT ![l] = None]
  /\ UNCHANGED <<correction, issues, leadOf, receiver, expires, dealAt, clockVars,
                 returnVars, moneyVars, envVars>>

\* refuse_pending_assignment
RefusePendingAssignment(a) == AwaitsClaim(a) /\ BackToPool(a, "RELEASED")

\* run_assignment_timeouts_v12, one row of the job.
ExpireAssignment(a) ==
  /\ AwaitsClaim(a)
  /\ expires[a] <= now
  /\ BackToPool(a, "EXPIRED")

\* public_pool transfer: the pool lead found a receiver in its region.
TransferFromPublicPool(l) ==
  /\ leadStatus[l] = "PUBLIC_POOL"
  /\ leadStatus' = [leadStatus EXCEPT ![l] = "READY_DISPATCH"]
  /\ UNCHANGED <<current, correction, issues, roundVars, clockVars, returnVars,
                 moneyVars, envVars>>

SupplySide == {"READY_DISPATCH", "PUBLIC_POOL", "CLOSED"}

\* What LeadSupply does to a lead nobody holds: it goes back to be verified or
\* judged again (requeue_unreachable_pre_dispatch, override_duplicate) ...
LeaveForSupply(l) ==
  /\ leadStatus[l] \in SupplySide
  /\ current[l] = None
  /\ leadStatus' = [leadStatus EXCEPT ![l] = "IN_SUPPLY"]
  /\ UNCHANGED <<current, correction, issues, roundVars, clockVars, returnVars,
                 moneyVars, envVars>>

\* ... and ends in a pool or closed (decide_pre_dispatch_disposition).
ReturnFromSupply(l) ==
  /\ leadStatus[l] = "IN_SUPPLY"
  /\ \E s \in SupplySide : leadStatus' = [leadStatus EXCEPT ![l] = s]
  /\ UNCHANGED <<current, correction, issues, roundVars, clockVars, returnVars,
                 moneyVars, envVars>>

\* reopen_closed_lead: whether a return or a deal closed it, and whatever has
\* become of the round it points at, the lead may be dispatched again.
ReopenClosedLead(l) ==
  /\ leadStatus[l] = "CLOSED"
  /\ leadStatus' = [leadStatus EXCEPT ![l] = "READY_DISPATCH"]
  /\ current' = [current EXCEPT ![l] = None]
  /\ correction' = [correction EXCEPT ![l] = FALSE]
  /\ UNCHANGED <<issues, roundVars, clockVars, returnVars, moneyVars, envVars>>

-----------------------------------------------------------------------------
\* Follow-ups.

MayFollow(a) ==
  /\ status[a] \in {"CLAIMED", "FOLLOWING"}
  /\ current[leadOf[a]] = a
  /\ ~correction[leadOf[a]]

\* add_followup with any status but DEAL (INVALID is refused).
FollowUp(a) ==
  /\ MayFollow(a)
  /\ status' = [status EXCEPT ![a] = "FOLLOWING"]
  /\ leadStatus' = [leadStatus EXCEPT ![leadOf[a]] = "FOLLOWING"]
  /\ UNCHANGED <<current, correction, issues, leadOf, receiver, expires, dealAt,
                 clockVars, returnVars, moneyVars, envVars>>

\* A reward under observation is paid in the transaction of the deal: when it
\* cannot be, the deal is not recorded.
PayForDeal(a) ==
  IF reward[a] = "OBSERVING"
  THEN Confirmed(a)' /\ PayReward(a)
  ELSE UNCHANGED <<reward, posted>>

\* add_followup with DEAL.
Deal(a) ==
  /\ MayFollow(a)
  /\ status' = [status EXCEPT ![a] = "COMPLETED"]
  /\ leadStatus' = [leadStatus EXCEPT ![leadOf[a]] = "CLOSED"]
  /\ dealAt' = [dealAt EXCEPT ![a] = IF @ = 0 THEN now ELSE @]
  /\ UNCHANGED <<current, correction, issues, leadOf, receiver, expires, clockVars,
                 returnVars, balance, charge, envVars>>
  /\ PayForDeal(a)

-----------------------------------------------------------------------------
\* Return: the draft.

LeadOpen(a) == leadOf[a] # None /\ leadStatus[leadOf[a]] # "DELETED"

\* Fault: the window includes its last instant.
InWindowInclusive(a) == now <= AppealDeadline(a)

\* The return window is open until its deadline, which is outside.
InWindow(a) == now < AppealDeadline(a)

\* create_or_update_return_draft, first draft.  (Editing the text of a draft
\* changes nothing here.)
CreateReturnDraft(a) ==
  /\ request[a] = "NONE"
  /\ status[a] \in ReturnableStatuses
  /\ LeadOpen(a) /\ ~correction[leadOf[a]]
  /\ InWindow(a)
  /\ request' = [request EXCEPT ![a] = "DRAFT"]
  /\ UNCHANGED <<leadVars, roundVars, clockVars, moneyVars, envVars, submittedAt,
                 reviewedAt, evidence, task, conclusion>>

\* create_or_update_return_draft on a rejected request whose window still runs:
\* the same request is opened again and its old evidence no longer counts.
ReopenReturnDraft(a) ==
  /\ request[a] = "REJECTED"
  /\ LeadOpen(a) /\ ~correction[leadOf[a]]
  /\ resumed[a]
  /\ InWindow(a)
  /\ request' = [request EXCEPT ![a] = "DRAFT"]
  /\ submittedAt' = [submittedAt EXCEPT ![a] = 0]
  /\ reviewedAt' = [reviewedAt EXCEPT ![a] = 0]
  /\ evidence' = [evidence EXCEPT ![a] = FALSE]
  /\ task' = [task EXCEPT ![a] = "NONE"]
  /\ conclusion' = [conclusion EXCEPT ![a] = "NONE"]
  /\ UNCHANGED <<leadVars, roundVars, clockVars, moneyVars, envVars>>

\* add_return_evidence
AddReturnEvidence(a) ==
  /\ LeadOpen(a)
  /\ \/ request[a] = "DRAFT" /\ status[a] \in ReturnableStatuses
     \/ request[a] = "NEED_MORE" /\ status[a] = "RETURN_PENDING"
  /\ submittedAt[a] = 0 => InWindow(a)
  /\ evidence' = [evidence EXCEPT ![a] = TRUE]
  /\ UNCHANGED <<leadVars, roundVars, clockVars, moneyVars, envVars, request,
                 submittedAt, reviewedAt, task, conclusion>>

\* expire_unsubmitted_return_drafts, one row of the job.
ExpireReturnDraft(a) ==
  /\ request[a] = "DRAFT" /\ submittedAt[a] = 0
  /\ LeadOpen(a)
  /\ ~paused[a]
  /\ AppealDeadline(a) <= now
  /\ request' = [request EXCEPT ![a] = "EXPIRED"]
  /\ UNCHANGED <<leadVars, roundVars, clockVars, moneyVars, envVars, submittedAt,
                 reviewedAt, evidence, task, conclusion>>

-----------------------------------------------------------------------------
\* Return: submission and telesales verification.

\* Fault: the reward stays payable while the return is open.
OpenVerificationWithoutFreeze(a) ==
  /\ request' = [request EXCEPT ![a] = "VERIFYING"]
  /\ reviewedAt' = [reviewedAt EXCEPT ![a] = 0]
  /\ status' = [status EXCEPT ![a] = "RETURN_PENDING"]
  /\ task' = [task EXCEPT ![a] = "PENDING"]
  /\ conclusion' = [conclusion EXCEPT ![a] = "NONE"]
  /\ UNCHANGED reward

\* A submission opens a verification task and freezes the reward.
OpenVerification(a) ==
  /\ request' = [request EXCEPT ![a] = "VERIFYING"]
  /\ reviewedAt' = [reviewedAt EXCEPT ![a] = 0]
  /\ status' = [status EXCEPT ![a] = "RETURN_PENDING"]
  /\ task' = [task EXCEPT ![a] = "PENDING"]
  /\ conclusion' = [conclusion EXCEPT ![a] = "NONE"]
  /\ reward' = [reward EXCEPT ![a] = IF @ = "OBSERVING" THEN "FROZEN" ELSE @]

\* submit_return_request in time: the window is paused.  A round that was
\* completed becomes active again, if its lead is not with another by now.
SubmitReturn(a) ==
  /\ request[a] = "DRAFT" /\ submittedAt[a] = 0
  /\ LeadOpen(a) /\ ~correction[leadOf[a]]
  /\ InWindow(a)
  /\ evidence[a]
  /\ status[a] \in ReturnableStatuses
  /\ NoOtherActive(leadOf[a], a)
  /\ OpenVerification(a)
  /\ submittedAt' = [submittedAt EXCEPT ![a] = now]
  /\ deadline' = [deadline EXCEPT ![a] = AppealDeadline(a)]
  /\ paused' = [paused EXCEPT ![a] = TRUE]
  /\ remaining' = [remaining EXCEPT ![a] = AppealDeadline(a) - now]
  /\ UNCHANGED <<leadVars, leadOf, receiver, expires, dealAt, claimedAt, resumed, used,
                 evidence, balance, charge, posted, envVars>>

\* submit_return_request after the window: the draft expires.
SubmitReturnTooLate(a) ==
  /\ request[a] = "DRAFT" /\ submittedAt[a] = 0
  /\ LeadOpen(a) /\ ~correction[leadOf[a]]
  /\ AppealDeadline(a) <= now
  /\ request' = [request EXCEPT ![a] = "EXPIRED"]
  /\ UNCHANGED <<leadVars, roundVars, clockVars, moneyVars, envVars, submittedAt,
                 reviewedAt, evidence, task, conclusion>>

\* submit_return_request with the evidence the review asked for; the window
\* stays paused since the first submission.
ResubmitReturn(a) ==
  /\ request[a] = "NEED_MORE" /\ submittedAt[a] # 0
  /\ LeadOpen(a)
  /\ evidence[a]
  /\ status[a] = "RETURN_PENDING"
  /\ OpenVerification(a)
  /\ UNCHANGED <<leadVars, leadOf, receiver, expires, dealAt, clockVars, submittedAt,
                 evidence, balance, charge, posted, envVars>>

TaskStep(a, from, to, verdict) ==
  /\ LeadOpen(a)
  /\ task[a] \in from
  /\ task' = [task EXCEPT ![a] = to]
  /\ conclusion' = [conclusion EXCEPT ![a] = verdict]
  /\ UNCHANGED <<leadVars, roundVars, clockVars, moneyVars, envVars, submittedAt,
                 reviewedAt, evidence>>

\* assign_return_verification_task; it may be taken from one agent for another.
AssignVerification(a) ==
  /\ TaskStep(a, {"PENDING", "IN_PROGRESS"}, "ASSIGNED", "NONE")
  /\ UNCHANGED request

\* claim_return_verification_task
StartVerification(a) ==
  /\ TaskStep(a, {"ASSIGNED"}, "IN_PROGRESS", conclusion[a])
  /\ UNCHANGED request

\* submit_return_verification
SubmitVerification(a, verdict) ==
  /\ request[a] = "VERIFYING"
  /\ TaskStep(a, {"IN_PROGRESS"}, "SUBMITTED", verdict)
  /\ request' = [request EXCEPT ![a] = "REVIEWING"]

-----------------------------------------------------------------------------
\* Return: the final review (_final_review_return).

Reviewable(a, verdicts) ==
  /\ LeadOpen(a)
  /\ request[a] = "REVIEWING"
  /\ task[a] = "SUBMITTED"
  /\ conclusion[a] \in verdicts

RequireMoreEvidence(a) ==
  /\ Reviewable(a, VerdictsOfTelesales)
  /\ request' = [request EXCEPT ![a] = "NEED_MORE"]
  /\ reviewedAt' = [reviewedAt EXCEPT ![a] = now]
  /\ task' = [task EXCEPT ![a] = "RELEASED"]
  /\ evidence' = [evidence EXCEPT ![a] = FALSE]
  /\ UNCHANGED <<leadVars, roundVars, clockVars, moneyVars, envVars, submittedAt,
                 conclusion>>

\* _restore_assignment_status
RestoredStatus(l) ==
  CASE leadStatus[l] = "CLOSED"    -> "COMPLETED"
    [] leadStatus[l] = "FOLLOWING" -> "FOLLOWING"
    [] OTHER                       -> "CLAIMED"

\* Fault: the window starts anew.
ResumeWithWholeWindow(a) ==
  /\ deadline' = [deadline EXCEPT ![a] = now + AppealWindow]
  /\ paused' = [paused EXCEPT ![a] = FALSE]
  /\ resumed' = [resumed EXCEPT ![a] = TRUE]

\* The window goes on with what was left of it.
ResumeWindow(a) ==
  /\ deadline' = [deadline EXCEPT ![a] = now + remaining[a]]
  /\ paused' = [paused EXCEPT ![a] = FALSE]
  /\ resumed' = [resumed EXCEPT ![a] = TRUE]

\* REJECT: the receiver keeps the lead and what was left of its window.
RejectReturn(a) ==
  LET l == leadOf[a] IN
  /\ Reviewable(a, {"DOES_NOT_SUPPORT_RETURN"})
  /\ request' = [request EXCEPT ![a] = "REJECTED"]
  /\ reviewedAt' = [reviewedAt EXCEPT ![a] = now]
  /\ task' = [task EXCEPT ![a] = "RELEASED"]
  /\ status' = [status EXCEPT ![a] = RestoredStatus(l)]
  /\ leadStatus' = [leadStatus EXCEPT ![l] =
                      IF @ \in {"CLAIMED", "FOLLOWING", "CLOSED"} THEN @ ELSE "CLAIMED"]
  /\ IF paused[a] THEN ResumeWindow(a)
     ELSE UNCHANGED <<deadline, paused, resumed>>
  /\ UNCHANGED <<current, correction, issues, leadOf, receiver, expires, dealAt,
                 claimedAt, remaining, used, submittedAt, evidence, conclusion,
                 balance, charge, envVars>>
  /\ IF reward[a] \in UnsettledRewards /\ Confirmed(a)'
     THEN ~correction[l] /\ PayReward(a)
     ELSE /\ reward' = [reward EXCEPT ![a] = IF @ = "FROZEN" THEN "OBSERVING" ELSE @]
          /\ UNCHANGED posted

\* The supplier gives a reward back that was paid.
ReversalOf(a) == IF reward[a] = "SETTLED" THEN {"reverse"} ELSE {}

\* APPROVE: the receiver gets its points back, and the supplier does not get
\* the reward, or gives it back.  The lead leaves the receiver.
Approve(a, taskEnd, leadEnd) ==
  LET l == leadOf[a] IN
  /\ "claim" \in posted[a]
  /\ reward[a] = "SETTLED" => ~supplyFrozen
  /\ request' = [request EXCEPT ![a] = "APPROVED"]
  /\ reviewedAt' = [reviewedAt EXCEPT ![a] = now]
  /\ task' = [task EXCEPT ![a] = taskEnd]
  /\ posted' = [posted EXCEPT ![a] = @ \cup {"return"} \cup ReversalOf(a)]
  /\ balance' = IF "return" \in posted[a] THEN balance
                ELSE [balance EXCEPT ![receiver[a]] = @ + charge[a]]
  /\ reward' = [reward EXCEPT ![a] =
                  CASE @ \in UnsettledRewards -> "CANCELLED"
                    [] @ = "SETTLED"          -> "REVERSED"
                    [] OTHER                  -> @]
  /\ status' = [status EXCEPT ![a] = "RETURNED"]
  /\ paused' = [paused EXCEPT ![a] = FALSE]
  /\ remaining' = [remaining EXCEPT ![a] = 0]
  /\ leadStatus' = [leadStatus EXCEPT ![l] = leadEnd]
  /\ current' = [current EXCEPT ![l] = None]
  /\ correction' = [correction EXCEPT ![l] = FALSE]
  /\ UNCHANGED <<issues, leadOf, receiver, expires, dealAt, claimedAt, deadline, resumed,
                 used, submittedAt, evidence, conclusion, charge, envVars>>

\* final_review_return: the lead is found invalid and closed.
ApproveReturn(a) ==
  Reviewable(a, {"SUPPORT_RETURN"}) /\ Approve(a, "RELEASED", "CLOSED")

\* correct_region_and_redispatch: a usable lead in the wrong region is dispatched
\* again, or waits in the public pool for a receiver of its region.
CorrectRegionAndRedispatch(a) ==
  /\ Reviewable(a, {"SUPPORT_RETURN"})
  /\ status[a] = "RETURN_PENDING"
  /\ current[leadOf[a]] = a
  /\ \E pool \in {"READY_DISPATCH", "PUBLIC_POOL"} : Approve(a, "RELEASED", pool)

\* direct_invalid_return: operations judge before telesales concluded.
DirectInvalidReturn(a) ==
  /\ LeadOpen(a)
  /\ request[a] = "VERIFYING"
  /\ task[a] # "SUBMITTED" /\ conclusion[a] = "NONE"
  /\ Approve(a, "CANCELLED", "CLOSED")

-----------------------------------------------------------------------------
\* The supplier's reward.

\* Fault: the query was rewritten for resumed windows and misses the others.
SelectedOnceResumed(a) ==
  /\ reward[a] = "OBSERVING"
  /\ claimedAt[a] # 0
  /\ (~paused[a] /\ resumed[a] /\ deadline[a] <= now) \/ dealAt[a] # 0
  /\ status[a] \in HeldStatuses
  /\ LeadOpen(a)

\* _select_due_reward_ids: what the job's query finds.
SelectedAsDue(a) ==
  /\ reward[a] = "OBSERVING"
  /\ claimedAt[a] # 0
  /\ \/ /\ ~paused[a]
        /\ \/ ~resumed[a] /\ claimedAt[a] + AppealWindow <= now
           \/ resumed[a] /\ deadline[a] <= now
     \/ dealAt[a] # 0
  /\ status[a] \in HeldStatuses
  /\ LeadOpen(a)

\* What settle_supplier_reward asks before it freezes or pays.
Settleable(a) ==
  /\ Confirmed(a) \/ (AppealActive(a) /\ AppealDeadline(a) <= now)
  /\ current[leadOf[a]] = a
  /\ status[a] \in HeldStatuses
  /\ ~correction[leadOf[a]]

\* run_due_supplier_reward_settlement, one row in its savepoint.
SettleDueReward(a) ==
  /\ SelectedAsDue(a)
  /\ Settleable(a)
  /\ IF status[a] = "RETURN_PENDING" \/ AppealActive(a)
     THEN reward' = [reward EXCEPT ![a] = "FROZEN"] /\ UNCHANGED posted
     ELSE PayReward(a)
  /\ UNCHANGED <<leadVars, roundVars, clockVars, returnVars, balance, charge, envVars>>

\* reverse_supplier_reward by hand: fraud, or an error of the system or of the
\* administrator.  Nothing is refunded to the receiver.
ReverseReward(a) ==
  /\ reward[a] = "SETTLED"
  /\ ~supplyFrozen
  /\ reward' = [reward EXCEPT ![a] = "REVERSED"]
  /\ posted' = [posted EXCEPT ![a] = @ \cup {"reverse"}]
  /\ UNCHANGED <<leadVars, roundVars, clockVars, returnVars, balance, charge, envVars>>

-----------------------------------------------------------------------------
\* Corrections of a dispatched lead, redispatch, deletion.

StoreIssues(l, found, actionRequired) ==
  /\ issues' = [issues EXCEPT ![l] = found]
  /\ correction' = [correction EXCEPT ![l] = found /\ actionRequired]
  /\ UNCHANGED <<leadStatus, current, roundVars, clockVars, returnVars, moneyVars, envVars>>

\* correct_platform_lead: another region may no longer suit the receiver that
\* has the lead; without one there is nothing to find, but a lead in the pool
\* whose region is unknown now is verified again.
CorrectLead(l) ==
  /\ RoundsOf(l) # {}
  /\ \/ /\ current[l] # None
        /\ StoreIssues(l, TRUE, status[current[l]] # "COMPLETED")
     \/ StoreIssues(l, FALSE, FALSE)
     \/ /\ leadStatus[l] = "READY_DISPATCH" /\ current[l] = None
        /\ leadStatus' = [leadStatus EXCEPT ![l] = "IN_SUPPLY"]
        /\ issues' = [issues EXCEPT ![l] = FALSE]
        /\ correction' = [correction EXCEPT ![l] = FALSE]
        /\ UNCHANGED <<current, roundVars, clockVars, returnVars, moneyVars, envVars>>

\* recheck_platform_lead_correction
RecheckCorrection(l) ==
  /\ correction[l] /\ issues[l]
  /\ \E found \in BOOLEAN : StoreIssues(l, found, TRUE)

\* An assignment can be released while no return is open and its reward is not
\* paid.
Releasable(a) ==
  /\ status[a] \in {"PENDING_CLAIM", "CLAIMED", "FOLLOWING"}
  /\ reward[a] # "SETTLED"

\* A reward not paid yet is cancelled with the sale.
RewardOfReleased(a) == IF reward[a] \in UnsettledRewards THEN "CANCELLED" ELSE reward[a]

\* _release_assignment_for_redispatch
ReleaseForRedispatch(l, a, key) ==
  /\ Releasable(a)
  /\ IF status[a] = "PENDING_CLAIM"
     THEN UNCHANGED <<posted, balance>>
     ELSE "claim" \in posted[a] /\ Refund(a, key)
  /\ reward' = [reward EXCEPT ![a] = RewardOfReleased(a)]
  /\ status' = [status EXCEPT ![a] = "RELEASED"]
  /\ leadStatus' = [leadStatus EXCEPT ![l] = "READY_DISPATCH"]
  /\ current' = [current EXCEPT ![l] = None]
  /\ correction' = [correction EXCEPT ![l] = FALSE]
  /\ issues' = [issues EXCEPT ![l] = FALSE]
  /\ UNCHANGED <<leadOf, receiver, expires, dealAt, clockVars, charge, envVars>>

\* release_corrected_lead_for_redispatch
ReleaseCorrectedLead(l) ==
  /\ current[l] # None
  /\ correction[l] /\ issues[l]
  /\ ReleaseForRedispatch(l, current[l], "correction")
  /\ UNCHANGED returnVars

\* release_misdispatched_lead_for_redispatch closes a draft that was never sent.
ReleaseMisdispatchedLead(l) ==
  LET a == current[l] IN
  /\ a # None
  /\ ~correction[l] /\ ~issues[l]
  /\ request[a] \notin OpenReturns
  /\ ReleaseForRedispatch(l, a, "misdispatch")
  /\ IF request[a] = "DRAFT"
     THEN /\ request' = [request EXCEPT ![a] = "EXPIRED"]
          /\ reviewedAt' = [reviewedAt EXCEPT ![a] = now]
     ELSE UNCHANGED <<request, reviewedAt>>
  /\ UNCHANGED <<submittedAt, evidence, task, conclusion>>

\* Fault: deletion only marks the lead.
DeleteLeadAlone(l) ==
  /\ leadStatus[l] # "DELETED"
  /\ leadStatus' = [leadStatus EXCEPT ![l] = "DELETED"]
  /\ UNCHANGED <<current, correction, issues, roundVars, clockVars, returnVars,
                 moneyVars, envVars>>

\* delete_operation_lead: what is open is cancelled, and a reward that was
\* already due is paid first.
DeleteLead(l) ==
  LET rounds == RoundsOf(l)
      due == {a \in rounds : reward[a] \in UnsettledRewards /\ Confirmed(a) /\ current[l] = a}
  IN
  /\ leadStatus[l] # "DELETED"
  /\ due # {} => ~supplyFrozen /\ ~correction[l]
  /\ request' = [a \in Assignments |->
       IF a \in rounds /\ request[a] \in OpenReturns \cup {"DRAFT"} THEN "CANCELLED"
       ELSE request[a]]
  /\ reviewedAt' = [a \in Assignments |->
       IF a \in rounds /\ request[a] \in OpenReturns \cup {"DRAFT"} THEN now
       ELSE reviewedAt[a]]
  /\ task' = [a \in Assignments |->
       IF a \in rounds /\ task[a] \in {"PENDING", "ASSIGNED", "IN_PROGRESS", "SUBMITTED"}
       THEN "CANCELLED" ELSE task[a]]
  /\ status' = [a \in Assignments |->
       IF a \in rounds /\ status[a] \in ActiveStatuses THEN "RELEASED" ELSE status[a]]
  /\ reward' = [a \in Assignments |->
       CASE a \in due                                          -> "SETTLED"
         [] a \in rounds \ due /\ reward[a] \in UnsettledRewards -> "CANCELLED"
         [] OTHER                                              -> reward[a]]
  /\ posted' = [a \in Assignments |->
       IF a \in due THEN posted[a] \cup {"settle"} ELSE posted[a]]
  /\ leadStatus' = [leadStatus EXCEPT ![l] = "DELETED"]
  /\ current' = [current EXCEPT ![l] = None]
  /\ UNCHANGED <<correction, issues, leadOf, receiver, expires, dealAt, clockVars,
                 submittedAt, evidence, conclusion, balance, charge, envVars>>

-----------------------------------------------------------------------------
Next ==
  \/ Tick \/ FreezeSupply
  \/ \E p \in Prices : ChangePrice(p)
  \/ \E l \in Leads :
       \/ \E a \in Assignments, r \in Receivers : DispatchManually(l, a, r)
       \/ TransferFromPublicPool(l) \/ LeaveForSupply(l) \/ ReturnFromSupply(l)
       \/ ReopenClosedLead(l) \/ CorrectLead(l) \/ RecheckCorrection(l)
       \/ ReleaseCorrectedLead(l) \/ ReleaseMisdispatchedLead(l) \/ DeleteLead(l)
  \/ \E a \in Assignments :
       \/ ClaimAssignment(a) \/ RefusePendingAssignment(a) \/ ExpireAssignment(a)
       \/ FollowUp(a) \/ Deal(a)
       \/ CreateReturnDraft(a) \/ ReopenReturnDraft(a) \/ AddReturnEvidence(a)
       \/ ExpireReturnDraft(a) \/ SubmitReturn(a) \/ SubmitReturnTooLate(a)
       \/ ResubmitReturn(a) \/ AssignVerification(a) \/ StartVerification(a)
       \/ \E v \in VerdictsOfTelesales : SubmitVerification(a, v)
       \/ RequireMoreEvidence(a) \/ RejectReturn(a) \/ ApproveReturn(a)
       \/ CorrectRegionAndRedispatch(a) \/ DirectInvalidReturn(a)
       \/ SettleDueReward(a) \/ ReverseReward(a)

Spec == Init /\ [][Next]_vars

\* The scheduler runs the three jobs again and again; a row that stays due is
\* found by one of the runs.  Nothing else is fair: nobody has to act.
Fairness ==
  \A a \in Assignments :
    /\ WF_vars(ExpireAssignment(a))
    /\ WF_vars(ExpireReturnDraft(a))
    /\ WF_vars(SettleDueReward(a))

FairSpec == Spec /\ Fairness

-----------------------------------------------------------------------------
\* Every variable has the shape the code gives it.
TypeOK ==
  /\ now \in 1..Horizon /\ price \in Prices /\ supplyFrozen \in BOOLEAN
  /\ leadStatus \in [Leads -> LeadStatuses]
  /\ current \in [Leads -> Assignments \cup {None}]
  /\ correction \in [Leads -> BOOLEAN]
  /\ issues \in [Leads -> BOOLEAN]
  /\ leadOf \in [Assignments -> Leads \cup {None}]
  /\ receiver \in [Assignments -> Receivers \cup {None}]
  /\ status \in [Assignments -> AssignmentStatuses]
  /\ expires \in [Assignments -> Nat]
  /\ dealAt \in [Assignments -> Nat]
  /\ claimedAt \in [Assignments -> Nat]
  /\ deadline \in [Assignments -> Nat]
  /\ paused \in [Assignments -> BOOLEAN]
  /\ remaining \in [Assignments -> Nat]
  /\ resumed \in [Assignments -> BOOLEAN]
  /\ used \in [Assignments -> Nat]
  /\ request \in [Assignments -> RequestStatuses]
  /\ submittedAt \in [Assignments -> Nat]
  /\ reviewedAt \in [Assignments -> Nat]
  /\ evidence \in [Assignments -> BOOLEAN]
  /\ task \in [Assignments -> TaskStatuses]
  /\ conclusion \in [Assignments -> VerdictsOfTelesales \cup {"NONE"}]
  /\ balance \in [Receivers -> Nat]
  /\ charge \in [Assignments -> Nat]
  /\ posted \in [Assignments -> SUBSET LedgerKeys]
  /\ reward \in [Assignments -> RewardStatuses]

\* One round of a lead is active at most.  The lead points at it, unless the
\* lead was reopened after a deal and the round comes back by its return.  The
\* status of the lead follows the round: a lead in a pool points at none, a
\* dispatched lead waits for its claim, a lead in the receiver's hands is held
\* by a round that was paid.
OneLiveRound ==
  \A l \in Leads :
    /\ \A a, b \in RoundsOf(l) : {status[a], status[b]} \subseteq ActiveStatuses => a = b
    /\ \A a \in RoundsOf(l) : status[a] \in ActiveStatuses => current[l] = a \/ dealAt[a] # 0
    /\ current[l] # None => current[l] \in RoundsOf(l)
    /\ leadStatus[l] \in {"READY_DISPATCH", "PUBLIC_POOL", "IN_SUPPLY", "DELETED"} =>
         current[l] = None
    /\ leadStatus[l] = "DISPATCHED" =>
         current[l] # None /\ status[current[l]] = "PENDING_CLAIM"
    /\ leadStatus[l] \in {"CLAIMED", "FOLLOWING"} =>
         \E a \in RoundsOf(l) : status[a] \in {"CLAIMED", "FOLLOWING", "RETURN_PENDING"}
    /\ leadStatus[l] = "CLOSED" /\ current[l] # None =>
         status[current[l]] \in {"COMPLETED", "RETURN_PENDING"} /\ dealAt[current[l]] # 0

\* Three paths give a receiver its points back (an approved return, a release
\* after a correction, the recall of a wrong dispatch), each under an
\* idempotency key of its own: no claim is refunded by two of them, and
\* nothing is refunded while the receiver keeps the contact.
RefundedOnce ==
  \A a \in Assignments :
    /\ Cardinality(posted[a] \cap RefundKeys) <= 1
    /\ posted[a] \cap RefundKeys # {} =>
         "claim" \in posted[a] /\ status[a] \in {"RETURNED", "RELEASED"}

RewardKept(a) == "settle" \in posted[a] /\ "reverse" \notin posted[a]

\* The supplier keeps a reward only for a claim that stands: never for one
\* that was refunded, whatever order deal, appeal, review, settlement job,
\* recall and deletion came in.
RewardOnlyForAStandingClaim ==
  \A a \in Assignments : RewardKept(a) =>
    "claim" \in posted[a] /\ posted[a] \cap RefundKeys = {}

\* However often a lead is dispatched again, its supplier keeps one reward, and
\* one more only for a lead that was reopened after a deal: of the rounds it is
\* paid for one at most had no deal.  A promise not kept yet is the last one.
OneRewardPerLead ==
  \A l \in Leads : \A a, b \in RoundsOf(l) :
    /\ a # b /\ RewardKept(a) /\ RewardKept(b) => dealAt[a] # 0 \/ dealAt[b] # 0
    /\ a # b /\ reward[a] \in UnsettledRewards =>
         reward[b] \notin UnsettledRewards /\ (RewardKept(b) => dealAt[b] # 0)

\* A reward the 48-hour clock paid, not a deal, is final: the receiver has no
\* return left that could take it back.
ClockPaymentIsFinal ==
  \A a \in Assignments : RewardKept(a) /\ dealAt[a] = 0 =>
    /\ request[a] \notin OpenReturns
    /\ ~(request[a] \in {"NONE", "DRAFT"} /\ LeadOpen(a) /\ now < AppealDeadline(a))

\* While a return is open the reward is not payable, and once it is over the
\* reward is not left frozen: a frozen reward has an open return to decide it.
FrozenExactlyUnderAppeal ==
  \A a \in Assignments :
    /\ request[a] \in OpenReturns => reward[a] # "OBSERVING" /\ status[a] = "RETURN_PENDING"
    /\ reward[a] = "FROZEN" => request[a] \in OpenReturns

\* The receiver has the whole window, however many returns pause it: what the
\* clock still shows and what it used make up the window.
WindowIsConserved ==
  \A a \in Assignments : status[a] \in HeldStatuses =>
    IF paused[a] THEN remaining[a] + used[a] = AppealWindow
    ELSE AppealDeadline(a) + used[a] = now + AppealWindow

\* While the price stays what it is, the dispatches a receiver has not claimed
\* yet never add up to more than it can pay.
DispatchesAreFunded == \A r \in Receivers : Reserved(r) <= balance[r]

\* Once a lead is deleted, no point of a receiver moves for it any more, and
\* its supplier is paid nothing: only a reversal may still be posted.
NothingPostedAfterDeletion ==
  [][\A a \in Assignments :
       leadOf[a] # None /\ ~LeadOpen(a) => posted'[a] \subseteq posted[a] \cup {"reverse"}]_vars

\* What is due is done by the job that looks for it: a dispatch not claimed in
\* time leaves, a draft whose window is over expires, and a reward that is
\* effective is paid -- the query of the settlement job misses none that
\* settle_supplier_reward would pay.
ExpiryDue(a) == AwaitsClaim(a) /\ expires[a] <= now
DraftDue(a) == /\ request[a] = "DRAFT" /\ LeadOpen(a) /\ AppealDeadline(a) <= now
RewardDue(a) == /\ reward[a] = "OBSERVING" /\ Settleable(a) /\ ~supplyFrozen
DueWorkIsDone ==
  \A a \in Assignments :
    /\ []<>~ExpiryDue(a)
    /\ []<>~DraftDue(a)
    /\ []<>~RewardDue(a)

-----------------------------------------------------------------------------
\* What a round means to the two sides, read off the ledger and the rows.
SaleOf(a) ==
  IF status[a] = "NEW" THEN "none"
  ELSE IF status[a] = "PENDING_CLAIM" THEN "offered"
  ELSE IF "claim" \notin posted[a] THEN "withdrawn"
  ELSE IF posted[a] \cap RefundKeys # {} THEN "refunded"
  ELSE IF current[leadOf[a]] = a THEN "charged" ELSE "kept"

PayOf(a) ==
  IF RewardKept(a) THEN "paid"
  ELSE IF "settle" \in posted[a] THEN "recovered"
  ELSE IF reward[a] \in UnsettledRewards THEN "promised" ELSE "none"

Sale == INSTANCE LeadSale WITH
          Rounds <- Assignments, lead <- leadOf, buyer <- receiver,
          sale <- [a \in Assignments |-> SaleOf(a)],
          pay <- [a \in Assignments |-> PayOf(a)],
          gone <- {l \in Leads : leadStatus[l] = "DELETED"}

\* The handlers together keep what LeadSale promises, step by step.
ImplementsSale == Sale!SaleSpec
=============================================================================
