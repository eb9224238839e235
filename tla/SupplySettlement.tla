-------------------------- MODULE SupplySettlement --------------------------
(***************************************************************************)
(* How a supplier's points leave the platform as money.  Rewards of the    *)
(* supplier are paid and may be taken back (supplier_reward_v12.py); a     *)
(* withdrawal takes part of the points out (supply_withdrawal.py); ending  *)
(* the cooperation settles all of them (supply_termination.py).  The       *)
(* three meet in one account of two wallets, whose frozen part they share. *)
(* One supplier company is modelled.                                       *)
(*                                                                         *)
(* A handler is one transaction under the locks of its request and of the  *)
(* account, hence one action, with one exception: create_withdrawal reads  *)
(* the quota without a lock, so its check and its insertion are two        *)
(* actions.                                                                *)
(***************************************************************************)
EXTENDS PointsAccount, FiniteSets

CONSTANTS
  Rewards,          \* rewards of the supplier, one per claimed lead
  RewardPoints,     \* the points of each
  Withdrawals,      \* withdrawal requests
  MaxSize,          \* bound on the points a request asks for
  MaxCustomer       \* bound on the customer points of the company

ASSUME SettlementAssumption ==
  /\ RewardPoints \in Nat \ {0}
  /\ MaxSize \in Nat \ {0}
  /\ MaxCustomer \in Nat
  /\ IsFiniteSet(Withdrawals) /\ IsFiniteSet(Rewards)

VARIABLES
  balance,      \* balance[k]: points_accounts.balance and .supply_balance
  frozen,       \* frozen[k]: frozen_customer_points, frozen_supply_points
  reward,       \* reward[x]: reward.status, NONE before the claim
  window,       \* window[x]: the return window of the claimed assignment
  recorded,     \* recorded[x]: what reward.appeal_deadline_at says
  withdrawal,   \* withdrawal[w]: status, CHECKED while it is being created
  size,         \* size[w]: points_requested
  change,       \* change[w]: change_status is PENDING
  cooperation,  \* company.supplier_cooperation_status
  termination,  \* status of the latest termination request
  snapshot,     \* snapshot[k]: points the approved termination pays out
  settled       \* history: supply points terminations wrote off

walletVars == <<balance, frozen>>
rewardVars == <<reward, window, recorded>>
withdrawalVars == <<withdrawal, size, change>>
terminationVars == <<cooperation, termination, snapshot, settled>>
settlementVars == <<walletVars, rewardVars, withdrawalVars, terminationVars>>

-----------------------------------------------------------------------------
NoPoints == [k \in Kinds |-> 0]

\* ACTIVE_WITHDRAWAL_STATUSES; the approved ones hold a frozen part.
ApprovedStatuses == {"APPROVED_PENDING_PAYMENT", "PAID_PENDING_WRITE_OFF"}
InFlightStatuses == {"PENDING_REVIEW"} \cup ApprovedStatuses

\* Termination requests with an approved snapshot.
SettlingStatuses == {"APPROVED_PENDING_PAYMENT", "PAID_PENDING_WRITE_OFF", "PAYMENT_FAILED"}
ActiveRequestStatuses == {"REQUESTED", "NEED_MORE"} \cup SettlingStatuses

SettlementInit ==
  /\ balance = NoPoints /\ frozen = NoPoints
  /\ reward = [x \in Rewards |-> "NONE"]
  /\ window = [x \in Rewards |-> "closed"]
  /\ recorded = [x \in Rewards |-> "past"]
  /\ withdrawal = [w \in Withdrawals |-> "NONE"]
  /\ size = [w \in Withdrawals |-> 0]
  /\ change = [w \in Withdrawals |-> FALSE]
  /\ cooperation = "ACTIVE"
  /\ termination = "NONE"
  /\ snapshot = NoPoints
  /\ settled = 0

-----------------------------------------------------------------------------
\* Postings, through change_points.

Account == [balance |-> balance, frozen |-> frozen, ready |-> TRUE,
            settling |-> termination \in SettlingStatuses]

Movement(kind, type, delta) ==
  [kind |-> kind, type |-> type, delta |-> delta,
   related |-> IF type = "REVERSAL" THEN 1 ELSE 0,
   allowNegative |-> type = "REVERSAL",
   allowFrozen |-> type \in {"WITHDRAWAL_WRITEOFF", "TERMINATION_WRITEOFF"}]

Moved(account, ch) ==
  /\ Accepts(account, ch)
  /\ balance' = Credited(account, ch).balance

\* The company also receives leads: recharges and claims move its customer points.
MoveCustomerPoints ==
  /\ \/ balance["CUSTOMER"] < MaxCustomer /\ Moved(Account, Movement("CUSTOMER", "RECHARGE", 1))
     \/ Moved(Account, Movement("CUSTOMER", "CLAIM", -1))
  /\ UNCHANGED <<frozen, rewardVars, withdrawalVars, terminationVars>>

-----------------------------------------------------------------------------
\* Rewards and the return window behind them.

\* A receiver claims a lead of the supplier.  An approved termination leaves no
\* lead to claim.
PromiseReward(x) ==
  /\ reward[x] = "NONE"
  /\ cooperation # "TERMINATED" /\ termination \notin SettlingStatuses
  /\ reward' = [reward EXCEPT ![x] = "OBSERVING"]
  /\ window' = [window EXCEPT ![x] = "open"]
  /\ recorded' = [recorded EXCEPT ![x] = "current"]
  /\ UNCHANGED <<walletVars, withdrawalVars, terminationVars>>

\* settle_supplier_reward: after a deal in the running window, or at its end.
\* It writes the assignment's deadline into the reward.
SettleReward(x) ==
  /\ reward[x] = "OBSERVING"
  /\ window[x] # "paused"
  /\ Moved(Account, Movement("SUPPLY", "REWARD", RewardPoints))
  /\ reward' = [reward EXCEPT ![x] = "SETTLED"]
  /\ recorded' = [recorded EXCEPT ![x] = IF window[x] = "closed" THEN "past" ELSE "current"]
  /\ UNCHANGED <<frozen, window, withdrawalVars, terminationVars>>

\* A return is submitted: the window stops.
OpenAppeal(x) ==
  /\ window[x] \in {"open", "resumed"}
  /\ window' = [window EXCEPT ![x] = "paused"]
  /\ UNCHANGED <<walletVars, reward, recorded, withdrawalVars, terminationVars>>

\* The return is rejected: the window goes on with a later deadline.  A reward
\* already paid keeps the deadline it had.
RejectAppeal(x) ==
  /\ window[x] = "paused"
  /\ window' = [window EXCEPT ![x] = "resumed"]
  /\ recorded' = [recorded EXCEPT ![x] =
                    IF reward[x] # "SETTLED" THEN "current"
                    ELSE IF @ = "current" THEN "earlier" ELSE @]
  /\ UNCHANGED <<walletVars, reward, withdrawalVars, terminationVars>>

\* A deadline passes: the one the reward records, or the window's own.
DeadlinePasses(x) ==
  /\ \/ /\ recorded[x] = "earlier" \/ (recorded[x] = "current" /\ window[x] = "paused")
        /\ recorded' = [recorded EXCEPT ![x] = "past"]
        /\ UNCHANGED window
     \/ /\ window[x] \in {"open", "resumed"} /\ recorded[x] # "earlier"
        /\ recorded' = [recorded EXCEPT ![x] = "past"]
        /\ window' = [window EXCEPT ![x] = "closed"]
  /\ UNCHANGED <<walletVars, reward, withdrawalVars, terminationVars>>

\* Fault: the approved snapshot survives the reversal.
SnapshotSurvives ==
  /\ frozen' = NoPoints
  /\ UNCHANGED <<termination, snapshot>>

\* An approved termination has to be reviewed again.
SnapshotInvalidated ==
  /\ termination' = "NEED_MORE"
  /\ snapshot' = NoPoints
  /\ frozen' = NoPoints

\* reverse_supplier_reward with prepare_supplier_reward_reversal: an unpaid
\* termination loses its snapshot, a paid one refuses the reversal, and so does
\* a wallet that a withdrawal has closed.
TakeBack(x) ==
  /\ reward[x] = "SETTLED"
  /\ termination # "PAID_PENDING_WRITE_OFF"
  /\ IF termination \in SettlingStatuses
     THEN /\ SnapshotInvalidated
          /\ Moved([Account EXCEPT !.frozen = NoPoints, !.settling = FALSE],
                  Movement("SUPPLY", "REVERSAL", -RewardPoints))
     ELSE /\ Moved(Account, Movement("SUPPLY", "REVERSAL", -RewardPoints))
          /\ UNCHANGED <<frozen, termination, snapshot>>
  /\ reward' = [reward EXCEPT ![x] = "REVERSED"]

\* A manual reversal: fraud or an error.
ReverseReward(x) ==
  /\ TakeBack(x)
  /\ UNCHANGED <<window, recorded, withdrawalVars, cooperation, settled>>

\* Fault: a reward that was paid is cancelled like one that was not.
ApproveAppealUnpaid(x) ==
  /\ window[x] = "paused"
  /\ window' = [window EXCEPT ![x] = "closed"]
  /\ reward' = [reward EXCEPT ![x] = IF @ \in {"OBSERVING", "SETTLED"} THEN "CANCELLED" ELSE @]
  /\ UNCHANGED <<walletVars, recorded, withdrawalVars, terminationVars>>

\* The return is approved: the reward is cancelled, or taken back.
ApproveAppeal(x) ==
  /\ window[x] = "paused"
  /\ window' = [window EXCEPT ![x] = "closed"]
  /\ IF reward[x] = "SETTLED" THEN TakeBack(x)
     ELSE /\ reward' = [reward EXCEPT ![x] = IF @ = "OBSERVING" THEN "CANCELLED" ELSE @]
          /\ UNCHANGED <<walletVars, termination, snapshot>>
  /\ UNCHANGED <<recorded, withdrawalVars, cooperation, settled>>

-----------------------------------------------------------------------------
\* Withdrawals.

\* The points of some requests together, counted one by one.
PointsAsked(ws) == Cardinality({p \in ws \X (1..MaxSize) : p[2] <= size[p[1]]})

InFlight == {w \in Withdrawals : withdrawal[w] \in InFlightStatuses}

\* at_risk_supply_points: rewards paid whose recorded deadline lies ahead.
AtRiskPoints ==
  RewardPoints * Cardinality({x \in Rewards : reward[x] = "SETTLED" /\ recorded[x] # "past"})

\* Fault: the quota counts rewards that may still be taken back.
AvailableAtRisk(w) ==
  balance["SUPPLY"] - frozen["SUPPLY"] - PointsAsked(InFlight \ {w})

\* available_supply_points, the request w itself left out.  An approved request
\* counts twice, as frozen and as in flight.
Available(w) ==
  balance["SUPPLY"] - frozen["SUPPLY"] - PointsAsked(InFlight \ {w}) - AtRiskPoints

\* create_withdrawal, up to the quota check.  No row is locked.
CheckWithdrawal(w, n) ==
  /\ withdrawal[w] = "NONE"
  /\ cooperation = "ACTIVE"
  /\ n <= Available(w)
  /\ withdrawal' = [withdrawal EXCEPT ![w] = "CHECKED"]
  /\ size' = [size EXCEPT ![w] = n]
  /\ UNCHANGED <<walletVars, rewardVars, change, terminationVars>>

WithdrawalStep(w, from, to) ==
  /\ withdrawal[w] \in from
  /\ withdrawal' = [withdrawal EXCEPT ![w] = to]
  /\ UNCHANGED <<rewardVars, size, terminationVars>>

\* create_withdrawal, the insertion.
InsertWithdrawal(w) ==
  /\ WithdrawalStep(w, {"CHECKED"}, "PENDING_REVIEW")
  /\ UNCHANGED <<walletVars, change>>

\* review_withdrawal APPROVE: the points stay on the account, frozen.
ApproveWithdrawal(w) ==
  /\ size[w] <= Available(w)
  /\ WithdrawalStep(w, {"PENDING_REVIEW"}, "APPROVED_PENDING_PAYMENT")
  /\ frozen' = [frozen EXCEPT !["SUPPLY"] = @ + size[w]]
  /\ UNCHANGED <<balance, change>>

\* review_withdrawal REJECT
RejectWithdrawal(w) ==
  /\ WithdrawalStep(w, {"PENDING_REVIEW"}, "REJECTED")
  /\ UNCHANGED <<walletVars, change>>

\* A request that ends gives its frozen points free, never more than are frozen.
ReleaseFreeze(w) ==
  frozen' = [frozen EXCEPT !["SUPPLY"] = IF @ > size[w] THEN @ - size[w] ELSE 0]

\* cancel_withdrawal
CancelWithdrawal(w) ==
  /\ IF withdrawal[w] = "APPROVED_PENDING_PAYMENT" THEN ReleaseFreeze(w)
     ELSE UNCHANGED frozen
  /\ WithdrawalStep(w, {"PENDING_REVIEW", "APPROVED_PENDING_PAYMENT"}, "CANCELLED")
  /\ UNCHANGED <<balance, change>>

\* record_offline_payment: the administrator has sent the money.
RecordWithdrawalPayment(w) ==
  /\ ~change[w]
  /\ WithdrawalStep(w, {"APPROVED_PENDING_PAYMENT"}, "PAID_PENDING_WRITE_OFF")
  /\ UNCHANGED <<walletVars, change>>

\* fail_offline_payment: the freeze is kept.
FailWithdrawalPayment(w) ==
  /\ WithdrawalStep(w, {"PAID_PENDING_WRITE_OFF"}, "APPROVED_PENDING_PAYMENT")
  /\ UNCHANGED <<walletVars, change>>

\* confirm_offline_payment: the points are written off.
ConfirmWithdrawalPayment(w) ==
  /\ cooperation \notin {"TERMINATION_PENDING", "TERMINATED"}
  /\ balance["SUPPLY"] >= size[w]
  /\ Moved(Account, Movement("SUPPLY", "WITHDRAWAL_WRITEOFF", -size[w]))
  /\ ReleaseFreeze(w)
  /\ WithdrawalStep(w, {"PAID_PENDING_WRITE_OFF"}, "PAID")
  /\ UNCHANGED change

\* request_payment_change and review_payment_change: the payee is replaced.
RequestPaymentChange(w) ==
  /\ WithdrawalStep(w, {"APPROVED_PENDING_PAYMENT"}, "APPROVED_PENDING_PAYMENT")
  /\ change' = [change EXCEPT ![w] = TRUE]
  /\ UNCHANGED walletVars

ReviewPaymentChange(w) ==
  /\ change[w]
  /\ WithdrawalStep(w, {"APPROVED_PENDING_PAYMENT"}, "APPROVED_PENDING_PAYMENT")
  /\ change' = [change EXCEPT ![w] = FALSE]
  /\ UNCHANGED walletVars

-----------------------------------------------------------------------------
\* End of the cooperation.

\* termination_blockers: a negative balance, an unfinished reward or return, a
\* paid reward whose window still runs, or a withdrawal in flight.
Blockers ==
  \/ balance["CUSTOMER"] < 0 \/ balance["SUPPLY"] < 0
  \/ \E x \in Rewards : reward[x] = "OBSERVING" \/ window[x] = "paused"
  \/ \E x \in Rewards : reward[x] = "SETTLED" /\ window[x] # "closed"
  \/ InFlight # {}

TerminationStep(from, to, status) ==
  /\ termination \in from
  /\ termination' = to
  /\ cooperation' = status
  /\ UNCHANGED <<rewardVars, withdrawalVars>>

\* create_termination_request, also as the answer to NEED_MORE, which leaves
\* the company as it is.
RequestTermination ==
  /\ \/ /\ termination \notin ActiveRequestStatuses /\ cooperation # "TERMINATED"
        /\ TerminationStep({termination}, "REQUESTED", "TERMINATION_PENDING")
     \/ TerminationStep({"NEED_MORE"}, "REQUESTED", cooperation)
  /\ UNCHANGED <<walletVars, snapshot, settled>>

\* refresh_termination
RefreshTermination ==
  /\ ~Blockers
  /\ TerminationStep({"NEED_MORE"}, "REQUESTED", cooperation)
  /\ UNCHANGED <<walletVars, snapshot, settled>>

\* cancel_termination frees everything that is frozen.
CancelTermination ==
  /\ TerminationStep({"REQUESTED", "NEED_MORE", "APPROVED_PENDING_PAYMENT", "PAYMENT_FAILED"},
                     "CANCELLED", "ACTIVE")
  /\ frozen' = NoPoints
  /\ UNCHANGED <<balance, snapshot, settled>>

\* approve_termination: both balances are frozen and become the snapshot.
ApproveTermination ==
  /\ ~Blockers
  /\ TerminationStep({"REQUESTED", "NEED_MORE"}, "APPROVED_PENDING_PAYMENT",
                     "TERMINATION_PENDING")
  /\ snapshot' = balance
  /\ frozen' = balance
  /\ UNCHANGED <<balance, settled>>

\* decide_termination with REJECT or NEED_MORE.
DecideTermination ==
  /\ \/ TerminationStep({"REQUESTED", "NEED_MORE"}, "REJECTED", "ACTIVE")
     \/ TerminationStep({"REQUESTED", "NEED_MORE"}, "NEED_MORE", cooperation)
  /\ UNCHANGED <<walletVars, snapshot, settled>>

\* record_offline_payment of the termination.
RecordTerminationPayment ==
  /\ TerminationStep({"APPROVED_PENDING_PAYMENT", "PAYMENT_FAILED"},
                     "PAID_PENDING_WRITE_OFF", cooperation)
  /\ UNCHANGED <<walletVars, snapshot, settled>>

\* fail_offline_payment of the termination.
FailTerminationPayment ==
  /\ TerminationStep({"APPROVED_PENDING_PAYMENT", "PAID_PENDING_WRITE_OFF"},
                     "PAYMENT_FAILED", "TERMINATION_PENDING")
  /\ UNCHANGED <<walletVars, snapshot, settled>>

\* confirm_offline_payment of the termination: both snapshots are written off.
\* A wallet without points has no entry.
ConfirmTermination ==
  /\ \A k \in Kinds :
       /\ balance[k] >= snapshot[k]
       /\ snapshot[k] # 0 => Accepts(Account, Movement(k, "TERMINATION_WRITEOFF", -snapshot[k]))
  /\ TerminationStep({"PAID_PENDING_WRITE_OFF"}, "TERMINATED", "TERMINATED")
  /\ balance' = [k \in Kinds |-> balance[k] - snapshot[k]]
  /\ frozen' = NoPoints
  /\ settled' = settled + snapshot["SUPPLY"]
  /\ UNCHANGED snapshot

\* reopen_supply_cooperation
ReopenCooperation ==
  /\ cooperation = "TERMINATED"
  /\ TerminationStep({termination}, termination, "ACTIVE")
  /\ UNCHANGED <<walletVars, snapshot, settled>>

-----------------------------------------------------------------------------
SettlementNext ==
  \/ MoveCustomerPoints
  \/ \E x \in Rewards :
       \/ PromiseReward(x) \/ SettleReward(x) \/ OpenAppeal(x) \/ RejectAppeal(x)
       \/ DeadlinePasses(x) \/ ReverseReward(x) \/ ApproveAppeal(x)
  \/ \E w \in Withdrawals :
       \/ \E n \in 1..MaxSize : CheckWithdrawal(w, n)
       \/ InsertWithdrawal(w) \/ ApproveWithdrawal(w) \/ RejectWithdrawal(w)
       \/ CancelWithdrawal(w) \/ RecordWithdrawalPayment(w)
       \/ FailWithdrawalPayment(w) \/ ConfirmWithdrawalPayment(w)
       \/ RequestPaymentChange(w) \/ ReviewPaymentChange(w)
  \/ RequestTermination \/ RefreshTermination \/ CancelTermination \/ ApproveTermination
  \/ DecideTermination \/ RecordTerminationPayment \/ FailTerminationPayment
  \/ ConfirmTermination \/ ReopenCooperation

SettlementSpec == SettlementInit /\ [][SettlementNext]_settlementVars

-----------------------------------------------------------------------------
Approved == {w \in Withdrawals : withdrawal[w] \in ApprovedStatuses}

\* Every variable has the shape the code gives it.
SettlementTypeOK ==
  /\ balance \in [Kinds -> Int] /\ frozen \in [Kinds -> Nat]
  /\ reward \in [Rewards -> {"NONE", "OBSERVING", "SETTLED", "CANCELLED", "REVERSED"}]
  /\ window \in [Rewards -> {"open", "paused", "resumed", "closed"}]
  /\ recorded \in [Rewards -> {"current", "earlier", "past"}]
  /\ withdrawal \in [Withdrawals -> {"NONE", "CHECKED", "REJECTED", "CANCELLED", "PAID"}
                                      \cup InFlightStatuses]
  /\ size \in [Withdrawals -> 0..MaxSize]
  /\ change \in [Withdrawals -> BOOLEAN]
  /\ cooperation \in {"ACTIVE", "TERMINATION_PENDING", "TERMINATED"}
  /\ termination \in {"NONE", "CANCELLED", "REJECTED", "TERMINATED"} \cup ActiveRequestStatuses
  /\ snapshot \in [Kinds -> Nat]
  /\ settled \in Nat

\* From its approval to its write-off a termination can be paid as approved:
\* the points of the snapshot stay there, frozen, whatever is recharged,
\* claimed, reversed or reviewed meanwhile -- or the snapshot is void and has
\* to be approved again.
SettlementStaysPayable ==
  termination \in SettlingStatuses =>
    frozen = snapshot /\ \A k \in Kinds : balance[k] >= snapshot[k]

\* Withdrawal and termination never claim the same points: while a termination
\* is approved no withdrawal is approved or paid and not written off.
OneClaimOnThePoints == termination \in SettlingStatuses => Approved = {}

\* Points are frozen for somebody: a freeze nobody owns would close the wallet
\* to every reward and every reversal for good.
NoOrphanFreeze ==
  termination \notin SettlingStatuses =>
    frozen["CUSTOMER"] = 0 /\ (frozen["SUPPLY"] > 0 => Approved # {})

\* The supply balance is what rewards brought and neither a reversal nor one of
\* the two ways out has taken: no point leaves twice.
SupplyIsAccountedFor ==
  balance["SUPPLY"] + settled
    + PointsAsked({w \in Withdrawals : withdrawal[w] = "PAID"})
  = RewardPoints * Cardinality({x \in Rewards : reward[x] = "SETTLED"})

\* A company whose cooperation ended has no supply points left, and none of its
\* withdrawals can still be paid.
TerminatedIsSettled ==
  cooperation = "TERMINATED" => balance["SUPPLY"] <= 0 /\ Approved = {}

\* Two requests may pass the quota check together, but the review never
\* approves more than the account can write off, even after the freeze of an
\* earlier approval was lost.
ApprovalsFitTheBalance ==
  [][\A w \in Withdrawals :
       withdrawal[w] = "PENDING_REVIEW" /\ withdrawal'[w] = "APPROVED_PENDING_PAYMENT" =>
         PointsAsked(Approved)' <= balance["SUPPLY"] - AtRiskPoints]_settlementVars

\* supply_withdrawal.py:305: the review locks the points of an approved
\* request, "审核冻结：不提前扣账，只锁定额度，防止重复提现".
ApprovedPointsStayFrozen ==
  PointsAsked(Approved) <= frozen["SUPPLY"]

\* supply_withdrawal.py:136: the quota leaves out rewards that were paid and
\* may still be taken back, "已入账但退回申诉窗口未关闭、仍可能被冲回的供客积分".
ApprovalsLeaveWhatMayBeTakenBack ==
  [][\A w \in Withdrawals :
       withdrawal[w] = "PENDING_REVIEW" /\ withdrawal'[w] = "APPROVED_PENDING_PAYMENT" =>
         PointsAsked(Approved)' <=
           balance["SUPPLY"]
           - RewardPoints * Cardinality({x \in Rewards :
                              reward[x] = "SETTLED" /\ window[x] # "closed"})]_settlementVars
=============================================================================
