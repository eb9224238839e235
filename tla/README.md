# Zhongshu lead platform: formal model

TLA+ models of the backend of the lead platform (`apps/api/src`), the TLC runs
that check them and the proofs that TLAPS checks. Paths below are relative to
`apps/api/src` unless they start with `docs/`.

The platform sells customer leads. A *supplier* company or the platform itself
brings a lead in, operations dispatch it by hand to one *receiver* company, the
receiver claims it with points, works on it and within 48 hours may return it;
telesales verify the return and operations decide it. The supplier earns points
for a lead that was claimed and became effective, and takes them out as money
by a withdrawal or when its cooperation ends.

## Inventory

| Part | State | Operations | Hard behaviour |
|---|---|---|---|
| Points accounts and ledger (`services/points_service.py`, `routers/points.py`) | account row with two wallets, ledger rows, company level | `change_points`, recharge, adjust, reverse | reads before the account lock, retried keys, frozen wallets |
| Dispatch, claim, refusal (`dispatch_v12.py`) | lead status, current assignment, assignment rows | dispatch, claim, refuse | claim against expiry, points reserved but not charged, price changed in between |
| Timeout job (`assignment_timeout_v12.py`) | the same | expire, remind | races with the claim |
| Follow-ups (`followup_service.py`) | follow-up rows | follow up, deal | the deal pays the supplier in its own transaction |
| Returns (`return_v12.py`, `return_clock.py`, `routers/v12_returns.py`) | request, evidence, verification tasks, window of the assignment | draft, upload, submit, verify, decide, reopen | a window that is paused and resumed, a decision after the reward was paid; several verifications over one heap of files, whose baselines and snapshots lie in the events |
| Keyed requests (`dispatch_v12.py`, `routers/v12_dispatch.py`, `routers/v12_lead_supply.py`) | locks per key in each process, advisory locks, unique index | dispatch, quick dispatch, entry for telesales, each with its key | repetitions in one process or two, a clash at the insert, a process that dies |
| Shared claims (`claim_singleflight.py`, `routers/v12_dispatch.py`) | flights of each process | join, lead, wait, land | a call that joins a flight which has landed, answers copied while the round goes on |
| Supplier rewards (`supplier_reward_v12.py`) | reward rows | promise, freeze, settle, reverse | a job whose query and handler state one condition twice |
| Corrections and redispatch (`lead_supply_v12.py`, `pre_dispatch_v12.py`) | pending reason, issues in `raw_payload`, current assignment | correct, recheck, release, recall, reopen | a second round of the same lead: refund once, reward once a sale; a deal whose lead is reopened and sold again, with its return window still open |
| Deletion (`lead_deletion_v12.py`) | `deleted_at` | delete | everything open is decided at one instant |
| Withdrawals (`supply_withdrawal.py`) | request rows, frozen supply points | create, review, cancel, pay, fail, confirm, change payee | quota read without a lock, shared freeze column |
| Termination (`supply_termination.py`) | request rows, snapshot, cooperation status | request, refresh, cancel, approve, decide, pay, fail, confirm, reopen | rewards reversed after approval, shared freeze column |
| Lead supply (`lead_supply_v12.py`, `routers/v12_lead_supply.py`, `dedup_v12.py`, `phone_uniqueness.py`) | lead row, duplicate decision, review | enter, edit, discard, submit, review, revise, override, quick dispatch | submissions and discardings that act on an unlocked read, one phone entered by two at a time |
| Verification before dispatch (`pre_dispatch_v12.py`) | verification tasks of a lead | queue, assign, start, submit, dispose, new round, restart, reopen | round and lead are two rows written by a dozen handlers |
| Public pool (`public_pool_v12.py`) | pool leads | create, import, transfer | a lead that skips the checks of the other ways |
| Notifications (`notification_v12.py`, `outbox_worker.py`, `routers/notifications.py`) | outbox rows with lease and attempts | emit, claim, check, send, record, retry, cancel | crash between sending and commit, a worker that comes back after its lease, deletion while a notice is under way |
| Exports (`lead_export_v12.py`, `routers/v12_insights.py`, `storage_cleanup_worker.py`) | task with token and lease, files, cleanup rows | request, claim, heartbeat, upload, publish, discard, clean up, download | a file in the storage and its row in the database have no common transaction; takeover of a task |
| Companies and their people (`auth_service.py`, `company_account_management.py`, `company_service.py`, `company_assignment_v12.py`) | company, accounts, WeChat identities, invitations, requests, internal assignee | invite, bind, open and disable accounts, request, unbind, update, delete, assign | a binding that reads before it locks, an update that locks nothing, an employee disabled while he is given a lead, or before a completed one comes back |
| Accounts of the platform (`internal_user_management.py`, `auth_service.py`, `routers/auth.py`, `superadmin_bootstrap.py`, `rbac.py`) | users, roles, session versions, failed logins | bootstrap, open, change roles and status, delete, log in and out, reset passwords, migrate roles | the last administrator, a logout against a revocation, a lockout that ends |
| What a company may receive (`company_profile_v12.py`, `company_service.py`, `routers/v12_lead_supply.py`) | rows of service areas and capability, tables of version 1.0 | apply, configure, review, ask who serves a lead | no handler locks a row, two requests cross |
| Deletion of a test company (`company_service.py`, `routers/companies.py`) | everything the company did | mark, preview, purge | what belongs to it reaches into the data of others, while business goes on |
| Lists, reports, trace, reconciliation (`routers/v12_dispatch.py`, `routers/v12_insights.py`, `reconciliation_v12.py`) | none of their own | queries | one fact read by several ways: a confirmation in SQL and in Python, a refund off the ledger, the return or the round |
| Calendars, integrations | none of their own | computations, calls | not modelled |

Components share one database. A handler is one transaction; it calls the
services of other components inside it (a deal settles the reward, the reward
posts to the ledger, the approval of a return refunds and reverses). Jobs of the
scheduler run the expiry of dispatches, the expiry of drafts and the settlement
of rewards, each over a batch of rows with a savepoint or lock per row. Worker
processes empty the outbox, the export queue and the cleanup queue, each row in
transactions of its own.
The correctness of each part is the list of its properties under *Runs*.

## Modules

```
PointsAccount   <- operators of change_points
   ^       ^
   |       +--- SupplySettlement  MCSupplySettlement \  MCPoints  Points_proofs
PointsLedger                      MCPointsLedger     /

LeadReports         MCLeadLifecycle   LeadReports_proofs
   |                MCLeadRounds
LeadLifecycle                         LeadLifecycle_proofs
   |  ImplementsSale
LeadSale                              LeadSale_proofs

LeadSupply      \                     LeadSupply_proofs
CompanyAccess   /   MCAdmission       CompanyAccess_proofs
NotificationOutbox \
ReturnEvidence      \
KeyedRequests        > MCIndependentParts
ClaimFlight         /                 IndependentParts_proofs
LeadExport         /
   |  ExportKeepsItsPromise
ExportPromise
InternalAccounts \
CompanyProfile    > MCOrganisation    Organisation_proofs
TestCompanyPurge /
```

`LeadSale` and `ExportPromise` are the abstract specifications of what a sale
and an export promise. An `MC` module
gives the constants of its runs, a `_proofs` module holds the theorems.

`PointsAccount` has no variables: it says when `change_points` accepts a change
(`WellFormed`, `SupplyClosed`, `Covered`) and what it does (`Credited`,
`EntryFor`). Both modules that own an account use it.

`PointsLedger` models the finance requests at the granularity of their reads:
a request that looks for its key, its reference or an earlier reversal does so
before the account lock, so each of these reads is an action, and everything
from the lock to the commit is one action (`Post`, `Replay`, `KeyConflict`,
`PostRefused`). `change_points` reads the key once more under the lock; the
first read adds nothing and is part of the action. `phase`, `body`, `seenLevel`
and `answer` are the request's local variables.

`LeadLifecycle` models a lead from the pool to its end. Every handler first
locks the assignment, then the lead, and reads both again (`with_for_update`,
`populate_existing`), so a handler is one action. Columns are functions of the
assignment or the lead with the column's name; `posted[a]` holds the
idempotency keys of the ledger entries of an assignment, `charge[a]` the points
of its claim, `used[a]` counts the window's time for a property. Time is a
counter: one tick stands for the granularity at which deadlines are compared,
and an action may fall on the exact instant of a deadline. Conditions decided
elsewhere (region, capability, contact, access, notification in delivery) may
refuse any call, so no action is forced. A lead without supplier and a
duplicate get no reward, by a choice in `ClaimAssignment`.

A lead that was closed, by a return or by a deal, can be reopened
(`ReopenClosedLead`): it forgets the round it points at and goes back to the
pool, and the assignment stays as it is. `dispatch_manually` looks for another
active round and a deal is none, so the lead can be sold and rewarded a second
time while the first deal stands, and within its window that one may still be
returned. What keeps the two rounds from being active together is the unique
index (`NoOtherActive`), at the dispatch and at the submission of the late
return. A lead nobody holds may also leave for another verification and come
back (`LeaveForSupply`, `ReturnFromSupply`, status `IN_SUPPLY`); what happens to
it there is `LeadSupply`.

`LeadSale` says what all of that amounts to: a lead is offered to one receiver
at a time, a round is withdrawn, charged or refunded, a refund and the loss of
the reward are one step, the supplier is paid for a sale that stands, and after
deletion nothing but a recovery happens. A sale that stands may be left to its
receiver once its reward is decided (`Keep`): the lead is free again, and the sale
may still be refunded, though not while the lead is on offer. `LeadLifecycle` reads the abstract
state off its ledger keys and statuses (`SaleOf`, `PayOf`) and checks
`ImplementsSale == Sale!SaleSpec`.

`LeadReports` adds what is shown of these rounds. A view changes nothing, so
each is an operator on the state of `LeadLifecycle`; the one new column is
`deletedAt`, which a deletion stamps. `SqlEffectiveAt` is the confirmation as
the reports compute it, `ResolvedAt` as the settlement and the trace do;
`FlowRow` and the `Flow...` columns are the finance report, `Own...` that of a
company, `PerformanceNet` that of a supplier, `ReportRows` the lead report of
operations, which knows the one round a lead points at, `SettledRewards`,
`PendingRewards`, `DisputedRewards`, `CompletedRounds` and the `...Queue` sets
those of finance and management, `ContactShown` the phone in the receiver's
lists. The findings of the release reconciliation are operators too
(`DuplicateActive`, `RewardMismatch`, `RefundMismatch`, `AccountMismatch`).

`SupplySettlement` models how a supplier's points leave: rewards with the window
behind them, withdrawals, the termination. `window[x]` is the true state of the
return window; `recorded[x]` says how the deadline stored in the reward relates
to it (equal, earlier, past), which is all the quota looks at. The quota check
of `create_withdrawal` takes no lock, so `CheckWithdrawal` and
`InsertWithdrawal` are two actions; every other handler is one.

`LeadSupply` models a lead up to the pool: entry by operations, a supplier or an
import, submission with the duplicate decision, the supplier review, rounds of
telesales, disposition, corrections, the public pool, and the return to the pool
of a lead whose dispatch came to nothing. Most handlers lock the lead and are
one action. Submission and the discarding of a draft read it without a lock
(`ReadDraft`, then `SubmitDraft` or `DiscardDraft`); the second step writes the
columns that differ from what the first read, as the session of the code does
(`Merged`). An entry checks the phone under the advisory lock of that phone,
which it keeps to the commit (`BeginEntry`, `CommitEntry`). `judged` remembers
the phone of the last duplicate decision, `overtaken` the leads a stale
submission or an override in the middle of a round moved on, `reentered` those
sent into another round because the customer was not reached. `ListedForSupplier`,
`ListedForPlatform` and `ListedInPool` are the lists, `OffersRequeue` the button
for another round in them. The lists write its condition a second time, by the
result of the newest task and not by its status; `PagesOfferWhatIsAccepted` says
that this makes no difference.

`ReturnEvidence` models the files of one return over all its appeals. `checks`
are its verifications in order, with the number of files their submission
counted (`basis`), those there were when it was answered (`told`) and those the
last snapshot in its events holds (`kept`); `reopenedAt` and `askedAt` are the
baselines new material is compared with. The files only grow and are read in
the order of their creation, so a number stands for a set of files. An event of
an earlier release may hold no new snapshot (`SnapshotFiles`). `TaskPage`,
`DownloadsAsAgent` and `ListsReturn` are what pages, downloads and lists show.
Points and the clock are not in it: `windowOver` says whether the window has
ended, and may say so at any moment the clock runs.

`KeyedRequests` models calls that carry an idempotency key, each a thread of a
process with its transaction: the lock entry of the process with its count of
users, taken, released and left in steps of its own (`EnterGuard`,
`AcquireGuard`, `ReleaseGuard`, `LeaveGuard`); the advisory lock that only the
calls entering a lead take; the lookups before and after the lead is locked; the
insert, which waits for another transaction with the key and fails once that has
committed (`Clash`); the commit, and the session that is closed after the answer.
A process may die anywhere. An outcome is named after the call that made it.

`ClaimFlight` models calls that claim one dispatch with one quote: the first
leads, executes the claim and publishes what came of it, the others join, wait,
copy it or run out of time. Row locks and the key of the ledger make the claim
itself one step. `meanwhile[c]` remembers what the database would have answered
a claim of `c` since `c` began; `boarded[c]` that `c` joined a flight whose
leader had executed already while others still used it.

`NotificationOutbox` models a notice from the business transaction that emits it
to its end. A worker reads a batch, claims a row (lease, attempt counted, one
commit), checks the subject, sends, and records the outcome if the row still has
its attempt. It may die at any point; its lease may run out while it goes on;
a retry by hand, a deletion of the lead or the end of the invitation may come in
between. `delivered` and `unsure` count deliveries and those nobody could know
of; `late[w]` says that the lease of `w` has run out.

`LeadExport` models the export of leads with full phone numbers: the request
under its limits, claim and takeover by token and lease, heartbeats, the cleanup
row committed before the upload, the upload, the publication that turns this row
into the end of the retention, the discarding by a worker that lost its task,
and the cleanup job. Time is a counter for every lease and deadline.
`ExportPromise` says what the requester sees of it: an export is requested,
works, ends once as completed or failed, its file can be fetched until it
expires, and then it is gone.

`InternalAccounts` models who administers the platform. A handler locks the
user it changes and is one action, with three exceptions: a change of roles or
status holds the advisory lock of the roster from its check to its commit
(`BeginChange`, then the commit), a logout writes the version it read in
`current_user` without a lock, and a role migration is planned from one reading
and applied later. `desk[d]` is a request between its two steps, `session[b]`
the token of a browser, `guard[u]` the row of failed logins; `tries` counts the
passwords that were judged since the last pause.

`CompanyProfile` models service areas and the receiving capability. No handler
locks a row: each reads the rows of its company (`office[o].saw`) and its commit
writes the columns it changed. `granted` remembers what the platform decided,
`crossed` the rows that were written over a change in between, `byHand` the
companies whose tables of version 1.0 were set directly. `Serves` says that an
area is open, `Accepted` is what the dispatch asks of a company, `Offered` the
list of candidates.

`TestCompanyPurge` models the deletion of a test company `t` beside one other
company and the platform. The purge looks for leads, deals, rewards and entries
in rounds until nothing new turns up, locks them without waiting, and deletes in
one transaction; a business transaction (`clerk`) that took its locks before is
in progress meanwhile. `match[l]` are the duplicates of a lead, `books` the
entries of the ledger, `funds` the accounts.

`CompanyAccess` models who may act for a company. A handler that locks the
company is one action. A binding reads identity and invitation first
(`BeginBinding`) and does the rest under the lock (`FinishBinding`); the update
of a company revokes invitations (`BeginUpdate`) and writes the status at the
commit (`FinishUpdate`) without locking it; handing a lead to an employee locks
the assignment and not the employee (`BeginAssign`, `FinishAssign`). A lead that is
completed (`CompleteWork`) no longer keeps its employee from being disabled, and a
return may take it up again (`ReturnCompletedWork`), whoever has it. `late` are the
leads that came to somebody disabled meanwhile, by an assignment or by such a
return, until they are given to another, are over, or he is enabled; `retired` are
the owners who were unbound. The login of a bound WeChat also takes an invitation; by
`OneInvitation` none is left that it could use, so it changes nothing here.

An operator whose comment starts with *Fault* is a variant of the operator
after it, with a bug a change of the code could introduce. No specification
uses it; each property is tried against one of them and must fail.

## Runs

Every configuration sets `CHECK_DEADLOCK FALSE`: clocks stop at a bound,
request sets are finite and nobody has to act, so the system may stop.

| Run | Bounds | Checks |
|---|---|---|
| `Points` | either 1 company, 3 finance requests, 2 keys, 2 references, 2 packages; or rewards of one size, 2 withdrawals and terminations; symmetric | `Reconciled`, `AnswerIsItsOwnEntry`, `LevelWasPaidFor`, `SettlementStaysPayable`, `SupplyIsAccountedFor`, `ApprovalsFitTheBalance` |
| `LeadLifecycleClock` | 1 lead, 1 dispatch, prices 1 and 2, claim window 1, return window 2, 4 ticks, fair | `ClockPaymentIsFinal`, `FrozenExactlyUnderAppeal`, `WindowIsConserved`, `NothingPostedAfterDeletion`, `DueWorkIsDone`, `ReconciliationFindsNothing`, `ConfirmationsAgree`, `ConfirmedRowsStay` |
| `LeadLifecycleRedispatch` | 2 dispatches of 1 lead, 2 ticks, or 2 leads and a receiver who can pay for one; symmetric | `DispatchesAreFunded`, `ImplementsSale`, `CountsAgree`, `ContactIsPaidFor` |
| `Admission` | 2 leads (one of operations, one of a supplier), 1 phone, 2 requests, 3 verification tasks; 2 companies, 3 accounts, 2 WeChats, 3 invitations, 1 lead handed out, 1 request about an employee, 2 clerks | `IdentityIsUnique`, `RoundMatchesLead`, `SuppliedLeadWasJudged`, `BindingIsTrue`, `HandoverIsComplete` |
| `IndependentParts` | 2 notices, 2 workers, 2 attempts, 2 crashes or lost leases (1 about an invitation), 1 retry by hand; 2 exports, 2 export workers, 2 faults, delays of 2 and 3 ticks; fair. 1 return with 3 files of 2 contents, 2 verifications, 2 agents, owner and employee; 3 calls with one key in 1 or 2 processes; 2 or 3 claims in 1 or 2 processes, prices 1 and 2 | `KnownDeliveryIsNotRepeated`, `DeletedLeadStaysSilent`, `EveryNoticeEnds`, `NoFileIsForgotten`, `EveryFileIsDestroyed`, `ExportKeepsItsPromise`, `EachRoundBringsNews`, `JudgesSeeTheirRound`, `OneKeyOneOutcome`, `AnswerWasTrueMeanwhile` |
| `Organisation` | 3 users, 2 browsers, 2 requests, 2 failed logins, 3 session versions; 2 companies, 4 regions on three levels, 2 requests; 2 leads, 2 deals, 3 rounds of the purge | `SomebodyAdministers`, `EndedSessionsStayEnded`, `GuessesAreBounded`, `CoverageFollowsDecisions`, `OfferedIsAccepted`, `BooksMatchDeals`, `LeadsStayUsable` |
| `LeadSupplyReentered` | as `Admission`, leads only | `ReenteredLeadMustPass`, which the code violates |
| `CompanyProfileConfigured`, `TestCompanyPurgeCashed` | as `Organisation` | `ConfiguredMeansServed`, `MarkedCompanyCanBeDeleted`, which the code violates |
| `PointsLedgerDoubleReversal`, `SupplySettlementFreeze`, `SupplySettlementAppeal` | small | one property each, which the code violates |

Why the bounds are enough: three requests are two that race and one that set
the scene (a recharge and its two reversals); two keys tell a retry from a
conflict. A return window of two ticks can be used up in part, paused and
resumed; four ticks reach its end after a pause. Two dispatches of one lead are
needed for a second round, and every property about rounds compares two of
them: `MCLeadRounds` tries the second one after a return, a release, a recall, an
expiry, a closure and a deal that was reopened, with a late return of the first;
supply, a correction and a return that is sent back for material are tried while
the second has not begun. Two leads and one point are the smallest competition for a receiver's
points. Two withdrawals are the smallest race for the quota. `Points`,
`Admission`, `IndependentParts` and `Organisation` hold two to five models each
that share neither rows nor locks; the first state chooses a *scene*, so that
each model is explored by itself at its own size. The scenes of `Admission`: a lead of operations, or of a
supplier, on its whole way, with nothing or the deleted other lead before it;
both leads while they are entered, submitted and deleted side by side; one
company with its bindings; the owner of two companies; the team of one company.
A lead that was overtaken or sold is followed for two rounds, any other for
three: a round, its repetition, and the one after a correction. Two invitations
and an update that revoke each other need three; two clerks are the smallest
race. The scenes of `IndependentParts`: a notice about a lead, a notice of an
invitation, one export with two faults, two exports with one; a return; calls
with one key that are repeated in one process (`repeated`) or meet in two
(`crossed`); three claims while the round ends (`crowd`), two while price and
points change (`price`), two in two processes one of which dies (`servers`). Two
attempts are a failure and its repetition, and two workers the one that was
overtaken and the one that overtook it. A third file can be a copy of the first
or bring the second content; two verifications are a former one and the one that
is not. In the first process a quick dispatch, its repetition and a dispatch
from the pool share a key, in the other a quick dispatch with another body: each
pair meets another of the three barriers. A claim that leads, one that waits and
one that comes when the first has landed are three; calls of one process and
quote differ in nothing and come in one order. What `ReturnStep` and
`ClaimStep` leave out besides is named there: calls and agents that are alike, and
changes of the surroundings (window, deletion, employee, price) where they meet
nothing; the theorems about these parts know no such limits. The scenes of `Organisation`: the roster of three accounts, a role
migration, sessions with a logout, passwords, and the whole life of two
accounts; one company with two requests about its areas or its capability, one
with its areas on three levels, two with what each receives; the purge of a
company with one deal and all that may be posted for it, or with two deals and
the leads they leave. An administrator can only be the last one if two are taken
away at once, so three accounts are needed; two requests are the smallest
crossing; two deals the smallest chain a purge has to follow. What
`LeadReports` shows is checked in both runs of `LeadLifecycle`: a confirmation
and a refund need the whole window, its pauses and a change of price, counts and
contacts a second round. In two rounds the price and the freeze of the supplier's
points stay as they are; one round sees both change. The clock of
`LeadLifecycle` is the
only one that needs a bound (`Horizon`); the tasks of a lead (`MaxTasks`),
attempts (constants of the code, `MaxAttempts`, `MaxFailures` and `MaxRounds`),
session versions (`MaxVersion`), retries and faults (`MaxRetries`,
`MaxFaults`, `MaxTrouble`) are bounded too, and the durations of `LeadExport`
count down; balances are bounded by the number
of requests, by `Grant`, or by `MaxCustomer` and `MaxSize`.

### Fairness

`LeadLifecycleClock` assumes weak fairness of the three jobs on each row:
`ExpireAssignment`, `ExpireReturnDraft` and `SettleDueReward`. The scheduler
runs the jobs again and again, each takes due rows in a fixed order and a row
that stays due is reached (`drain_due_supplier_reward_settlement` excludes rows
that failed, so one bad row does not block the next). Neither people nor the
clock are fair. `DueWorkIsDone` then says that nothing stays due for ever; it is
the check that the SQL query of the settlement job finds all that
`settle_supplier_reward` would pay. It does not say that every reward ends: a
return sent back for more evidence waits for the receiver without a deadline.

`IndependentParts` assumes weak fairness of each worker on each row
(`OutboxFairness`, `ExportFairness`): `scripts/scheduler.py` and
`scripts/lead_export_worker.py` run their cycles for ever, a cycle takes the rows
that are due in a fixed order, and a step of a worker that is alive is finished.
Leases, back-off and retention end because time goes on. Crashes and failures
are not fair and are bounded: a worker that dies in every cycle delivers
nothing. Under this every notice is delivered, given up or cancelled
(`EveryNoticeEnds`) and every exported file is destroyed in the end
(`EveryFileIsDestroyed`). Returns, keyed requests and claims are checked for safety
only. The other runs check no liveness and need no fairness.

## Where code and documents differ

* `PointsLedgerDoubleReversal`: the check for an earlier reversal
  (`points_service.py:459`) takes no lock and no constraint backs it; two
  requests with different keys reverse one entry twice.
* `SupplySettlementFreeze`: cancelling a termination that froze nothing clears
  the freeze of an approved withdrawal (`supply_termination.py:272`). What saves
  the account is that the quota also subtracts requests in flight:
  `ApprovalsFitTheBalance` holds, and the run shows it. The wallet is open to
  reversals and rewards meanwhile.
* `SupplySettlementAppeal`: the quota takes a paid reward for safe once the
  deadline stored in the reward is past (`supply_withdrawal.py:146`), but an
  open return keeps that deadline and a rejected one moves only the
  assignment's (`return_v12.py:1098`). `termination_blockers` reads the
  assignment and is right.

* `LeadSupplyReentered`: a lead that goes into another round because its
  customer was not reached is marked in `pending_reason`, and operations may
  approve it only after a round that qualified it
  (`pre_dispatch_v12.py:629`). The correction of its region writes another
  reason over the mark (`pre_dispatch_v12.py:364`), and the next round may end
  unqualified and be approved.
* `CompanyProfileConfigured`: a configuration approves every row that
  `replace_service_areas` returned (`routers/v12_lead_supply.py:1567`), and that
  function also returns rows an earlier configuration took away. Configuring two
  areas, then one, then the same one again serves both.
* `TestCompanyPurgeCashed`: a purge leaves the rows of
  `supply_points_withdrawals` alone, whose foreign key forbids the deletion of
  their company (`company_service.py:1228`). A test company that withdrew points
  once is never deleted.

Shown by a property that holds: the finance report reads the refund of a round
off its return request (`routers/v12_insights.py:1397`). A recall refunds
without one (`lead_supply_v12.py:1063`), also a round that was already confirmed,
so the row keeps points for the platform that went back to the receiver, while
`docs/requirements/2026-09-14-用户确认需求实现.md:8` asks each row for later refunds and the final
net points. `CountsAgree` says that the report is off the ledger by exactly the
claims of such rounds, and by nothing else.

Met on the way in the supply of leads: a supplier's duplicate without a location
is queued for telesales and can never be assigned; a platform lead closed as a
duplicate by disposition, without a matched lead, has no way out; a correction
decides about duplicates again and undoes an override
(`lead_supply_v12.py:786`); a submission that read its draft before an edit may
send on a lead whose phone was removed, and two submissions of one draft queue
two tasks; an override in the middle of a round leaves its task open, and its
later approval may let a duplicate through. `RoundMatchesLead` and
`SuppliedLeadWasJudged` except these leads by name (`overtaken`).

Met in the companies: an owner who was unbound can be enabled again beside the
new one (`PrimaryLeads` excepts him by `retired`); an employee may be disabled
in the moment he gets a lead, and after a deal, whose lead a return then takes up
again in his name (both `late`: the owner has to give it to another); a company whose owner was opened as an
account, not by invitation, can never be bound to a WeChat, the state
`binding_integrity.py` reports as `PRIMARY_WITHOUT_IDENTITY`; an update that
disables a company can leave an invitation alive that was created meanwhile, and
waits for the company while a binding waits for the invitation; dispatches
waiting for an owner who is unbound can be claimed by nobody until they time
out; `session_version` is counted in Python, so two changes may count once.

Met among the accounts of the platform: a logout writes the version it read, so
a revocation that came in between is undone (`EndedSessionsStayEnded` excepts
those users by `overtaken`). In the profiles: two requests that cross may leave
a row that neither of them decided (`crossed`). In the purge: the balance of
another company is computed again from the entries that are left, so what a
manual correction had changed may be lost with them.

Met in the returns: while a request waits for more material the form of the
receiver counts every file since the last reopening as material
(`current_round_evidence_count`) and so offers a submission that the handler
refuses; `PagesAgree` says that it never refuses one the handler accepts. A former
verification of a return without a snapshot, written by an earlier release,
shows the files by their times.

Met in front of the claims: a call that joins a flight after its leader has
executed, while others still use it, is answered what was true for them, which
may be over by then (`AnswerWasTrueMeanwhile` excepts it by `boarded`). A dispatch
from the pool takes no advisory lock, so two of them with one key in two
processes meet at the unique index, and the second ends in an error although the
first succeeded; asked again it gets the answer. The calls that enter a lead look
the key up once more instead.

Met in the rounds of a lead: a lead reopened after a deal is sold again and its
supplier paid again, while the first deal stands (`OneRewardForTheSale`); a round
that its lead has let go cannot be followed any more, so when its late return is
rejected before the lead is dispatched again, the lead is `CLAIMED` without a current
assignment, which nobody can follow or dispatch; one that is approved closes the
lead in the pool.

Met in the rest: the check of the payment reference (`points_service.py:415`)
is like that of a reversal, read without a lock on a column that is indexed and
not unique, so one payment may be recharged twice; a recharge with a known key is answered
with whatever entry has the key; an approved withdrawal counts twice against
the quota (as frozen and as in flight), so less than the free points can be
withdrawn; while a withdrawal is approved the supply wallet is closed, so a
return of a paid reward cannot be approved and a deal cannot be recorded; a comment in
`fail_offline_payment` of the withdrawal says the freeze is released, and it is
kept; issues of an old correction block the recall of a later wrong dispatch.

## Proofs

TLAPS checks the theorems below for every value of the constants; TLC had
checked each formula, and the parts of each inductive invariant that were not
evident, on the small instances before. The assumptions are those named in the
modules and nothing else: amounts and prices are positive numbers, windows last
at least one tick, limits are at least one, the sets of rewards, withdrawals and
regions are finite, and `None`, `"none"` and their like are not rows.

| Module | Theorem | Says |
|---|---|---|
| `Points_proofs` | `TypeCorrect`, `FreezeCovered`, `KeysUnique`, `WalletsReconcile`, `AnswerIsHonest`, `LevelIsPaidFor` | `TypeOK`, `BalanceCoversFreeze`, `KeyNamesOneEntry`, `Reconciled`, `AnswerIsItsOwnEntry`, `LevelWasPaidFor` |
| `Points_proofs` | `SettlementTypeCorrect`, `SettlementCanBePaid`, `ClaimsExclude`, `FreezeHasAnOwner`, `NoPointLeavesTwice`, `NothingLeftToPay`, `ApprovalsAreCovered` | `SettlementTypeOK`, `SettlementStaysPayable`, `OneClaimOnThePoints`, `NoOrphanFreeze`, `SupplyIsAccountedFor`, `TerminatedIsSettled`, `ApprovalsFitTheBalance` |
| `LeadSale_proofs` | `SoldToOneReceiver`, `PaidForOneSale` | what the abstract sale promises |
| `LeadLifecycle_proofs` | `TypeCorrect`, `LeadHasOneRound`, `RefundComesOnce`, `RewardNeedsTheClaim`, `LeadIsPaidOnce` | `TypeOK`, `OneLiveRound`, `RefundedOnce`, `RewardOnlyForAStandingClaim`, `OneRewardPerLead` |
| `LeadLifecycle_proofs` | `WindowIsWhole`, `FreezeGoesWithAppeal`, `ClockPaysLast`, `DeletionEndsThePoints` | `WindowIsConserved`, `FrozenExactlyUnderAppeal`, `ClockPaymentIsFinal`, `NothingPostedAfterDeletion` |
| `LeadLifecycle_proofs` | `OffersCanBePaid` | `DispatchesAreFunded`, while the price stays as it is |
| `LeadLifecycle_proofs` | `LifecycleImplementsSale` | `Spec => ImplementsSale` |
| `LeadReports_proofs` | `NothingToReconcile`, `OneConfirmation`, `NumbersAgree`, `ContactGoesWithPayment`, `RowsStay` | `ReconciliationFindsNothing`, `ConfirmationsAgree`, `CountsAgree`, `ContactIsPaidFor`, `ConfirmedRowsStay` |
| `LeadSupply_proofs` | `SupplyIsTyped`, `PhoneNamesOneLead`, `RoundAgreesWithLead`, `NothingIsSoldUnjudged`, `PagesAreTrue` | `SupplyTypeOK`, `IdentityIsUnique`, `RoundMatchesLead`, `SuppliedLeadWasJudged`, `PagesOfferWhatIsAccepted` |
| `CompanyAccess_proofs` | `AccessTypeCorrect`, `TheRightOwnerIsBound`, `WorkHasAWorker` | `AccessTypeOK`, `BindingIsTrue`, `HandoverIsComplete` |
| `IndependentParts_proofs` | `OutboxTypeCorrect`, `NoKnownDeliveryTwice`, `SilenceAfterDeletion` | `OutboxTypeOK`, `KnownDeliveryIsNotRepeated`, `DeletedLeadStaysSilent` |
| `IndependentParts_proofs` | `ExportTypeCorrect`, `EveryFileHasItsRow`, `DownloadFindsTheFile`, `ExportIsAsPromised` | `ExportTypeOK`, `NoFileIsForgotten`, `PublishedFileIsThere`, and the steps of `ExportKeepsItsPromise` |
| `IndependentParts_proofs` | `NoRoundWithoutNews`, `JudgesKeepTheirRound`, `ReturnPagesAgree` | `EachRoundBringsNews`, `JudgesSeeTheirRound`, `PagesAgree` |
| `IndependentParts_proofs` | `RepeatedRequestsAgree`, `SharedAnswersAreTrue` | `OneKeyOneOutcome`, `AnswerWasTrueMeanwhile` |
| `Organisation_proofs` | `AccountsTyped`, `OneSuperAdminStays`, `EndedIsEnded`, `GuessesBounded` | `InternalTypeOK`, `SomebodyAdministers`, `EndedSessionsStayEnded`, `GuessesAreBounded` |
| `Organisation_proofs` | `ProfilesTyped`, `DecisionsCover`, `OfferedAccepted` | `ProfileTypeOK`, `CoverageFollowsDecisions`, `OfferedIsAccepted` |
| `Organisation_proofs` | `PurgeTypes`, `BooksMatch`, `LeadsUsable` | `PurgeTypeOK`, `BooksMatchDeals`, `LeadsStayUsable` |

**What the disagreements come down to.** The properties the code violates hold
under one more hypothesis, the one step or overlap that breaks them. These
theorems say that nothing else in the model does, so a repair has one place to
look at.

| Theorem | Without | holds |
|---|---|---|
| `OnlyARaceReversesTwice` | two reversals of one entry that have both looked before either posts | `ReversedAtMostOnce` |
| `OnlyARacePaysTwice` | two recharges with one payment that have both looked before either posts | `PaymentUsedOnce`: a payment is credited once, in all companies together |
| `OnlyAGivenUpTerminationThaws` | a termination cancelled beside an approved withdrawal | `ApprovedPointsStayFrozen` |
| `OnlyAnAppealOfThePaidEscapes` | a return opened against a reward already paid | `ApprovalsLeaveWhatMayBeTakenBack` |
| `OnlyACorrectionForgets` | the correction of the region of a lead that is verified again | `ReenteredLeadMustPass` |
| `OnlyWithdrawalsKeep` | a withdrawal of the test company | `MarkedCompanyCanBeDeleted` |
| `ConfiguredAndLeftOverAreServed` | rows changed by others, which it leaves out row by row | of `ConfiguredMeansServed` what remains: the areas asked for are served, and of the others just those that have an inactive row |

**PointsLedger.** `Reconciled`, `KeyNamesOneEntry` and `BalanceCoversFreeze` are
inductive beside the types. One lemma (`PostEffect`) says what a posting does:
it appends one entry with a key nobody has, and moves one wallet of one account
by its amount. Since the key is read again under the lock, the races before it
play no part. An entry stays where it was written (`EntriesStay`), so an answer
stays right once it was (`AnswerIsHonest`), and a level needs its recharge only
at the posting (`LevelIsPaidFor`, with `WalletsHoldTheirOwn`: a recharge is in
the customer's wallet). The search for an earlier reversal is not read again;
what was found stays true up to the posting (`FoundUnreversed`) just if nobody
else is between the two (`ReversalsAreSerial`), and that is
`OnlyARaceReversesTwice`. The search for the payment reference has the same
shape (`FoundUnused`, `RechargesAreSerial`), but over all companies, which share
no lock at all.

**SupplySettlement.** None of the properties is inductive alone. The invariant
`Inv` adds that a request that exists asks for something (`SizeAsked`), that
during a settlement the supply wallet is exactly the snapshot
(`SupplyIsTheSnapshot`), that outside of it the freeze is at most what approved
requests ask for (`FreezeIsOwned`), the books as one equation (`SupplyBooks`),
that no reward is promised during and after a settlement (`NothingPromised`),
and that a cooperation that is over ended with its last termination
(`EndedWithTheRequest`). Sums over rows are cardinalities of sets of points
(`Points`), so a handful of lemmas about adding, removing and comparing members
carries all the arithmetic. For the last theorem, `PaidWindowsAreRecorded` says
that a paid reward whose window runs shows it in its own deadline; only the
opening of a return breaks it.

**LeadLifecycle.** The invariant `Inv` ties together what no single handler
sees. For a round (`RoundInv`): a round offered or held is the one its lead points
at, in the lead's status, unless it had its deal, after which a reopening may have
let it go (`RoundIsCurrent`); a deal has decided the reward of its round, which only
an appeal freezes (`DealIsPaid`); an open return holds its round
(`ReturnHoldsRound`); the ledger keys say the same as the status
of the reward (`LedgerFollowsReward`) and of the round (`LedgerFollowsRound`); a
refund ends round and reward and comes once, and a paid round that ended on a
living lead was refunded (`RefundEndsRound`); a reward promised or kept goes
with a round the receiver holds (`RewardFollowsRound`). For a lead: what it
points at is its round, in the status the lead shows (`LeadInv`), one of its rounds
is active (`OneActive`), and of the rounds with a reward one had no deal
(`PaidOnce`). That the reopening of a lead leaves a paid round behind is why none of
these may say more: the round of a deal can be held again by a late return, beside
a second one that is completed. Deletion is why several of these hold only for living leads: it
cancels rounds without a refund. The frame `CurrentRoundStep` carries almost
every handler: a step on the current round of a living lead has only that round
and that lead to account for, since no other round of the lead is active
(`OthersEnded`).

The clock has an invariant of its own on top (`Clocks`), because what the window
and the reward of a round say is changed by handlers of the return: an open
return has paused the window and left something of it (`ReturnPausesClock`), a
reward is frozen for an open return only (`RewardWaitsForReturn`), the round
follows its return (`RoundFollowsReturn`), what is left of the window and what
was used make the whole (`WindowKept`), and a reward paid without a deal has its
deadline behind it (`ClockPaid`). The last needs the others: a rejected return
sets a new deadline from what was left, and were a return of a reward paid by
the clock still possible, that deadline would lie ahead again.

`DeletionEndsThePoints` goes handler by handler: each that posts wants a lead
that is not deleted, the reversal of a reward apart. `DispatchesAreFunded` holds
while the price is fixed, in the run as in `OffersCanBePaid`: offers are
reserved and claimed at the price configured now, so a price that is raised
makes those in being dearer than what the receiver had when they were made.

**Refinement.** `SaleShows` and `PayShows` read the abstract state off status,
ledger keys and reward; `OneRoundSale` turns what becomes of one round into a
step of `LeadSale`. A claim is `Charge`; refusal and timeout are `Withdraw`; an
approved return is `RefundSale`; a recall is `Withdraw` or `RefundSale`; deal,
settlement job and rejected return are `PaySupplier` or nothing; a reopening is
`Keep` or nothing (`ReopeningIsKeep`); deletion is `Delete`. A round its lead no
longer points at shows as kept, so an approved return of one such round is
`RefundSale`, which leaves the sale that stands beside it to its receiver
(`ActiveRefund`). A dispatch is `Offer`, whose guard (everything before was
withdrawn, refunded or kept) is what needs the last part of `RefundEndsRound`. With `LeadSale_proofs`, what the sale promises holds of the
handlers.

**LeadReports.** Every step is one of `LeadLifecycle` (`ReportsFollowHandlers`),
so `Inv` and `Clocks` hold, and the views need little more. `Books` says of each
round what its columns have to do with one another (a claim leaves its time, its
charge and its entry together, a deal comes after it, a rejection is dated, an
approved return, its refund and the end of the round come together). With it the
SQL form of a confirmation and the Python form are the same (`SqlIsResolved`),
and a round that is shown as confirmed stays so, at the same instant
(`StepRecorded`). `Accounts` is the reconciliation of a balance. The sum over the
ledger is the size of a set with one element for each point (`EntryPoints`), so
that a posting adds the points of one entry to it (`SumGrows`) and any step that
posts nothing leaves it (`SumKept`); `StepBooked` says of every handler that it
leaves the ledger alone, books a claim or books a refund. `PaidIsShown` and
`DesksAgree` are what the counts need of rewards and of the tasks of returns; the
report of operations, which sees the round a lead points at, needs of the others
what `RoundIsCurrent` says: only one that had its deal is held.

**LeadSupply.** The invariant `SupplyInv` says of each lead that its round is
its newest task (`RoundIsTheNewest`) and that a supplier's lead was judged
wherever it is on its way to the pool, not only in it (`JudgedOnItsWay`); of each
request that what it read, or the phone it locked, is still what it may act on
(`RequestIsSound`), and that no two hold one phone (`LockIsExclusive`). A step
on one lead leaves the others alone (`StepOfALead`), so each handler has one
lead to account for. Leads in `overtaken` are excepted from the first two, and
stay in it. That the mark of a lead verified again lasts to the end of its round
(`ReentryIsMarked`) needs the first: a lead that waits for telesales has an
active task, so that no new round is begun over it. The lists ask only whether
the newest task missed the customer; such a task is over unless its lead is
deleted (`MissedIsOver`), so they ask what the handler asks.

**CompanyAccess.** `AccessInv` adds to the properties what links an account to
its company: an owner is the primary account or was unbound (`OwnersAreKnown`),
names in invitations and leads are accounts that exist (`NamesAreReal`, so that a
new account has no past), who is active belongs to a company; and what a request
in progress may rely on: an invitation about to be revoked is not used meanwhile
(`UpdateIsSound`, by its row lock), a lead about to be handed over stays with
the company of its new worker (`AssignIsSound`), as a completed one stays with that
of its old (`WorkStaysInside`), which is all that is known of one that comes back. The race of two bindings is
decided in one line of `FinishBindingKeeps`: the company has one usable
invitation and, while it has, nobody bound.

**IndependentParts.** For the outbox, `OutboxInv` says that a worker within its
lease has the latest attempt of its row (`LeaseHolds`), that two workers never
have one attempt, and that while no worker within its lease has sent, all
deliveries of the row are ones nobody could know of. For the exports the
invariant ties a file to the cleanup row committed before it was uploaded and to
the token of its task. `ExportIsAsPromised` maps each step to one of
`ExportPromise` or to none.

**ReturnEvidence.** `EvidenceInv` says that the request points at its last
verification or at none (`CurrentIsLast`), how that one stands for each status of
the request (`LastFits`), that the others are answered and their snapshots are
their own (`SnapshotsAreOwn`), and that the baseline in force is the number of
files when the last answer was given, everything after it having come from the
receiver (`BaselinesFit`). The last is what both properties hang on: it turns
"not in the baseline" into "new since somebody judged", and it needs that no
agent uploads any more once he has answered. All decisions go through one lemma
(`DecisionKeeps`); a change of the last row is another (`LastRowChanges`).

**KeyedRequests.** The barriers have an invariant each. For a process (`GuardInv`):
an entry counts the calls that use it (`UsersAreCounted`), they all use the entry
that is under their key (`JoinersShare`), and the call inside is the one that
holds its lock (`LockIsHeld`); so one call per process and key is inside
(`OneInside`), although entries come and go. For the advisory lock `SerialIsHeld`.
`OthersAreElsewhere` puts them together: an outcome which a call at work did not
find belongs to another process, and to a dispatch if the call enters a lead.
Uniqueness itself is the index's (`OutcomesAreUnique`). Counting joiners is the
one place that needs finite sets.

**ClaimFlight.** `AnswersAreTrue` follows an answer from the leader through the
flight to each caller. A call that joined while the leader had not executed keeps
the true answers of its whole wait (`PresentIsWitnessed`: what the database would
answer now is among what was true meanwhile), so that what the leader is answered
later was true for it too. The seats of an entry are the calls that use it
(`EntriesAreTheirs`), so it is removed with the last of them, and who finds one
finds somebody in it. `debits` needs only that a claimed round is not pending
again.

**InternalAccounts.** `InternalInv` says what a request may rely on between its
two steps. A change of roles or status is the only one in progress
(`OneChange`, by the lock of the roster), and the one it saw left over is still
a super administrator (`ChangeIsSound`): each needs the other, and
`SomebodyAdministers` needs both. A session that was ended has a version below
that of its account (`SessionIsSound`), except after a logout that was
overtaken. The failures counted are at least the passwords judged
(`GuardIsSound`), which bounds the guesses.

**CompanyProfile.** `ProfileInv` ties each row to what the platform decided on
it (`RowFollows`): a row served is one granted, a removal is asked for only of
an active row, and any other active row is approved (`SoundRow`). A request
holds rows that may be old by the time it commits. `CommittedSeen` says that its
commit leaves a row nobody has changed as its author meant, decided or drafted;
a row somebody has changed is in `crossed` from then on (`CommitKeeps`).
`OfferedAccepted` counts districts: a company has an area in every district of a
city just if the rows of the query are as many as the districts.

**TestCompanyPurge.** `PurgeInv` has the books in both directions: every entry
has a deal that says so (`EntryIsSound`), every deal that was paid its entry
(`DealIsBooked`), and an account is the sum of the entries (`AccountsAreSound`).
The deletion is sound because the purge has every deal of the company locked
before it goes on (`LocksAreSound`), so that nobody is about to post for one of
them (`ClerkIsSound`), and because a correction of an entry, and the correction
of that, are found in the two steps the code takes (`WhatIsDoomed`). A lead that
stays is free or out with a deal that stays, and a duplicate knows a twin that is
not deleted (`LeadIsUsable`).

**Only model-checked.** `DueWorkIsDone`, `EveryNoticeEnds`,
`EveryFileIsDestroyed` and the fairness of `ExportKeepsItsPromise` are liveness,
which the prover does not do. The properties of the runs that
end in a violation are false as they stand; the second table says under which
hypothesis they, or what is left of them, hold.

Proved and not repeated in a run: the type invariants, `KeyNamesOneEntry`,
`BalanceCoversFreeze`, `NoOrphanFreeze`, `OneClaimOnThePoints`, `OneLiveRound`,
`RefundedOnce`, `RewardOnlyForAStandingClaim` (TLC had checked these on the
instance of `LeadLifecycleRedispatch`), `PagesAgree`,
`PagesOfferWhatIsAccepted`, `TerminatedIsSettled`, `OneRewardPerLead`,
`PublishedFileIsThere`. Induction over data and recursive operators are out of
the prover's reach too, and the proved modules use neither.

## Not modelled, and why

* Access control, masking, wording and audit rows: they do not decide what the
  modelled state becomes, except that a call may be refused, which every action
  allows.
* Lock acquisition inside a handler. Handlers that lock are atomic, so a
  deadlock between two lock orders (an approval of a paid return and a
  termination, an update of a company and a binding) does not show; the database
  ends it by an error, and the request is refused.
* A commit whose answer is lost. A commit either happens and is known, or does
  not happen; the one place where the code relies on it is the handler of a
  publication (`lead_export_v12.py:1188`), which would then delete a file that
  was published. A worker that is suspended for longer than the delay of the
  cleanup and then uploads is left out as well (`UploadsWithinTheDelay`).
* Cash amounts, fees and rates of withdrawals and terminations: computed once
  from the points and not read again.
* In the supply of leads: the late return of a round that a reopening let go, when
  it is decided while the lead is being verified again (it is in `LeadLifecycle`,
  where the rounds are, and moves the lead out of `IN_SUPPLY` there); which companies serve a region, how old a duplicate is
  (both choices of the model), the dial records, the repair of leads of an
  earlier release (`restore_historical_rework_lead`), the rows of the external
  table an import reads.
* In the background: the keys that keep one event from being emitted twice, the
  reminder jobs, the texts and recipients of notices, the content of workbooks.
  A dead row retried by hand gets one more attempt.
* In the companies: texts and images of a profile, and which rows of the tables
  of version 1.0 the purge clears beside those of the model.
* Reward rules and the workday calendar: computations no modelled handler decides
  on. Of the reconciliation: unknown statuses, fingerprints, evidence metadata,
  running balances.
* Of the reports: periods, pages, groupings, names, recharge totals. Of the lead
  lists: search terms and filters beside status and round. Audit queries, the
  content of exports and request shaping over HTTP.
* Of the material of a return: types and sizes of files, and their objects in the
  storage. A file whose row is committed is there; an upload that fails after the
  object was saved may leave an object no row names.
* Of the requests with a key: a process that dies while its database session
  lives on, which the server ends by itself.
* Scripts, migrations, integrations and the 1.0 flow. They are a large part of
  the lines of this repository, and keep no state whose order of changes could
  be wrong; the models stay with the services that do.

## Plan

1. (done) `PointsAccount`, `PointsLedger`; type correctness, reconciliation,
   unique keys and covered freezes proved.
2. (done) `LeadLifecycle`, `LeadSale`, `SupplySettlement` with their runs; their
   main invariants and the refinement proved.
3. (done) `NotificationOutbox`, `LeadExport`, `ExportPromise`: leases, crashes,
   takeovers and cleanup; safety and the steps of the refinement proved.
4. (done) `LeadSupply`, `CompanyAccess`: what gets into the system; their
   invariants proved.
5. (done) `InternalAccounts`, `CompanyProfile`, `TestCompanyPurge`: who
   administers, who receives, and the end of a test company.
6. (done) `LeadReports`: what the platform shows of the rounds; its invariants
   proved.
7. (done) `ReturnEvidence`, `KeyedRequests`, `ClaimFlight`: the material of
   returns and the requests that are repeated; their invariants proved.
8. `LockOrder`: the locks each handler takes in order; no two handlers wait for
   each other.
9. Pure functions: the reward rule in force, workday arithmetic.
10. Proofs: the steps behind liveness (what a step of a worker brings nearer); then
   `LockOrder`.
