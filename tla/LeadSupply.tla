----------------------------- MODULE LeadSupply -----------------------------
(***************************************************************************)
(* How a lead gets into the pool: entry, submission with the duplicate     *)
(* check, review of a supplier's lead, telesales verification before the   *)
(* dispatch, disposition by operations, corrections and the public pool    *)
(* (lead_supply_v12.py, dedup_v12.py, pre_dispatch_v12.py,                 *)
(* public_pool_v12.py and their routers).  What happens to a dispatched    *)
(* lead is LeadLifecycle's; here it is dispatched and comes back.          *)
(*                                                                         *)
(* Most handlers lock the row of the lead and are one step.  Two read it   *)
(* without a lock, submission and the discarding of a draft: they are two  *)
(* steps, and the second writes the columns that differ from what the      *)
(* first read.  Entry is two steps as well, under the lock of its phone.   *)
(***************************************************************************)
EXTENDS Naturals, Sequences

CONSTANTS
  Leads,        \* rows of the table leads
  Phones,       \* normalised phone numbers
  SourceOf,     \* a supplier company, or one of OperationSources
  Callers,      \* requests in progress at a time
  MaxTasks      \* bound: verification tasks of one lead

OperationSources == {"PLATFORM_MANUAL", "FEISHU_IMPORT"}

ASSUME SupplyAssumption ==
  /\ MaxTasks \in Nat \ {0}
  /\ "none" \notin Phones

VARIABLES
  row,          \* row[l]: the columns of the lead
  tasks,        \* tasks[l]: its PRE_DISPATCH_VERIFY tasks, oldest first
  session,      \* session[c]: the request of caller c
  judged,       \* history: the phone of the latest duplicate decision about l
  overtaken,    \* history: leads a stale submission or an override moved on
  reentered     \* history: leads verified again that have not passed yet

supplyVars == <<row, tasks, session, judged, overtaken, reentered>>
historyVars == <<judged, overtaken, reentered>>

-----------------------------------------------------------------------------
Absent == {"NONE", "DISCARDED"}
SupplyStatuses == Absent \cup
  {"DRAFT", "PENDING_REVIEW", "PENDING_TELESALES_VERIFY", "PENDING_OPERATION_DISPOSITION",
   "READY_DISPATCH", "PUBLIC_POOL", "DISPATCHED", "DUPLICATE", "INVALID", "CLOSED"}
Decisions == {"CLEAR", "HARD_DUPLICATE", "REWARD_DUPLICATE", "HISTORICAL_SUSPECT"}
Reviewable == Decisions \ {"CLEAR"}
ActiveTaskStatuses == {"PENDING", "ASSIGNED", "IN_PROGRESS"}
VerificationStatuses == ActiveTaskStatuses \cup {"SUBMITTED", "RELEASED", "CANCELLED"}

\* DISPATCHED stands for every status of a lead with a current assignment.
LeadRow ==
  [status : SupplyStatuses,
   deleted : BOOLEAN,                                \* deleted_at is set
   phone : Phones \cup {"none"},
   dup : Decisions \cup {"none", "OVERRIDDEN"},      \* duplicate_status
   located : BOOLEAN,                                \* the region is known and active
   approved : BOOLEAN,                               \* review_status is APPROVED
   sold : BOOLEAN,                                   \* an assignment exists
   reverify : BOOLEAN]                               \* the marker in pending_reason

\* passed: the conclusion is QUALIFIED; missed: the customer was not reached.
Task == [status : VerificationStatuses, passed : BOOLEAN, missed : BOOLEAN]

EmptyRow ==
  [status |-> "NONE", deleted |-> FALSE, phone |-> "none", dup |-> "none",
   located |-> FALSE, approved |-> FALSE, sold |-> FALSE, reverify |-> FALSE]
NewTask(s) == [status |-> s, passed |-> FALSE, missed |-> FALSE]
Idle == [kind |-> "idle"]

Session ==
  {Idle} \cup [kind : {"enter"}, lead : Leads, phone : Phones \cup {"none"}]
         \cup [kind : {"submit", "discard"}, lead : Leads, read : LeadRow]

SupplyInit ==
  /\ row = [l \in Leads |-> EmptyRow]
  /\ tasks = [l \in Leads |-> <<>>]
  /\ session = [c \in Callers |-> Idle]
  /\ judged = [l \in Leads |-> "none"]
  /\ overtaken = {} /\ reentered = {}

-----------------------------------------------------------------------------
Exists(l) == row[l].status \notin Absent
Live(l) == Exists(l) /\ ~row[l].deleted
Supplied(l) == SourceOf[l] \notin OperationSources
Active(l) == {i \in DOMAIN tasks[l] : tasks[l][i].status \in ActiveTaskStatuses}
Submitted(l) == {i \in DOMAIN tasks[l] : tasks[l][i].status = "SUBMITTED"}
Newest(l) == Len(tasks[l])

\* acquire_phone_identity_lock: held by an entry until its commit.
PhoneLocked(p) == \E c \in Callers : session[c].kind = "enter" /\ session[c].phone = p

\* require_supply_write_enabled locks the supplier company until the commit.
CompanyFree(l) ==
  Supplied(l) =>
    \A c \in Callers : session[c].kind \in {"enter", "submit"}
      => SourceOf[session[c].lead] # SourceOf[l]

\* Fault: a phone is looked up without its lock.
PhoneUnusedWithoutLock(l, p) == \A k \in Leads \ {l} : Live(k) => row[k].phone # p

\* require_unique_lead_phone: deleted leads do not count, drafts do.
PhoneUnused(l, p) ==
  p = "none" \/ (~PhoneLocked(p) /\ \A k \in Leads \ {l} : Live(k) => row[k].phone # p)

\* The leads _evaluate_phone_identity compares with: deleted ones, no drafts.
Earlier(l, p) == {k \in Leads \ {l} : Exists(k) /\ row[k].status # "DRAFT" /\ row[k].phone = p}

\* How long ago the nearest of them came is left open.
DecisionsOn(l, p) == IF Earlier(l, p) = {} THEN {"CLEAR"} ELSE Decisions
Blocks(d) == d \in {"HARD_DUPLICATE", "HISTORICAL_SUSPECT"}

\* approved_lead_pool_target: whether receivers cover the region is left open.
PoolsOf(l) == IF Supplied(l) THEN {"READY_DISPATCH", "PUBLIC_POOL"} ELSE {"READY_DISPATCH"}

\* Fault: a duplicate of long ago does not stop the lead.
DecidedBySuspicion(r, d, pool) ==
  LET checked == [r EXCEPT !.dup = d, !.reverify = FALSE, !.approved = FALSE]
  IN IF d = "HARD_DUPLICATE" THEN [checked EXCEPT !.status = "DUPLICATE"]
     ELSE IF r.located THEN [checked EXCEPT !.status = pool, !.approved = TRUE]
     ELSE [checked EXCEPT !.status = "PENDING_TELESALES_VERIFY"]

\* What submission makes of the row r it has read.
Decided(r, d, pool) ==
  LET checked == [r EXCEPT !.dup = d, !.reverify = FALSE, !.approved = FALSE]
  IN IF Blocks(d) THEN [checked EXCEPT !.status = "DUPLICATE"]
     ELSE IF r.located THEN [checked EXCEPT !.status = pool, !.approved = TRUE]
     ELSE [checked EXCEPT !.status = "PENDING_TELESALES_VERIFY"]
Outcomes(l, r) == {Decided(r, d, pool) : d \in DecisionsOn(l, r.phone), pool \in PoolsOf(l)}

\* An UPDATE writes the columns that differ from what was read.
Merged(now, read, new) ==
  [f \in DOMAIN now |-> IF new[f] = read[f] THEN now[f] ELSE new[f]]

SetRow(l, r) == row' = [row EXCEPT ![l] = r]
SetTask(l, i, s) == tasks' = [tasks EXCEPT ![l][i].status = s]
AddTask(l, s) ==
  /\ Len(tasks[l]) < MaxTasks
  /\ tasks' = [tasks EXCEPT ![l] = Append(@, NewTask(s))]

\* queue_pre_dispatch_task is called exactly when submission leads to telesales.
QueuedIf(l, r) ==
  IF r.status = "PENDING_TELESALES_VERIFY" THEN AddTask(l, "PENDING") ELSE UNCHANGED tasks

Judge(l, p) == judged' = [judged EXCEPT ![l] = p]

-----------------------------------------------------------------------------
\* Entry, editing and discarding of drafts.

\* create_draft: the phone is looked up under its lock, which is kept ...
BeginEntry(c, l, p) ==
  /\ session[c] = Idle
  /\ row[l].status = "NONE"
  /\ \A d \in Callers : session[d] # Idle => session[d].lead # l
  /\ CompanyFree(l) /\ PhoneUnused(l, p)
  /\ session' = [session EXCEPT ![c] = [kind |-> "enter", lead |-> l, phone |-> p]]
  /\ UNCHANGED <<row, tasks, historyVars>>

\* ... until the row is committed: as a draft, together with a task, or submitted
\* and dispatched at once.
CommitEntry(c) ==
  LET l == session[c].lead
      new(loc) == [EmptyRow EXCEPT !.status = "DRAFT", !.phone = session[c].phone, !.located = loc]
  IN /\ session[c].kind = "enter"
     /\ session' = [session EXCEPT ![c] = Idle]
     /\ \E loc \in BOOLEAN :
          \/ SetRow(l, new(loc)) /\ UNCHANGED <<tasks, judged>>
          \/ /\ SourceOf[l] = "PLATFORM_MANUAL" /\ session[c].phone # "none"
             /\ SetRow(l, [new(loc) EXCEPT !.status = "PENDING_TELESALES_VERIFY"])
             /\ AddTask(l, "ASSIGNED")
             /\ UNCHANGED judged
          \/ /\ SourceOf[l] = "PLATFORM_MANUAL" /\ session[c].phone # "none"
             /\ \E r \in Outcomes(l, new(loc)) :
                  /\ r.status = "READY_DISPATCH"
                  /\ SetRow(l, [r EXCEPT !.status = "DISPATCHED", !.sold = TRUE])
             /\ Judge(l, session[c].phone)
             /\ UNCHANGED tasks
     /\ UNCHANGED <<overtaken, reentered>>

\* A request is refused, or rolled back.
Abort(c) ==
  /\ session[c] # Idle
  /\ session' = [session EXCEPT ![c] = Idle]
  /\ UNCHANGED <<row, tasks, historyVars>>

\* update_draft, update_public_pool_lead: the decision about the old phone stays.
UpdateDraft(l, p, loc) ==
  /\ row[l].status = "DRAFT"
  /\ CompanyFree(l)
  /\ p # row[l].phone => PhoneUnused(l, p)
  /\ SetRow(l, [row[l] EXCEPT !.phone = p, !.located = loc])
  /\ UNCHANGED <<tasks, session, historyVars>>

\* A submission, or the discarding of a draft, reads the row without a lock.
ReadDraft(c, l, kind) ==
  /\ session[c] = Idle
  /\ Live(l) /\ row[l].status = "DRAFT"
  /\ \/ kind = "submit" /\ row[l].phone # "none" /\ CompanyFree(l)
     \/ kind = "discard" /\ Supplied(l)
  /\ session' = [session EXCEPT ![c] = [kind |-> kind, lead |-> l, read |-> row[l]]]
  /\ UNCHANGED <<row, tasks, historyVars>>

\* discard_draft: verification tasks go with the row, assignments keep it.
DiscardDraft(c) ==
  LET l == session[c].lead
  IN /\ session[c].kind = "discard" /\ Exists(l) /\ ~row[l].sold
     /\ session' = [session EXCEPT ![c] = Idle]
     /\ SetRow(l, [EmptyRow EXCEPT !.status = "DISCARDED"])
     /\ tasks' = [tasks EXCEPT ![l] = <<>>]
     /\ UNCHANGED historyVars

\* delete_test_lead_permanently
DeleteTestLead(l) ==
  /\ Exists(l) /\ ~row[l].sold
  /\ SetRow(l, [EmptyRow EXCEPT !.status = "DISCARDED"])
  /\ tasks' = [tasks EXCEPT ![l] = <<>>]
  /\ UNCHANGED <<session, historyVars>>

-----------------------------------------------------------------------------
\* Submission and review.

\* submit_draft of a draft read before: queueing a task locks and reads the row
\* again and refuses a deleted lead, the other outcomes are written blindly.
SubmitDraft(c) ==
  LET l == session[c].lead
      read == session[c].read
  IN /\ session[c].kind = "submit" /\ Exists(l)
     /\ ~PhoneLocked(read.phone)
     /\ session' = [session EXCEPT ![c] = Idle]
     /\ \E r \in Outcomes(l, read) :
          /\ SetRow(l, Merged(row[l], read, r))
          /\ r.status = "PENDING_TELESALES_VERIFY" => ~row[l].deleted
          /\ QueuedIf(l, r)
     /\ Judge(l, read.phone)
     /\ overtaken' = IF row[l] = read THEN overtaken ELSE overtaken \cup {l}
     /\ UNCHANGED reentered

\* submit_draft and the QUALIFIED review, of a row that is locked.
SubmitLocked(l) ==
  /\ \E r \in Outcomes(l, row[l]) : SetRow(l, r) /\ QueuedIf(l, r)
  /\ Judge(l, row[l].phone)
  /\ UNCHANGED <<session, overtaken, reentered>>

InReview(l) == Live(l) /\ Supplied(l) /\ row[l].status \in {"PENDING_REVIEW", "DUPLICATE"}

ReviewQualified(l) == InReview(l) /\ row[l].phone # "none" /\ SubmitLocked(l)

\* review_supplier_lead: DUPLICATE or INVALID
ReviewRefused(l) ==
  /\ InReview(l)
  /\ \E s \in {"DUPLICATE", "INVALID"} :
       SetRow(l, [row[l] EXCEPT !.status = s, !.approved = FALSE, !.reverify = FALSE])
  /\ UNCHANGED <<tasks, session, historyVars>>

\* reopen_rejected_supplier_lead
ReviseRejected(l) ==
  /\ Live(l) /\ Supplied(l) /\ CompanyFree(l)
  /\ row[l].status = "INVALID"
  /\ SetRow(l, [row[l] EXCEPT !.status = "DRAFT", !.dup = "none", !.approved = FALSE,
                              !.reverify = FALSE])
  /\ UNCHANGED <<tasks, session, historyVars>>

\* There is a decision, and the latest one is about the phone the lead has.
Overridable(l) ==
  /\ row[l].dup \in Reviewable
  /\ judged[l] # "none" /\ judged[l] = row[l].phone

\* override_duplicate.  The status of the lead, unless it is dispatched, and its
\* tasks are not looked at.
OverrideDuplicate(l) ==
  /\ Live(l) /\ Overridable(l)
  /\ LET r == [row[l] EXCEPT !.dup = "OVERRIDDEN", !.reverify = FALSE]
     IN \/ row[l].status = "DISPATCHED" /\ SetRow(l, [row[l] EXCEPT !.dup = "OVERRIDDEN"])
        \/ /\ row[l].status # "DISPATCHED" /\ Supplied(l) /\ ~row[l].approved
           /\ SetRow(l, [r EXCEPT !.status = "PENDING_REVIEW"])
        \/ /\ row[l].status # "DISPATCHED" /\ (Supplied(l) => row[l].approved)
           /\ \E pool \in PoolsOf(l) : SetRow(l, [r EXCEPT !.status = pool])
  /\ overtaken' = IF Active(l) \cup Submitted(l) = {} THEN overtaken ELSE overtaken \cup {l}
  /\ reentered' = reentered \ {l}
  /\ UNCHANGED <<tasks, session, judged>>

-----------------------------------------------------------------------------
\* Telesales verification before the dispatch.

\* A duplicate that is not resolved is not verified.
MayVerify(l) == row[l].phone # "none" /\ row[l].dup \in {"none", "CLEAR"}

\* assign_pre_dispatch_task: an active task is handed over, or one is made.  The
\* INFO_INCOMPLETE review ends in it.
AssignVerification(l) ==
  /\ Live(l) /\ MayVerify(l)
  /\ \/ row[l].status \in {"PENDING_REVIEW", "PENDING_TELESALES_VERIFY"}
     \/ row[l].status = "DRAFT" /\ ~Supplied(l)
  /\ \/ \E i \in Active(l) :
          /\ tasks' = [tasks EXCEPT ![l][i] = NewTask("ASSIGNED")]
          /\ UNCHANGED row
     \/ /\ Active(l) = {}
        /\ AddTask(l, "ASSIGNED")
        /\ SetRow(l, [row[l] EXCEPT !.status = "PENDING_TELESALES_VERIFY", !.reverify = FALSE])
  /\ UNCHANGED <<session, historyVars>>

\* start_pre_dispatch_task
StartTask(l, i) ==
  /\ Live(l) /\ tasks[l][i].status = "ASSIGNED"
  /\ SetTask(l, i, "IN_PROGRESS")
  /\ UNCHANGED <<row, session, historyVars>>

\* submit_pre_dispatch_verification keeps the marker of a lead verified again.
SubmitVerification(l, i) ==
  /\ Live(l) /\ tasks[l][i].status = "IN_PROGRESS"
  /\ row[l].status = "PENDING_TELESALES_VERIFY"
  /\ \E passed, missed \in BOOLEAN :
       tasks' = [tasks EXCEPT
         ![l][i] = [status |-> "SUBMITTED", passed |-> passed, missed |-> missed]]
  /\ SetRow(l, [row[l] EXCEPT !.status = "PENDING_OPERATION_DISPOSITION"])
  /\ UNCHANGED <<session, historyVars>>

\* is_pre_dispatch_task_requeueable, of the newest task
Unreached(l) ==
  /\ tasks[l] # <<>>
  /\ tasks[l][Newest(l)].status \in {"SUBMITTED", "RELEASED"}
  /\ tasks[l][Newest(l)].missed

\* Fault: the round that was submitted stays so.
ReleasedStays(l) == tasks[l]

\* The round before is kept as a released one.
Released(l) ==
  [i \in DOMAIN tasks[l] |->
     IF tasks[l][i].status \in ActiveTaskStatuses \cup {"SUBMITTED"}
     THEN [tasks[l][i] EXCEPT !.status = "RELEASED"] ELSE tasks[l][i]]

Requeueable == {"PENDING_OPERATION_DISPOSITION", "CLOSED", "INVALID"}

\* requeue_unreachable_pre_dispatch: a new round, if the newest task missed the
\* customer.
Requeue(l) ==
  /\ Live(l) /\ CompanyFree(l)
  /\ row[l].status \in Requeueable
  /\ Unreached(l) /\ Newest(l) < MaxTasks
  /\ tasks' = [tasks EXCEPT ![l] =
                 Append([@ EXCEPT ![Newest(l)].status = "RELEASED"], NewTask("PENDING"))]
  /\ SetRow(l, [row[l] EXCEPT !.status = "PENDING_TELESALES_VERIFY", !.approved = FALSE,
                              !.reverify = TRUE])
  /\ reentered' = reentered \cup {l}
  /\ UNCHANGED <<session, judged, overtaken>>

\* Operations may approve what did not qualify, but not in a second round.
Passes(l, i) == row[l].reverify => tasks[l][i].passed

\* decide_pre_dispatch_disposition
Dispose(l, i) ==
  /\ Live(l) /\ row[l].status = "PENDING_OPERATION_DISPOSITION"
  /\ tasks[l][i].status = "SUBMITTED"
  /\ SetTask(l, i, "RELEASED")
  /\ LET r == [row[l] EXCEPT !.approved = FALSE, !.reverify = FALSE]
     IN \/ /\ Passes(l, i)
           /\ \E pool \in PoolsOf(l) : SetRow(l, [r EXCEPT !.status = pool, !.approved = TRUE])
           /\ reentered' = IF tasks[l][i].passed THEN reentered \ {l} ELSE reentered
        \/ /\ \E s \in {"DRAFT", "DUPLICATE", IF Supplied(l) THEN "INVALID" ELSE "CLOSED"} :
                SetRow(l, [r EXCEPT !.status = s])
           /\ reentered' = reentered \ {l}
  /\ UNCHANGED <<session, judged, overtaken>>

\* reopen_closed_lead: not a lead whose customer was never reached.
ReopenClosed(l) ==
  /\ Live(l) /\ row[l].status = "CLOSED" /\ ~Unreached(l)
  /\ SetRow(l, [row[l] EXCEPT !.status = "READY_DISPATCH", !.approved = TRUE, !.reverify = FALSE])
  /\ UNCHANGED <<tasks, session, historyVars>>

-----------------------------------------------------------------------------
\* Corrections by operations.

\* reopen_platform_lead_for_correction
ReopenForCorrection(l) ==
  /\ Live(l) /\ SourceOf[l] = "PLATFORM_MANUAL"
  /\ row[l].status = "READY_DISPATCH" /\ ~row[l].sold
  /\ SetRow(l, [row[l] EXCEPT !.status = "DRAFT", !.dup = "none", !.approved = FALSE,
                              !.reverify = FALSE])
  /\ UNCHANGED <<tasks, session, historyVars>>

\* restart_pre_dispatch_after_correction: what was verified is no longer true.
RestartVerification(l, r) ==
  /\ Newest(l) < MaxTasks
  /\ tasks' = [tasks EXCEPT ![l] = Append(Released(l), NewTask("PENDING"))]
  /\ SetRow(l, [r EXCEPT !.status = "PENDING_TELESALES_VERIFY", !.approved = FALSE,
                         !.reverify = FALSE])
  /\ UNCHANGED judged

\* correct_platform_lead, of a lead nobody holds.  The phone cannot be corrected;
\* moved says whether the region is another one, loc whether it is known.
CorrectLead(l, moved, loc) ==
  LET r == [row[l] EXCEPT !.located = loc]
      verifying == row[l].status \in {"PENDING_TELESALES_VERIFY", "PENDING_OPERATION_DISPOSITION"}
  IN /\ Exists(l) /\ row[l].status # "DISPATCHED"
     /\ moved \/ loc = row[l].located
     /\ \/ /\ ~row[l].sold /\ moved /\ verifying
           /\ ~row[l].deleted
           /\ RestartVerification(l, r)
        \/ /\ ~row[l].sold /\ row[l].status = "READY_DISPATCH"
           /\ SourceOf[l] = "PLATFORM_MANUAL" /\ row[l].phone # "none"
           /\ \E o \in Outcomes(l, r) : SetRow(l, o) /\ QueuedIf(l, o)
           /\ Judge(l, r.phone)
        \/ /\ row[l].sold \/ ~(moved /\ verifying)
           /\ row[l].sold \/ row[l].status # "READY_DISPATCH" \/ SourceOf[l] # "PLATFORM_MANUAL"
           /\ \/ row[l].status # "READY_DISPATCH" \/ loc
              \/ ~row[l].deleted
           /\ LET o == IF row[l].status = "READY_DISPATCH" /\ ~loc
                       THEN [r EXCEPT !.status = "PENDING_TELESALES_VERIFY",
                                      !.approved = FALSE, !.reverify = FALSE] ELSE r
              IN SetRow(l, o)
                 /\ IF row[l].status = "READY_DISPATCH" /\ ~loc
                    THEN AddTask(l, "PENDING") ELSE UNCHANGED tasks
           /\ UNCHANGED judged
     /\ UNCHANGED <<session, overtaken, reentered>>

-----------------------------------------------------------------------------
\* The public pool, and what happens to a lead elsewhere.

\* transfer_public_pool_lead: a supplier's lead is checked again.
TransferSupplied(l) ==
  /\ Exists(l) /\ Supplied(l)
  /\ row[l].status = "PUBLIC_POOL" /\ row[l].located /\ row[l].phone # "none"
  /\ \E d \in DecisionsOn(l, row[l].phone) :
       IF Blocks(d)
       THEN SetRow(l, [row[l] EXCEPT !.dup = d, !.reverify = FALSE])
       ELSE SetRow(l, [row[l] EXCEPT !.dup = d, !.reverify = FALSE, !.approved = TRUE,
                                     !.status = "READY_DISPATCH"])
  /\ Judge(l, row[l].phone)
  /\ UNCHANGED <<tasks, session, overtaken, reentered>>

\* transfer_public_pool_lead, and the import: a draft of operations is submitted.
TransferDraft(l) ==
  /\ ~Supplied(l)
  /\ row[l].status = "DRAFT" /\ row[l].located /\ row[l].phone # "none"
  /\ SubmitLocked(l)

\* dispatch_manually: from here on LeadLifecycle.
Dispatch(l) ==
  /\ Live(l) /\ row[l].status = "READY_DISPATCH"
  /\ SetRow(l, [row[l] EXCEPT !.status = "DISPATCHED", !.sold = TRUE])
  /\ UNCHANGED <<tasks, session, historyVars>>

\* Refusal, timeout, recall, a return, and a return to another region.
ComeBack(l) ==
  /\ Live(l) /\ row[l].status = "DISPATCHED"
  /\ \E s \in {"READY_DISPATCH", "PUBLIC_POOL", "CLOSED"} :
       /\ s = "PUBLIC_POOL" => Supplied(l)
       /\ SetRow(l, [row[l] EXCEPT !.status = s, !.reverify = FALSE])
  /\ UNCHANGED <<tasks, session, historyVars>>

\* delete_operation_lead: the status stays, open tasks are cancelled.
DeleteLead(l) ==
  /\ Live(l)
  /\ SetRow(l, [row[l] EXCEPT !.deleted = TRUE])
  /\ tasks' = [tasks EXCEPT ![l] =
       [i \in DOMAIN @ |-> IF @[i].status \in ActiveTaskStatuses \cup {"SUBMITTED"}
                           THEN [@[i] EXCEPT !.status = "CANCELLED"] ELSE @[i]]]
  /\ UNCHANGED <<session, historyVars>>

-----------------------------------------------------------------------------
\* What the lists and pages show.

\* list_supplier_leads, and the page of one: what the company k has entered.
ListedForSupplier(k) == {l \in Leads : Live(l) /\ Supplied(l) /\ SourceOf[l] = k}

\* list_platform_leads: what operations have entered, and nothing imported.
ListedForPlatform == {l \in Leads : Live(l) /\ SourceOf[l] = "PLATFORM_MANUAL"}

\* public_pool_lead_conditions: of suppliers what waits for a receiver, of
\* operations what has still to be submitted.
ListedInPool ==
  {l \in Leads : Live(l) /\ row[l].status \in IF Supplied(l) THEN {"PUBLIC_POOL"}
                                               ELSE {"DRAFT", "DUPLICATE"}}

\* lead_supply_list_to_dict: the newest task, in whatever status it is.
LatestTask(l) == IF tasks[l] = <<>> THEN {} ELSE {tasks[l][Newest(l)]}

\* can_requeue_pre_dispatch, of a supplier who cooperates: whether that task missed
\* the customer.  Unlike the handler it does not ask for its status.
OffersRequeue(l) == row[l].status \in Requeueable /\ \E t \in LatestTask(l) : t.missed

-----------------------------------------------------------------------------
SupplyNext ==
  \/ \E c \in Callers, l \in Leads :
       \/ \E p \in Phones \cup {"none"} : BeginEntry(c, l, p)
       \/ \E kind \in {"submit", "discard"} : ReadDraft(c, l, kind)
  \/ \E c \in Callers : CommitEntry(c) \/ Abort(c) \/ DiscardDraft(c) \/ SubmitDraft(c)
  \/ \E l \in Leads :
       \/ \E p \in Phones \cup {"none"}, loc \in BOOLEAN : UpdateDraft(l, p, loc)
       \/ \E moved, loc \in BOOLEAN : CorrectLead(l, moved, loc)
       \/ \E i \in DOMAIN tasks[l] :
            StartTask(l, i) \/ SubmitVerification(l, i) \/ Dispose(l, i)
       \/ ReviewQualified(l) \/ ReviewRefused(l) \/ ReviseRejected(l)
       \/ OverrideDuplicate(l) \/ AssignVerification(l) \/ Requeue(l) \/ ReopenClosed(l)
       \/ ReopenForCorrection(l) \/ TransferSupplied(l) \/ TransferDraft(l)
       \/ Dispatch(l) \/ ComeBack(l) \/ DeleteLead(l) \/ DeleteTestLead(l)

SupplySpec == SupplyInit /\ [][SupplyNext]_supplyVars

-----------------------------------------------------------------------------
\* Type correctness.  A lead that is no draft any more has a phone, but for one a
\* submission moved on after somebody had changed the draft.
SupplyTypeOK ==
  /\ row \in [Leads -> LeadRow]
  /\ tasks \in [Leads -> Seq(Task)]
  /\ session \in [Callers -> Session]
  /\ judged \in [Leads -> Phones \cup {"none"}]
  /\ overtaken \subseteq Leads /\ reentered \subseteq Leads
  /\ \A l \in Leads \ overtaken :
       row[l].phone = "none" => row[l].status \in Absent \cup {"DRAFT"}

\* Among the leads that are not deleted a phone number names one, although every
\* entry looks for it before it stores it.  (require_unique_lead_phone)
IdentityIsUnique ==
  \A k, l \in Leads :
    k # l /\ Live(k) /\ Live(l) /\ row[k].phone = row[l].phone => row[k].phone = "none"

\* The round of telesales and the lead agree: one active task while the lead waits
\* for telesales, one result while it waits for operations, and neither otherwise.
\* Excepted are leads that a submission read before somebody else moved them, and
\* leads whose duplicate was overridden during a round.  (pre_dispatch_v12.py)
RoundMatchesLead ==
  \A l \in Leads : Live(l) /\ l \notin overtaken =>
    /\ IF row[l].status = "PENDING_TELESALES_VERIFY"
       THEN \E i \in DOMAIN tasks[l] : Active(l) = {i}
       ELSE Active(l) = {}
    /\ IF row[l].status = "PENDING_OPERATION_DISPOSITION"
       THEN \E i \in DOMAIN tasks[l] : Submitted(l) = {i}
       ELSE Submitted(l) = {}

\* A supplier's lead that can be sold was checked for duplicates with the phone it
\* has, and is none that blocks: whatever way it took through review, rounds,
\* rework, revision and the public pool.  (_check_draft_duplicate, submit_draft)
SuppliedLeadWasJudged ==
  \A l \in Leads \ overtaken :
    Live(l) /\ Supplied(l) /\ row[l].status \in {"READY_DISPATCH", "DISPATCHED"} =>
      judged[l] = row[l].phone /\ ~Blocks(row[l].dup)

\* A lead verified again because its customer was not reached comes into the pool
\* only after a round that qualified it.  (submit_pre_dispatch_verification: "A
\* callback/re-entered lead must actually pass the new telesales round.")
ReenteredLeadMustPass ==
  \A l \in reentered \ overtaken : row[l].status \notin {"READY_DISPATCH", "PUBLIC_POOL", "DISPATCHED"}

\* What is listed for a supplier, for operations or in the pool is offered another
\* round exactly where the handler accepts one, and what is listed in the pool is in
\* no round.  (can_requeue_pre_dispatch, public_pool_lead_conditions)
PagesOfferWhatIsAccepted ==
  /\ \A l \in ListedForPlatform \cup ListedInPool
             \cup UNION {ListedForSupplier(SourceOf[k]) : k \in Leads} :
       OffersRequeue(l) <=> row[l].status \in Requeueable /\ Unreached(l)
  /\ \A l \in ListedInPool \ overtaken : Active(l) \cup Submitted(l) = {}
=============================================================================
