------------------------- MODULE NotificationOutbox -------------------------
(***************************************************************************)
(* Notices to people outside the platform.  A business transaction stores  *)
(* an outbox row next to its own changes (notification_v12.py), and a       *)
(* worker sends it later (outbox_worker.py): the scheduler runs one, and    *)
(* an administrator may start another at the same time.                    *)
(*                                                                         *)
(* A worker commits its claim before it sends, so what keeps two workers   *)
(* from sending one row is not a lock but a lease, next_attempt_at of the  *)
(* PROCESSING row, and the number of the attempt.  The deletion of a lead  *)
(* and the end of an invitation cancel rows meanwhile.                     *)
(***************************************************************************)
EXTENDS Naturals, FiniteSets

CONSTANTS
  Rows,         \* rows of notification_outbox, one per event key
  Leads,        \* subjects whose deletion cancels their notices
  Invites,      \* subjects that end without looking at the lease
  SubjectOf,    \* the subject of each row
  Workers,      \* processes that run process_outbox
  MaxAttempts,  \* attempts after which a failed row is DEAD
  MaxFaults,    \* bound: crashes of workers and leases they outlive
  MaxRetries    \* bound: manual retries

ASSUME OutboxAssumption ==
  /\ Leads \cap Invites = {}
  /\ SubjectOf \in [Rows -> Leads \cup Invites]
  /\ MaxAttempts \in Nat \ {0} /\ MaxFaults \in Nat /\ MaxRetries \in Nat
  /\ "none" \notin Rows

VARIABLES
  row,        \* row[r]: status, NONE while the row is not stored
  attempts,   \* attempts[r]: how often it was claimed
  waiting,    \* waiting[r]: next_attempt_at lies in the future
  message,    \* message[r]: status of the station message the row names
  gone,       \* leads that are deleted, invitations that are over
  batch,      \* batch[w]: rows of the query of worker w not yet looked at
  phase,      \* phase[w]: how far it is with its row
  job,        \* job[w]: that row
  mine,       \* mine[w]: the attempt it claimed
  answer,     \* answer[w]: the result of _send
  late,       \* late[w]: its lease ran out since it claimed
  delivered,  \* history: how often the provider took row r
  unsure,     \* history: deliveries whose sender could not know or tell
  faults,     \* history: crashes and outlived leases
  retries     \* history: manual retries

rowVars == <<row, attempts, waiting, message, gone>>
workerVars == <<batch, phase, job, mine, answer, late>>
pastVars == <<delivered, unsure, faults, retries>>
outboxVars == <<rowVars, workerVars, pastVars>>

-----------------------------------------------------------------------------
OpenStatuses == {"PENDING", "FAILED", "PROCESSING", "DEAD", "MANUAL_ACTION_REQUIRED"}
RowStatuses == OpenStatuses \cup {"NONE", "SENT", "CANCELLED"}
RetryableStatuses == {"FAILED", "DEAD", "MANUAL_ACTION_REQUIRED"}
Answers == {"sent", "lost", "failed", "manual", "cancelled"}

RowsOf(s) == {r \in Rows : SubjectOf[r] = s}

\* Fault: a row whose worker died is never looked at again.
ReadyWithoutReclaim(r) == row[r] \in {"PENDING", "FAILED"} /\ ~waiting[r]

\* _ready_for_delivery.  A PROCESSING row is ready once its lease has run out.
Ready(r) == row[r] \in {"PENDING", "FAILED", "PROCESSING"} /\ ~waiting[r]

LiveLease(r) == row[r] = "PROCESSING" /\ waiting[r]

OutboxInit ==
  /\ row = [r \in Rows |-> "NONE"]
  /\ attempts = [r \in Rows |-> 0]
  /\ waiting = [r \in Rows |-> FALSE]
  /\ message = [r \in Rows |-> "NONE"]
  /\ gone = {}
  /\ batch = [w \in Workers |-> {}]
  /\ phase = [w \in Workers |-> "idle"]
  /\ job = [w \in Workers |-> "none"]
  /\ mine = [w \in Workers |-> 0]
  /\ answer = [w \in Workers |-> "none"]
  /\ late = [w \in Workers |-> FALSE]
  /\ delivered = [r \in Rows |-> 0]
  /\ unsure = [r \in Rows |-> 0]
  /\ faults = 0 /\ retries = 0

-----------------------------------------------------------------------------
\* Business transactions.

\* emit_business_notification and its callers: a station message and a row, once
\* per event key.  A reward can be reversed after its lead was deleted, so the
\* subject may be gone.  The notice of an invitation has no station message.
Emit(r) ==
  /\ row[r] = "NONE"
  /\ SubjectOf[r] \in Invites => SubjectOf[r] \notin gone
  /\ row' = [row EXCEPT ![r] = "PENDING"]
  /\ message' = IF SubjectOf[r] \in Leads THEN [message EXCEPT ![r] = "CREATED"] ELSE message
  /\ UNCHANGED <<attempts, waiting, gone, workerVars, pastVars>>

\* retry_outbox.  The attempts go on counting.
Retry(r) ==
  /\ row[r] \in RetryableStatuses /\ retries < MaxRetries
  /\ row' = [row EXCEPT ![r] = "PENDING"]
  /\ waiting' = [waiting EXCEPT ![r] = FALSE]
  /\ retries' = retries + 1
  /\ UNCHANGED <<attempts, message, gone, workerVars, delivered, unsure, faults>>

\* Every open row in R is cancelled.
Cancelled(R, statuses) ==
  LET C == {r \in R : row[r] \in statuses}
  IN /\ row' = [r \in Rows |-> IF r \in C THEN "CANCELLED" ELSE row[r]]
     /\ waiting' = [r \in Rows |-> waiting[r] /\ r \notin C]

\* Fault: the deletion does not wait for a delivery in progress.
DeliveryIgnored(s) == TRUE

\* The deletion is refused while a worker may be sending a notice of the lead.
NoDeliveryInProgress(s) == \A r \in RowsOf(s) : ~LiveLease(r)

\* The deletion of a lead cancels its notices, under the locks of their rows.
DeleteLead(s) ==
  /\ s \in Leads \ gone
  /\ NoDeliveryInProgress(s)
  /\ gone' = gone \cup {s}
  /\ Cancelled(RowsOf(s), OpenStatuses)
  /\ message' = [r \in Rows |-> IF r \in RowsOf(s) /\ message[r] # "NONE"
                                THEN "CANCELLED" ELSE message[r]]
  /\ UNCHANGED <<attempts, workerVars, pastVars>>

\* Revocation, and deactivation of the company: its invitation notices are
\* cancelled whether or not a worker has one in hand.
RevokeInvite(s) ==
  /\ s \in Invites \ gone
  /\ gone' = gone \cup {s}
  /\ Cancelled(RowsOf(s), {"PENDING", "FAILED", "PROCESSING"})
  /\ UNCHANGED <<attempts, message, workerVars, pastVars>>

\* An invitation that is used or runs out leaves its notice to the worker.
InviteEnds(s) ==
  /\ s \in Invites \ gone
  /\ gone' = gone \cup {s}
  /\ UNCHANGED <<row, attempts, waiting, message, workerVars, pastVars>>

-----------------------------------------------------------------------------
\* process_outbox

\* The rows that are ready now.  No lock is kept.
ReadBatch(w) ==
  /\ phase[w] = "idle" /\ batch[w] = {}
  /\ \E r \in Rows : Ready(r)
  /\ batch' = [batch EXCEPT ![w] = {r \in Rows : Ready(r)}]
  /\ UNCHANGED <<rowVars, phase, job, mine, answer, late, pastVars>>

\* The row is no longer ready, or another transaction has it locked.
Skip(w, r) ==
  /\ phase[w] = "idle" /\ r \in batch[w]
  /\ ~Ready(r)
  /\ batch' = [batch EXCEPT ![w] = @ \ {r}]
  /\ UNCHANGED <<rowVars, phase, job, mine, answer, late, pastVars>>

\* The row is claimed for five minutes and the claim committed.
Claim(w, r) ==
  /\ phase[w] = "idle" /\ r \in batch[w]
  /\ Ready(r)
  /\ batch' = [batch EXCEPT ![w] = @ \ {r}]
  /\ row' = [row EXCEPT ![r] = "PROCESSING"]
  /\ attempts' = [attempts EXCEPT ![r] = @ + 1]
  /\ waiting' = [waiting EXCEPT ![r] = TRUE]
  /\ phase' = [phase EXCEPT ![w] = "claimed"]
  /\ job' = [job EXCEPT ![w] = r]
  /\ mine' = [mine EXCEPT ![w] = attempts[r] + 1]
  /\ late' = [late EXCEPT ![w] = FALSE]
  /\ UNCHANGED <<message, gone, answer, pastVars>>

\* _send up to the call of the provider: the subject is read without a lock.  A
\* missing recipient or template needs an operator, a missing identity a retry.
Check(w) ==
  /\ phase[w] = "claimed"
  /\ IF SubjectOf[job[w]] \in gone
     THEN /\ phase' = [phase EXCEPT ![w] = "answered"]
          /\ answer' = [answer EXCEPT ![w] = "cancelled"]
     ELSE \/ phase' = [phase EXCEPT ![w] = "cleared"] /\ UNCHANGED answer
          \/ /\ phase' = [phase EXCEPT ![w] = "answered"]
             /\ \E a \in {"manual", "failed"} : answer' = [answer EXCEPT ![w] = a]
  /\ UNCHANGED <<rowVars, batch, job, mine, late, pastVars>>

\* The call of the provider, outside any lock.  Its answer may get lost.
Send(w) ==
  /\ phase[w] = "cleared"
  /\ phase' = [phase EXCEPT ![w] = "answered"]
  /\ \E a \in {"sent", "lost", "failed"} :
       /\ answer' = [answer EXCEPT ![w] = a]
       /\ delivered' = [delivered EXCEPT ![job[w]] = @ + (IF a = "failed" THEN 0 ELSE 1)]
       /\ unsure' = [unsure EXCEPT
            ![job[w]] = @ + (IF a = "lost" \/ (a = "sent" /\ late[w]) THEN 1 ELSE 0)]
  /\ UNCHANGED <<rowVars, batch, job, mine, late, faults, retries>>

StatusAfter(r, a) ==
  IF a = "sent" THEN "SENT"
  ELSE IF a = "cancelled" THEN "CANCELLED"
  ELSE IF a = "manual" THEN "MANUAL_ACTION_REQUIRED"
  ELSE IF attempts[r] >= MaxAttempts THEN "DEAD" ELSE "FAILED"

\* What _send did to the station message, in the transaction of the outcome.
MessageAfter(r, a) ==
  IF message[r] # "NONE" /\ a = "sent" THEN "SENT"
  ELSE IF message[r] # "NONE" /\ a = "cancelled" THEN "CANCELLED"
  ELSE message[r]

WorkerRests(w) ==
  /\ phase' = [phase EXCEPT ![w] = "idle"]
  /\ job' = [job EXCEPT ![w] = "none"]
  /\ mine' = [mine EXCEPT ![w] = 0]
  /\ answer' = [answer EXCEPT ![w] = "none"]
  /\ late' = [late EXCEPT ![w] = FALSE]

\* Fault: the number of the attempt is not compared.
OwnsAnyAttempt(w) == row[job[w]] = "PROCESSING"

\* The row still carries the attempt of worker w.
Owns(w) == row[job[w]] = "PROCESSING" /\ attempts[job[w]] = mine[w]

\* The outcome is recorded under the lock of the row.
RecordOutcome(w) ==
  LET r == job[w]
  IN /\ row' = [row EXCEPT ![r] = StatusAfter(r, answer[w])]
     /\ waiting' = [waiting EXCEPT ![r] = StatusAfter(r, answer[w]) = "FAILED"]
     /\ \/ message' = [message EXCEPT ![r] = MessageAfter(r, answer[w])]
        \/ /\ answer[w] = "failed" /\ message[r] # "NONE"
           /\ message' = [message EXCEPT ![r] = "FAILED"]

\* The end of a row in process_outbox: a worker that lost its lease rolls back.
Record(w) ==
  /\ phase[w] = "answered"
  /\ \/ Owns(w) /\ RecordOutcome(w)
     \/ ~Owns(w) /\ UNCHANGED <<row, waiting, message>>
  /\ WorkerRests(w)
  /\ UNCHANGED <<attempts, gone, batch, pastVars>>

\* A worker dies.  What it sent and did not record, nobody knows of.
Crash(w) ==
  /\ phase[w] # "idle" \/ batch[w] # {}
  /\ faults < MaxFaults
  /\ faults' = faults + 1
  /\ unsure' = IF answer[w] = "sent" /\ ~late[w]
               THEN [unsure EXCEPT ![job[w]] = @ + 1] ELSE unsure
  /\ batch' = [batch EXCEPT ![w] = {}]
  /\ WorkerRests(w)
  /\ UNCHANGED <<rowVars, delivered, retries>>

-----------------------------------------------------------------------------
\* Time.

\* Workers that hold the current lease of row r.
Holders(r) == {w \in Workers : phase[w] # "idle" /\ job[w] = r /\ mine[w] = attempts[r]}

\* The next attempt of a failed row is due.
BackoffEnds(r) ==
  /\ row[r] = "FAILED" /\ waiting[r]
  /\ waiting' = [waiting EXCEPT ![r] = FALSE]
  /\ UNCHANGED <<row, attempts, message, gone, workerVars, pastVars>>

\* The lease of a dead worker ends, or that of one that takes more than five minutes.
LeaseEnds(r) ==
  /\ LiveLease(r)
  /\ waiting' = [waiting EXCEPT ![r] = FALSE]
  /\ late' = [w \in Workers |-> late[w] \/ w \in Holders(r)]
  /\ unsure' = IF \E w \in Holders(r) : answer[w] = "sent"
               THEN [unsure EXCEPT ![r] = @ + 1] ELSE unsure
  /\ IF Holders(r) = {} THEN UNCHANGED faults
     ELSE faults < MaxFaults /\ faults' = faults + 1
  /\ UNCHANGED <<row, attempts, message, gone, batch, phase, job, mine, answer,
                 delivered, retries>>

-----------------------------------------------------------------------------
WorkerStep(w) ==
  \/ ReadBatch(w)
  \/ \E r \in Rows : Skip(w, r) \/ Claim(w, r)
  \/ Check(w) \/ Send(w) \/ Record(w)

TimePasses == \E r \in Rows : BackoffEnds(r) \/ LeaseEnds(r)

OutboxNext ==
  \/ \E r \in Rows : Emit(r) \/ Retry(r)
  \/ \E s \in Leads : DeleteLead(s)
  \/ \E s \in Invites : RevokeInvite(s) \/ InviteEnds(s)
  \/ \E w \in Workers : WorkerStep(w) \/ Crash(w)
  \/ TimePasses

\* The scheduler runs a cycle every 30 seconds and is restarted when it dies;
\* leases and back-offs end with the clock.
OutboxFairness ==
  /\ \A w \in Workers : WF_outboxVars(WorkerStep(w))
  /\ \A r \in Rows : WF_outboxVars(BackoffEnds(r)) /\ WF_outboxVars(LeaseEnds(r))

OutboxSpec == OutboxInit /\ [][OutboxNext]_outboxVars /\ OutboxFairness

-----------------------------------------------------------------------------
OutboxTypeOK ==
  /\ row \in [Rows -> RowStatuses]
  /\ attempts \in [Rows -> Nat]
  /\ waiting \in [Rows -> BOOLEAN]
  /\ message \in [Rows -> {"NONE", "CREATED", "SENT", "FAILED", "CANCELLED"}]
  /\ gone \in SUBSET (Leads \cup Invites)
  /\ batch \in [Workers -> SUBSET Rows]
  /\ phase \in [Workers -> {"idle", "claimed", "cleared", "answered"}]
  /\ job \in [Workers -> Rows \cup {"none"}]
  /\ mine \in [Workers -> Nat]
  /\ answer \in [Workers -> Answers \cup {"none"}]
  /\ late \in [Workers -> BOOLEAN]
  /\ delivered \in [Rows -> Nat] /\ unsure \in [Rows -> Nat]
  /\ faults \in 0..MaxFaults /\ retries \in 0..MaxRetries

\* A notice goes out once for certain: every further delivery of the row follows
\* one whose answer was lost, whose sender died before it recorded it, or whose
\* sender was so slow that its lease ran out.  Two workers, a manual retry or a
\* cancellation that come between are no reason.  (process_outbox, retry_outbox)
KnownDeliveryIsNotRepeated == \A r \in Rows : delivered[r] <= unsure[r] + 1

\* Nobody hears about a deleted lead: a worker that sends within its lease never
\* sends a notice of one, whether the lead was deleted before it looked or while
\* it was on its way to the provider.  (_send, deletion of a lead)
DeletedLeadStaysSilent ==
  [][\A w \in Workers :
       phase[w] = "cleared" /\ phase'[w] = "answered" /\ answer'[w] \in {"sent", "lost"}
         => late[w] \/ SubjectOf[job[w]] \notin (gone \cap Leads)]_outboxVars

\* A stored notice comes to an end: sent, cancelled, or left to an operator.  No
\* row stays with a worker that died or was overtaken.  (process_outbox)
EveryNoticeEnds ==
  \A r \in Rows : row[r] \in {"PENDING", "PROCESSING", "FAILED"}
    ~> row[r] \in {"SENT", "CANCELLED", "DEAD", "MANUAL_ACTION_REQUIRED"}
=============================================================================
