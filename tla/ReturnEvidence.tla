---------------------------- MODULE ReturnEvidence ----------------------------
(***************************************************************************)
(* The material of a formal return (services/return_v12.py,                *)
(* routers/v12_returns.py): what the receiver uploads, what each            *)
(* verification was decided on, and who may see which file when.           *)
(*                                                                         *)
(* One request of one round is followed through its appeals.  A rejected   *)
(* request is opened again under the same identity and a supplemented one  *)
(* is submitted again, so that its files are those of every appeal, while  *)
(* the telesales agents change: whoever answered a verification keeps a    *)
(* page with what he saw, and the baseline for "new material" is stored in *)
(* the events of the round.  Points, rewards and the clock of the appeal   *)
(* are LeadLifecycle's; a correction pending on the lead, which holds up   *)
(* drafts and submissions, is one of the reasons why none may happen here. *)
(***************************************************************************)
EXTENDS Naturals, Sequences, FiniteSets

CONSTANTS
  Contents,    \* what a file may hold, told apart by sha256
  Owner,       \* the owner of the receiving company
  Employees,   \* its employees
  Agents,      \* telesales agents
  NoOne,       \* nobody assigned
  MaxFiles,    \* bound: files of the request
  MaxChecks    \* bound: verifications of the request

Receivers == {Owner} \cup Employees

ASSUME PeopleAssumption ==
  /\ NoOne \notin Receivers \cup Agents
  /\ Receivers \cap Agents = {}
ASSUME EvidenceBoundsAssumption == MaxFiles \in Nat /\ MaxChecks \in Nat

VARIABLES
  application,   \* request.status
  author,        \* request.submitted_by: who created the draft
  currentCheck,  \* request.verification_task_id, 0 for NULL
  files,         \* the rows of the request: [content, by], in the order of created_at
  checks,        \* its verification tasks in the order of their creation:
                 \*   status, by (assignee), basis (files counted by the event of the
                 \*   submission), told (files when it was answered, 0 if it was not),
                 \*   kept (files in the last snapshot its events hold, 0 without one)
  reopenedAt,    \* files in the baseline of the last V12_RETURN_REOPENED, 0 without one
  askedAt,       \* files in the baseline of the last V12_RETURN_NEED_MORE, 0 without one
  holding,       \* the round: HELD (claimed, followed up, completed), RETURN_PENDING, OVER
  windowOver,    \* the appeal window has ended
  assignee,      \* assignment.internal_assignee_user_id
  leadErased     \* lead.deleted_at is set

evidenceVars == <<application, author, currentCheck, files, checks, reopenedAt, askedAt,
                  holding, windowOver, assignee, leadErased>>

ApplicationStates ==
  {"NONE", "DRAFT", "VERIFYING", "REVIEWING", "NEED_MORE", "APPROVED", "REJECTED",
   "EXPIRED", "CANCELLED"}
OpenChecks == {"PENDING", "ASSIGNED", "IN_PROGRESS"}
CheckStates == OpenChecks \cup {"SUBMITTED", "RELEASED", "CANCELLED"}

FileRows == [content : Contents, by : Receivers \cup Agents]
CheckRows == [status : CheckStates, by : Agents \cup {NoOne}, basis : Nat, told : Nat, kept : Nat]

EvidenceTypeOK ==
  /\ application \in ApplicationStates
  /\ author \in Receivers \cup {NoOne}
  /\ currentCheck \in Nat
  /\ files \in Seq(FileRows) /\ checks \in Seq(CheckRows)
  /\ reopenedAt \in Nat /\ askedAt \in Nat
  /\ holding \in {"HELD", "RETURN_PENDING", "OVER"}
  /\ windowOver \in BOOLEAN /\ leadErased \in BOOLEAN
  /\ assignee \in Receivers \cup {NoOne}

\* A round just claimed, by the owner or by an employee it is then assigned to.
EvidenceInit ==
  /\ application = "NONE" /\ author = NoOne /\ currentCheck = 0
  /\ files = <<>> /\ checks = <<>> /\ reopenedAt = 0 /\ askedAt = 0
  /\ holding = "HELD" /\ windowOver = FALSE /\ leadErased = FALSE
  /\ assignee \in Receivers

-----------------------------------------------------------------------------
\* Who and when.

\* require_company_assignment_access
OnTheRound(u) == u = Owner \/ u = assignee

\* require_return_request_access: an employee keeps the return he started.
OnTheReturn(u) == u \in Receivers /\ (OnTheRound(u) \/ u = author)

\* The contents of the first n files.
ContentsUpTo(n) == {files[i].content : i \in (1..n) \cap DOMAIN files}

\* Fault: a file counts as new when it is another row.
MoreRowsThan(n) == Len(files) > n

\* current_hashes.difference(baseline): something the first n files do not hold.
NewSince(n) == ContentsUpTo(Len(files)) \ ContentsUpTo(n) # {}

\* Files the snapshot of an event may hold: those there are, or, where an earlier
\* release wrote the event, what the events of the task held before.
SnapshotFiles(t) == {Len(files), checks[t].kept}

AddFile(f, u) ==
  /\ Len(files) < MaxFiles
  /\ files' = Append(files, [content |-> f, by |-> u])

-----------------------------------------------------------------------------
\* The receiver.

CreateDraft(u) ==
  /\ application = "NONE" /\ ~leadErased
  /\ u \in Receivers /\ OnTheRound(u)
  /\ holding = "HELD" /\ ~windowOver
  /\ application' = "DRAFT" /\ author' = u
  /\ UNCHANGED <<currentCheck, files, checks, reopenedAt, askedAt, holding, windowOver,
                 assignee, leadErased>>

\* A rejected request becomes a draft again, whatever became of the round; its
\* verification is kept by the event only.
ReopenDraft(u) ==
  /\ application = "REJECTED" /\ ~leadErased
  /\ OnTheReturn(u)
  /\ ~windowOver
  /\ application' = "DRAFT" /\ currentCheck' = 0
  /\ reopenedAt' = Len(files)
  /\ \E n \in SnapshotFiles(currentCheck) : checks' = [checks EXCEPT ![currentCheck].kept = n]
  /\ UNCHANGED <<author, files, askedAt, holding, windowOver, assignee, leadErased>>

\* prepare_return_evidence_upload
MayUpload(u) ==
  /\ ~leadErased /\ OnTheReturn(u)
  /\ \/ application = "DRAFT" /\ holding = "HELD" /\ ~windowOver
     \/ application = "NEED_MORE" /\ holding = "RETURN_PENDING"

UploadByReceiver(u, f) ==
  /\ MayUpload(u)
  /\ AddFile(f, u)
  /\ UNCHANGED <<application, author, currentCheck, checks, reopenedAt, askedAt, holding,
                 windowOver, assignee, leadErased>>

OpenCheck ==
  /\ Len(checks) < MaxChecks
  /\ checks' = Append(checks, [status |-> "PENDING", by |-> NoOne, basis |-> Len(files),
                               told |-> 0, kept |-> 0])
  /\ currentCheck' = Len(checks) + 1
  /\ application' = "VERIFYING" /\ holding' = "RETURN_PENDING"
  /\ UNCHANGED <<author, files, reopenedAt, askedAt, windowOver, assignee, leadErased>>

\* What submit_return_request accepts of a draft, and of a request sent back.
DraftMaterial == Len(files) >= 1 /\ (reopenedAt = 0 \/ NewSince(reopenedAt))
SupplementMaterial == NewSince(askedAt)

SubmitFirst(u) ==
  /\ application = "DRAFT" /\ ~leadErased /\ OnTheReturn(u)
  /\ ~windowOver /\ DraftMaterial /\ holding = "HELD"
  /\ OpenCheck

\* Fault: an upload of the same file satisfies the request for more.
SubmitMoreRows(u) ==
  /\ application = "NEED_MORE" /\ ~leadErased /\ OnTheReturn(u)
  /\ MoreRowsThan(askedAt) /\ holding = "RETURN_PENDING"
  /\ OpenCheck

SubmitSupplement(u) ==
  /\ application = "NEED_MORE" /\ ~leadErased /\ OnTheReturn(u)
  /\ SupplementMaterial /\ holding = "RETURN_PENDING"
  /\ OpenCheck

\* Too late: by the receiver's attempt or by the job, whatever became of the round.
ExpireDraft ==
  /\ application = "DRAFT" /\ ~leadErased /\ windowOver
  /\ application' = "EXPIRED"
  /\ UNCHANGED <<author, currentCheck, files, checks, reopenedAt, askedAt, holding,
                 windowOver, assignee, leadErased>>

-----------------------------------------------------------------------------
\* Telesales.

OnCheck(t) ==
  /\ ~leadErased
  /\ UNCHANGED <<author, currentCheck, reopenedAt, askedAt, holding, windowOver, assignee,
                 leadErased>>

AssignCheck(t, g) ==
  /\ OnCheck(t) /\ checks[t].status \in OpenChecks
  /\ checks' = [checks EXCEPT ![t].status = "ASSIGNED", ![t].by = g, ![t].told = 0]
  /\ UNCHANGED <<application, files>>

StartCheck(t) ==
  /\ OnCheck(t) /\ checks[t].status = "ASSIGNED"
  /\ checks' = [checks EXCEPT ![t].status = "IN_PROGRESS"]
  /\ UNCHANGED <<application, files>>

\* prepare_return_verification_evidence_upload
MayUploadAsAgent(t) == checks[t].status = "IN_PROGRESS" /\ application = "VERIFYING"

UploadByAgent(t, f) ==
  /\ OnCheck(t) /\ MayUploadAsAgent(t)
  /\ AddFile(f, checks[t].by)
  /\ UNCHANGED <<application, checks>>

AnswerCheck(t) ==
  /\ OnCheck(t) /\ checks[t].status = "IN_PROGRESS" /\ application = "VERIFYING"
  /\ application' = "REVIEWING"
  /\ \E n \in SnapshotFiles(t) :
       checks' = [checks EXCEPT ![t].status = "SUBMITTED", ![t].told = Len(files), ![t].kept = n]
  /\ UNCHANGED files

-----------------------------------------------------------------------------
\* Operations.

\* _final_review_return with _current_verification_task
FinalReview ==
  /\ ~leadErased /\ application = "REVIEWING"
  /\ currentCheck # 0 /\ checks[currentCheck].status = "SUBMITTED"
  /\ UNCHANGED <<author, currentCheck, files, reopenedAt, assignee, leadErased>>

AskForMore ==
  /\ FinalReview
  /\ application' = "NEED_MORE" /\ askedAt' = Len(files)
  /\ \E n \in SnapshotFiles(currentCheck) :
       checks' = [checks EXCEPT ![currentCheck].status = "RELEASED", ![currentCheck].kept = n]
  /\ UNCHANGED <<holding, windowOver>>

\* The window goes on with what was left of it.
RejectApplication ==
  /\ FinalReview
  /\ application' = "REJECTED" /\ holding' = "HELD" /\ windowOver' = FALSE
  /\ checks' = [checks EXCEPT ![currentCheck].status = "RELEASED"]
  /\ UNCHANGED askedAt

\* By the final review, or with a correction of the region.
ApproveApplication ==
  /\ FinalReview
  /\ application' = "APPROVED" /\ holding' = "OVER"
  /\ checks' = [checks EXCEPT ![currentCheck].status = "RELEASED"]
  /\ UNCHANGED <<askedAt, windowOver>>

\* direct_invalid_return: before telesales has answered.
ApproveDirectly ==
  /\ ~leadErased /\ application = "VERIFYING" /\ checks[currentCheck].told = 0
  /\ application' = "APPROVED" /\ holding' = "OVER"
  /\ checks' = [checks EXCEPT ![currentCheck].status = "CANCELLED"]
  /\ UNCHANGED <<author, currentCheck, files, reopenedAt, askedAt, windowOver, assignee,
                 leadErased>>

\* A wrong dispatch is withdrawn with its draft, a corrected lead without.
ReleaseRound(misdispatched) ==
  /\ ~leadErased /\ holding = "HELD"
  /\ application \notin {"VERIFYING", "REVIEWING", "NEED_MORE"}
  /\ holding' = "OVER"
  /\ application' = IF misdispatched /\ application = "DRAFT" THEN "EXPIRED" ELSE application
  /\ UNCHANGED <<author, currentCheck, files, checks, reopenedAt, askedAt, windowOver,
                 assignee, leadErased>>

\* delete_operation_lead; a completed round stays completed.
EraseLead ==
  /\ ~leadErased /\ leadErased' = TRUE
  /\ application' = IF application \in {"DRAFT", "VERIFYING", "REVIEWING", "NEED_MORE"}
                    THEN "CANCELLED" ELSE application
  /\ checks' = [t \in DOMAIN checks |->
       IF checks[t].status \in OpenChecks \cup {"SUBMITTED"}
       THEN [checks[t] EXCEPT !.status = "CANCELLED"] ELSE checks[t]]
  /\ holding' \in IF holding = "HELD" THEN {"HELD", "OVER"} ELSE {"OVER"}
  /\ UNCHANGED <<author, currentCheck, files, reopenedAt, askedAt, windowOver, assignee>>

\* assign_internal_employee: the owner hands the round to an employee or takes it back.
Handover(e) ==
  /\ ~leadErased /\ holding # "OVER" /\ e # assignee
  /\ assignee' = e
  /\ UNCHANGED <<application, author, currentCheck, files, checks, reopenedAt, askedAt,
                 holding, windowOver, leadErased>>

\* The clock, which a submitted request stops.
WindowEnds ==
  /\ ~windowOver /\ application \notin {"VERIFYING", "REVIEWING", "NEED_MORE"}
  /\ windowOver' = TRUE
  /\ UNCHANGED <<application, author, currentCheck, files, checks, reopenedAt, askedAt,
                 holding, assignee, leadErased>>

EvidenceNext ==
  \/ \E u \in Receivers :
       \/ CreateDraft(u) \/ ReopenDraft(u) \/ SubmitFirst(u) \/ SubmitSupplement(u)
       \/ \E f \in Contents : UploadByReceiver(u, f)
  \/ ExpireDraft \/ WindowEnds
  \/ \E t \in DOMAIN checks :
       \/ \E g \in Agents : AssignCheck(t, g)
       \/ StartCheck(t) \/ AnswerCheck(t)
       \/ \E f \in Contents : UploadByAgent(t, f)
  \/ AskForMore \/ RejectApplication \/ ApproveApplication \/ ApproveDirectly
  \/ \E m \in BOOLEAN : ReleaseRound(m)
  \/ EraseLead
  \/ \E e \in Employees \cup {NoOne} : Handover(e)

EvidenceSpec == EvidenceInit /\ [][EvidenceNext]_evidenceVars

-----------------------------------------------------------------------------
\* What is shown.  A task is answered when its submitted_at is set.

Answered(t) == checks[t].told > 0

\* return_verification_round_snapshots: the files as they were for an answered
\* task; without a snapshot those created before its answer.
RoundFiles(t) == 1..(IF checks[t].kept > 0 THEN checks[t].kept ELSE checks[t].told)

\* Fault: a former verification shows the files of today.
PageOfToday(t) == 1..Len(files)

\* history_assignment_ids: a task that was answered and is not the latest.
FormerCheck(t) == Answered(t) /\ t # currentCheck

\* return_verification_task_to_dict: available_evidences
TaskPage(t) == IF FormerCheck(t) THEN RoundFiles(t) ELSE 1..Len(files)

\* return_verification_task_detail: an agent opens his own tasks.
OpensTask(g, t) == checks[t].by = g /\ ~leadErased

\* _can_read_return: the tasks that let an agent in.
TasksOf(g) ==
  {t \in DOMAIN checks :
     checks[t].by = g /\ (Answered(t) \/ checks[t].status \in {"ASSIGNED", "IN_PROGRESS"})}

\* download_return_evidence_v12: by an agent, and by the company.
DownloadsAsAgent(g, i) ==
  /\ ~leadErased
  /\ \/ currentCheck \in TasksOf(g)
     \/ \E t \in TasksOf(g) : Answered(t) /\ i \in RoundFiles(t)

\* return_detail_v12 and its list, for the company.
ReadsReturn(u) == ~leadErased /\ OnTheReturn(u)
ListsReturn(u) ==
  /\ application # "NONE" /\ ~leadErased
  /\ u = Owner \/ (u \in Employees /\ (author = u \/ assignee = u))

\* list_return_verification_tasks: the queue of operations.
OpenQueue ==
  {t \in DOMAIN checks :
     /\ checks[t].status \in OpenChecks \cup {"SUBMITTED"}
     /\ application \in {"VERIFYING", "REVIEWING"} /\ ~leadErased}

\* current_round_evidence_count and supplementary_evidence_count, as contents.
CurrentRoundContents ==
  IF reopenedAt = 0 THEN 1..Len(files)
  ELSE ContentsUpTo(Len(files)) \ ContentsUpTo(reopenedAt)
SupplementContents ==
  IF application = "NEED_MORE" THEN ContentsUpTo(Len(files)) \ ContentsUpTo(askedAt) ELSE {}

\* evidence() of v12-workbench.js: the button of the form is enabled.
FormOffers ==
  IF application = "NEED_MORE" THEN SupplementContents # {} \/ CurrentRoundContents # {}
  ELSE CurrentRoundContents # {}

-----------------------------------------------------------------------------
\* Properties.

\* Files there were when the verification before the t-th was answered.
FilesBefore(t) == IF t = 1 THEN 0 ELSE checks[t - 1].told

\* Every verification was asked for with news: a file the receiver uploaded after
\* the one before had been answered, which none of the files until then was a
\* copy of, however often the request was rejected, reopened and supplemented.
EachRoundBringsNews ==
  \A t \in DOMAIN checks :
    /\ t > 1 => Answered(t - 1)
    /\ \E i \in (FilesBefore(t) + 1)..checks[t].basis :
         /\ files[i].by \in Receivers
         /\ files[i].content \notin ContentsUpTo(FilesBefore(t))

\* An agent who has answered keeps the files he decided on, and sees no later
\* ones but those the receiver adds while the same request waits for more; what
\* his pages show he can download and nothing else, and an agent replaced before
\* he answered, or whose lead is deleted, sees nothing.
JudgesSeeTheirRound ==
  /\ \A t \in DOMAIN checks : Answered(t) /\ ~leadErased =>
       /\ OpensTask(checks[t].by, t)
       /\ TaskPage(t) = 1..checks[t].told \/ (application = "NEED_MORE" /\ t = currentCheck)
       /\ \A i \in TaskPage(t) : DownloadsAsAgent(checks[t].by, i)
  /\ \A g \in Agents : \A i \in DOMAIN files :
       DownloadsAsAgent(g, i) => \E t \in DOMAIN checks : OpensTask(g, t) /\ i \in TaskPage(t)

\* The queue of operations holds the verification a decision waits for and no
\* other; a company's list shows the requests whose detail it may read; the form
\* of the receiver lets everything through that a submission accepts, and of a
\* draft nothing else.
PagesAgree ==
  /\ OpenQueue = IF application \in {"VERIFYING", "REVIEWING"} THEN {currentCheck} ELSE {}
  /\ application # "NONE" => \A u \in Receivers : ListsReturn(u) <=> ReadsReturn(u)
  /\ application = "DRAFT" => (FormOffers <=> DraftMaterial)
  /\ application = "NEED_MORE" => (SupplementMaterial => FormOffers)
=============================================================================
