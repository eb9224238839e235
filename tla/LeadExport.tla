----------------------------- MODULE LeadExport -----------------------------
(***************************************************************************)
(* Exports of leads with full phone numbers.  A request only stores a task *)
(* (routers/v12_insights.py); a worker process builds the workbook and     *)
(* uploads it (lead_export_v12.py); a cleanup job deletes files from the   *)
(* object storage (storage_cleanup_worker.py).                             *)
(*                                                                         *)
(* A worker holds a task by the token of its attempt and a lease it renews *)
(* while it works; a task whose lease ran out is taken over.  Storage and  *)
(* database have no transaction in common: before an upload the attempt    *)
(* commits the intent to delete the file again, and the publication turns  *)
(* that intent into the end of the retention period.                       *)
(*                                                                         *)
(* Time is counted in units of one lease.                                  *)
(***************************************************************************)
EXTENDS Naturals, FiniteSets

CONSTANTS
  Tasks,          \* export tasks
  RequesterOf,    \* who asked for each
  ActiveLimit,    \* lead_export_active_per_user_limit
  GlobalLimit,    \* lead_export_active_global_limit
  Exporters,      \* worker processes
  CleanupDelay,   \* LEAD_EXPORT_ATTEMPT_CLEANUP_DELAY
  Retention,      \* how long a published file is kept
  MaxTrouble      \* bound: crashes, stalls and refusals of the storage

ASSUME ExportAssumption ==
  /\ CleanupDelay \in Nat \ {0} /\ Retention \in Nat \ {0}
  /\ ActiveLimit \in Nat /\ GlobalLimit \in Nat /\ MaxTrouble \in Nat
  /\ "none" \notin Tasks

\* One attempt per claim, and a claim needs a request or some trouble.
AttemptNumbers == 1..(MaxTrouble + 1)
Attempts == Tasks \X AttemptNumbers

VARIABLES
  task,       \* task[t]: status, NONE before the request
  token,      \* token[t]: attempt_token, 0 for none
  lastToken,  \* lastToken[t]: attempts so far
  lease,      \* lease[t]: started_at is not stale yet
  object,     \* object[t]: the attempt whose file the task names
  expiry,     \* expiry[t]: time until expires_at
  stored,     \* files in the object storage, by attempt
  cleanup,    \* cleanup[a]: status of the cleanup row of the file of attempt a
  due,        \* due[a]: time until its next_attempt_at
  step,       \* step[e]: how far worker e is
  work,       \* work[e]: its task
  held,       \* held[e]: its token
  trouble     \* crashes, stalls and refusals so far, out of MaxTrouble

taskVars == <<task, token, lastToken, lease, object, expiry>>
fileVars == <<stored, cleanup, due>>
exporterVars == <<step, work, held>>
exportVars == <<taskVars, fileVars, exporterVars, trouble>>

-----------------------------------------------------------------------------
ActiveStatuses == {"PENDING", "RUNNING"}
Steps == {"idle", "building", "intended", "uploading", "uploaded", "discarding", "recording", "failing"}

Active == {t \in Tasks : task[t] \in ActiveStatuses}
AttemptOf(e) == <<work[e], held[e]>>

\* Fault: an attempt updates its task unconditionally.
AlwaysOwned(e) == TRUE

\* The task is still the one worker e claimed.
Owned(e) == task[work[e]] = "RUNNING" /\ token[work[e]] = held[e]

GoTo(e, s) == step' = [step EXCEPT ![e] = s] /\ UNCHANGED <<work, held>>

Rest(e) ==
  /\ step' = [step EXCEPT ![e] = "idle"]
  /\ work' = [work EXCEPT ![e] = "none"]
  /\ held' = [held EXCEPT ![e] = 0]

\* Something goes wrong once more.
Trouble == trouble < MaxTrouble /\ trouble' = trouble + 1

ExportInit ==
  /\ task = [t \in Tasks |-> "NONE"]
  /\ token = [t \in Tasks |-> 0]
  /\ lastToken = [t \in Tasks |-> 0]
  /\ lease = [t \in Tasks |-> FALSE]
  /\ object = [t \in Tasks |-> 0]
  /\ expiry = [t \in Tasks |-> 0]
  /\ stored = {}
  /\ cleanup = [a \in Attempts |-> "NONE"]
  /\ due = [a \in Attempts |-> 0]
  /\ step = [e \in Exporters |-> "idle"]
  /\ work = [e \in Exporters |-> "none"]
  /\ held = [e \in Exporters |-> 0]
  /\ trouble \in 0..MaxTrouble

-----------------------------------------------------------------------------
\* request_lead_export: counts and insertion under one advisory lock.  A request
\* repeated with its idempotency key gets the task it made.
RequestExport(t) ==
  /\ task[t] = "NONE"
  /\ Cardinality({u \in Active : RequesterOf[u] = RequesterOf[t]}) < ActiveLimit
  /\ Cardinality(Active) < GlobalLimit
  /\ task' = [task EXCEPT ![t] = "PENDING"]
  /\ UNCHANGED <<token, lastToken, lease, object, expiry, fileVars, exporterVars, trouble>>

\* _claim_next_lead_export_task: a new task, or a running one with a stale lease.
ClaimExport(e, t) ==
  /\ step[e] = "idle"
  /\ task[t] = "PENDING" \/ (task[t] = "RUNNING" /\ ~lease[t])
  /\ task' = [task EXCEPT ![t] = "RUNNING"]
  /\ lastToken' = [lastToken EXCEPT ![t] = @ + 1]
  /\ token' = [token EXCEPT ![t] = lastToken[t] + 1]
  /\ lease' = [lease EXCEPT ![t] = TRUE]
  /\ step' = [step EXCEPT ![e] = "building"]
  /\ work' = [work EXCEPT ![e] = t]
  /\ held' = [held EXCEPT ![e] = lastToken[t] + 1]
  /\ UNCHANGED <<object, expiry, fileVars, trouble>>

\* _renew_lead_export_lease_in_session
Renewed(e) == Owned(e) /\ lease' = [lease EXCEPT ![work[e]] = TRUE]

\* Where an exception leaves an attempt: before its intent there is no file.
Fails(e) == GoTo(e, IF step[e] = "building" THEN "failing" ELSE "discarding")

\* A heartbeat of the build or the upload.
Heartbeat(e) ==
  /\ step[e] \in {"building", "uploading"}
  /\ \/ Renewed(e) /\ UNCHANGED exporterVars
     \/ ~Owned(e) /\ Fails(e) /\ UNCHANGED lease
  /\ UNCHANGED <<task, token, lastToken, object, expiry, fileVars, trouble>>

\* The workbook is too large, a query fails, the disk is full.
BuildFails(e) ==
  /\ step[e] = "building"
  /\ Trouble
  /\ Fails(e)
  /\ UNCHANGED <<taskVars, fileVars>>

\* Fault: the intent is not stored before the upload.
NoIntent(a) == UNCHANGED <<cleanup, due>>

\* The row that will delete the file of attempt a, whatever becomes of the attempt.
Intent(a) ==
  /\ cleanup' = [cleanup EXCEPT ![a] = "PENDING"]
  /\ due' = [due EXCEPT ![a] = CleanupDelay]

\* _persist_attempt_cleanup_intent, committed on its own; the token is not asked.
PersistIntent(e) ==
  /\ step[e] = "building"
  /\ Intent(AttemptOf(e))
  /\ GoTo(e, "intended")
  /\ UNCHANGED <<taskVars, stored, trouble>>

\* The lease is renewed before the upload begins ...
StartUpload(e) ==
  /\ step[e] = "intended"
  /\ \/ Renewed(e) /\ GoTo(e, "uploading")
     \/ ~Owned(e) /\ Fails(e) /\ UNCHANGED lease
  /\ UNCHANGED <<task, token, lastToken, object, expiry, fileVars, trouble>>

\* ... and save_file either stores the file, or raises; then the file may be there.
Upload(e) ==
  /\ step[e] = "uploading"
  /\ \/ /\ stored' = stored \cup {AttemptOf(e)}
        /\ GoTo(e, "uploaded")
        /\ UNCHANGED trouble
     \/ /\ Trouble
        /\ \E S \in {{}, {AttemptOf(e)}} : stored' = stored \cup S
        /\ Fails(e)
  /\ UNCHANGED <<taskVars, cleanup, due>>

\* The intent becomes the end of the retention period.
Retain(a) == due' = [due EXCEPT ![a] = Retention]

\* The publication answers the task and keeps its file, in one commit.
Publish(e) ==
  /\ step[e] = "uploaded" /\ Owned(e)
  /\ task' = [task EXCEPT ![work[e]] = "COMPLETED"]
  /\ token' = [token EXCEPT ![work[e]] = 0]
  /\ object' = [object EXCEPT ![work[e]] = held[e]]
  /\ expiry' = [expiry EXCEPT ![work[e]] = Retention]
  /\ Retain(AttemptOf(e))
  /\ Rest(e)
  /\ UNCHANGED <<lastToken, lease, stored, cleanup, trouble>>

\* The renewal before the publication, or its UPDATE, finds another token.
Superseded(e) ==
  /\ step[e] = "uploaded" /\ ~Owned(e)
  /\ Fails(e)
  /\ UNCHANGED <<taskVars, fileVars, trouble>>

\* _delete_or_schedule_attempt_cleanup: the file is deleted, or its row made due ...
Discard(e) ==
  /\ step[e] = "discarding"
  /\ \/ /\ stored' = stored \ {AttemptOf(e)}
        /\ GoTo(e, "recording")
        /\ UNCHANGED <<cleanup, due, trouble>>
     \/ /\ Trouble
        /\ cleanup' = [cleanup EXCEPT ![AttemptOf(e)] = "PENDING"]
        /\ due' = [due EXCEPT ![AttemptOf(e)] = 0]
        /\ GoTo(e, "failing")
        /\ UNCHANGED stored
  /\ UNCHANGED taskVars

\* ... and the deletion is recorded in a transaction of its own.
RecordDiscard(e) ==
  /\ step[e] = "recording"
  /\ cleanup' = [cleanup EXCEPT ![AttemptOf(e)] = "DELETED"]
  /\ GoTo(e, "failing")
  /\ UNCHANGED <<taskVars, stored, due, trouble>>

\* The task fails, unless another worker has it by now.
FailTask(e) ==
  /\ step[e] = "failing"
  /\ IF Owned(e)
     THEN /\ task' = [task EXCEPT ![work[e]] = "FAILED"]
          /\ token' = [token EXCEPT ![work[e]] = 0]
     ELSE UNCHANGED <<task, token>>
  /\ Rest(e)
  /\ UNCHANGED <<lastToken, lease, object, expiry, fileVars, trouble>>

\* A worker process dies.
ExporterCrash(e) ==
  /\ step[e] # "idle"
  /\ Trouble
  /\ Rest(e)
  /\ UNCHANGED <<taskVars, fileVars>>

-----------------------------------------------------------------------------
\* Fault: a deletion that failed is not tried again.
CleanupDueOnce(a) == cleanup[a] = "PENDING" /\ due[a] = 0

\* The query of process_storage_cleanup.
CleanupDue(a) == cleanup[a] \in {"PENDING", "FAILED"} /\ due[a] = 0

\* process_storage_cleanup, for one row.  The file goes first; when the commit
\* fails it is deleted again next time, and deleting nothing is no error.
CleanUp(a) ==
  /\ CleanupDue(a)
  /\ \/ /\ stored' = stored \ {a}
        /\ cleanup' = [cleanup EXCEPT ![a] = "DELETED"]
        /\ UNCHANGED <<due, trouble>>
     \/ /\ Trouble
        /\ stored' = stored \ {a}
        /\ UNCHANGED <<cleanup, due>>
     \/ /\ Trouble
        /\ cleanup' = [cleanup EXCEPT ![a] = "FAILED"]
        /\ due' = [due EXCEPT ![a] = 1]
        /\ UNCHANGED stored
  /\ UNCHANGED <<taskVars, exporterVars>>

-----------------------------------------------------------------------------
\* Time.

\* One unit of time less.
Less(n) == IF n = 0 THEN 0 ELSE n - 1

\* Workers between their intent and the end of their attempt.
Uploading == {e \in Exporters : step[e] \in {"intended", "uploading", "uploaded", "discarding", "recording"}}

\* From the intent to the end of its attempt a worker that lives takes less than
\* the day after which the intent would delete its file.
UploadsWithinTheDelay == \A e \in Uploading : due[AttemptOf(e)] > 1

\* Workers whose lease would run out now, and those that renewed it in time.
Leasing == {e \in Exporters : step[e] # "idle" /\ Owned(e) /\ lease[work[e]]}
Beating == {e \in Leasing : step[e] \in {"building", "uploading"}}

\* A worker that goes without a heartbeat for a whole lease is in trouble.
Tick ==
  /\ (\E t \in Tasks : lease[t] \/ expiry[t] > 0) \/ (\E a \in Attempts : due[a] > 0)
  /\ UploadsWithinTheDelay
  /\ \E renewed \in SUBSET Beating :
       /\ IF Leasing = renewed THEN UNCHANGED trouble ELSE Trouble
       /\ lease' = [t \in Tasks |-> \E e \in renewed : work[e] = t]
  /\ expiry' = [t \in Tasks |-> Less(expiry[t])]
  /\ due' = [a \in Attempts |-> Less(due[a])]
  /\ UNCHANGED <<task, token, lastToken, object, stored, cleanup, exporterVars>>

-----------------------------------------------------------------------------
\* What a worker does unless it dies.
Progress(e) ==
  \/ \E t \in Tasks : ClaimExport(e, t)
  \/ PersistIntent(e) \/ StartUpload(e) \/ Upload(e)
  \/ Publish(e) \/ Superseded(e)
  \/ Discard(e) \/ RecordDiscard(e) \/ FailTask(e)

ExportNext ==
  \/ \E t \in Tasks : RequestExport(t)
  \/ \E e \in Exporters :
       Progress(e) \/ Heartbeat(e) \/ BuildFails(e) \/ ExporterCrash(e)
  \/ \E a \in Attempts : CleanUp(a)
  \/ Tick

\* The worker polls every few seconds and is restarted when it dies, the cleanup
\* runs in every cycle of the scheduler, and the clock does not stop.
ExportFairness ==
  /\ \A e \in Exporters : WF_exportVars(Progress(e))
  /\ \A a \in Attempts : WF_exportVars(CleanUp(a))
  /\ WF_exportVars(Tick)

ExportSpec == ExportInit /\ [][ExportNext]_exportVars /\ ExportFairness

-----------------------------------------------------------------------------
ExportTypeOK ==
  /\ task \in [Tasks -> {"NONE", "PENDING", "RUNNING", "COMPLETED", "FAILED"}]
  /\ lastToken \in [Tasks -> 0..(MaxTrouble + 1)]
  /\ token \in [Tasks -> AttemptNumbers \cup {0}] /\ object \in [Tasks -> AttemptNumbers \cup {0}]
  /\ lease \in [Tasks -> BOOLEAN]
  /\ expiry \in [Tasks -> 0..Retention]
  /\ stored \subseteq Attempts
  /\ cleanup \in [Attempts -> {"NONE", "PENDING", "FAILED", "DELETED"}]
  /\ due \in [Attempts -> Nat]
  /\ step \in [Exporters -> Steps]
  /\ work \in [Exporters -> Tasks \cup {"none"}]
  /\ held \in [Exporters -> Nat]
  /\ trouble \in 0..MaxTrouble

\* A file with full phone numbers is never forgotten: whatever was uploaded, by a
\* worker that died, was overtaken or could not reach the storage, has a cleanup
\* row that has not been settled yet.  (process_lead_export_tasks)
NoFileIsForgotten == \A a \in stored : cleanup[a] \in {"PENDING", "FAILED"}

\* The file of an answered task can be downloaded until it expires: no late worker
\* and no cleanup takes it away.  (download_lead_export)
PublishedFileIsThere ==
  \A t \in Tasks : task[t] = "COMPLETED" /\ expiry[t] > 0 => <<t, object[t]>> \in stored

\* Every file leaves the storage in the end.  (process_storage_cleanup)
EveryFileIsDestroyed == \A a \in Attempts : []<>(a \notin stored)

\* What a requester sees of a task.
Seen(t) ==
  IF task[t] = "NONE" THEN "none"
  ELSE IF task[t] \in ActiveStatuses THEN "waiting"
  ELSE IF task[t] = "FAILED" THEN "refused"
  ELSE IF <<t, object[t]>> \in stored THEN "ready" ELSE "destroyed"

Promise == INSTANCE ExportPromise WITH
  promise <- [t \in Tasks |-> Seen(t)],
  kept <- expiry

\* An export is answered once and for all, in spite of takeovers, and its file is
\* kept for the retention period and destroyed after it.
ExportKeepsItsPromise == Promise!Spec
=============================================================================
