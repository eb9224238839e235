-------------------------- MODULE LeadSupply_proofs --------------------------
(***************************************************************************)
(* Proofs about LeadSupply, for any number of leads, phones and requests:  *)
(* its type invariant, that a phone names one lead, that the round of      *)
(* telesales and the lead agree, that a supplier's lead is judged before   *)
(* it can be sold, and what alone lets one that was verified again pass.   *)
(***************************************************************************)
EXTENDS LeadSupply, SequenceTheorems, TLAPS

Open == ActiveTaskStatuses \cup {"SUBMITTED"}

\* Only the newest task is open, and as the status of the lead wants it.
RoundIsTheNewest(l) ==
  /\ \A i \in 1..Len(tasks[l]) : tasks[l][i].status \in Open =>
       i = Len(tasks[l])
       /\ row[l].status \in {"PENDING_TELESALES_VERIFY", "PENDING_OPERATION_DISPOSITION"}
  /\ row[l].status = "PENDING_TELESALES_VERIFY" =>
       Len(tasks[l]) > 0 /\ tasks[l][Len(tasks[l])].status \in ActiveTaskStatuses
  /\ row[l].status = "PENDING_OPERATION_DISPOSITION" =>
       Len(tasks[l]) > 0 /\ tasks[l][Len(tasks[l])].status = "SUBMITTED"

\* A supplier's lead that left its draft was judged with its phone; it does not
\* block where it can come into the pool from, unless its task was not handed out.
JudgedOnItsWay(l) ==
  /\ row[l].status # "DRAFT" => judged[l] = row[l].phone
  /\ row[l].status \in {"READY_DISPATCH", "DISPATCHED", "PENDING_OPERATION_DISPOSITION", "CLOSED"}
       => ~Blocks(row[l].dup)
  /\ row[l].status = "PENDING_TELESALES_VERIFY" /\ Blocks(row[l].dup) =>
       tasks[l][Len(tasks[l])].status = "PENDING"

LeadIsSound(l) == l \notin overtaken =>
  /\ row[l].phone = "none" => row[l].status \in Absent \cup {"DRAFT"}
  /\ Live(l) => RoundIsTheNewest(l)
  /\ Live(l) /\ Supplied(l) => JudgedOnItsWay(l)

\* What a request in progress has read or looked up.
RequestIsSound == \A c \in Callers :
  /\ session[c].kind \in {"submit", "discard"} =>
       session[c].read.status = "DRAFT" /\ ~session[c].read.deleted
  /\ session[c].kind = "submit" => session[c].read.phone # "none"
  /\ session[c].kind = "enter" => row[session[c].lead].status = "NONE"

\* While a phone is locked no lead that is not deleted has it, and one entry does.
LockIsExclusive == \A c \in Callers : session[c].kind = "enter" =>
  /\ session[c].phone # "none" => \A k \in Leads : Live(k) => row[k].phone # session[c].phone
  /\ \A d \in Callers \ {c} : session[d].kind = "enter" =>
       /\ session[d].lead # session[c].lead
       /\ session[c].phone # "none" => session[d].phone # session[c].phone

\* Before its entry a lead has no task.
NoTaskBeforeEntry == \A l \in Leads : row[l].status = "NONE" => tasks[l] = <<>>

SupplyInv ==
  /\ SupplyTypeOK /\ \A l \in Leads : LeadIsSound(l)
  /\ RequestIsSound /\ LockIsExclusive /\ NoTaskBeforeEntry /\ IdentityIsUnique

USE SupplyAssumption

-----------------------------------------------------------------------------
\* Lemmas about rows and tasks.

\* An update of some columns is a row again.
LEMMA MergedIsARow ==
  ASSUME NEW now \in LeadRow, NEW read \in LeadRow, NEW new \in LeadRow
  PROVE  Merged(now, read, new) \in LeadRow
BY DEF Merged, LeadRow

\* An update of what was read is what was computed.
LEMMA MergedWithoutChange ==
  ASSUME NEW read \in LeadRow, NEW new \in LeadRow
  PROVE  Merged(read, read, new) = new
BY DEF Merged, LeadRow

\* The columns of an update.
LEMMA MergedColumns ==
  ASSUME NEW now \in LeadRow, NEW read \in LeadRow, NEW new \in LeadRow
  PROVE  /\ new.phone = read.phone => Merged(now, read, new).phone = now.phone
         /\ new.deleted = read.deleted => Merged(now, read, new).deleted = now.deleted
         /\ new.status # read.status => Merged(now, read, new).status = new.status
BY DEF Merged, LeadRow

\* Submission decides a row, of the same phone, that is no draft any more.
LEMMA OutcomesAreRows ==
  ASSUME NEW l \in Leads, NEW r \in LeadRow, NEW o \in Outcomes(l, r)
  PROVE  /\ o \in LeadRow /\ o.phone = r.phone /\ o.deleted = r.deleted /\ o.sold = r.sold
         /\ o.status \in {"DUPLICATE", "READY_DISPATCH", "PUBLIC_POOL", "PENDING_TELESALES_VERIFY"}
         /\ Blocks(o.dup) <=> o.status = "DUPLICATE"
         /\ Blocks(o.dup) => ~o.approved
<1>1. PICK d \in DecisionsOn(l, r.phone), pool \in PoolsOf(l) : o = Decided(r, d, pool)
  BY DEF Outcomes
<1>2. d \in Decisions /\ pool \in {"READY_DISPATCH", "PUBLIC_POOL"}
  BY <1>1 DEF DecisionsOn, PoolsOf, Decisions
<1>3. QED BY <1>1, <1>2 DEF Decided, LeadRow, Decisions, Blocks, SupplyStatuses, Absent

\* A task is added behind the others.
LEMMA TaskIsAdded ==
  ASSUME tasks \in [Leads -> Seq(Task)], NEW l \in Leads, NEW s \in VerificationStatuses,
         AddTask(l, s)
  PROVE  /\ tasks' \in [Leads -> Seq(Task)]
         /\ \A k \in Leads \ {l} : tasks'[k] = tasks[k]
         /\ Len(tasks'[l]) = Len(tasks[l]) + 1
         /\ tasks'[l][Len(tasks'[l])].status = s
         /\ \A i \in 1..Len(tasks[l]) : tasks'[l][i] = tasks[l][i]
<1>1. NewTask(s) \in Task BY DEF NewTask, Task
<1>2. QED BY <1>1 DEF AddTask, NewTask

\* The status of one task is set.
LEMMA TaskIsSet ==
  ASSUME tasks \in [Leads -> Seq(Task)], NEW l \in Leads, NEW i \in 1..Len(tasks[l]),
         NEW t \in Task, tasks' = [tasks EXCEPT ![l][i] = t]
  PROVE  /\ tasks' \in [Leads -> Seq(Task)]
         /\ \A k \in Leads \ {l} : tasks'[k] = tasks[k]
         /\ Len(tasks'[l]) = Len(tasks[l])
         /\ i \in 1..Len(tasks[l]) /\ tasks'[l][i] = t
         /\ \A j \in 1..Len(tasks[l]) : j # i => tasks'[l][j] = tasks[l][j]
BY ExceptSeq, LenProperties

\* A task with another status.
LEMMA StatusOfATask ==
  ASSUME tasks \in [Leads -> Seq(Task)], NEW l \in Leads, NEW i \in 1..Len(tasks[l]),
         NEW s \in VerificationStatuses
  PROVE  [tasks[l][i] EXCEPT !.status = s] \in Task /\ [tasks[l][i] EXCEPT !.status = s].status = s
<1>1. tasks[l][i] \in Task BY ElementOfSeq, LenProperties
<1>2. QED BY <1>1 DEF Task

\* A round is added behind tasks that were changed before.
LEMMA RoundIsAdded ==
  ASSUME tasks \in [Leads -> Seq(Task)], NEW l \in Leads, NEW s \in Seq(Task),
         tasks' = [tasks EXCEPT ![l] = Append(s, NewTask("PENDING"))]
  PROVE  /\ tasks' \in [Leads -> Seq(Task)]
         /\ \A k \in Leads \ {l} : tasks'[k] = tasks[k]
         /\ Len(tasks'[l]) = Len(s) + 1 /\ Len(s) \in Nat
         /\ tasks'[l][Len(tasks'[l])].status = "PENDING"
         /\ \A i \in 1..Len(s) : tasks'[l][i] = s[i]
<1>1. NewTask("PENDING") \in Task
  BY DEF NewTask, Task, VerificationStatuses, ActiveTaskStatuses
<1>2. QED BY <1>1 DEF NewTask

\* Tasks of which the open ones have been closed.
Closed(s, v) ==
  [i \in DOMAIN s |-> IF s[i].status \in Open THEN [s[i] EXCEPT !.status = v] ELSE s[i]]

\* They are tasks again, as many.
LEMMA TasksAreClosed ==
  ASSUME NEW s \in Seq(Task), NEW v \in VerificationStatuses
  PROVE  /\ Closed(s, v) \in Seq(Task) /\ Len(Closed(s, v)) = Len(s)
         /\ \A i \in 1..Len(s) :
              Closed(s, v)[i].status = IF s[i].status \in Open THEN v ELSE s[i].status
<1> DEFINE f == Closed(s, v)
<1>1. Len(s) \in Nat /\ DOMAIN s = 1..Len(s) /\ \A i \in 1..Len(s) : s[i] \in Task
  BY LenProperties, ElementOfSeq
<1>2. \A i \in 1..Len(s) : f[i] \in Task /\ f[i].status =
         IF s[i].status \in Open THEN v ELSE s[i].status
  BY <1>1 DEF Task, Closed
<1>3. f \in [1..Len(s) -> Task] BY <1>1, <1>2 DEF Closed
<1>4. f \in Seq(Task) BY <1>1, <1>3, SeqDef
<1>5. Len(f) = Len(s) BY <1>1, <1>3, <1>4, LenProperties
<1>6. QED BY <1>2, <1>4, <1>5

\* A row is set.
LEMMA RowIsSet ==
  ASSUME row \in [Leads -> LeadRow], NEW l \in Leads, NEW r \in LeadRow, SetRow(l, r)
  PROVE  /\ row' \in [Leads -> LeadRow] /\ row'[l] = r
         /\ \A k \in Leads \ {l} : row'[k] = row[k]
BY DEF SetRow

\* What a step of one lead, which exists and keeps its phone, has to show.
LEMMA StepOfALead ==
  ASSUME SupplyInv, NEW l \in Leads, NEW r \in LeadRow, SetRow(l, r),
         Exists(l), r.status \notin Absent, r.phone = row[l].phone, row[l].deleted => r.deleted,
         tasks' \in [Leads -> Seq(Task)], judged' \in [Leads -> Phones \cup {"none"}],
         \A k \in Leads \ {l} : tasks'[k] = tasks[k] /\ judged'[k] = judged[k],
         session' \in [Callers -> Session],
         \A c \in Callers : session'[c] = session[c] \/ session'[c] = Idle,
         overtaken \subseteq overtaken', overtaken' \subseteq Leads, reentered' \subseteq Leads,
         LeadIsSound(l)'
  PROVE  SupplyInv'
<1>1. /\ row' \in [Leads -> LeadRow] /\ row'[l] = r
      /\ \A k \in Leads \ {l} : row'[k] = row[k]
  BY RowIsSet DEF SupplyInv, SupplyTypeOK
<1>2. \A k \in Leads : LeadIsSound(k)'
  <2>1. SUFFICES ASSUME NEW k \in Leads \ {l} PROVE LeadIsSound(k)' OBVIOUS
  <2>2. LeadIsSound(k) /\ row'[k] = row[k] /\ tasks'[k] = tasks[k] /\ judged'[k] = judged[k]
    BY <1>1 DEF SupplyInv
  <2>3. QED
    BY <2>2 DEF LeadIsSound, RoundIsTheNewest, JudgedOnItsWay, Live, Exists, Supplied
<1>3. SupplyTypeOK' BY <1>1, <1>2 DEF SupplyInv, SupplyTypeOK, LeadIsSound
<1>a. \A c \in Callers : session'[c].kind # "idle" => session'[c] = session[c]
  BY DEF Idle
<1>b. \A c \in Callers : session[c].kind = "enter" => session[c].lead \in Leads
  BY DEF SupplyInv, SupplyTypeOK, Session, Idle
<1>4. RequestIsSound'
  <2>1. SUFFICES ASSUME NEW c \in Callers, session'[c].kind \in {"submit", "discard", "enter"}
                 PROVE  /\ session'[c].kind \in {"submit", "discard"} =>
                             session'[c].read.status = "DRAFT" /\ ~session'[c].read.deleted
                        /\ session'[c].kind = "submit" => session'[c].read.phone # "none"
                        /\ session'[c].kind = "enter" => row'[session'[c].lead].status = "NONE"
    BY DEF RequestIsSound
  <2>2. session'[c] = session[c] BY <1>a, <2>1
  <2>3. session[c].kind = "enter" => session[c].lead # l
    BY DEF SupplyInv, RequestIsSound, Exists, Absent
  <2>4. QED BY <1>1, <1>b, <2>2, <2>3 DEF SupplyInv, RequestIsSound
<1>5. \A k \in Leads : Live(k)' => Live(k) /\ row'[k].phone = row[k].phone
  BY <1>1 DEF Live, Exists, SupplyInv, SupplyTypeOK, LeadRow
<1>6. LockIsExclusive'
  <2>1. SUFFICES ASSUME NEW c \in Callers, session'[c].kind = "enter"
                 PROVE  /\ session'[c].phone # "none" =>
                             \A k \in Leads : Live(k)' => row'[k].phone # session'[c].phone
                        /\ \A d \in Callers \ {c} : session'[d].kind = "enter" =>
                             /\ session'[d].lead # session'[c].lead
                             /\ session'[c].phone # "none" => session'[d].phone # session'[c].phone
    BY DEF LockIsExclusive
  <2>2. session'[c] = session[c] BY <1>a, <2>1
  <2>3. \A d \in Callers : session'[d].kind = "enter" => session'[d] = session[d] BY <1>a
  <2>4. QED BY <1>5, <2>1, <2>2, <2>3 DEF SupplyInv, LockIsExclusive
<1>7. IdentityIsUnique' BY <1>5 DEF SupplyInv, IdentityIsUnique
<1>8. NoTaskBeforeEntry' BY <1>1 DEF SupplyInv, NoTaskBeforeEntry, Absent
<1>9. QED BY <1>2, <1>3, <1>4, <1>6, <1>7, <1>8 DEF SupplyInv

\* A step that closes or reopens a lead without a round, or moves it within the
\* pool, leaves no round behind: there was none.
LEMMA ReviewRefusedKeeps ==
  ASSUME SupplyInv, NEW l \in Leads, ReviewRefused(l) PROVE SupplyInv'
<1>1. PICK s \in {"DUPLICATE", "INVALID"} :
        SetRow(l, [row[l] EXCEPT !.status = s, !.approved = FALSE, !.reverify = FALSE])
  BY DEF ReviewRefused
<1>2. QED
  <2>0. row[l] \in LeadRow BY DEF SupplyInv, SupplyTypeOK
  <2> DEFINE r == [row[l] EXCEPT !.status = s, !.approved = FALSE, !.reverify = FALSE]
  <2>1. /\ r \in LeadRow /\ r.phone = row[l].phone /\ r.deleted = row[l].deleted
         /\ r.status \in {"DUPLICATE", "INVALID"} /\ r.dup = row[l].dup
    BY <2>0 DEF LeadRow, SupplyStatuses, Decisions, Absent
  <2>2. SetRow(l, r) /\ Exists(l)
    BY <1>1
    DEF ReviewRefused, InReview, Exists, Absent, SupplyInv, SupplyTypeOK, Live, SetRow
  <2> HIDE DEF r
  <2>3. row'[l] = r BY <2>1, <2>2, RowIsSet DEF SupplyInv, SupplyTypeOK
  <2>4. UNCHANGED tasks BY <1>1 DEF ReviewRefused, InReview, Exists, Absent
  <2>5. tasks' \in [Leads -> Seq(Task)] BY <2>4 DEF SupplyInv, SupplyTypeOK
  <2>6. \A k \in Leads \ {l} : tasks'[k] = tasks[k] BY <2>4
  <2>7. LeadIsSound(l)'
    <3>1. /\ LeadIsSound(l) /\ overtaken' = overtaken /\ judged' = judged /\ Live(l)
          /\ row[l].status \in {"PENDING_REVIEW", "DUPLICATE"}
      BY <1>1
      DEF SupplyInv, historyVars, Judge, Live, ReviewRefused, InReview, Exists, Absent
    <3>2. QED
      BY <3>1, <2>1, <2>3, <2>4, <2>6
      DEF LeadIsSound, RoundIsTheNewest, JudgedOnItsWay, Live, Exists, Supplied, Blocks,
         Open, ActiveTaskStatuses, Absent
  <2>8. QED
    BY <1>1, <2>1, <2>2, <2>5, <2>6, <2>7, StepOfALead
    DEF ReviewRefused, InReview, Exists, Absent, SupplyInv, SupplyTypeOK, historyVars,
       Judge, Idle

\* A refused lead becomes a draft again.
LEMMA ReviseRejectedKeeps ==
  ASSUME SupplyInv, NEW l \in Leads, ReviseRejected(l) PROVE SupplyInv'
<1>0. row[l] \in LeadRow BY DEF SupplyInv, SupplyTypeOK
<1> DEFINE r == [row[l] EXCEPT !.status = "DRAFT", !.dup = "none", !.approved = FALSE,
                      !.reverify = FALSE]
<1>1. /\ r \in LeadRow /\ r.phone = row[l].phone /\ r.deleted = row[l].deleted
       /\ r.status = "DRAFT" /\ r.dup = "none"
  BY <1>0 DEF LeadRow, SupplyStatuses, Decisions, Absent
<1>2. SetRow(l, r) /\ Exists(l)
  BY DEF ReviseRejected, SupplyInv, SupplyTypeOK, Live, Exists, Absent, InReview, SetRow
<1> HIDE DEF r
<1>3. row'[l] = r BY <1>1, <1>2, RowIsSet DEF SupplyInv, SupplyTypeOK
<1>4. UNCHANGED tasks BY DEF ReviseRejected
<1>5. tasks' \in [Leads -> Seq(Task)] BY <1>4 DEF SupplyInv, SupplyTypeOK
<1>6. \A k \in Leads \ {l} : tasks'[k] = tasks[k] BY <1>4
<1>7. LeadIsSound(l)'
  <2>1. /\ LeadIsSound(l) /\ overtaken' = overtaken /\ judged' = judged /\ Live(l)
        /\ row[l].status = "INVALID"
    BY DEF SupplyInv, historyVars, Judge, Live, ReviseRejected
  <2>2. QED
    BY <2>1, <1>1, <1>3, <1>4, <1>6
    DEF LeadIsSound, RoundIsTheNewest, JudgedOnItsWay, Live, Exists, Supplied, Blocks,
       Open, ActiveTaskStatuses, Absent
<1>8. QED
  BY <1>1, <1>2, <1>5, <1>6, <1>7, StepOfALead
  DEF ReviseRejected, SupplyInv, SupplyTypeOK, historyVars, Judge, Idle, Exists, Absent

\* A lead of the pool becomes a draft again.
LEMMA ReopenForCorrectionKeeps ==
  ASSUME SupplyInv, NEW l \in Leads, ReopenForCorrection(l) PROVE SupplyInv'
<1>0. row[l] \in LeadRow BY DEF SupplyInv, SupplyTypeOK
<1> DEFINE r == [row[l] EXCEPT !.status = "DRAFT", !.dup = "none", !.approved = FALSE,
                      !.reverify = FALSE]
<1>1. /\ r \in LeadRow /\ r.phone = row[l].phone /\ r.deleted = row[l].deleted
       /\ r.status = "DRAFT" /\ r.dup = "none"
  BY <1>0 DEF LeadRow, SupplyStatuses, Decisions, Absent
<1>2. SetRow(l, r) /\ Exists(l)
  BY DEF ReopenForCorrection, SupplyInv, SupplyTypeOK, Live, Exists, Absent, InReview,
     SetRow
<1> HIDE DEF r
<1>3. row'[l] = r BY <1>1, <1>2, RowIsSet DEF SupplyInv, SupplyTypeOK
<1>4. UNCHANGED tasks BY DEF ReopenForCorrection
<1>5. tasks' \in [Leads -> Seq(Task)] BY <1>4 DEF SupplyInv, SupplyTypeOK
<1>6. \A k \in Leads \ {l} : tasks'[k] = tasks[k] BY <1>4
<1>7. LeadIsSound(l)'
  <2>1. /\ LeadIsSound(l) /\ overtaken' = overtaken /\ judged' = judged /\ Live(l)
        /\ row[l].status = "READY_DISPATCH"
    BY DEF SupplyInv, historyVars, Judge, Live, ReopenForCorrection
  <2>2. QED
    BY <2>1, <1>1, <1>3, <1>4, <1>6
    DEF LeadIsSound, RoundIsTheNewest, JudgedOnItsWay, Live, Exists, Supplied, Blocks,
       Open, ActiveTaskStatuses, Absent
<1>8. QED
  BY <1>1, <1>2, <1>5, <1>6, <1>7, StepOfALead
  DEF ReopenForCorrection, SupplyInv, SupplyTypeOK, historyVars, Judge, Idle, Exists,
     Absent

\* A closed lead comes into the pool.
LEMMA ReopenClosedKeeps ==
  ASSUME SupplyInv, NEW l \in Leads, ReopenClosed(l) PROVE SupplyInv'
<1>0. row[l] \in LeadRow BY DEF SupplyInv, SupplyTypeOK
<1> DEFINE r == [row[l] EXCEPT !.status = "READY_DISPATCH", !.approved = TRUE, !.reverify = FALSE]
<1>1. /\ r \in LeadRow /\ r.phone = row[l].phone /\ r.deleted = row[l].deleted
       /\ r.status = "READY_DISPATCH" /\ r.dup = row[l].dup
  BY <1>0 DEF LeadRow, SupplyStatuses, Decisions, Absent
<1>2. SetRow(l, r) /\ Exists(l)
  BY DEF ReopenClosed, SupplyInv, SupplyTypeOK, Live, Exists, Absent, InReview, SetRow
<1> HIDE DEF r
<1>3. row'[l] = r BY <1>1, <1>2, RowIsSet DEF SupplyInv, SupplyTypeOK
<1>4. UNCHANGED tasks BY DEF ReopenClosed
<1>5. tasks' \in [Leads -> Seq(Task)] BY <1>4 DEF SupplyInv, SupplyTypeOK
<1>6. \A k \in Leads \ {l} : tasks'[k] = tasks[k] BY <1>4
<1>7. LeadIsSound(l)'
  <2>1. /\ LeadIsSound(l) /\ overtaken' = overtaken /\ judged' = judged /\ Live(l)
        /\ row[l].status = "CLOSED"
    BY DEF SupplyInv, historyVars, Judge, Live, ReopenClosed
  <2>2. QED
    BY <2>1, <1>1, <1>3, <1>4, <1>6
    DEF LeadIsSound, RoundIsTheNewest, JudgedOnItsWay, Live, Exists, Supplied, Blocks,
       Open, ActiveTaskStatuses, Absent
<1>8. QED
  BY <1>1, <1>2, <1>5, <1>6, <1>7, StepOfALead
  DEF ReopenClosed, SupplyInv, SupplyTypeOK, historyVars, Judge, Idle, Exists, Absent

\* A lead of the pool is dispatched.
LEMMA DispatchKeeps ==
  ASSUME SupplyInv, NEW l \in Leads, Dispatch(l) PROVE SupplyInv'
<1>0. row[l] \in LeadRow BY DEF SupplyInv, SupplyTypeOK
<1> DEFINE r == [row[l] EXCEPT !.status = "DISPATCHED", !.sold = TRUE]
<1>1. /\ r \in LeadRow /\ r.phone = row[l].phone /\ r.deleted = row[l].deleted
       /\ r.status = "DISPATCHED" /\ r.dup = row[l].dup
  BY <1>0 DEF LeadRow, SupplyStatuses, Decisions, Absent
<1>2. SetRow(l, r) /\ Exists(l)
  BY DEF Dispatch, SupplyInv, SupplyTypeOK, Live, Exists, Absent, InReview, SetRow
<1> HIDE DEF r
<1>3. row'[l] = r BY <1>1, <1>2, RowIsSet DEF SupplyInv, SupplyTypeOK
<1>4. UNCHANGED tasks BY DEF Dispatch
<1>5. tasks' \in [Leads -> Seq(Task)] BY <1>4 DEF SupplyInv, SupplyTypeOK
<1>6. \A k \in Leads \ {l} : tasks'[k] = tasks[k] BY <1>4
<1>7. LeadIsSound(l)'
  <2>1. /\ LeadIsSound(l) /\ overtaken' = overtaken /\ judged' = judged /\ Live(l)
        /\ row[l].status = "READY_DISPATCH"
    BY DEF SupplyInv, historyVars, Judge, Live, Dispatch
  <2>2. QED
    BY <2>1, <1>1, <1>3, <1>4, <1>6
    DEF LeadIsSound, RoundIsTheNewest, JudgedOnItsWay, Live, Exists, Supplied, Blocks,
       Open, ActiveTaskStatuses, Absent
<1>8. QED
  BY <1>1, <1>2, <1>5, <1>6, <1>7, StepOfALead
  DEF Dispatch, SupplyInv, SupplyTypeOK, historyVars, Judge, Idle, Exists, Absent

\* It comes back, or is closed.
LEMMA ComeBackKeeps ==
  ASSUME SupplyInv, NEW l \in Leads, ComeBack(l) PROVE SupplyInv'
<1>1. PICK s \in {"READY_DISPATCH", "PUBLIC_POOL", "CLOSED"} :
        SetRow(l, [row[l] EXCEPT !.status = s, !.reverify = FALSE])
  BY DEF ComeBack
<1>2. QED
  <2>0. row[l] \in LeadRow BY DEF SupplyInv, SupplyTypeOK
  <2> DEFINE r == [row[l] EXCEPT !.status = s, !.reverify = FALSE]
  <2>1. /\ r \in LeadRow /\ r.phone = row[l].phone /\ r.deleted = row[l].deleted
         /\ r.status \in {"READY_DISPATCH", "PUBLIC_POOL", "CLOSED"} /\ r.dup = row[l].dup
    BY <2>0 DEF LeadRow, SupplyStatuses, Decisions, Absent
  <2>2. SetRow(l, r) /\ Exists(l)
    BY <1>1 DEF ComeBack, SupplyInv, SupplyTypeOK, Live, Exists, Absent, InReview, SetRow
  <2> HIDE DEF r
  <2>3. row'[l] = r BY <2>1, <2>2, RowIsSet DEF SupplyInv, SupplyTypeOK
  <2>4. UNCHANGED tasks BY <1>1 DEF ComeBack
  <2>5. tasks' \in [Leads -> Seq(Task)] BY <2>4 DEF SupplyInv, SupplyTypeOK
  <2>6. \A k \in Leads \ {l} : tasks'[k] = tasks[k] BY <2>4
  <2>7. LeadIsSound(l)'
    <3>1. /\ LeadIsSound(l) /\ overtaken' = overtaken /\ judged' = judged /\ Live(l)
          /\ row[l].status = "DISPATCHED"
      BY <1>1 DEF SupplyInv, historyVars, Judge, Live, ComeBack
    <3>2. QED
      BY <3>1, <2>1, <2>3, <2>4, <2>6
      DEF LeadIsSound, RoundIsTheNewest, JudgedOnItsWay, Live, Exists, Supplied, Blocks,
         Open, ActiveTaskStatuses, Absent
  <2>8. QED
    BY <1>1, <2>1, <2>2, <2>5, <2>6, <2>7, StepOfALead
    DEF ComeBack, SupplyInv, SupplyTypeOK, historyVars, Judge, Idle, Exists, Absent

\* The active task goes on.
LEMMA StartTaskKeeps ==
  ASSUME SupplyInv, NEW l \in Leads, NEW i \in 1..Len(tasks[l]), StartTask(l, i) PROVE SupplyInv'
<1>0. row[l] \in LeadRow BY DEF SupplyInv, SupplyTypeOK
<1> DEFINE r == row[l]
<1>1. /\ r \in LeadRow /\ r.phone = row[l].phone /\ r.deleted = row[l].deleted
       /\ r.status = row[l].status /\ r.dup = row[l].dup
  BY <1>0 DEF LeadRow, SupplyStatuses, Decisions, Absent
<1>2. SetRow(l, r) /\ Exists(l)
  BY DEF StartTask, SupplyInv, SupplyTypeOK, Live, Exists, Absent, InReview, SetRow
<1> HIDE DEF r
<1>3. row'[l] = r BY <1>1, <1>2, RowIsSet DEF SupplyInv, SupplyTypeOK
<1> DEFINE t == [tasks[l][i] EXCEPT !.status = "IN_PROGRESS"]
<1>4. t \in Task /\ t.status = "IN_PROGRESS"
  BY StatusOfATask
  DEF SupplyInv, SupplyTypeOK, Task, VerificationStatuses, ActiveTaskStatuses, NewTask
<1>t. tasks' = [tasks EXCEPT ![l][i] = t]
  BY DEF StartTask, SetTask
<1> HIDE DEF t
<1>5. tasks' \in [Leads -> Seq(Task)]
  BY <1>4, <1>t, TaskIsSet DEF SupplyInv, SupplyTypeOK
<1>6. /\ \A k \in Leads \ {l} : tasks'[k] = tasks[k]
      /\ Len(tasks'[l]) = Len(tasks[l]) /\ Len(tasks[l]) \in Nat
      /\ i \in 1..Len(tasks[l]) /\ tasks'[l][i] = t
      /\ \A j \in 1..Len(tasks[l]) : j # i => tasks'[l][j] = tasks[l][j]
  BY <1>4, <1>t, TaskIsSet DEF SupplyInv, SupplyTypeOK
<1>7. LeadIsSound(l)'
  <2>1. /\ LeadIsSound(l) /\ overtaken' = overtaken /\ judged' = judged /\ Live(l)
        /\ tasks[l][i].status = "ASSIGNED"
    BY DEF SupplyInv, historyVars, Judge, Live, StartTask
  <2>2. SUFFICES ASSUME l \notin overtaken
           PROVE  /\ row[l].phone = "none" => row'[l].status \in Absent \cup {"DRAFT"}
                  /\ RoundIsTheNewest(l)'
                  /\ Supplied(l) => JudgedOnItsWay(l)'
    BY <2>1, <1>1, <1>3 DEF LeadIsSound, Supplied
  <2>3. row[l].phone = "none" => row'[l].status \in Absent \cup {"DRAFT"}
    BY <2>1, <2>2, <1>1, <1>3 DEF LeadIsSound, Absent
  <2>4. RoundIsTheNewest(l) /\ (Supplied(l) => JudgedOnItsWay(l))
    BY <2>1, <2>2
    DEF LeadIsSound
  <2>5. RoundIsTheNewest(l)'
    <3>1. Len(tasks[l]) > 0 /\ i = Len(tasks[l])
      BY <2>1, <2>4, <1>6 DEF RoundIsTheNewest, Open, ActiveTaskStatuses
    <3>2. \A j \in 1..Len(tasks'[l]) : tasks'[l][j].status \in Open => j = i
      BY <2>1, <2>4, <1>6, <3>1 DEF RoundIsTheNewest
    <3>3. QED
      BY <3>1, <3>2, <2>1, <2>4, <1>1, <1>3, <1>4, <1>6
      DEF RoundIsTheNewest, Open, ActiveTaskStatuses
  <2>6. Supplied(l) => JudgedOnItsWay(l)'
    BY <2>1, <2>4, <1>1, <1>3, <1>4, <1>6
    DEF RoundIsTheNewest, JudgedOnItsWay, Blocks, Open, ActiveTaskStatuses
  <2>7. QED BY <2>3, <2>5, <2>6
<1>8. QED
  BY <1>1, <1>2, <1>5, <1>6, <1>7, StepOfALead
  DEF StartTask, SupplyInv, SupplyTypeOK, historyVars, Judge, Idle, Exists, Absent

\* The active task becomes the result.
LEMMA SubmitVerificationKeeps ==
  ASSUME SupplyInv, NEW l \in Leads, NEW i \in 1..Len(tasks[l]), SubmitVerification(l, i) PROVE SupplyInv'
<1>1. PICK passed \in BOOLEAN, missed \in BOOLEAN : tasks' = [tasks EXCEPT
        ![l][i] = [status |-> "SUBMITTED", passed |-> passed, missed |-> missed]]
  BY DEF SubmitVerification
<1>2. QED
  <2>0. row[l] \in LeadRow BY DEF SupplyInv, SupplyTypeOK
  <2> DEFINE r == [row[l] EXCEPT !.status = "PENDING_OPERATION_DISPOSITION"]
  <2>1. /\ r \in LeadRow /\ r.phone = row[l].phone /\ r.deleted = row[l].deleted
         /\ r.status = "PENDING_OPERATION_DISPOSITION" /\ r.dup = row[l].dup
    BY <2>0 DEF LeadRow, SupplyStatuses, Decisions, Absent
  <2>2. SetRow(l, r) /\ Exists(l)
    BY <1>1
    DEF SubmitVerification, SupplyInv, SupplyTypeOK, Live, Exists, Absent, InReview,
       SetRow
  <2> HIDE DEF r
  <2>3. row'[l] = r BY <2>1, <2>2, RowIsSet DEF SupplyInv, SupplyTypeOK
  <2> DEFINE t == [status |-> "SUBMITTED", passed |-> passed, missed |-> missed]
  <2>4. t \in Task /\ t.status = "SUBMITTED"
    BY StatusOfATask
    DEF SupplyInv, SupplyTypeOK, Task, VerificationStatuses, ActiveTaskStatuses, NewTask
  <2>t. tasks' = [tasks EXCEPT ![l][i] = t]
    BY <1>1 DEF SubmitVerification, SetTask
  <2> HIDE DEF t
  <2>5. tasks' \in [Leads -> Seq(Task)]
    BY <1>1, <2>4, <2>t, TaskIsSet DEF SupplyInv, SupplyTypeOK
  <2>6. /\ \A k \in Leads \ {l} : tasks'[k] = tasks[k]
        /\ Len(tasks'[l]) = Len(tasks[l]) /\ Len(tasks[l]) \in Nat
        /\ i \in 1..Len(tasks[l]) /\ tasks'[l][i] = t
        /\ \A j \in 1..Len(tasks[l]) : j # i => tasks'[l][j] = tasks[l][j]
    BY <1>1, <2>4, <2>t, TaskIsSet DEF SupplyInv, SupplyTypeOK
  <2>7. LeadIsSound(l)'
    <3>1. /\ LeadIsSound(l) /\ overtaken' = overtaken /\ judged' = judged /\ Live(l)
          /\ tasks[l][i].status = "IN_PROGRESS"
           /\ row[l].status = "PENDING_TELESALES_VERIFY"
      BY <1>1 DEF SupplyInv, historyVars, Judge, Live, SubmitVerification
    <3>2. SUFFICES ASSUME l \notin overtaken
             PROVE  /\ row[l].phone = "none" => row'[l].status \in Absent \cup {"DRAFT"}
                    /\ RoundIsTheNewest(l)'
                    /\ Supplied(l) => JudgedOnItsWay(l)'
      BY <3>1, <2>1, <2>3 DEF LeadIsSound, Supplied
    <3>3. row[l].phone = "none" => row'[l].status \in Absent \cup {"DRAFT"}
      BY <3>1, <3>2, <2>1, <2>3 DEF LeadIsSound, Absent
    <3>4. RoundIsTheNewest(l) /\ (Supplied(l) => JudgedOnItsWay(l))
      BY <3>1, <3>2
      DEF LeadIsSound
    <3>5. RoundIsTheNewest(l)'
      <4>1. Len(tasks[l]) > 0 /\ i = Len(tasks[l])
        BY <3>1, <3>4, <2>6 DEF RoundIsTheNewest, Open, ActiveTaskStatuses
      <4>2. \A j \in 1..Len(tasks'[l]) : tasks'[l][j].status \in Open => j = i
        BY <3>1, <3>4, <2>6, <4>1 DEF RoundIsTheNewest
      <4>3. QED
        BY <4>1, <4>2, <3>1, <3>4, <2>1, <2>3, <2>4, <2>6
        DEF RoundIsTheNewest, Open, ActiveTaskStatuses
    <3>6. Supplied(l) => JudgedOnItsWay(l)'
      BY <3>1, <3>4, <2>1, <2>3, <2>4, <2>6
      DEF RoundIsTheNewest, JudgedOnItsWay, Blocks, Open, ActiveTaskStatuses
    <3>7. QED BY <3>3, <3>5, <3>6
  <2>8. QED
    BY <1>1, <2>1, <2>2, <2>5, <2>6, <2>7, StepOfALead
    DEF SubmitVerification, SupplyInv, SupplyTypeOK, historyVars, Judge, Idle, Exists,
       Absent

\* The result is released with the decision.
LEMMA DisposeKeeps ==
  ASSUME SupplyInv, NEW l \in Leads, NEW i \in 1..Len(tasks[l]), Dispose(l, i) PROVE SupplyInv'
<1>1. CASE \E pool \in PoolsOf(l) :
          SetRow(l, [[row[l] EXCEPT !.approved = FALSE,
                           !.reverify = FALSE] EXCEPT !.status = pool, !.approved = TRUE])
  <2>1. PICK pool \in PoolsOf(l) :
          SetRow(l, [[row[l] EXCEPT !.approved = FALSE,
                           !.reverify = FALSE] EXCEPT !.status = pool, !.approved = TRUE])
    BY <1>1
  <2>2. QED
    <3>0. row[l] \in LeadRow BY DEF SupplyInv, SupplyTypeOK
    <3> DEFINE r == [[row[l] EXCEPT !.approved = FALSE,
                           !.reverify = FALSE] EXCEPT !.status = pool, !.approved = TRUE]
    <3>1. /\ r \in LeadRow /\ r.phone = row[l].phone /\ r.deleted = row[l].deleted
           /\ r.status \in {"READY_DISPATCH", "PUBLIC_POOL"} /\ r.dup = row[l].dup
      BY <3>0 DEF LeadRow, SupplyStatuses, Decisions, Absent, PoolsOf
    <3>2. SetRow(l, r) /\ Exists(l)
      BY <2>1 DEF Dispose, SupplyInv, SupplyTypeOK, Live, Exists, Absent, InReview, SetRow
    <3> HIDE DEF r
    <3>3. row'[l] = r BY <3>1, <3>2, RowIsSet DEF SupplyInv, SupplyTypeOK
    <3> DEFINE t == [tasks[l][i] EXCEPT !.status = "RELEASED"]
    <3>4. t \in Task /\ t.status = "RELEASED"
      BY StatusOfATask
      DEF SupplyInv, SupplyTypeOK, Task, VerificationStatuses, ActiveTaskStatuses,
         NewTask
    <3>t. tasks' = [tasks EXCEPT ![l][i] = t]
      BY <2>1 DEF Dispose, SetTask
    <3> HIDE DEF t
    <3>5. tasks' \in [Leads -> Seq(Task)]
      BY <2>1, <3>4, <3>t, TaskIsSet DEF SupplyInv, SupplyTypeOK
    <3>6. /\ \A k \in Leads \ {l} : tasks'[k] = tasks[k]
          /\ Len(tasks'[l]) = Len(tasks[l]) /\ Len(tasks[l]) \in Nat
          /\ i \in 1..Len(tasks[l]) /\ tasks'[l][i] = t
          /\ \A j \in 1..Len(tasks[l]) : j # i => tasks'[l][j] = tasks[l][j]
      BY <2>1, <3>4, <3>t, TaskIsSet DEF SupplyInv, SupplyTypeOK
    <3>7. LeadIsSound(l)'
      <4>1. /\ LeadIsSound(l) /\ overtaken' = overtaken /\ judged' = judged
            /\ Live(l) /\ row[l].status = "PENDING_OPERATION_DISPOSITION"
            /\ tasks[l][i].status = "SUBMITTED"
        BY <2>1 DEF SupplyInv, historyVars, Judge, Live, Dispose
      <4>2. SUFFICES ASSUME l \notin overtaken
               PROVE  /\ row[l].phone = "none" => row'[l].status \in Absent \cup {"DRAFT"}
                      /\ RoundIsTheNewest(l)'
                      /\ Supplied(l) => JudgedOnItsWay(l)'
        BY <4>1, <3>1, <3>3 DEF LeadIsSound, Supplied
      <4>3. row[l].phone = "none" => row'[l].status \in Absent \cup {"DRAFT"}
        BY <4>1, <4>2, <3>1, <3>3 DEF LeadIsSound, Absent
      <4>4. RoundIsTheNewest(l) /\ (Supplied(l) => JudgedOnItsWay(l))
        BY <4>1, <4>2
        DEF LeadIsSound
      <4>5. RoundIsTheNewest(l)'
        <5>1. Len(tasks[l]) > 0 /\ i = Len(tasks[l])
          BY <4>1, <4>4, <3>6 DEF RoundIsTheNewest, Open, ActiveTaskStatuses
        <5>2. \A j \in 1..Len(tasks'[l]) : tasks'[l][j].status \in Open => j = i
          BY <4>1, <4>4, <3>6, <5>1 DEF RoundIsTheNewest
        <5>3. QED
          BY <5>1, <5>2, <4>1, <4>4, <3>1, <3>3, <3>4, <3>6
          DEF RoundIsTheNewest, Open, ActiveTaskStatuses
      <4>6. Supplied(l) => JudgedOnItsWay(l)'
        BY <4>1, <4>4, <3>1, <3>3, <3>4, <3>6
        DEF RoundIsTheNewest, JudgedOnItsWay, Blocks, Open, ActiveTaskStatuses
      <4>7. QED BY <4>3, <4>5, <4>6
    <3>8. QED
      BY <2>1, <3>1, <3>2, <3>5, <3>6, <3>7, StepOfALead
      DEF Dispose, SupplyInv, SupplyTypeOK, historyVars, Judge, Idle, Exists, Absent
<1>2. CASE \E s \in {"DRAFT", "DUPLICATE", IF Supplied(l) THEN "INVALID" ELSE "CLOSED"} :
             SetRow(l, [[row[l] EXCEPT !.approved = FALSE, !.reverify = FALSE] EXCEPT !.status = s])
  <2>1. PICK s \in {"DRAFT", "DUPLICATE", "INVALID", "CLOSED"} :
          SetRow(l, [[row[l] EXCEPT !.approved = FALSE, !.reverify = FALSE] EXCEPT !.status = s])
          /\ (s = "CLOSED" => ~Supplied(l))
    BY <1>2
  <2>2. QED
    <3>0. row[l] \in LeadRow BY DEF SupplyInv, SupplyTypeOK
    <3> DEFINE r == [[row[l] EXCEPT !.approved = FALSE, !.reverify = FALSE] EXCEPT !.status = s]
    <3>1. /\ r \in LeadRow /\ r.phone = row[l].phone /\ r.deleted = row[l].deleted
           /\ r.status = s /\ r.dup = row[l].dup
      BY <3>0 DEF LeadRow, SupplyStatuses, Decisions, Absent
    <3>2. SetRow(l, r) /\ Exists(l)
      BY <2>1 DEF Dispose, SupplyInv, SupplyTypeOK, Live, Exists, Absent, InReview, SetRow
    <3> HIDE DEF r
    <3>3. row'[l] = r BY <3>1, <3>2, RowIsSet DEF SupplyInv, SupplyTypeOK
    <3> DEFINE t == [tasks[l][i] EXCEPT !.status = "RELEASED"]
    <3>4. t \in Task /\ t.status = "RELEASED"
      BY StatusOfATask
      DEF SupplyInv, SupplyTypeOK, Task, VerificationStatuses, ActiveTaskStatuses,
         NewTask
    <3>t. tasks' = [tasks EXCEPT ![l][i] = t]
      BY <2>1 DEF Dispose, SetTask
    <3> HIDE DEF t
    <3>5. tasks' \in [Leads -> Seq(Task)]
      BY <2>1, <3>4, <3>t, TaskIsSet DEF SupplyInv, SupplyTypeOK
    <3>6. /\ \A k \in Leads \ {l} : tasks'[k] = tasks[k]
          /\ Len(tasks'[l]) = Len(tasks[l]) /\ Len(tasks[l]) \in Nat
          /\ i \in 1..Len(tasks[l]) /\ tasks'[l][i] = t
          /\ \A j \in 1..Len(tasks[l]) : j # i => tasks'[l][j] = tasks[l][j]
      BY <2>1, <3>4, <3>t, TaskIsSet DEF SupplyInv, SupplyTypeOK
    <3>7. LeadIsSound(l)'
      <4>1. /\ LeadIsSound(l) /\ overtaken' = overtaken /\ judged' = judged
            /\ Live(l) /\ row[l].status = "PENDING_OPERATION_DISPOSITION"
            /\ tasks[l][i].status = "SUBMITTED"
            /\ (s = "CLOSED" => ~Supplied(l))
        BY <2>1 DEF SupplyInv, historyVars, Judge, Live, Dispose
      <4>2. SUFFICES ASSUME l \notin overtaken
               PROVE  /\ row[l].phone = "none" => row'[l].status \in Absent \cup {"DRAFT"}
                      /\ RoundIsTheNewest(l)'
                      /\ Supplied(l) => JudgedOnItsWay(l)'
        BY <4>1, <3>1, <3>3 DEF LeadIsSound, Supplied
      <4>3. row[l].phone = "none" => row'[l].status \in Absent \cup {"DRAFT"}
        BY <4>1, <4>2, <3>1, <3>3 DEF LeadIsSound, Absent
      <4>4. RoundIsTheNewest(l) /\ (Supplied(l) => JudgedOnItsWay(l))
        BY <4>1, <4>2
        DEF LeadIsSound
      <4>5. RoundIsTheNewest(l)'
        <5>1. Len(tasks[l]) > 0 /\ i = Len(tasks[l])
          BY <4>1, <4>4, <3>6 DEF RoundIsTheNewest, Open, ActiveTaskStatuses
        <5>2. \A j \in 1..Len(tasks'[l]) : tasks'[l][j].status \in Open => j = i
          BY <4>1, <4>4, <3>6, <5>1 DEF RoundIsTheNewest
        <5>3. QED
          BY <5>1, <5>2, <4>1, <4>4, <3>1, <3>3, <3>4, <3>6
          DEF RoundIsTheNewest, Open, ActiveTaskStatuses
      <4>6. Supplied(l) => JudgedOnItsWay(l)'
        BY <4>1, <4>4, <3>1, <3>3, <3>4, <3>6
        DEF RoundIsTheNewest, JudgedOnItsWay, Blocks, Open, ActiveTaskStatuses
      <4>7. QED BY <4>3, <4>5, <4>6
    <3>8. QED
      BY <2>1, <3>1, <3>2, <3>5, <3>6, <3>7, StepOfALead
      DEF Dispose, SupplyInv, SupplyTypeOK, historyVars, Judge, Idle, Exists, Absent
<1>3. QED BY <1>1, <1>2, Zenon DEF Dispose

\* A task that is handed over, or a new one, for a lead without a decision that blocks.
LEMMA AssignVerificationKeeps ==
  ASSUME SupplyInv, NEW l \in Leads, AssignVerification(l) PROVE SupplyInv'
<1>1. CASE \E i \in Active(l) :
          tasks' = [tasks EXCEPT ![l][i] = NewTask("ASSIGNED")] /\ UNCHANGED row
  <2>1. PICK i \in Active(l) :
          tasks' = [tasks EXCEPT ![l][i] = NewTask("ASSIGNED")] /\ UNCHANGED row
    BY <1>1
  <2>2. i \in 1..Len(tasks[l]) /\ tasks[l][i].status \in ActiveTaskStatuses
    BY <2>1, LenProperties DEF Active, SupplyInv, SupplyTypeOK
  <2>3. QED
    <3>0. row[l] \in LeadRow BY DEF SupplyInv, SupplyTypeOK
    <3> DEFINE r == row[l]
    <3>1. /\ r \in LeadRow /\ r.phone = row[l].phone /\ r.deleted = row[l].deleted
           /\ r.status = row[l].status /\ r.dup = row[l].dup
      BY <3>0 DEF LeadRow, SupplyStatuses, Decisions, Absent
    <3>2. SetRow(l, r) /\ Exists(l)
      BY <2>1, <2>2
      DEF AssignVerification, MayVerify, SupplyInv, SupplyTypeOK, Live, Exists, Absent,
         InReview, SetRow
    <3> HIDE DEF r
    <3>3. row'[l] = r BY <3>1, <3>2, RowIsSet DEF SupplyInv, SupplyTypeOK
    <3> DEFINE t == NewTask("ASSIGNED")
    <3>4. t \in Task /\ t.status = "ASSIGNED"
      BY StatusOfATask
      DEF SupplyInv, SupplyTypeOK, Task, VerificationStatuses, ActiveTaskStatuses,
         NewTask
    <3>t. tasks' = [tasks EXCEPT ![l][i] = t]
      BY <2>1, <2>2 DEF AssignVerification, MayVerify, SetTask
    <3> HIDE DEF t
    <3>5. tasks' \in [Leads -> Seq(Task)]
      BY <2>1, <2>2, <3>4, <3>t, TaskIsSet DEF SupplyInv, SupplyTypeOK
    <3>6. /\ \A k \in Leads \ {l} : tasks'[k] = tasks[k]
          /\ Len(tasks'[l]) = Len(tasks[l]) /\ Len(tasks[l]) \in Nat
          /\ i \in 1..Len(tasks[l]) /\ tasks'[l][i] = t
          /\ \A j \in 1..Len(tasks[l]) : j # i => tasks'[l][j] = tasks[l][j]
      BY <2>1, <2>2, <3>4, <3>t, TaskIsSet DEF SupplyInv, SupplyTypeOK
    <3>7. LeadIsSound(l)'
      <4>1. /\ LeadIsSound(l) /\ overtaken' = overtaken /\ judged' = judged
            /\ Live(l) /\ tasks[l][i].status \in ActiveTaskStatuses
               /\ row[l].dup \in {"none", "CLEAR"}
        BY <2>1, <2>2 DEF SupplyInv, historyVars, Judge, Live, AssignVerification, MayVerify
      <4>2. SUFFICES ASSUME l \notin overtaken
               PROVE  /\ row[l].phone = "none" => row'[l].status \in Absent \cup {"DRAFT"}
                      /\ RoundIsTheNewest(l)'
                      /\ Supplied(l) => JudgedOnItsWay(l)'
        BY <4>1, <3>1, <3>3 DEF LeadIsSound, Supplied
      <4>3. row[l].phone = "none" => row'[l].status \in Absent \cup {"DRAFT"}
        BY <4>1, <4>2, <3>1, <3>3 DEF LeadIsSound, Absent
      <4>4. RoundIsTheNewest(l) /\ (Supplied(l) => JudgedOnItsWay(l))
        BY <4>1, <4>2
        DEF LeadIsSound
      <4>5. RoundIsTheNewest(l)'
        <5>1. Len(tasks[l]) > 0 /\ i = Len(tasks[l])
          BY <4>1, <4>4, <3>6 DEF RoundIsTheNewest, Open, ActiveTaskStatuses
        <5>2. \A j \in 1..Len(tasks'[l]) : tasks'[l][j].status \in Open => j = i
          BY <4>1, <4>4, <3>6, <5>1 DEF RoundIsTheNewest
        <5>3. QED
          BY <5>1, <5>2, <4>1, <4>4, <3>1, <3>3, <3>4, <3>6
          DEF RoundIsTheNewest, Open, ActiveTaskStatuses
      <4>6. Supplied(l) => JudgedOnItsWay(l)'
        BY <4>1, <4>4, <3>1, <3>3, <3>4, <3>6
        DEF RoundIsTheNewest, JudgedOnItsWay, Blocks, Open, ActiveTaskStatuses
      <4>7. QED BY <4>3, <4>5, <4>6
    <3>8. QED
      BY <2>1, <2>2, <3>1, <3>2, <3>5, <3>6, <3>7, StepOfALead
      DEF AssignVerification, MayVerify, SupplyInv, SupplyTypeOK, historyVars, Judge,
         Idle, Exists, Absent
<1>2. CASE Active(l) = {} /\ AddTask(l, "ASSIGNED")
         /\ SetRow(l, [row[l] EXCEPT !.status = "PENDING_TELESALES_VERIFY", !.reverify = FALSE])
  <2>1. \A j \in 1..Len(tasks[l]) : tasks[l][j].status \notin ActiveTaskStatuses
    BY <1>2, LenProperties DEF Active, SupplyInv, SupplyTypeOK
  <2>2. QED
    <3>0. row[l] \in LeadRow BY DEF SupplyInv, SupplyTypeOK
    <3> DEFINE r == [row[l] EXCEPT !.status = "PENDING_TELESALES_VERIFY", !.reverify = FALSE]
    <3>1. /\ r \in LeadRow /\ r.phone = row[l].phone /\ r.deleted = row[l].deleted
           /\ r.status = "PENDING_TELESALES_VERIFY" /\ r.dup = row[l].dup
      BY <3>0 DEF LeadRow, SupplyStatuses, Decisions, Absent
    <3>2. SetRow(l, r) /\ Exists(l)
      BY <1>2, <2>1
      DEF AssignVerification, MayVerify, SupplyInv, SupplyTypeOK, Live, Exists, Absent,
         InReview, SetRow
    <3> HIDE DEF r
    <3>3. row'[l] = r BY <3>1, <3>2, RowIsSet DEF SupplyInv, SupplyTypeOK
    <3>4. AddTask(l, "ASSIGNED") BY <1>2, <2>1 DEF AssignVerification, MayVerify
    <3>5. tasks' \in [Leads -> Seq(Task)]
      BY <3>4, TaskIsAdded
      DEF SupplyInv, SupplyTypeOK, VerificationStatuses, ActiveTaskStatuses
    <3>6. /\ \A k \in Leads \ {l} : tasks'[k] = tasks[k]
          /\ Len(tasks'[l]) = Len(tasks[l]) + 1 /\ Len(tasks[l]) \in Nat
          /\ tasks'[l][Len(tasks'[l])].status = "ASSIGNED"
          /\ \A j \in 1..Len(tasks[l]) : tasks'[l][j] = tasks[l][j]
      BY <3>4, TaskIsAdded, LenProperties
      DEF SupplyInv, SupplyTypeOK, VerificationStatuses, ActiveTaskStatuses
    <3>7. LeadIsSound(l)'
      <4>1. /\ LeadIsSound(l) /\ overtaken' = overtaken /\ judged' = judged
            /\ Live(l) /\ row[l].dup \in {"none", "CLEAR"} /\ row[l].phone # "none"
               /\ (Supplied(l) => row[l].status # "DRAFT")
               /\ row[l].status # "PENDING_OPERATION_DISPOSITION"
               /\ \A j \in 1..Len(tasks[l]) : tasks[l][j].status \notin ActiveTaskStatuses
        BY <1>2, <2>1 DEF SupplyInv, historyVars, Judge, Live, AssignVerification, MayVerify
      <4>2. SUFFICES ASSUME l \notin overtaken
               PROVE  /\ row[l].phone = "none" => row'[l].status \in Absent \cup {"DRAFT"}
                      /\ RoundIsTheNewest(l)'
                      /\ Supplied(l) => JudgedOnItsWay(l)'
        BY <4>1, <3>1, <3>3 DEF LeadIsSound, Supplied
      <4>3. row[l].phone = "none" => row'[l].status \in Absent \cup {"DRAFT"}
        BY <4>1, <4>2, <3>1, <3>3 DEF LeadIsSound, Absent
      <4>4. RoundIsTheNewest(l) /\ (Supplied(l) => JudgedOnItsWay(l))
        BY <4>1, <4>2
        DEF LeadIsSound
      <4>5. RoundIsTheNewest(l)'
        <5>1. \A j \in 1..Len(tasks[l]) : tasks[l][j].status \notin Open
          BY <4>1, <4>4 DEF RoundIsTheNewest, Open, ActiveTaskStatuses
        <5>2. \A j \in 1..Len(tasks'[l]) : tasks'[l][j].status \in Open => j = Len(tasks'[l])
          BY <3>6, <5>1
        <5>3. QED
          BY <5>1, <5>2, <4>1, <4>4, <3>1, <3>3, <3>4, <3>6
          DEF RoundIsTheNewest, Open, ActiveTaskStatuses
      <4>6. Supplied(l) => JudgedOnItsWay(l)'
        BY <4>1, <4>4, <3>1, <3>3, <3>4, <3>6
        DEF RoundIsTheNewest, JudgedOnItsWay, Blocks, Open, ActiveTaskStatuses
      <4>7. QED BY <4>3, <4>5, <4>6
    <3>8. QED
      BY <1>2, <2>1, <3>1, <3>2, <3>5, <3>6, <3>7, StepOfALead
      DEF AssignVerification, MayVerify, SupplyInv, SupplyTypeOK, historyVars, Judge,
         Idle, Exists, Absent
<1>3. QED BY <1>1, <1>2 DEF AssignVerification

\* A submission: the lead is decided and, for telesales, gets a task.
LEMMA SubmissionKeeps ==
  ASSUME SupplyInv, NEW l \in Leads, NEW read \in LeadRow, NEW o \in Outcomes(l, read),
         read.phone = row[l].phone, read.deleted = row[l].deleted, row[l].phone # "none",
         row[l].status \notin {"PENDING_TELESALES_VERIFY", "PENDING_OPERATION_DISPOSITION"},
         Exists(l), SetRow(l, o), QueuedIf(l, o), Judge(l, row[l].phone),
         UNCHANGED <<overtaken, reentered>>, session' \in [Callers -> Session],
         \A c \in Callers : session'[c] = session[c] \/ session'[c] = Idle
  PROVE  SupplyInv'
<1>1. /\ o \in LeadRow /\ o.phone = row[l].phone /\ o.deleted = row[l].deleted
      /\ o.status \in {"DUPLICATE", "READY_DISPATCH", "PUBLIC_POOL", "PENDING_TELESALES_VERIFY"}
      /\ Blocks(o.dup) <=> o.status = "DUPLICATE"
  BY OutcomesAreRows
<1>2. row'[l] = o BY <1>1, RowIsSet DEF SupplyInv, SupplyTypeOK
<1>3. judged'[l] = row[l].phone /\ judged' \in [Leads -> Phones \cup {"none"}]
      /\ \A k \in Leads \ {l} : judged'[k] = judged[k]
  BY DEF Judge, SupplyInv, SupplyTypeOK, LeadRow
<1>4. /\ tasks' \in [Leads -> Seq(Task)]
      /\ \A k \in Leads \ {l} : tasks'[k] = tasks[k]
      /\ IF o.status = "PENDING_TELESALES_VERIFY"
         THEN /\ Len(tasks'[l]) = Len(tasks[l]) + 1 /\ Len(tasks[l]) \in Nat
              /\ tasks'[l][Len(tasks'[l])].status = "PENDING"
              /\ \A i \in 1..Len(tasks[l]) : tasks'[l][i] = tasks[l][i]
         ELSE tasks'[l] = tasks[l]
  <2>1. CASE o.status = "PENDING_TELESALES_VERIFY"
    <3>1. AddTask(l, "PENDING") BY <2>1 DEF QueuedIf
    <3>2. QED
      BY <2>1, <3>1, TaskIsAdded, LenProperties
      DEF SupplyInv, SupplyTypeOK, VerificationStatuses, ActiveTaskStatuses
  <2>2. CASE o.status # "PENDING_TELESALES_VERIFY"
    BY <2>2 DEF QueuedIf, SupplyInv, SupplyTypeOK
  <2>3. QED BY <2>1, <2>2
<1>5. LeadIsSound(l)'
  <2>1. SUFFICES ASSUME l \notin overtaken, Live(l)
                 PROVE  RoundIsTheNewest(l)' /\ (Supplied(l) => JudgedOnItsWay(l)')
    BY <1>1, <1>2 DEF LeadIsSound, Live, Exists, Supplied
  <2>2. \A i \in 1..Len(tasks[l]) : tasks[l][i].status \notin Open
    BY <2>1 DEF SupplyInv, LeadIsSound, RoundIsTheNewest
  <2>3. RoundIsTheNewest(l)'
    <3>1. CASE o.status = "PENDING_TELESALES_VERIFY"
      <4>1. \A i \in 1..Len(tasks'[l]) : tasks'[l][i].status \in Open => i = Len(tasks'[l])
        BY <1>4, <2>2, <3>1
      <4>2. QED BY <1>2, <1>4, <3>1, <4>1 DEF RoundIsTheNewest, ActiveTaskStatuses
    <3>2. CASE o.status # "PENDING_TELESALES_VERIFY"
      BY <1>1, <1>2, <1>4, <2>2, <3>2 DEF RoundIsTheNewest
    <3>3. QED BY <3>1, <3>2
  <2>4. Supplied(l) => JudgedOnItsWay(l)' BY <1>1, <1>2, <1>3 DEF JudgedOnItsWay
  <2>5. QED BY <2>3, <2>4
<1>6. QED BY <1>1, <1>3, <1>4, <1>5, StepOfALead DEF SupplyInv, SupplyTypeOK, Absent

\* The review submits the locked row.
LEMMA ReviewQualifiedKeeps ==
  ASSUME SupplyInv, NEW l \in Leads, ReviewQualified(l) PROVE SupplyInv'
<1>1. PICK o \in Outcomes(l, row[l]) : SetRow(l, o) /\ QueuedIf(l, o)
  BY DEF ReviewQualified, SubmitLocked
<1>2. row[l] \in LeadRow /\ session \in [Callers -> Session] BY DEF SupplyInv, SupplyTypeOK
<1>3. /\ /\ row[l].status \in {"PENDING_REVIEW", "DUPLICATE"}
      /\ row[l].phone # "none" /\ Exists(l)
      /\ Judge(l, row[l].phone) /\ UNCHANGED <<session, overtaken, reentered>>
  BY DEF ReviewQualified, InReview, SubmitLocked, Live
<1>4. QED BY <1>1, <1>2, <1>3, SubmissionKeeps

\* So does the transfer of a draft.
LEMMA TransferDraftKeeps ==
  ASSUME SupplyInv, NEW l \in Leads, TransferDraft(l) PROVE SupplyInv'
<1>1. PICK o \in Outcomes(l, row[l]) : SetRow(l, o) /\ QueuedIf(l, o)
  BY DEF TransferDraft, SubmitLocked
<1>2. row[l] \in LeadRow /\ session \in [Callers -> Session] BY DEF SupplyInv, SupplyTypeOK
<1>3. /\ row[l].status = "DRAFT" /\ row[l].phone # "none" /\ Exists(l)
      /\ Judge(l, row[l].phone) /\ UNCHANGED <<session, overtaken, reentered>>
  BY DEF TransferDraft, SubmitLocked, Exists, Absent
<1>4. QED BY <1>1, <1>2, <1>3, SubmissionKeeps

\* What was read may have changed since: then the lead is one that was overtaken.
LEMMA SubmitDraftKeeps ==
  ASSUME SupplyInv, NEW c \in Callers, SubmitDraft(c) PROVE SupplyInv'
<1>a. /\ session[c].lead \in Leads /\ session[c].read \in LeadRow
      /\ session[c].read.status = "DRAFT" /\ ~session[c].read.deleted
      /\ session[c].read.phone # "none"
  BY DEF SubmitDraft, SupplyInv, SupplyTypeOK, RequestIsSound, Session, Idle
<1>0. PICK l \in Leads, read \in LeadRow : l = session[c].lead /\ read = session[c].read
  BY <1>a
<1>1. Idle \in Session /\ read.status = "DRAFT" /\ ~read.deleted /\ read.phone # "none"
  BY <1>a, <1>0 DEF Session
<1>2. PICK o \in Outcomes(l, read) : SetRow(l, Merged(row[l], read, o)) /\ QueuedIf(l, o)
  BY <1>0 DEF SubmitDraft
<1>3. /\ Exists(l) /\ Judge(l, read.phone) /\ UNCHANGED reentered
      /\ overtaken' = IF row[l] = read THEN overtaken ELSE overtaken \cup {l}
      /\ session' = [session EXCEPT ![c] = Idle]
  BY <1>0 DEF SubmitDraft
<1>4. /\ session' \in [Callers -> Session]
      /\ \A d \in Callers : session'[d] = session[d] \/ session'[d] = Idle
  BY <1>1, <1>3 DEF SupplyInv, SupplyTypeOK
<1>5. row[l] \in LeadRow BY <1>1 DEF SupplyInv, SupplyTypeOK
<1>6. CASE row[l] = read
  <2>1. o \in LeadRow BY <1>1, OutcomesAreRows
  <2>2. SetRow(l, o) BY <1>1, <1>2, <1>6, <2>1, MergedWithoutChange
  <2>3. QED BY <1>1, <1>2, <1>3, <1>4, <1>6, <2>2, SubmissionKeeps
<1>7. CASE row[l] # read
  <2> DEFINE r == Merged(row[l], read, o)
  <2>1. /\ o \in LeadRow /\ o.phone = read.phone /\ o.deleted = read.deleted
        /\ o.status \in {"DUPLICATE", "READY_DISPATCH", "PUBLIC_POOL", "PENDING_TELESALES_VERIFY"}
    BY <1>1, OutcomesAreRows
  <2>2. /\ r \in LeadRow /\ r.phone = row[l].phone /\ r.deleted = row[l].deleted
        /\ r.status = o.status
    BY <1>1, <1>5, <2>1, MergedIsARow, MergedColumns
  <2> HIDE DEF r
  <2>3. SetRow(l, r) BY <1>2 DEF r
  <2>4. tasks' \in [Leads -> Seq(Task)] /\ \A k \in Leads \ {l} : tasks'[k] = tasks[k]
    BY <1>1, <1>2, TaskIsAdded
    DEF QueuedIf, SupplyInv, SupplyTypeOK, VerificationStatuses, ActiveTaskStatuses
  <2>5. /\ judged' \in [Leads -> Phones \cup {"none"}]
        /\ \A k \in Leads \ {l} : judged'[k] = judged[k]
    BY <1>1, <1>3 DEF Judge, SupplyInv, SupplyTypeOK, LeadRow
  <2>6. LeadIsSound(l)' BY <1>3, <1>7 DEF LeadIsSound
  <2>7. QED
    BY <1>1, <1>3, <1>4, <2>1, <2>2, <2>3, <2>4, <2>5, <2>6, StepOfALead
    DEF SupplyInv, SupplyTypeOK, Absent
<1>8. QED BY <1>6, <1>7

\* The transfer judges the lead once more.
LEMMA TransferSuppliedKeeps ==
  ASSUME SupplyInv, NEW l \in Leads, TransferSupplied(l) PROVE SupplyInv'
<1>1. PICK d \in DecisionsOn(l, row[l].phone) :
        IF Blocks(d) THEN SetRow(l, [row[l] EXCEPT !.dup = d, !.reverify = FALSE])
        ELSE SetRow(l, [row[l] EXCEPT !.dup = d, !.reverify = FALSE, !.approved = TRUE,
                             !.status = "READY_DISPATCH"])
  BY DEF TransferSupplied
<1>2. d \in Decisions BY DEF DecisionsOn, Decisions
<1>j. /\ judged'[l] = row[l].phone /\ judged' \in [Leads -> Phones \cup {"none"}]
      /\ \A k \in Leads \ {l} : judged'[k] = judged[k]
  BY DEF TransferSupplied, Judge, SupplyInv, SupplyTypeOK, LeadRow
<1>s. row[l].status = "PUBLIC_POOL" BY DEF TransferSupplied
<1>3. CASE Blocks(d)
  <2>0. row[l] \in LeadRow BY DEF SupplyInv, SupplyTypeOK
  <2> DEFINE r == [row[l] EXCEPT !.dup = d, !.reverify = FALSE]
  <2>1. /\ r \in LeadRow /\ r.phone = row[l].phone /\ r.deleted = row[l].deleted
         /\ r.status = "PUBLIC_POOL" /\ r.dup = d
    BY <2>0, <1>2, <1>s DEF LeadRow, SupplyStatuses, Decisions, Absent
  <2>2. SetRow(l, r) /\ Exists(l)
    BY <1>1, <1>2, <1>j, <1>3
    DEF TransferSupplied, SupplyInv, SupplyTypeOK, Live, Exists, Absent, InReview,
       SetRow
  <2> HIDE DEF r
  <2>3. row'[l] = r BY <2>1, <2>2, RowIsSet DEF SupplyInv, SupplyTypeOK
  <2>4. UNCHANGED tasks BY <1>1, <1>2, <1>j, <1>3 DEF TransferSupplied
  <2>5. tasks' \in [Leads -> Seq(Task)] BY <2>4 DEF SupplyInv, SupplyTypeOK
  <2>6. \A k \in Leads \ {l} : tasks'[k] = tasks[k] BY <2>4
  <2>7. LeadIsSound(l)'
    <3>1. /\ LeadIsSound(l) /\ judged'[l] = row[l].phone /\ overtaken' = overtaken
          /\ Exists(l) /\ row[l].status = "PUBLIC_POOL"
      BY <1>1, <1>2, <1>j, <1>3 DEF SupplyInv, historyVars, Judge, Live, TransferSupplied
    <3>2. QED
      BY <3>1, <2>1, <2>3, <2>4, <2>6
      DEF LeadIsSound, RoundIsTheNewest, JudgedOnItsWay, Live, Exists, Supplied, Blocks,
         Open, ActiveTaskStatuses, Absent
  <2>8. QED
    BY <1>1, <1>2, <1>j, <1>3, <2>1, <2>2, <2>5, <2>6, <2>7, StepOfALead
    DEF TransferSupplied, SupplyInv, SupplyTypeOK, historyVars, Judge, Idle, Exists,
       Absent
<1>4. CASE ~Blocks(d)
  <2>0. row[l] \in LeadRow BY DEF SupplyInv, SupplyTypeOK
  <2> DEFINE r == [row[l] EXCEPT !.dup = d, !.reverify = FALSE, !.approved = TRUE,
                        !.status = "READY_DISPATCH"]
  <2>1. /\ r \in LeadRow /\ r.phone = row[l].phone /\ r.deleted = row[l].deleted
         /\ r.status = "READY_DISPATCH" /\ r.dup = d
    BY <2>0, <1>2, <1>s DEF LeadRow, SupplyStatuses, Decisions, Absent
  <2>2. SetRow(l, r) /\ Exists(l)
    BY <1>1, <1>2, <1>j, <1>4
    DEF TransferSupplied, SupplyInv, SupplyTypeOK, Live, Exists, Absent, InReview,
       SetRow
  <2> HIDE DEF r
  <2>3. row'[l] = r BY <2>1, <2>2, RowIsSet DEF SupplyInv, SupplyTypeOK
  <2>4. UNCHANGED tasks BY <1>1, <1>2, <1>j, <1>4 DEF TransferSupplied
  <2>5. tasks' \in [Leads -> Seq(Task)] BY <2>4 DEF SupplyInv, SupplyTypeOK
  <2>6. \A k \in Leads \ {l} : tasks'[k] = tasks[k] BY <2>4
  <2>7. LeadIsSound(l)'
    <3>1. /\ LeadIsSound(l) /\ judged'[l] = row[l].phone /\ overtaken' = overtaken
          /\ ~Blocks(d) /\ row[l].status = "PUBLIC_POOL"
      BY <1>1, <1>2, <1>j, <1>4 DEF SupplyInv, historyVars, Judge, Live, TransferSupplied
    <3>2. QED
      BY <3>1, <2>1, <2>3, <2>4, <2>6
      DEF LeadIsSound, RoundIsTheNewest, JudgedOnItsWay, Live, Exists, Supplied, Blocks,
         Open, ActiveTaskStatuses, Absent
  <2>8. QED
    BY <1>1, <1>2, <1>j, <1>4, <2>1, <2>2, <2>5, <2>6, <2>7, StepOfALead
    DEF TransferSupplied, SupplyInv, SupplyTypeOK, historyVars, Judge, Idle, Exists,
       Absent
<1>5. QED BY <1>3, <1>4

\* An override during a round counts as overtaken.
LEMMA OverrideDuplicateKeeps ==
  ASSUME SupplyInv, NEW l \in Leads, OverrideDuplicate(l) PROVE SupplyInv'
<1>1. /\ /\ Live(l) /\ row[l].dup \in Reviewable /\ judged[l] = row[l].phone
      /\ row[l].phone # "none" /\ row[l] \in LeadRow
      /\ overtaken' = (IF Active(l) \cup Submitted(l) = {} THEN overtaken ELSE overtaken \cup {l})
      /\ reentered' = reentered \ {l} /\ UNCHANGED <<tasks, session, judged>>
  BY DEF OverrideDuplicate, Overridable, SupplyInv, SupplyTypeOK
<1>2. ASSUME NEW r \in LeadRow, SetRow(l, r), r.dup = "OVERRIDDEN", r.phone = row[l].phone,
             r.deleted = row[l].deleted,
             r.status \in {"PENDING_REVIEW", "READY_DISPATCH", "PUBLIC_POOL", "DISPATCHED"}
      PROVE  SupplyInv'
  <2>1. row'[l] = r BY <1>2, RowIsSet DEF SupplyInv, SupplyTypeOK
  <2>2. LeadIsSound(l)'
    <3>1. SUFFICES ASSUME l \notin overtaken'
                   PROVE  RoundIsTheNewest(l)' /\ JudgedOnItsWay(l)'
      BY <1>1, <1>2, <2>1 DEF LeadIsSound
    <3>2. Active(l) \cup Submitted(l) = {} BY <1>1, <3>1
    <3>3. \A i \in 1..Len(tasks[l]) : tasks[l][i].status \notin Open
      BY <3>2, LenProperties DEF Active, Submitted, Open, SupplyInv, SupplyTypeOK
    <3>4. RoundIsTheNewest(l)' BY <1>1, <1>2, <2>1, <3>3 DEF RoundIsTheNewest
    <3>5. JudgedOnItsWay(l)' BY <1>1, <1>2, <2>1 DEF JudgedOnItsWay, Blocks
    <3>6. QED BY <3>4, <3>5
  <2>3. QED
    BY <1>1, <1>2, <2>2, StepOfALead DEF SupplyInv, SupplyTypeOK, Live, Absent
<1>3. row[l].status = "DISPATCHED" => SetRow(l, [row[l] EXCEPT !.dup = "OVERRIDDEN"])
  BY DEF OverrideDuplicate
<1>4. row[l].status # "DISPATCHED" => \E s \in {"PENDING_REVIEW", "READY_DISPATCH", "PUBLIC_POOL"} :
        SetRow(l, [[row[l] EXCEPT !.dup = "OVERRIDDEN", !.reverify = FALSE] EXCEPT !.status = s])
  BY DEF OverrideDuplicate, PoolsOf
<1>5. CASE row[l].status = "DISPATCHED"
  <2> DEFINE r == [row[l] EXCEPT !.dup = "OVERRIDDEN"]
  <2>1. r \in LeadRow /\ r.dup = "OVERRIDDEN" /\ r.phone = row[l].phone
        /\ r.deleted = row[l].deleted /\ r.status = "DISPATCHED"
    BY <1>1, <1>5 DEF LeadRow
  <2> HIDE DEF r
  <2>2. SetRow(l, r) BY <1>3, <1>5 DEF r
  <2>3. QED BY <1>1, <1>2, <2>1, <2>2
<1>6. CASE row[l].status # "DISPATCHED"
  <2>1. PICK s \in {"PENDING_REVIEW", "READY_DISPATCH", "PUBLIC_POOL"} :
          SetRow(l, [[row[l] EXCEPT !.dup = "OVERRIDDEN", !.reverify = FALSE] EXCEPT !.status = s])
    BY <1>4, <1>6
  <2> DEFINE r == [[row[l] EXCEPT !.dup = "OVERRIDDEN", !.reverify = FALSE] EXCEPT !.status = s]
  <2>2. r \in LeadRow /\ r.dup = "OVERRIDDEN" /\ r.phone = row[l].phone
        /\ r.deleted = row[l].deleted /\ r.status = s
    BY <1>1 DEF LeadRow, SupplyStatuses
  <2> HIDE DEF r
  <2>3. SetRow(l, r) BY <2>1 DEF r
  <2>4. QED BY <1>1, <1>2, <2>2, <2>3
<1>7. QED BY <1>5, <1>6

\* The submitted round is kept as a released one.
LEMMA RequeueKeeps ==
  ASSUME SupplyInv, NEW l \in Leads, Requeue(l) PROVE SupplyInv'
<1> DEFINE n == Len(tasks[l])
           s == [tasks[l] EXCEPT ![n] = [tasks[l][n] EXCEPT !.status = "RELEASED"]]
           r == [row[l] EXCEPT !.status = "PENDING_TELESALES_VERIFY", !.approved = FALSE,
                      !.reverify = TRUE]
<1>1. /\ row[l] \in LeadRow /\ tasks \in [Leads -> Seq(Task)] /\ tasks[l] # <<>>
      /\ row[l].status \in {"PENDING_OPERATION_DISPOSITION", "CLOSED", "INVALID"}
      /\ SetRow(l, r) /\ Live(l) /\ UNCHANGED <<session, judged, overtaken>>
      /\ reentered' = reentered \cup {l}
  BY DEF Requeue, Requeueable, Unreached, SupplyInv, SupplyTypeOK
<1>2. n \in Nat \ {0} /\ DOMAIN tasks[l] = 1..n BY <1>1, EmptySeq, LenProperties
<1>3. [tasks[l][n] EXCEPT !.status = "RELEASED"] \in Task
      /\ [tasks[l][n] EXCEPT !.status = "RELEASED"].status = "RELEASED"
  <2>1. n \in DOMAIN tasks[l] /\ "RELEASED" \in VerificationStatuses
    BY <1>2 DEF VerificationStatuses
  <2>2. QED BY <1>1, <2>1, StatusOfATask
<1>4. /\ s \in Seq(Task) /\ Len(s) = n
      /\ \A i \in 1..n :
           s[i] = IF i = n THEN [tasks[l][n] EXCEPT !.status = "RELEASED"] ELSE tasks[l][i]
  BY <1>1, <1>2, <1>3, ExceptSeq
<1>5. tasks' = [tasks EXCEPT ![l] = Append(s, NewTask("PENDING"))]
  BY <1>1 DEF Requeue, Newest
<1>6. /\ r \in LeadRow /\ r.phone = row[l].phone /\ r.deleted = row[l].deleted
      /\ r.status = "PENDING_TELESALES_VERIFY" /\ r.dup = row[l].dup
  BY <1>1 DEF LeadRow, SupplyStatuses
<1>7. row'[l] = r BY <1>1, <1>6, RowIsSet DEF SupplyInv, SupplyTypeOK
<1>8. \A i \in 1..n : s[i].status = IF i = n THEN "RELEASED" ELSE tasks[l][i].status
  BY <1>3, <1>4
<1> HIDE DEF r, s
<1>9. /\ tasks' \in [Leads -> Seq(Task)]
      /\ \A k \in Leads \ {l} : tasks'[k] = tasks[k]
      /\ Len(tasks'[l]) = n + 1
      /\ tasks'[l][Len(tasks'[l])].status = "PENDING"
      /\ \A i \in 1..n : tasks'[l][i] = s[i]
  <2>1. PICK q \in Seq(Task) : q = s BY <1>4
  <2>2. tasks' = [tasks EXCEPT ![l] = Append(q, NewTask("PENDING"))] BY <1>5, <2>1
  <2>3. /\ tasks' \in [Leads -> Seq(Task)]
        /\ \A k \in Leads \ {l} : tasks'[k] = tasks[k]
        /\ Len(tasks'[l]) = Len(q) + 1
        /\ tasks'[l][Len(tasks'[l])].status = "PENDING"
        /\ \A i \in 1..Len(q) : tasks'[l][i] = q[i]
    BY <1>1, <2>2, RoundIsAdded
  <2>4. Len(q) = n BY <1>4, <2>1
  <2>5. QED BY <2>1, <2>3, <2>4
<1>10. LeadIsSound(l)'
  <2>1. SUFFICES ASSUME l \notin overtaken
                 PROVE  /\ row[l].phone # "none" /\ RoundIsTheNewest(l)'
                        /\ (Supplied(l) => JudgedOnItsWay(l)')
    BY <1>1, <1>6, <1>7 DEF LeadIsSound, Supplied
  <2>2. RoundIsTheNewest(l) /\ (Supplied(l) => JudgedOnItsWay(l))
    BY <1>1, <2>1 DEF SupplyInv, LeadIsSound
  <2>3. row[l].phone # "none" BY <1>1, <2>1 DEF SupplyInv, LeadIsSound, Absent
  <2>4. \A i \in 1..Len(tasks'[l]) : tasks'[l][i].status \in Open => i = Len(tasks'[l])
    BY <1>2, <1>8, <1>9, <2>2 DEF RoundIsTheNewest, Open, ActiveTaskStatuses
  <2>5. RoundIsTheNewest(l)'
    <3>1. row'[l].status = "PENDING_TELESALES_VERIFY" BY <1>6, <1>7
    <3>2. Len(tasks'[l]) > 0 /\ tasks'[l][Len(tasks'[l])].status \in ActiveTaskStatuses
      BY <1>2, <1>9 DEF ActiveTaskStatuses
    <3>3. QED BY <2>4, <3>1, <3>2, Zenon DEF RoundIsTheNewest
  <2>6. Supplied(l) => JudgedOnItsWay(l)'
    BY <1>1, <1>6, <1>7, <1>9, <2>2 DEF JudgedOnItsWay
  <2>7. QED BY <2>3, <2>5, <2>6
<1>11. QED
  BY <1>1, <1>6, <1>9, <1>10, StepOfALead DEF SupplyInv, SupplyTypeOK, Live, Absent

\* A deleted lead keeps its status, and its open tasks are cancelled.
LEMMA DeleteLeadKeeps ==
  ASSUME SupplyInv, NEW l \in Leads, DeleteLead(l) PROVE SupplyInv'
<1> DEFINE r == [row[l] EXCEPT !.deleted = TRUE]
<1>1. /\ row[l] \in LeadRow /\ tasks \in [Leads -> Seq(Task)] /\ tasks[l] \in Seq(Task)
      /\ SetRow(l, r) /\ Live(l) /\ UNCHANGED <<session, historyVars>>
  BY DEF DeleteLead, SupplyInv, SupplyTypeOK
<1>2. /\ r \in LeadRow /\ r.phone = row[l].phone /\ r.deleted /\ r.status = row[l].status
  BY <1>1 DEF LeadRow
<1>3. row'[l] = r BY <1>1, <1>2, RowIsSet DEF SupplyInv, SupplyTypeOK
<1> HIDE DEF r
<1>4. PICK f : f = Closed(tasks[l], "CANCELLED") OBVIOUS
<1>5. f \in Seq(Task) BY <1>1, <1>4, TasksAreClosed DEF VerificationStatuses
<1>6. tasks' = [tasks EXCEPT ![l] = f] BY <1>4 DEF DeleteLead, Closed, Open
<1>7. tasks' \in [Leads -> Seq(Task)] /\ \A k \in Leads \ {l} : tasks'[k] = tasks[k]
  BY <1>1, <1>5, <1>6
<1>8. LeadIsSound(l)' BY <1>1, <1>2, <1>3 DEF SupplyInv, LeadIsSound, Live, historyVars
<1>9. QED
  BY <1>1, <1>2, <1>7, <1>8, StepOfALead
  DEF SupplyInv, SupplyTypeOK, Live, Exists, historyVars

\* What was verified is released, and a new round is added.
LEMMA RestartKeeps ==
  ASSUME SupplyInv, NEW l \in Leads, NEW r \in LeadRow, RestartVerification(l, r),
         r.phone = row[l].phone, ~r.deleted, Live(l), row[l].status # "DRAFT",
         UNCHANGED <<session, overtaken, reentered>>
  PROVE  SupplyInv'
<1> DEFINE o == [r EXCEPT !.status = "PENDING_TELESALES_VERIFY", !.approved = FALSE,
                  !.reverify = FALSE]
<1>1. /\ o \in LeadRow /\ o.phone = row[l].phone /\ ~o.deleted
      /\ o.status = "PENDING_TELESALES_VERIFY" /\ o.dup = r.dup
  BY DEF LeadRow, SupplyStatuses
<1>2. /\ SetRow(l, o) /\ UNCHANGED judged /\ tasks \in [Leads -> Seq(Task)] /\ Exists(l)
      /\ tasks' = [tasks EXCEPT ![l] = Append(Released(l), NewTask("PENDING"))]
  BY DEF RestartVerification, SupplyInv, SupplyTypeOK, Live
<1> HIDE DEF o
<1>3. row'[l] = o BY <1>1, <1>2, RowIsSet DEF SupplyInv, SupplyTypeOK
<1>4. PICK f : f = Closed(tasks[l], "RELEASED") OBVIOUS
<1>5. /\ f \in Seq(Task) /\ Len(f) = Len(tasks[l])
      /\ \A i \in 1..Len(tasks[l]) : f[i].status =
           IF tasks[l][i].status \in Open THEN "RELEASED" ELSE tasks[l][i].status
  BY <1>2, <1>4, TasksAreClosed DEF VerificationStatuses
<1>6. tasks' = [tasks EXCEPT ![l] = Append(f, NewTask("PENDING"))]
  BY <1>2, <1>4 DEF Released, Closed, Open
<1>7. /\ tasks' \in [Leads -> Seq(Task)]
      /\ \A k \in Leads \ {l} : tasks'[k] = tasks[k]
      /\ Len(tasks'[l]) = Len(f) + 1 /\ Len(f) \in Nat
      /\ tasks'[l][Len(tasks'[l])].status = "PENDING"
      /\ \A i \in 1..Len(f) : tasks'[l][i] = f[i]
  BY <1>2, <1>5, <1>6, RoundIsAdded
<1>8. \A i \in 1..Len(f) : f[i].status \notin Open
  BY <1>5 DEF Open, ActiveTaskStatuses
<1>9. LeadIsSound(l)'
  <2>1. SUFFICES ASSUME l \notin overtaken
                 PROVE  /\ row[l].phone # "none" /\ RoundIsTheNewest(l)'
                        /\ (Supplied(l) => JudgedOnItsWay(l)')
    BY <1>1, <1>3 DEF LeadIsSound, Supplied
  <2>2. /\ row[l].phone = "none" => row[l].status \in Absent \cup {"DRAFT"}
        /\ Supplied(l) => JudgedOnItsWay(l)
    BY <2>1 DEF SupplyInv, LeadIsSound
  <2>3. row[l].phone # "none" BY <2>2 DEF Live, Exists
  <2>4. \A i \in 1..Len(tasks'[l]) : tasks'[l][i].status \in Open => i = Len(tasks'[l])
    BY <1>7, <1>8
  <2>5. RoundIsTheNewest(l)'
    BY <1>1, <1>3, <1>7, <2>4
    DEF RoundIsTheNewest, ActiveTaskStatuses
  <2>6. Supplied(l) => JudgedOnItsWay(l)' BY <1>1, <1>2, <1>3, <1>7, <2>2 DEF JudgedOnItsWay
  <2>7. QED BY <2>3, <2>5, <2>6
<1>10. QED
  <2>1. /\ session' \in [Callers -> Session] /\ judged' \in [Leads -> Phones \cup {"none"}]
        /\ overtaken' = overtaken /\ overtaken \subseteq Leads /\ reentered' \subseteq Leads
        /\ \A c \in Callers : session'[c] = session[c]
        /\ \A k \in Leads \ {l} : tasks'[k] = tasks[k] /\ judged'[k] = judged[k]
    BY <1>2, <1>7 DEF SupplyInv, SupplyTypeOK
  <2>2. o.status \notin Absent /\ (row[l].deleted => o.deleted) BY <1>1 DEF Live, Absent
  <2>3. QED BY <1>1, <1>2, <1>7, <1>9, <2>1, <2>2, StepOfALead
\* A correction: of what telesales verifies, of a lead of the platform that is
\* decided again, of a lead that lost its region, or of nothing that counts.
LEMMA CorrectLeadKeeps ==
  ASSUME SupplyInv, NEW l \in Leads, NEW moved \in BOOLEAN, NEW loc \in BOOLEAN,
         CorrectLead(l, moved, loc)
  PROVE  SupplyInv'
<1> DEFINE r == [row[l] EXCEPT !.located = loc]
           verifying == row[l].status \in {"PENDING_TELESALES_VERIFY", "PENDING_OPERATION_DISPOSITION"}
           lost == row[l].status = "READY_DISPATCH" /\ ~loc
           o == [r EXCEPT !.status = "PENDING_TELESALES_VERIFY", !.approved = FALSE,
                  !.reverify = FALSE]
<1>1. /\ row[l] \in LeadRow /\ session \in [Callers -> Session]
      /\ tasks \in [Leads -> Seq(Task)]
  BY DEF SupplyInv, SupplyTypeOK
<1>2. /\ r \in LeadRow /\ r.phone = row[l].phone /\ r.deleted = row[l].deleted
      /\ r.status = row[l].status /\ r.dup = row[l].dup
  BY <1>1 DEF LeadRow
<1>3. /\ o \in LeadRow /\ o.phone = row[l].phone /\ o.deleted = row[l].deleted
      /\ o.status = "PENDING_TELESALES_VERIFY" /\ o.dup = row[l].dup
  BY <1>1 DEF LeadRow, SupplyStatuses
<1>4. /\ Exists(l) /\ UNCHANGED <<session, overtaken, reentered>>
      /\ \/ ~row[l].deleted /\ verifying /\ RestartVerification(l, r)
         \/ /\ row[l].status = "READY_DISPATCH" /\ row[l].phone # "none"
            /\ \E d \in Outcomes(l, r) : SetRow(l, d) /\ QueuedIf(l, d)
            /\ Judge(l, row[l].phone)
         \/ /\ UNCHANGED judged
            /\ lost /\ ~row[l].deleted /\ SetRow(l, o) /\ AddTask(l, "PENDING")
         \/ /\ UNCHANGED judged
            /\ ~lost /\ SetRow(l, r) /\ UNCHANGED tasks
  BY <1>2 DEF CorrectLead
<1>5. CASE ~row[l].deleted /\ verifying /\ RestartVerification(l, r)
  BY <1>2, <1>4, <1>5, RestartKeeps DEF Live
<1>6. CASE /\ row[l].status = "READY_DISPATCH" /\ row[l].phone # "none"
           /\ \E d \in Outcomes(l, r) : SetRow(l, d) /\ QueuedIf(l, d)
           /\ Judge(l, row[l].phone)
  <2> HIDE DEF r
  <2>1. PICK d \in Outcomes(l, r) : SetRow(l, d) /\ QueuedIf(l, d) BY <1>6
  <2>2. QED BY <1>1, <1>2, <1>4, <1>6, <2>1, SubmissionKeeps
<1>7. CASE UNCHANGED judged /\ lost /\ ~row[l].deleted /\ SetRow(l, o) /\ AddTask(l, "PENDING")
  <2> HIDE DEF o
  <2>1. row'[l] = o BY <1>3, <1>7, RowIsSet DEF SupplyInv, SupplyTypeOK
  <2>2. /\ tasks' \in [Leads -> Seq(Task)]
        /\ \A k \in Leads \ {l} : tasks'[k] = tasks[k]
        /\ Len(tasks'[l]) = Len(tasks[l]) + 1 /\ Len(tasks[l]) \in Nat
        /\ tasks'[l][Len(tasks'[l])].status = "PENDING"
        /\ \A i \in 1..Len(tasks[l]) : tasks'[l][i] = tasks[l][i]
    BY <1>1, <1>7, TaskIsAdded, LenProperties DEF VerificationStatuses, ActiveTaskStatuses
  <2>3. LeadIsSound(l)'
    <3>1. SUFFICES ASSUME l \notin overtaken
                   PROVE  /\ row[l].phone # "none" /\ RoundIsTheNewest(l)'
                          /\ (Supplied(l) => JudgedOnItsWay(l)')
      BY <1>3, <1>4, <2>1 DEF LeadIsSound, Supplied
    <3>2. RoundIsTheNewest(l) /\ (Supplied(l) => JudgedOnItsWay(l))
      BY <1>4, <1>7, <3>1 DEF SupplyInv, LeadIsSound, Live
    <3>3. row[l].phone # "none"
      BY <1>7, <3>1 DEF SupplyInv, LeadIsSound, Absent
    <3>4. \A i \in 1..Len(tasks[l]) : tasks[l][i].status \notin Open
      BY <1>7, <3>2 DEF RoundIsTheNewest
    <3>5. \A i \in 1..Len(tasks'[l]) : tasks'[l][i].status \in Open => i = Len(tasks'[l])
      <4>1. SUFFICES ASSUME NEW i \in 1..Len(tasks'[l]), i # Len(tasks'[l])
                     PROVE  tasks'[l][i].status \notin Open
        OBVIOUS
      <4>2. i \in 1..Len(tasks[l]) BY <2>2, <4>1
      <4>3. QED BY <2>2, <3>4, <4>2
    <3>6. RoundIsTheNewest(l)'
      BY <1>3, <2>1, <2>2, <3>5
      DEF RoundIsTheNewest, ActiveTaskStatuses
    <3>7. Supplied(l) => JudgedOnItsWay(l)'
      BY <1>3, <1>7, <2>1, <2>2, <3>2
      DEF JudgedOnItsWay
    <3>8. QED BY <3>3, <3>6, <3>7
  <2>4. QED
    BY <1>3, <1>4, <1>7, <2>2, <2>3, StepOfALead DEF SupplyInv, SupplyTypeOK, Absent
<1>8. CASE UNCHANGED judged /\ ~lost /\ SetRow(l, r) /\ UNCHANGED tasks
  <2> HIDE DEF r
  <2>1. row'[l] = r BY <1>2, <1>8, RowIsSet DEF SupplyInv, SupplyTypeOK
  <2>2. LeadIsSound(l)'
    BY <1>2, <1>4, <1>8, <2>1
    DEF SupplyInv, LeadIsSound, RoundIsTheNewest, JudgedOnItsWay, Live, Exists, Supplied
  <2>3. QED
    BY <1>1, <1>2, <1>4, <1>8, <2>2, StepOfALead DEF SupplyInv, SupplyTypeOK, Exists
<1>9. QED BY <1>4, <1>5, <1>6, <1>7, <1>8

\* A step of a request alone.
LEMMA RequestStep ==
  ASSUME SupplyInv, UNCHANGED <<row, tasks, historyVars>>, session' \in [Callers -> Session],
         RequestIsSound', LockIsExclusive'
  PROVE  SupplyInv'
<1>1. UNCHANGED <<row, tasks, judged, overtaken, reentered>> BY DEF historyVars
<1>2. SupplyTypeOK' BY <1>1 DEF SupplyInv, SupplyTypeOK
<1>3. \A l \in Leads : LeadIsSound(l)'
  BY <1>1
  DEF SupplyInv, LeadIsSound, RoundIsTheNewest, JudgedOnItsWay, Live, Exists, Supplied
<1>4. IdentityIsUnique' /\ NoTaskBeforeEntry'
  BY <1>1 DEF SupplyInv, IdentityIsUnique, NoTaskBeforeEntry, Live, Exists
<1>5. QED BY <1>2, <1>3, <1>4 DEF SupplyInv

\* A phone is locked when no lead and no entry has it.
LEMMA BeginEntryKeeps ==
  ASSUME SupplyInv, NEW c \in Callers, NEW l \in Leads, NEW p \in Phones \cup {"none"},
         BeginEntry(c, l, p)
  PROVE  SupplyInv'
<1> DEFINE s == [kind |-> "enter", lead |-> l, phone |-> p]
<1>1. /\ session' = [session EXCEPT ![c] = s] /\ UNCHANGED <<row, tasks, historyVars>>
      /\ row[l].status = "NONE" /\ session \in [Callers -> Session]
      /\ \A d \in Callers : session[d] # Idle => session[d].lead # l
      /\ PhoneUnused(l, p)
  BY DEF BeginEntry, SupplyInv, SupplyTypeOK
<1>2. s \in Session /\ s.kind = "enter" /\ s.lead = l /\ s.phone = p BY DEF Session
<1> HIDE DEF s
<1>3. session' \in [Callers -> Session] /\ session'[c] = s
      /\ \A d \in Callers \ {c} : session'[d] = session[d]
  BY <1>1, <1>2
<1>4. RequestIsSound' BY <1>1, <1>2, <1>3 DEF SupplyInv, RequestIsSound
<1>5. LockIsExclusive'
  <2>1. p # "none" => \A k \in Leads : Live(k) => row[k].phone # p
    BY <1>1 DEF PhoneUnused, Live, Exists, Absent
  <2>2. \A d \in Callers \ {c} : session[d].kind = "enter" =>
          session[d].lead # l /\ (p # "none" => session[d].phone # p)
    BY <1>1 DEF PhoneUnused, PhoneLocked, Idle
  <2>3. \A d \in Callers : session[d].kind = "enter" /\ session[d].phone # "none" =>
          \A k \in Leads : Live(k) => row[k].phone # session[d].phone
    BY DEF SupplyInv, LockIsExclusive
  <2>4. UNCHANGED row BY <1>1
  <2>5. \A d \in Callers : session'[d].kind = "enter" /\ session'[d].phone # "none" =>
          \A k \in Leads : Live(k)' => row'[k].phone # session'[d].phone
    BY <1>2, <1>3, <2>1, <2>3, <2>4 DEF Live, Exists
  <2>6. \A d, e \in Callers : d # e /\ session'[d].kind = "enter" /\ session'[e].kind = "enter" =>
          /\ session'[e].lead # session'[d].lead
          /\ session'[d].phone # "none" => session'[e].phone # session'[d].phone
    BY <1>2, <1>3, <2>2 DEF SupplyInv, LockIsExclusive
  <2>7. QED BY <2>5, <2>6 DEF LockIsExclusive
<1>6. QED BY <1>1, <1>3, <1>4, <1>5, RequestStep

\* A request that ends gives its lock back.
LEMMA AbortKeeps ==
  ASSUME SupplyInv, NEW c \in Callers, Abort(c) PROVE SupplyInv'
<1>1. Idle \in Session /\ Idle.kind = "idle" BY DEF Session, Idle
<1>2. /\ UNCHANGED <<row, tasks, historyVars>> /\ session' \in [Callers -> Session]
      /\ \A d \in Callers : session'[d] = session[d] \/ session'[d].kind = "idle"
  BY <1>1 DEF Abort, SupplyInv, SupplyTypeOK
<1>3. RequestIsSound' BY <1>2 DEF SupplyInv, RequestIsSound
<1>4. LockIsExclusive' BY <1>2 DEF SupplyInv, LockIsExclusive, Live, Exists
<1>5. QED BY <1>2, <1>3, <1>4, RequestStep

\* What a request reads is a draft.
LEMMA ReadDraftKeeps ==
  ASSUME SupplyInv, NEW c \in Callers, NEW l \in Leads, NEW kind \in {"submit", "discard"},
         ReadDraft(c, l, kind)
  PROVE  SupplyInv'
<1> DEFINE s == [kind |-> kind, lead |-> l, read |-> row[l]]
<1>1. /\ session' = [session EXCEPT ![c] = s] /\ UNCHANGED <<row, tasks, historyVars>>
      /\ row[l].status = "DRAFT" /\ ~row[l].deleted
      /\ (kind = "submit" => row[l].phone # "none")
      /\ session \in [Callers -> Session] /\ row[l] \in LeadRow
  BY DEF ReadDraft, Live, SupplyInv, SupplyTypeOK
<1>2. s \in Session /\ s.kind = kind /\ s.read = row[l] BY <1>1 DEF Session
<1> HIDE DEF s
<1>3. session' \in [Callers -> Session] /\ session'[c] = s
      /\ \A d \in Callers \ {c} : session'[d] = session[d]
  BY <1>1, <1>2
<1>4. RequestIsSound' BY <1>1, <1>2, <1>3 DEF SupplyInv, RequestIsSound
<1>5. LockIsExclusive' BY <1>1, <1>2, <1>3 DEF SupplyInv, LockIsExclusive, Live, Exists
<1>6. QED BY <1>1, <1>3, <1>4, <1>5, RequestStep

\* An entry that is committed, whatever its outcome.
LEMMA EntryStep ==
  ASSUME SupplyInv, NEW c \in Callers, NEW l \in Leads,
         session[c].kind = "enter", session[c].lead = l,
         NEW r \in LeadRow, SetRow(l, r), r.phone = session[c].phone, ~r.deleted,
         r.status \notin Absent,
         session' = [session EXCEPT ![c] = Idle],
         tasks' \in [Leads -> Seq(Task)], judged' \in [Leads -> Phones \cup {"none"}],
         \A k \in Leads \ {l} : tasks'[k] = tasks[k] /\ judged'[k] = judged[k],
         UNCHANGED <<overtaken, reentered>>, LeadIsSound(l)'
  PROVE  SupplyInv'
<1>1. /\ row' \in [Leads -> LeadRow] /\ row'[l] = r
      /\ \A k \in Leads \ {l} : row'[k] = row[k]
  BY RowIsSet DEF SupplyInv, SupplyTypeOK
<1>2. /\ session' \in [Callers -> Session] /\ session'[c].kind = "idle"
      /\ \A d \in Callers \ {c} : session'[d] = session[d]
  BY DEF SupplyInv, SupplyTypeOK, Session, Idle
<1>3. \A k \in Leads : LeadIsSound(k)'
  <2>1. SUFFICES ASSUME NEW k \in Leads \ {l} PROVE LeadIsSound(k)' OBVIOUS
  <2>2. LeadIsSound(k) /\ row'[k] = row[k] /\ tasks'[k] = tasks[k] /\ judged'[k] = judged[k]
    BY <1>1 DEF SupplyInv
  <2>3. QED
    BY <2>2 DEF LeadIsSound, RoundIsTheNewest, JudgedOnItsWay, Live, Exists, Supplied
<1>4. SupplyTypeOK' BY <1>1, <1>2, <1>3 DEF SupplyInv, SupplyTypeOK, LeadIsSound
<1>5. \A d \in Callers \ {c} : session[d].kind = "enter" =>
        /\ session[d].lead \in Leads \ {l}
        /\ session[d].phone # "none" => session[d].phone # r.phone
  BY DEF SupplyInv, SupplyTypeOK, LockIsExclusive, Session, Idle
<1>6. RequestIsSound'
  <2>1. \A d \in Callers : session'[d].kind # "idle" => d # c /\ session'[d] = session[d]
    BY <1>2
  <2>2. \A d \in Callers : session'[d].kind \in {"submit", "discard", "enter"} =>
          d # c /\ session'[d] = session[d]
    BY <2>1
  <2>3. QED BY <1>1, <1>5, <2>2 DEF SupplyInv, RequestIsSound
<1>7. \A k \in Leads \ {l} : (Live(k)' <=> Live(k)) /\ row'[k].phone = row[k].phone
  BY <1>1 DEF Live, Exists
<1>8. LockIsExclusive'
  <2>1. \A d \in Callers : session'[d].kind = "enter" => d # c /\ session'[d] = session[d]
    BY <1>2
  <2>2. \A d \in Callers : session'[d].kind = "enter" /\ session'[d].phone # "none" =>
          \A k \in Leads : Live(k)' => row'[k].phone # session'[d].phone
    BY <1>1, <1>5, <1>7, <2>1 DEF SupplyInv, LockIsExclusive
  <2>3. \A d, e \in Callers : d # e /\ session'[d].kind = "enter" /\ session'[e].kind = "enter" =>
          /\ session'[e].lead # session'[d].lead
          /\ session'[d].phone # "none" => session'[e].phone # session'[d].phone
    BY <2>1 DEF SupplyInv, LockIsExclusive
  <2>4. QED BY <2>2, <2>3 DEF LockIsExclusive
<1>9. IdentityIsUnique'
  <2>1. r.phone # "none" => \A k \in Leads : Live(k) => row[k].phone # r.phone
    BY DEF SupplyInv, LockIsExclusive
  <2>2. QED BY <1>1, <1>7, <2>1 DEF SupplyInv, IdentityIsUnique
<1>10. NoTaskBeforeEntry' BY <1>1 DEF SupplyInv, NoTaskBeforeEntry, Absent
<1>11. QED BY <1>3, <1>4, <1>6, <1>8, <1>9, <1>10 DEF SupplyInv

\* The entry becomes a draft, a lead with a task, or a dispatched lead.
LEMMA CommitEntryKeeps ==
  ASSUME SupplyInv, NEW c \in Callers, CommitEntry(c) PROVE SupplyInv'
<1>1. /\ session[c].kind = "enter" /\ session[c].lead \in Leads
      /\ session[c].phone \in Phones \cup {"none"}
      /\ session' = [session EXCEPT ![c] = Idle] /\ UNCHANGED <<overtaken, reentered>>
  <2>1. session[c].kind = "enter" /\ session' = [session EXCEPT ![c] = Idle]
        /\ UNCHANGED <<overtaken, reentered>>
    BY DEF CommitEntry
  <2>2. session[c] \in Session BY DEF SupplyInv, SupplyTypeOK
  <2>3. session[c].lead \in Leads /\ session[c].phone \in Phones \cup {"none"}
    BY <2>1, <2>2 DEF Session, Idle
  <2>4. QED BY <2>1, <2>3
<1>2. PICK l \in Leads, p \in Phones \cup {"none"} : l = session[c].lead /\ p = session[c].phone
  BY <1>1
<1>3. PICK loc \in BOOLEAN :
        LET new == [EmptyRow EXCEPT !.status = "DRAFT", !.phone = p, !.located = loc]
        IN \/ SetRow(l, new) /\ UNCHANGED <<tasks, judged>>
           \/ /\ SourceOf[l] = "PLATFORM_MANUAL" /\ p # "none"
              /\ SetRow(l, [new EXCEPT !.status = "PENDING_TELESALES_VERIFY"])
              /\ AddTask(l, "ASSIGNED")
              /\ UNCHANGED judged
           \/ /\ SourceOf[l] = "PLATFORM_MANUAL" /\ p # "none"
              /\ \E r \in Outcomes(l, new) :
                   SetRow(l, [r EXCEPT !.status = "DISPATCHED", !.sold = TRUE])
              /\ Judge(l, p)
              /\ UNCHANGED tasks
  BY <1>2 DEF CommitEntry
<1> DEFINE new == [EmptyRow EXCEPT !.status = "DRAFT", !.phone = p, !.located = loc]
           t == [new EXCEPT !.status = "PENDING_TELESALES_VERIFY"]
<1>4. new \in LeadRow /\ new.phone = p /\ ~new.deleted /\ new.status = "DRAFT"
  BY DEF EmptyRow, LeadRow, SupplyStatuses
<1>5. t \in LeadRow /\ t.phone = p /\ ~t.deleted /\ t.status = "PENDING_TELESALES_VERIFY"
  BY DEF EmptyRow, LeadRow, SupplyStatuses
<1>6. /\ tasks \in [Leads -> Seq(Task)] /\ judged \in [Leads -> Phones \cup {"none"}]
      /\ tasks[l] = <<>>
  BY <1>1, <1>2 DEF SupplyInv, SupplyTypeOK, RequestIsSound, NoTaskBeforeEntry
<1>7. Len(tasks[l]) = 0 BY <1>6
<1> HIDE DEF new, t
<1>8. CASE SetRow(l, new) /\ UNCHANGED <<tasks, judged>>
  <2>1. row'[l] = new BY <1>4, <1>8, RowIsSet DEF SupplyInv, SupplyTypeOK
  <2>2. LeadIsSound(l)'
    BY <1>4, <1>7, <1>8, <2>1 DEF LeadIsSound, RoundIsTheNewest, JudgedOnItsWay
  <2>3. QED BY <1>1, <1>2, <1>4, <1>6, <1>8, <2>2, EntryStep DEF Absent
<1>9. CASE /\ SourceOf[l] = "PLATFORM_MANUAL" /\ p # "none" /\ SetRow(l, t)
           /\ AddTask(l, "ASSIGNED") /\ UNCHANGED judged
  <2>1. row'[l] = t BY <1>5, <1>9, RowIsSet DEF SupplyInv, SupplyTypeOK
  <2>2. /\ tasks' \in [Leads -> Seq(Task)]
        /\ \A k \in Leads \ {l} : tasks'[k] = tasks[k]
        /\ Len(tasks'[l]) = 1 /\ tasks'[l][Len(tasks'[l])].status = "ASSIGNED"
    <3>1. "ASSIGNED" \in VerificationStatuses
      BY DEF VerificationStatuses, ActiveTaskStatuses
    <3>2. /\ tasks' \in [Leads -> Seq(Task)]
          /\ \A k \in Leads \ {l} : tasks'[k] = tasks[k]
          /\ Len(tasks'[l]) = Len(tasks[l]) + 1
          /\ tasks'[l][Len(tasks'[l])].status = "ASSIGNED"
      BY <1>6, <1>9, <3>1, TaskIsAdded
    <3>3. QED BY <1>7, <3>2
  <2>3. RoundIsTheNewest(l)' BY <1>5, <2>1, <2>2 DEF RoundIsTheNewest, ActiveTaskStatuses
  <2>4. LeadIsSound(l)'
    BY <1>5, <1>9, <2>1, <2>3 DEF LeadIsSound, Supplied, OperationSources
  <2>5. QED BY <1>1, <1>2, <1>5, <1>6, <1>9, <2>2, <2>4, EntryStep DEF Absent
<1>10. CASE /\ SourceOf[l] = "PLATFORM_MANUAL" /\ p # "none"
            /\ \E r \in Outcomes(l, new) :
                 SetRow(l, [r EXCEPT !.status = "DISPATCHED", !.sold = TRUE])
            /\ Judge(l, p) /\ UNCHANGED tasks
  <2>1. PICK o \in Outcomes(l, new) : SetRow(l, [o EXCEPT !.status = "DISPATCHED", !.sold = TRUE])
    BY <1>10
  <2> DEFINE r == [o EXCEPT !.status = "DISPATCHED", !.sold = TRUE]
  <2>2. o \in LeadRow /\ o.phone = p /\ ~o.deleted BY <1>4, OutcomesAreRows
  <2>3. r \in LeadRow /\ r.phone = p /\ ~r.deleted /\ r.status = "DISPATCHED"
    BY <2>2 DEF LeadRow, SupplyStatuses
  <2> HIDE DEF r
  <2>4. SetRow(l, r) BY <2>1 DEF r
  <2>5. row'[l] = r BY <2>3, <2>4, RowIsSet DEF SupplyInv, SupplyTypeOK
  <2>6. /\ judged' \in [Leads -> Phones \cup {"none"}]
        /\ \A k \in Leads \ {l} : judged'[k] = judged[k]
    BY <1>6, <1>10 DEF Judge
  <2>7. LeadIsSound(l)'
    BY <1>7, <1>10, <2>3, <2>5 DEF LeadIsSound, RoundIsTheNewest, Supplied, OperationSources
  <2>8. QED BY <1>1, <1>2, <1>6, <1>10, <2>3, <2>4, <2>6, <2>7, EntryStep DEF Absent
<1>11. QED BY <1>3, <1>8, <1>9, <1>10 DEF new, t

\* A draft may get another phone, which no lead and no entry has.
LEMMA UpdateDraftKeeps ==
  ASSUME SupplyInv, NEW l \in Leads, NEW p \in Phones \cup {"none"}, NEW loc \in BOOLEAN,
         UpdateDraft(l, p, loc)
  PROVE  SupplyInv'
<1> DEFINE r == [row[l] EXCEPT !.phone = p, !.located = loc]
<1>1. /\ row[l] \in LeadRow /\ row[l].status = "DRAFT" /\ SetRow(l, r)
      /\ UNCHANGED <<tasks, session, judged, overtaken, reentered>>
      /\ p # row[l].phone => PhoneUnused(l, p)
  BY DEF UpdateDraft, SupplyInv, SupplyTypeOK, historyVars
<1>2. /\ r \in LeadRow /\ r.phone = p /\ r.status = "DRAFT" /\ r.deleted = row[l].deleted
  BY <1>1 DEF LeadRow
<1> HIDE DEF r
<1>3. /\ row' \in [Leads -> LeadRow] /\ row'[l] = r
      /\ \A k \in Leads \ {l} : row'[k] = row[k]
  BY <1>1, <1>2, RowIsSet DEF SupplyInv, SupplyTypeOK
<1>4. \A k \in Leads : LeadIsSound(k)'
  <2>1. \A k \in Leads \ {l} : LeadIsSound(k)'
    BY <1>1, <1>3
    DEF SupplyInv, LeadIsSound, RoundIsTheNewest, JudgedOnItsWay, Live, Exists, Supplied
  <2>2. LeadIsSound(l)'
    BY <1>1, <1>2, <1>3
    DEF SupplyInv, LeadIsSound, RoundIsTheNewest, JudgedOnItsWay, Live, Exists, Supplied
  <2>3. QED BY <2>1, <2>2
<1>5. SupplyTypeOK' BY <1>1, <1>3, <1>4 DEF SupplyInv, SupplyTypeOK, LeadIsSound
<1>6. RequestIsSound'
  <2>1. \A c \in Callers : session[c].kind = "enter" => session[c].lead \in Leads \ {l}
    BY <1>1 DEF SupplyInv, SupplyTypeOK, RequestIsSound, Session, Idle
  <2>2. QED BY <1>1, <1>3, <2>1 DEF SupplyInv, RequestIsSound
<1>7. \A k \in Leads : Live(k)' <=> Live(k) BY <1>1, <1>2, <1>3 DEF Live, Exists
<1>8. p # row[l].phone /\ p # "none" =>
        /\ \A k \in Leads \ {l} : Live(k) => row[k].phone # p
        /\ \A c \in Callers : session[c].kind = "enter" => session[c].phone # p
  BY <1>1 DEF PhoneUnused, PhoneLocked
<1>9. LockIsExclusive'
  <2>1. \A c \in Callers : session[c].kind = "enter" /\ session[c].phone # "none" =>
          \A k \in Leads : Live(k)' => row'[k].phone # session[c].phone
    BY <1>2, <1>3, <1>7, <1>8 DEF SupplyInv, LockIsExclusive
  <2>2. QED BY <1>1, <2>1 DEF SupplyInv, LockIsExclusive
<1>10. IdentityIsUnique' BY <1>2, <1>3, <1>7, <1>8 DEF SupplyInv, IdentityIsUnique
<1>11. NoTaskBeforeEntry' BY <1>1, <1>2, <1>3 DEF SupplyInv, NoTaskBeforeEntry
<1>12. QED BY <1>4, <1>5, <1>6, <1>9, <1>10, <1>11 DEF SupplyInv

\* A lead that is discarded leaves nothing behind.
LEMMA DiscardStep ==
  ASSUME SupplyInv, NEW l \in Leads, Exists(l), SetRow(l, [EmptyRow EXCEPT !.status = "DISCARDED"]),
         tasks' = [tasks EXCEPT ![l] = <<>>], UNCHANGED historyVars,
         session' \in [Callers -> Session],
         \A c \in Callers : session'[c] = session[c] \/ session'[c] = Idle
  PROVE  SupplyInv'
<1> DEFINE r == [EmptyRow EXCEPT !.status = "DISCARDED"]
<1>1. r \in LeadRow /\ r.phone = "none" /\ r.status = "DISCARDED"
  BY DEF EmptyRow, LeadRow, SupplyStatuses, Absent
<1>2. UNCHANGED <<judged, overtaken, reentered>> /\ SetRow(l, r) BY DEF historyVars
<1> HIDE DEF r
<1>3. /\ row' \in [Leads -> LeadRow] /\ row'[l] = r
      /\ \A k \in Leads \ {l} : row'[k] = row[k]
  BY <1>1, <1>2, RowIsSet DEF SupplyInv, SupplyTypeOK
<1>4. tasks' \in [Leads -> Seq(Task)] /\ \A k \in Leads \ {l} : tasks'[k] = tasks[k]
  BY DEF SupplyInv, SupplyTypeOK
<1>5. \A k \in Leads : LeadIsSound(k)'
  <2>1. \A k \in Leads \ {l} : LeadIsSound(k)'
    BY <1>2, <1>3, <1>4
    DEF SupplyInv, LeadIsSound, RoundIsTheNewest, JudgedOnItsWay, Live, Exists, Supplied
  <2>2. LeadIsSound(l)' BY <1>1, <1>3 DEF LeadIsSound, Live, Exists, Absent
  <2>3. QED BY <2>1, <2>2
<1>6. SupplyTypeOK' BY <1>2, <1>3, <1>4, <1>5 DEF SupplyInv, SupplyTypeOK, LeadIsSound
<1>7. \A c \in Callers : session'[c].kind # "idle" => session'[c] = session[c] BY DEF Idle
<1>8. \A c \in Callers : session[c].kind = "enter" => session[c].lead \in Leads \ {l}
  BY DEF SupplyInv, SupplyTypeOK, RequestIsSound, Session, Idle, Exists, Absent
<1>9. RequestIsSound'
  <2>1. \A c \in Callers : session'[c].kind \in {"submit", "discard", "enter"}
           => session'[c] = session[c]
    BY <1>7
  <2>2. QED BY <1>3, <1>8, <2>1 DEF SupplyInv, RequestIsSound
<1>10. \A k \in Leads : Live(k)' => Live(k) /\ row'[k] = row[k]
  BY <1>1, <1>3 DEF Live, Exists, Absent
<1>11. LockIsExclusive'
  <2>1. \A c \in Callers : session'[c].kind = "enter" => session'[c] = session[c] BY <1>7
  <2>2. QED BY <1>10, <2>1 DEF SupplyInv, LockIsExclusive
<1>12. IdentityIsUnique' BY <1>10 DEF SupplyInv, IdentityIsUnique
<1>13. NoTaskBeforeEntry' BY <1>1, <1>3, <1>4 DEF SupplyInv, NoTaskBeforeEntry
<1>14. QED BY <1>5, <1>6, <1>9, <1>11, <1>12, <1>13 DEF SupplyInv

\* Discarding a draft.
LEMMA DiscardDraftKeeps ==
  ASSUME SupplyInv, NEW c \in Callers, DiscardDraft(c) PROVE SupplyInv'
<1>1. session[c].lead \in Leads BY DEF DiscardDraft, SupplyInv, SupplyTypeOK, Session, Idle
<1>2. PICK l \in Leads : l = session[c].lead BY <1>1
<1>3. /\ Exists(l) /\ SetRow(l, [EmptyRow EXCEPT !.status = "DISCARDED"])
      /\ tasks' = [tasks EXCEPT ![l] = <<>>] /\ UNCHANGED historyVars
      /\ session' = [session EXCEPT ![c] = Idle]
  BY <1>2 DEF DiscardDraft
<1>4. /\ session' \in [Callers -> Session]
      /\ \A d \in Callers : session'[d] = session[d] \/ session'[d] = Idle
  BY <1>3 DEF SupplyInv, SupplyTypeOK, Session
<1>5. QED BY <1>3, <1>4, DiscardStep

\* Deleting a test lead.
LEMMA DeleteTestLeadKeeps ==
  ASSUME SupplyInv, NEW l \in Leads, DeleteTestLead(l) PROVE SupplyInv'
BY DiscardStep DEF DeleteTestLead, SupplyInv, SupplyTypeOK

-----------------------------------------------------------------------------
\* No lead is there in the beginning.
LEMMA SupplyInitially == ASSUME SupplyInit PROVE SupplyInv
<1>1. EmptyRow \in LeadRow /\ EmptyRow.status = "NONE" /\ EmptyRow.phone = "none"
  BY DEF EmptyRow, LeadRow, SupplyStatuses, Absent
<1>2. Idle \in Session /\ Idle.kind = "idle" BY DEF Session, Idle
<1>3. \A l \in Leads : row[l] = EmptyRow /\ tasks[l] = <<>> BY DEF SupplyInit
<1>4. \A l \in Leads : LeadIsSound(l) BY <1>1, <1>3 DEF LeadIsSound, Live, Exists, Absent
<1>5. SupplyTypeOK
  <2>1. row \in [Leads -> LeadRow] BY <1>1 DEF SupplyInit
  <2>2. tasks \in [Leads -> Seq(Task)] BY DEF SupplyInit
  <2>3. session \in [Callers -> Session] BY <1>2 DEF SupplyInit
  <2>4. judged \in [Leads -> Phones \cup {"none"}] BY DEF SupplyInit
  <2>5. overtaken \subseteq Leads /\ reentered \subseteq Leads BY DEF SupplyInit
  <2>6. QED BY <1>4, <2>1, <2>2, <2>3, <2>4, <2>5 DEF SupplyTypeOK, LeadIsSound
<1>6. \A c \in Callers : session[c].kind = "idle" BY <1>2 DEF SupplyInit
<1>7. RequestIsSound /\ LockIsExclusive BY <1>6 DEF RequestIsSound, LockIsExclusive
<1>8. NoTaskBeforeEntry /\ IdentityIsUnique
  BY <1>1, <1>3 DEF NoTaskBeforeEntry, IdentityIsUnique, Live, Exists, Absent
<1>9. QED BY <1>4, <1>5, <1>7, <1>8 DEF SupplyInv

\* Every step keeps the invariant.
LEMMA SupplyStep == ASSUME SupplyInv, [SupplyNext]_supplyVars PROVE SupplyInv'
<1>1. CASE UNCHANGED supplyVars
  <2>1. UNCHANGED <<row, tasks, session, historyVars>> BY <1>1 DEF supplyVars, historyVars
  <2>2. RequestIsSound' /\ LockIsExclusive'
    BY <2>1 DEF SupplyInv, RequestIsSound, LockIsExclusive, Live, Exists
  <2>3. QED BY <2>1, <2>2, RequestStep DEF SupplyInv, SupplyTypeOK
<1>2. ASSUME NEW c \in Callers, NEW l \in Leads,
             \/ \E p \in Phones \cup {"none"} : BeginEntry(c, l, p)
             \/ \E kind \in {"submit", "discard"} : ReadDraft(c, l, kind)
      PROVE  SupplyInv'
  BY <1>2, BeginEntryKeeps, ReadDraftKeeps
<1>3. ASSUME NEW c \in Callers, CommitEntry(c) \/ Abort(c) \/ DiscardDraft(c) \/ SubmitDraft(c)
      PROVE  SupplyInv'
  BY <1>3, CommitEntryKeeps, AbortKeeps, DiscardDraftKeeps, SubmitDraftKeeps
<1>4. ASSUME NEW l \in Leads, NEW i \in DOMAIN tasks[l],
             StartTask(l, i) \/ SubmitVerification(l, i) \/ Dispose(l, i)
      PROVE  SupplyInv'
  <2>1. i \in 1..Len(tasks[l]) BY LenProperties DEF SupplyInv, SupplyTypeOK
  <2>2. QED BY <1>4, <2>1, StartTaskKeeps, SubmitVerificationKeeps, DisposeKeeps
<1>5. ASSUME NEW l \in Leads,
             \/ \E p \in Phones \cup {"none"}, loc \in BOOLEAN : UpdateDraft(l, p, loc)
             \/ \E moved, loc \in BOOLEAN : CorrectLead(l, moved, loc)
             \/ DeleteTestLead(l)
      PROVE  SupplyInv'
  BY <1>5, UpdateDraftKeeps, CorrectLeadKeeps, DeleteTestLeadKeeps
<1>6. ASSUME NEW l \in Leads,
             \/ ReviewQualified(l) \/ ReviewRefused(l) \/ ReviseRejected(l)
             \/ OverrideDuplicate(l) \/ AssignVerification(l) \/ Requeue(l)
      PROVE  SupplyInv'
  BY <1>6, ReviewQualifiedKeeps, ReviewRefusedKeeps, ReviseRejectedKeeps,
     OverrideDuplicateKeeps, AssignVerificationKeeps, RequeueKeeps
<1>7. ASSUME NEW l \in Leads,
             \/ ReopenClosed(l) \/ ReopenForCorrection(l) \/ TransferSupplied(l) \/ TransferDraft(l)
             \/ Dispatch(l) \/ ComeBack(l) \/ DeleteLead(l)
      PROVE  SupplyInv'
  BY <1>7, ReopenClosedKeeps, ReopenForCorrectionKeeps, TransferSuppliedKeeps,
     TransferDraftKeeps, DispatchKeeps, ComeBackKeeps, DeleteLeadKeeps
<1>8. CASE SupplyNext
  BY <1>2, <1>3, <1>4, <1>5, <1>6, <1>7, <1>8 DEF SupplyNext
<1>9. QED BY <1>1, <1>8

\* The inductive invariant holds in every state.
LEMMA SupplyIsInvariant == SupplySpec => []SupplyInv
<1>1. SupplyInit => SupplyInv BY SupplyInitially
<1>2. SupplyInv /\ [SupplyNext]_supplyVars => SupplyInv' BY SupplyStep
<1>3. QED BY <1>1, <1>2, PTL DEF SupplySpec

\* Every row, task, request and decision has its type, and a lead that is no draft
\* any more has a phone unless it was overtaken.
THEOREM SupplyIsTyped == SupplySpec => []SupplyTypeOK
<1>1. SupplyInv => SupplyTypeOK BY DEF SupplyInv
<1>2. QED BY <1>1, SupplyIsInvariant, PTL

\* A phone number names one lead of those that are not deleted, whatever entries
\* and edits of drafts run at the same time.  (require_unique_lead_phone)
THEOREM PhoneNamesOneLead == SupplySpec => []IdentityIsUnique
<1>1. SupplyInv => IdentityIsUnique BY DEF SupplyInv
<1>2. QED BY <1>1, SupplyIsInvariant, PTL

\* The round of telesales and the lead agree: one active task while it waits for
\* telesales, one result while it waits for operations.  (pre_dispatch_v12.py)
THEOREM RoundAgreesWithLead == SupplySpec => []RoundMatchesLead
<1>1. SupplyInv => RoundMatchesLead
  <2>1. SUFFICES ASSUME SupplyInv, NEW l \in Leads, Live(l), l \notin overtaken
                 PROVE  /\ IF row[l].status = "PENDING_TELESALES_VERIFY"
                           THEN \E i \in DOMAIN tasks[l] : Active(l) = {i}
                           ELSE Active(l) = {}
                        /\ IF row[l].status = "PENDING_OPERATION_DISPOSITION"
                           THEN \E i \in DOMAIN tasks[l] : Submitted(l) = {i}
                           ELSE Submitted(l) = {}
    BY DEF RoundMatchesLead
  <2>2. RoundIsTheNewest(l) BY <2>1 DEF SupplyInv, LeadIsSound
  <2>3. DOMAIN tasks[l] = 1..Len(tasks[l]) /\ Len(tasks[l]) \in Nat
    BY LenProperties DEF SupplyInv, SupplyTypeOK
  <2>4. CASE row[l].status = "PENDING_TELESALES_VERIFY"
    <3>1. Active(l) = {Len(tasks[l])} /\ Len(tasks[l]) \in DOMAIN tasks[l]
      BY <2>2, <2>3, <2>4 DEF RoundIsTheNewest, Active, Open
    <3>2. Submitted(l) = {}
      BY <2>2, <2>3, <2>4 DEF RoundIsTheNewest, Submitted, Open, ActiveTaskStatuses
    <3>3. QED BY <2>4, <3>1, <3>2
  <2>5. CASE row[l].status = "PENDING_OPERATION_DISPOSITION"
    <3>1. Submitted(l) = {Len(tasks[l])} /\ Len(tasks[l]) \in DOMAIN tasks[l]
      BY <2>2, <2>3, <2>5 DEF RoundIsTheNewest, Submitted, Open
    <3>2. Active(l) = {}
      BY <2>2, <2>3, <2>5 DEF RoundIsTheNewest, Active, Open, ActiveTaskStatuses
    <3>3. QED BY <2>5, <3>1, <3>2
  <2>6. CASE row[l].status \notin {"PENDING_TELESALES_VERIFY", "PENDING_OPERATION_DISPOSITION"}
    <3>1. Active(l) = {} /\ Submitted(l) = {}
      BY <2>2, <2>3, <2>6 DEF RoundIsTheNewest, Active, Submitted, Open
    <3>2. QED BY <2>6, <3>1
  <2>7. QED BY <2>4, <2>5, <2>6
<1>2. QED BY <1>1, SupplyIsInvariant, PTL

\* A supplier's lead that can be sold was judged with the phone it has, and its
\* decision is none that blocks.  (_check_draft_duplicate, submit_draft)
THEOREM NothingIsSoldUnjudged == SupplySpec => []SuppliedLeadWasJudged
<1>1. SupplyInv => SuppliedLeadWasJudged
  BY DEF SupplyInv, LeadIsSound, JudgedOnItsWay, SuppliedLeadWasJudged
<1>2. QED BY <1>1, SupplyIsInvariant, PTL

-----------------------------------------------------------------------------
\* What it takes to sell a lead that was verified again and did not pass.

Verifying == {"PENDING_TELESALES_VERIFY", "PENDING_OPERATION_DISPOSITION"}

\* A lead that is verified again has its mark, up to the end of the round.
Marked(l) == row[l].status = "DISCARDED" \/ (row[l].status \in Verifying /\ row[l].reverify)
ReentryIsMarked == \A l \in reentered \ overtaken : Marked(l)

\* Nobody corrects the region of a lead that is verified again.
NoReentryIsMoved == \A l \in reentered, loc \in BOOLEAN : ~CorrectLead(l, TRUE, loc)

\* A step that keeps row and history, or that is about another lead, keeps the mark.
LEMMA MarkStays ==
  ASSUME NEW l \in reentered \ overtaken, Marked(l), row'[l] = row[l]
  PROVE  Marked(l)'
BY DEF Marked

\* The steps of requests.
LEMMA RequestsKeepMark ==
  ASSUME SupplyInv, NEW l \in reentered \ overtaken, Marked(l), l \notin overtaken',
         NEW c \in Callers,
         \/ \E k \in Leads, p \in Phones \cup {"none"} : BeginEntry(c, k, p)
         \/ \E k \in Leads, kind \in {"submit", "discard"} : ReadDraft(c, k, kind)
         \/ CommitEntry(c) \/ Abort(c) \/ DiscardDraft(c) \/ SubmitDraft(c)
  PROVE  Marked(l)'
<1>1. row \in [Leads -> LeadRow] /\ l \in Leads BY DEF SupplyInv, SupplyTypeOK
<1>2. CASE row' = row BY <1>2 DEF Marked
<1>3. CASE CommitEntry(c)
  <2>1. row[session[c].lead].status = "NONE" /\ session[c].lead # l
    BY <1>3 DEF CommitEntry, SupplyInv, RequestIsSound, Marked, Verifying
  <2>2. PICK r : row' = [row EXCEPT ![session[c].lead] = r]
    BY <1>3 DEF CommitEntry, SetRow
  <2>3. QED BY <1>1, <2>1, <2>2, MarkStays
<1>4. CASE DiscardDraft(c)
  <2>1. row' = [row EXCEPT ![session[c].lead] = [EmptyRow EXCEPT !.status = "DISCARDED"]]
    BY <1>4 DEF DiscardDraft, SetRow
  <2>2. CASE session[c].lead = l
    <3>1. row'[l].status = "DISCARDED" BY <1>1, <2>1, <2>2 DEF EmptyRow
    <3>2. QED BY <3>1 DEF Marked
  <2>3. CASE session[c].lead # l BY <1>1, <2>1, <2>3, MarkStays
  <2>4. QED BY <2>2, <2>3
<1>5. CASE SubmitDraft(c)
  <2>1. PICK r : row' = [row EXCEPT ![session[c].lead] = r]
    BY <1>5 DEF SubmitDraft, SetRow
  <2>2. session[c].lead # l
    <3>1. SUFFICES ASSUME session[c].lead = l PROVE FALSE OBVIOUS
    <3>2. session[c].read.status = "DRAFT" /\ Exists(l)
      BY <1>5, <3>1 DEF SubmitDraft, SupplyInv, RequestIsSound
    <3>3. row[l] # session[c].read
      BY <3>2 DEF Marked, Verifying, Exists, Absent
    <3>4. QED BY <1>5, <3>1, <3>3 DEF SubmitDraft
  <2>3. QED BY <1>1, <2>1, <2>2, MarkStays
<1>6. QED
  BY <1>2, <1>3, <1>4, <1>5 DEF BeginEntry, ReadDraft, Abort

\* The round of telesales ends only with the lead passed, or no more to sell.
LEMMA RoundKeepsMark ==
  ASSUME SupplyInv, NEW l \in Leads, l \in reentered => Marked(l), l \notin overtaken,
         l \in reentered', NEW k \in Leads,
         \/ \E i \in DOMAIN tasks[k] : StartTask(k, i) \/ SubmitVerification(k, i) \/ Dispose(k, i)
         \/ AssignVerification(k) \/ Requeue(k)
  PROVE  Marked(l)'
<1>1. row \in [Leads -> LeadRow] /\ row[k] \in LeadRow BY DEF SupplyInv, SupplyTypeOK
<1>2. CASE row' = row /\ l \in reentered BY <1>2 DEF Marked
<1>3. ASSUME NEW i \in DOMAIN tasks[k], SubmitVerification(k, i)
      PROVE  Marked(l)'
  <2>1. /\ l \in reentered
        /\ row' = [row EXCEPT ![k] = [row[k] EXCEPT !.status = "PENDING_OPERATION_DISPOSITION"]]
    BY <1>3 DEF SubmitVerification, SetRow, historyVars
  <2>2. row'[l].reverify = row[l].reverify
        /\ row'[l].status \in {row[l].status, "PENDING_OPERATION_DISPOSITION"}
    BY <1>1, <2>1 DEF LeadRow
  <2>3. row[l].status # "DISCARDED" \/ l # k
    BY <1>3 DEF SubmitVerification
  <2>4. row'[l].status = row[l].status \/ l = k
    BY <1>1, <2>1
  <2>5. QED BY <2>1, <2>2, <2>3, <2>4 DEF Marked, Verifying
<1>4. ASSUME NEW i \in DOMAIN tasks[k], Dispose(k, i)
      PROVE  Marked(l)'
  <2>1. l \in reentered /\ \E r : row' = [row EXCEPT ![k] = r]
    BY <1>4 DEF Dispose, SetRow
  <2>2. k # l
    <3>1. SUFFICES ASSUME k = l PROVE FALSE OBVIOUS
    <3>2. row[l].reverify
      BY <1>4, <2>1, <3>1 DEF Dispose, Marked
    <3>3. QED
      BY <1>4, <3>1, <3>2 DEF Dispose, Passes
  <2>3. QED BY <1>1, <2>1, <2>2 DEF Marked
<1>5. CASE AssignVerification(k)
  <2>1. l \in reentered /\ (row' = row \/ \E r : row' = [row EXCEPT ![k] = r])
    BY <1>5 DEF AssignVerification, SetRow, historyVars
  <2>2. CASE k = l
    <3>1. Live(l) /\ row[l].status = "PENDING_TELESALES_VERIFY"
      BY <1>5, <2>1, <2>2 DEF AssignVerification, Marked, Verifying
    <3>2. Len(tasks[l]) \in DOMAIN tasks[l] /\ tasks[l][Len(tasks[l])].status \in ActiveTaskStatuses
      <4>1. DOMAIN tasks[l] = 1..Len(tasks[l]) /\ Len(tasks[l]) \in Nat
        BY LenProperties DEF SupplyInv, SupplyTypeOK
      <4>2. QED BY <3>1, <4>1 DEF SupplyInv, LeadIsSound, RoundIsTheNewest
    <3>3. Active(l) # {} BY <3>2 DEF Active
    <3>4. row' = row BY <1>5, <2>2, <3>3 DEF AssignVerification
    <3>5. QED BY <1>2, <2>1, <3>4
  <2>3. CASE k # l BY <1>1, <2>1, <2>3 DEF Marked
  <2>4. QED BY <2>2, <2>3
<1>6. CASE Requeue(k)
  <2>1. row' = [row EXCEPT ![k] = [row[k] EXCEPT !.status = "PENDING_TELESALES_VERIFY",
                                                 !.approved = FALSE, !.reverify = TRUE]]
        /\ reentered' = reentered \cup {k}
    BY <1>6 DEF Requeue, SetRow
  <2>2. CASE k = l
    <3>1. row'[l].status = "PENDING_TELESALES_VERIFY" /\ row'[l].reverify
      BY <1>1, <2>1, <2>2 DEF LeadRow
    <3>2. QED BY <3>1 DEF Marked, Verifying
  <2>3. CASE k # l BY <1>1, <2>1, <2>3 DEF Marked
  <2>4. QED BY <2>2, <2>3
<1>7. CASE \E i \in DOMAIN tasks[k] : StartTask(k, i)
  BY <1>2, <1>7 DEF StartTask, historyVars
<1>8. QED BY <1>3, <1>4, <1>5, <1>6, <1>7

\* The other steps do not meet a lead that is verified again, or leave its mark.
LEMMA OthersKeepMark ==
  ASSUME SupplyInv, NEW l \in reentered \ overtaken, Marked(l), l \in reentered', NEW k \in Leads,
         NoReentryIsMoved,
         \/ \E p \in Phones \cup {"none"}, loc \in BOOLEAN : UpdateDraft(k, p, loc)
         \/ \E moved, loc \in BOOLEAN : CorrectLead(k, moved, loc)
         \/ ReviewQualified(k) \/ ReviewRefused(k) \/ ReviseRejected(k) \/ OverrideDuplicate(k)
         \/ ReopenClosed(k) \/ ReopenForCorrection(k) \/ TransferSupplied(k) \/ TransferDraft(k)
         \/ Dispatch(k) \/ ComeBack(k) \/ DeleteLead(k) \/ DeleteTestLead(k)
  PROVE  Marked(l)'
<1>1. row \in [Leads -> LeadRow] /\ row[k] \in LeadRow /\ l \in Leads
  BY DEF SupplyInv, SupplyTypeOK
<1>2. ASSUME NEW r, row' = [row EXCEPT ![k] = r], k # l PROVE Marked(l)'
  BY <1>1, <1>2 DEF Marked
<1>3. ASSUME NEW loc \in BOOLEAN, NEW moved \in BOOLEAN, CorrectLead(k, moved, loc)
      PROVE  Marked(l)'
  <2>1. CASE k = l
    <3>1. ~moved /\ Exists(l)
      BY <1>3, <2>1 DEF NoReentryIsMoved, CorrectLead
    <3>2. row[l].status \in Verifying /\ row[l].reverify
      BY <3>1 DEF Marked, Exists, Absent
    <3>3. row' = [row EXCEPT ![l] = [row[l] EXCEPT !.located = loc]]
      BY <1>3, <2>1, <3>1, <3>2 DEF CorrectLead, SetRow, Verifying
    <3>4. row'[l].status = row[l].status /\ row'[l].reverify = row[l].reverify
      BY <1>1, <3>3 DEF LeadRow
    <3>5. QED BY <3>2, <3>4 DEF Marked
  <2>2. CASE k # l
    <3>1. \E r : row' = [row EXCEPT ![k] = r]
      BY <1>3 DEF CorrectLead, RestartVerification, SetRow
    <3>2. QED BY <1>2, <2>2, <3>1
  <2>3. QED BY <2>1, <2>2
<1>4. CASE DeleteLead(k)
  <2>1. row' = [row EXCEPT ![k] = [row[k] EXCEPT !.deleted = TRUE]]
    BY <1>4 DEF DeleteLead, SetRow
  <2>2. row'[l].status = row[l].status /\ row'[l].reverify = row[l].reverify
    BY <1>1, <2>1 DEF LeadRow
  <2>3. QED BY <2>2 DEF Marked
<1>5. CASE DeleteTestLead(k)
  <2>1. row' = [row EXCEPT ![k] = [EmptyRow EXCEPT !.status = "DISCARDED"]]
    BY <1>5 DEF DeleteTestLead, SetRow
  <2>2. CASE k = l
    <3>1. row'[l].status = "DISCARDED" BY <1>1, <2>1, <2>2 DEF EmptyRow
    <3>2. QED BY <3>1 DEF Marked
  <2>3. QED BY <1>2, <2>1, <2>2
<1>6. CASE OverrideDuplicate(k)
  <2>1. k # l /\ \E r : row' = [row EXCEPT ![k] = r]
    BY <1>6 DEF OverrideDuplicate, SetRow
  <2>2. QED BY <1>2, <2>1
<1>7. ASSUME \/ \E p \in Phones \cup {"none"}, loc \in BOOLEAN : UpdateDraft(k, p, loc)
             \/ ReviewQualified(k) \/ ReviewRefused(k) \/ ReviseRejected(k)
             \/ ReopenClosed(k) \/ ReopenForCorrection(k) \/ TransferSupplied(k) \/ TransferDraft(k)
             \/ Dispatch(k) \/ ComeBack(k)
      PROVE  Marked(l)'
  <2>1. row[k].status \notin Verifying \cup {"DISCARDED"}
    BY <1>7 DEF UpdateDraft, ReviewQualified, ReviewRefused, InReview, ReviseRejected, ReopenClosed,
                ReopenForCorrection, TransferSupplied, TransferDraft, Dispatch, ComeBack, Verifying
  <2>2. k # l BY <2>1 DEF Marked
  <2>3. \E r : row' = [row EXCEPT ![k] = r]
    BY <1>7 DEF UpdateDraft, ReviewQualified, ReviewRefused, ReviseRejected, ReopenClosed,
                ReopenForCorrection, TransferSupplied, TransferDraft, Dispatch, ComeBack,
                SubmitLocked, SetRow
  <2>4. QED BY <1>2, <2>2, <2>3
<1>8. QED BY <1>3, <1>4, <1>5, <1>6, <1>7

\* Who was overtaken stays so, and only another round makes a lead verified again.
LEMMA HistoryGrows ==
  ASSUME SupplyNext
  PROVE  /\ overtaken \subseteq overtaken'
         /\ reentered' \subseteq reentered \/ \E k \in Leads : Requeue(k)
<1>1. ASSUME NEW c \in Callers, NEW l \in Leads,
             \/ \E p \in Phones \cup {"none"} : BeginEntry(c, l, p)
             \/ \E kind \in {"submit", "discard"} : ReadDraft(c, l, kind)
      PROVE  overtaken' = overtaken /\ reentered' = reentered
  BY <1>1 DEF BeginEntry, ReadDraft, historyVars
<1>2. ASSUME NEW c \in Callers, CommitEntry(c) \/ Abort(c) \/ DiscardDraft(c) \/ SubmitDraft(c)
      PROVE  overtaken \subseteq overtaken' /\ reentered' = reentered
  BY <1>2 DEF CommitEntry, Abort, DiscardDraft, SubmitDraft, historyVars
<1>3. ASSUME NEW l \in Leads, NEW i \in DOMAIN tasks[l],
             StartTask(l, i) \/ SubmitVerification(l, i) \/ Dispose(l, i)
      PROVE  overtaken' = overtaken /\ reentered' \subseteq reentered
  BY <1>3 DEF StartTask, SubmitVerification, Dispose, historyVars
<1>4. ASSUME NEW l \in Leads, OverrideDuplicate(l) \/ Requeue(l)
      PROVE  overtaken \subseteq overtaken' /\ (reentered' \subseteq reentered \/ Requeue(l))
  BY <1>4 DEF OverrideDuplicate, Requeue
<1>5. ASSUME NEW l \in Leads,
             \/ \E p \in Phones \cup {"none"}, loc \in BOOLEAN : UpdateDraft(l, p, loc)
             \/ \E moved, loc \in BOOLEAN : CorrectLead(l, moved, loc)
             \/ ReviewQualified(l) \/ ReviewRefused(l) \/ ReviseRejected(l) \/ AssignVerification(l)
             \/ ReopenClosed(l) \/ ReopenForCorrection(l) \/ TransferSupplied(l) \/ TransferDraft(l)
             \/ Dispatch(l) \/ ComeBack(l) \/ DeleteLead(l) \/ DeleteTestLead(l)
      PROVE  overtaken' = overtaken /\ reentered' = reentered
  BY <1>5 DEF UpdateDraft, CorrectLead, ReviewQualified, ReviewRefused, ReviseRejected,
     AssignVerification, ReopenClosed, ReopenForCorrection, TransferSupplied, TransferDraft,
     Dispatch, ComeBack, DeleteLead, DeleteTestLead, SubmitLocked, historyVars
<1>6. QED BY <1>1, <1>2, <1>3, <1>4, <1>5 DEF SupplyNext

LEMMA ReentryStep ==
  ASSUME SupplyInv, ReentryIsMarked, [SupplyNext /\ NoReentryIsMoved]_supplyVars
  PROVE  ReentryIsMarked'
<1> SUFFICES ASSUME NEW l \in reentered' \ overtaken' PROVE Marked(l)'
  BY DEF ReentryIsMarked
<1>1. CASE UNCHANGED supplyVars
  BY <1>1, MarkStays DEF supplyVars, ReentryIsMarked
<1>2. CASE SupplyNext /\ NoReentryIsMoved
  <2>1. l \notin overtaken
    BY <1>2, HistoryGrows
  <2>2. l \in Leads /\ (l \in reentered => Marked(l))
    <3>1. SupplyInv' BY <1>2, SupplyStep
    <3>2. QED BY <2>1, <3>1 DEF ReentryIsMarked, SupplyInv, SupplyTypeOK
  <2>3. CASE \E k \in Leads :
               \/ \E i \in DOMAIN tasks[k] : StartTask(k, i) \/ SubmitVerification(k, i) \/ Dispose(k, i)
               \/ AssignVerification(k) \/ Requeue(k)
    BY <2>1, <2>2, <2>3, RoundKeepsMark
  <2>4. CASE ~\E k \in Leads :
               \/ \E i \in DOMAIN tasks[k] : StartTask(k, i) \/ SubmitVerification(k, i) \/ Dispose(k, i)
               \/ AssignVerification(k) \/ Requeue(k)
    <3>1. l \in reentered /\ Marked(l)
      BY <1>2, <2>2, <2>4, HistoryGrows
    <3>2. QED
      BY <1>2, <2>1, <2>4, <3>1, RequestsKeepMark, OthersKeepMark DEF SupplyNext
  <2>5. QED BY <2>3, <2>4
<1>3. QED BY <1>1, <1>2

\* A lead verified again comes into the pool only after a round that qualified it,
\* unless its region is corrected meanwhile: restart_pre_dispatch_after_correction
\* writes another reason over the mark, and nothing else removes it.
THEOREM OnlyACorrectionForgets ==
  SupplySpec /\ [][NoReentryIsMoved]_supplyVars => []ReenteredLeadMustPass
<1>1. SupplyInit => ReentryIsMarked
  BY DEF SupplyInit, ReentryIsMarked
<1>2. SupplyInv /\ ReentryIsMarked /\ [SupplyNext]_supplyVars /\ [NoReentryIsMoved]_supplyVars
      => ReentryIsMarked'
  BY ReentryStep
<1>3. ReentryIsMarked => ReenteredLeadMustPass
  BY DEF ReentryIsMarked, Marked, Verifying, ReenteredLeadMustPass
<1>4. QED
  BY <1>1, <1>2, <1>3, SupplyIsInvariant, PTL DEF SupplySpec

-----------------------------------------------------------------------------
\* What the pages offer.

\* A task that missed the customer is over, or the lead is deleted.
OverIfMissed(s, gone) ==
  \A i \in 1..Len(s) : s[i].missed => s[i].status \in {"SUBMITTED", "RELEASED"} \/ gone
MissedIsOver == \A l \in Leads : OverIfMissed(tasks[l], row[l].deleted)

\* Nothing changes by a step that keeps the tasks and brings no lead back.
LEMMA TasksStayOver ==
  ASSUME MissedIsOver, UNCHANGED tasks, \A l \in Leads : row[l].deleted => row'[l].deleted
  PROVE  MissedIsOver'
BY DEF MissedIsOver, OverIfMissed

\* One lead changes, whose tasks are over afterwards as well.
LEMMA OneLeadStaysOver ==
  ASSUME SupplyInv, MissedIsOver, NEW l \in Leads, NEW r \in LeadRow, SetRow(l, r),
         \A k \in Leads \ {l} : tasks'[k] = tasks[k],
         OverIfMissed(tasks'[l], r.deleted)
  PROVE  MissedIsOver'
<1>1. row' = [row EXCEPT ![l] = r] /\ row \in [Leads -> LeadRow]
  BY DEF SetRow, SupplyInv, SupplyTypeOK
<1>2. row'[l] = r /\ \A k \in Leads \ {l} : row'[k] = row[k]
  BY <1>1
<1>3. QED BY <1>2 DEF MissedIsOver

\* A new task is added behind tasks that are over.
LEMMA NewTaskMissedNobody ==
  ASSUME NEW s \in Seq(Task), NEW gone \in BOOLEAN, OverIfMissed(s, gone),
         NEW v \in VerificationStatuses
  PROVE  OverIfMissed(Append(s, NewTask(v)), gone)
<1>1. NewTask(v) \in Task /\ ~NewTask(v).missed BY DEF NewTask, Task
<1>2. /\ Len(Append(s, NewTask(v))) = Len(s) + 1 /\ Len(s) \in Nat
      /\ \A i \in 1..Len(s) : Append(s, NewTask(v))[i] = s[i]
      /\ Append(s, NewTask(v))[Len(s) + 1] = NewTask(v)
  BY <1>1
<1>3. QED BY <1>1, <1>2 DEF OverIfMissed

\* One task is set to what is over.
LEMMA SetTaskIsOver ==
  ASSUME NEW s \in Seq(Task), NEW gone \in BOOLEAN, OverIfMissed(s, gone),
         NEW i \in 1..Len(s), NEW t \in Task,
         t.missed => t.status \in {"SUBMITTED", "RELEASED"} \/ gone
  PROVE  OverIfMissed([s EXCEPT ![i] = t], gone)
<1>1. [s EXCEPT ![i] = t] \in Seq(Task) /\ Len([s EXCEPT ![i] = t]) = Len(s)
  BY ExceptSeq, LenProperties
<1>2. \A j \in 1..Len(s) : [s EXCEPT ![i] = t][j] = IF j = i THEN t ELSE s[j]
  BY LenProperties
<1>3. QED BY <1>1, <1>2 DEF OverIfMissed

\* Closing what is open keeps what a task found.
LEMMA ClosedIsOver ==
  ASSUME NEW s \in Seq(Task), NEW gone \in BOOLEAN, OverIfMissed(s, gone),
         NEW v \in VerificationStatuses, v = "RELEASED" \/ gone
  PROVE  OverIfMissed(Closed(s, v), gone)
<1>1. /\ Len(s) \in Nat /\ DOMAIN s = 1..Len(s) /\ Len(Closed(s, v)) = Len(s)
      /\ \A i \in 1..Len(s) : s[i] \in Task
  BY LenProperties, ElementOfSeq, TasksAreClosed
<1>2. \A i \in 1..Len(s) : Closed(s, v)[i] =
         IF s[i].status \in Open THEN [s[i] EXCEPT !.status = v] ELSE s[i]
  BY <1>1 DEF Closed
<1>3. \A i \in 1..Len(s) : Closed(s, v)[i].missed = s[i].missed
         /\ Closed(s, v)[i].status = IF s[i].status \in Open THEN v ELSE s[i].status
  BY <1>1, <1>2 DEF Task
<1>4. QED BY <1>1, <1>3 DEF OverIfMissed

\* A submission keeps the tasks, or adds one.
LEMMA QueuedIsOver ==
  ASSUME SupplyInv, MissedIsOver, NEW l \in Leads, NEW r, NEW gone \in BOOLEAN,
         row[l].deleted => gone, QueuedIf(l, r)
  PROVE  /\ \A k \in Leads \ {l} : tasks'[k] = tasks[k]
         /\ OverIfMissed(tasks'[l], gone)
<1>1. tasks \in [Leads -> Seq(Task)] BY DEF SupplyInv, SupplyTypeOK
<1>2. OverIfMissed(tasks[l], gone) /\ tasks[l] \in Seq(Task)
  BY <1>1 DEF MissedIsOver, OverIfMissed
<1>3. CASE UNCHANGED tasks BY <1>2, <1>3
<1>4. CASE AddTask(l, "PENDING")
  <2>1. OverIfMissed(Append(tasks[l], NewTask("PENDING")), gone)
    BY <1>2, NewTaskMissedNobody DEF VerificationStatuses, ActiveTaskStatuses
  <2>2. tasks' = [tasks EXCEPT ![l] = Append(tasks[l], NewTask("PENDING"))]
    BY <1>4 DEF AddTask
  <2>3. QED BY <1>1, <2>1, <2>2
<1>5. QED BY <1>3, <1>4 DEF QueuedIf
\* The steps of requests.
LEMMA RequestsKeepOver ==
  ASSUME SupplyInv, MissedIsOver, NEW c \in Callers,
         \/ \E l \in Leads, p \in Phones \cup {"none"} : BeginEntry(c, l, p)
         \/ \E l \in Leads, kind \in {"submit", "discard"} : ReadDraft(c, l, kind)
         \/ CommitEntry(c) \/ Abort(c) \/ DiscardDraft(c) \/ SubmitDraft(c)
  PROVE  MissedIsOver'
<1>1. row \in [Leads -> LeadRow] /\ tasks \in [Leads -> Seq(Task)]
  BY DEF SupplyInv, SupplyTypeOK
<1>2. CASE UNCHANGED <<row, tasks>>
  BY <1>2, TasksStayOver
<1>3. CASE CommitEntry(c)
  <2>0. session[c].kind = "enter" BY <1>3 DEF CommitEntry
  <2>a. session[c].lead \in Leads
    BY <2>0 DEF SupplyInv, SupplyTypeOK, Session, Idle
  <2>1. PICK l \in Leads : l = session[c].lead /\ row[l].status = "NONE" /\ tasks[l] = <<>>
    BY <2>0, <2>a DEF SupplyInv, RequestIsSound, NoTaskBeforeEntry
  <2>2. \/ UNCHANGED tasks
        \/ AddTask(l, "ASSIGNED")
    BY <1>3, <2>1 DEF CommitEntry
  <2>3. \A k \in Leads \ {l} : tasks'[k] = tasks[k] /\ row'[k] = row[k]
    <3>1. \E r : row' = [row EXCEPT ![l] = r]
      BY <1>3, <2>1 DEF CommitEntry, SetRow
    <3>2. QED BY <1>1, <2>2, <3>1 DEF AddTask
  <2>4. OverIfMissed(tasks'[l], row'[l].deleted)
    <3>1. CASE UNCHANGED tasks BY <2>1, <3>1 DEF OverIfMissed
    <3>2. CASE AddTask(l, "ASSIGNED")
      <4>1. tasks'[l] = Append(<<>>, NewTask("ASSIGNED"))
        BY <1>1, <2>1, <3>2 DEF AddTask
      <4>2. <<>> \in Seq(Task) /\ OverIfMissed(<<>>, FALSE) BY DEF OverIfMissed
      <4>3. OverIfMissed(tasks'[l], FALSE)
        BY <4>1, <4>2, NewTaskMissedNobody DEF VerificationStatuses, ActiveTaskStatuses
      <4>4. QED BY <4>3 DEF OverIfMissed
    <3>3. QED BY <2>2, <3>1, <3>2
  <2>5. QED BY <2>3, <2>4 DEF MissedIsOver
<1>4. CASE DiscardDraft(c)
  <2>1. /\ tasks' = [tasks EXCEPT ![session[c].lead] = <<>>]
        /\ \E r : row' = [row EXCEPT ![session[c].lead] = r]
    BY <1>4 DEF DiscardDraft, SetRow
  <2>2. \A l \in Leads : tasks'[l] = <<>> \/ (tasks'[l] = tasks[l] /\ row'[l] = row[l])
    BY <1>1, <2>1
  <2>3. QED BY <2>2 DEF MissedIsOver, OverIfMissed
<1>5. CASE SubmitDraft(c)
  <2>a. /\ session[c].lead \in Leads /\ session[c].read \in LeadRow
    BY <1>5 DEF SubmitDraft, SupplyInv, SupplyTypeOK, Session, Idle
  <2>1. PICK l \in Leads, read \in LeadRow : l = session[c].lead /\ read = session[c].read
    BY <2>a
  <2>2. PICK o \in Outcomes(l, read) : SetRow(l, Merged(row[l], read, o)) /\ QueuedIf(l, o)
    BY <1>5, <2>1 DEF SubmitDraft
  <2> DEFINE r == Merged(row[l], read, o)
  <2>3. r \in LeadRow /\ r.deleted = row[l].deleted
    BY <1>1, OutcomesAreRows, MergedIsARow, MergedColumns
  <2> HIDE DEF r
  <2>4. SetRow(l, r) BY <2>2 DEF r
  <2>5. r.deleted \in BOOLEAN BY <2>3 DEF LeadRow
  <2>6. /\ \A k \in Leads \ {l} : tasks'[k] = tasks[k]
        /\ OverIfMissed(tasks'[l], r.deleted)
    BY <2>2, <2>3, <2>5, QueuedIsOver
  <2>7. QED BY <2>3, <2>4, <2>6, OneLeadStaysOver
<1>6. QED BY <1>2, <1>3, <1>4, <1>5 DEF BeginEntry, ReadDraft, Abort

\* The steps that leave the tasks alone.
LEMMA RowsKeepOver ==
  ASSUME SupplyInv, MissedIsOver, NEW l \in Leads,
         \/ \E p \in Phones \cup {"none"}, loc \in BOOLEAN : UpdateDraft(l, p, loc)
         \/ ReviewRefused(l) \/ ReviseRejected(l) \/ OverrideDuplicate(l) \/ ReopenClosed(l)
         \/ ReopenForCorrection(l) \/ TransferSupplied(l) \/ Dispatch(l) \/ ComeBack(l)
  PROVE  MissedIsOver'
<1>1. row \in [Leads -> LeadRow] /\ row[l] \in LeadRow BY DEF SupplyInv, SupplyTypeOK
<1>a. ASSUME NEW r, r.deleted = row[l].deleted, SetRow(l, r)
      PROVE  \A k \in Leads : row[k].deleted => row'[k].deleted
  BY <1>1, <1>a DEF SetRow
<1>b. \A r \in LeadRow : \A s : /\ [r EXCEPT !.status = s].deleted = r.deleted
                             /\ [r EXCEPT !.dup = s].deleted = r.deleted
  BY DEF LeadRow
<1>2. UNCHANGED tasks /\ \A k \in Leads : row[k].deleted => row'[k].deleted
  <2>1. CASE \E p \in Phones \cup {"none"}, loc \in BOOLEAN : UpdateDraft(l, p, loc)
    <3>1. PICK p \in Phones \cup {"none"}, loc \in BOOLEAN : UpdateDraft(l, p, loc) BY <2>1
    <3>2. [row[l] EXCEPT !.phone = p, !.located = loc].deleted = row[l].deleted
      BY <1>1 DEF LeadRow
    <3>3. QED BY <1>a, <3>1, <3>2 DEF UpdateDraft
  <2>2. CASE ReviewRefused(l) BY <1>1, <2>2 DEF ReviewRefused, SetRow, LeadRow
  <2>3. CASE ReviseRejected(l) BY <1>1, <2>3 DEF ReviseRejected, SetRow, LeadRow
  <2>4. CASE OverrideDuplicate(l)
    <3> DEFINE r == [row[l] EXCEPT !.dup = "OVERRIDDEN", !.reverify = FALSE]
    <3>1. r \in LeadRow /\ r.deleted = row[l].deleted BY <1>1 DEF LeadRow
    <3>2. /\ UNCHANGED tasks
          /\ \/ SetRow(l, [row[l] EXCEPT !.dup = "OVERRIDDEN"])
             \/ \E s : SetRow(l, [r EXCEPT !.status = s])
      BY <2>4 DEF OverrideDuplicate
    <3> HIDE DEF r
    <3>3. CASE SetRow(l, [row[l] EXCEPT !.dup = "OVERRIDDEN"])
      <4>1. PICK q : q = [row[l] EXCEPT !.dup = "OVERRIDDEN"] OBVIOUS
      <4>2. q.deleted = row[l].deleted BY <1>1, <1>b, <4>1
      <4>3. SetRow(l, q) BY <3>3, <4>1
      <4>4. \A k \in Leads : row[k].deleted => row'[k].deleted BY <1>a, <4>2, <4>3
      <4>5. QED BY <3>2, <4>4
    <3>4. ASSUME NEW s, SetRow(l, [r EXCEPT !.status = s])
          PROVE  \A k \in Leads : row[k].deleted => row'[k].deleted
      <4>1. PICK q : q = [r EXCEPT !.status = s] OBVIOUS
      <4>2. q.deleted = row[l].deleted BY <1>b, <3>1, <4>1
      <4>3. SetRow(l, q) BY <3>4, <4>1
      <4>4. QED BY <1>a, <4>2, <4>3
    <3>5. QED BY <3>2, <3>3, <3>4
  <2>5. CASE ReopenClosed(l) BY <1>1, <2>5 DEF ReopenClosed, SetRow, LeadRow
  <2>6. CASE ReopenForCorrection(l) BY <1>1, <2>6 DEF ReopenForCorrection, SetRow, LeadRow
  <2>7. CASE TransferSupplied(l)
    <3>1. PICK d : SetRow(l, [row[l] EXCEPT !.dup = d, !.reverify = FALSE])
            \/ SetRow(l, [row[l] EXCEPT !.dup = d, !.reverify = FALSE, !.approved = TRUE,
                                        !.status = "READY_DISPATCH"])
      BY <2>7 DEF TransferSupplied
    <3>2. /\ [row[l] EXCEPT !.dup = d, !.reverify = FALSE].deleted = row[l].deleted
          /\ [row[l] EXCEPT !.dup = d, !.reverify = FALSE, !.approved = TRUE,
                            !.status = "READY_DISPATCH"].deleted = row[l].deleted
      BY <1>1 DEF LeadRow
    <3>3. QED BY <1>a, <2>7, <3>1, <3>2 DEF TransferSupplied
  <2>8. CASE Dispatch(l) BY <1>1, <2>8 DEF Dispatch, SetRow, LeadRow
  <2>9. CASE ComeBack(l) BY <1>1, <2>9 DEF ComeBack, SetRow, LeadRow
  <2>10. QED BY <2>1, <2>2, <2>3, <2>4, <2>5, <2>6, <2>7, <2>8, <2>9
<1>3. QED BY <1>2, TasksStayOver

\* Submission and corrections of a row that is locked.
LEMMA LockedKeepsOver ==
  ASSUME SupplyInv, MissedIsOver, NEW l \in Leads,
         \/ ReviewQualified(l) \/ TransferDraft(l)
         \/ \E moved, loc \in BOOLEAN : CorrectLead(l, moved, loc)
  PROVE  MissedIsOver'
<1>1. row \in [Leads -> LeadRow] /\ row[l] \in LeadRow /\ row[l].deleted \in BOOLEAN
      /\ tasks \in [Leads -> Seq(Task)] /\ tasks[l] \in Seq(Task)
  BY DEF SupplyInv, SupplyTypeOK, LeadRow
<1>2. OverIfMissed(tasks[l], row[l].deleted) BY DEF MissedIsOver
<1>3. ASSUME NEW r \in LeadRow, r.deleted = row[l].deleted, NEW o \in Outcomes(l, r),
             SetRow(l, o), QueuedIf(l, o)
      PROVE  MissedIsOver'
  <2>1. o \in LeadRow /\ o.deleted = row[l].deleted BY <1>3, OutcomesAreRows
  <2>2. /\ \A k \in Leads \ {l} : tasks'[k] = tasks[k]
        /\ OverIfMissed(tasks'[l], o.deleted)
    BY <1>1, <1>3, <2>1, QueuedIsOver
  <2>3. QED BY <1>3, <2>1, <2>2, OneLeadStaysOver
<1>4. CASE ReviewQualified(l) \/ TransferDraft(l)
  BY <1>1, <1>3, <1>4 DEF ReviewQualified, TransferDraft, SubmitLocked
<1>5. ASSUME NEW moved \in BOOLEAN, NEW loc \in BOOLEAN, CorrectLead(l, moved, loc)
      PROVE  MissedIsOver'
  <2> DEFINE r == [row[l] EXCEPT !.located = loc]
             w == [r EXCEPT !.status = "PENDING_TELESALES_VERIFY", !.approved = FALSE,
                            !.reverify = FALSE]
  <2>1. /\ r \in LeadRow /\ r.deleted = row[l].deleted
        /\ w \in LeadRow /\ w.deleted = row[l].deleted
    BY <1>1 DEF LeadRow, SupplyStatuses
  <2> HIDE DEF r, w
  <2>2. CASE RestartVerification(l, r)
    <3>1. SetRow(l, w) /\ tasks' = [tasks EXCEPT ![l] = Append(Released(l), NewTask("PENDING"))]
      BY <2>2 DEF RestartVerification, w
    <3>2. PICK f : f = Closed(tasks[l], "RELEASED") OBVIOUS
    <3>3. f = Released(l) BY <3>2 DEF Released, Closed, Open
    <3>4. f \in Seq(Task) /\ OverIfMissed(f, row[l].deleted)
      BY <1>1, <1>2, <3>2, TasksAreClosed, ClosedIsOver DEF VerificationStatuses
    <3>5. OverIfMissed(Append(f, NewTask("PENDING")), row[l].deleted)
      BY <1>1, <3>4, NewTaskMissedNobody DEF VerificationStatuses, ActiveTaskStatuses
    <3>6. OverIfMissed(tasks'[l], w.deleted) /\ \A k \in Leads \ {l} : tasks'[k] = tasks[k]
      BY <1>1, <2>1, <3>1, <3>3, <3>5
    <3>7. QED BY <2>1, <3>1, <3>6, OneLeadStaysOver
  <2>3. CASE \E o \in Outcomes(l, r) : SetRow(l, o) /\ QueuedIf(l, o)
    BY <1>3, <2>1, <2>3
  <2>4. CASE SetRow(l, w) /\ AddTask(l, "PENDING")
    <3>1. OverIfMissed(Append(tasks[l], NewTask("PENDING")), row[l].deleted)
      BY <1>1, <1>2, NewTaskMissedNobody DEF VerificationStatuses, ActiveTaskStatuses
    <3>2. OverIfMissed(tasks'[l], w.deleted) /\ \A k \in Leads \ {l} : tasks'[k] = tasks[k]
      BY <1>1, <2>1, <2>4, <3>1 DEF AddTask
    <3>3. QED BY <2>1, <2>4, <3>2, OneLeadStaysOver
  <2>5. CASE SetRow(l, r) /\ UNCHANGED tasks
    <3>1. \A k \in Leads : row[k].deleted => row'[k].deleted
      BY <1>1, <2>1, <2>5 DEF SetRow
    <3>2. QED BY <2>5, <3>1, TasksStayOver
  <2>6. QED BY <1>5, <2>2, <2>3, <2>4, <2>5 DEF CorrectLead, r, w
<1>6. QED BY <1>4, <1>5

\* The round of telesales, and deletion.
LEMMA RoundKeepsOver ==
  ASSUME SupplyInv, MissedIsOver, NEW l \in Leads,
         \/ \E i \in DOMAIN tasks[l] : StartTask(l, i) \/ SubmitVerification(l, i) \/ Dispose(l, i)
         \/ AssignVerification(l) \/ Requeue(l) \/ DeleteLead(l) \/ DeleteTestLead(l)
  PROVE  MissedIsOver'
<1>1. row \in [Leads -> LeadRow] /\ row[l] \in LeadRow /\ row[l].deleted \in BOOLEAN
      /\ tasks \in [Leads -> Seq(Task)] /\ tasks[l] \in Seq(Task)
  BY DEF SupplyInv, SupplyTypeOK, LeadRow
<1>2. OverIfMissed(tasks[l], row[l].deleted) BY DEF MissedIsOver
<1>3. DOMAIN tasks[l] = 1..Len(tasks[l]) /\ Len(tasks[l]) \in Nat
      /\ \A i \in DOMAIN tasks[l] : tasks[l][i] \in Task
  BY <1>1, LenProperties, ElementOfSeq
<1>4. ASSUME NEW i \in DOMAIN tasks[l], NEW t \in Task,
             t.missed => t.status \in {"SUBMITTED", "RELEASED"} \/ row[l].deleted,
             tasks' = [tasks EXCEPT ![l][i] = t], \A k \in Leads : row[k].deleted => row'[k].deleted
      PROVE  MissedIsOver'
  <2>1. OverIfMissed([tasks[l] EXCEPT ![i] = t], row[l].deleted)
    BY <1>1, <1>2, <1>3, <1>4, SetTaskIsOver
  <2>2. tasks'[l] = [tasks[l] EXCEPT ![i] = t] /\ \A k \in Leads \ {l} : tasks'[k] = tasks[k]
    BY <1>1, <1>4
  <2>3. OverIfMissed(tasks'[l], row'[l].deleted)
    BY <1>4, <2>1, <2>2 DEF OverIfMissed
  <2>4. QED BY <1>4, <2>2, <2>3 DEF MissedIsOver, OverIfMissed
<1>5. ASSUME NEW s \in VerificationStatuses, NEW i \in DOMAIN tasks[l]
      PROVE  /\ [tasks[l][i] EXCEPT !.status = s] \in Task
             /\ [tasks[l][i] EXCEPT !.status = s].status = s
             /\ [tasks[l][i] EXCEPT !.status = s].missed = tasks[l][i].missed
  BY <1>3 DEF Task
<1>6. UNCHANGED row => \A k \in Leads : row[k].deleted => row'[k].deleted OBVIOUS
<1>7. ASSUME NEW i \in DOMAIN tasks[l], StartTask(l, i) PROVE MissedIsOver'
  <2>1. tasks[l][i].missed => row[l].deleted
    BY <1>2, <1>3, <1>7 DEF StartTask, OverIfMissed
  <2>2. tasks' = [tasks EXCEPT ![l][i] = [tasks[l][i] EXCEPT !.status = "IN_PROGRESS"]]
    BY <1>1, <1>3, <1>7 DEF StartTask, SetTask
  <2>3. QED BY <1>4, <1>5, <1>6, <1>7, <2>1, <2>2
    DEF StartTask, VerificationStatuses, ActiveTaskStatuses
<1>8. ASSUME NEW i \in DOMAIN tasks[l], SubmitVerification(l, i) PROVE MissedIsOver'
  <2>1. PICK passed \in BOOLEAN, missed \in BOOLEAN : tasks' = [tasks EXCEPT
          ![l][i] = [status |-> "SUBMITTED", passed |-> passed, missed |-> missed]]
    BY <1>8 DEF SubmitVerification
  <2>2. [status |-> "SUBMITTED", passed |-> passed, missed |-> missed] \in Task
    BY DEF Task, VerificationStatuses
  <2>3. \A k \in Leads : row[k].deleted => row'[k].deleted
    BY <1>1, <1>8 DEF SubmitVerification, SetRow, LeadRow
  <2>4. QED BY <1>4, <2>1, <2>2, <2>3
<1>9. ASSUME NEW i \in DOMAIN tasks[l], Dispose(l, i) PROVE MissedIsOver'
  <2>1. tasks' = [tasks EXCEPT ![l][i] = [tasks[l][i] EXCEPT !.status = "RELEASED"]]
    BY <1>1, <1>3, <1>9 DEF Dispose, SetTask
  <2>2. \A k \in Leads : row[k].deleted => row'[k].deleted
    <3> DEFINE r == [row[l] EXCEPT !.approved = FALSE, !.reverify = FALSE]
    <3>1. r \in LeadRow /\ r.deleted = row[l].deleted BY <1>1 DEF LeadRow
    <3>2. PICK s : SetRow(l, [r EXCEPT !.status = s, !.approved = TRUE])
                   \/ SetRow(l, [r EXCEPT !.status = s])
      BY <1>9 DEF Dispose
    <3> HIDE DEF r
    <3>3. /\ [r EXCEPT !.status = s, !.approved = TRUE].deleted = row[l].deleted
          /\ [r EXCEPT !.status = s].deleted = row[l].deleted
      BY <3>1 DEF LeadRow
    <3>4. QED BY <1>1, <3>2, <3>3 DEF SetRow
  <2>3. QED BY <1>4, <1>5, <2>1, <2>2 DEF VerificationStatuses
<1>10. CASE AssignVerification(l)
  <2>1. ASSUME NEW i \in Active(l), tasks' = [tasks EXCEPT ![l][i] = NewTask("ASSIGNED")],
               UNCHANGED row
        PROVE  MissedIsOver'
    <3>1. i \in DOMAIN tasks[l] BY <2>1 DEF Active
    <3>2. NewTask("ASSIGNED") \in Task /\ ~NewTask("ASSIGNED").missed
      BY DEF NewTask, Task, VerificationStatuses, ActiveTaskStatuses
    <3>3. QED BY <1>4, <1>6, <2>1, <3>1, <3>2
  <2>2. ASSUME AddTask(l, "ASSIGNED"),
               SetRow(l, [row[l] EXCEPT !.status = "PENDING_TELESALES_VERIFY", !.reverify = FALSE])
        PROVE  MissedIsOver'
    <3>1. OverIfMissed(Append(tasks[l], NewTask("ASSIGNED")), row[l].deleted)
      BY <1>1, <1>2, NewTaskMissedNobody DEF VerificationStatuses, ActiveTaskStatuses
    <3>2. tasks'[l] = Append(tasks[l], NewTask("ASSIGNED"))
          /\ \A k \in Leads \ {l} : tasks'[k] = tasks[k]
      BY <1>1, <2>2 DEF AddTask
    <3>3. row'[l].deleted = row[l].deleted /\ \A k \in Leads \ {l} : row'[k] = row[k]
      BY <1>1, <2>2 DEF SetRow, LeadRow
    <3>4. QED BY <3>1, <3>2, <3>3 DEF MissedIsOver
  <2>3. QED BY <1>10, <2>1, <2>2 DEF AssignVerification
<1>11. CASE Requeue(l)
  <2> DEFINE f == [tasks[l] EXCEPT ![Len(tasks[l])].status = "RELEASED"]
             t == [tasks[l][Len(tasks[l])] EXCEPT !.status = "RELEASED"]
  <2>1. Len(tasks[l]) \in DOMAIN tasks[l]
    BY <1>1, <1>3, <1>11, EmptySeq DEF Requeue, Unreached
  <2>2. t \in Task /\ t.status = "RELEASED" BY <1>5, <2>1 DEF VerificationStatuses
  <2>3. f = [tasks[l] EXCEPT ![Len(tasks[l])] = t] BY <1>1, <2>1
  <2> HIDE DEF f, t
  <2>4. f \in Seq(Task) BY <1>1, <1>3, <2>1, <2>2, <2>3, ExceptSeq
  <2>5. OverIfMissed(f, row[l].deleted)
    BY <1>1, <1>2, <1>3, <2>1, <2>2, <2>3, SetTaskIsOver
  <2>6. OverIfMissed(Append(f, NewTask("PENDING")), row[l].deleted)
    BY <1>1, <2>4, <2>5, NewTaskMissedNobody DEF VerificationStatuses, ActiveTaskStatuses
  <2>7. tasks'[l] = Append(f, NewTask("PENDING")) /\ \A k \in Leads \ {l} : tasks'[k] = tasks[k]
    BY <1>1, <1>11 DEF Requeue, f, Newest
  <2>8. row'[l].deleted = row[l].deleted /\ \A k \in Leads \ {l} : row'[k] = row[k]
    BY <1>1, <1>11 DEF Requeue, SetRow, LeadRow
  <2>9. QED BY <2>6, <2>7, <2>8 DEF MissedIsOver
<1>12. CASE DeleteLead(l)
  <2>1. /\ row' = [row EXCEPT ![l] = [row[l] EXCEPT !.deleted = TRUE]]
        /\ tasks' = [tasks EXCEPT ![l] = Closed(tasks[l], "CANCELLED")]
    BY <1>1, <1>12 DEF DeleteLead, SetRow, Closed, Open
  <2>2. row'[l].deleted /\ \A k \in Leads \ {l} : row'[k] = row[k] /\ tasks'[k] = tasks[k]
    BY <1>1, <2>1 DEF LeadRow
  <2>3. QED BY <2>2 DEF MissedIsOver, OverIfMissed
<1>13. CASE DeleteTestLead(l)
  <2>1. tasks' = [tasks EXCEPT ![l] = <<>>] /\ \E r : row' = [row EXCEPT ![l] = r]
    BY <1>13 DEF DeleteTestLead, SetRow
  <2>2. tasks'[l] = <<>> /\ \A k \in Leads \ {l} : row'[k] = row[k] /\ tasks'[k] = tasks[k]
    BY <1>1, <2>1
  <2>3. QED BY <2>2 DEF MissedIsOver, OverIfMissed
<1>14. QED BY <1>7, <1>8, <1>9, <1>10, <1>11, <1>12, <1>13

\* Every step.
LEMMA MissedStep ==
  ASSUME SupplyInv, MissedIsOver, [SupplyNext]_supplyVars
  PROVE  MissedIsOver'
<1>1. CASE UNCHANGED supplyVars
  BY <1>1, TasksStayOver DEF supplyVars
<1>2. CASE SupplyNext
  BY <1>2, RequestsKeepOver, RowsKeepOver, LockedKeepsOver, RoundKeepsOver DEF SupplyNext
<1>3. QED BY <1>1, <1>2

\* The pages offer another round of telesales exactly where the handler accepts one,
\* also for leads that were overtaken, and the pool lists no lead that is in a round.
\* (can_requeue_pre_dispatch, public_pool_lead_conditions)
THEOREM PagesAreTrue == SupplySpec => []PagesOfferWhatIsAccepted
<1>1. SupplyInit => MissedIsOver BY DEF SupplyInit, MissedIsOver, OverIfMissed
<1>2. SupplyInv /\ MissedIsOver => PagesOfferWhatIsAccepted
  <2> SUFFICES ASSUME SupplyInv, MissedIsOver PROVE PagesOfferWhatIsAccepted OBVIOUS
  <2>1. ASSUME NEW l \in Leads, Live(l)
        PROVE  OffersRequeue(l) <=> row[l].status \in Requeueable /\ Unreached(l)
    <3>1. tasks[l] \in Seq(Task) /\ ~row[l].deleted BY <2>1 DEF SupplyInv, SupplyTypeOK, Live
    <3>2. tasks[l] # <<>> => Len(tasks[l]) \in 1..Len(tasks[l])
      BY <3>1, EmptySeq, LenProperties
    <3>3. tasks[l] # <<>> /\ tasks[l][Len(tasks[l])].missed =>
            tasks[l][Len(tasks[l])].status \in {"SUBMITTED", "RELEASED"}
      BY <3>1, <3>2 DEF MissedIsOver, OverIfMissed
    <3>4. QED BY <3>3 DEF OffersRequeue, LatestTask, Unreached, Newest
  <2>2. ASSUME NEW l \in ListedInPool \ overtaken PROVE Active(l) \cup Submitted(l) = {}
    <3>1. l \in Leads /\ Live(l) /\ row[l].status \in {"PUBLIC_POOL", "DRAFT", "DUPLICATE"}
      BY <2>2 DEF ListedInPool
    <3>2. RoundIsTheNewest(l) BY <2>2, <3>1 DEF SupplyInv, LeadIsSound
    <3>3. DOMAIN tasks[l] = 1..Len(tasks[l])
      BY <3>1, LenProperties DEF SupplyInv, SupplyTypeOK
    <3>4. QED BY <3>1, <3>2, <3>3 DEF RoundIsTheNewest, Active, Submitted, Open
  <2>3. \A l \in ListedForPlatform \cup ListedInPool
               \cup UNION {ListedForSupplier(SourceOf[k]) : k \in Leads} : l \in Leads /\ Live(l)
    <3>1. \A k : \A l \in ListedForSupplier(k) : l \in Leads /\ Live(l)
      BY DEF ListedForSupplier
    <3>2. \A l \in ListedForPlatform \cup ListedInPool : l \in Leads /\ Live(l)
      BY DEF ListedForPlatform, ListedInPool
    <3>3. QED BY <3>1, <3>2
  <2>4. QED BY <2>1, <2>2, <2>3 DEF PagesOfferWhatIsAccepted
<1>3. SupplyInv /\ MissedIsOver /\ [SupplyNext]_supplyVars => MissedIsOver' BY MissedStep
<1>4. QED BY <1>1, <1>2, <1>3, SupplyIsInvariant, PTL DEF SupplySpec
=============================================================================
