------------------------ MODULE IndependentParts_proofs ------------------------
(***************************************************************************)
(* Proofs about the parts that stand by themselves.                        *)
(*                                                                         *)
(* ReturnEvidence: that every verification was asked for with new material,*)
(* that those who judged see what they judged and no more, and that pages, *)
(* queues and forms agree.                                                 *)
(*                                                                         *)
(* KeyedRequests: that a key has one outcome.                              *)
(*                                                                         *)
(* ClaimFlight: that a shared answer was true for everybody it is given to.*)
(*                                                                         *)
(* NotificationOutbox: its type invariant, that a known delivery is not    *)
(* repeated, and that nobody hears about a deleted lead.                   *)
(*                                                                         *)
(* LeadExport: its type invariant, that no file is forgotten in the        *)
(* storage, that a published file can be fetched until it expires, and     *)
(* that every step is one the requester was promised.                      *)
(***************************************************************************)
EXTENDS NotificationOutbox, LeadExport, ReturnEvidence, KeyedRequests, ClaimFlight,
        FiniteSetTheorems, TLAPS

-----------------------------------------------------------------------------
\* ReturnEvidence

LastCheck == Len(checks)
ToldOfLast == IF checks = <<>> THEN 0 ELSE checks[LastCheck].told

\* A verification knows files of the request, its snapshot is of its own answer, and
\* all but the last are answered and released.
SnapshotsAreOwn == \A t \in 1..Len(checks) :
  /\ checks[t].basis <= Len(files) /\ checks[t].told <= Len(files)
  /\ checks[t].kept \in {0, checks[t].told}
  /\ checks[t].told > 0 => checks[t].by \in Agents
  /\ t < LastCheck => checks[t].told > 0 /\ checks[t].status = "RELEASED"

CurrentIsLast ==
  /\ application \in {"NONE", "DRAFT", "EXPIRED"} => currentCheck = 0
  /\ application \in {"VERIFYING", "REVIEWING", "NEED_MORE", "REJECTED", "APPROVED"} =>
       currentCheck = LastCheck /\ checks # <<>>
  /\ application = "CANCELLED" => leadErased /\ currentCheck \in {0, LastCheck}

\* How the last verification stands follows from the request; an answer that waits for
\* its decision, or had its last one, was given on all files there are.
LastFits == checks # <<>> =>
  /\ application \in {"NONE", "DRAFT", "EXPIRED", "NEED_MORE", "REJECTED"} =>
       checks[LastCheck].status = "RELEASED" /\ checks[LastCheck].told > 0
  /\ application = "VERIFYING" =>
       checks[LastCheck].status \in OpenChecks /\ checks[LastCheck].told = 0
  /\ application = "REVIEWING" =>
       checks[LastCheck].status = "SUBMITTED" /\ checks[LastCheck].told > 0
  /\ application = "APPROVED" => checks[LastCheck].status \in {"RELEASED", "CANCELLED"}
  /\ application \in {"REVIEWING", "REJECTED", "APPROVED"} /\ checks[LastCheck].told > 0 =>
       checks[LastCheck].told = Len(files)
  /\ checks[LastCheck].status \in {"ASSIGNED", "IN_PROGRESS"} => checks[LastCheck].by \in Agents
  /\ leadErased => checks[LastCheck].status \in {"RELEASED", "CANCELLED"}

\* The baseline of new material is what the last answer was given on, and what came
\* since came from the receiver.
BaselinesFit ==
  /\ application \in {"NONE", "DRAFT", "EXPIRED"} => reopenedAt = ToldOfLast
  /\ application = "NEED_MORE" => askedAt = ToldOfLast
  /\ application = "NONE" => files = <<>> /\ checks = <<>>
  /\ application \in {"DRAFT", "NEED_MORE"} =>
       \A i \in 1..Len(files) : i > ToldOfLast => files[i].by \in Receivers

EvidenceInv ==
  /\ EvidenceTypeOK /\ SnapshotsAreOwn /\ CurrentIsLast /\ LastFits /\ BaselinesFit
  /\ EachRoundBringsNews

-----------------------------------------------------------------------------
\* Facts about sequences and rows.

LEMMA LastIsNat ==
  ASSUME EvidenceTypeOK
  PROVE  /\ Len(checks) \in Nat /\ Len(files) \in Nat
         /\ DOMAIN checks = 1..Len(checks) /\ DOMAIN files = 1..Len(files)
         /\ \A t \in 1..Len(checks) : checks[t] \in CheckRows
         /\ \A i \in 1..Len(files) : files[i] \in FileRows
         /\ checks # <<>> <=> Len(checks) > 0
BY DEF EvidenceTypeOK

\* One row of a verification is rewritten.
LEMMA RowRewritten ==
  ASSUME EvidenceTypeOK, NEW t \in 1..Len(checks), NEW r \in CheckRows,
         checks' = [checks EXCEPT ![t] = r]
  PROVE  /\ checks' \in Seq(CheckRows) /\ Len(checks') = Len(checks)
         /\ \A i \in 1..Len(checks) : checks'[i] = IF i = t THEN r ELSE checks[i]
         /\ checks' # <<>>
BY DEF EvidenceTypeOK

\* News is what a round before has not seen.
LEMMA NewsIsAFile ==
  ASSUME EvidenceTypeOK, NEW n \in Nat, NewSince(n)
  PROVE  \E i \in 1..Len(files) : i > n /\ files[i].content \notin ContentsUpTo(n)
<1>1. PICK x \in ContentsUpTo(Len(files)) : x \notin ContentsUpTo(n) BY DEF NewSince
<1>2. PICK i \in (1..Len(files)) \cap DOMAIN files : x = files[i].content
  BY <1>1 DEF ContentsUpTo
<1>3. i \in 1..Len(files) /\ i \in Nat /\ i >= 1 BY <1>2, LastIsNat
<1>4. ~(i \in 1..n) BY <1>1, <1>2 DEF ContentsUpTo
<1>5. i > n BY <1>3, <1>4
<1>6. QED BY <1>1, <1>2, <1>3, <1>5

LEMMA NoContentsAtFirst == ContentsUpTo(0) = {}
BY DEF ContentsUpTo

\* The contents of the first files stay when another is added.
LEMMA ContentsStay ==
  ASSUME EvidenceTypeOK, NEW r \in FileRows, files' = Append(files, r),
         NEW n \in Nat, n <= Len(files)
  PROVE  {files'[i].content : i \in (1..n) \cap DOMAIN files'} = ContentsUpTo(n)
BY DEF EvidenceTypeOK, ContentsUpTo

-----------------------------------------------------------------------------
LEMMA EvidenceStarts == ASSUME EvidenceInit PROVE EvidenceInv
<1> USE DEF EvidenceInit
<1>1. EvidenceTypeOK
  <2>1. files \in Seq(FileRows) /\ checks \in Seq(CheckRows) OBVIOUS
  <2>2. author \in Receivers \cup {NoOne} /\ assignee \in Receivers \cup {NoOne} OBVIOUS
  <2>3. application \in ApplicationStates BY DEF ApplicationStates
  <2>4. QED BY <2>1, <2>2, <2>3 DEF EvidenceTypeOK
<1>2. SnapshotsAreOwn /\ CurrentIsLast /\ LastFits BY DEF SnapshotsAreOwn, CurrentIsLast, LastFits
<1>3. BaselinesFit BY DEF BaselinesFit, ToldOfLast
<1>4. EachRoundBringsNews BY DEF EachRoundBringsNews
<1>5. QED BY <1>1, <1>2, <1>3, <1>4 DEF EvidenceInv

-----------------------------------------------------------------------------
\* Files and verifications stay.

LEMMA NothingShownChanges ==
  ASSUME EvidenceInv, EvidenceTypeOK',
         UNCHANGED <<files, checks, currentCheck, reopenedAt, askedAt, leadErased>>,
         \/ application' = application
         \/ application = "NONE" /\ application' = "DRAFT"
         \/ application = "DRAFT" /\ application' = "EXPIRED"
  PROVE  EvidenceInv'
<1> USE DEF EvidenceInv
<1>1. SnapshotsAreOwn' BY DEF SnapshotsAreOwn, LastCheck
<1>2. CurrentIsLast' BY DEF CurrentIsLast, LastCheck
<1>3. LastFits' BY DEF LastFits, LastCheck, BaselinesFit
<1>4. BaselinesFit' BY DEF BaselinesFit, ToldOfLast, LastCheck
<1>5. EachRoundBringsNews' BY DEF EachRoundBringsNews, FilesBefore, Answered, ContentsUpTo
<1>6. QED BY <1>1, <1>2, <1>3, <1>4, <1>5

LEMMA CreateDraftKeeps ==
  ASSUME EvidenceInv, NEW u \in Receivers, CreateDraft(u) PROVE EvidenceInv'
<1>1. EvidenceTypeOK' BY DEF CreateDraft, EvidenceInv, EvidenceTypeOK, ApplicationStates
<1>2. QED BY <1>1, NothingShownChanges DEF CreateDraft

LEMMA ExpireDraftKeeps == ASSUME EvidenceInv, ExpireDraft PROVE EvidenceInv'
<1>1. EvidenceTypeOK' BY DEF ExpireDraft, EvidenceInv, EvidenceTypeOK, ApplicationStates
<1>2. QED BY <1>1, NothingShownChanges DEF ExpireDraft

LEMMA ReleaseRoundKeeps ==
  ASSUME EvidenceInv, NEW m \in BOOLEAN, ReleaseRound(m) PROVE EvidenceInv'
<1>1. EvidenceTypeOK' BY DEF ReleaseRound, EvidenceInv, EvidenceTypeOK, ApplicationStates
<1>2. QED BY <1>1, NothingShownChanges DEF ReleaseRound

LEMMA HandoverKeeps ==
  ASSUME EvidenceInv, NEW e \in Employees \cup {NoOne}, Handover(e) PROVE EvidenceInv'
<1>1. EvidenceTypeOK' BY DEF Handover, EvidenceInv, EvidenceTypeOK, Receivers
<1>2. QED BY <1>1, NothingShownChanges DEF Handover

LEMMA WindowEndsKeeps == ASSUME EvidenceInv, WindowEnds PROVE EvidenceInv'
<1>1. EvidenceTypeOK' BY DEF WindowEnds, EvidenceInv, EvidenceTypeOK
<1>2. QED BY <1>1, NothingShownChanges DEF WindowEnds

-----------------------------------------------------------------------------
\* A file more.

LEMMA FileAddedKeeps ==
  ASSUME EvidenceInv, NEW r \in FileRows, files' = Append(files, r),
         \/ application \in {"DRAFT", "NEED_MORE"} /\ r.by \in Receivers
         \/ application = "VERIFYING",
         UNCHANGED <<application, author, currentCheck, checks, reopenedAt, askedAt, holding,
                     windowOver, assignee, leadErased>>
  PROVE  EvidenceInv'
<1> USE DEF EvidenceInv
<1>1. EvidenceTypeOK' BY DEF EvidenceTypeOK
<1>2. /\ Len(files') = Len(files) + 1 /\ Len(files) \in Nat
      /\ \A i \in 1..Len(files) : files'[i] = files[i]
      /\ files'[Len(files) + 1] = r
  BY DEF EvidenceTypeOK
<1>3. SnapshotsAreOwn'
  <2> SUFFICES ASSUME NEW t \in 1..Len(checks)
               PROVE  /\ checks[t].basis <= Len(files') /\ checks[t].told <= Len(files')
                      /\ checks[t].kept \in {0, checks[t].told}
                      /\ checks[t].told > 0 => checks[t].by \in Agents
                      /\ t < LastCheck => checks[t].told > 0 /\ checks[t].status = "RELEASED"
    BY DEF SnapshotsAreOwn, LastCheck
  <2>1. checks[t].basis \in Nat /\ checks[t].told \in Nat BY LastIsNat DEF CheckRows
  <2>2. QED BY <1>2, <2>1 DEF SnapshotsAreOwn
<1>4. CurrentIsLast' BY DEF CurrentIsLast, LastCheck
<1>5. LastFits' BY DEF LastFits, LastCheck
<1>6. BaselinesFit' BY <1>2 DEF BaselinesFit, ToldOfLast, LastCheck
<1>7. EachRoundBringsNews'
  <2> SUFFICES ASSUME NEW t \in DOMAIN checks
               PROVE  /\ t > 1 => Answered(t - 1)'
                      /\ \E i \in (FilesBefore(t) + 1)..checks[t].basis :
                           /\ files'[i].by \in Receivers
                           /\ files'[i].content \notin ContentsUpTo(FilesBefore(t))'
    BY DEF EachRoundBringsNews, FilesBefore
  <2>1. t > 1 => Answered(t - 1) BY DEF EachRoundBringsNews
  <2>2. PICK i \in (FilesBefore(t) + 1)..checks[t].basis :
          files[i].by \in Receivers /\ files[i].content \notin ContentsUpTo(FilesBefore(t))
    BY DEF EachRoundBringsNews
  <2>3. t \in 1..Len(checks) BY LastIsNat
  <2>4. checks[t].basis \in Nat /\ checks[t].basis <= Len(files)
    BY <2>3, LastIsNat DEF CheckRows, SnapshotsAreOwn
  <2>5. FilesBefore(t) \in Nat /\ FilesBefore(t) <= Len(files)
    <3>1. CASE t = 1 BY <1>2, <3>1 DEF FilesBefore
    <3>2. CASE t # 1
      <4>1. t - 1 \in 1..Len(checks) BY <2>3, <3>2, LastIsNat
      <4>2. checks[t - 1].told \in Nat /\ checks[t - 1].told <= Len(files)
        BY <4>1, LastIsNat DEF CheckRows, SnapshotsAreOwn
      <4>3. QED BY <3>2, <4>2 DEF FilesBefore
    <3>3. QED BY <3>1, <3>2
  <2>6. i \in 1..Len(files) BY <1>2, <2>4, <2>5
  <2>7. files'[i] = files[i] BY <1>2, <2>6
  <2>8. ContentsUpTo(FilesBefore(t))' = ContentsUpTo(FilesBefore(t))
    BY <2>5, ContentsStay DEF ContentsUpTo, FilesBefore
  <2>9. QED BY <2>1, <2>2, <2>7, <2>8 DEF Answered
<1>8. QED BY <1>1, <1>3, <1>4, <1>5, <1>6, <1>7

LEMMA UploadByReceiverKeeps ==
  ASSUME EvidenceInv, NEW u \in Receivers, NEW f \in Contents, UploadByReceiver(u, f)
  PROVE  EvidenceInv'
<1>1. [content |-> f, by |-> u] \in FileRows BY DEF FileRows
<1>2. application \in {"DRAFT", "NEED_MORE"} BY DEF UploadByReceiver, MayUpload
<1>3. QED BY <1>1, <1>2, FileAddedKeeps DEF UploadByReceiver, AddFile

LEMMA UploadByAgentKeeps ==
  ASSUME EvidenceInv, NEW t \in DOMAIN checks, NEW f \in Contents, UploadByAgent(t, f)
  PROVE  EvidenceInv'
<1> USE DEF EvidenceInv
<1>1. t \in 1..Len(checks) /\ LastCheck \in Nat BY LastIsNat DEF LastCheck
<1>2. checks[t].status = "IN_PROGRESS" /\ application = "VERIFYING" BY DEF UploadByAgent, MayUploadAsAgent
<1>3. t = LastCheck BY <1>1, <1>2 DEF SnapshotsAreOwn, LastCheck
<1>4. checks # <<>> BY <1>1
<1>5. checks[t].by \in Agents BY <1>2, <1>3, <1>4 DEF LastFits
<1>6. [content |-> f, by |-> checks[t].by] \in FileRows BY <1>5 DEF FileRows
<1>7. QED BY <1>2, <1>6, FileAddedKeeps DEF UploadByAgent, AddFile, OnCheck

-----------------------------------------------------------------------------
\* A verification goes on.

\* Rewriting the last row keeps the rest, as long as it keeps its basis and is told
\* of files there are.
LEMMA LastRowChanges ==
  ASSUME EvidenceInv, checks # <<>>, NEW r \in CheckRows,
         checks' = [checks EXCEPT ![LastCheck] = r], files' = files,
         r.basis = checks[LastCheck].basis, r.told <= Len(files), r.kept \in {0, r.told},
         r.told > 0 => r.by \in Agents
  PROVE  /\ SnapshotsAreOwn' /\ EachRoundBringsNews'
         /\ checks' \in Seq(CheckRows) /\ checks' # <<>> /\ LastCheck' = LastCheck
         /\ checks'[LastCheck] = r
<1> USE DEF EvidenceInv
<1>1. LastCheck \in 1..Len(checks) /\ LastCheck = Len(checks) BY LastIsNat DEF LastCheck
<1>2. /\ checks' \in Seq(CheckRows) /\ Len(checks') = Len(checks)
      /\ \A i \in 1..Len(checks) : checks'[i] = IF i = LastCheck THEN r ELSE checks[i]
      /\ checks' # <<>>
  BY <1>1, RowRewritten
<1>3. LastCheck' = LastCheck BY <1>2 DEF LastCheck
<1>4. SnapshotsAreOwn'
  <2> SUFFICES ASSUME NEW t \in 1..Len(checks)
               PROVE  /\ checks'[t].basis <= Len(files) /\ checks'[t].told <= Len(files)
                      /\ checks'[t].kept \in {0, checks'[t].told}
                      /\ checks'[t].told > 0 => checks'[t].by \in Agents
                      /\ t < LastCheck => checks'[t].told > 0 /\ checks'[t].status = "RELEASED"
    BY <1>2, <1>3 DEF SnapshotsAreOwn
  <2>1. CASE t = LastCheck BY <1>1, <1>2, <2>1, LastIsNat DEF SnapshotsAreOwn
  <2>2. CASE t # LastCheck BY <1>2, <2>2 DEF SnapshotsAreOwn
  <2>3. QED BY <2>1, <2>2
<1>5. EachRoundBringsNews'
  <2> SUFFICES ASSUME NEW t \in 1..Len(checks)
               PROVE  /\ t > 1 => Answered(t - 1)'
                      /\ \E i \in (FilesBefore(t)' + 1)..checks'[t].basis :
                           /\ files[i].by \in Receivers
                           /\ files[i].content \notin ContentsUpTo(FilesBefore(t))'
    <3>1. DOMAIN checks' = 1..Len(checks) BY <1>2
    <3>2. QED BY <3>1 DEF EachRoundBringsNews
  <2>1. t \in DOMAIN checks BY LastIsNat
  <2>2. checks'[t].basis = checks[t].basis BY <1>2
  <2>3. t > 1 => t - 1 \in 1..Len(checks) /\ t - 1 # LastCheck BY <1>1, LastIsNat
  <2>4. FilesBefore(t)' = FilesBefore(t) /\ (t > 1 => Answered(t - 1)' = Answered(t - 1))
    BY <1>2, <2>3, LastIsNat DEF FilesBefore, Answered
  <2>5. ContentsUpTo(FilesBefore(t))' = ContentsUpTo(FilesBefore(t)) BY <2>4 DEF ContentsUpTo
  <2>6. QED BY <2>1, <2>2, <2>4, <2>5 DEF EachRoundBringsNews
<1>6. QED BY <1>1, <1>2, <1>3, <1>4, <1>5

\* Only the last verification is open.
LEMMA OpenIsLast ==
  ASSUME EvidenceInv, ~leadErased, NEW t \in DOMAIN checks, checks[t].status \in OpenChecks
  PROVE  /\ t = LastCheck /\ checks # <<>> /\ application = "VERIFYING" /\ checks[t].told = 0
         /\ checks[t] \in CheckRows /\ checks[t].kept = 0
<1> USE DEF EvidenceInv
<1>1. t \in 1..Len(checks) /\ checks # <<>> /\ LastCheck = Len(checks) /\ checks[t] \in CheckRows
  BY LastIsNat DEF LastCheck
<1>2. t = LastCheck BY <1>1, LastIsNat DEF SnapshotsAreOwn, OpenChecks
<1>3. checks[LastCheck].status \notin {"RELEASED", "SUBMITTED", "CANCELLED"}
  BY <1>2 DEF OpenChecks
<1>4. application \in ApplicationStates BY DEF EvidenceTypeOK
<1>5. application = "VERIFYING"
  BY <1>1, <1>3, <1>4 DEF LastFits, CurrentIsLast, ApplicationStates
<1>6. checks[t].told = 0 BY <1>1, <1>2, <1>5 DEF LastFits
<1>7. QED BY <1>1, <1>2, <1>5, <1>6 DEF SnapshotsAreOwn

LEMMA AssignCheckKeeps ==
  ASSUME EvidenceInv, NEW t \in DOMAIN checks, NEW g \in Agents, AssignCheck(t, g)
  PROVE  EvidenceInv'
<1> USE DEF EvidenceInv
<1>1. checks[t].status \in OpenChecks /\ ~leadErased BY DEF AssignCheck, OnCheck
<1>2. /\ t = LastCheck /\ checks # <<>> /\ application = "VERIFYING" /\ checks[t].told = 0
      /\ checks[t] \in CheckRows /\ checks[t].kept = 0
  BY <1>1, OpenIsLast
<1> DEFINE r == [checks[t] EXCEPT !.status = "ASSIGNED", !.by = g, !.told = 0]
<1>3. r \in CheckRows /\ r.basis = checks[t].basis /\ r.told = 0 /\ r.kept = 0 /\ r.by = g
      /\ r.status = "ASSIGNED"
  <2> DEFINE R(c) == [c EXCEPT !.status = "ASSIGNED", !.by = g, !.told = 0]
  <2>1. r \in CheckRows
    <3>1. \A c \in CheckRows : R(c) \in CheckRows BY DEF CheckRows, CheckStates, OpenChecks
    <3>2. r = R(checks[t]) OBVIOUS
    <3> HIDE DEF R, r
    <3>3. QED BY <1>2, <3>1, <3>2
  <2>2. r.basis = checks[t].basis /\ r.told = 0 BY <1>2 DEF CheckRows
  <2>3. r.kept = 0 /\ r.by = g BY <1>2 DEF CheckRows
  <2>4. r.status = "ASSIGNED" BY <1>2 DEF CheckRows
  <2>5. QED BY <2>1, <2>2, <2>3, <2>4
<1>4. checks' = [checks EXCEPT ![LastCheck] = r]
      /\ UNCHANGED <<application, files, author, currentCheck, reopenedAt, askedAt, holding,
                     windowOver, assignee, leadErased>>
  BY <1>2 DEF AssignCheck, OnCheck
<1> HIDE DEF r
<1>5. /\ SnapshotsAreOwn' /\ EachRoundBringsNews'
      /\ checks' \in Seq(CheckRows) /\ checks' # <<>> /\ LastCheck' = LastCheck
      /\ checks'[LastCheck] = r
  <2>1. r.basis = checks[LastCheck].basis BY <1>2, <1>3
  <2>2. r.told <= Len(files) BY <1>3, LastIsNat
  <2>3. r.kept \in {0, r.told} /\ ~(r.told > 0) BY <1>3
  <2> HIDE DEF EvidenceInv
  <2>4. QED BY <1>2, <1>3, <1>4, <2>1, <2>2, <2>3, LastRowChanges
<1>6. EvidenceTypeOK' BY <1>4, <1>5 DEF EvidenceTypeOK
<1>7. CurrentIsLast' BY <1>2, <1>4, <1>5 DEF CurrentIsLast
<1>8. LastFits' BY <1>1, <1>2, <1>3, <1>4, <1>5 DEF LastFits, OpenChecks
<1>9. BaselinesFit' BY <1>2, <1>4 DEF BaselinesFit
<1>10. QED BY <1>5, <1>6, <1>7, <1>8, <1>9

LEMMA StartCheckKeeps ==
  ASSUME EvidenceInv, NEW t \in DOMAIN checks, StartCheck(t) PROVE EvidenceInv'
<1> USE DEF EvidenceInv
<1>1. checks[t].status = "ASSIGNED" /\ ~leadErased BY DEF StartCheck, OnCheck
<1>2. /\ t = LastCheck /\ checks # <<>> /\ application = "VERIFYING" /\ checks[t].told = 0
      /\ checks[t] \in CheckRows /\ checks[t].kept = 0
  BY <1>1, OpenIsLast DEF OpenChecks
<1> DEFINE r == [checks[t] EXCEPT !.status = "IN_PROGRESS"]
<1>3. r \in CheckRows /\ r.basis = checks[t].basis /\ r.told = 0 /\ r.kept = 0
      /\ r.by = checks[t].by /\ r.status = "IN_PROGRESS"
  <2> DEFINE R(c) == [c EXCEPT !.status = "IN_PROGRESS"]
  <2>1. r \in CheckRows
    <3>1. \A c \in CheckRows : R(c) \in CheckRows BY DEF CheckRows, CheckStates, OpenChecks
    <3>2. r = R(checks[t]) OBVIOUS
    <3> HIDE DEF R, r
    <3>3. QED BY <1>2, <3>1, <3>2
  <2>2. r.basis = checks[t].basis /\ r.told = 0 BY <1>2 DEF CheckRows
  <2>3. r.kept = 0 /\ r.by = checks[t].by BY <1>2 DEF CheckRows
  <2>4. r.status = "IN_PROGRESS" BY <1>2 DEF CheckRows
  <2>5. QED BY <2>1, <2>2, <2>3, <2>4
<1>4. checks' = [checks EXCEPT ![LastCheck] = r]
      /\ UNCHANGED <<application, files, author, currentCheck, reopenedAt, askedAt, holding,
                     windowOver, assignee, leadErased>>
  BY <1>2 DEF StartCheck, OnCheck
<1> HIDE DEF r
<1>5. /\ SnapshotsAreOwn' /\ EachRoundBringsNews'
      /\ checks' \in Seq(CheckRows) /\ checks' # <<>> /\ LastCheck' = LastCheck
      /\ checks'[LastCheck] = r
  <2>1. r.basis = checks[LastCheck].basis BY <1>2, <1>3
  <2>2. r.told <= Len(files) BY <1>3, LastIsNat
  <2>3. r.kept \in {0, r.told} /\ ~(r.told > 0) BY <1>3
  <2> HIDE DEF EvidenceInv
  <2>4. QED BY <1>2, <1>3, <1>4, <2>1, <2>2, <2>3, LastRowChanges
<1>6. EvidenceTypeOK' BY <1>4, <1>5 DEF EvidenceTypeOK
<1>7. CurrentIsLast' BY <1>2, <1>4, <1>5 DEF CurrentIsLast
<1>8. LastFits' BY <1>1, <1>2, <1>3, <1>4, <1>5 DEF LastFits, OpenChecks
<1>9. BaselinesFit' BY <1>2, <1>4 DEF BaselinesFit
<1>10. QED BY <1>5, <1>6, <1>7, <1>8, <1>9

LEMMA AnswerCheckKeeps ==
  ASSUME EvidenceInv, NEW t \in DOMAIN checks, AnswerCheck(t) PROVE EvidenceInv'
<1> USE DEF EvidenceInv
<1>1. checks[t].status = "IN_PROGRESS" /\ ~leadErased BY DEF AnswerCheck, OnCheck
<1>2. /\ t = LastCheck /\ checks # <<>> /\ application = "VERIFYING" /\ checks[t].told = 0
      /\ checks[t] \in CheckRows /\ checks[t].kept = 0
  BY <1>1, OpenIsLast DEF OpenChecks
<1>3. PICK n \in SnapshotFiles(t) :
        checks' = [checks EXCEPT ![t].status = "SUBMITTED", ![t].told = Len(files), ![t].kept = n]
  BY DEF AnswerCheck
<1>4. n \in {0, Len(files)} /\ Len(files) \in Nat BY <1>2, <1>3, LastIsNat DEF SnapshotFiles
<1> DEFINE r == [checks[t] EXCEPT !.status = "SUBMITTED", !.told = Len(files), !.kept = n]
<1>5. r \in CheckRows /\ r.basis = checks[t].basis /\ r.told = Len(files) /\ r.kept = n
      /\ r.by = checks[t].by /\ r.status = "SUBMITTED"
  <2>1. n \in Nat BY <1>4
  <2> DEFINE R(c) == [c EXCEPT !.status = "SUBMITTED", !.told = Len(files), !.kept = n]
  <2>2. r \in CheckRows
    <3>1. \A c \in CheckRows : R(c) \in CheckRows BY <1>4, <2>1 DEF CheckRows, CheckStates
    <3>2. r = R(checks[t]) OBVIOUS
    <3> HIDE DEF R, r
    <3>3. QED BY <1>2, <3>1, <3>2
  <2>3. r.basis = checks[t].basis /\ r.told = Len(files) BY <1>2 DEF CheckRows
  <2>4. r.kept = n /\ r.by = checks[t].by BY <1>2 DEF CheckRows
  <2>5. r.status = "SUBMITTED" BY <1>2 DEF CheckRows
  <2>6. QED BY <2>2, <2>3, <2>4, <2>5
<1>6. checks' = [checks EXCEPT ![LastCheck] = r]
      /\ application' = "REVIEWING"
      /\ UNCHANGED <<files, author, currentCheck, reopenedAt, askedAt, holding,
                     windowOver, assignee, leadErased>>
  BY <1>2, <1>3 DEF AnswerCheck, OnCheck
<1> HIDE DEF r
<1>7. checks[t].by \in Agents BY <1>1, <1>2 DEF LastFits
<1>8. /\ SnapshotsAreOwn' /\ EachRoundBringsNews'
      /\ checks' \in Seq(CheckRows) /\ checks' # <<>> /\ LastCheck' = LastCheck
      /\ checks'[LastCheck] = r
  <2>1. r.basis = checks[LastCheck].basis BY <1>2, <1>5
  <2>2. r.told <= Len(files) BY <1>4, <1>5
  <2>3. r.kept \in {0, r.told} /\ r.by \in Agents BY <1>4, <1>5, <1>7
  <2> HIDE DEF EvidenceInv
  <2>4. QED BY <1>2, <1>5, <1>6, <2>1, <2>2, <2>3, LastRowChanges
<1>9. EvidenceTypeOK' BY <1>6, <1>8 DEF EvidenceTypeOK, ApplicationStates
<1>10. CurrentIsLast' BY <1>2, <1>6, <1>8 DEF CurrentIsLast
\* There was a file when the verification was opened.
<1>11. Len(files) > 0
  <2>1. PICK i \in (FilesBefore(t) + 1)..checks[t].basis : TRUE BY DEF EachRoundBringsNews
  <2>2. FilesBefore(t) \in Nat
    <3>1. CASE t = 1 BY <3>1 DEF FilesBefore
    <3>2. CASE t # 1
      <4>1. t - 1 \in 1..Len(checks) BY <3>2, LastIsNat
      <4>2. QED BY <3>2, <4>1, LastIsNat DEF FilesBefore, CheckRows
    <3>3. QED BY <3>1, <3>2
  <2>3. t \in 1..Len(checks) /\ checks[t].basis \in Nat BY <1>2, LastIsNat DEF CheckRows
  <2>4. checks[t].basis <= Len(files) BY <2>3 DEF SnapshotsAreOwn
  <2>5. QED BY <1>4, <2>1, <2>2, <2>3, <2>4
<1>12. LastFits' BY <1>1, <1>2, <1>5, <1>6, <1>8, <1>11 DEF LastFits
<1>13. BaselinesFit' BY <1>2, <1>6 DEF BaselinesFit
<1>14. QED BY <1>8, <1>9, <1>10, <1>12, <1>13

-----------------------------------------------------------------------------
\* A decision, or a request opened again: the last verification changes its status and
\* perhaps its snapshot.

LEMMA Restated ==
  ASSUME NEW c \in CheckRows, NEW s \in CheckStates, NEW n \in Nat
  PROVE  /\ [c EXCEPT !.status = s, !.kept = n] \in CheckRows
         /\ [c EXCEPT !.status = s, !.kept = n].status = s
         /\ [c EXCEPT !.status = s, !.kept = n].kept = n
         /\ [c EXCEPT !.status = s, !.kept = n].basis = c.basis
         /\ [c EXCEPT !.status = s, !.kept = n].told = c.told
         /\ [c EXCEPT !.status = s, !.kept = n].by = c.by
         /\ [c EXCEPT !.status = s] = [c EXCEPT !.status = s, !.kept = c.kept]
         /\ [c EXCEPT !.kept = n] = [c EXCEPT !.status = c.status, !.kept = n]
BY DEF CheckRows

LEMMA LastRestated ==
  ASSUME EvidenceInv, checks # <<>>, NEW s \in CheckStates,
         NEW n \in {0, checks[LastCheck].told},
         checks' = [checks EXCEPT ![LastCheck] = [checks[LastCheck] EXCEPT !.status = s, !.kept = n]],
         files' = files
  PROVE  /\ SnapshotsAreOwn' /\ EachRoundBringsNews'
         /\ checks' \in Seq(CheckRows) /\ checks' # <<>> /\ LastCheck' = LastCheck
         /\ checks'[LastCheck].status = s
         /\ checks'[LastCheck].told = checks[LastCheck].told
         /\ checks'[LastCheck].by = checks[LastCheck].by
<1> DEFINE r == [checks[LastCheck] EXCEPT !.status = s, !.kept = n]
<1>1. LastCheck \in 1..Len(checks) BY LastIsNat DEF EvidenceInv, LastCheck
<1>2. checks[LastCheck] \in CheckRows BY <1>1, LastIsNat DEF EvidenceInv
<1>3. n \in Nat BY <1>2 DEF CheckRows
<1>4. /\ r \in CheckRows /\ r.status = s /\ r.kept = n /\ r.basis = checks[LastCheck].basis
      /\ r.told = checks[LastCheck].told /\ r.by = checks[LastCheck].by
  <2>1. r \in CheckRows BY <1>2, <1>3, Restated
  <2>2. r.status = s /\ r.kept = n BY <1>2 DEF CheckRows
  <2>3. r.basis = checks[LastCheck].basis BY <1>2 DEF CheckRows
  <2>4. r.told = checks[LastCheck].told /\ r.by = checks[LastCheck].by BY <1>2 DEF CheckRows
  <2>5. QED BY <2>1, <2>2, <2>3, <2>4
<1>5. checks' = [checks EXCEPT ![LastCheck] = r] OBVIOUS
<1> HIDE DEF r
<1>6. r.told <= Len(files) BY <1>1, <1>4 DEF EvidenceInv, SnapshotsAreOwn
<1>7. r.told > 0 => r.by \in Agents BY <1>1, <1>4 DEF EvidenceInv, SnapshotsAreOwn
<1>8. r.kept \in {0, r.told} BY <1>4
<1>9. /\ SnapshotsAreOwn' /\ EachRoundBringsNews'
      /\ checks' \in Seq(CheckRows) /\ checks' # <<>> /\ LastCheck' = LastCheck
      /\ checks'[LastCheck] = r
  BY <1>4, <1>5, <1>6, <1>7, <1>8, LastRowChanges
<1>10. QED BY <1>4, <1>9

\* A decision, by which the verification is released or cancelled.
LEMMA DecisionKeeps ==
  ASSUME EvidenceInv, checks # <<>>, ~leadErased,
         NEW s \in {"RELEASED", "CANCELLED"}, NEW n \in {0, checks[LastCheck].told},
         checks' = [checks EXCEPT ![LastCheck] = [checks[LastCheck] EXCEPT !.status = s, !.kept = n]],
         UNCHANGED <<files, leadErased, reopenedAt>>, EvidenceTypeOK',
         currentCheck' = LastCheck,
         application' \in {"NEED_MORE", "REJECTED", "APPROVED"},
         application' # "APPROVED" => s = "RELEASED" /\ checks[LastCheck].told > 0,
         checks[LastCheck].told > 0 => checks[LastCheck].told = Len(files),
         application' = "NEED_MORE" => askedAt' = Len(files)
  PROVE  EvidenceInv'
<1>1. /\ SnapshotsAreOwn' /\ EachRoundBringsNews'
      /\ checks' # <<>> /\ LastCheck' = LastCheck
      /\ checks'[LastCheck].status = s
      /\ checks'[LastCheck].told = checks[LastCheck].told
  BY LastRestated DEF CheckStates
<1>2. CurrentIsLast' BY <1>1 DEF CurrentIsLast
<1>3. LastFits' BY <1>1 DEF LastFits
<1>4. BaselinesFit'
  <2>1. ToldOfLast' = checks[LastCheck].told BY <1>1 DEF ToldOfLast
  <2>2. QED BY <2>1, LastIsNat DEF BaselinesFit, EvidenceInv
<1>5. QED BY <1>1, <1>2, <1>3, <1>4 DEF EvidenceInv

LEMMA ReviewedIsLast ==
  ASSUME EvidenceInv, FinalReview
  PROVE  /\ currentCheck = LastCheck /\ checks # <<>>
         /\ checks[LastCheck].told > 0 /\ checks[LastCheck].told = Len(files)
         /\ checks[LastCheck] \in CheckRows /\ LastCheck \in DOMAIN checks
BY LastIsNat DEF EvidenceInv, FinalReview, CurrentIsLast, LastFits, LastCheck

LEMMA AskForMoreKeeps == ASSUME EvidenceInv, AskForMore PROVE EvidenceInv'
<1> DEFINE c == checks[LastCheck]
<1>1. /\ currentCheck = LastCheck /\ checks # <<>>
      /\ c.told > 0 /\ c.told = Len(files) /\ c \in CheckRows /\ LastCheck \in DOMAIN checks
  BY ReviewedIsLast DEF AskForMore
<1>2. PICK n \in SnapshotFiles(LastCheck) :
        checks' = [checks EXCEPT ![LastCheck].status = "RELEASED", ![LastCheck].kept = n]
  BY <1>1 DEF AskForMore
<1>3. checks' = [checks EXCEPT ![LastCheck] = [c EXCEPT !.status = "RELEASED", !.kept = n]]
  BY <1>2
<1>4. n \in {0, c.told}
  BY <1>1, LastIsNat DEF SnapshotFiles, EvidenceInv, SnapshotsAreOwn
<1>5. checks' \in Seq(CheckRows) BY <1>1, <1>3, <1>4, LastRestated DEF CheckStates, AskForMore, FinalReview
<1>6. EvidenceTypeOK'
  BY <1>5, LastIsNat DEF EvidenceInv, EvidenceTypeOK, ApplicationStates, AskForMore, FinalReview
<1>7. QED BY <1>1, <1>3, <1>4, <1>6, DecisionKeeps DEF AskForMore, FinalReview

\* A decision that leaves the snapshot alone.
LEMMA StatusOnly ==
  ASSUME EvidenceInv, checks # <<>>, NEW s \in CheckStates,
         checks' = [checks EXCEPT ![LastCheck].status = s]
  PROVE  /\ checks[LastCheck].kept \in {0, checks[LastCheck].told}
         /\ checks' = [checks EXCEPT ![LastCheck] =
              [checks[LastCheck] EXCEPT !.status = s, !.kept = checks[LastCheck].kept]]
<1>1. LastCheck \in 1..Len(checks) /\ checks[LastCheck] \in CheckRows
  BY LastIsNat DEF EvidenceInv, LastCheck
<1>2. checks[LastCheck].kept \in {0, checks[LastCheck].told}
  BY <1>1 DEF EvidenceInv, SnapshotsAreOwn
<1>3. [checks[LastCheck] EXCEPT !.status = s] =
        [checks[LastCheck] EXCEPT !.status = s, !.kept = checks[LastCheck].kept]
  BY <1>1, Restated DEF CheckRows
<1>4. QED BY <1>2, <1>3

LEMMA RejectApplicationKeeps == ASSUME EvidenceInv, RejectApplication PROVE EvidenceInv'
<1> DEFINE c == checks[LastCheck]
<1>1. /\ currentCheck = LastCheck /\ checks # <<>>
      /\ c.told > 0 /\ c.told = Len(files) /\ c \in CheckRows
  BY ReviewedIsLast DEF RejectApplication
<1>2. /\ c.kept \in {0, c.told}
      /\ checks' = [checks EXCEPT ![LastCheck] = [c EXCEPT !.status = "RELEASED", !.kept = c.kept]]
  BY <1>1, StatusOnly DEF RejectApplication, CheckStates
<1>3. checks' \in Seq(CheckRows) BY <1>1, <1>2, LastRestated DEF CheckStates, RejectApplication, FinalReview
<1>4. EvidenceTypeOK'
  BY <1>3 DEF EvidenceInv, EvidenceTypeOK, ApplicationStates, RejectApplication, FinalReview
<1>5. QED BY <1>1, <1>2, <1>4, DecisionKeeps DEF RejectApplication, FinalReview

LEMMA ApproveApplicationKeeps == ASSUME EvidenceInv, ApproveApplication PROVE EvidenceInv'
<1> DEFINE c == checks[LastCheck]
<1>1. /\ currentCheck = LastCheck /\ checks # <<>>
      /\ c.told > 0 /\ c.told = Len(files) /\ c \in CheckRows
  BY ReviewedIsLast DEF ApproveApplication
<1>2. /\ c.kept \in {0, c.told}
      /\ checks' = [checks EXCEPT ![LastCheck] = [c EXCEPT !.status = "RELEASED", !.kept = c.kept]]
  BY <1>1, StatusOnly DEF ApproveApplication, CheckStates
<1>3. checks' \in Seq(CheckRows) BY <1>1, <1>2, LastRestated DEF CheckStates, ApproveApplication, FinalReview
<1>4. EvidenceTypeOK'
  BY <1>3 DEF EvidenceInv, EvidenceTypeOK, ApplicationStates, ApproveApplication, FinalReview
<1>5. QED BY <1>1, <1>2, <1>4, DecisionKeeps DEF ApproveApplication, FinalReview

LEMMA ApproveDirectlyKeeps == ASSUME EvidenceInv, ApproveDirectly PROVE EvidenceInv'
<1> DEFINE c == checks[LastCheck]
<1>1. currentCheck = LastCheck /\ checks # <<>> /\ c.told = 0
  BY DEF ApproveDirectly, EvidenceInv, CurrentIsLast
<1>2. /\ c.kept \in {0, c.told}
      /\ checks' = [checks EXCEPT ![LastCheck] = [c EXCEPT !.status = "CANCELLED", !.kept = c.kept]]
  BY <1>1, StatusOnly DEF ApproveDirectly, CheckStates
<1>3. checks' \in Seq(CheckRows) BY <1>1, <1>2, LastRestated DEF CheckStates, ApproveDirectly
<1>4. EvidenceTypeOK'
  BY <1>3 DEF EvidenceInv, EvidenceTypeOK, ApplicationStates, ApproveDirectly
<1>5. /\ ~leadErased /\ currentCheck' = LastCheck /\ application' = "APPROVED"
      /\ UNCHANGED <<files, leadErased, reopenedAt>>
  BY <1>1 DEF ApproveDirectly
<1>6. ~(c.told > 0) BY <1>1
<1>7. QED BY <1>1, <1>2, <1>4, <1>5, <1>6, DecisionKeeps

LEMMA ReopenDraftKeeps ==
  ASSUME EvidenceInv, NEW u \in Receivers, ReopenDraft(u) PROVE EvidenceInv'
<1> DEFINE c == checks[LastCheck]
<1>1. /\ currentCheck = LastCheck /\ checks # <<>> /\ LastCheck \in 1..Len(checks)
      /\ c.told > 0 /\ c.told = Len(files) /\ c \in CheckRows /\ c.status = "RELEASED"
      /\ Len(files) \in Nat
  BY LastIsNat DEF ReopenDraft, EvidenceInv, CurrentIsLast, LastFits, LastCheck
<1>2. PICK n \in SnapshotFiles(LastCheck) : checks' = [checks EXCEPT ![LastCheck].kept = n]
  BY <1>1 DEF ReopenDraft
<1>3. n \in {0, c.told}
  BY <1>1 DEF SnapshotFiles, EvidenceInv, SnapshotsAreOwn
<1>4. checks' = [checks EXCEPT ![LastCheck] = [c EXCEPT !.status = "RELEASED", !.kept = n]]
  <2>1. n \in Nat /\ "RELEASED" \in CheckStates BY <1>1, <1>3 DEF CheckStates
  <2>2. [c EXCEPT !.kept = n] = [c EXCEPT !.status = c.status, !.kept = n] BY <1>1, <2>1, Restated
  <2>3. QED BY <1>1, <1>2, <2>2
<1>5. /\ SnapshotsAreOwn' /\ EachRoundBringsNews'
      /\ checks' \in Seq(CheckRows) /\ checks' # <<>> /\ LastCheck' = LastCheck
      /\ checks'[LastCheck].status = "RELEASED"
      /\ checks'[LastCheck].told = c.told
  BY <1>1, <1>3, <1>4, LastRestated DEF CheckStates, ReopenDraft
<1>6. EvidenceTypeOK'
  BY <1>1, <1>5 DEF EvidenceInv, EvidenceTypeOK, ApplicationStates, ReopenDraft
<1>7. CurrentIsLast' BY DEF ReopenDraft, CurrentIsLast
<1>8. LastFits' BY <1>1, <1>5 DEF LastFits, ReopenDraft
<1>9. BaselinesFit' BY <1>1, <1>5 DEF BaselinesFit, ToldOfLast, ReopenDraft
<1>10. QED BY <1>5, <1>6, <1>7, <1>8, <1>9 DEF EvidenceInv

-----------------------------------------------------------------------------
\* A verification more.

LEMMA OpenCheckKeeps ==
  ASSUME EvidenceInv, ~leadErased, OpenCheck, application \in {"DRAFT", "NEED_MORE"},
         NewSince(ToldOfLast) \/ (checks = <<>> /\ Len(files) >= 1)
  PROVE  EvidenceInv'
<1> USE DEF EvidenceInv
<1> DEFINE r == [status |-> "PENDING", by |-> NoOne, basis |-> Len(files), told |-> 0, kept |-> 0]
<1>1. /\ Len(checks) \in Nat /\ Len(files) \in Nat
      /\ DOMAIN checks = 1..Len(checks)
  BY LastIsNat
<1>2. r \in CheckRows BY <1>1 DEF CheckRows, CheckStates, OpenChecks
<1>3. /\ r.status = "PENDING" /\ r.basis = Len(files) /\ r.told = 0 /\ r.kept = 0
  OBVIOUS
<1>4. checks' = Append(checks, r) /\ files' = files BY DEF OpenCheck
<1> HIDE DEF r
<1>5. /\ checks' \in Seq(CheckRows) /\ Len(checks') = Len(checks) + 1 /\ checks' # <<>>
      /\ \A t \in 1..Len(checks) : checks'[t] = checks[t]
      /\ checks'[Len(checks) + 1] = r
  BY <1>2, <1>4 DEF EvidenceTypeOK
<1>6. LastCheck' = Len(checks) + 1 BY <1>5 DEF LastCheck
<1>7. EvidenceTypeOK'
  BY <1>1, <1>5 DEF OpenCheck, EvidenceTypeOK, ApplicationStates
<1>8. checks # <<>> => checks[LastCheck].status = "RELEASED" /\ checks[LastCheck].told > 0
  BY DEF LastFits
<1>9. SnapshotsAreOwn'
  <2> SUFFICES ASSUME NEW t \in 1..Len(checks')
               PROVE  /\ checks'[t].basis <= Len(files) /\ checks'[t].told <= Len(files)
                      /\ checks'[t].kept \in {0, checks'[t].told}
                      /\ checks'[t].told > 0 => checks'[t].by \in Agents
                      /\ t < LastCheck' => checks'[t].told > 0 /\ checks'[t].status = "RELEASED"
    BY <1>4 DEF SnapshotsAreOwn
  <2>1. CASE t = Len(checks) + 1 BY <1>1, <1>3, <1>5, <1>6, <2>1
  <2>2. CASE t # Len(checks) + 1
    <3>1. t \in 1..Len(checks) /\ t \in Nat /\ t <= Len(checks) BY <1>1, <1>5, <2>2
    <3>2. checks # <<>> BY <3>1
    <3>3. t < Len(checks) \/ t = Len(checks)
      <4>1. \A n \in Nat : \A m \in Nat : m <= n => (m < n \/ m = n) OBVIOUS
      <4>2. QED BY <1>1, <3>1, <4>1
    <3>4. checks[t].told > 0 /\ checks[t].status = "RELEASED"
      BY <1>8, <3>1, <3>2, <3>3 DEF SnapshotsAreOwn, LastCheck
    <3>5. QED BY <1>5, <3>1, <3>4 DEF SnapshotsAreOwn
  <2>3. QED BY <2>1, <2>2
<1>10. CurrentIsLast' BY <1>5, <1>6 DEF OpenCheck, CurrentIsLast
<1>11. LastFits' BY <1>3, <1>5, <1>6 DEF OpenCheck, LastFits, OpenChecks
<1>12. BaselinesFit' BY DEF OpenCheck, BaselinesFit
<1>13. EachRoundBringsNews'
  <2> SUFFICES ASSUME NEW t \in 1..Len(checks')
               PROVE  /\ t > 1 => Answered(t - 1)'
                      /\ \E i \in (FilesBefore(t)' + 1)..checks'[t].basis :
                           /\ files[i].by \in Receivers
                           /\ files[i].content \notin ContentsUpTo(FilesBefore(t))'
    <3>1. DOMAIN checks' = 1..Len(checks') BY <1>5
    <3>2. QED BY <1>4, <3>1 DEF EachRoundBringsNews
  <2>1. t > 1 => t - 1 \in 1..Len(checks) BY <1>1, <1>5
  <2>2. FilesBefore(t)' = FilesBefore(t) BY <1>5, <2>1 DEF FilesBefore
  <2>3. ContentsUpTo(FilesBefore(t))' = ContentsUpTo(FilesBefore(t))
    BY <1>4, <2>2 DEF ContentsUpTo
  <2>4. CASE t # Len(checks) + 1
    <3>1. t \in 1..Len(checks) BY <1>1, <1>5, <2>4
    <3>2. checks'[t] = checks[t] /\ (t > 1 => Answered(t - 1)' = Answered(t - 1))
      BY <1>5, <2>1, <3>1 DEF Answered
    <3>3. QED BY <1>1, <2>2, <2>3, <3>1, <3>2 DEF EachRoundBringsNews
  <2>5. CASE t = Len(checks) + 1
    <3>1. FilesBefore(t) = ToldOfLast /\ (t > 1 => Answered(t - 1)')
      <4>1. CASE checks = <<>>
        <5>1. t = 1 BY <2>5, <4>1
        <5>2. QED BY <4>1, <5>1 DEF FilesBefore, ToldOfLast
      <4>2. CASE checks # <<>>
        <5>1. t - 1 = LastCheck /\ t # 1 /\ LastCheck \in 1..Len(checks)
          BY <1>1, <2>5, <4>2, LastIsNat DEF LastCheck
        <5>2. QED BY <1>5, <1>8, <4>2, <5>1 DEF FilesBefore, ToldOfLast, Answered
      <4>3. QED BY <4>1, <4>2
    <3>2. ToldOfLast \in Nat
      <4>1. CASE checks = <<>> BY <4>1 DEF ToldOfLast
      <4>2. CASE checks # <<>>
        <5>1. LastCheck \in 1..Len(checks) BY <1>1, <4>2, LastIsNat DEF LastCheck
        <5>2. QED BY <4>2, <5>1, LastIsNat DEF ToldOfLast, CheckRows
      <4>3. QED BY <4>1, <4>2
    <3>3. PICK i \in 1..Len(files) : i > ToldOfLast /\ files[i].content \notin ContentsUpTo(ToldOfLast)
      <4>1. CASE NewSince(ToldOfLast) BY <3>2, <4>1, NewsIsAFile
      <4>2. CASE checks = <<>> /\ Len(files) >= 1
        <5>1. ToldOfLast = 0 BY <4>2 DEF ToldOfLast
        <5>2. 1 \in 1..Len(files) BY <1>1, <4>2
        <5>3. QED BY <5>1, <5>2, NoContentsAtFirst
      <4>3. QED BY <4>1, <4>2
    <3>4. files[i].by \in Receivers BY <3>3 DEF BaselinesFit
    <3>5. i \in (FilesBefore(t) + 1)..Len(files) BY <1>1, <3>1, <3>2, <3>3
    <3>6. checks'[t].basis = Len(files) BY <1>3, <1>5, <2>5
    <3>7. QED BY <2>2, <2>3, <3>1, <3>3, <3>4, <3>5, <3>6
  <2>6. QED BY <2>4, <2>5
<1>14. QED BY <1>7, <1>9, <1>10, <1>11, <1>12, <1>13

LEMMA SubmitFirstKeeps ==
  ASSUME EvidenceInv, NEW u \in Receivers, SubmitFirst(u) PROVE EvidenceInv'
<1>1. application = "DRAFT" /\ ~leadErased /\ OpenCheck /\ DraftMaterial BY DEF SubmitFirst
<1>2. reopenedAt = ToldOfLast BY <1>1 DEF EvidenceInv, BaselinesFit
<1>3. reopenedAt = 0 => checks = <<>>
  <2> SUFFICES ASSUME checks # <<>> PROVE reopenedAt # 0 OBVIOUS
  <2>1. checks[LastCheck].told > 0 BY <1>1 DEF EvidenceInv, LastFits
  <2>2. LastCheck \in 1..Len(checks) BY LastIsNat DEF LastCheck, EvidenceInv
  <2>3. checks[LastCheck].told \in Nat BY <2>2, LastIsNat DEF EvidenceInv, CheckRows
  <2>4. QED BY <1>2, <2>1, <2>3 DEF ToldOfLast
<1>4. QED BY <1>1, <1>2, <1>3, OpenCheckKeeps DEF DraftMaterial

LEMMA SubmitSupplementKeeps ==
  ASSUME EvidenceInv, NEW u \in Receivers, SubmitSupplement(u) PROVE EvidenceInv'
<1>1. application = "NEED_MORE" /\ ~leadErased /\ OpenCheck /\ NewSince(askedAt)
  BY DEF SubmitSupplement, SupplementMaterial
<1>2. askedAt = ToldOfLast BY <1>1 DEF EvidenceInv, BaselinesFit
<1>3. QED BY <1>1, <1>2, OpenCheckKeeps

-----------------------------------------------------------------------------
\* The lead is deleted.

LEMMA EraseLeadKeeps == ASSUME EvidenceInv, EraseLead PROVE EvidenceInv'
<1> USE DEF EvidenceInv
<1> DEFINE rows(t) == IF checks[t].status \in OpenChecks \cup {"SUBMITTED"}
                      THEN [checks[t] EXCEPT !.status = "CANCELLED"] ELSE checks[t]
<1>1. /\ Len(checks) \in Nat /\ Len(files) \in Nat /\ DOMAIN checks = 1..Len(checks)
      /\ \A t \in 1..Len(checks) : checks[t] \in CheckRows
  BY LastIsNat
<1>2. checks' = [t \in 1..Len(checks) |-> rows(t)] BY <1>1 DEF EraseLead
<1>3. \A t \in 1..Len(checks) :
        /\ rows(t) \in CheckRows
        /\ rows(t).basis = checks[t].basis /\ rows(t).told = checks[t].told
        /\ rows(t).kept = checks[t].kept /\ rows(t).by = checks[t].by
        /\ rows(t).status = IF checks[t].status \in OpenChecks \cup {"SUBMITTED"}
                            THEN "CANCELLED" ELSE checks[t].status
  <2> SUFFICES ASSUME NEW t \in 1..Len(checks)
      PROVE /\ rows(t) \in CheckRows
            /\ rows(t).basis = checks[t].basis /\ rows(t).told = checks[t].told
            /\ rows(t).kept = checks[t].kept /\ rows(t).by = checks[t].by
            /\ rows(t).status = IF checks[t].status \in OpenChecks \cup {"SUBMITTED"}
                                THEN "CANCELLED" ELSE checks[t].status
    OBVIOUS
  <2>1. checks[t] \in CheckRows BY <1>1
  <2> DEFINE c == checks[t]
  <2>2. [c EXCEPT !.status = "CANCELLED"] = [c EXCEPT !.status = "CANCELLED", !.kept = c.kept]
    BY <2>1, Restated DEF CheckRows, CheckStates
  <2>3. [c EXCEPT !.status = "CANCELLED"] \in CheckRows
    BY <2>1, <2>2, Restated DEF CheckRows, CheckStates
  <2>4. rows(t) \in CheckRows BY <2>1, <2>3
  <2>5. rows(t).basis = checks[t].basis /\ rows(t).told = checks[t].told BY <2>1 DEF CheckRows
  <2>6. rows(t).kept = checks[t].kept /\ rows(t).by = checks[t].by BY <2>1 DEF CheckRows
  <2>7. rows(t).status = IF checks[t].status \in OpenChecks \cup {"SUBMITTED"}
                         THEN "CANCELLED" ELSE checks[t].status
    BY <2>1 DEF CheckRows
  <2>8. QED BY <2>4, <2>5, <2>6, <2>7
<1> HIDE DEF rows
<1>4. /\ checks' \in Seq(CheckRows) /\ Len(checks') = Len(checks)
      /\ \A t \in 1..Len(checks) : checks'[t] = rows(t)
      /\ checks' # <<>> <=> checks # <<>>
  <2>1. checks' \in [1..Len(checks) -> CheckRows] BY <1>2, <1>3
  <2>2. checks' \in Seq(CheckRows) /\ DOMAIN checks' = 1..Len(checks) BY <1>1, <2>1
  <2>3. Len(checks') = Len(checks) BY <1>1, <2>2
  <2>4. checks' # <<>> <=> checks # <<>> BY <2>2, <2>3 DEF EvidenceTypeOK
  <2>5. QED BY <1>2, <2>2, <2>3, <2>4
<1>5. /\ files' = files /\ LastCheck' = LastCheck /\ leadErased' /\ currentCheck' = currentCheck
      /\ reopenedAt' = reopenedAt /\ askedAt' = askedAt
  BY <1>4 DEF EraseLead, LastCheck
<1>6. EvidenceTypeOK' BY <1>4 DEF EraseLead, EvidenceTypeOK, ApplicationStates
<1>7. SnapshotsAreOwn'
  BY <1>3, <1>4, <1>5 DEF SnapshotsAreOwn, OpenChecks
<1>8. checks # <<>> => LastCheck \in 1..Len(checks) BY <1>1, LastIsNat DEF LastCheck
<1>9. CurrentIsLast'
  <2>1. application \in ApplicationStates BY DEF EvidenceTypeOK
  <2>2. QED BY <1>4, <1>5, <2>1 DEF CurrentIsLast, EraseLead, ApplicationStates
<1>10. LastFits'
  <2> SUFFICES ASSUME checks' # <<>> PROVE LastFits' BY DEF LastFits
  <2>1. /\ checks # <<>> /\ LastCheck \in 1..Len(checks)
        /\ checks'[LastCheck].status = IF checks[LastCheck].status \in OpenChecks \cup {"SUBMITTED"}
                                       THEN "CANCELLED" ELSE checks[LastCheck].status
        /\ checks'[LastCheck].told = checks[LastCheck].told
    BY <1>3, <1>4, <1>8
  <2>2. checks[LastCheck].status \in CheckStates BY <1>1, <2>1 DEF CheckRows
  <2>3. checks'[LastCheck].status \in {"RELEASED", "CANCELLED"} BY <2>1, <2>2 DEF CheckStates
  <2>4. application' = application \/ application' = "CANCELLED" BY DEF EraseLead
  <2>5. application' \in {"NONE", "EXPIRED", "REJECTED"} =>
          checks'[LastCheck].status = "RELEASED" /\ checks'[LastCheck].told > 0
    BY <2>1, <2>4 DEF LastFits, OpenChecks
  <2>6. application' \notin {"DRAFT", "VERIFYING", "REVIEWING", "NEED_MORE"}
    BY DEF EraseLead
  <2>7. application' \in {"REJECTED", "APPROVED"} /\ checks'[LastCheck].told > 0 =>
          checks'[LastCheck].told = Len(files)
    BY <2>1, <2>4 DEF LastFits
  <2>8. QED BY <1>5, <2>3, <2>5, <2>6, <2>7 DEF LastFits
<1>11. BaselinesFit'
  <2>1. ToldOfLast' = ToldOfLast BY <1>3, <1>4, <1>5, <1>8 DEF ToldOfLast
  <2>2. QED BY <1>4, <1>5, <2>1 DEF BaselinesFit, EraseLead
<1>12. EachRoundBringsNews'
  <2> SUFFICES ASSUME NEW t \in 1..Len(checks)
               PROVE  /\ t > 1 => Answered(t - 1)'
                      /\ \E i \in (FilesBefore(t)' + 1)..checks'[t].basis :
                           /\ files[i].by \in Receivers
                           /\ files[i].content \notin ContentsUpTo(FilesBefore(t))'
    BY <1>4, <1>5 DEF EachRoundBringsNews
  <2>1. t > 1 => t - 1 \in 1..Len(checks) BY <1>1
  <2>2. FilesBefore(t)' = FilesBefore(t) /\ (t > 1 => Answered(t - 1)' = Answered(t - 1))
    BY <1>1, <1>3, <1>4, <2>1 DEF FilesBefore, Answered
  <2>3. ContentsUpTo(FilesBefore(t))' = ContentsUpTo(FilesBefore(t))
    BY <1>5, <2>2 DEF ContentsUpTo
  <2>4. checks'[t].basis = checks[t].basis BY <1>3, <1>4
  <2>5. QED BY <1>1, <2>2, <2>3, <2>4 DEF EachRoundBringsNews
<1>13. QED BY <1>6, <1>7, <1>9, <1>10, <1>11, <1>12

-----------------------------------------------------------------------------
LEMMA EvidenceStepKeeps == EvidenceInv /\ [EvidenceNext]_evidenceVars => EvidenceInv'
<1> SUFFICES ASSUME EvidenceInv, [EvidenceNext]_evidenceVars PROVE EvidenceInv' OBVIOUS
<1>1. CASE UNCHANGED evidenceVars
  <2>1. EvidenceTypeOK' BY <1>1 DEF evidenceVars, EvidenceInv, EvidenceTypeOK
  <2>2. QED BY <1>1, <2>1, NothingShownChanges DEF evidenceVars
<1>2. CASE \E u \in Receivers :
             \/ CreateDraft(u) \/ ReopenDraft(u) \/ SubmitFirst(u) \/ SubmitSupplement(u)
             \/ \E f \in Contents : UploadByReceiver(u, f)
  BY <1>2, CreateDraftKeeps, ReopenDraftKeeps, SubmitFirstKeeps, SubmitSupplementKeeps,
     UploadByReceiverKeeps
<1>3. CASE ExpireDraft \/ WindowEnds BY <1>3, ExpireDraftKeeps, WindowEndsKeeps
<1>4. CASE \E t \in DOMAIN checks :
             \/ \E g \in Agents : AssignCheck(t, g)
             \/ StartCheck(t) \/ AnswerCheck(t)
             \/ \E f \in Contents : UploadByAgent(t, f)
  BY <1>4, AssignCheckKeeps, StartCheckKeeps, AnswerCheckKeeps, UploadByAgentKeeps
<1>5. CASE AskForMore \/ RejectApplication \/ ApproveApplication \/ ApproveDirectly
  BY <1>5, AskForMoreKeeps, RejectApplicationKeeps, ApproveApplicationKeeps, ApproveDirectlyKeeps
<1>6. CASE \E m \in BOOLEAN : ReleaseRound(m) BY <1>6, ReleaseRoundKeeps
<1>7. CASE EraseLead BY <1>7, EraseLeadKeeps
<1>8. CASE \E e \in Employees \cup {NoOne} : Handover(e) BY <1>8, HandoverKeeps
<1>9. QED BY <1>1, <1>2, <1>3, <1>4, <1>5, <1>6, <1>7, <1>8 DEF EvidenceNext

LEMMA EvidenceInvariant == EvidenceSpec => []EvidenceInv
<1>1. EvidenceInit => EvidenceInv BY EvidenceStarts
<1>2. QED BY <1>1, EvidenceStepKeeps, PTL DEF EvidenceSpec

\* Every verification of a return is asked for with a file of the receiver nobody had
\* judged before, for any number of people, files and appeals.
THEOREM NoRoundWithoutNews == EvidenceSpec => []EachRoundBringsNews
BY EvidenceInvariant, PTL DEF EvidenceInv

\* What an agent is shown of an answered verification.
LEMMA PageOfAnAnswer ==
  ASSUME EvidenceInv, ~leadErased, NEW t \in DOMAIN checks, Answered(t)
  PROVE  /\ checks[t].by \in Agents
         /\ RoundFiles(t) = 1..checks[t].told
         /\ TaskPage(t) = 1..checks[t].told \/
              (t = currentCheck /\ TaskPage(t) = 1..Len(files) /\ application = "NEED_MORE")
<1>1. t \in 1..Len(checks) /\ checks # <<>> /\ LastCheck = Len(checks) /\ checks[t] \in CheckRows
  BY LastIsNat DEF EvidenceInv, LastCheck
<1>2. checks[t].by \in Agents /\ checks[t].kept \in {0, checks[t].told} /\ checks[t].told > 0
  BY <1>1 DEF EvidenceInv, SnapshotsAreOwn, Answered
<1>3. checks[t].told \in Nat BY <1>1 DEF CheckRows
<1>4. RoundFiles(t) = 1..checks[t].told BY <1>2, <1>3 DEF RoundFiles
<1>5. CASE t # currentCheck BY <1>2, <1>4, <1>5 DEF TaskPage, FormerCheck, Answered
<1>6. CASE t = currentCheck
  <2>1. application \in ApplicationStates BY DEF EvidenceInv, EvidenceTypeOK
  <2>2. t # 0 BY <1>1, LastIsNat DEF EvidenceInv
  <2>3. application \in {"VERIFYING", "REVIEWING", "NEED_MORE", "REJECTED", "APPROVED"}
    BY <1>6, <2>1, <2>2 DEF EvidenceInv, CurrentIsLast, ApplicationStates
  <2>4. t = LastCheck BY <1>6, <2>3 DEF EvidenceInv, CurrentIsLast
  <2>5. application # "VERIFYING" BY <1>1, <1>2, <2>4 DEF EvidenceInv, LastFits
  <2>6. application # "NEED_MORE" => checks[t].told = Len(files)
    BY <1>1, <1>2, <2>3, <2>4, <2>5 DEF EvidenceInv, LastFits
  <2>7. TaskPage(t) = 1..Len(files) BY <1>6 DEF TaskPage, FormerCheck
  <2>8. QED BY <1>2, <1>4, <1>6, <2>6, <2>7
<1>7. QED BY <1>2, <1>4, <1>5, <1>6

\* While a verification is open its agent has been given it.
LEMMA ToldIsShown ==
  ASSUME EvidenceInv, ~leadErased, NEW g \in Agents, NEW i \in DOMAIN files,
         DownloadsAsAgent(g, i)
  PROVE  \E t \in DOMAIN checks : OpensTask(g, t) /\ i \in TaskPage(t)
<1>1. DOMAIN files = 1..Len(files) BY LastIsNat DEF EvidenceInv
<1>2. CASE currentCheck \in TasksOf(g)
  <2>1. currentCheck \in DOMAIN checks /\ checks[currentCheck].by = g
    BY <1>2 DEF TasksOf
  <2>2. TaskPage(currentCheck) = 1..Len(files) BY DEF TaskPage, FormerCheck
  <2>3. QED BY <1>1, <2>1, <2>2 DEF OpensTask
<1>3. CASE \E t \in TasksOf(g) : Answered(t) /\ i \in RoundFiles(t)
  <2>1. PICK t \in TasksOf(g) : Answered(t) /\ i \in RoundFiles(t) BY <1>3
  <2>2. t \in DOMAIN checks /\ checks[t].by = g BY <2>1 DEF TasksOf
  <2>3. i \in TaskPage(t)
    <3>1. CASE t = currentCheck BY <1>1, <3>1 DEF TaskPage, FormerCheck
    <3>2. CASE t # currentCheck BY <2>1, <3>2 DEF TaskPage, FormerCheck
    <3>3. QED BY <3>1, <3>2
  <2>4. QED BY <2>2, <2>3 DEF OpensTask
<1>4. QED BY <1>2, <1>3 DEF DownloadsAsAgent

LEMMA JudgesSee == ASSUME EvidenceInv PROVE JudgesSeeTheirRound
<1>1. ASSUME NEW t \in DOMAIN checks, Answered(t), ~leadErased
      PROVE  /\ OpensTask(checks[t].by, t)
             /\ TaskPage(t) = 1..checks[t].told \/ (application = "NEED_MORE" /\ t = currentCheck)
             /\ \A i \in TaskPage(t) : DownloadsAsAgent(checks[t].by, i)
  <2>1. OpensTask(checks[t].by, t) BY <1>1 DEF OpensTask
  <2>2. /\ RoundFiles(t) = 1..checks[t].told
        /\ TaskPage(t) = 1..checks[t].told \/
             (t = currentCheck /\ TaskPage(t) = 1..Len(files) /\ application = "NEED_MORE")
    BY <1>1, PageOfAnAnswer
  <2>3. t \in TasksOf(checks[t].by) BY <1>1 DEF TasksOf
  <2>4. \A i \in TaskPage(t) : DownloadsAsAgent(checks[t].by, i)
    BY <1>1, <2>2, <2>3 DEF DownloadsAsAgent
  <2>5. QED BY <2>1, <2>2, <2>4
<1>2. ASSUME NEW g \in Agents, NEW i \in DOMAIN files, DownloadsAsAgent(g, i)
      PROVE  \E t \in DOMAIN checks : OpensTask(g, t) /\ i \in TaskPage(t)
  BY <1>2, ToldIsShown DEF DownloadsAsAgent
<1>3. QED BY <1>1, <1>2 DEF JudgesSeeTheirRound

\* Telesales sees of a return what its own answers were given on, and nothing of what
\* others were asked later.
THEOREM JudgesKeepTheirRound == EvidenceSpec => []JudgesSeeTheirRound
BY EvidenceInvariant, JudgesSee, PTL

LEMMA QueueFits ==
  ASSUME EvidenceInv
  PROVE  OpenQueue = IF application \in {"VERIFYING", "REVIEWING"} THEN {currentCheck} ELSE {}
<1>1. CASE application \notin {"VERIFYING", "REVIEWING"} BY <1>1 DEF OpenQueue
<1>2. CASE application \in {"VERIFYING", "REVIEWING"}
  <2>1. currentCheck = LastCheck /\ checks # <<>> BY <1>2 DEF EvidenceInv, CurrentIsLast
  <2>2. /\ LastCheck \in 1..Len(checks) /\ LastCheck = Len(checks) /\ DOMAIN checks = 1..Len(checks)
        /\ Len(checks) \in Nat
    BY <2>1, LastIsNat DEF EvidenceInv, LastCheck
  <2>3. checks[LastCheck].status \in OpenChecks \cup {"SUBMITTED"}
    BY <1>2, <2>1 DEF EvidenceInv, LastFits
  <2>4. ~leadErased BY <2>1, <2>3 DEF EvidenceInv, LastFits, OpenChecks
  <2>5. ASSUME NEW t \in DOMAIN checks, t # LastCheck
        PROVE  checks[t].status \notin OpenChecks \cup {"SUBMITTED"}
    <3>1. t \in 1..Len(checks) /\ t < LastCheck BY <2>2, <2>5
    <3>2. checks[t].status = "RELEASED" BY <3>1 DEF EvidenceInv, SnapshotsAreOwn
    <3>3. QED BY <3>2 DEF OpenChecks
  <2>6. OpenQueue = {LastCheck} BY <1>2, <2>2, <2>3, <2>4, <2>5 DEF OpenQueue
  <2>7. QED BY <1>2, <2>1, <2>6
<1>3. QED BY <1>1, <1>2

LEMMA FormFits ==
  ASSUME EvidenceInv
  PROVE  /\ application = "DRAFT" => (FormOffers <=> DraftMaterial)
         /\ application = "NEED_MORE" => (SupplementMaterial => FormOffers)
<1>1. Len(files) \in Nat BY LastIsNat DEF EvidenceInv
<1>2. ASSUME application = "DRAFT" PROVE FormOffers <=> DraftMaterial
  <2>1. CASE reopenedAt = 0
    <3>1. CurrentRoundContents # {} <=> Len(files) >= 1
      BY <1>1, <2>1 DEF CurrentRoundContents
    <3>2. QED BY <1>2, <2>1, <3>1 DEF FormOffers, DraftMaterial
  <2>2. CASE reopenedAt # 0
    <3>1. CurrentRoundContents # {} <=> NewSince(reopenedAt)
      BY <2>2 DEF CurrentRoundContents, NewSince
    <3>2. NewSince(reopenedAt) => Len(files) >= 1
      <4>1. reopenedAt \in Nat BY DEF EvidenceInv, EvidenceTypeOK
      <4>2. NewSince(reopenedAt) => \E i \in 1..Len(files) : i > reopenedAt
        BY <4>1, NewsIsAFile DEF EvidenceInv
      <4>3. QED BY <1>1, <4>2
    <3>3. QED BY <1>2, <2>2, <3>1, <3>2 DEF FormOffers, DraftMaterial
  <2>3. QED BY <2>1, <2>2
<1>3. ASSUME application = "NEED_MORE", SupplementMaterial PROVE FormOffers
  BY <1>3 DEF SupplementMaterial, FormOffers, SupplementContents, NewSince
<1>4. QED BY <1>2, <1>3

LEMMA ListsFit == ASSUME application # "NONE" PROVE \A u \in Receivers : ListsReturn(u) <=> ReadsReturn(u)
BY DEF ListsReturn, ReadsReturn, OnTheReturn, OnTheRound, Receivers

\* The queue of operations, the list of the company and the form of the receiver say
\* what the services then accept.
THEOREM ReturnPagesAgree == EvidenceSpec => []PagesAgree
<1>1. EvidenceInv => PagesAgree BY QueueFits, FormFits, ListsFit DEF PagesAgree
<1>2. QED BY <1>1, EvidenceInvariant, PTL

-----------------------------------------------------------------------------
\* KeyedRequests

Joiners(e) == {c \in Calls : stage[c] \in Joining /\ joined[c] = e}

\* A lock entry is under its key, was made by a call that came, and is in use.
EntriesInUse == \A p \in Processes, k \in Keys : entryAt[p][k] # Nobody =>
  /\ ProcessOf[entryAt[p][k]] = p /\ KeyOf[entryAt[p][k]] = k
  /\ stage[entryAt[p][k]] # "new" /\ Joiners(entryAt[p][k]) # {}

UsersAreCounted == \A e \in Calls : users[e] = Cardinality(Joiners(e))

\* The calls of a process with one key use one entry.
JoinersShare == \A c \in Calls :
  /\ stage[c] \in Joining => joined[c] # Nobody /\ joined[c] = EntryOf(c)
  /\ joined[c] # Nobody => stage[c] # "new" /\ stage[joined[c]] # "new"

\* The lock of an entry is held by the call inside, and by no other.
LockIsHeld ==
  /\ \A c \in Calls : InGuard(c) => holder[joined[c]] = c
  /\ \A e \in Calls : holder[e] # Nobody => InGuard(holder[e]) /\ joined[holder[e]] = e

GuardInv == EntriesInUse /\ UsersAreCounted /\ JoinersShare /\ LockIsHeld

\* A call that enters a lead has the advisory lock from its first look to its commit.
SerialIsHeld ==
  /\ \A k \in Keys : serial[k] # Nobody => KeyOf[serial[k]] = k /\ Entering(serial[k])
  /\ \A c \in Calls : Entering(c) /\ stage[c] \in {"serial", "working", "writing", "inserted"}
                        => serial[KeyOf[c]] = c

StagesFit == \A c \in Calls :
  /\ c \in inserted <=> stage[c] = "inserted"
  /\ c \in committed => stage[c] \in {"leaving", "parting", "closing", "done", "lost"}
  /\ Entering(c) => stage[c] # "checking"
  /\ stage[c] \in {"clashed", "clashedOut", "retrying"} => Entering(c)

OutcomesAreUnique == \A c, d \in inserted \cup committed : KeyOf[c] = KeyOf[d] => c = d

Elsewhere(c, d) == ProcessOf[d] # ProcessOf[c] /\ (Entering(c) => ~Entering(d))

\* An outcome that a call at work did not find comes from another process.
OthersAreElsewhere == \A c \in Calls : stage[c] \in {"working", "checking", "writing", "inserted"} =>
  \A d \in inserted \cup committed : KeyOf[d] = KeyOf[c] /\ d # c => Elsewhere(c, d)

GivenFits == \A c \in Calls : given[c] # Nobody =>
  given[c] \in committed /\ KeyOf[given[c]] = KeyOf[c] /\ Fits(c, given[c])

ClashIsElsewhere == \A c \in Calls :
  stage[c] \in {"clashed", "clashedOut", "retrying"} \/ refusal[c] = "failed" =>
    \E d \in committed : KeyOf[d] = KeyOf[c] /\ Elsewhere(c, d)

OutcomeInv ==
  /\ SerialIsHeld /\ StagesFit /\ OutcomesAreUnique /\ OthersAreElsewhere
  /\ GivenFits /\ ClashIsElsewhere

KeyedInv == KeyedTypeOK /\ GuardInv /\ OutcomeInv

-----------------------------------------------------------------------------
\* Facts about the guard.

LEMMA JoinersAreFinite ==
  ASSUME CallsAssumption, NEW e PROVE IsFiniteSet(Joiners(e)) /\ IsFiniteSet(Joiners(e)')
<1>1. Joiners(e) \subseteq Calls /\ Joiners(e)' \subseteq Calls BY DEF Joiners
<1>2. QED BY <1>1, FS_Subset DEF CallsAssumption

\* One call per process and key is inside.
LEMMA OneInside ==
  ASSUME KeyedInv, NEW c \in Calls, NEW d \in Calls, InGuard(c), InGuard(d),
         ProcessOf[c] = ProcessOf[d], KeyOf[c] = KeyOf[d]
  PROVE  c = d
BY DEF KeyedInv, GuardInv, JoinersShare, LockIsHeld, InGuard, EntryOf, Joining

\* A call inside the guard goes on inside.
Works(c) ==
  /\ stage[c] \in Guarded /\ stage'[c] \in Guarded
  /\ \E s \in Stages : stage' = [stage EXCEPT ![c] = s]
  /\ UNCHANGED <<joined, entryAt, users, holder>>

LEMMA WorkKeepsGuard ==
  ASSUME KeyedInv, NEW c \in Calls, Works(c) PROVE GuardInv'
<1> USE DEF KeyedInv, GuardInv
<1>1. \A d \in Calls : d # c => stage'[d] = stage[d] BY DEF Works, KeyedTypeOK
<1>2. \A d \in Calls : /\ stage'[d] \in Joining <=> stage[d] \in Joining
                       /\ stage'[d] \in Guarded <=> stage[d] \in Guarded
                       /\ stage'[d] = "new" <=> stage[d] = "new"
  BY <1>1 DEF Works, Joining, Guarded
<1>3. \A e \in Calls : Joiners(e)' = Joiners(e) BY <1>2 DEF Joiners, Works
<1>4. EntriesInUse'
  <2> SUFFICES ASSUME NEW p \in Processes, NEW k \in Keys, entryAt'[p][k] # Nobody PROVE
        /\ ProcessOf[entryAt'[p][k]] = p /\ KeyOf[entryAt'[p][k]] = k
        /\ stage'[entryAt'[p][k]] # "new" /\ Joiners(entryAt[p][k])' # {}
    BY DEF EntriesInUse
  <2>1. entryAt'[p][k] = entryAt[p][k] /\ entryAt[p][k] \in Calls
    BY DEF Works, KeyedTypeOK, OrNobody
  <2>2. Joiners(entryAt[p][k])' = Joiners(entryAt[p][k]) BY <1>2, <2>1 DEF Joiners, Works
  <2>3. QED BY <1>2, <2>1, <2>2 DEF EntriesInUse
<1>5. UsersAreCounted' BY <1>3 DEF UsersAreCounted, Works
<1>6. JoinersShare'
  <2>1. \A d \in Calls : EntryOf(d)' = EntryOf(d) /\ joined'[d] = joined[d] /\ joined[d] \in OrNobody
    BY DEF EntryOf, Works, KeyedTypeOK
  <2>2. QED BY <1>2, <2>1 DEF JoinersShare, OrNobody
<1>7. LockIsHeld'
  <2>1. \A d \in Calls : holder'[d] = holder[d] /\ joined'[d] = joined[d] /\ holder[d] \in OrNobody
    BY DEF Works, KeyedTypeOK
  <2>2. joined' = joined /\ holder' = holder BY DEF Works
  <2>3. QED BY <1>2, <2>1, <2>2 DEF LockIsHeld, InGuard, OrNobody
<1>8. QED BY <1>4, <1>5, <1>6, <1>7

-----------------------------------------------------------------------------
LEMMA KeyedStarts == ASSUME CallsAssumption, KeyedInit PROVE KeyedInv
<1> USE DEF KeyedInit
<1>1. KeyedTypeOK BY DEF KeyedTypeOK, Stages, Joining, Guarded, OrNobody, Refusals
<1>2. \A e \in Calls : Joiners(e) = {} BY DEF Joiners, Joining, Guarded
<1>3. UsersAreCounted BY <1>2, FS_EmptySet DEF UsersAreCounted
<1>4. EntriesInUse /\ JoinersShare /\ LockIsHeld
  BY DEF EntriesInUse, JoinersShare, LockIsHeld, InGuard, Joining, Guarded
<1>5. OutcomeInv
  BY DEF OutcomeInv, SerialIsHeld, StagesFit, OutcomesAreUnique, OthersAreElsewhere, GivenFits,
    ClashIsElsewhere
<1>6. QED BY <1>1, <1>3, <1>4, <1>5 DEF KeyedInv, GuardInv

\* What is left to show when neither the outcomes nor the locks of the database change.
LEMMA OutcomesStand ==
  ASSUME CallsAssumption, KeyedInv,
         UNCHANGED <<serial, inserted, committed, given, refusal>>,
         \A d \in Calls :
           \/ stage'[d] = stage[d]
           \/ /\ stage[d] \in {"new", "waiting", "leaving", "parting", "closing"}
              /\ stage'[d] \in {"waiting", "inside", "parting", "closing", "done"}
              /\ stage[d] \in {"new", "waiting"} <=> stage'[d] \in {"waiting", "inside"}
           \/ stage[d] = "clashed" /\ stage'[d] = "clashedOut"
           \/ stage[d] = "clashedOut" /\ stage'[d] = "retrying"
  PROVE  OutcomeInv'
<1> USE DEF KeyedInv, OutcomeInv
<1>1. SerialIsHeld' BY DEF SerialIsHeld, Entering
<1>2. StagesFit' BY DEF StagesFit, Entering
<1>3. OutcomesAreUnique' BY DEF OutcomesAreUnique
<1>4. OthersAreElsewhere' BY DEF OthersAreElsewhere, Elsewhere, Entering
<1>5. GivenFits' BY DEF GivenFits, Fits
<1>6. ClashIsElsewhere' BY DEF ClashIsElsewhere, Elsewhere, Entering
<1>7. QED BY <1>1, <1>2, <1>3, <1>4, <1>5, <1>6

LEMMA EnterGuardKeeps ==
  ASSUME CallsAssumption, KeyedInv, NEW c \in Calls, EnterGuard(c) PROVE KeyedInv'
<1> USE DEF KeyedInv, GuardInv
<1> DEFINE e == IF EntryOf(c) = Nobody THEN c ELSE EntryOf(c)
<1>1. /\ stage[c] = "new" /\ stage' = [stage EXCEPT ![c] = "waiting"]
      /\ entryAt' = [entryAt EXCEPT ![ProcessOf[c]][KeyOf[c]] = e]
      /\ joined' = [joined EXCEPT ![c] = e] /\ users' = [users EXCEPT ![e] = @ + 1]
      /\ UNCHANGED <<holder, serial, leadLock, inserted, committed, ready, given, refusal>>
  BY DEF EnterGuard, Goes
<1>2. ProcessOf[c] \in Processes /\ KeyOf[c] \in Keys BY DEF CallsAssumption
<1>3. e \in Calls /\ e # Nobody BY <1>2 DEF KeyedTypeOK, OrNobody, EntryOf, CallsAssumption
<1>4. ProcessOf[e] = ProcessOf[c] /\ KeyOf[e] = KeyOf[c] BY <1>2 DEF EntriesInUse, EntryOf
<1>5. e = c \/ stage[e] # "new" BY <1>2 DEF EntriesInUse, EntryOf
<1>6. EntryOf(c) \in {Nobody, e} OBVIOUS
<1> HIDE DEF e
<1>7. \A d \in Calls : d # c => stage'[d] = stage[d] /\ joined'[d] = joined[d]
  BY <1>1 DEF KeyedTypeOK
<1>8. stage'[c] = "waiting" /\ joined'[c] = e BY <1>1 DEF KeyedTypeOK
<1>9. joined[c] = Nobody BY <1>1 DEF JoinersShare, KeyedTypeOK
<1>10. KeyedTypeOK'
  BY <1>1, <1>3 DEF KeyedTypeOK, Stages, Joining, OrNobody
<1>11. {d \in Calls : stage'[d] \in Joining /\ joined'[d] = e} = Joiners(e) \cup {c}
  BY <1>7, <1>8 DEF Joiners, Joining
<1>12. c \notin Joiners(e) BY <1>3, <1>9 DEF Joiners
<1>13. \A x \in Calls : x # e =>
         {d \in Calls : stage'[d] \in Joining /\ joined'[d] = x} = Joiners(x)
  BY <1>7, <1>8, <1>9 DEF Joiners, CallsAssumption
<1>14. Cardinality(Joiners(e) \cup {c}) = Cardinality(Joiners(e)) + 1
  BY <1>12, JoinersAreFinite, FS_AddElement
<1>15. UsersAreCounted'
  <2> SUFFICES ASSUME NEW x \in Calls PROVE users'[x] = Cardinality(Joiners(x)')
    BY DEF UsersAreCounted
  <2>1. Joiners(x)' = {d \in Calls : stage'[d] \in Joining /\ joined'[d] = x} BY DEF Joiners
  <2>2. CASE x = e
    <3>1. users'[e] = users[e] + 1 BY <1>1, <1>3 DEF KeyedTypeOK
    <3>2. QED BY <1>3, <1>11, <1>14, <2>1, <2>2, <3>1 DEF UsersAreCounted
  <2>3. CASE x # e
    <3>1. users'[x] = users[x] BY <1>1, <2>3 DEF KeyedTypeOK
    <3>2. QED BY <1>13, <2>1, <2>3, <3>1 DEF UsersAreCounted
  <2>4. QED BY <2>2, <2>3
<1>16. \A p \in Processes, k \in Keys : entryAt'[p][k] =
         IF p = ProcessOf[c] /\ k = KeyOf[c] THEN e ELSE entryAt[p][k]
  BY <1>1, <1>2 DEF KeyedTypeOK
<1>17. EntriesInUse'
  <2> SUFFICES ASSUME NEW p \in Processes, NEW k \in Keys, entryAt'[p][k] # Nobody PROVE
        /\ ProcessOf[entryAt'[p][k]] = p /\ KeyOf[entryAt'[p][k]] = k
        /\ stage'[entryAt'[p][k]] # "new" /\ Joiners(entryAt[p][k])' # {}
    BY DEF EntriesInUse
  <2>1. Joiners(entryAt[p][k])' = {d \in Calls : stage'[d] \in Joining /\ joined'[d] = entryAt'[p][k]}
    BY DEF Joiners
  <2>2. CASE p = ProcessOf[c] /\ k = KeyOf[c]
    BY <1>4, <1>5, <1>3, <1>7, <1>8, <1>11, <1>16, <2>1, <2>2
  <2>3. CASE ~(p = ProcessOf[c] /\ k = KeyOf[c])
    <3>1. entryAt'[p][k] = entryAt[p][k] /\ entryAt[p][k] \in Calls
      BY <1>16, <2>3 DEF KeyedTypeOK, OrNobody
    <3>2. entryAt[p][k] # e BY <1>4, <2>3, <3>1 DEF EntriesInUse
    <3>3. stage'[entryAt[p][k]] # "new" BY <1>7, <1>8, <3>1 DEF EntriesInUse
    <3>4. QED BY <1>13, <2>1, <3>1, <3>2, <3>3 DEF EntriesInUse
  <2>4. QED BY <2>2, <2>3
<1>18. JoinersShare'
  <2> SUFFICES ASSUME NEW d \in Calls PROVE
        /\ stage'[d] \in Joining => joined'[d] # Nobody /\ joined'[d] = EntryOf(d)'
        /\ joined'[d] # Nobody => stage'[d] # "new" /\ stage'[joined'[d]] # "new"
    BY DEF JoinersShare
  <2>1. ProcessOf[d] \in Processes /\ KeyOf[d] \in Keys BY DEF CallsAssumption
  <2>2. EntryOf(d)' = IF ProcessOf[d] = ProcessOf[c] /\ KeyOf[d] = KeyOf[c] THEN e ELSE EntryOf(d)
    BY <1>16, <2>1 DEF EntryOf
  <2>3. CASE d = c BY <1>3, <1>5, <1>7, <1>8, <2>2, <2>3
  <2>4. CASE d # c
    <3>1. joined[d] \in OrNobody BY DEF KeyedTypeOK
    <3>2. joined[d] # Nobody => stage'[d] # "new" /\ stage'[joined[d]] # "new"
      BY <1>7, <1>8, <2>4, <3>1 DEF JoinersShare, OrNobody
    <3>3. stage[d] \in Joining => joined[d] # Nobody /\ joined[d] = EntryOf(d) BY DEF JoinersShare
    <3>4. ProcessOf[d] = ProcessOf[c] /\ KeyOf[d] = KeyOf[c] => EntryOf(d) = EntryOf(c)
      BY DEF EntryOf
    <3>5. QED BY <1>6, <1>7, <2>2, <2>4, <3>2, <3>3, <3>4
  <2>5. QED BY <2>3, <2>4
<1>19. LockIsHeld'
  <2>1. \A d \in Calls : InGuard(d)' <=> InGuard(d)
    BY <1>1, <1>7, <1>8 DEF InGuard, Guarded
  <2>2. \A d \in Calls : InGuard(d) => d # c BY <1>1 DEF InGuard, Guarded
  <2>3. \A x \in Calls : holder[x] # Nobody => holder[x] \in Calls /\ InGuard(holder[x])
    BY DEF LockIsHeld, KeyedTypeOK, OrNobody
  <2>4. \A d \in Calls : InGuard(d)' => holder'[joined'[d]] = d
    BY <1>1, <1>7, <2>1, <2>2 DEF LockIsHeld
  <2>5. \A x \in Calls : holder'[x] # Nobody => InGuard(holder[x])' /\ joined'[holder'[x]] = x
    <3> SUFFICES ASSUME NEW x \in Calls, holder'[x] # Nobody
                 PROVE  InGuard(holder[x])' /\ joined'[holder'[x]] = x
      OBVIOUS
    <3>1. holder'[x] = holder[x] /\ holder[x] \in Calls /\ InGuard(holder[x]) /\ holder[x] # c
      BY <1>1, <2>2, <2>3
    <3>2. stage'[holder[x]] = stage[holder[x]] /\ joined'[holder[x]] = joined[holder[x]]
      BY <1>7, <3>1
    <3>3. QED BY <3>1, <3>2 DEF LockIsHeld, InGuard
  <2>6. QED BY <2>4, <2>5 DEF LockIsHeld
<1>20. OutcomeInv' BY <1>1, <1>7, <1>8, OutcomesStand
<1>21. QED BY <1>10, <1>15, <1>17, <1>18, <1>19, <1>20

\* Joiners and entries when nobody joins or leaves and the lock changes hands.
LEMMA LockChangesHands ==
  ASSUME CallsAssumption, KeyedInv, UNCHANGED <<joined, entryAt, users>>,
         stage' \in [Calls -> Stages],
         \A d \in Calls : /\ stage'[d] \in Joining <=> stage[d] \in Joining
                          /\ stage'[d] = "new" <=> stage[d] = "new"
  PROVE  EntriesInUse' /\ UsersAreCounted' /\ JoinersShare'
<1> USE DEF KeyedInv, GuardInv
<1>1. \A e \in Calls : Joiners(e)' = Joiners(e) BY DEF Joiners
<1>2. EntriesInUse'
  <2> SUFFICES ASSUME NEW p \in Processes, NEW k \in Keys, entryAt'[p][k] # Nobody PROVE
        /\ ProcessOf[entryAt'[p][k]] = p /\ KeyOf[entryAt'[p][k]] = k
        /\ stage'[entryAt'[p][k]] # "new" /\ Joiners(entryAt[p][k])' # {}
    BY DEF EntriesInUse
  <2>1. entryAt'[p][k] = entryAt[p][k] /\ entryAt[p][k] \in Calls BY DEF KeyedTypeOK, OrNobody
  <2>2. Joiners(entryAt[p][k])' = Joiners(entryAt[p][k]) BY DEF Joiners
  <2>3. QED BY <2>1, <2>2 DEF EntriesInUse
<1>3. UsersAreCounted' BY <1>1 DEF UsersAreCounted
<1>4. JoinersShare'
  <2>1. \A d \in Calls : EntryOf(d)' = EntryOf(d) /\ joined'[d] = joined[d] /\ joined[d] \in OrNobody
    BY DEF EntryOf, KeyedTypeOK
  <2>2. QED BY <2>1 DEF JoinersShare, OrNobody
<1>5. QED BY <1>2, <1>3, <1>4

LEMMA AcquireGuardKeeps ==
  ASSUME CallsAssumption, KeyedInv, NEW c \in Calls, AcquireGuard(c) PROVE KeyedInv'
<1> USE DEF KeyedInv, GuardInv
<1>1. /\ stage[c] = "waiting" /\ stage' = [stage EXCEPT ![c] = "inside"]
      /\ holder[joined[c]] = Nobody /\ holder' = [holder EXCEPT ![joined[c]] = c]
      /\ UNCHANGED <<joined, entryAt, users, serial, leadLock, inserted, committed, ready, given, refusal>>
  BY DEF AcquireGuard, Goes
<1>2. joined[c] \in Calls BY <1>1 DEF JoinersShare, Joining, KeyedTypeOK, OrNobody
<1>3. \A d \in Calls : d # c => stage'[d] = stage[d] BY <1>1 DEF KeyedTypeOK
<1>4. stage'[c] = "inside" BY <1>1 DEF KeyedTypeOK
<1>5. KeyedTypeOK'
  BY <1>1, <1>2 DEF KeyedTypeOK, Stages, Joining, Guarded, OrNobody
<1>6. EntriesInUse' /\ UsersAreCounted' /\ JoinersShare'
  BY <1>1, <1>3, <1>4, <1>5, LockChangesHands DEF KeyedTypeOK, Joining, Guarded
<1>7. LockIsHeld'
  <2>1. \A d \in Calls : holder'[d] = IF d = joined[c] THEN c ELSE holder[d]
    BY <1>1, <1>2 DEF KeyedTypeOK
  <2>2. \A d \in Calls : InGuard(d) => InGuard(d)' BY <1>1, <1>3 DEF InGuard, Guarded
  <2>3. InGuard(c)' BY <1>4 DEF InGuard, Guarded
  <2>4. \A d \in Calls : InGuard(d)' => holder'[joined'[d]] = d
    <3> SUFFICES ASSUME NEW d \in Calls, InGuard(d)' PROVE holder'[joined'[d]] = d OBVIOUS
    <3>1. CASE d = c BY <1>1, <1>2, <2>1, <3>1
    <3>2. CASE d # c
      <4>1. InGuard(d) BY <1>3, <3>2 DEF InGuard
      <4>2. holder[joined[d]] = d /\ joined[d] \in Calls
        BY <4>1 DEF LockIsHeld, JoinersShare, InGuard, Joining, KeyedTypeOK, OrNobody
      <4>3. joined[d] # joined[c] BY <1>1, <4>2 DEF CallsAssumption
      <4>4. QED BY <1>1, <2>1, <4>2, <4>3
    <3>3. QED BY <3>1, <3>2
  <2>5. \A x \in Calls : holder'[x] # Nobody => InGuard(holder[x])' /\ joined'[holder'[x]] = x
    <3> SUFFICES ASSUME NEW x \in Calls, holder'[x] # Nobody
                 PROVE  InGuard(holder[x])' /\ joined'[holder'[x]] = x
      OBVIOUS
    <3>1. CASE x = joined[c]
      BY <1>1, <1>4, <2>1, <3>1 DEF InGuard, Guarded
    <3>2. CASE x # joined[c]
      <4>1. holder'[x] = holder[x] /\ holder[x] \in Calls /\ InGuard(holder[x]) /\ joined[holder[x]] = x
        BY <2>1, <3>2 DEF LockIsHeld, KeyedTypeOK, OrNobody
      <4>2. stage'[holder[x]] \in Guarded BY <1>3, <1>4, <4>1 DEF InGuard, Guarded
      <4>3. QED BY <1>1, <4>1, <4>2 DEF InGuard
    <3>3. QED BY <3>1, <3>2
  <2>6. QED BY <2>4, <2>5 DEF LockIsHeld
<1>8. OutcomeInv' BY <1>1, <1>3, <1>4, OutcomesStand
<1>9. QED BY <1>5, <1>6, <1>7, <1>8

LEMMA ReleaseGuardKeeps ==
  ASSUME CallsAssumption, KeyedInv, NEW c \in Calls, ReleaseGuard(c) PROVE KeyedInv'
<1> USE DEF KeyedInv, GuardInv
<1>1. /\ \/ stage[c] = "leaving" /\ stage' = [stage EXCEPT ![c] = "parting"]
         \/ stage[c] = "clashed" /\ stage' = [stage EXCEPT ![c] = "clashedOut"]
      /\ holder' = [holder EXCEPT ![joined[c]] = Nobody]
      /\ UNCHANGED <<joined, entryAt, users, serial, leadLock, inserted, committed, ready, given, refusal>>
  BY DEF ReleaseGuard, Goes
<1>2. InGuard(c) BY <1>1 DEF InGuard, Guarded
<1>3. joined[c] \in Calls /\ holder[joined[c]] = c
  BY <1>2 DEF JoinersShare, Joining, KeyedTypeOK, OrNobody, InGuard, LockIsHeld
<1>4. \A d \in Calls : d # c => stage'[d] = stage[d] BY <1>1 DEF KeyedTypeOK
<1>5. \/ stage[c] = "leaving" /\ stage'[c] = "parting"
      \/ stage[c] = "clashed" /\ stage'[c] = "clashedOut"
  BY <1>1 DEF KeyedTypeOK
<1>6. KeyedTypeOK' BY <1>1, <1>3 DEF KeyedTypeOK, Stages, Joining, OrNobody
<1>7. EntriesInUse' /\ UsersAreCounted' /\ JoinersShare'
  <2>1. \A d \in Calls : /\ stage'[d] \in Joining <=> stage[d] \in Joining
                         /\ stage'[d] = "new" <=> stage[d] = "new"
    BY <1>4, <1>5 DEF Joining, Guarded
  <2>2. QED BY <1>1, <1>6, <2>1, LockChangesHands DEF KeyedTypeOK
<1>8. LockIsHeld'
  <2>1. \A d \in Calls : holder'[d] = IF d = joined[c] THEN Nobody ELSE holder[d]
    BY <1>1, <1>3 DEF KeyedTypeOK
  <2>2. ~InGuard(c)' BY <1>5 DEF InGuard, Guarded
  <2>3. \A d \in Calls : InGuard(d)' => holder'[joined'[d]] = d
    <3> SUFFICES ASSUME NEW d \in Calls, InGuard(d)' PROVE holder'[joined'[d]] = d OBVIOUS
    <3>1. d # c BY <2>2
    <3>2. InGuard(d) BY <1>4, <3>1 DEF InGuard
    <3>3. holder[joined[d]] = d /\ joined[d] \in Calls
      BY <3>2 DEF LockIsHeld, JoinersShare, InGuard, Joining, KeyedTypeOK, OrNobody
    <3>4. joined[d] # joined[c] BY <1>3, <3>1, <3>3
    <3>5. QED BY <1>1, <2>1, <3>3, <3>4
  <2>4. \A x \in Calls : holder'[x] # Nobody => InGuard(holder[x])' /\ joined'[holder'[x]] = x
    <3> SUFFICES ASSUME NEW x \in Calls, holder'[x] # Nobody
                 PROVE  InGuard(holder[x])' /\ joined'[holder'[x]] = x
      OBVIOUS
    <3>1. x # joined[c] /\ holder'[x] = holder[x] BY <2>1
    <3>2. holder[x] \in Calls /\ InGuard(holder[x]) /\ joined[holder[x]] = x
      BY <3>1 DEF LockIsHeld, KeyedTypeOK, OrNobody
    <3>3. holder[x] # c BY <3>1, <3>2
    <3>4. QED BY <1>1, <1>4, <3>1, <3>2, <3>3 DEF InGuard
  <2>5. QED BY <2>3, <2>4 DEF LockIsHeld
<1>9. OutcomeInv' BY <1>1, <1>4, <1>5, OutcomesStand
<1>10. QED BY <1>6, <1>7, <1>8, <1>9

LEMMA LeaveGuardKeeps ==
  ASSUME CallsAssumption, KeyedInv, NEW c \in Calls, LeaveGuard(c) PROVE KeyedInv'
<1> USE DEF KeyedInv, GuardInv
<1> DEFINE e == joined[c]
<1>1. /\ \/ stage[c] = "parting" /\ stage' = [stage EXCEPT ![c] = "closing"]
         \/ stage[c] = "clashedOut" /\ stage' = [stage EXCEPT ![c] = "retrying"]
      /\ users' = [users EXCEPT ![e] = @ - 1]
      /\ entryAt' = (IF users[e] = 1
                     THEN [entryAt EXCEPT ![ProcessOf[c]][KeyOf[c]] = Nobody] ELSE entryAt)
      /\ UNCHANGED <<joined, holder, serial, leadLock, inserted, committed, ready, given, refusal>>
  BY DEF LeaveGuard, Goes
<1>2. ProcessOf[c] \in Processes /\ KeyOf[c] \in Keys BY DEF CallsAssumption
<1>3. stage[c] \in Joining BY <1>1 DEF Joining
<1>4. e \in Calls /\ e # Nobody /\ e = EntryOf(c)
  BY <1>3 DEF JoinersShare, KeyedTypeOK, OrNobody
<1>5. ProcessOf[e] = ProcessOf[c] /\ KeyOf[e] = KeyOf[c]
  BY <1>2, <1>4 DEF EntriesInUse, EntryOf
<1>6. c \in Joiners(e) BY <1>3 DEF Joiners
<1> HIDE DEF e
<1>7. \A d \in Calls : d # c => stage'[d] = stage[d] BY <1>1 DEF KeyedTypeOK
<1>8. \/ stage[c] = "parting" /\ stage'[c] = "closing"
      \/ stage[c] = "clashedOut" /\ stage'[c] = "retrying"
  BY <1>1 DEF KeyedTypeOK
<1>9. stage'[c] \notin Joining /\ stage'[c] # "new" BY <1>8 DEF Joining, Guarded
<1>10. users[e] = Cardinality(Joiners(e)) BY <1>4 DEF UsersAreCounted
<1>11. users[e] \in Nat /\ users[e] >= 1
  <2>1. Cardinality(Joiners(e)) # 0 BY <1>6, JoinersAreFinite, FS_EmptySet
  <2>2. QED BY <1>4, <1>10, <2>1 DEF KeyedTypeOK
<1>12. Cardinality(Joiners(e) \ {c}) = users[e] - 1
  BY <1>6, <1>10, JoinersAreFinite, FS_RemoveElement
<1>13. IsFiniteSet(Joiners(e) \ {c}) BY JoinersAreFinite, FS_Subset
<1>14. KeyedTypeOK'
  <2>1. users' \in [Calls -> Nat]
    <3>1. users[e] - 1 \in Nat BY <1>11
    <3>2. QED BY <1>1, <3>1 DEF KeyedTypeOK
  <2>2. entryAt' \in [Processes -> [Keys -> OrNobody]] BY <1>1, <1>2 DEF KeyedTypeOK, OrNobody
  <2>3. stage' \in [Calls -> Stages] BY <1>1 DEF KeyedTypeOK, Stages
  <2>4. QED BY <1>1, <2>1, <2>2, <2>3 DEF KeyedTypeOK
<1>15. {d \in Calls : stage'[d] \in Joining /\ joined[d] = e} = Joiners(e) \ {c}
  BY <1>7, <1>9 DEF Joiners
<1>16. \A x \in Calls : x # e =>
         {d \in Calls : stage'[d] \in Joining /\ joined[d] = x} = Joiners(x)
  BY <1>7, <1>9 DEF Joiners, e
<1>17. UsersAreCounted'
  <2> SUFFICES ASSUME NEW x \in Calls PROVE users'[x] = Cardinality(Joiners(x)')
    BY DEF UsersAreCounted
  <2>1. Joiners(x)' = {d \in Calls : stage'[d] \in Joining /\ joined[d] = x} BY <1>1 DEF Joiners
  <2>2. CASE x = e
    <3>1. users'[e] = users[e] - 1 BY <1>1, <1>4 DEF KeyedTypeOK
    <3>2. QED BY <1>12, <1>15, <2>1, <2>2, <3>1
  <2>3. CASE x # e
    <3>1. users'[x] = users[x] BY <1>1, <2>3 DEF KeyedTypeOK
    <3>2. QED BY <1>16, <2>1, <2>3, <3>1 DEF UsersAreCounted
  <2>4. QED BY <2>2, <2>3
<1>18. \A p \in Processes, k \in Keys :
         /\ ~(p = ProcessOf[c] /\ k = KeyOf[c]) => entryAt'[p][k] = entryAt[p][k]
         /\ p = ProcessOf[c] /\ k = KeyOf[c] =>
              entryAt[p][k] = e /\ entryAt'[p][k] = IF users[e] = 1 THEN Nobody ELSE e
  BY <1>1, <1>2, <1>4 DEF KeyedTypeOK, EntryOf
<1>19. EntriesInUse'
  <2> SUFFICES ASSUME NEW p \in Processes, NEW k \in Keys, entryAt'[p][k] # Nobody PROVE
        /\ ProcessOf[entryAt'[p][k]] = p /\ KeyOf[entryAt'[p][k]] = k
        /\ stage'[entryAt'[p][k]] # "new" /\ Joiners(entryAt[p][k])' # {}
    BY DEF EntriesInUse
  <2>1. Joiners(entryAt[p][k])' = {d \in Calls : stage'[d] \in Joining /\ joined[d] = entryAt'[p][k]}
    BY <1>1 DEF Joiners
  <2>2. entryAt'[p][k] = entryAt[p][k] /\ entryAt[p][k] \in Calls
    BY <1>18 DEF KeyedTypeOK, OrNobody
  <2>3. stage'[entryAt[p][k]] # "new" BY <1>7, <1>9, <2>2 DEF EntriesInUse
  <2>4. CASE p = ProcessOf[c] /\ k = KeyOf[c]
    <3>1. entryAt'[p][k] = e /\ users[e] # 1 BY <1>18, <2>4
    <3>2. Joiners(e) \ {c} # {}
      <4>1. Cardinality({}) = 0 BY FS_EmptySet
      <4>2. users[e] - 1 # 0 BY <1>11, <3>1
      <4>3. QED BY <1>12, <4>1, <4>2
    <3>3. QED BY <1>5, <1>15, <2>1, <2>2, <2>3, <2>4, <3>1, <3>2
  <2>5. CASE ~(p = ProcessOf[c] /\ k = KeyOf[c])
    <3>1. entryAt[p][k] # e BY <1>5, <2>2, <2>5 DEF EntriesInUse
    <3>2. QED BY <1>16, <2>1, <2>2, <2>3, <3>1 DEF EntriesInUse
  <2>6. QED BY <2>4, <2>5
<1>20. JoinersShare'
  <2> SUFFICES ASSUME NEW d \in Calls PROVE
        /\ stage'[d] \in Joining => joined'[d] # Nobody /\ joined'[d] = EntryOf(d)'
        /\ joined'[d] # Nobody => stage'[d] # "new" /\ stage'[joined'[d]] # "new"
    BY DEF JoinersShare
  <2>1. ProcessOf[d] \in Processes /\ KeyOf[d] \in Keys BY DEF CallsAssumption
  <2>2. joined'[d] = joined[d] /\ joined[d] \in OrNobody BY <1>1 DEF KeyedTypeOK
  <2>3. joined[d] # Nobody => stage'[d] # "new" /\ stage'[joined[d]] # "new"
    BY <1>7, <1>9, <2>2 DEF JoinersShare, OrNobody
  <2>4. ASSUME stage'[d] \in Joining PROVE joined[d] # Nobody /\ joined[d] = EntryOf(d)'
    <3>1. d # c /\ stage[d] \in Joining BY <1>7, <1>9, <2>4
    <3>2. joined[d] # Nobody /\ joined[d] = EntryOf(d) BY <3>1 DEF JoinersShare
    <3>3. CASE ProcessOf[d] = ProcessOf[c] /\ KeyOf[d] = KeyOf[c]
      <4>1. EntryOf(d) = e BY <1>4, <3>3 DEF EntryOf
      <4>2. d \in Joiners(e) \ {c} BY <3>1, <3>2, <4>1 DEF Joiners
      <4>3. users[e] - 1 # 0 BY <1>12, <1>13, <4>2, FS_EmptySet
      <4>4. QED BY <1>18, <2>1, <3>2, <3>3, <4>1, <4>3, <1>11 DEF EntryOf
    <3>4. CASE ~(ProcessOf[d] = ProcessOf[c] /\ KeyOf[d] = KeyOf[c])
      BY <1>18, <2>1, <3>2, <3>4 DEF EntryOf
    <3>5. QED BY <3>3, <3>4
  <2>5. QED BY <2>2, <2>3, <2>4
<1>21. LockIsHeld'
  <2>1. \A d \in Calls : InGuard(d)' <=> InGuard(d) BY <1>7, <1>8 DEF InGuard, Guarded
  <2>2. \A x \in Calls : holder[x] # Nobody => holder[x] \in Calls
    BY DEF KeyedTypeOK, OrNobody
  <2>3. \A x \in Calls : holder'[x] # Nobody => InGuard(holder[x])' /\ joined'[holder'[x]] = x
    <3> SUFFICES ASSUME NEW x \in Calls, holder'[x] # Nobody
                 PROVE  InGuard(holder[x])' /\ joined'[holder'[x]] = x
      OBVIOUS
    <3>1. holder'[x] = holder[x] /\ holder[x] \in Calls /\ InGuard(holder[x]) /\ joined[holder[x]] = x
      BY <1>1, <2>2 DEF LockIsHeld
    <3>2. stage'[holder[x]] \in Guarded BY <1>7, <1>8, <3>1 DEF InGuard, Guarded
    <3>3. QED BY <1>1, <3>1, <3>2 DEF InGuard
  <2>4. QED BY <1>1, <2>1, <2>3 DEF LockIsHeld
<1>22. OutcomeInv' BY <1>1, <1>7, <1>8, OutcomesStand
<1>23. QED BY <1>14, <1>17, <1>19, <1>20, <1>21, <1>22

-----------------------------------------------------------------------------
\* A call inside: first what it leaves of the outcomes, then its operations.

\* A call turns back with a known outcome or a refusal.
LEMMA TurnBackKeeps ==
  ASSUME CallsAssumption, KeyedInv, NEW c \in Calls,
         stage[c] \in {"inside", "serial", "working", "checking", "writing"},
         stage' = [stage EXCEPT ![c] = "leaving"],
         UNCHANGED <<joined, entryAt, users, holder, serial, leadLock, inserted, committed, ready>>,
         \/ /\ given' = given
            /\ \E r \in {"conflict", "refused"} : refusal' = [refusal EXCEPT ![c] = r]
         \/ /\ refusal' = refusal
            /\ \E d \in committed : /\ KeyOf[d] = KeyOf[c] /\ Fits(c, d)
                                    /\ given' = [given EXCEPT ![c] = d]
  PROVE  KeyedInv'
<1> USE DEF KeyedInv, OutcomeInv
<1>1. \A d \in Calls : d # c => stage'[d] = stage[d] BY DEF KeyedTypeOK
<1>2. stage'[c] = "leaving" BY DEF KeyedTypeOK
<1>3. KeyedTypeOK'
  <2>1. refusal' \in [Calls -> Refusals] BY DEF KeyedTypeOK, Refusals
  <2>2. given' \in [Calls -> OrNobody] BY DEF KeyedTypeOK, OrNobody
  <2>3. stage' \in [Calls -> Stages] BY DEF KeyedTypeOK, Stages, Joining, Guarded
  <2>4. QED BY <2>1, <2>2, <2>3 DEF KeyedTypeOK
<1>4. GuardInv'
  <2>1. Works(c) BY <1>2 DEF Works, Guarded, Stages, Joining
  <2>2. QED BY <2>1, WorkKeepsGuard
<1>5. SerialIsHeld' BY <1>1, <1>2 DEF SerialIsHeld, Entering
<1>6. StagesFit' BY <1>1, <1>2 DEF StagesFit, Entering
<1>7. OutcomesAreUnique' BY DEF OutcomesAreUnique
<1>8. OthersAreElsewhere' BY <1>1, <1>2 DEF OthersAreElsewhere, Elsewhere, Entering
<1>9. GivenFits'
  <2> SUFFICES ASSUME NEW d \in Calls, given'[d] # Nobody
               PROVE  given'[d] \in committed /\ KeyOf[given'[d]] = KeyOf[d] /\ Fits(d, given'[d])
    BY DEF GivenFits, Fits
  <2>1. CASE given'[d] = given[d] BY <2>1 DEF GivenFits
  <2>2. CASE given'[d] # given[d] BY <2>2 DEF KeyedTypeOK
  <2>3. QED BY <2>1, <2>2
<1>10. ClashIsElsewhere'
  <2>1. \A d \in Calls : refusal'[d] = "failed" => refusal[d] = "failed" BY DEF KeyedTypeOK
  <2>2. QED BY <1>1, <1>2, <2>1 DEF ClashIsElsewhere, Elsewhere, Entering
<1>11. QED BY <1>3, <1>4, <1>5, <1>6, <1>7, <1>8, <1>9, <1>10

LEMMA KnownKeeps ==
  ASSUME CallsAssumption, KeyedInv, NEW c \in Calls, NEW s \in {"inside", "serial", "checking"},
         Known(c, s)
  PROVE  KeyedInv'
<1>1. PICK d \in Made(KeyOf[c]) : AnswerKnown(c, d) BY DEF Known
<1>2. d \in committed /\ KeyOf[d] = KeyOf[c] BY <1>1 DEF Made
<1>3. \/ given' = given /\ refusal' = [refusal EXCEPT ![c] = "conflict"]
      \/ refusal' = refusal /\ Fits(c, d) /\ given' = [given EXCEPT ![c] = d]
  BY <1>1 DEF AnswerKnown
<1>4. stage[c] = s /\ stage' = [stage EXCEPT ![c] = "leaving"] BY DEF Known, Goes
<1>5. UNCHANGED <<joined, entryAt, users, holder, serial, leadLock, inserted, committed, ready>>
  BY DEF Known, guardVars
<1>6. QED BY <1>2, <1>3, <1>4, <1>5, TurnBackKeeps

LEMMA RefuseKeeps ==
  ASSUME CallsAssumption, KeyedInv, NEW c \in Calls, Refuse(c) PROVE KeyedInv'
<1>1. UNCHANGED <<joined, entryAt, users, holder, serial, leadLock, inserted, committed, ready, given>>
  BY DEF Refuse, guardVars
<1>2. /\ stage[c] \in {"working", "checking", "writing"} /\ stage' = [stage EXCEPT ![c] = "leaving"]
      /\ refusal' = [refusal EXCEPT ![c] = "refused"]
  BY DEF Refuse, Goes
<1>3. QED BY <1>1, <1>2, TurnBackKeeps

\* The key is unknown: every outcome under way is another process's, and the call
\* that has the advisory lock is alone with it.
LEMMA UnknownIsElsewhere ==
  ASSUME CallsAssumption, KeyedInv, NEW c \in Calls, InGuard(c), Made(KeyOf[c]) = {},
         Entering(c) => stage[c] \in {"serial", "working", "writing", "inserted"},
         NEW d \in inserted \cup committed, KeyOf[d] = KeyOf[c], d # c
  PROVE  Elsewhere(c, d)
<1> USE DEF KeyedInv, OutcomeInv
<1>1. d \in inserted /\ d \in Calls BY DEF Made, KeyedTypeOK
<1>2. stage[d] = "inserted" /\ InGuard(d) BY <1>1 DEF StagesFit, InGuard, Guarded
<1>3. ProcessOf[d] # ProcessOf[c] BY <1>1, <1>2, OneInside
<1>4. Entering(c) /\ Entering(d) => serial[KeyOf[c]] = c /\ serial[KeyOf[d]] = d
  BY <1>1, <1>2 DEF SerialIsHeld
<1>5. QED BY <1>3, <1>4 DEF Elsewhere

LEMMA UnknownKeeps ==
  ASSUME CallsAssumption, KeyedInv, NEW c \in Calls,
         NEW s \in {"inside", "serial", "working", "checking"}, NEW t \in {"working", "writing"},
         Entering(c) => s \in {"serial", "working"}, Unknown(c, s, t)
  PROVE  KeyedInv'
<1> USE DEF KeyedInv, OutcomeInv
<1>1. /\ stage[c] = s /\ stage' = [stage EXCEPT ![c] = t] /\ Made(KeyOf[c]) = {}
      /\ UNCHANGED <<joined, entryAt, users, holder, serial, leadLock, inserted, committed, ready,
                     given, refusal>>
  BY DEF Unknown, Goes, guardVars
<1>2. \A d \in Calls : d # c => stage'[d] = stage[d] BY <1>1 DEF KeyedTypeOK
<1>3. stage'[c] = t BY <1>1 DEF KeyedTypeOK
<1>4. KeyedTypeOK'
  <2>1. stage' \in [Calls -> Stages] BY <1>1 DEF KeyedTypeOK, Stages, Joining, Guarded
  <2>2. QED BY <1>1, <2>1 DEF KeyedTypeOK
<1>5. GuardInv'
  <2>1. Works(c) BY <1>1, <1>3 DEF Works, Guarded, Stages, Joining
  <2>2. QED BY <2>1, WorkKeepsGuard
<1>6. SerialIsHeld' BY <1>1, <1>2, <1>3 DEF SerialIsHeld, Entering
<1>7. StagesFit' BY <1>1, <1>2, <1>3 DEF StagesFit, Entering
<1>8. OutcomesAreUnique' BY <1>1 DEF OutcomesAreUnique
<1>9. OthersAreElsewhere'
  <2>1. \A d \in inserted \cup committed : KeyOf[d] = KeyOf[c] /\ d # c => Elsewhere(c, d)
    BY <1>1, UnknownIsElsewhere DEF InGuard, Guarded
  <2>2. QED BY <1>1, <1>2, <2>1 DEF OthersAreElsewhere, Elsewhere, Entering
<1>10. GivenFits' BY <1>1 DEF GivenFits, Fits
<1>11. ClashIsElsewhere' BY <1>1, <1>2, <1>3 DEF ClashIsElsewhere, Elsewhere, Entering
<1>12. QED BY <1>4, <1>5, <1>6, <1>7, <1>8, <1>9, <1>10, <1>11

LEMMA LookKeeps == ASSUME CallsAssumption, KeyedInv, NEW c \in Calls, Look(c) PROVE KeyedInv'
<1>1. CASE Entering(c)
  <2>1. Known(c, "serial") \/ Unknown(c, "serial", "working") BY <1>1 DEF Look
  <2>2. QED BY <2>1, KnownKeeps, UnknownKeeps
<1>2. CASE ~Entering(c)
  <2>1. Known(c, "inside") \/ Unknown(c, "inside", "working") BY <1>2 DEF Look
  <2>2. QED BY <1>2, <2>1, KnownKeeps, UnknownKeeps
<1>3. QED BY <1>1, <1>2

LEMMA LookAgainKeeps ==
  ASSUME CallsAssumption, KeyedInv, NEW c \in Calls, LookAgain(c) PROVE KeyedInv'
<1>1. CASE KindOf[c] = "dispatch"
  <2>1. Known(c, "checking") \/ Unknown(c, "checking", "writing") BY <1>1 DEF LookAgain
  <2>2. QED BY <1>1, <2>1, KnownKeeps, UnknownKeeps DEF Entering
<1>2. CASE KindOf[c] = "quick"
  <2>1. CASE Unknown(c, "working", "writing") BY <2>1, UnknownKeeps
  <2>2. CASE /\ Goes(c, "working", "leaving") /\ refusal' = [refusal EXCEPT ![c] = "conflict"]
             /\ UNCHANGED <<guardVars, serial, leadLock, inserted, committed, ready, given>>
    <3>1. /\ stage[c] = "working" /\ stage' = [stage EXCEPT ![c] = "leaving"]
          /\ UNCHANGED <<joined, entryAt, users, holder, serial, leadLock, inserted, committed, ready, given>>
      BY <2>2 DEF Goes, guardVars
    <3>2. QED BY <2>2, <3>1, TurnBackKeeps
  <2>3. QED BY <1>2, <2>1, <2>2 DEF LookAgain
<1>3. QED BY <1>1, <1>2 DEF LookAgain

LEMMA AcquireSerialKeeps ==
  ASSUME CallsAssumption, KeyedInv, NEW c \in Calls, AcquireSerial(c) PROVE KeyedInv'
<1> USE DEF KeyedInv, OutcomeInv
<1>1. /\ Entering(c) /\ stage[c] = "inside" /\ stage' = [stage EXCEPT ![c] = "serial"]
      /\ serial[KeyOf[c]] = Nobody /\ serial' = [serial EXCEPT ![KeyOf[c]] = c]
      /\ UNCHANGED <<joined, entryAt, users, holder, leadLock, inserted, committed, ready, given, refusal>>
  BY DEF AcquireSerial, Goes, guardVars
<1>2. \A d \in Calls : d # c => stage'[d] = stage[d] BY <1>1 DEF KeyedTypeOK
<1>3. stage'[c] = "serial" BY <1>1 DEF KeyedTypeOK
<1>4. KeyOf \in [Calls -> Keys] BY DEF CallsAssumption
<1>5. KeyedTypeOK'
  BY <1>1, <1>4 DEF KeyedTypeOK, Stages, Joining, Guarded, OrNobody
<1>6. GuardInv'
  <2>1. Works(c) BY <1>1, <1>3 DEF Works, Guarded, Stages, Joining
  <2>2. QED BY <2>1, WorkKeepsGuard
<1>7. SerialIsHeld'
  <2>1. \A k \in Keys : serial'[k] = IF k = KeyOf[c] THEN c ELSE serial[k]
    BY <1>1, <1>4 DEF KeyedTypeOK
  <2>2. \A k \in Keys : serial'[k] # Nobody => KeyOf[serial'[k]] = k /\ Entering(serial'[k])
    BY <1>1, <2>1 DEF SerialIsHeld
  <2>3. \A d \in Calls : Entering(d) /\ stage'[d] \in {"serial", "working", "writing", "inserted"}
                           => serial'[KeyOf[d]] = d
    <3> SUFFICES ASSUME NEW d \in Calls, Entering(d),
                        stage'[d] \in {"serial", "working", "writing", "inserted"}
                 PROVE  serial'[KeyOf[d]] = d
      OBVIOUS
    <3>1. CASE d = c BY <1>4, <2>1, <3>1
    <3>2. CASE d # c
      <4>1. serial[KeyOf[d]] = d BY <1>2, <3>2 DEF SerialIsHeld
      <4>2. d # Nobody BY DEF CallsAssumption
      <4>3. QED BY <1>1, <1>4, <2>1, <4>1, <4>2
    <3>3. QED BY <3>1, <3>2
  <2>4. QED BY <2>2, <2>3 DEF SerialIsHeld, Entering
<1>8. StagesFit' BY <1>1, <1>2, <1>3 DEF StagesFit, Entering
<1>9. OutcomesAreUnique' BY <1>1 DEF OutcomesAreUnique
<1>10. OthersAreElsewhere' BY <1>1, <1>2, <1>3 DEF OthersAreElsewhere, Elsewhere, Entering
<1>11. GivenFits' BY <1>1 DEF GivenFits, Fits
<1>12. ClashIsElsewhere' BY <1>1, <1>2, <1>3 DEF ClashIsElsewhere, Elsewhere, Entering
<1>13. QED BY <1>5, <1>6, <1>7, <1>8, <1>9, <1>10, <1>11, <1>12

LEMMA LockLeadKeeps ==
  ASSUME CallsAssumption, KeyedInv, NEW c \in Calls, LockLead(c) PROVE KeyedInv'
<1> USE DEF KeyedInv, OutcomeInv
<1>1. /\ ~Entering(c) /\ stage[c] = "working" /\ stage' = [stage EXCEPT ![c] = "checking"]
      /\ leadLock' = [leadLock EXCEPT ![LeadOf[c]] = c]
      /\ UNCHANGED <<joined, entryAt, users, holder, serial, inserted, committed, ready, given, refusal>>
  BY DEF LockLead, Goes, guardVars
<1>2. \A d \in Calls : d # c => stage'[d] = stage[d] BY <1>1 DEF KeyedTypeOK
<1>3. stage'[c] = "checking" BY <1>1 DEF KeyedTypeOK
<1>4. KeyedTypeOK' BY <1>1 DEF KeyedTypeOK, Stages, Joining, Guarded, OrNobody
<1>5. GuardInv'
  <2>1. Works(c) BY <1>1, <1>3 DEF Works, Guarded, Stages, Joining
  <2>2. QED BY <2>1, WorkKeepsGuard
<1>6. SerialIsHeld' BY <1>1, <1>2, <1>3 DEF SerialIsHeld, Entering
<1>7. StagesFit' BY <1>1, <1>2, <1>3 DEF StagesFit, Entering
<1>8. OutcomesAreUnique' BY <1>1 DEF OutcomesAreUnique
<1>9. OthersAreElsewhere' BY <1>1, <1>2, <1>3 DEF OthersAreElsewhere, Elsewhere, Entering
<1>10. GivenFits' BY <1>1 DEF GivenFits, Fits
<1>11. ClashIsElsewhere' BY <1>1, <1>2, <1>3 DEF ClashIsElsewhere, Elsewhere, Entering
<1>12. QED BY <1>4, <1>5, <1>6, <1>7, <1>8, <1>9, <1>10, <1>11

LEMMA InsertOutcomeKeeps ==
  ASSUME CallsAssumption, KeyedInv, NEW c \in Calls, InsertOutcome(c) PROVE KeyedInv'
<1> USE DEF KeyedInv, OutcomeInv
<1>1. /\ stage[c] \in {"working", "writing"} /\ stage' = [stage EXCEPT ![c] = "inserted"]
      /\ IndexFree(c) /\ Made(KeyOf[c]) = {} /\ inserted' = inserted \cup {c}
      /\ UNCHANGED <<joined, entryAt, users, holder, serial, leadLock, committed, ready, given, refusal>>
  BY DEF InsertOutcome, Writes, guardVars
<1>2. \A d \in Calls : d # c => stage'[d] = stage[d] BY <1>1 DEF KeyedTypeOK
<1>3. stage'[c] = "inserted" BY <1>1 DEF KeyedTypeOK
<1>4. KeyedTypeOK'
  <2>1. stage' \in [Calls -> Stages] BY <1>1 DEF KeyedTypeOK, Stages, Joining, Guarded
  <2>2. QED BY <1>1, <2>1 DEF KeyedTypeOK
<1>5. GuardInv'
  <2>1. Works(c) BY <1>1, <1>3 DEF Works, Guarded, Stages, Joining
  <2>2. QED BY <2>1, WorkKeepsGuard
<1>6. SerialIsHeld' BY <1>1, <1>2, <1>3 DEF SerialIsHeld, Entering
<1>7. StagesFit' BY <1>1, <1>2, <1>3 DEF StagesFit, Entering
<1>8. \A d \in inserted \cup committed : KeyOf[d] # KeyOf[c] BY <1>1 DEF IndexFree, Made
<1>9. OutcomesAreUnique' BY <1>1, <1>8 DEF OutcomesAreUnique
<1>10. OthersAreElsewhere'
  <2> SUFFICES ASSUME NEW b \in Calls, stage'[b] \in {"working", "checking", "writing", "inserted"},
                      NEW d \in inserted \cup committed \cup {c}, KeyOf[d] = KeyOf[b], d # b
               PROVE  Elsewhere(b, d)
    BY <1>1 DEF OthersAreElsewhere, Elsewhere, Entering
  <2>1. CASE d = c
    <3>1. b # c /\ stage[b] = stage'[b] BY <1>2, <2>1
    <3>2. InGuard(b) /\ InGuard(c) BY <1>1, <3>1 DEF InGuard, Guarded
    <3>3. ProcessOf[c] # ProcessOf[b] BY <2>1, <3>1, <3>2, OneInside
    <3>4. Entering(b) /\ Entering(c) => serial[KeyOf[b]] = b /\ serial[KeyOf[c]] = c
      BY <1>1, <3>1 DEF SerialIsHeld, StagesFit
    <3>5. QED BY <2>1, <3>1, <3>3, <3>4 DEF Elsewhere
  <2>2. CASE d # c
    <3>1. b # c BY <1>8, <2>2
    <3>2. QED BY <1>2, <2>2, <3>1 DEF OthersAreElsewhere
  <2>3. QED BY <2>1, <2>2
<1>11. GivenFits' BY <1>1 DEF GivenFits, Fits
<1>12. ClashIsElsewhere' BY <1>1, <1>2, <1>3 DEF ClashIsElsewhere, Elsewhere, Entering
<1>13. QED BY <1>4, <1>5, <1>6, <1>7, <1>9, <1>10, <1>11, <1>12

LEMMA ClashKeeps ==
  ASSUME CallsAssumption, KeyedInv, NEW c \in Calls, Clash(c) PROVE KeyedInv'
<1> USE DEF KeyedInv, OutcomeInv
<1>1. /\ stage[c] \in {"working", "writing"}
      /\ stage' = [stage EXCEPT ![c] = IF Entering(c) THEN "clashed" ELSE "leaving"]
      /\ Made(KeyOf[c]) # {}
      /\ refusal' = (IF Entering(c) THEN refusal ELSE [refusal EXCEPT ![c] = "failed"])
      /\ UNCHANGED <<joined, entryAt, users, holder, serial, leadLock, inserted, committed, ready, given>>
  BY DEF Clash, Writes, guardVars
<1>2. \A d \in Calls : d # c => stage'[d] = stage[d] /\ refusal'[d] = refusal[d]
  BY <1>1 DEF KeyedTypeOK
<1>3. stage'[c] = IF Entering(c) THEN "clashed" ELSE "leaving" BY <1>1 DEF KeyedTypeOK
<1>4. KeyedTypeOK'
  <2>1. stage' \in [Calls -> Stages] BY <1>1 DEF KeyedTypeOK, Stages, Joining, Guarded
  <2>2. refusal' \in [Calls -> Refusals] BY <1>1 DEF KeyedTypeOK, Refusals
  <2>3. QED BY <1>1, <2>1, <2>2 DEF KeyedTypeOK
<1>5. GuardInv'
  <2>1. Works(c) BY <1>1, <1>3 DEF Works, Guarded, Stages, Joining
  <2>2. QED BY <2>1, WorkKeepsGuard
<1>6. SerialIsHeld' BY <1>1, <1>2, <1>3 DEF SerialIsHeld, Entering
<1>7. StagesFit' BY <1>1, <1>2, <1>3 DEF StagesFit, Entering
<1>8. OutcomesAreUnique' BY <1>1 DEF OutcomesAreUnique
<1>9. OthersAreElsewhere' BY <1>1, <1>2, <1>3 DEF OthersAreElsewhere, Elsewhere, Entering
<1>10. GivenFits' BY <1>1 DEF GivenFits, Fits
<1>11. ClashIsElsewhere'
  <2>1. PICK d \in committed : KeyOf[d] = KeyOf[c] BY <1>1 DEF Made
  <2>2. c \notin committed BY <1>1 DEF StagesFit
  <2>3. Elsewhere(c, d) BY <1>1, <2>1, <2>2 DEF OthersAreElsewhere
  <2>4. QED BY <1>1, <1>2, <2>1, <2>3 DEF ClashIsElsewhere, Elsewhere, Entering
<1>12. QED BY <1>4, <1>5, <1>6, <1>7, <1>8, <1>9, <1>10, <1>11

\* The advisory locks after a transaction has ended.
LEMMA SerialIsFreed ==
  ASSUME CallsAssumption, KeyedInv, NEW c \in Calls, serial' = FreedOf(serial, c),
         \A d \in Calls : d # c => stage'[d] = stage[d],
         stage'[c] \notin {"serial", "working", "writing", "inserted"}
  PROVE  SerialIsHeld' /\ serial' \in [Keys -> OrNobody]
<1> USE DEF KeyedInv, OutcomeInv
<1>1. \A k \in Keys : serial'[k] = IF serial[k] = c THEN Nobody ELSE serial[k]
  BY DEF FreedOf, KeyedTypeOK
<1>2. \A k \in Keys : serial'[k] # Nobody => KeyOf[serial'[k]] = k /\ Entering(serial'[k])
  BY <1>1 DEF SerialIsHeld
<1>3. \A d \in Calls : Entering(d) /\ stage'[d] \in {"serial", "working", "writing", "inserted"}
                         => serial'[KeyOf[d]] = d
  BY <1>1 DEF SerialIsHeld, CallsAssumption
<1>4. serial' \in [Keys -> OrNobody] BY DEF FreedOf, KeyedTypeOK, OrNobody
<1>5. QED BY <1>2, <1>3, <1>4 DEF SerialIsHeld, Entering

LEMMA LeadsAreFreed ==
  ASSUME KeyedInv, NEW c \in Calls, leadLock' = FreedOf(leadLock, c)
  PROVE  leadLock' \in [PoolLeads -> OrNobody]
BY DEF FreedOf, KeyedInv, KeyedTypeOK, OrNobody

LEMMA CommitOutcomeKeeps ==
  ASSUME CallsAssumption, KeyedInv, NEW c \in Calls, CommitOutcome(c) PROVE KeyedInv'
<1> USE DEF KeyedInv, OutcomeInv
<1>1. /\ stage[c] = "inserted" /\ stage' = [stage EXCEPT ![c] = "leaving"]
      /\ inserted' = inserted \ {c} /\ committed' = committed \cup {c}
      /\ ready' = (IF Entering(c) THEN ready ELSE ready \ {LeadOf[c]})
      /\ given' = [given EXCEPT ![c] = c]
      /\ serial' = FreedOf(serial, c) /\ leadLock' = FreedOf(leadLock, c)
      /\ UNCHANGED <<joined, entryAt, users, holder, refusal>>
  BY DEF CommitOutcome, Goes, guardVars, EndTransaction
<1>2. \A d \in Calls : d # c => stage'[d] = stage[d] /\ given'[d] = given[d] BY <1>1 DEF KeyedTypeOK
<1>3. stage'[c] = "leaving" /\ given'[c] = c BY <1>1 DEF KeyedTypeOK
<1>4. SerialIsHeld' /\ serial' \in [Keys -> OrNobody] BY <1>1, <1>2, <1>3, SerialIsFreed
<1>5. KeyedTypeOK'
  <2>1. stage' \in [Calls -> Stages] BY <1>1 DEF KeyedTypeOK, Stages, Joining, Guarded
  <2>2. given' \in [Calls -> OrNobody] BY <1>1 DEF KeyedTypeOK, OrNobody
  <2>3. inserted' \subseteq Calls /\ committed' \subseteq Calls /\ ready' \subseteq PoolLeads
    BY <1>1 DEF KeyedTypeOK
  <2>4. leadLock' \in [PoolLeads -> OrNobody] BY <1>1, LeadsAreFreed
  <2>5. QED BY <1>1, <1>4, <2>1, <2>2, <2>3, <2>4 DEF KeyedTypeOK
<1>6. GuardInv'
  <2>1. Works(c) BY <1>1, <1>3 DEF Works, Guarded, Stages, Joining
  <2>2. QED BY <2>1, WorkKeepsGuard
<1>7. StagesFit' BY <1>1, <1>2, <1>3 DEF StagesFit, Entering
<1>8. c \in inserted BY <1>1 DEF StagesFit
<1>9. inserted' \cup committed' = inserted \cup committed BY <1>1, <1>8
<1>10. OutcomesAreUnique'
  <2>1. \A b, d \in inserted' \cup committed' : KeyOf[b] = KeyOf[d] => b = d
    BY <1>9 DEF OutcomesAreUnique
  <2>2. QED BY <2>1 DEF OutcomesAreUnique
<1>11. OthersAreElsewhere'
  <2>1. \A b \in Calls : stage'[b] \in {"working", "checking", "writing", "inserted"} =>
          \A d \in inserted' \cup committed' : KeyOf[d] = KeyOf[b] /\ d # b => Elsewhere(b, d)
    BY <1>2, <1>3, <1>9 DEF OthersAreElsewhere
  <2>2. QED BY <2>1 DEF OthersAreElsewhere, Elsewhere, Entering
<1>12. GivenFits'
  <2>1. Fits(c, c)
    <3>1. KindOf[c] \in {"dispatch", "quick", "verify"} BY DEF CallsAssumption
    <3>2. CASE KindOf[c] = "dispatch" BY <3>2 DEF Fits
    <3>3. CASE KindOf[c] = "quick" BY <3>3 DEF Fits
    <3>4. CASE KindOf[c] = "verify" BY <3>4 DEF Fits
    <3>5. QED BY <3>1, <3>2, <3>3, <3>4
  <2>2. \A d \in Calls : given'[d] # Nobody =>
          given'[d] \in committed' /\ KeyOf[given'[d]] = KeyOf[d] /\ Fits(d, given'[d])
    BY <1>1, <1>2, <1>3, <2>1 DEF GivenFits
  <2>3. QED BY <2>2 DEF GivenFits, Fits
<1>13. ClashIsElsewhere' BY <1>1, <1>2, <1>3 DEF ClashIsElsewhere, Elsewhere, Entering
<1>14. QED BY <1>4, <1>5, <1>6, <1>7, <1>10, <1>11, <1>12, <1>13

-----------------------------------------------------------------------------
\* Outside the guard.

\* Outside the guard nothing changes for it.
LEMMA OutsideKeepsGuard ==
  ASSUME CallsAssumption, KeyedInv, stage' \in [Calls -> Stages],
         UNCHANGED <<joined, entryAt, users, holder>>,
         \A d \in Calls : \/ stage'[d] = stage[d]
                          \/ stage[d] \in {"retrying", "closing"} /\ stage'[d] \in {"closing", "done"}
  PROVE  GuardInv'
<1> USE DEF KeyedInv, GuardInv
<1>1. \A d \in Calls : /\ stage'[d] \in Joining <=> stage[d] \in Joining
                       /\ stage'[d] = "new" <=> stage[d] = "new"
                       /\ stage'[d] \in Guarded <=> stage[d] \in Guarded
  BY DEF Joining, Guarded
<1>2. EntriesInUse' /\ UsersAreCounted' /\ JoinersShare' BY <1>1, LockChangesHands
<1>3. LockIsHeld'
  <2>1. \A x \in Calls : holder[x] \in OrNobody /\ joined[x] \in OrNobody BY DEF KeyedTypeOK
  <2>2. QED BY <1>1, <2>1 DEF LockIsHeld, InGuard, OrNobody
<1>4. QED BY <1>2, <1>3

LEMMA LookAfterClashKeeps ==
  ASSUME CallsAssumption, KeyedInv, NEW c \in Calls, LookAfterClash(c) PROVE KeyedInv'
<1> USE DEF KeyedInv, OutcomeInv
<1>1. /\ stage[c] = "retrying" /\ stage' = [stage EXCEPT ![c] = "closing"]
      /\ serial' = FreedOf(serial, c) /\ leadLock' = FreedOf(leadLock, c)
      /\ UNCHANGED <<joined, entryAt, users, holder, inserted, committed, ready>>
  BY DEF LookAfterClash, Goes, guardVars, EndTransaction
<1>2. \/ given' = given /\ \E r \in {"failed", "conflict"} : refusal' = [refusal EXCEPT ![c] = r]
      \/ /\ refusal' = refusal
         /\ \E d \in committed : /\ KeyOf[d] = KeyOf[c] /\ Fits(c, d)
                                 /\ given' = [given EXCEPT ![c] = d]
  BY DEF LookAfterClash, AnswerKnown, Made
<1>3. \A d \in Calls : d # c => /\ stage'[d] = stage[d] /\ given'[d] = given[d]
                                /\ refusal'[d] = refusal[d]
  BY <1>1, <1>2 DEF KeyedTypeOK
<1>4. stage'[c] = "closing" BY <1>1 DEF KeyedTypeOK
<1>5. SerialIsHeld' /\ serial' \in [Keys -> OrNobody] BY <1>1, <1>3, <1>4, SerialIsFreed
<1>6. KeyedTypeOK'
  <2>1. stage' \in [Calls -> Stages] BY <1>1 DEF KeyedTypeOK, Stages
  <2>2. given' \in [Calls -> OrNobody] BY <1>2 DEF KeyedTypeOK, OrNobody
  <2>3. refusal' \in [Calls -> Refusals] BY <1>2 DEF KeyedTypeOK, Refusals
  <2>4. leadLock' \in [PoolLeads -> OrNobody] BY <1>1, LeadsAreFreed
  <2>5. QED BY <1>1, <1>5, <2>1, <2>2, <2>3, <2>4 DEF KeyedTypeOK
<1>7. GuardInv'
  <2>1. stage' \in [Calls -> Stages] BY <1>6 DEF KeyedTypeOK
  <2>2. QED BY <1>1, <1>3, <1>4, <2>1, OutsideKeepsGuard
<1>8. StagesFit' BY <1>1, <1>3, <1>4 DEF StagesFit, Entering
<1>9. OutcomesAreUnique' BY <1>1 DEF OutcomesAreUnique
<1>10. OthersAreElsewhere' BY <1>1, <1>3, <1>4 DEF OthersAreElsewhere, Elsewhere, Entering
<1>11. GivenFits'
  <2> SUFFICES ASSUME NEW d \in Calls, given'[d] # Nobody
               PROVE  given'[d] \in committed /\ KeyOf[given'[d]] = KeyOf[d] /\ Fits(d, given'[d])
    BY <1>1 DEF GivenFits, Fits
  <2>1. CASE given'[d] = given[d] BY <2>1 DEF GivenFits
  <2>2. CASE given'[d] # given[d] BY <1>2, <2>2 DEF KeyedTypeOK
  <2>3. QED BY <2>1, <2>2
<1>12. ClashIsElsewhere'
  <2>1. \E d \in committed : KeyOf[d] = KeyOf[c] /\ Elsewhere(c, d)
    BY <1>1 DEF ClashIsElsewhere
  <2>2. QED BY <1>1, <1>3, <2>1 DEF ClashIsElsewhere, Elsewhere, Entering
<1>13. QED BY <1>5, <1>6, <1>7, <1>8, <1>9, <1>10, <1>11, <1>12

LEMMA CloseSessionKeeps ==
  ASSUME CallsAssumption, KeyedInv, NEW c \in Calls, CloseSession(c) PROVE KeyedInv'
<1> USE DEF KeyedInv, OutcomeInv
<1>1. /\ stage[c] = "closing" /\ stage' = [stage EXCEPT ![c] = "done"]
      /\ serial' = FreedOf(serial, c) /\ leadLock' = FreedOf(leadLock, c)
      /\ UNCHANGED <<joined, entryAt, users, holder, inserted, committed, ready, given, refusal>>
  BY DEF CloseSession, Goes, guardVars, EndTransaction
<1>2. \A d \in Calls : d # c => stage'[d] = stage[d] BY <1>1 DEF KeyedTypeOK
<1>3. stage'[c] = "done" BY <1>1 DEF KeyedTypeOK
<1>4. SerialIsHeld' /\ serial' \in [Keys -> OrNobody] BY <1>1, <1>2, <1>3, SerialIsFreed
<1>5. KeyedTypeOK'
  <2>1. stage' \in [Calls -> Stages] BY <1>1 DEF KeyedTypeOK, Stages
  <2>2. leadLock' \in [PoolLeads -> OrNobody] BY <1>1, LeadsAreFreed
  <2>3. QED BY <1>1, <1>4, <2>1, <2>2 DEF KeyedTypeOK
<1>6. GuardInv'
  <2>1. stage' \in [Calls -> Stages] BY <1>5 DEF KeyedTypeOK
  <2>2. QED BY <1>1, <1>2, <1>3, <2>1, OutsideKeepsGuard
<1>7. StagesFit' BY <1>1, <1>2, <1>3 DEF StagesFit, Entering
<1>8. OutcomesAreUnique' BY <1>1 DEF OutcomesAreUnique
<1>9. OthersAreElsewhere' BY <1>1, <1>2, <1>3 DEF OthersAreElsewhere, Elsewhere, Entering
<1>10. GivenFits' BY <1>1 DEF GivenFits, Fits
<1>11. ClashIsElsewhere' BY <1>1, <1>2, <1>3 DEF ClashIsElsewhere, Elsewhere, Entering
<1>12. QED BY <1>4, <1>5, <1>6, <1>7, <1>8, <1>9, <1>10, <1>11

LEMMA LeadReturnsKeeps ==
  ASSUME CallsAssumption, KeyedInv, NEW l \in PoolLeads, LeadReturns(l) PROVE KeyedInv'
<1> USE DEF KeyedInv
<1>1. /\ ready' = ready \cup {l}
      /\ UNCHANGED <<stage, joined, entryAt, users, holder, serial, leadLock, inserted, committed,
                     given, refusal>>
  BY DEF LeadReturns, guardVars
<1>2. KeyedTypeOK' BY <1>1 DEF KeyedTypeOK
<1>3. GuardInv' BY <1>1, <1>2, OutsideKeepsGuard DEF KeyedTypeOK
<1>4. OutcomeInv' BY <1>1, OutcomesStand
<1>5. QED BY <1>2, <1>3, <1>4

LEMMA ProcessDiesKeeps ==
  ASSUME CallsAssumption, KeyedInv, NEW p \in Processes, ProcessDies(p) PROVE KeyedInv'
<1> USE DEF KeyedInv, GuardInv, OutcomeInv
<1> DEFINE dead == {c \in Calls : ProcessOf[c] = p /\ stage[c] \notin {"new", "done", "lost"}}
<1>1. /\ stage' = [c \in Calls |-> IF c \in dead THEN "lost" ELSE stage[c]]
      /\ entryAt' = [entryAt EXCEPT ![p] = [k \in Keys |-> Nobody]]
      /\ holder' = [e \in Calls |-> IF holder[e] \in dead THEN Nobody ELSE holder[e]]
      /\ users' = [e \in Calls |-> IF ProcessOf[e] = p THEN 0 ELSE users[e]]
      /\ joined' = [c \in Calls |-> IF c \in dead THEN Nobody ELSE joined[c]]
      /\ serial' = [k \in Keys |-> IF serial[k] \in dead THEN Nobody ELSE serial[k]]
      /\ leadLock' = [l \in PoolLeads |-> IF leadLock[l] \in dead THEN Nobody ELSE leadLock[l]]
      /\ inserted' = inserted \ dead
      /\ given' = [c \in Calls |-> IF c \in dead THEN Nobody ELSE given[c]]
      /\ UNCHANGED <<committed, ready, refusal>>
  BY DEF ProcessDies
<1>2. \A c \in Calls : c \in dead <=> ProcessOf[c] = p /\ stage[c] \notin {"new", "done", "lost"}
  OBVIOUS
<1>3. dead \subseteq Calls /\ Nobody \notin dead BY DEF CallsAssumption
<1>4. \A c \in Calls : ProcessOf[c] = p /\ stage[c] \in Joining => c \in dead
  BY <1>2 DEF Joining, Guarded
<1> HIDE DEF dead
<1>5. \A c \in Calls : /\ c \in dead => stage'[c] = "lost" /\ joined'[c] = Nobody /\ given'[c] = Nobody
                       /\ c \notin dead => /\ stage'[c] = stage[c] /\ joined'[c] = joined[c]
                                           /\ given'[c] = given[c]
  BY <1>1
<1>6. KeyedTypeOK'
  BY <1>1 DEF KeyedTypeOK, Stages, OrNobody
<1>7. \A c \in Calls : stage'[c] \in Joining =>
        stage[c] \in Joining /\ c \notin dead /\ ProcessOf[c] # p
  BY <1>4, <1>5 DEF Joining, Guarded
<1>8. \A c \in Calls : stage[c] \in Joining /\ ProcessOf[c] # p =>
        stage'[c] = stage[c] /\ joined'[c] = joined[c]
  BY <1>2, <1>5
\* Whoever uses an entry is of its process.
<1>9. \A c \in Calls : stage[c] \in Joining =>
        joined[c] \in Calls /\ ProcessOf[joined[c]] = ProcessOf[c]
  BY DEF JoinersShare, EntriesInUse, EntryOf, KeyedTypeOK, OrNobody, CallsAssumption
<1>10. \A e \in Calls : Joiners(e)' = IF ProcessOf[e] = p THEN {} ELSE Joiners(e)
  <2> SUFFICES ASSUME NEW e \in Calls
               PROVE  Joiners(e)' = IF ProcessOf[e] = p THEN {} ELSE Joiners(e)
    OBVIOUS
  <2>1. CASE ProcessOf[e] = p BY <1>5, <1>7, <1>9, <2>1 DEF Joiners
  <2>2. CASE ProcessOf[e] # p BY <1>5, <1>7, <1>8, <1>9, <2>2 DEF Joiners
  <2>3. QED BY <2>1, <2>2
<1>11. UsersAreCounted'
  BY <1>1, <1>10, FS_EmptySet DEF UsersAreCounted
<1>12. \A q \in Processes, k \in Keys : entryAt'[q][k] = IF q = p THEN Nobody ELSE entryAt[q][k]
  BY <1>1 DEF KeyedTypeOK
<1>13. \A c \in Calls : stage[c] # "new" <=> stage'[c] # "new" BY <1>2, <1>5
<1>14. EntriesInUse'
  <2> SUFFICES ASSUME NEW q \in Processes, NEW k \in Keys, entryAt'[q][k] # Nobody PROVE
        /\ ProcessOf[entryAt'[q][k]] = q /\ KeyOf[entryAt'[q][k]] = k
        /\ stage'[entryAt'[q][k]] # "new" /\ Joiners(entryAt[q][k])' # {}
    BY DEF EntriesInUse
  <2>1. q # p /\ entryAt'[q][k] = entryAt[q][k] /\ entryAt[q][k] \in Calls
    BY <1>12 DEF KeyedTypeOK, OrNobody
  <2>2. ProcessOf[entryAt[q][k]] = q /\ Joiners(entryAt[q][k]) # {} BY <2>1 DEF EntriesInUse
  <2>3. PICK c \in Calls : stage[c] \in Joining /\ joined[c] = entryAt[q][k] BY <2>2 DEF Joiners
  <2>4. ProcessOf[c] # p BY <1>9, <2>1, <2>2, <2>3
  <2>5. stage'[c] \in Joining /\ joined'[c] = entryAt'[q][k] BY <1>8, <2>1, <2>3, <2>4
  <2>6. QED BY <1>13, <2>1, <2>5 DEF EntriesInUse, Joiners
<1>15. JoinersShare'
  <2> SUFFICES ASSUME NEW d \in Calls PROVE
        /\ stage'[d] \in Joining => joined'[d] # Nobody /\ joined'[d] = EntryOf(d)'
        /\ joined'[d] # Nobody => stage'[d] # "new" /\ stage'[joined'[d]] # "new"
    BY DEF JoinersShare
  <2>1. joined[d] \in OrNobody BY DEF KeyedTypeOK
  <2>2. joined'[d] # Nobody => stage'[d] # "new" /\ stage'[joined'[d]] # "new"
    BY <1>5, <1>13, <2>1 DEF JoinersShare, OrNobody
  <2>3. ASSUME stage'[d] \in Joining PROVE joined'[d] # Nobody /\ joined'[d] = EntryOf(d)'
    <3>1. stage[d] \in Joining /\ ProcessOf[d] # p /\ joined'[d] = joined[d]
      BY <1>7, <1>8, <2>3
    <3>2. ProcessOf[d] \in Processes /\ KeyOf[d] \in Keys BY DEF CallsAssumption
    <3>3. QED BY <1>12, <3>1, <3>2 DEF JoinersShare, EntryOf
  <2>4. QED BY <2>2, <2>3
<1>16. Guarded \subseteq Joining BY DEF Joining
<1>17. LockIsHeld'
  <2>1. \A d \in Calls : InGuard(d)' => InGuard(d) /\ d \notin dead /\ joined'[d] = joined[d]
    BY <1>5, <1>7, <1>16 DEF InGuard
  <2>2. \A d \in Calls : InGuard(d)' => holder'[joined'[d]] = d
    BY <1>1, <1>9, <1>16, <2>1 DEF LockIsHeld, InGuard
  <2>3. \A x \in Calls : holder'[x] # Nobody => InGuard(holder[x])' /\ joined'[holder'[x]] = x
    <3> SUFFICES ASSUME NEW x \in Calls, holder'[x] # Nobody
                 PROVE  InGuard(holder[x])' /\ joined'[holder'[x]] = x
      OBVIOUS
    <3>1. holder[x] \notin dead /\ holder'[x] = holder[x] BY <1>1
    <3>2. holder[x] \in Calls /\ InGuard(holder[x]) /\ joined[holder[x]] = x
      BY <3>1 DEF LockIsHeld, KeyedTypeOK, OrNobody
    <3>3. stage'[holder[x]] = stage[holder[x]] /\ joined'[holder[x]] = joined[holder[x]]
      BY <1>5, <3>1, <3>2
    <3>4. QED BY <3>1, <3>2, <3>3 DEF InGuard
  <2>4. QED BY <2>2, <2>3 DEF LockIsHeld
<1>18. SerialIsHeld'
  <2>1. \A k \in Keys : serial'[k] = IF serial[k] \in dead THEN Nobody ELSE serial[k] BY <1>1
  <2>2. \A k \in Keys : serial'[k] # Nobody => KeyOf[serial'[k]] = k /\ Entering(serial'[k])
    BY <2>1 DEF SerialIsHeld
  <2>3. \A d \in Calls : Entering(d) /\ stage'[d] \in {"serial", "working", "writing", "inserted"}
                           => serial'[KeyOf[d]] = d
    BY <1>5, <2>1 DEF SerialIsHeld, CallsAssumption
  <2>4. QED BY <2>2, <2>3 DEF SerialIsHeld, Entering
<1>19. StagesFit' BY <1>1, <1>2, <1>5 DEF StagesFit, Entering
<1>20. inserted' \cup committed' \subseteq inserted \cup committed BY <1>1
<1>21. OutcomesAreUnique' BY <1>20 DEF OutcomesAreUnique
<1>22. OthersAreElsewhere'
  BY <1>5, <1>20 DEF OthersAreElsewhere, Elsewhere, Entering
<1>23. GivenFits' BY <1>1, <1>5 DEF GivenFits, Fits
<1>24. ClashIsElsewhere' BY <1>1, <1>5 DEF ClashIsElsewhere, Elsewhere, Entering
<1>25. QED
  BY <1>6, <1>11, <1>14, <1>15, <1>17, <1>18, <1>19, <1>21, <1>22, <1>23, <1>24

LEMMA KeyedStutters == ASSUME CallsAssumption, KeyedInv, UNCHANGED keyedVars PROVE KeyedInv'
<1> USE DEF KeyedInv, keyedVars
<1>1. KeyedTypeOK' BY DEF KeyedTypeOK
<1>2. GuardInv' BY <1>1, OutsideKeepsGuard DEF KeyedTypeOK
<1>3. OutcomeInv' BY OutcomesStand
<1>4. QED BY <1>1, <1>2, <1>3

LEMMA KeyedStepKeeps ==
  ASSUME CallsAssumption, KeyedInv, [KeyedNext]_keyedVars PROVE KeyedInv'
<1>1. CASE UNCHANGED keyedVars BY <1>1, KeyedStutters
<1>2. CASE KeyedNext
  <2>1. ASSUME NEW c \in Calls,
          \/ EnterGuard(c) \/ AcquireGuard(c) \/ ReleaseGuard(c) \/ LeaveGuard(c)
          \/ AcquireSerial(c) \/ LockLead(c)
        PROVE KeyedInv'
    BY <2>1, EnterGuardKeeps, AcquireGuardKeeps, ReleaseGuardKeeps, LeaveGuardKeeps,
      AcquireSerialKeeps, LockLeadKeeps
  <2>2. ASSUME NEW c \in Calls,
          \/ Look(c) \/ LookAgain(c) \/ Refuse(c) \/ InsertOutcome(c) \/ Clash(c)
          \/ CommitOutcome(c) \/ LookAfterClash(c) \/ CloseSession(c)
        PROVE KeyedInv'
    BY <2>2, LookKeeps, LookAgainKeeps, RefuseKeeps, InsertOutcomeKeeps, ClashKeeps,
      CommitOutcomeKeeps, LookAfterClashKeeps, CloseSessionKeeps
  <2>3. ASSUME NEW p \in Processes, ProcessDies(p) PROVE KeyedInv' BY <2>3, ProcessDiesKeeps
  <2>4. ASSUME NEW l \in PoolLeads, LeadReturns(l) PROVE KeyedInv' BY <2>4, LeadReturnsKeeps
  <2>5. QED BY <1>2, <2>1, <2>2, <2>3, <2>4 DEF KeyedNext
<1>3. QED BY <1>1, <1>2

THEOREM KeyedInvariant == KeyedSpec => []KeyedInv
<1>1. KeyedInit => KeyedInv BY CallsAssumption, KeyedStarts
<1>2. KeyedInv /\ [KeyedNext]_keyedVars => KeyedInv' BY CallsAssumption, KeyedStepKeeps
<1>3. QED BY <1>1, <1>2, PTL DEF KeyedSpec

\* Requests with one key have one outcome, and only calls of different processes
\* meet at the unique index.
THEOREM RepeatedRequestsAgree == KeyedSpec => []OneKeyOneOutcome
<1>1. KeyedInv => OneKeyOneOutcome
  <2> SUFFICES ASSUME KeyedInv PROVE OneKeyOneOutcome OBVIOUS
  <2> USE DEF KeyedInv, GuardInv, OutcomeInv
  <2>1. KeysAnswerAlike BY DEF KeysAnswerAlike, OutcomesAreUnique, GivenFits
  <2>2. \A c, d \in Calls :
          InGuard(c) /\ InGuard(d) /\ ProcessOf[c] = ProcessOf[d] /\ KeyOf[c] = KeyOf[d] => c = d
    BY OneInside
  <2>3. \A p \in Processes, k \in Keys : entryAt[p][k] # Nobody =>
          \E c \in Calls : stage[c] \in Joining /\ ProcessOf[c] = p /\ KeyOf[c] = k
    <3> SUFFICES ASSUME NEW p \in Processes, NEW k \in Keys, entryAt[p][k] # Nobody
                 PROVE  \E c \in Calls : stage[c] \in Joining /\ ProcessOf[c] = p /\ KeyOf[c] = k
      OBVIOUS
    <3>1. PICK c \in Calls : stage[c] \in Joining /\ joined[c] = entryAt[p][k]
      BY DEF EntriesInUse, Joiners
    <3>2. joined[c] = entryAt[ProcessOf[c]][KeyOf[c]] /\ joined[c] # Nobody
      BY <3>1 DEF JoinersShare, EntryOf
    <3>3. ProcessOf[joined[c]] = ProcessOf[c] /\ KeyOf[joined[c]] = KeyOf[c]
      BY <3>2, CallsAssumption DEF EntriesInUse, CallsAssumption
    <3>4. ProcessOf[entryAt[p][k]] = p /\ KeyOf[entryAt[p][k]] = k BY DEF EntriesInUse
    <3>5. QED BY <3>1, <3>3, <3>4
  <2>4. \A c \in Calls : stage[c] \in {"clashed", "clashedOut", "retrying"} \/ refusal[c] = "failed" =>
          \E d \in committed : /\ KeyOf[d] = KeyOf[c] /\ ProcessOf[d] # ProcessOf[c]
                               /\ Entering(c) => ~Entering(d)
    BY DEF ClashIsElsewhere, Elsewhere
  <2>5. QED BY <2>1, <2>2, <2>3, <2>4 DEF OneKeyOneOutcome, GuardCollapsesRepeats
<1>2. QED BY <1>1, KeyedInvariant, PTL

-----------------------------------------------------------------------------
\* ClaimFlight

\* An entry is under the quote of its leader, and its seats are the calls that use it.
EntriesAreTheirs == \A w \in Servers, q \in Quotes : flights[w][q] # Noone =>
  /\ ServerOf[flights[w][q]] = w /\ QuoteOf[flights[w][q]] = q
  /\ UsersOf(flights[w][q]) # {}
  /\ seats[flights[w][q]] = Cardinality(UsersOf(flights[w][q]))

\* A call under way uses the entry of its quote, the leader its own.
CallersAreAboard == \A c \in Claims :
  /\ leg[c] \in Flying => /\ aboard[c] = FlightOf(c) /\ aboard[c] # Noone
                          /\ leg[aboard[c]] # "new"
  /\ leg[c] \notin Flying => aboard[c] = Noone
  /\ leg[c] \in {"leading", "executed", "landing"} => aboard[c] = c
  /\ leg[c] \in {"joining", "waiting", "read"} => aboard[c] # c

\* What the database would answer now is among what was true meanwhile.
PresentIsWitnessed == \A c \in Claims :
  leg[c] \in Flying => Verdict(round, price, funds, QuoteOf[c]) \in meanwhile[c]

TrueFor(c, o) == o \in meanwhile[c] \cup {"transient"}

\* The answer of a leader is true for him, and for those who joined in time.
AnswersAreTrue == \A c \in Claims :
  /\ leg[c] \in {"executed", "landing"} => TrueFor(c, outcome[c])
  /\ leg[c] \in {"joining", "waiting"} /\ ~boarded[c] =>
       leg[aboard[c]] = "leading" \/ TrueFor(c, outcome[aboard[c]])
  /\ leg[c] \in {"read", "traced", "answered"} =>
       TrueFor(c, outcome[c]) \/ outcome[c] = "timeout" \/ boarded[c]
  /\ landed[c] # "none" =>
       leg[c] \in {"landing", "traced", "answered", "lost"} /\ landed[c] = outcome[c]

PaidOnce == debits <= 1 /\ (round = "PENDING" => debits = 0)

ClaimInv ==
  /\ ClaimTypeOK /\ EntriesAreTheirs /\ CallersAreAboard /\ PresentIsWitnessed
  /\ AnswersAreTrue /\ PaidOnce

-----------------------------------------------------------------------------
\* Facts about the operators.

LEMMA VerdictIsOne ==
  ASSUME NEW r, NEW p, NEW f, NEW q PROVE Verdict(r, p, f, q) \in Verdicts
BY DEF Verdict, Verdicts

LEMMA UsersAreFinite ==
  ASSUME ClaimsAssumption, NEW e PROVE IsFiniteSet(UsersOf(e)) /\ IsFiniteSet(UsersOf(e)')
<1>1. UsersOf(e) \subseteq Claims /\ UsersOf(e)' \subseteq Claims BY DEF UsersOf
<1>2. QED BY <1>1, FS_Subset DEF ClaimsAssumption

\* The entries of two places are two.
LEMMA EntriesDiffer ==
  ASSUME EntriesAreTheirs, NEW v \in Servers, NEW w \in Servers, NEW p \in Quotes, NEW q \in Quotes,
         flights[v][p] = flights[w][q], flights[v][p] # Noone
  PROVE  v = w /\ p = q
BY DEF EntriesAreTheirs

\* A leader is no follower.
LEMMA LeadersLead ==
  ASSUME ClaimsAssumption, ClaimTypeOK, EntriesAreTheirs, CallersAreAboard,
         NEW c \in Claims, leg[c] \in Flying
  PROVE  /\ aboard[c] \in Claims /\ ServerOf[aboard[c]] = ServerOf[c]
         /\ QuoteOf[aboard[c]] = QuoteOf[c]
         /\ leg[aboard[c]] \notin {"new", "joining", "waiting", "read"}
<1>1. ServerOf[c] \in Servers /\ QuoteOf[c] \in Quotes BY DEF ClaimsAssumption
<1>2. aboard[c] = flights[ServerOf[c]][QuoteOf[c]] /\ aboard[c] # Noone /\ leg[aboard[c]] # "new"
  BY DEF CallersAreAboard, FlightOf
<1>3. aboard[c] \in Claims BY <1>2 DEF ClaimTypeOK, MaybeClaim
<1>4. ServerOf[aboard[c]] = ServerOf[c] /\ QuoteOf[aboard[c]] = QuoteOf[c]
  BY <1>1, <1>2 DEF EntriesAreTheirs
<1>5. ASSUME leg[aboard[c]] \in {"joining", "waiting", "read"} PROVE FALSE
  <2>1. aboard[aboard[c]] = FlightOf(aboard[c])
    BY <1>3, <1>5 DEF CallersAreAboard, Flying
  <2>2. FlightOf(aboard[c]) = aboard[c] BY <1>2, <1>4 DEF FlightOf
  <2>3. QED BY <1>3, <1>5, <2>1, <2>2 DEF CallersAreAboard
<1>6. QED BY <1>2, <1>3, <1>4, <1>5

\* The witness only grows.
LEMMA WitnessGrows ==
  ASSUME ClaimTypeOK, Witness, leg' \in [Claims -> Legs], NEW c \in Claims
  PROVE  /\ leg[c] # "new" => meanwhile[c] \subseteq meanwhile'[c]
         /\ leg'[c] \in Flying =>
              Verdict(round', price', funds', QuoteOf[c]) \in meanwhile'[c]
         /\ leg[c] = "new" /\ leg'[c] \in Flying =>
              Verdict(round, price, funds, QuoteOf[c]) \in meanwhile'[c]
BY VerdictIsOne DEF Witness, ClaimTypeOK

LEMMA WitnessIsTyped ==
  ASSUME ClaimTypeOK, Witness PROVE meanwhile' \in [Claims -> SUBSET Verdicts]
<1>1. \A c \in Claims :
        /\ meanwhile[c] \subseteq Verdicts
        /\ Verdict(round, price, funds, QuoteOf[c]) \in Verdicts
        /\ Verdict(round', price', funds', QuoteOf[c]) \in Verdicts
  BY VerdictIsOne DEF ClaimTypeOK
<1>2. QED BY <1>1 DEF Witness

LEMMA PresentKeeps ==
  ASSUME ClaimTypeOK, Witness, leg' \in [Claims -> Legs] PROVE PresentIsWitnessed'
BY WitnessGrows DEF PresentIsWitnessed

\* A call that goes on without joining or leaving.
GoesOn(c) ==
  \E from, to \in Flying :
     /\ leg[c] = from /\ leg' = [leg EXCEPT ![c] = to]
     /\ from # "leading" \/ to = "executed"
     /\ from \in {"leading", "executed", "landing"} <=> to \in {"leading", "executed", "landing"}
     /\ UNCHANGED <<aboard, seats, flights>>

LEMMA SameUsers ==
  ASSUME ClaimTypeOK, NEW c \in Claims, GoesOn(c), NEW w \in Servers, NEW q \in Quotes
  PROVE  UsersOf(flights[w][q])' = UsersOf(flights[w][q])
BY DEF GoesOn, UsersOf, ClaimTypeOK

LEMMA GoesOnKeeps ==
  ASSUME ClaimInv, NEW c \in Claims, GoesOn(c) PROVE EntriesAreTheirs' /\ CallersAreAboard'
<1>1. EntriesAreTheirs'
  <2>1. flights' = flights /\ seats' = seats BY DEF GoesOn
  <2>2. \A w \in Servers, q \in Quotes : UsersOf(flights[w][q])' = UsersOf(flights[w][q])
    BY SameUsers DEF ClaimInv
  <2>3. QED BY <2>1, <2>2 DEF ClaimInv, EntriesAreTheirs
<1>2. CallersAreAboard'
  BY DEF ClaimInv, CallersAreAboard, GoesOn, ClaimTypeOK, FlightOf, Flying
<1>3. QED BY <1>1, <1>2

-----------------------------------------------------------------------------
LEMMA ClaimStarts == ASSUME ClaimsAssumption, ClaimInit PROVE ClaimInv
BY DEF ClaimInit, ClaimInv, ClaimTypeOK, EntriesAreTheirs, CallersAreAboard, PresentIsWitnessed,
  AnswersAreTrue, PaidOnce, Flying, Legs, Outcomes, MaybeClaim, Verdicts

LEMMA ExecuteClaimKeeps ==
  ASSUME ClaimsAssumption, ClaimInv, NEW c \in Claims, ExecuteClaim(c), Witness PROVE ClaimInv'
<1> USE DEF ClaimInv
<1> DEFINE v == Verdict(round, price, funds, QuoteOf[c])
<1>1. /\ leg[c] = "leading" /\ leg' = [leg EXCEPT ![c] = "executed"]
      /\ \/ /\ outcome' = [outcome EXCEPT ![c] = v]
            /\ round' = (IF v = "claimed" THEN "CLAIMED" ELSE round)
            /\ debits' = (IF v = "claimed" /\ round = "PENDING" THEN debits + 1 ELSE debits)
         \/ outcome' = [outcome EXCEPT ![c] = "transient"] /\ UNCHANGED <<round, debits>>
      /\ UNCHANGED <<price, funds, flights, aboard, seats, landed, boarded>>
  BY DEF ExecuteClaim, Flies, flightVars
<1>2. v \in Verdicts BY VerdictIsOne
<1> HIDE DEF v
<1>3. leg' \in [Claims -> Legs] BY <1>1 DEF ClaimTypeOK, Legs, Flying
<1>4. ClaimTypeOK'
  <2>1. /\ round' \in {"PENDING", "CLAIMED", "OVER"} /\ price' \in Prices
        /\ funds' \in BOOLEAN /\ debits' \in Nat
    BY <1>1 DEF ClaimTypeOK
  <2>2. /\ flights' \in [Servers -> [Quotes -> MaybeClaim]]
        /\ aboard' \in [Claims -> MaybeClaim] /\ seats' \in [Claims -> Nat]
        /\ landed' \in [Claims -> Outcomes] /\ boarded' \in [Claims -> BOOLEAN]
    BY <1>1 DEF ClaimTypeOK
  <2>3. outcome' \in [Claims -> Outcomes]
    <3>1. outcome \in [Claims -> Outcomes] BY DEF ClaimTypeOK
    <3>2. v \in Outcomes /\ "transient" \in Outcomes BY <1>2 DEF Outcomes
    <3>3. outcome' = [outcome EXCEPT ![c] = v] \/ outcome' = [outcome EXCEPT ![c] = "transient"]
      BY <1>1
    <3>4. QED BY <3>1, <3>2, <3>3
  <2>4. meanwhile' \in [Claims -> SUBSET Verdicts] BY WitnessIsTyped
  <2>5. QED BY <1>3, <2>1, <2>2, <2>3, <2>4 DEF ClaimTypeOK
<1>5. GoesOn(c) BY <1>1 DEF GoesOn, Flying
<1>6. v \in meanwhile[c] BY <1>1 DEF PresentIsWitnessed, Flying, v
<1>7. AnswersAreTrue'
  <2> SUFFICES ASSUME NEW d \in Claims PROVE
        /\ leg'[d] \in {"executed", "landing"} => TrueFor(d, outcome[d])'
        /\ leg'[d] \in {"joining", "waiting"} /\ ~boarded'[d] =>
             leg'[aboard'[d]] = "leading" \/ TrueFor(d, outcome[aboard[d]])'
        /\ leg'[d] \in {"read", "traced", "answered"} =>
             TrueFor(d, outcome[d])' \/ outcome'[d] = "timeout" \/ boarded'[d]
        /\ landed'[d] # "none" =>
             leg'[d] \in {"landing", "traced", "answered", "lost"} /\ landed'[d] = outcome'[d]
    BY DEF AnswersAreTrue
  <2>1. meanwhile[d] \subseteq meanwhile'[d] \/ leg[d] = "new" BY <1>3, WitnessGrows
  <2>2. CASE d = c
    BY <1>1, <1>6, <2>1, <2>2 DEF AnswersAreTrue, TrueFor, ClaimTypeOK
  <2>3. CASE d # c
    <3>1. leg'[d] = leg[d] /\ outcome'[d] = outcome[d] BY <1>1, <2>3 DEF ClaimTypeOK
    <3>2. ASSUME leg[d] \in {"joining", "waiting"}, ~boarded[d]
          PROVE  leg'[aboard'[d]] = "leading" \/ TrueFor(d, outcome[aboard[d]])'
      <4>1. aboard[d] \in Claims /\ QuoteOf[aboard[d]] = QuoteOf[d]
        BY <3>2, LeadersLead DEF Flying
      <4>2. CASE aboard[d] = c
        <5>1. v \in meanwhile[d]
          BY <3>2, <4>1, <4>2 DEF PresentIsWitnessed, Flying, v
        <5>2. QED BY <1>1, <2>1, <3>2, <4>2, <5>1 DEF TrueFor, ClaimTypeOK
      <4>3. CASE aboard[d] # c
        BY <1>1, <2>1, <3>2, <4>1, <4>3 DEF AnswersAreTrue, TrueFor, ClaimTypeOK
      <4>4. QED BY <4>2, <4>3
    <3>3. QED BY <1>1, <2>1, <3>1, <3>2 DEF AnswersAreTrue, TrueFor
  <2>4. QED BY <2>2, <2>3
<1>8. PaidOnce' BY <1>1 DEF PaidOnce, ClaimTypeOK
<1>9. QED BY <1>3, <1>4, <1>5, <1>7, <1>8, GoesOnKeeps, PresentKeeps

\* The answers when outcome and what has landed stay, and nobody stops to lead or joins.
LEMMA AnswersStand ==
  ASSUME ClaimsAssumption, ClaimInv, Witness, leg' \in [Claims -> Legs],
         UNCHANGED <<outcome, landed, boarded>>,
         \A d \in Claims :
           \/ leg'[d] = leg[d] /\ aboard'[d] = aboard[d]
           \/ leg'[d] = "lost" /\ leg[d] # "new"
           \/ leg[d] = "joining" /\ leg'[d] = "waiting" /\ aboard'[d] = aboard[d]
           \/ leg[d] \in {"landing", "read"} /\ leg'[d] = "traced"
           \/ leg[d] = "traced" /\ leg'[d] = "answered",
         \A d \in Claims : leg'[d] \in {"joining", "waiting"} /\ leg[aboard[d]] = "leading" =>
                            leg'[aboard[d]] # "lost"
  PROVE  AnswersAreTrue'
<1> USE DEF ClaimInv
<1> SUFFICES ASSUME NEW d \in Claims PROVE
      /\ leg'[d] \in {"executed", "landing"} => TrueFor(d, outcome[d])'
      /\ leg'[d] \in {"joining", "waiting"} /\ ~boarded'[d] =>
           leg'[aboard'[d]] = "leading" \/ TrueFor(d, outcome[aboard[d]])'
      /\ leg'[d] \in {"read", "traced", "answered"} =>
           TrueFor(d, outcome[d])' \/ outcome'[d] = "timeout" \/ boarded'[d]
      /\ landed'[d] # "none" =>
           leg'[d] \in {"landing", "traced", "answered", "lost"} /\ landed'[d] = outcome'[d]
  BY DEF AnswersAreTrue
<1>1. meanwhile[d] \subseteq meanwhile'[d] \/ leg[d] = "new" BY WitnessGrows
<1>2. leg'[d] \in {"executed", "landing"} => TrueFor(d, outcome[d])'
  BY <1>1 DEF AnswersAreTrue, TrueFor
<1>3. ASSUME leg'[d] \in {"joining", "waiting"}, ~boarded'[d]
      PROVE  leg'[aboard'[d]] = "leading" \/ TrueFor(d, outcome[aboard[d]])'
  <2>1. leg[d] \in {"joining", "waiting"} /\ aboard'[d] = aboard[d] BY <1>3
  <2>2. aboard[d] \in Claims BY <2>1, LeadersLead DEF Flying
  <2>3. leg[aboard[d]] = "leading" => leg'[aboard[d]] = "leading" BY <1>3, <2>2
  <2>4. QED BY <1>1, <1>3, <2>1, <2>3 DEF AnswersAreTrue, TrueFor
<1>4. leg'[d] \in {"read", "traced", "answered"} =>
           TrueFor(d, outcome[d])' \/ outcome'[d] = "timeout" \/ boarded'[d]
  BY <1>1 DEF AnswersAreTrue, TrueFor
<1>5. landed'[d] # "none" =>
           leg'[d] \in {"landing", "traced", "answered", "lost"} /\ landed'[d] = outcome'[d]
  BY DEF AnswersAreTrue
<1>6. QED BY <1>2, <1>3, <1>4, <1>5

LEMMA BeforeWaitKeeps ==
  ASSUME ClaimsAssumption, ClaimInv, NEW c \in Claims, BeforeWait(c), Witness PROVE ClaimInv'
<1> USE DEF ClaimInv
<1>1. leg' \in [Claims -> Legs] BY DEF BeforeWait, Flies, ClaimTypeOK, Legs, Flying
<1>2. ClaimTypeOK' BY <1>1, WitnessIsTyped DEF BeforeWait, ClaimTypeOK, roundVars, flightVars
<1>3. GoesOn(c) BY DEF BeforeWait, Flies, GoesOn, Flying, flightVars
<1>4. AnswersAreTrue'
  <2>1. UNCHANGED <<outcome, landed, boarded, aboard>> BY DEF BeforeWait, flightVars
  <2>2. \A d \in Claims : leg'[d] = leg[d] \/ (leg[d] = "joining" /\ leg'[d] = "waiting")
    BY DEF BeforeWait, Flies, ClaimTypeOK
  <2>3. \A d \in Claims : leg'[d] \in {"joining", "waiting"} => aboard[d] \in Claims
    <3> SUFFICES ASSUME NEW d \in Claims, leg'[d] \in {"joining", "waiting"}
                 PROVE  aboard[d] \in Claims
      OBVIOUS
    <3>1. leg[d] \in Flying BY <2>2 DEF Flying
    <3>2. QED BY <3>1, LeadersLead
  <2>4. \A d \in Claims : leg'[d] \in {"joining", "waiting"} /\ leg[aboard[d]] = "leading" =>
                          leg'[aboard[d]] # "lost"
    BY <2>2, <2>3
  <2>5. \A d \in Claims : \/ leg'[d] = leg[d] /\ aboard'[d] = aboard[d]
                          \/ leg[d] = "joining" /\ leg'[d] = "waiting" /\ aboard'[d] = aboard[d]
    BY <2>1, <2>2
  <2> HIDE DEF ClaimInv
  <2>6. QED BY ONLY ClaimsAssumption, ClaimInv, Witness, <1>1, <2>1, <2>4, <2>5, AnswersStand
<1>5. PaidOnce' BY DEF BeforeWait, roundVars, PaidOnce
<1>6. QED BY <1>1, <1>2, <1>3, <1>4, <1>5, GoesOnKeeps, PresentKeeps

\* A follower is told something true, or that he waited too long, or joined late.
LEMMA ReaderIsTold ==
  ASSUME ClaimsAssumption, ClaimInv, Witness, leg' \in [Claims -> Legs],
         NEW c \in Claims, NEW o,
         leg[c] = "waiting", leg' = [leg EXCEPT ![c] = "read"],
         outcome' = [outcome EXCEPT ![c] = o], UNCHANGED <<landed, aboard, boarded>>,
         TrueFor(c, o) \/ o = "timeout" \/ boarded[c]
  PROVE  AnswersAreTrue'
<1> USE DEF ClaimInv
<1> SUFFICES ASSUME NEW d \in Claims PROVE
      /\ leg'[d] \in {"executed", "landing"} => TrueFor(d, outcome[d])'
      /\ leg'[d] \in {"joining", "waiting"} /\ ~boarded'[d] =>
           leg'[aboard'[d]] = "leading" \/ TrueFor(d, outcome[aboard[d]])'
      /\ leg'[d] \in {"read", "traced", "answered"} =>
           TrueFor(d, outcome[d])' \/ outcome'[d] = "timeout" \/ boarded'[d]
      /\ landed'[d] # "none" =>
           leg'[d] \in {"landing", "traced", "answered", "lost"} /\ landed'[d] = outcome'[d]
  BY DEF AnswersAreTrue
<1>1. meanwhile[d] \subseteq meanwhile'[d] \/ leg[d] = "new" BY WitnessGrows
<1>2. leg[d] \in {"joining", "waiting"} =>
        aboard[d] \in Claims /\ leg[aboard[d]] \notin {"joining", "waiting"}
  BY LeadersLead DEF Flying
<1>3. CASE d = c BY <1>1, <1>3 DEF AnswersAreTrue, TrueFor, ClaimTypeOK
<1>4. CASE d # c BY <1>1, <1>2, <1>4 DEF AnswersAreTrue, TrueFor, ClaimTypeOK
<1>5. QED BY <1>3, <1>4

LEMMA WaitTimesOutKeeps ==
  ASSUME ClaimsAssumption, ClaimInv, NEW c \in Claims, WaitTimesOut(c), Witness PROVE ClaimInv'
<1> USE DEF ClaimInv
<1>1. leg' \in [Claims -> Legs] BY DEF WaitTimesOut, Flies, ClaimTypeOK, Legs, Flying
<1>2. ClaimTypeOK'
  BY <1>1, WitnessIsTyped DEF WaitTimesOut, ClaimTypeOK, roundVars, flightVars, Outcomes
<1>3. GoesOn(c) BY DEF WaitTimesOut, Flies, GoesOn, Flying, flightVars
<1>4. AnswersAreTrue' BY <1>1, ReaderIsTold DEF WaitTimesOut, Flies, flightVars
<1>5. PaidOnce' BY DEF WaitTimesOut, roundVars, PaidOnce
<1>6. QED BY <1>1, <1>2, <1>3, <1>4, <1>5, GoesOnKeeps, PresentKeeps

LEMMA ReadOutcomeKeeps ==
  ASSUME ClaimsAssumption, ClaimInv, NEW c \in Claims, ReadOutcome(c), Witness PROVE ClaimInv'
<1> USE DEF ClaimInv
<1>1. leg' \in [Claims -> Legs] BY DEF ReadOutcome, Flies, ClaimTypeOK, Legs, Flying
<1>2. aboard[c] \in Claims BY LeadersLead DEF ReadOutcome, Flies, Flying
<1>3. ClaimTypeOK'
  BY <1>1, <1>2, WitnessIsTyped DEF ReadOutcome, ClaimTypeOK, roundVars, flightVars
<1>4. GoesOn(c) BY DEF ReadOutcome, Flies, GoesOn, Flying, flightVars
<1>5. landed[aboard[c]] = outcome[aboard[c]] /\ leg[aboard[c]] # "leading"
  BY <1>2 DEF ReadOutcome, AnswersAreTrue
<1>6. boarded[c] \/ TrueFor(c, landed[aboard[c]])
  BY <1>5 DEF ReadOutcome, Flies, AnswersAreTrue
<1>7. AnswersAreTrue'
  BY <1>1, <1>6, ReaderIsTold DEF ReadOutcome, Flies, flightVars
<1>8. PaidOnce' BY DEF ReadOutcome, roundVars, PaidOnce
<1>9. QED BY <1>1, <1>3, <1>4, <1>7, <1>8, GoesOnKeeps, PresentKeeps

LEMMA PublishOutcomeKeeps ==
  ASSUME ClaimsAssumption, ClaimInv, NEW c \in Claims, PublishOutcome(c), Witness PROVE ClaimInv'
<1> USE DEF ClaimInv
<1>1. leg' \in [Claims -> Legs] BY DEF PublishOutcome, Flies, ClaimTypeOK, Legs, Flying
<1>2. ClaimTypeOK' BY <1>1, WitnessIsTyped DEF PublishOutcome, ClaimTypeOK, roundVars
<1>3. GoesOn(c) BY DEF PublishOutcome, Flies, GoesOn, Flying
<1>4. AnswersAreTrue'
  <2> SUFFICES ASSUME NEW d \in Claims PROVE
        /\ leg'[d] \in {"executed", "landing"} => TrueFor(d, outcome[d])'
        /\ leg'[d] \in {"joining", "waiting"} /\ ~boarded'[d] =>
             leg'[aboard'[d]] = "leading" \/ TrueFor(d, outcome[aboard[d]])'
        /\ leg'[d] \in {"read", "traced", "answered"} =>
             TrueFor(d, outcome[d])' \/ outcome'[d] = "timeout" \/ boarded'[d]
        /\ landed'[d] # "none" =>
             leg'[d] \in {"landing", "traced", "answered", "lost"} /\ landed'[d] = outcome'[d]
    BY DEF AnswersAreTrue
  <2>1. meanwhile[d] \subseteq meanwhile'[d] \/ leg[d] = "new" BY <1>1, WitnessGrows
  <2>2. leg[c] = "executed" /\ leg' = [leg EXCEPT ![c] = "landing"]
        /\ landed' = [landed EXCEPT ![c] = outcome[c]] /\ UNCHANGED <<outcome, aboard, boarded>>
    BY DEF PublishOutcome, Flies
  <2>3. leg[d] \in {"joining", "waiting"} => aboard[d] \in Claims BY LeadersLead DEF Flying
  <2>4. CASE d = c BY <2>1, <2>2, <2>4 DEF AnswersAreTrue, TrueFor, ClaimTypeOK
  <2>5. CASE d # c BY <2>1, <2>2, <2>3, <2>5 DEF AnswersAreTrue, TrueFor, ClaimTypeOK
  <2>6. QED BY <2>4, <2>5
<1>5. PaidOnce' BY DEF PublishOutcome, roundVars, PaidOnce
<1>6. QED BY <1>1, <1>2, <1>3, <1>4, <1>5, GoesOnKeeps, PresentKeeps

LEMMA AnswerClaimKeeps ==
  ASSUME ClaimsAssumption, ClaimInv, NEW c \in Claims, AnswerClaim(c), Witness PROVE ClaimInv'
<1> USE DEF ClaimInv
<1>1. /\ leg[c] = "traced" /\ leg' = [leg EXCEPT ![c] = "answered"]
      /\ UNCHANGED <<round, price, funds, debits, flights, aboard, seats, landed, boarded, outcome>>
  BY DEF AnswerClaim, Flies, roundVars, flightVars
<1>2. leg' \in [Claims -> Legs] BY <1>1 DEF ClaimTypeOK, Legs, Flying
<1>3. ClaimTypeOK' BY <1>1, <1>2, WitnessIsTyped DEF ClaimTypeOK
<1>4. \A w \in Servers, q \in Quotes : UsersOf(flights[w][q])' = UsersOf(flights[w][q])
  BY <1>1 DEF UsersOf, ClaimTypeOK, Flying
<1>5. EntriesAreTheirs' BY <1>1, <1>4 DEF EntriesAreTheirs
<1>6. CallersAreAboard' BY <1>1 DEF CallersAreAboard, ClaimTypeOK, FlightOf, Flying
<1>7. AnswersAreTrue' BY <1>1, <1>2, AnswersStand DEF ClaimTypeOK
<1>8. QED BY <1>1, <1>2, <1>3, <1>5, <1>6, <1>7, PresentKeeps DEF PaidOnce

\* A call that has just come tells nobody anything, and joins in time or is on record.
LEMMA NewcomerTellsNothing ==
  ASSUME ClaimsAssumption, ClaimInv, Witness, leg' \in [Claims -> Legs],
         NEW c \in Claims, NEW e \in Claims, leg[c] = "new",
         \/ leg' = [leg EXCEPT ![c] = "leading"]
         \/ /\ leg' = [leg EXCEPT ![c] = "joining"] /\ c # e
            /\ leg[e] = "leading" \/ boarded'[c],
         aboard' = [aboard EXCEPT ![c] = e], \A d \in Claims : d # c => boarded'[d] = boarded[d],
         UNCHANGED <<outcome, landed>>
  PROVE  AnswersAreTrue'
<1> USE DEF ClaimInv
<1> SUFFICES ASSUME NEW d \in Claims PROVE
      /\ leg'[d] \in {"executed", "landing"} => TrueFor(d, outcome[d])'
      /\ leg'[d] \in {"joining", "waiting"} /\ ~boarded'[d] =>
           leg'[aboard'[d]] = "leading" \/ TrueFor(d, outcome[aboard[d]])'
      /\ leg'[d] \in {"read", "traced", "answered"} =>
           TrueFor(d, outcome[d])' \/ outcome'[d] = "timeout" \/ boarded'[d]
      /\ landed'[d] # "none" =>
           leg'[d] \in {"landing", "traced", "answered", "lost"} /\ landed'[d] = outcome'[d]
  BY DEF AnswersAreTrue
<1>1. meanwhile[d] \subseteq meanwhile'[d] \/ leg[d] = "new" BY WitnessGrows
<1>2. landed[c] = "none" BY DEF AnswersAreTrue
<1>3. CASE d = c BY <1>2, <1>3 DEF ClaimTypeOK
<1>4. CASE d # c
  <2>1. leg'[d] = leg[d] /\ aboard'[d] = aboard[d] /\ boarded'[d] = boarded[d]
    BY <1>4 DEF ClaimTypeOK
  <2>2. leg[d] \in {"joining", "waiting"} => aboard[d] \in Claims /\ leg[aboard[d]] # "new"
    BY LeadersLead DEF Flying
  <2>3. leg[d] \in {"joining", "waiting"} => leg'[aboard[d]] = leg[aboard[d]]
    BY <2>2 DEF ClaimTypeOK
  <2>4. QED BY <1>1, <2>1, <2>3 DEF AnswersAreTrue, TrueFor
<1>5. QED BY <1>3, <1>4

LEMMA JoinOrCreateKeeps ==
  ASSUME ClaimsAssumption, ClaimInv, NEW c \in Claims, JoinOrCreate(c), Witness PROVE ClaimInv'
<1> USE DEF ClaimInv
<1> DEFINE e == FlightOf(c)
<1>1. leg[c] = "new" /\ UNCHANGED <<round, price, funds, debits, landed, outcome>>
  BY DEF JoinOrCreate, roundVars
<1>2. ServerOf[c] \in Servers /\ QuoteOf[c] \in Quotes BY DEF ClaimsAssumption
<1>3. e \in MaybeClaim BY <1>2 DEF ClaimTypeOK, FlightOf
<1>4. PaidOnce' BY <1>1 DEF PaidOnce
<1>5. leg' \in [Claims -> Legs]
  <2>1. leg \in [Claims -> Legs] BY DEF ClaimTypeOK
  <2>2. leg' = [leg EXCEPT ![c] = "leading"] \/ leg' = [leg EXCEPT ![c] = "joining"]
    BY DEF JoinOrCreate
  <2>3. QED BY <2>1, <2>2 DEF Legs, Flying
<1>6. aboard[c] = Noone BY <1>1 DEF CallersAreAboard, Flying
<1>7. CASE e = Noone
  <2>1. /\ leg' = [leg EXCEPT ![c] = "leading"]
        /\ flights' = [flights EXCEPT ![ServerOf[c]][QuoteOf[c]] = c]
        /\ aboard' = [aboard EXCEPT ![c] = c]
        /\ seats' = [seats EXCEPT ![c] = 1] /\ boarded' = boarded
    BY <1>7 DEF JoinOrCreate
  <2>2. ClaimTypeOK'
    BY <1>1, <1>5, <2>1, WitnessIsTyped DEF ClaimTypeOK, MaybeClaim
  <2>3. \A d \in Claims : leg[d] \in Flying => aboard[d] # c
    BY <1>1 DEF CallersAreAboard
  <2>4. UsersOf(c)' = {c} BY <2>1, <2>3 DEF UsersOf, ClaimTypeOK, Flying
  <2>5. EntriesAreTheirs'
    <3> SUFFICES ASSUME NEW w \in Servers, NEW q \in Quotes, flights'[w][q] # Noone
                 PROVE  /\ ServerOf[flights'[w][q]] = w /\ QuoteOf[flights'[w][q]] = q
                        /\ UsersOf(flights[w][q])' # {}
                        /\ seats'[flights'[w][q]] = Cardinality(UsersOf(flights[w][q])')
      BY DEF EntriesAreTheirs
    <3>1. CASE w = ServerOf[c] /\ q = QuoteOf[c]
      <4>1. flights'[w][q] = c BY <1>2, <2>1, <3>1 DEF ClaimTypeOK
      <4>2. UsersOf(flights[w][q])' = {c} BY <2>1, <2>3, <4>1 DEF UsersOf, ClaimTypeOK, Flying
      <4>3. seats'[c] = 1 BY <2>1 DEF ClaimTypeOK
      <4>4. QED BY <3>1, <4>1, <4>2, <4>3, FS_Singleton
    <3>2. CASE ~(w = ServerOf[c] /\ q = QuoteOf[c])
      <4>1. flights'[w][q] = flights[w][q] BY <1>2, <2>1, <3>2 DEF ClaimTypeOK
      <4>2. flights[w][q] # c BY <3>2, <4>1, <3>2 DEF EntriesAreTheirs
      <4>3. flights[w][q] \in Claims BY <4>1 DEF ClaimTypeOK, MaybeClaim
      <4>4. UsersOf(flights[w][q])' = UsersOf(flights[w][q])
        BY <1>1, <1>6, <2>1, <4>1, <4>2, <4>3 DEF UsersOf, ClaimTypeOK, Flying
      <4>5. seats'[flights[w][q]] = seats[flights[w][q]] BY <2>1, <4>2, <4>3 DEF ClaimTypeOK
      <4>6. QED BY <4>1, <4>4, <4>5 DEF EntriesAreTheirs
    <3>3. QED BY <3>1, <3>2
  <2>6. CallersAreAboard'
    <3> SUFFICES ASSUME NEW d \in Claims PROVE
          /\ leg'[d] \in Flying => /\ aboard'[d] = FlightOf(d)' /\ aboard'[d] # Noone
                                   /\ leg'[aboard'[d]] # "new"
          /\ leg'[d] \notin Flying => aboard'[d] = Noone
          /\ leg'[d] \in {"leading", "executed", "landing"} => aboard'[d] = d
          /\ leg'[d] \in {"joining", "waiting", "read"} => aboard'[d] # d
      BY DEF CallersAreAboard
    <3>1. CASE d = c
      BY <1>2, <2>1, <3>1 DEF ClaimTypeOK, FlightOf, Flying, ClaimsAssumption
    <3>2. CASE d # c
      <4>1. leg'[d] = leg[d] /\ aboard'[d] = aboard[d] BY <2>1, <3>2 DEF ClaimTypeOK
      <4>2. ASSUME leg[d] \in Flying PROVE FlightOf(d)' = FlightOf(d) /\ leg'[aboard[d]] # "new"
        <5>1. aboard[d] = FlightOf(d) /\ aboard[d] # Noone /\ leg[aboard[d]] # "new"
          BY <4>2 DEF CallersAreAboard
        <5>2. ServerOf[d] \in Servers /\ QuoteOf[d] \in Quotes BY DEF ClaimsAssumption
        <5>3. ~(ServerOf[d] = ServerOf[c] /\ QuoteOf[d] = QuoteOf[c]) BY <1>7, <5>1 DEF FlightOf
        <5>4. aboard[d] \in Claims BY <5>1 DEF ClaimTypeOK, MaybeClaim
        <5>5. QED BY <1>2, <2>1, <5>1, <5>2, <5>3, <5>4 DEF FlightOf, ClaimTypeOK
      <4>3. QED BY <4>1, <4>2 DEF CallersAreAboard
    <3>3. QED BY <3>1, <3>2
  <2>7. AnswersAreTrue' BY <1>1, <1>5, <1>6, <2>1, NewcomerTellsNothing DEF ClaimTypeOK
  <2>8. QED BY <1>4, <1>5, <2>2, <2>5, <2>6, <2>7, PresentKeeps
<1>8. CASE e # Noone
  <2>1. /\ leg' = [leg EXCEPT ![c] = "joining"]
        /\ aboard' = [aboard EXCEPT ![c] = e]
        /\ seats' = [seats EXCEPT ![e] = @ + 1]
        /\ boarded' = [boarded EXCEPT ![c] = leg[e] # "leading" /\ UsersOf(e) # {}]
        /\ flights' = flights
    BY <1>8 DEF JoinOrCreate
  <2>2. /\ e \in Claims /\ ServerOf[e] = ServerOf[c] /\ QuoteOf[e] = QuoteOf[c]
        /\ UsersOf(e) # {} /\ seats[e] = Cardinality(UsersOf(e))
    BY <1>2, <1>3, <1>8 DEF MaybeClaim, EntriesAreTheirs, FlightOf
  <2>3. ClaimTypeOK' BY <1>1, <1>5, <2>1, <2>2, WitnessIsTyped DEF ClaimTypeOK, MaybeClaim
  <2>4. PICK u \in Claims : leg[u] \in Flying /\ aboard[u] = e BY <2>2 DEF UsersOf
  <2>5. leg[e] # "new" BY <2>4 DEF CallersAreAboard
  <2>6. e # c BY <1>1, <2>5
  <2> HIDE DEF e
  <2>7. UsersOf(e)' = UsersOf(e) \cup {c} /\ c \notin UsersOf(e)
    <3>1. c \notin UsersOf(e) BY <1>1 DEF UsersOf, Flying
    <3>2. \A d \in Claims : d # c => leg'[d] = leg[d] /\ aboard'[d] = aboard[d]
      BY <2>1 DEF ClaimTypeOK
    <3>3. leg'[c] = "joining" /\ aboard'[c] = e BY <2>1 DEF ClaimTypeOK
    <3>4. {d \in Claims : leg'[d] \in Flying /\ aboard'[d] = e} = UsersOf(e) \cup {c}
      BY <3>2, <3>3 DEF UsersOf, Flying
    <3>5. flights' = flights BY <2>1
    <3>6. e' = e BY <2>1 DEF e, FlightOf
    <3>7. QED BY <3>1, <3>4, <3>6 DEF UsersOf
  <2>8. Cardinality(UsersOf(e)') = Cardinality(UsersOf(e)) + 1
    BY <2>7, UsersAreFinite, FS_AddElement
  <2>9. EntriesAreTheirs'
    <3> SUFFICES ASSUME NEW w \in Servers, NEW q \in Quotes, flights[w][q] # Noone
                 PROVE  /\ ServerOf[flights[w][q]] = w /\ QuoteOf[flights[w][q]] = q
                        /\ UsersOf(flights[w][q])' # {}
                        /\ seats'[flights[w][q]] = Cardinality(UsersOf(flights[w][q])')
      BY <2>1 DEF EntriesAreTheirs
    <3>1. flights[w][q] \in Claims BY DEF ClaimTypeOK, MaybeClaim
    <3>2. e' = e BY <2>1 DEF e, FlightOf
    <3>3. CASE flights[w][q] = e
      <4>1. UsersOf(flights[w][q])' = UsersOf(e)' BY <2>1, <3>2, <3>3 DEF UsersOf
      <4>2. seats'[e] = seats[e] + 1 BY <2>1, <2>2 DEF ClaimTypeOK
      <4>3. QED BY <2>2, <2>7, <2>8, <3>3, <4>1, <4>2 DEF EntriesAreTheirs
    <3>4. CASE flights[w][q] # e
      <4>1. UsersOf(flights[w][q])' = UsersOf(flights[w][q])
        BY <1>1, <1>6, <2>1, <3>1, <3>4 DEF UsersOf, ClaimTypeOK, Flying
      <4>2. seats'[flights[w][q]] = seats[flights[w][q]] BY <2>1, <3>1, <3>4 DEF ClaimTypeOK
      <4>3. QED BY <4>1, <4>2 DEF EntriesAreTheirs
    <3>5. QED BY <3>3, <3>4
  <2>10. CallersAreAboard'
    <3> SUFFICES ASSUME NEW d \in Claims PROVE
          /\ leg'[d] \in Flying => /\ aboard'[d] = FlightOf(d)' /\ aboard'[d] # Noone
                                   /\ leg'[aboard'[d]] # "new"
          /\ leg'[d] \notin Flying => aboard'[d] = Noone
          /\ leg'[d] \in {"leading", "executed", "landing"} => aboard'[d] = d
          /\ leg'[d] \in {"joining", "waiting", "read"} => aboard'[d] # d
      BY DEF CallersAreAboard
    <3>1. \A b \in Claims : leg[b] # "new" => leg'[b] # "new" BY <2>1 DEF ClaimTypeOK
    <3>2. FlightOf(d)' = FlightOf(d) BY <2>1 DEF FlightOf
    <3>3. CASE d = c
      BY <1>8, <2>1, <2>2, <2>5, <2>6, <3>1, <3>2, <3>3 DEF ClaimTypeOK, Flying, e
    <3>4. CASE d # c
      BY <1>8, <2>1, <3>1, <3>2, <3>4, LeadersLead DEF ClaimTypeOK, CallersAreAboard
    <3>5. QED BY <3>3, <3>4
  <2>11. AnswersAreTrue'
    <3>1. boarded'[c] \/ leg[e] = "leading" BY <2>1, <2>2 DEF ClaimTypeOK
    <3>2. QED
      BY <1>1, <1>5, <2>1, <2>2, <2>6, <3>1, NewcomerTellsNothing DEF ClaimTypeOK
  <2>12. QED BY <1>4, <1>5, <2>3, <2>9, <2>10, <2>11, PresentKeeps
<1>9. QED BY <1>7, <1>8

LEMMA ReleaseSeatKeeps ==
  ASSUME ClaimsAssumption, ClaimInv, NEW c \in Claims, ReleaseSeat(c), Witness PROVE ClaimInv'
<1> USE DEF ClaimInv
<1> DEFINE e == aboard[c]
<1>1. /\ leg[c] \in {"landing", "read"} /\ leg' = [leg EXCEPT ![c] = "traced"]
      /\ seats' = [seats EXCEPT ![e] = @ - 1] /\ aboard' = [aboard EXCEPT ![c] = Noone]
      /\ flights' = (IF seats[e] = 1 /\ FlightOf(c) = e
                     THEN [flights EXCEPT ![ServerOf[c]][QuoteOf[c]] = Noone] ELSE flights)
      /\ UNCHANGED <<round, price, funds, debits, landed, outcome, boarded>>
  BY DEF ReleaseSeat, Disembark, Flies, roundVars
<1>2. ServerOf[c] \in Servers /\ QuoteOf[c] \in Quotes BY DEF ClaimsAssumption
<1>3. e \in Claims /\ e = FlightOf(c) /\ e # Noone
  BY <1>1, LeadersLead DEF CallersAreAboard, Flying
<1>4. seats[e] = Cardinality(UsersOf(e)) /\ ServerOf[e] = ServerOf[c] /\ QuoteOf[e] = QuoteOf[c]
  BY <1>2, <1>3 DEF EntriesAreTheirs, FlightOf
<1>5. c \in UsersOf(e) BY <1>1 DEF UsersOf, Flying
<1>6. seats[e] \in Nat /\ seats[e] >= 1
  <2>1. Cardinality(UsersOf(e)) # 0 BY <1>5, UsersAreFinite, FS_EmptySet
  <2>2. QED BY <1>3, <1>4, <2>1 DEF ClaimTypeOK
<1> HIDE DEF e
<1>7. leg' \in [Claims -> Legs] BY <1>1 DEF ClaimTypeOK, Legs, Flying
<1>8. ClaimTypeOK'
  BY <1>1, <1>2, <1>3, <1>6, <1>7, WitnessIsTyped DEF ClaimTypeOK, MaybeClaim
<1>9. \A d \in Claims : d # c => leg'[d] = leg[d] /\ aboard'[d] = aboard[d]
  BY <1>1 DEF ClaimTypeOK
<1>10. leg'[c] = "traced" /\ aboard'[c] = Noone BY <1>1 DEF ClaimTypeOK
<1>11. {d \in Claims : leg'[d] \in Flying /\ aboard'[d] = e} = UsersOf(e) \ {c}
  BY <1>9, <1>10 DEF UsersOf, Flying
<1>12. Cardinality(UsersOf(e) \ {c}) = seats[e] - 1
  BY <1>4, <1>5, UsersAreFinite, FS_RemoveElement
<1>13. IsFiniteSet(UsersOf(e) \ {c}) BY UsersAreFinite, FS_Subset
<1>14. seats'[e] = seats[e] - 1 BY <1>1, <1>3 DEF ClaimTypeOK
<1>15. \A w \in Servers, q \in Quotes :
         /\ flights[w][q] \in MaybeClaim
         /\ ~(w = ServerOf[c] /\ q = QuoteOf[c]) => flights'[w][q] = flights[w][q]
         /\ w = ServerOf[c] /\ q = QuoteOf[c] =>
              flights[w][q] = e /\ flights'[w][q] = IF seats[e] = 1 THEN Noone ELSE e
  BY <1>1, <1>2, <1>3 DEF ClaimTypeOK, FlightOf
<1>16. EntriesAreTheirs'
  <2> SUFFICES ASSUME NEW w \in Servers, NEW q \in Quotes, flights'[w][q] # Noone
               PROVE  /\ ServerOf[flights'[w][q]] = w /\ QuoteOf[flights'[w][q]] = q
                      /\ UsersOf(flights[w][q])' # {}
                      /\ seats'[flights'[w][q]] = Cardinality(UsersOf(flights[w][q])')
    BY DEF EntriesAreTheirs
  <2>1. CASE w = ServerOf[c] /\ q = QuoteOf[c]
    <3>1. flights'[w][q] = e /\ seats[e] # 1 BY <1>15, <2>1
    <3>2. UsersOf(flights[w][q])' = UsersOf(e) \ {c} BY <1>11, <3>1 DEF UsersOf
    <3>3. UsersOf(e) \ {c} # {}
      <4>1. Cardinality({}) = 0 BY FS_EmptySet
      <4>2. QED BY <1>6, <1>12, <3>1, <4>1
    <3>4. QED BY <1>4, <1>12, <1>14, <2>1, <3>1, <3>2, <3>3
  <2>2. CASE ~(w = ServerOf[c] /\ q = QuoteOf[c])
    <3>1. flights'[w][q] = flights[w][q] /\ flights[w][q] \in Claims
      BY <1>15, <2>2 DEF MaybeClaim
    <3>2. flights[w][q] # e BY <1>4, <2>2, <3>1 DEF EntriesAreTheirs
    <3>3. UsersOf(flights[w][q])' = UsersOf(flights[w][q])
      <4>1. flights[w][q] # Noone BY <3>1
      <4>2. \A d \in Claims : (leg'[d] \in Flying /\ aboard'[d] = flights[w][q])
                             <=> (leg[d] \in Flying /\ aboard[d] = flights[w][q])
        BY <1>9, <1>10, <3>2, <4>1 DEF e, Flying
      <4>3. QED BY <3>1, <4>2 DEF UsersOf
    <3>4. seats'[flights[w][q]] = seats[flights[w][q]] BY <1>1, <3>1, <3>2 DEF ClaimTypeOK
    <3>5. QED BY <3>1, <3>3, <3>4 DEF EntriesAreTheirs
  <2>3. QED BY <2>1, <2>2
<1>17. CallersAreAboard'
  <2> SUFFICES ASSUME NEW d \in Claims PROVE
        /\ leg'[d] \in Flying => /\ aboard'[d] = FlightOf(d)' /\ aboard'[d] # Noone
                                 /\ leg'[aboard'[d]] # "new"
        /\ leg'[d] \notin Flying => aboard'[d] = Noone
        /\ leg'[d] \in {"leading", "executed", "landing"} => aboard'[d] = d
        /\ leg'[d] \in {"joining", "waiting", "read"} => aboard'[d] # d
    BY DEF CallersAreAboard
  <2>1. CASE d = c BY <1>10, <2>1 DEF Flying
  <2>2. CASE d # c
    <3>1. leg'[d] = leg[d] /\ aboard'[d] = aboard[d] BY <1>9, <2>2
    <3>2. ASSUME leg[d] \in Flying PROVE FlightOf(d)' = FlightOf(d) /\ leg'[aboard[d]] # "new"
      <4>1. aboard[d] = FlightOf(d) /\ aboard[d] # Noone /\ leg[aboard[d]] # "new"
        BY <3>2 DEF CallersAreAboard
      <4>2. ServerOf[d] \in Servers /\ QuoteOf[d] \in Quotes BY DEF ClaimsAssumption
      <4>3. aboard[d] \in Claims BY <3>2, LeadersLead
      <4>4. leg'[aboard[d]] # "new" BY <1>1, <4>1, <4>3 DEF ClaimTypeOK
      <4>5. CASE ServerOf[d] = ServerOf[c] /\ QuoteOf[d] = QuoteOf[c]
        <5>1. d \in UsersOf(e) \ {c} BY <1>3, <2>2, <3>2, <4>1, <4>5 DEF UsersOf, FlightOf
        <5>2. seats[e] - 1 # 0 BY <1>12, <1>13, <5>1, FS_EmptySet
        <5>3. QED BY <1>6, <1>15, <4>2, <4>4, <4>5, <5>2 DEF FlightOf
      <4>6. CASE ~(ServerOf[d] = ServerOf[c] /\ QuoteOf[d] = QuoteOf[c])
        BY <1>15, <4>2, <4>4, <4>6 DEF FlightOf
      <4>7. QED BY <4>5, <4>6
    <3>3. QED BY <3>1, <3>2 DEF CallersAreAboard
  <2>3. QED BY <2>1, <2>2
<1>18. AnswersAreTrue'
  <2>1. \A d \in Claims : leg'[d] # "lost" \/ leg[d] = "lost" BY <1>9, <1>10
  <2>2. \A d \in Claims : leg'[d] \in {"joining", "waiting"} => aboard[d] \in Claims
    <3> SUFFICES ASSUME NEW d \in Claims, leg'[d] \in {"joining", "waiting"}
                 PROVE  aboard[d] \in Claims
      OBVIOUS
    <3>1. leg[d] \in Flying BY <1>9, <1>10 DEF Flying
    <3>2. QED BY <3>1, LeadersLead
  <2>3. \A d \in Claims : leg'[d] \in {"joining", "waiting"} /\ leg[aboard[d]] = "leading" =>
                          leg'[aboard[d]] # "lost"
    BY <2>1, <2>2
  <2>4. \A d \in Claims : \/ leg'[d] = leg[d] /\ aboard'[d] = aboard[d]
                          \/ leg[d] \in {"landing", "read"} /\ leg'[d] = "traced"
    BY <1>1, <1>9, <1>10
  <2>5. UNCHANGED <<outcome, landed, boarded>> BY <1>1
  <2> HIDE DEF ClaimInv
  <2>6. QED BY ONLY ClaimsAssumption, ClaimInv, Witness, <1>7, <2>3, <2>4, <2>5, AnswersStand
<1>19. PaidOnce' BY <1>1 DEF PaidOnce
<1>20. QED BY <1>7, <1>8, <1>16, <1>17, <1>18, <1>19, PresentKeeps

-----------------------------------------------------------------------------
\* The surroundings.

LEMMA NobodyMovesKeeps ==
  ASSUME ClaimsAssumption, ClaimInv, Witness,
         UNCHANGED <<leg, flights, aboard, seats, landed, boarded, outcome>>,
         round' \in {"PENDING", "CLAIMED", "OVER"}, price' \in Prices, funds' \in BOOLEAN,
         debits' = debits, round' = round \/ round' = "OVER"
  PROVE  ClaimInv'
<1> USE DEF ClaimInv
<1>1. leg' \in [Claims -> Legs] BY DEF ClaimTypeOK
<1>2. ClaimTypeOK' BY WitnessIsTyped DEF ClaimTypeOK
<1>3. \A w \in Servers, q \in Quotes : UsersOf(flights[w][q])' = UsersOf(flights[w][q])
  BY DEF UsersOf
<1>4. EntriesAreTheirs' BY <1>3 DEF EntriesAreTheirs
<1>5. CallersAreAboard' BY DEF CallersAreAboard, FlightOf
<1>6. AnswersAreTrue' BY <1>1, AnswersStand
<1>7. PaidOnce' BY DEF PaidOnce
<1>8. QED BY <1>1, <1>2, <1>4, <1>5, <1>6, <1>7, PresentKeeps

LEMMA ServerDiesKeeps ==
  ASSUME ClaimsAssumption, ClaimInv, NEW w \in Servers, ServerDies(w), Witness PROVE ClaimInv'
<1> USE DEF ClaimInv
<1> DEFINE dead == {c \in Claims : ServerOf[c] = w /\ leg[c] \notin {"new", "answered", "lost"}}
<1>1. /\ leg' = [c \in Claims |-> IF c \in dead THEN "lost" ELSE leg[c]]
      /\ flights' = [flights EXCEPT ![w] = [q \in Quotes |-> Noone]]
      /\ aboard' = [c \in Claims |-> IF c \in dead THEN Noone ELSE aboard[c]]
      /\ UNCHANGED <<round, price, funds, debits, seats, landed, outcome, boarded>>
  BY DEF ServerDies, roundVars
<1>2. leg' \in [Claims -> Legs] BY <1>1 DEF ClaimTypeOK, Legs
<1>3. ClaimTypeOK' BY <1>1, <1>2, WitnessIsTyped DEF ClaimTypeOK, MaybeClaim
<1>4. \A d \in Claims : leg'[d] \in Flying =>
        leg'[d] = leg[d] /\ aboard'[d] = aboard[d] /\ ServerOf[d] # w
  BY <1>1 DEF Flying
<1>5. \A d \in Claims : ServerOf[d] # w => leg'[d] = leg[d] /\ aboard'[d] = aboard[d]
  BY <1>1
<1>6. \A v \in Servers, q \in Quotes :
        flights'[v][q] = IF v = w THEN Noone ELSE flights[v][q]
  BY <1>1 DEF ClaimTypeOK
<1>7. EntriesAreTheirs'
  <2> SUFFICES ASSUME NEW v \in Servers, NEW q \in Quotes, flights'[v][q] # Noone
               PROVE  /\ ServerOf[flights'[v][q]] = v /\ QuoteOf[flights'[v][q]] = q
                      /\ UsersOf(flights[v][q])' # {}
                      /\ seats'[flights'[v][q]] = Cardinality(UsersOf(flights[v][q])')
    BY DEF EntriesAreTheirs
  <2>1. v # w /\ flights'[v][q] = flights[v][q] /\ flights[v][q] # Noone BY <1>6
  <2>2. \A d \in Claims : leg[d] \in Flying /\ aboard[d] = flights[v][q] => ServerOf[d] # w
    BY <2>1, LeadersLead DEF EntriesAreTheirs
  <2>3. UsersOf(flights[v][q])' = UsersOf(flights[v][q])
    BY <1>4, <1>5, <2>1, <2>2 DEF UsersOf
  <2>4. QED BY <1>1, <2>1, <2>3 DEF EntriesAreTheirs
<1>8. CallersAreAboard'
  <2> SUFFICES ASSUME NEW d \in Claims PROVE
        /\ leg'[d] \in Flying => /\ aboard'[d] = FlightOf(d)' /\ aboard'[d] # Noone
                                 /\ leg'[aboard'[d]] # "new"
        /\ leg'[d] \notin Flying => aboard'[d] = Noone
        /\ leg'[d] \in {"leading", "executed", "landing"} => aboard'[d] = d
        /\ leg'[d] \in {"joining", "waiting", "read"} => aboard'[d] # d
    BY DEF CallersAreAboard
  <2>1. CASE leg'[d] \in Flying
    <3>1. leg'[d] = leg[d] /\ aboard'[d] = aboard[d] /\ ServerOf[d] # w BY <1>4, <2>1
    <3>2. aboard[d] \in Claims /\ ServerOf[aboard[d]] # w BY <2>1, <3>1, LeadersLead
    <3>3. leg'[aboard[d]] = leg[aboard[d]] BY <1>5, <3>2
    <3>4. ServerOf[d] \in Servers /\ QuoteOf[d] \in Quotes BY DEF ClaimsAssumption
    <3>5. FlightOf(d)' = FlightOf(d) BY <1>6, <3>1, <3>4 DEF FlightOf
    <3>6. QED BY <2>1, <3>1, <3>3, <3>5 DEF CallersAreAboard
  <2>2. CASE leg'[d] \notin Flying
    BY <1>1, <2>2 DEF CallersAreAboard, Flying
  <2>3. QED BY <2>1, <2>2
<1>9. AnswersAreTrue'
  <2>1. \A d \in Claims : leg'[d] \in {"joining", "waiting"} => leg'[aboard[d]] = leg[aboard[d]]
    <3> SUFFICES ASSUME NEW d \in Claims, leg'[d] \in {"joining", "waiting"}
                 PROVE  leg'[aboard[d]] = leg[aboard[d]]
      OBVIOUS
    <3>1. leg[d] \in Flying /\ ServerOf[d] # w BY <1>4 DEF Flying
    <3>2. aboard[d] \in Claims /\ ServerOf[aboard[d]] # w BY <3>1, LeadersLead
    <3>3. QED BY <1>5, <3>2
  <2>2. \A d \in Claims : \/ leg'[d] = leg[d] /\ aboard'[d] = aboard[d]
                          \/ leg'[d] = "lost" /\ leg[d] # "new"
    BY <1>1
  <2>3. QED BY <1>1, <1>2, <2>1, <2>2, AnswersStand
<1>10. PaidOnce' BY <1>1 DEF PaidOnce
<1>11. QED BY <1>2, <1>3, <1>7, <1>8, <1>9, <1>10, PresentKeeps

LEMMA ClaimStutters == ASSUME ClaimInv, UNCHANGED claimVars PROVE ClaimInv'
<1> USE DEF ClaimInv, claimVars
<1>1. ClaimTypeOK' BY DEF ClaimTypeOK
<1>2. EntriesAreTheirs' BY DEF EntriesAreTheirs, UsersOf
<1>3. CallersAreAboard' BY DEF CallersAreAboard, FlightOf
<1>4. PresentIsWitnessed' BY DEF PresentIsWitnessed, Verdict
<1>5. AnswersAreTrue' BY DEF AnswersAreTrue, TrueFor
<1>6. PaidOnce' BY DEF PaidOnce
<1>7. QED BY <1>1, <1>2, <1>3, <1>4, <1>5, <1>6

LEMMA ClaimStepKeeps ==
  ASSUME ClaimsAssumption, ClaimInv, [ClaimNext]_claimVars PROVE ClaimInv'
<1>1. CASE UNCHANGED claimVars BY <1>1, ClaimStutters
<1>2. CASE ClaimNext
  <2>1. Witness BY <1>2 DEF ClaimNext
  <2>2. ASSUME NEW c \in Claims,
          \/ JoinOrCreate(c) \/ ExecuteClaim(c) \/ PublishOutcome(c) \/ BeforeWait(c)
          \/ ReadOutcome(c) \/ WaitTimesOut(c) \/ ReleaseSeat(c) \/ AnswerClaim(c)
        PROVE ClaimInv'
    BY <2>1, <2>2, JoinOrCreateKeeps, ExecuteClaimKeeps, PublishOutcomeKeeps, BeforeWaitKeeps,
      ReadOutcomeKeeps, WaitTimesOutKeeps, ReleaseSeatKeeps, AnswerClaimKeeps
  <2>3. CASE RoundEnds
    BY <2>1, <2>3, NobodyMovesKeeps DEF RoundEnds, flightVars, ClaimInv, ClaimTypeOK
  <2>4. CASE FundsChange
    BY <2>1, <2>4, NobodyMovesKeeps DEF FundsChange, flightVars, ClaimInv, ClaimTypeOK
  <2>5. ASSUME NEW p \in Prices, PriceChanges(p) PROVE ClaimInv'
    BY <2>1, <2>5, NobodyMovesKeeps DEF PriceChanges, flightVars, ClaimInv, ClaimTypeOK
  <2>6. ASSUME NEW w \in Servers, ServerDies(w) PROVE ClaimInv'
    BY <2>1, <2>6, ServerDiesKeeps
  <2>7. QED BY <1>2, <2>2, <2>3, <2>4, <2>5, <2>6 DEF ClaimNext
<1>3. QED BY <1>1, <1>2

THEOREM ClaimInvariant == ClaimSpec => []ClaimInv
<1>1. ClaimInit => ClaimInv BY ClaimsAssumption, ClaimStarts
<1>2. ClaimInv /\ [ClaimNext]_claimVars => ClaimInv' BY ClaimsAssumption, ClaimStepKeeps
<1>3. QED BY <1>1, <1>2, PTL DEF ClaimSpec

\* A claim that is answered together with others is answered truly, and the points
\* are debited once.
THEOREM SharedAnswersAreTrue == ClaimSpec => []AnswerWasTrueMeanwhile
<1>1. ClaimInv => AnswerWasTrueMeanwhile
  <2> SUFFICES ASSUME ClaimInv PROVE AnswerWasTrueMeanwhile OBVIOUS
  <2> USE DEF ClaimInv
  <2>1. \A c \in Claims : leg[c] \in {"traced", "answered"} =>
          outcome[c] \in meanwhile[c] \cup {"transient", "timeout"} \/ boarded[c]
    BY DEF AnswersAreTrue, TrueFor
  <2>2. \A c, d \in Claims :
          /\ leg[c] = "leading" /\ leg[d] = "leading"
          /\ ServerOf[c] = ServerOf[d] /\ QuoteOf[c] = QuoteOf[d]
          => c = d
    BY DEF CallersAreAboard, FlightOf, Flying
  <2>3. QED BY <2>1, <2>2 DEF AnswerWasTrueMeanwhile, EntriesAreTheirs, PaidOnce
<1>2. QED BY <1>1, ClaimInvariant, PTL

-----------------------------------------------------------------------------
\* NotificationOutbox

\* Worker w has a row in hand and its lease has not run out.
Sure(w) == phase[w] # "idle" /\ ~late[w]

\* A worker has an answer only at the end, and its attempt was counted.
AttemptIsCounted == \A w \in Workers :
  /\ phase[w] = "answered" \/ answer[w] = "none"
  /\ phase[w] # "idle" => job[w] \in Rows /\ mine[w] <= attempts[job[w]]

\* Within its lease a worker has the latest attempt, and nobody but the end of an
\* invitation touched the row.
LeaseHolds == \A w \in Workers : Sure(w) =>
  /\ mine[w] = attempts[job[w]]
  /\ \/ row[job[w]] = "PROCESSING" /\ waiting[job[w]]
     \/ row[job[w]] = "CANCELLED" /\ SubjectOf[job[w]] \in Invites

\* Two workers never have the same attempt of a row.
AttemptHasOneWorker == \A v, w \in Workers :
  v # w /\ phase[v] # "idle" /\ phase[w] # "idle" /\ job[v] = job[w] => mine[v] # mine[w]

\* While a worker has not sent, every earlier delivery of its row is an unsure one.
NothingKnownYet == \A w \in Workers :
  Sure(w) /\ answer[w] # "sent" => delivered[job[w]] <= unsure[job[w]]

\* No lead is deleted between the check and the sending.
SubjectStands == \A w \in Workers :
  Sure(w) /\ phase[w] = "cleared" => SubjectOf[job[w]] \notin gone \cap Leads

\* A row that can be claimed again has only unsure deliveries ...
OpenRowIsNotDelivered == \A r \in Rows :
  row[r] \notin {"PROCESSING", "SENT", "CANCELLED"} => delivered[r] <= unsure[r]

\* ... and so has one in progress, unless a worker within its lease has sent it.
NobodyKnowsOfDelivery == \A r \in Rows :
  /\ row[r] = "PROCESSING"
  /\ \A w \in Workers : ~(Sure(w) /\ job[w] = r /\ answer[w] = "sent")
  => delivered[r] <= unsure[r]

OutboxInv ==
  /\ OutboxTypeOK /\ AttemptIsCounted /\ LeaseHolds /\ AttemptHasOneWorker
  /\ NothingKnownYet /\ SubjectStands
  /\ KnownDeliveryIsNotRepeated /\ OpenRowIsNotDelivered /\ NobodyKnowsOfDelivery

USE OutboxAssumption DEF rowVars, workerVars, pastVars

-----------------------------------------------------------------------------
\* The invariant holds at first.
LEMMA OutboxStarts == ASSUME OutboxInit PROVE OutboxInv
BY DEF OutboxInit, OutboxInv, OutboxTypeOK, RowStatuses, OpenStatuses, Answers,
  AttemptIsCounted, LeaseHolds, AttemptHasOneWorker, NothingKnownYet, SubjectStands,
  KnownDeliveryIsNotRepeated, OpenRowIsNotDelivered, NobodyKnowsOfDelivery, Sure

-----------------------------------------------------------------------------
\* Business transactions.

LEMMA EmitKeeps == ASSUME OutboxInv, NEW r \in Rows, Emit(r) PROVE OutboxInv'
<1> USE DEF OutboxInv
<1>1. OutboxTypeOK'
  BY DEF Emit, OutboxTypeOK, AttemptIsCounted, RowStatuses, OpenStatuses, Answers
<1> USE DEF Emit, OutboxTypeOK, AttemptIsCounted, LeaseHolds, AttemptHasOneWorker,
  NothingKnownYet, SubjectStands, KnownDeliveryIsNotRepeated, OpenRowIsNotDelivered,
  NobodyKnowsOfDelivery, Sure
<1>2. AttemptIsCounted' OBVIOUS
<1>3. LeaseHolds' OBVIOUS
<1>4. AttemptHasOneWorker' OBVIOUS
<1>5. NothingKnownYet' OBVIOUS
<1>6. SubjectStands' OBVIOUS
<1>7. KnownDeliveryIsNotRepeated' OBVIOUS
<1>8. OpenRowIsNotDelivered' OBVIOUS
<1>9. NobodyKnowsOfDelivery' OBVIOUS
<1>10. QED BY <1>1, <1>2, <1>3, <1>4, <1>5, <1>6, <1>7, <1>8, <1>9

LEMMA RetryKeeps == ASSUME OutboxInv, NEW r \in Rows, Retry(r) PROVE OutboxInv'
<1> USE DEF OutboxInv
<1>1. OutboxTypeOK'
  BY DEF Retry, RetryableStatuses, OutboxTypeOK, AttemptIsCounted, RowStatuses, OpenStatuses, Answers
<1> USE DEF Retry, RetryableStatuses, OutboxTypeOK, AttemptIsCounted, LeaseHolds, AttemptHasOneWorker,
  NothingKnownYet, SubjectStands, KnownDeliveryIsNotRepeated, OpenRowIsNotDelivered,
  NobodyKnowsOfDelivery, Sure
<1>2. AttemptIsCounted' OBVIOUS
<1>3. LeaseHolds' OBVIOUS
<1>4. AttemptHasOneWorker' OBVIOUS
<1>5. NothingKnownYet' OBVIOUS
<1>6. SubjectStands' OBVIOUS
<1>7. KnownDeliveryIsNotRepeated' OBVIOUS
<1>8. OpenRowIsNotDelivered' OBVIOUS
<1>9. NobodyKnowsOfDelivery' OBVIOUS
<1>10. QED BY <1>1, <1>2, <1>3, <1>4, <1>5, <1>6, <1>7, <1>8, <1>9

LEMMA DeleteLeadKeeps == ASSUME OutboxInv, NEW s \in Leads, DeleteLead(s) PROVE OutboxInv'
<1> USE DEF OutboxInv
<1>1. OutboxTypeOK'
  BY DEF DeleteLead, NoDeliveryInProgress, LiveLease, RowsOf, Cancelled, OutboxTypeOK, AttemptIsCounted, RowStatuses, OpenStatuses, Answers
<1> USE DEF DeleteLead, NoDeliveryInProgress, LiveLease, RowsOf, Cancelled, OpenStatuses, OutboxTypeOK, AttemptIsCounted, LeaseHolds, AttemptHasOneWorker,
  NothingKnownYet, SubjectStands, KnownDeliveryIsNotRepeated, OpenRowIsNotDelivered,
  NobodyKnowsOfDelivery, Sure
<1>2. AttemptIsCounted' OBVIOUS
<1>3. LeaseHolds' OBVIOUS
<1>4. AttemptHasOneWorker' OBVIOUS
<1>5. NothingKnownYet' OBVIOUS
<1>6. SubjectStands' OBVIOUS
<1>7. KnownDeliveryIsNotRepeated' OBVIOUS
<1>8. OpenRowIsNotDelivered' OBVIOUS
<1>9. NobodyKnowsOfDelivery' OBVIOUS
<1>10. QED BY <1>1, <1>2, <1>3, <1>4, <1>5, <1>6, <1>7, <1>8, <1>9

LEMMA RevokeInviteKeeps == ASSUME OutboxInv, NEW s \in Invites, RevokeInvite(s) PROVE OutboxInv'
<1> USE DEF OutboxInv
<1>1. OutboxTypeOK'
  BY DEF RevokeInvite, RowsOf, Cancelled, OutboxTypeOK, AttemptIsCounted, RowStatuses, OpenStatuses, Answers
<1> USE DEF RevokeInvite, RowsOf, Cancelled, OutboxTypeOK, AttemptIsCounted, LeaseHolds, AttemptHasOneWorker,
  NothingKnownYet, SubjectStands, KnownDeliveryIsNotRepeated, OpenRowIsNotDelivered,
  NobodyKnowsOfDelivery, Sure
<1>2. AttemptIsCounted' OBVIOUS
<1>3. LeaseHolds' OBVIOUS
<1>4. AttemptHasOneWorker' OBVIOUS
<1>5. NothingKnownYet' OBVIOUS
<1>6. SubjectStands' OBVIOUS
<1>7. KnownDeliveryIsNotRepeated' OBVIOUS
<1>8. OpenRowIsNotDelivered' OBVIOUS
<1>9. NobodyKnowsOfDelivery' OBVIOUS
<1>10. QED BY <1>1, <1>2, <1>3, <1>4, <1>5, <1>6, <1>7, <1>8, <1>9

LEMMA InviteEndsKeeps == ASSUME OutboxInv, NEW s \in Invites, InviteEnds(s) PROVE OutboxInv'
<1> USE DEF OutboxInv
<1>1. OutboxTypeOK'
  BY DEF InviteEnds, OutboxTypeOK, AttemptIsCounted, RowStatuses, OpenStatuses, Answers
<1> USE DEF InviteEnds, OutboxTypeOK, AttemptIsCounted, LeaseHolds, AttemptHasOneWorker,
  NothingKnownYet, SubjectStands, KnownDeliveryIsNotRepeated, OpenRowIsNotDelivered,
  NobodyKnowsOfDelivery, Sure
<1>2. AttemptIsCounted' OBVIOUS
<1>3. LeaseHolds' OBVIOUS
<1>4. AttemptHasOneWorker' OBVIOUS
<1>5. NothingKnownYet' OBVIOUS
<1>6. SubjectStands' OBVIOUS
<1>7. KnownDeliveryIsNotRepeated' OBVIOUS
<1>8. OpenRowIsNotDelivered' OBVIOUS
<1>9. NobodyKnowsOfDelivery' OBVIOUS
<1>10. QED BY <1>1, <1>2, <1>3, <1>4, <1>5, <1>6, <1>7, <1>8, <1>9

-----------------------------------------------------------------------------
\* process_outbox.

LEMMA ReadBatchKeeps == ASSUME OutboxInv, NEW w \in Workers, ReadBatch(w) PROVE OutboxInv'
<1> USE DEF OutboxInv
<1>1. OutboxTypeOK'
  BY DEF ReadBatch, OutboxTypeOK, AttemptIsCounted, RowStatuses, OpenStatuses, Answers
<1> USE DEF ReadBatch, OutboxTypeOK, AttemptIsCounted, LeaseHolds, AttemptHasOneWorker,
  NothingKnownYet, SubjectStands, KnownDeliveryIsNotRepeated, OpenRowIsNotDelivered,
  NobodyKnowsOfDelivery, Sure
<1>2. AttemptIsCounted' OBVIOUS
<1>3. LeaseHolds' OBVIOUS
<1>4. AttemptHasOneWorker' OBVIOUS
<1>5. NothingKnownYet' OBVIOUS
<1>6. SubjectStands' OBVIOUS
<1>7. KnownDeliveryIsNotRepeated' OBVIOUS
<1>8. OpenRowIsNotDelivered' OBVIOUS
<1>9. NobodyKnowsOfDelivery' OBVIOUS
<1>10. QED BY <1>1, <1>2, <1>3, <1>4, <1>5, <1>6, <1>7, <1>8, <1>9

LEMMA SkipKeeps == ASSUME OutboxInv, NEW w \in Workers, NEW r \in Rows, Skip(w, r) PROVE OutboxInv'
<1> USE DEF OutboxInv
<1>1. OutboxTypeOK'
  BY DEF Skip, OutboxTypeOK, AttemptIsCounted, RowStatuses, OpenStatuses, Answers
<1> USE DEF Skip, OutboxTypeOK, AttemptIsCounted, LeaseHolds, AttemptHasOneWorker,
  NothingKnownYet, SubjectStands, KnownDeliveryIsNotRepeated, OpenRowIsNotDelivered,
  NobodyKnowsOfDelivery, Sure
<1>2. AttemptIsCounted' OBVIOUS
<1>3. LeaseHolds' OBVIOUS
<1>4. AttemptHasOneWorker' OBVIOUS
<1>5. NothingKnownYet' OBVIOUS
<1>6. SubjectStands' OBVIOUS
<1>7. KnownDeliveryIsNotRepeated' OBVIOUS
<1>8. OpenRowIsNotDelivered' OBVIOUS
<1>9. NobodyKnowsOfDelivery' OBVIOUS
<1>10. QED BY <1>1, <1>2, <1>3, <1>4, <1>5, <1>6, <1>7, <1>8, <1>9

LEMMA ClaimKeeps == ASSUME OutboxInv, NEW w \in Workers, NEW r \in Rows, Claim(w, r) PROVE OutboxInv'
<1> USE DEF OutboxInv
<1>1. OutboxTypeOK'
  BY DEF Claim, Ready, OutboxTypeOK, AttemptIsCounted, RowStatuses, OpenStatuses, Answers
<1> USE DEF Claim, Ready, OutboxTypeOK, AttemptIsCounted, LeaseHolds, AttemptHasOneWorker,
  NothingKnownYet, SubjectStands, KnownDeliveryIsNotRepeated, OpenRowIsNotDelivered,
  NobodyKnowsOfDelivery, Sure
<1>2. AttemptIsCounted' OBVIOUS
<1>3. LeaseHolds' OBVIOUS
<1>4. AttemptHasOneWorker' OBVIOUS
<1>5. NothingKnownYet' OBVIOUS
<1>6. SubjectStands' OBVIOUS
<1>7. KnownDeliveryIsNotRepeated' OBVIOUS
<1>8. OpenRowIsNotDelivered' OBVIOUS
<1>9. NobodyKnowsOfDelivery' OBVIOUS
<1>10. QED BY <1>1, <1>2, <1>3, <1>4, <1>5, <1>6, <1>7, <1>8, <1>9

LEMMA CheckKeeps == ASSUME OutboxInv, NEW w \in Workers, Check(w) PROVE OutboxInv'
<1> USE DEF OutboxInv
<1>1. OutboxTypeOK'
  BY DEF Check, OutboxTypeOK, AttemptIsCounted, RowStatuses, OpenStatuses, Answers
<1> USE DEF Check, OutboxTypeOK, AttemptIsCounted, LeaseHolds, AttemptHasOneWorker,
  NothingKnownYet, SubjectStands, KnownDeliveryIsNotRepeated, OpenRowIsNotDelivered,
  NobodyKnowsOfDelivery, Sure
<1>2. AttemptIsCounted' OBVIOUS
<1>3. LeaseHolds' OBVIOUS
<1>4. AttemptHasOneWorker' OBVIOUS
<1>5. NothingKnownYet' OBVIOUS
<1>6. SubjectStands' OBVIOUS
<1>7. KnownDeliveryIsNotRepeated' OBVIOUS
<1>8. OpenRowIsNotDelivered' OBVIOUS
<1>9. NobodyKnowsOfDelivery' OBVIOUS
<1>10. QED BY <1>1, <1>2, <1>3, <1>4, <1>5, <1>6, <1>7, <1>8, <1>9

LEMMA SendKeeps == ASSUME OutboxInv, NEW w \in Workers, Send(w) PROVE OutboxInv'
<1> USE DEF OutboxInv
<1>1. OutboxTypeOK'
  BY DEF Send, OutboxTypeOK, AttemptIsCounted, RowStatuses, OpenStatuses, Answers
<1> USE DEF Send, OutboxTypeOK, AttemptIsCounted, LeaseHolds, AttemptHasOneWorker,
  NothingKnownYet, SubjectStands, KnownDeliveryIsNotRepeated, OpenRowIsNotDelivered,
  NobodyKnowsOfDelivery, Sure
<1>2. AttemptIsCounted' OBVIOUS
<1>3. LeaseHolds' OBVIOUS
<1>4. AttemptHasOneWorker' OBVIOUS
<1>5. NothingKnownYet' OBVIOUS
<1>6. SubjectStands' OBVIOUS
<1>7. KnownDeliveryIsNotRepeated' OBVIOUS
<1>8. OpenRowIsNotDelivered' OBVIOUS
<1>9. NobodyKnowsOfDelivery' OBVIOUS
<1>10. QED BY <1>1, <1>2, <1>3, <1>4, <1>5, <1>6, <1>7, <1>8, <1>9

LEMMA RecordKeeps == ASSUME OutboxInv, NEW w \in Workers, Record(w) PROVE OutboxInv'
<1> USE DEF OutboxInv
<1>0. job[w] \in Rows /\ answer[w] \in Answers \cup {"none"}
  BY DEF Record, AttemptIsCounted, OutboxTypeOK
<1>a. StatusAfter(job[w], answer[w]) \in RowStatuses
  BY DEF StatusAfter, RowStatuses, OpenStatuses
<1>b. MessageAfter(job[w], answer[w]) \in {"NONE", "CREATED", "SENT", "FAILED", "CANCELLED"}
  BY <1>0 DEF MessageAfter, OutboxTypeOK
<1>c. row' \in [Rows -> RowStatuses]
  BY <1>0, <1>a DEF Record, RecordOutcome, OutboxTypeOK
<1>e. waiting' \in [Rows -> BOOLEAN]
  <2>1. CASE UNCHANGED waiting BY <2>1 DEF OutboxTypeOK
  <2>2. CASE waiting' = [waiting EXCEPT ![job[w]] = StatusAfter(job[w], answer[w]) = "FAILED"]
    <3>1. (StatusAfter(job[w], answer[w]) = "FAILED") \in BOOLEAN OBVIOUS
    <3>2. QED BY <1>0, <2>2, <3>1, Zenon DEF OutboxTypeOK
  <2>3. QED BY <2>1, <2>2 DEF Record, RecordOutcome
<1>d. message' \in [Rows -> {"NONE", "CREATED", "SENT", "FAILED", "CANCELLED"}]
  BY <1>0, <1>b DEF Record, RecordOutcome, OutboxTypeOK
<1>1. OutboxTypeOK'
  BY <1>0, <1>c, <1>d, <1>e DEF OutboxTypeOK, Record, WorkerRests, pastVars
<1> USE DEF Record, RecordOutcome, WorkerRests, StatusAfter, MessageAfter, Owns, OutboxTypeOK, AttemptIsCounted, LeaseHolds, AttemptHasOneWorker,
  NothingKnownYet, SubjectStands, KnownDeliveryIsNotRepeated, OpenRowIsNotDelivered,
  NobodyKnowsOfDelivery, Sure
<1>2. AttemptIsCounted' OBVIOUS
<1>3. LeaseHolds' OBVIOUS
<1>4. AttemptHasOneWorker' OBVIOUS
<1>5. NothingKnownYet' OBVIOUS
<1>6. SubjectStands' OBVIOUS
<1>7. KnownDeliveryIsNotRepeated' OBVIOUS
<1>8. OpenRowIsNotDelivered' OBVIOUS
<1>9. NobodyKnowsOfDelivery' OBVIOUS
<1>10. QED BY <1>1, <1>2, <1>3, <1>4, <1>5, <1>6, <1>7, <1>8, <1>9

LEMMA CrashKeeps == ASSUME OutboxInv, NEW w \in Workers, Crash(w) PROVE OutboxInv'
<1> USE DEF OutboxInv
<1>1. OutboxTypeOK'
  BY DEF Crash, WorkerRests, OutboxTypeOK, AttemptIsCounted, RowStatuses, OpenStatuses, Answers
<1> USE DEF Crash, WorkerRests, OutboxTypeOK, AttemptIsCounted, LeaseHolds, AttemptHasOneWorker,
  NothingKnownYet, SubjectStands, KnownDeliveryIsNotRepeated, OpenRowIsNotDelivered,
  NobodyKnowsOfDelivery, Sure
<1>2. AttemptIsCounted' OBVIOUS
<1>3. LeaseHolds' OBVIOUS
<1>4. AttemptHasOneWorker' OBVIOUS
<1>5. NothingKnownYet' OBVIOUS
<1>6. SubjectStands' OBVIOUS
<1>7. KnownDeliveryIsNotRepeated' OBVIOUS
<1>8. OpenRowIsNotDelivered' OBVIOUS
<1>9. NobodyKnowsOfDelivery' OBVIOUS
<1>10. QED BY <1>1, <1>2, <1>3, <1>4, <1>5, <1>6, <1>7, <1>8, <1>9

-----------------------------------------------------------------------------
\* Time.

LEMMA BackoffEndsKeeps == ASSUME OutboxInv, NEW r \in Rows, BackoffEnds(r) PROVE OutboxInv'
<1> USE DEF OutboxInv
<1>1. OutboxTypeOK'
  BY DEF BackoffEnds, OutboxTypeOK, AttemptIsCounted, RowStatuses, OpenStatuses, Answers
<1> USE DEF BackoffEnds, OutboxTypeOK, AttemptIsCounted, LeaseHolds, AttemptHasOneWorker,
  NothingKnownYet, SubjectStands, KnownDeliveryIsNotRepeated, OpenRowIsNotDelivered,
  NobodyKnowsOfDelivery, Sure
<1>2. AttemptIsCounted' OBVIOUS
<1>3. LeaseHolds' OBVIOUS
<1>4. AttemptHasOneWorker' OBVIOUS
<1>5. NothingKnownYet' OBVIOUS
<1>6. SubjectStands' OBVIOUS
<1>7. KnownDeliveryIsNotRepeated' OBVIOUS
<1>8. OpenRowIsNotDelivered' OBVIOUS
<1>9. NobodyKnowsOfDelivery' OBVIOUS
<1>10. QED BY <1>1, <1>2, <1>3, <1>4, <1>5, <1>6, <1>7, <1>8, <1>9

LEMMA LeaseEndsKeeps == ASSUME OutboxInv, NEW r \in Rows, LeaseEnds(r) PROVE OutboxInv'
<1> USE DEF OutboxInv
<1>1. OutboxTypeOK'
  BY DEF LeaseEnds, Holders, LiveLease, OutboxTypeOK, AttemptIsCounted, RowStatuses, OpenStatuses, Answers
<1> USE DEF LeaseEnds, Holders, LiveLease, OutboxTypeOK, AttemptIsCounted, LeaseHolds, AttemptHasOneWorker,
  NothingKnownYet, SubjectStands, KnownDeliveryIsNotRepeated, OpenRowIsNotDelivered,
  NobodyKnowsOfDelivery, Sure
<1>2. AttemptIsCounted' OBVIOUS
<1>3. LeaseHolds' OBVIOUS
<1>4. AttemptHasOneWorker' OBVIOUS
<1>5. NothingKnownYet' OBVIOUS
<1>6. SubjectStands' OBVIOUS
<1>7. KnownDeliveryIsNotRepeated' OBVIOUS
<1>8. OpenRowIsNotDelivered' OBVIOUS
<1>9. NobodyKnowsOfDelivery' OBVIOUS
<1>10. QED BY <1>1, <1>2, <1>3, <1>4, <1>5, <1>6, <1>7, <1>8, <1>9

-----------------------------------------------------------------------------
\* A step that changes nothing.
LEMMA OutboxStutters == ASSUME OutboxInv, UNCHANGED outboxVars PROVE OutboxInv'
BY DEF outboxVars, OutboxInv, OutboxTypeOK, AttemptIsCounted, LeaseHolds,
  AttemptHasOneWorker, NothingKnownYet, SubjectStands, KnownDeliveryIsNotRepeated,
  OpenRowIsNotDelivered, NobodyKnowsOfDelivery, Sure

\* Every step keeps the invariant.
LEMMA OutboxSteps == ASSUME OutboxInv, [OutboxNext]_outboxVars PROVE OutboxInv'
BY EmitKeeps, RetryKeeps, DeleteLeadKeeps, RevokeInviteKeeps, InviteEndsKeeps,
  ReadBatchKeeps, SkipKeeps, ClaimKeeps, CheckKeeps, SendKeeps, RecordKeeps, CrashKeeps,
  BackoffEndsKeeps, LeaseEndsKeeps, OutboxStutters DEF OutboxNext, WorkerStep, TimePasses

\* The inductive invariant holds in every reachable state.
LEMMA OutboxInvariant == OutboxSpec => []OutboxInv
BY OutboxStarts, OutboxSteps, PTL DEF OutboxSpec

-----------------------------------------------------------------------------
\* Rows and workers have their types in every reachable state.
THEOREM OutboxTypeCorrect == OutboxSpec => []OutboxTypeOK
<1>1. OutboxInv => OutboxTypeOK BY DEF OutboxInv
<1>2. QED BY <1>1, OutboxInvariant, PTL

\* For any number of rows, workers, crashes and retries a delivery that is known of
\* is the last one of its row.
THEOREM NoKnownDeliveryTwice == OutboxSpec => []KnownDeliveryIsNotRepeated
<1>1. OutboxInv => KnownDeliveryIsNotRepeated BY DEF OutboxInv
<1>2. QED BY <1>1, OutboxInvariant, PTL

\* For any number of leads and workers nobody hears about a deleted lead.
THEOREM SilenceAfterDeletion == OutboxSpec => DeletedLeadStaysSilent
<1> DEFINE Silent == \A w \in Workers :
      phase[w] = "cleared" /\ phase'[w] = "answered" /\ answer'[w] \in {"sent", "lost"}
        => late[w] \/ SubjectOf[job[w]] \notin (gone \cap Leads)
<1>1. ASSUME OutboxInv, [OutboxNext]_outboxVars PROVE Silent
  BY <1>1 DEF OutboxInv, SubjectStands, Sure
<1>2. ASSUME OutboxInv, [OutboxNext]_outboxVars PROVE [Silent]_outboxVars
  BY <1>1, <1>2
<1>3. QED BY <1>2, OutboxInvariant, PTL DEF OutboxSpec, DeletedLeadStaysSilent

-----------------------------------------------------------------------------
\* LeadExport

Busy(e) == step[e] # "idle"

\* A busy worker has one of the attempts of its task.
AttemptIsNumbered == \A e \in Exporters : Busy(e) =>
  work[e] \in Tasks /\ held[e] \in 1..lastToken[work[e]]

\* The token of a running task is that of its latest attempt, any other has none.
TokenIsTheLatest == \A t \in Tasks :
  /\ token[t] = IF task[t] = "RUNNING" THEN lastToken[t] ELSE 0
  /\ task[t] = "RUNNING" => lastToken[t] > 0
  /\ task[t] \in {"NONE", "PENDING"} => lastToken[t] = 0
  /\ task[t] = "COMPLETED" => object[t] \in 1..lastToken[t]

\* No two workers have the same attempt.
AttemptHasOneExporter == \A d, e \in Exporters :
  d # e /\ Busy(d) /\ Busy(e) /\ work[d] = work[e] => held[d] # held[e]

\* A task that can be taken over, now or when its lease ends, has had its trouble.
EveryTakeoverHadACause == \A t \in Tasks :
  /\ lastToken[t] <= trouble + 1
  /\ task[t] = "RUNNING" => \/ lastToken[t] <= trouble
                            \/ lease[t] /\ \E e \in Exporters : Busy(e) /\ work[e] = t /\ held[e] = token[t]

\* From its intent on the file of an attempt has a row that is not due, and the
\* steps of the attempt know whether the file is there.
UploadIsCovered == \A e \in Exporters :
  /\ step[e] \in {"intended", "uploading", "uploaded", "discarding"} =>
       cleanup[AttemptOf(e)] = "PENDING" /\ due[AttemptOf(e)] > 0
  /\ step[e] = "recording" => due[AttemptOf(e)] > 0 /\ AttemptOf(e) \notin stored
  /\ step[e] = "uploaded" => AttemptOf(e) \in stored

\* No worker is left with the attempt that answered a task.
AnswerNamesItsFile == \A t \in Tasks : task[t] = "COMPLETED" =>
  \A e \in Exporters : Busy(e) /\ work[e] = t => held[e] # object[t]

\* A published file and its row last until the file expires.
KeptUntilItExpires == \A t \in Tasks : task[t] = "COMPLETED" /\ expiry[t] > 0 =>
  <<t, object[t]>> \in stored /\ due[<<t, object[t]>>] = expiry[t]

ExportInv ==
  /\ ExportTypeOK /\ AttemptIsNumbered /\ TokenIsTheLatest /\ AttemptHasOneExporter
  /\ EveryTakeoverHadACause /\ UploadIsCovered /\ AnswerNamesItsFile
  /\ NoFileIsForgotten /\ KeptUntilItExpires

USE ExportAssumption DEF taskVars, fileVars, exporterVars

-----------------------------------------------------------------------------
\* The attempt of a busy worker is one of Attempts.
LEMMA AttemptExists ==
  ASSUME ExportTypeOK, AttemptIsNumbered, NEW e \in Exporters, Busy(e)
  PROVE  /\ AttemptOf(e) \in Attempts
         /\ work[e] \in Tasks /\ held[e] \in Nat \ {0}
         /\ AttemptOf(e)[1] = work[e] /\ AttemptOf(e)[2] = held[e]
BY DEF ExportTypeOK, AttemptIsNumbered, AttemptOf, Attempts, AttemptNumbers

\* The invariant holds at first.
LEMMA ExportStarts == ASSUME ExportInit PROVE ExportInv
BY DEF ExportInit, ExportInv, ExportTypeOK, AttemptIsNumbered, TokenIsTheLatest, Steps,
  AttemptHasOneExporter, EveryTakeoverHadACause, UploadIsCovered, AnswerNamesItsFile,
  NoFileIsForgotten, KeptUntilItExpires, Busy

-----------------------------------------------------------------------------
\* Requests and workers.

LEMMA RequestExportKeeps == ASSUME ExportInv, NEW t \in Tasks, RequestExport(t) PROVE ExportInv'
<1> USE DEF ExportInv, Busy, GoTo, Owned, Trouble, RequestExport, Active, ActiveStatuses
<1>1. ExportTypeOK'
  BY DEF ExportTypeOK, Steps, AttemptIsNumbered, TokenIsTheLatest, EveryTakeoverHadACause, Attempts, AttemptNumbers
<1> USE DEF ExportTypeOK, AttemptIsNumbered, TokenIsTheLatest, AttemptHasOneExporter,
  EveryTakeoverHadACause, UploadIsCovered, AnswerNamesItsFile, NoFileIsForgotten,
  KeptUntilItExpires, Attempts, AttemptNumbers, AttemptOf
<1>2. AttemptIsNumbered' OBVIOUS
<1>3. TokenIsTheLatest' OBVIOUS
<1>4. AttemptHasOneExporter' OBVIOUS
<1>5. EveryTakeoverHadACause' OBVIOUS
<1>6. UploadIsCovered' OBVIOUS
<1>7. AnswerNamesItsFile' OBVIOUS
<1>8. NoFileIsForgotten' OBVIOUS
<1>9. KeptUntilItExpires' OBVIOUS
<1>10. QED BY <1>1, <1>2, <1>3, <1>4, <1>5, <1>6, <1>7, <1>8, <1>9

LEMMA ClaimExportKeeps == ASSUME ExportInv, NEW e \in Exporters, NEW t \in Tasks, ClaimExport(e, t) PROVE ExportInv'
<1> USE DEF ExportInv, Busy, GoTo, Owned, Trouble, ClaimExport
<1>1. ExportTypeOK'
  BY DEF ExportTypeOK, Steps, AttemptIsNumbered, TokenIsTheLatest, EveryTakeoverHadACause, Attempts, AttemptNumbers
<1> USE DEF ExportTypeOK, AttemptIsNumbered, TokenIsTheLatest, AttemptHasOneExporter,
  EveryTakeoverHadACause, UploadIsCovered, AnswerNamesItsFile, NoFileIsForgotten,
  KeptUntilItExpires, Attempts, AttemptNumbers, AttemptOf
<1>2. AttemptIsNumbered' OBVIOUS
<1>3. TokenIsTheLatest' OBVIOUS
<1>4. AttemptHasOneExporter' OBVIOUS
<1>5. EveryTakeoverHadACause' OBVIOUS
<1>6. UploadIsCovered' OBVIOUS
<1>7. AnswerNamesItsFile' OBVIOUS
<1>8. NoFileIsForgotten' OBVIOUS
<1>9. KeptUntilItExpires' OBVIOUS
<1>10. QED BY <1>1, <1>2, <1>3, <1>4, <1>5, <1>6, <1>7, <1>8, <1>9

LEMMA PersistIntentKeeps == ASSUME ExportInv, NEW e \in Exporters, PersistIntent(e) PROVE ExportInv'
<1> USE DEF ExportInv, Busy, GoTo, Owned, Trouble, PersistIntent, Intent
<1>0. AttemptOf(e) \in Attempts /\ work[e] \in Tasks /\ held[e] \in Nat \ {0}
  BY AttemptExists
<1>1. ExportTypeOK'
  BY <1>0 DEF ExportTypeOK, Steps, AttemptIsNumbered, TokenIsTheLatest, EveryTakeoverHadACause, Attempts, AttemptNumbers
<1> USE DEF ExportTypeOK, AttemptIsNumbered, TokenIsTheLatest, AttemptHasOneExporter,
  EveryTakeoverHadACause, UploadIsCovered, AnswerNamesItsFile, NoFileIsForgotten,
  KeptUntilItExpires, Attempts, AttemptNumbers, AttemptOf
<1>2. AttemptIsNumbered' BY <1>0
<1>3. TokenIsTheLatest' BY <1>0
<1>4. AttemptHasOneExporter' BY <1>0
<1>5. EveryTakeoverHadACause' BY <1>0
<1>6. UploadIsCovered' BY <1>0
<1>7. AnswerNamesItsFile' BY <1>0
<1>8. NoFileIsForgotten' BY <1>0
<1>9. KeptUntilItExpires' BY <1>0
<1>10. QED BY <1>1, <1>2, <1>3, <1>4, <1>5, <1>6, <1>7, <1>8, <1>9

LEMMA StartUploadKeeps == ASSUME ExportInv, NEW e \in Exporters, StartUpload(e) PROVE ExportInv'
<1> USE DEF ExportInv, Busy, GoTo, Owned, Trouble, StartUpload, Renewed, Fails
<1>0. AttemptOf(e) \in Attempts /\ work[e] \in Tasks /\ held[e] \in Nat \ {0}
  BY AttemptExists
<1>a. lease' \in [Tasks -> BOOLEAN] BY <1>0 DEF ExportTypeOK
<1>b. step' \in [Exporters -> Steps] /\ UNCHANGED <<work, held>> BY <1>0 DEF ExportTypeOK, Steps
<1>1. ExportTypeOK'
  BY <1>a, <1>b DEF ExportTypeOK
<1>5. EveryTakeoverHadACause'
  BY <1>0 DEF EveryTakeoverHadACause, ExportTypeOK, AttemptIsNumbered, TokenIsTheLatest
<1> USE DEF ExportTypeOK, AttemptIsNumbered, TokenIsTheLatest, AttemptHasOneExporter,
  EveryTakeoverHadACause, UploadIsCovered, AnswerNamesItsFile, NoFileIsForgotten,
  KeptUntilItExpires, Attempts, AttemptNumbers, AttemptOf
<1>2. AttemptIsNumbered' BY <1>0
<1>3. TokenIsTheLatest' BY <1>0
<1>4. AttemptHasOneExporter' BY <1>0
<1>6. UploadIsCovered' BY <1>0
<1>7. AnswerNamesItsFile' BY <1>0
<1>8. NoFileIsForgotten' BY <1>0
<1>9. KeptUntilItExpires' BY <1>0
<1>10. QED BY <1>1, <1>2, <1>3, <1>4, <1>5, <1>6, <1>7, <1>8, <1>9

LEMMA UploadKeeps == ASSUME ExportInv, NEW e \in Exporters, Upload(e) PROVE ExportInv'
<1> USE DEF ExportInv, Busy, GoTo, Owned, Trouble, Upload, Fails
<1>0. AttemptOf(e) \in Attempts /\ work[e] \in Tasks /\ held[e] \in Nat \ {0}
  BY AttemptExists
<1>1. ExportTypeOK'
  BY <1>0 DEF ExportTypeOK, Steps, AttemptIsNumbered, TokenIsTheLatest, EveryTakeoverHadACause, Attempts, AttemptNumbers
<1> USE DEF ExportTypeOK, AttemptIsNumbered, TokenIsTheLatest, AttemptHasOneExporter,
  EveryTakeoverHadACause, UploadIsCovered, AnswerNamesItsFile, NoFileIsForgotten,
  KeptUntilItExpires, Attempts, AttemptNumbers, AttemptOf
<1>2. AttemptIsNumbered' BY <1>0
<1>3. TokenIsTheLatest' BY <1>0
<1>4. AttemptHasOneExporter' BY <1>0
<1>5. EveryTakeoverHadACause' BY <1>0
<1>6. UploadIsCovered' BY <1>0
<1>7. AnswerNamesItsFile' BY <1>0
<1>8. NoFileIsForgotten' BY <1>0
<1>9. KeptUntilItExpires' BY <1>0
<1>10. QED BY <1>1, <1>2, <1>3, <1>4, <1>5, <1>6, <1>7, <1>8, <1>9

LEMMA PublishKeeps == ASSUME ExportInv, NEW e \in Exporters, Publish(e) PROVE ExportInv'
<1> USE DEF ExportInv, Busy, GoTo, Owned, Trouble, Publish, Retain, Rest
<1>0. AttemptOf(e) \in Attempts /\ work[e] \in Tasks /\ held[e] \in Nat \ {0}
  BY AttemptExists
<1>1. ExportTypeOK'
  BY <1>0 DEF ExportTypeOK, Steps, AttemptIsNumbered, TokenIsTheLatest, EveryTakeoverHadACause, Attempts, AttemptNumbers
<1> USE DEF ExportTypeOK, AttemptIsNumbered, TokenIsTheLatest, AttemptHasOneExporter,
  EveryTakeoverHadACause, UploadIsCovered, AnswerNamesItsFile, NoFileIsForgotten,
  KeptUntilItExpires, Attempts, AttemptNumbers, AttemptOf
<1>2. AttemptIsNumbered' BY <1>0
<1>3. TokenIsTheLatest' BY <1>0
<1>4. AttemptHasOneExporter' BY <1>0
<1>5. EveryTakeoverHadACause' BY <1>0
<1>6. UploadIsCovered' BY <1>0
<1>7. AnswerNamesItsFile' BY <1>0
<1>8. NoFileIsForgotten' BY <1>0
<1>9. KeptUntilItExpires' BY <1>0
<1>10. QED BY <1>1, <1>2, <1>3, <1>4, <1>5, <1>6, <1>7, <1>8, <1>9

LEMMA SupersededKeeps == ASSUME ExportInv, NEW e \in Exporters, Superseded(e) PROVE ExportInv'
<1> USE DEF ExportInv, Busy, GoTo, Owned, Trouble, Superseded, Fails
<1>0. AttemptOf(e) \in Attempts /\ work[e] \in Tasks /\ held[e] \in Nat \ {0}
  BY AttemptExists
<1>1. ExportTypeOK'
  BY <1>0 DEF ExportTypeOK, Steps, AttemptIsNumbered, TokenIsTheLatest, EveryTakeoverHadACause, Attempts, AttemptNumbers
<1> USE DEF ExportTypeOK, AttemptIsNumbered, TokenIsTheLatest, AttemptHasOneExporter,
  EveryTakeoverHadACause, UploadIsCovered, AnswerNamesItsFile, NoFileIsForgotten,
  KeptUntilItExpires, Attempts, AttemptNumbers, AttemptOf
<1>2. AttemptIsNumbered' BY <1>0
<1>3. TokenIsTheLatest' BY <1>0
<1>4. AttemptHasOneExporter' BY <1>0
<1>5. EveryTakeoverHadACause' BY <1>0
<1>6. UploadIsCovered' BY <1>0
<1>7. AnswerNamesItsFile' BY <1>0
<1>8. NoFileIsForgotten' BY <1>0
<1>9. KeptUntilItExpires' BY <1>0
<1>10. QED BY <1>1, <1>2, <1>3, <1>4, <1>5, <1>6, <1>7, <1>8, <1>9

LEMMA DiscardKeeps == ASSUME ExportInv, NEW e \in Exporters, Discard(e) PROVE ExportInv'
<1> USE DEF ExportInv, Busy, GoTo, Owned, Trouble, Discard
<1>0. AttemptOf(e) \in Attempts /\ work[e] \in Tasks /\ held[e] \in Nat \ {0}
  BY AttemptExists
<1>1. ExportTypeOK'
  BY <1>0, SMTT(60) DEF ExportTypeOK, Steps, AttemptIsNumbered, TokenIsTheLatest, EveryTakeoverHadACause, Attempts, AttemptNumbers
<1>8. NoFileIsForgotten'
  BY <1>0 DEF NoFileIsForgotten, ExportTypeOK
<1> USE DEF ExportTypeOK, AttemptIsNumbered, TokenIsTheLatest, AttemptHasOneExporter,
  EveryTakeoverHadACause, UploadIsCovered, AnswerNamesItsFile, NoFileIsForgotten,
  KeptUntilItExpires, Attempts, AttemptNumbers, AttemptOf
<1>2. AttemptIsNumbered' BY <1>0
<1>3. TokenIsTheLatest' BY <1>0
<1>4. AttemptHasOneExporter' BY <1>0
<1>5. EveryTakeoverHadACause' BY <1>0
<1>6. UploadIsCovered' BY <1>0
<1>7. AnswerNamesItsFile' BY <1>0
<1>9. KeptUntilItExpires' BY <1>0
<1>10. QED BY <1>1, <1>2, <1>3, <1>4, <1>5, <1>6, <1>7, <1>8, <1>9

LEMMA RecordDiscardKeeps == ASSUME ExportInv, NEW e \in Exporters, RecordDiscard(e) PROVE ExportInv'
<1> USE DEF ExportInv, Busy, GoTo, Owned, Trouble, RecordDiscard
<1>0. AttemptOf(e) \in Attempts /\ work[e] \in Tasks /\ held[e] \in Nat \ {0}
  BY AttemptExists
<1>1. ExportTypeOK'
  BY <1>0 DEF ExportTypeOK, Steps, AttemptIsNumbered, TokenIsTheLatest, EveryTakeoverHadACause, Attempts, AttemptNumbers
<1> USE DEF ExportTypeOK, AttemptIsNumbered, TokenIsTheLatest, AttemptHasOneExporter,
  EveryTakeoverHadACause, UploadIsCovered, AnswerNamesItsFile, NoFileIsForgotten,
  KeptUntilItExpires, Attempts, AttemptNumbers, AttemptOf
<1>2. AttemptIsNumbered' BY <1>0
<1>3. TokenIsTheLatest' BY <1>0
<1>4. AttemptHasOneExporter' BY <1>0
<1>5. EveryTakeoverHadACause' BY <1>0
<1>6. UploadIsCovered' BY <1>0
<1>7. AnswerNamesItsFile' BY <1>0
<1>8. NoFileIsForgotten' BY <1>0
<1>9. KeptUntilItExpires' BY <1>0
<1>10. QED BY <1>1, <1>2, <1>3, <1>4, <1>5, <1>6, <1>7, <1>8, <1>9

LEMMA FailTaskKeeps == ASSUME ExportInv, NEW e \in Exporters, FailTask(e) PROVE ExportInv'
<1> USE DEF ExportInv, Busy, GoTo, Owned, Trouble, FailTask, Rest
<1>0. AttemptOf(e) \in Attempts /\ work[e] \in Tasks /\ held[e] \in Nat \ {0}
  BY AttemptExists
<1>1. ExportTypeOK'
  BY <1>0 DEF ExportTypeOK, Steps, AttemptIsNumbered, TokenIsTheLatest, EveryTakeoverHadACause, Attempts, AttemptNumbers
<1> USE DEF ExportTypeOK, AttemptIsNumbered, TokenIsTheLatest, AttemptHasOneExporter,
  EveryTakeoverHadACause, UploadIsCovered, AnswerNamesItsFile, NoFileIsForgotten,
  KeptUntilItExpires, Attempts, AttemptNumbers, AttemptOf
<1>2. AttemptIsNumbered' BY <1>0
<1>3. TokenIsTheLatest' BY <1>0
<1>4. AttemptHasOneExporter' BY <1>0
<1>5. EveryTakeoverHadACause' BY <1>0, SMTT(60)
<1>6. UploadIsCovered' BY <1>0
<1>7. AnswerNamesItsFile' BY <1>0
<1>8. NoFileIsForgotten' BY <1>0
<1>9. KeptUntilItExpires' BY <1>0
<1>10. QED BY <1>1, <1>2, <1>3, <1>4, <1>5, <1>6, <1>7, <1>8, <1>9

LEMMA HeartbeatKeeps == ASSUME ExportInv, NEW e \in Exporters, Heartbeat(e) PROVE ExportInv'
<1> USE DEF ExportInv, Busy, GoTo, Owned, Trouble, Heartbeat, Renewed, Fails
<1>0. AttemptOf(e) \in Attempts /\ work[e] \in Tasks /\ held[e] \in Nat \ {0}
  BY AttemptExists
<1>a. lease' \in [Tasks -> BOOLEAN] BY <1>0 DEF ExportTypeOK
<1>b. step' \in [Exporters -> Steps] /\ UNCHANGED <<work, held>> BY <1>0 DEF ExportTypeOK, Steps
<1>1. ExportTypeOK'
  BY <1>a, <1>b DEF ExportTypeOK
<1> USE DEF ExportTypeOK, AttemptIsNumbered, TokenIsTheLatest, AttemptHasOneExporter,
  EveryTakeoverHadACause, UploadIsCovered, AnswerNamesItsFile, NoFileIsForgotten,
  KeptUntilItExpires, Attempts, AttemptNumbers, AttemptOf
<1>2. AttemptIsNumbered' BY <1>0
<1>3. TokenIsTheLatest' BY <1>0
<1>4. AttemptHasOneExporter' BY <1>0
<1>5. EveryTakeoverHadACause' BY <1>0
<1>6. UploadIsCovered' BY <1>0
<1>7. AnswerNamesItsFile' BY <1>0
<1>8. NoFileIsForgotten' BY <1>0
<1>9. KeptUntilItExpires' BY <1>0
<1>10. QED BY <1>1, <1>2, <1>3, <1>4, <1>5, <1>6, <1>7, <1>8, <1>9

LEMMA BuildFailsKeeps == ASSUME ExportInv, NEW e \in Exporters, BuildFails(e) PROVE ExportInv'
<1> USE DEF ExportInv, Busy, GoTo, Owned, Trouble, BuildFails, Fails
<1>0. AttemptOf(e) \in Attempts /\ work[e] \in Tasks /\ held[e] \in Nat \ {0}
  BY AttemptExists
<1>1. ExportTypeOK'
  BY <1>0 DEF ExportTypeOK, Steps, AttemptIsNumbered, TokenIsTheLatest, EveryTakeoverHadACause, Attempts, AttemptNumbers
<1> USE DEF ExportTypeOK, AttemptIsNumbered, TokenIsTheLatest, AttemptHasOneExporter,
  EveryTakeoverHadACause, UploadIsCovered, AnswerNamesItsFile, NoFileIsForgotten,
  KeptUntilItExpires, Attempts, AttemptNumbers, AttemptOf
<1>2. AttemptIsNumbered' BY <1>0
<1>3. TokenIsTheLatest' BY <1>0
<1>4. AttemptHasOneExporter' BY <1>0
<1>5. EveryTakeoverHadACause' BY <1>0
<1>6. UploadIsCovered' BY <1>0
<1>7. AnswerNamesItsFile' BY <1>0
<1>8. NoFileIsForgotten' BY <1>0
<1>9. KeptUntilItExpires' BY <1>0
<1>10. QED BY <1>1, <1>2, <1>3, <1>4, <1>5, <1>6, <1>7, <1>8, <1>9

LEMMA ExporterCrashKeeps == ASSUME ExportInv, NEW e \in Exporters, ExporterCrash(e) PROVE ExportInv'
<1> USE DEF ExportInv, Busy, GoTo, Owned, Trouble, ExporterCrash, Rest
<1>0. AttemptOf(e) \in Attempts /\ work[e] \in Tasks /\ held[e] \in Nat \ {0}
  BY AttemptExists
<1>1. ExportTypeOK'
  BY <1>0 DEF ExportTypeOK, Steps, AttemptIsNumbered, TokenIsTheLatest, EveryTakeoverHadACause, Attempts, AttemptNumbers
<1> USE DEF ExportTypeOK, AttemptIsNumbered, TokenIsTheLatest, AttemptHasOneExporter,
  EveryTakeoverHadACause, UploadIsCovered, AnswerNamesItsFile, NoFileIsForgotten,
  KeptUntilItExpires, Attempts, AttemptNumbers, AttemptOf
<1>2. AttemptIsNumbered' BY <1>0
<1>3. TokenIsTheLatest' BY <1>0
<1>4. AttemptHasOneExporter' BY <1>0
<1>5. EveryTakeoverHadACause' BY <1>0
<1>6. UploadIsCovered' BY <1>0
<1>7. AnswerNamesItsFile' BY <1>0
<1>8. NoFileIsForgotten' BY <1>0
<1>9. KeptUntilItExpires' BY <1>0
<1>10. QED BY <1>1, <1>2, <1>3, <1>4, <1>5, <1>6, <1>7, <1>8, <1>9

-----------------------------------------------------------------------------
\* The cleanup job and the clock.

LEMMA CleanUpKeeps == ASSUME ExportInv, NEW a \in Attempts, CleanUp(a) PROVE ExportInv'
<1>0. /\ UNCHANGED <<task, token, lastToken, lease, object, expiry, step, work, held>>
      /\ stored' \subseteq stored
      /\ cleanup' \in {cleanup, [cleanup EXCEPT ![a] = "DELETED"], [cleanup EXCEPT ![a] = "FAILED"]}
      /\ due' \in {due, [due EXCEPT ![a] = 1]}
      /\ trouble' = trouble \/ (trouble < MaxTrouble /\ trouble' = trouble + 1)
  BY DEF CleanUp, Trouble, taskVars, exporterVars
<1>1. ExportTypeOK'
  <2> USE DEF ExportInv, ExportTypeOK
  <2>1. cleanup' \in [Attempts -> {"NONE", "PENDING", "FAILED", "DELETED"}] BY <1>0
  <2>2. due' \in [Attempts -> Nat] BY <1>0
  <2>3. trouble' \in 0..MaxTrouble BY <1>0
  <2>4. stored' \subseteq Attempts BY <1>0
  <2>5. QED BY <1>0, <2>1, <2>2, <2>3, <2>4
<1> USE DEF ExportInv, Busy, GoTo, Owned, Trouble, CleanUp, CleanupDue
<1> USE DEF ExportTypeOK, AttemptIsNumbered, TokenIsTheLatest, AttemptHasOneExporter,
  EveryTakeoverHadACause, UploadIsCovered, AnswerNamesItsFile, NoFileIsForgotten,
  KeptUntilItExpires, Attempts, AttemptNumbers, AttemptOf
<1>2. AttemptIsNumbered' OBVIOUS
<1>3. TokenIsTheLatest' OBVIOUS
<1>4. AttemptHasOneExporter' OBVIOUS
<1>5. EveryTakeoverHadACause' OBVIOUS
<1>6. UploadIsCovered' OBVIOUS
<1>7. AnswerNamesItsFile' OBVIOUS
<1>8. NoFileIsForgotten' OBVIOUS
<1>9. KeptUntilItExpires' OBVIOUS
<1>10. QED BY <1>1, <1>2, <1>3, <1>4, <1>5, <1>6, <1>7, <1>8, <1>9

LEMMA TickKeeps == ASSUME ExportInv, Tick PROVE ExportInv'
<1> USE DEF ExportInv, Busy, GoTo, Owned, Trouble, Tick, UploadsWithinTheDelay, Uploading, Leasing, Beating, Less
<1>0. lease' \in [Tasks -> BOOLEAN]
  <2>1. PICK renewed \in SUBSET Beating : lease' = [t \in Tasks |-> \E e \in renewed : work[e] = t]
    BY Zenon
  <2>2. \A t \in Tasks : (\E e \in renewed : work[e] = t) \in BOOLEAN BY Zenon
  <2>3. QED BY <2>1, <2>2, Zenon
<1>1. ExportTypeOK'
  BY <1>0 DEF ExportTypeOK
<1> USE DEF ExportTypeOK, AttemptIsNumbered, TokenIsTheLatest, AttemptHasOneExporter,
  EveryTakeoverHadACause, UploadIsCovered, AnswerNamesItsFile, NoFileIsForgotten,
  KeptUntilItExpires, Attempts, AttemptNumbers, AttemptOf
<1>2. AttemptIsNumbered' OBVIOUS
<1>3. TokenIsTheLatest' OBVIOUS
<1>4. AttemptHasOneExporter' OBVIOUS
<1>5. EveryTakeoverHadACause' OBVIOUS
<1>6. UploadIsCovered' OBVIOUS
<1>7. AnswerNamesItsFile' OBVIOUS
<1>8. NoFileIsForgotten' OBVIOUS
<1>9. KeptUntilItExpires' OBVIOUS
<1>10. QED BY <1>1, <1>2, <1>3, <1>4, <1>5, <1>6, <1>7, <1>8, <1>9

-----------------------------------------------------------------------------
\* A step that changes nothing.
LEMMA ExportStutters == ASSUME ExportInv, UNCHANGED exportVars PROVE ExportInv'
BY DEF exportVars, ExportInv, ExportTypeOK, AttemptIsNumbered, TokenIsTheLatest,
  AttemptHasOneExporter, EveryTakeoverHadACause, UploadIsCovered, AnswerNamesItsFile,
  NoFileIsForgotten, KeptUntilItExpires, Busy, AttemptOf

\* Every step keeps the invariant.
LEMMA ExportSteps == ASSUME ExportInv, [ExportNext]_exportVars PROVE ExportInv'
BY RequestExportKeeps, ClaimExportKeeps, PersistIntentKeeps, StartUploadKeeps, UploadKeeps,
  PublishKeeps, SupersededKeeps, DiscardKeeps, RecordDiscardKeeps, FailTaskKeeps,
  HeartbeatKeeps, BuildFailsKeeps, ExporterCrashKeeps, CleanUpKeeps, TickKeeps,
  ExportStutters DEF ExportNext, Progress

\* The inductive invariant holds in every reachable state.
LEMMA ExportInvariant == ExportSpec => []ExportInv
BY ExportStarts, ExportSteps, PTL DEF ExportSpec

-----------------------------------------------------------------------------
\* Tasks, files and workers have their types in every reachable state; no task has
\* more attempts than there was trouble, and one.
THEOREM ExportTypeCorrect == ExportSpec => []ExportTypeOK
<1>1. ExportInv => ExportTypeOK BY DEF ExportInv
<1>2. QED BY <1>1, ExportInvariant, PTL

\* For any number of tasks, workers and faults: every stored file has an open row
\* that will delete it.
THEOREM EveryFileHasItsRow == ExportSpec => []NoFileIsForgotten
<1>1. ExportInv => NoFileIsForgotten BY DEF ExportInv
<1>2. QED BY <1>1, ExportInvariant, PTL

\* For any number of tasks, workers and faults: a download within the retention
\* period finds its file.
THEOREM DownloadFindsTheFile == ExportSpec => []PublishedFileIsThere
<1>1. ExportInv => PublishedFileIsThere
  BY DEF ExportInv, KeptUntilItExpires, PublishedFileIsThere
<1>2. QED BY <1>1, ExportInvariant, PTL

-----------------------------------------------------------------------------
\* The refinement of the promise: its initial states, and every step.

\* What requesters see.
SeenNow == [t \in Tasks |-> Seen(t)]

\* No request was made at first.
LEMMA PromiseStarts == ASSUME ExportInit PROVE Promise!Init
BY DEF ExportInit, Promise!Init, Seen

\* A step that changes neither tasks nor files is none of the promise.
LEMMA UnseenStep ==
  ASSUME UNCHANGED <<task, object, stored, expiry>>
  PROVE  UNCHANGED Promise!vars
BY DEF Promise!vars, Seen

\* A step of one task that changes no file.
LEMMA StepOfOneTask ==
  ASSUME NEW t \in Tasks, \A u \in Tasks \ {t} : task'[u] = task[u] /\ object'[u] = object[u],
         UNCHANGED stored
  PROVE  SeenNow' = [SeenNow EXCEPT ![t] = Seen(t)']
BY DEF SeenNow, Seen

\* A file that answers no task may come and go.
LEMMA StepOfAnAttempt ==
  ASSUME ExportInv, UNCHANGED <<task, object, expiry>>, NEW e \in Exporters, Busy(e),
         \A a \in Attempts : a # AttemptOf(e) => (a \in stored' <=> a \in stored)
  PROVE  UNCHANGED Promise!vars
<1>1. \A t \in Tasks : task[t] = "COMPLETED" => <<t, object[t]>> # AttemptOf(e)
  BY DEF ExportInv, AnswerNamesItsFile, AttemptOf
<1>2. \A t \in Tasks : task[t] = "COMPLETED" => <<t, object[t]>> \in Attempts
  BY DEF ExportInv, ExportTypeOK, TokenIsTheLatest, Attempts, AttemptNumbers
<1>3. \A t \in Tasks : Seen(t)' = Seen(t)
  BY <1>1, <1>2 DEF Seen, ActiveStatuses, ExportInv, ExportTypeOK
<1>4. QED BY <1>3 DEF Promise!vars

\* Every step of the worker, the cleanup and the clock is one the requester was
\* promised, or none.
LEMMA ExportStepsKeepThePromise ==
  ASSUME ExportInv, [ExportNext]_exportVars PROVE [Promise!Next]_(Promise!vars)
<1> USE DEF ExportInv, ExportTypeOK
<1>1. CASE UNCHANGED exportVars BY <1>1, UnseenStep DEF exportVars
<1>2. ASSUME NEW t \in Tasks, RequestExport(t) PROVE Promise!Ask(t)
  <2>1. Seen(t) = "none" /\ Seen(t)' = "waiting" /\ UNCHANGED expiry
    BY <1>2 DEF RequestExport, Seen, ActiveStatuses
  <2>2. SeenNow' = [SeenNow EXCEPT ![t] = Seen(t)'] BY <1>2, StepOfOneTask DEF RequestExport
  <2>3. QED BY <2>1, <2>2 DEF Promise!Ask, SeenNow
<1>3. ASSUME NEW e \in Exporters, NEW t \in Tasks, ClaimExport(e, t) PROVE UNCHANGED Promise!vars
  <2>1. Seen(t) = "waiting" /\ Seen(t)' = "waiting" /\ UNCHANGED expiry
    BY <1>3 DEF ClaimExport, Seen, ActiveStatuses
  <2>2. \A u \in Tasks \ {t} : Seen(u)' = Seen(u) BY <1>3 DEF ClaimExport, Seen
  <2>3. QED BY <2>1, <2>2 DEF Promise!vars
<1>4. ASSUME NEW e \in Exporters,
             PersistIntent(e) \/ StartUpload(e) \/ Superseded(e) \/ RecordDiscard(e)
               \/ Heartbeat(e) \/ BuildFails(e) \/ ExporterCrash(e)
      PROVE  UNCHANGED Promise!vars
  BY <1>4, UnseenStep DEF PersistIntent, StartUpload, Superseded, RecordDiscard, Heartbeat,
    BuildFails, ExporterCrash, Renewed
<1>5. ASSUME NEW e \in Exporters, Upload(e) \/ Discard(e) PROVE UNCHANGED Promise!vars
  <2>1. UNCHANGED <<task, object, expiry>> /\ Busy(e) BY <1>5 DEF Upload, Discard, Busy
  <2>2. \A a \in Attempts : a # AttemptOf(e) => (a \in stored' <=> a \in stored)
    BY <1>5 DEF Upload, Discard
  <2>3. QED BY <2>1, <2>2, StepOfAnAttempt
<1>6. ASSUME NEW e \in Exporters, Publish(e) PROVE \E t \in Tasks : Promise!Deliver(t)
  <2>1. PICK t \in Tasks : t = work[e] BY <1>6, AttemptExists DEF Publish, Busy
  <2>2. <<t, held[e]>> \in stored BY <2>1, <1>6 DEF Publish, UploadIsCovered, AttemptOf
  <2>3. Seen(t) = "waiting" BY <1>6, <2>1 DEF Publish, Owned, Seen, ActiveStatuses
  <2>4. task'[t] = "COMPLETED" /\ object'[t] = held[e] /\ stored' = stored
    BY <1>6, <2>1 DEF Publish
  <2>5. Seen(t)' = "ready" BY <2>2, <2>4 DEF Seen, ActiveStatuses
  <2>6. SeenNow' = [SeenNow EXCEPT ![t] = Seen(t)']
    BY <1>6, <2>1, StepOfOneTask DEF Publish
  <2>7. expiry' = [expiry EXCEPT ![t] = Retention] BY <1>6, <2>1 DEF Publish
  <2>8. QED BY <2>1, <2>3, <2>5, <2>6, <2>7 DEF Promise!Deliver, SeenNow
<1>7. ASSUME NEW e \in Exporters, FailTask(e)
      PROVE  (\E t \in Tasks : Promise!Refuse(t)) \/ UNCHANGED Promise!vars
  <2>1. PICK t \in Tasks : t = work[e] BY <1>7, AttemptExists DEF FailTask, Busy
  <2>2. CASE Owned(e)
    <3>1. Seen(t) = "waiting" /\ Seen(t)' = "refused"
      BY <1>7, <2>1, <2>2 DEF FailTask, Owned, Seen, ActiveStatuses
    <3>2. SeenNow' = [SeenNow EXCEPT ![t] = Seen(t)'] /\ UNCHANGED expiry
      BY <1>7, <2>1, StepOfOneTask DEF FailTask
    <3>3. QED BY <2>1, <3>1, <3>2 DEF Promise!Refuse, SeenNow
  <2>3. CASE ~Owned(e) BY <1>7, <2>3, UnseenStep DEF FailTask
  <2>4. QED BY <2>2, <2>3
<1>8. ASSUME NEW a \in Attempts, CleanUp(a)
      PROVE  (\E t \in Tasks : Promise!Destroy(t)) \/ UNCHANGED Promise!vars
  <2>1. a = <<a[1], a[2]>> /\ a[1] \in Tasks BY DEF Attempts
  <2>2. UNCHANGED <<task, object, expiry>> /\ due[a] = 0 BY <1>8 DEF CleanUp, CleanupDue
  <2>3. \A b \in Attempts \ {a} : b \in stored' <=> b \in stored BY <1>8 DEF CleanUp
  <2>4. \A u \in Tasks \ {a[1]} : Seen(u)' = Seen(u)
    <3>1. \A u \in Tasks \ {a[1]} : <<u, object[u]>> # a BY <2>1
    <3>2. \A u \in Tasks : <<u, object[u]>> \in stored \/ <<u, object[u]>> \in stored'
            => <<u, object[u]>> \in Attempts
      BY <1>8 DEF CleanUp
    <3>3. QED BY <2>2, <2>3, <3>1, <3>2 DEF Seen, ActiveStatuses
  <2>5. CASE Seen(a[1])' = Seen(a[1])
    BY <2>2, <2>4, <2>5 DEF Promise!vars
  <2>6. CASE Seen(a[1])' # Seen(a[1])
    <3>1. task[a[1]] = "COMPLETED" /\ Seen(a[1]) = "ready" /\ Seen(a[1])' = "destroyed"
      BY <1>8, <2>1, <2>2, <2>6 DEF Seen, ActiveStatuses, CleanUp
    <3>2. object[a[1]] = a[2]
      BY <1>8, <2>1, <2>2, <2>3, <2>6, <3>1 DEF Seen, ActiveStatuses, CleanUp
    <3>3. expiry[a[1]] = 0 BY <2>1, <2>2, <3>1, <3>2 DEF KeptUntilItExpires
    <3>4. SeenNow' = [SeenNow EXCEPT ![a[1]] = "destroyed"]
      BY <2>4, <3>1 DEF SeenNow
    <3>5. QED BY <2>1, <2>2, <3>1, <3>3, <3>4 DEF Promise!Destroy, SeenNow
  <2>7. QED BY <2>5, <2>6
<1>9. ASSUME Tick PROVE Promise!Age
  <2>1. \A t \in Tasks : Seen(t)' = Seen(t) BY <1>9 DEF Tick, Seen
  <2>2. QED BY <1>9, <2>1 DEF Promise!Age, Tick, Less
<1>10. QED
  BY <1>1, <1>2, <1>3, <1>4, <1>5, <1>6, <1>7, <1>8, <1>9
  DEF ExportNext, Progress, Promise!Next

\* For any number of tasks, workers and faults a task is answered once, its answer
\* stands, and its file is neither destroyed before its time nor comes back.  What
\* the promise says about eventual answers is left to the model checker.
THEOREM ExportIsAsPromised == ExportSpec => Promise!Init /\ [][Promise!Next]_(Promise!vars)
<1>1. ASSUME ExportInit PROVE Promise!Init BY <1>1, PromiseStarts
<1>2. QED BY <1>1, ExportStepsKeepThePromise, ExportInvariant, PTL DEF ExportSpec
=============================================================================
