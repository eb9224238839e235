-------------------------- MODULE MCIndependentParts --------------------------
(***************************************************************************)
(* Small instances of the parts that share neither rows nor locks with each *)
(* other: NotificationOutbox, LeadExport, ReturnEvidence, KeyedRequests and *)
(* ClaimFlight.  The run looks at them one at a time: the first state       *)
(* chooses the scene and the other parts stand still.                       *)
(***************************************************************************)
EXTENDS NotificationOutbox, LeadExport, ReturnEvidence, KeyedRequests, ClaimFlight, TLC

CONSTANTS n1, n2, l1, i1, t1, t2, u1, g1, a1, c1, c2, c3, c4, p1, p2, k1, x1, f1, f2, f3, f4, w1, w2

\* n1 is about a lead, n2 about an invitation.
MCSubjectOf == [r \in Rows |-> IF r = n1 THEN l1 ELSE i1]

\* One user asks for everything.
MCRequesterOf == [t \in Tasks |-> u1]

\* One key: in one process the quick dispatch c1, its repetition c2 and a dispatch
\* from the pool, c3; in the other a quick dispatch with another body, c4.
MCProcessOf == [c \in Calls |-> IF c = c4 THEN p2 ELSE p1]
MCKeyOf == [c \in Calls |-> k1]
MCKindOf == [c \in Calls |-> IF c = c3 THEN "dispatch" ELSE "quick"]
MCLeadOf == [c \in Calls |-> x1]
MCBodyOf == [c \in Calls |-> IF c = c4 THEN "another" ELSE "first"]

\* One quote in one process by f1, f2, f3, and f4 without a quote in the other.
MCServerOf == [c \in Claims |-> IF c = f4 THEN w2 ELSE w1]
MCQuoteOf == [c \in Claims |-> IF c = f4 THEN Unquoted ELSE 1]

VARIABLE scene

NoticeScenes == {"lead", "invitation"}
ExportScenes == {"export", "exports"}
KeyScenes == {"repeated", "crossed"}
ClaimScenes == {"crowd", "price", "servers"}

\* Two exports together see one fault, a single one two; the notice about a lead two
\* and the one about an invitation one.
OnStage ==
  CASE scene = "lead" -> {n1} [] scene = "invitation" -> {n2}
    [] scene = "export" -> {t1} [] scene = "exports" -> {t1, t2}
    [] scene = "repeated" -> {c1, c2, c3} [] scene = "crossed" -> {c1, c3, c4}
    [] scene = "crowd" -> {f1, f2, f3} [] scene = "price" -> {f1, f2}
    [] scene = "servers" -> {f1, f4} [] scene = "return" -> {}

Init ==
  /\ OutboxInit /\ ExportInit /\ EvidenceInit /\ KeyedInit /\ ClaimInit
  /\ scene \in NoticeScenes \cup ExportScenes \cup KeyScenes \cup ClaimScenes \cup {"return"}
  /\ trouble = IF scene = "exports" THEN 1 ELSE 0
  /\ assignee = Owner
  /\ price = 1 /\ (scene # "price" => funds)

\* An employee takes a reopened request over, the window ends and the lead is deleted
\* while these can meet the material; the second verification keeps a new snapshot; the agents
\* are alike until the first has been assigned, the contents until the first file.
ReturnStep ==
  /\ EvidenceNext
  /\ assignee' # assignee => application = "DRAFT" /\ checks # <<>>
  /\ windowOver' # windowOver => application = "DRAFT"
  /\ leadErased' # leadErased => application \in {"DRAFT", "REVIEWING", "NEED_MORE"}
  /\ files = <<>> /\ files' # <<>> => files'[1].content = a1
  /\ \A t \in DOMAIN checks' :
       /\ t > 1 /\ checks'[t].status = "SUBMITTED" => checks'[t].kept = checks'[t].told
       /\ t = 1 /\ checks # <<>> /\ checks[1].by = NoOne => checks'[1].by \in {NoOne, g1}

\* The calls of one process and quote come in their order; three of them see the
\* round end; two the price rise and the points arrive; calls in two processes see
\* one of them die.
ClaimStep ==
  /\ ClaimNext
  /\ \A c \in Claims : leg'[c] = "new" \/ c \in OnStage
  /\ leg'[f2] # "new" => leg[f1] # "new"
  /\ leg'[f3] # "new" => leg[f2] # "new"
  /\ price' >= price
  /\ scene = "crowd" => price' = price /\ funds'
  /\ scene = "price" => round' # "OVER"
  /\ funds' # funds => scene = "price" /\ funds'
  /\ \A c \in Claims : leg'[c] = "lost" => scene = "servers"

Next ==
  /\ UNCHANGED scene
  /\ \/ /\ scene \in NoticeScenes
        /\ OutboxNext
        /\ \A r \in Rows : row'[r] = "NONE" \/ r \in OnStage
        /\ \A s \in gone' : \E r \in OnStage : SubjectOf[r] = s
        /\ scene = "invitation" => faults' <= 1
        /\ UNCHANGED <<exportVars, evidenceVars, keyedVars, claimVars>>
     \/ /\ scene \in ExportScenes
        /\ ExportNext
        /\ \A t \in Tasks : task'[t] = "NONE" \/ t \in OnStage
        /\ UNCHANGED <<outboxVars, evidenceVars, keyedVars, claimVars>>
     \/ /\ scene = "return" /\ ReturnStep
        /\ UNCHANGED <<outboxVars, exportVars, keyedVars, claimVars>>
     \/ /\ scene \in KeyScenes
        /\ KeyedNext
        /\ \A c \in Calls : stage'[c] = "new" \/ c \in OnStage
        /\ UNCHANGED <<outboxVars, exportVars, evidenceVars, claimVars>>
     \/ /\ scene \in ClaimScenes /\ ClaimStep
        /\ UNCHANGED <<outboxVars, exportVars, evidenceVars, keyedVars>>

Spec ==
  /\ Init /\ [][Next]_<<scene, outboxVars, exportVars, evidenceVars, keyedVars, claimVars>>
  /\ OutboxFairness /\ ExportFairness
=============================================================================
