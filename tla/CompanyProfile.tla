--------------------------- MODULE CompanyProfile ---------------------------
(***************************************************************************)
(* What a company may receive: its service areas and its receiving         *)
(* capability, requested by the company, decided by the platform, and      *)
(* asked by the dispatch of a lead (company_profile_v12.py,                *)
(* company_service.py, dispatch_v12.py, routers/v12_lead_supply.py).       *)
(*                                                                         *)
(* No handler here locks a row: it reads the rows of the company, decides, *)
(* and at its commit writes the columns it has changed.  A request is      *)
(* therefore two steps, the reading and the commit.                        *)
(***************************************************************************)
EXTENDS Naturals, FiniteSets

CONSTANTS
  Firms,          \* companies
  Regions,        \* codes of regions
  Level,          \* Level[r]: "CITY", "DISTRICT" or "TOWNSHIP"
  Parent,         \* Parent[r]: the region above, "none" for a city
  Offices         \* requests in progress at a time

ASSUME ProfileAssumption ==
  /\ IsFiniteSet(Regions) /\ "receiver" \notin Regions /\ "none" \notin Regions
  /\ Level \in [Regions -> {"CITY", "DISTRICT", "TOWNSHIP"}]
  /\ Parent \in [Regions -> Regions \cup {"none"}]
  /\ \A r \in Regions : Level[r] # "CITY" => Parent[r] \in Regions

VARIABLES
  known,          \* regions that have a row
  firm,           \* firm[k]: "NONE", "ACTIVE" or "DISABLED"
  entry,          \* entry[k][i]: the row of area i, or of the capability
  legacy,         \* legacy[k]: what the tables of version 1.0 hold as active
  office,         \* office[o]: the request of o
  granted,        \* history: what the platform decided to give k
  crossed,        \* history: rows of k that were written over a change in between
  byHand          \* history: companies whose tables of version 1.0 were set directly

profileVars == <<known, firm, entry, legacy, office, granted, crossed, byHand>>

-----------------------------------------------------------------------------
\* A row for every service area, and one for the capability LEAD_RECEIVER.
Items == Regions \cup {"receiver"}

\* removal: the note of the row asks for the removal of the area.
NoRow == [status |-> "NONE", active |-> FALSE, removal |-> FALSE]
Row == [status : {"NONE", "PENDING", "APPROVED", "REJECTED"}, active : BOOLEAN, removal : BOOLEAN]
Opened == [status |-> "APPROVED", active |-> TRUE, removal |-> FALSE]
Applied == [status |-> "PENDING", active |-> FALSE, removal |-> FALSE]

Quiet == [kind |-> "none"]
Request ==
  [kind : {"replace", "configure"}, of : Firms, want : SUBSET Regions,
   saw : [Items -> Row], new : SUBSET Regions]
  \cup [kind : {"review", "set"}, of : Firms, item : Items, yes : BOOLEAN, saw : [Items -> Row]]
  \cup [kind : {"request", "approveAll"}, of : Firms, saw : [Items -> Row]]

Ancestors(r) == {Parent[r], IF Parent[r] \in Regions THEN Parent[Parent[r]] ELSE "none"} \ {"none"}

\* materialize_nationwide_regions: townships have their rows from the master data.
Missing(W) == {r \in W \cup UNION {Ancestors(q) : q \in W} : Level[r] # "TOWNSHIP"} \ known

\* What can be asked for: regions of the snapshot, and townships that have a row.
Selections == {W \in SUBSET Regions : W # {} /\ \A r \in W : Level[r] = "TOWNSHIP" => r \in known}

ProfileInit ==
  /\ known \in {K \in SUBSET Regions : \A r \in K : Ancestors(r) \subseteq K}
  /\ firm = [k \in Firms |-> "NONE"]
  /\ entry = [k \in Firms |-> [i \in Items |-> NoRow]]
  /\ legacy = [k \in Firms |-> {}]
  /\ office = [o \in Offices |-> Quiet]
  /\ granted = [k \in Firms |-> {}] /\ crossed = [k \in Firms |-> {}]
  /\ byHand = {}

-----------------------------------------------------------------------------
\* What the handlers make of the rows they have read.

Reapplied(row) == IF row.status = "APPROVED" /\ row.active THEN row ELSE Applied

\* review_service_area and review_capability: to approve a removal is to end the area.
Judged(row, yes) ==
  IF row.removal THEN [status |-> "APPROVED", active |-> ~yes, removal |-> FALSE]
  ELSE [status |-> IF yes THEN "APPROVED" ELSE "REJECTED", active |-> yes, removal |-> FALSE]

\* An area the company wants.  Fault: it is served at once.
WantedAtOnce(row) == Opened
Wanted(row) ==
  IF row.status = "NONE" THEN Applied
  ELSE IF row.removal /\ row.active THEN Opened
  ELSE IF row.status = "REJECTED" \/ (row.status = "APPROVED" /\ ~row.active) THEN Applied
  ELSE row

\* One it does not want any more: what is served stays so until the platform agrees.
Unwanted(row) ==
  IF row.active /\ row.status = "APPROVED" THEN [row EXCEPT !.status = "PENDING", !.removal = TRUE]
  ELSE IF ~(row.removal /\ row.active) /\ row.status = "PENDING" /\ ~row.active
       THEN [row EXCEPT !.status = "REJECTED", !.removal = FALSE]
  ELSE row

\* replace_service_areas
Replaced(saw, W) ==
  [i \in Items |-> IF i = "receiver" THEN saw[i]
                   ELSE IF i \in W THEN Wanted(saw[i]) ELSE Unwanted(saw[i])]

\* admin_configure_service_areas approves every row that is not open already.
Unsettled(rows) ==
  {r \in Regions : rows[r].status # "NONE" /\
     (rows[r].removal \/ rows[r].status # "APPROVED" \/ ~rows[r].active)}

\* approve_pending_profile leaves the requests for a removal alone.
Openings(rows) == {i \in Items : rows[i].status = "PENDING" /\ ~rows[i].removal}

\* The rows the platform decides on, and its word on each of them.
Decided(q) ==
  CASE q.kind = "review" -> {q.item}
    [] q.kind = "set" -> {"receiver"}
    [] q.kind = "approveAll" -> Openings(q.saw)
    [] q.kind = "configure" -> Unsettled(Replaced(q.saw, q.want))
    [] OTHER -> {}

\* The rows before the platform decides, and in the end.
Drafted(q) == IF q.kind \in {"replace", "configure"} THEN Replaced(q.saw, q.want)
              ELSE IF q.kind = "request" THEN [q.saw EXCEPT !["receiver"] = Reapplied(@)]
              ELSE q.saw
Word(q, i) == IF q.kind \in {"review", "set"} THEN q.yes ELSE TRUE
Outcome(q) ==
  [i \in Items |->
     IF i \notin Decided(q) THEN Drafted(q)[i]
     ELSE IF q.kind = "set" THEN [Opened EXCEPT !.active = q.yes]
     ELSE Judged(Drafted(q)[i], Word(q, i))]

\* The columns that changed are written.  A note may be rewritten where it changes
\* between notes that ask for nothing.
Written(now, before, after, noted) ==
  IF before.status = "NONE" THEN (IF after.status = "NONE" THEN now ELSE after)
  ELSE [status |-> IF after.status # before.status THEN after.status ELSE now.status,
        active |-> IF after.active # before.active THEN after.active ELSE now.active,
        removal |-> IF after.removal # before.removal \/ noted THEN after.removal ELSE now.removal]

-----------------------------------------------------------------------------
\* Requests.

Begin(o, q) ==
  /\ office[o] = Quiet /\ firm[q.of] # "NONE"
  /\ office' = [office EXCEPT ![o] = q]
  /\ UNCHANGED <<known, firm, entry, legacy, granted, crossed, byHand>>

\* request_capability, by the company
RequestCapability(o, k) ==
  /\ firm[k] = "ACTIVE"
  /\ Begin(o, [kind |-> "request", of |-> k, saw |-> entry[k]])

\* replace_own_service_areas by the company, admin_configure_service_areas by the platform
ReplaceAreas(o, k, W) ==
  /\ firm[k] = "ACTIVE" /\ W \in Selections
  /\ \E kind \in {"replace", "configure"} :
       Begin(o, [kind |-> kind, of |-> k, want |-> W, saw |-> entry[k], new |-> Missing(W)])

\* review_capability and review_service_area: the row must be there, in any status.
Review(o, k, i, yes) ==
  /\ entry[k][i].status # "NONE"
  /\ Begin(o, [kind |-> "review", of |-> k, item |-> i, yes |-> yes, saw |-> entry[k]])

\* configure_capability
ConfigureCapability(o, k, yes) ==
  /\ firm[k] = "ACTIVE"
  /\ Begin(o, [kind |-> "set", of |-> k, item |-> "receiver", yes |-> yes, saw |-> entry[k]])

\* approve_pending_profile
ApprovePending(o, k) ==
  /\ Openings(entry[k]) # {}
  /\ Begin(o, [kind |-> "approveAll", of |-> k, saw |-> entry[k]])

\* The commit.  A row that somebody else has inserted meanwhile makes it fail.
Commit(o) ==
  LET q == office[o]
      k == q.of
      draft == Drafted(q)
      after == Outcome(q)
      on == Decided(q)
      written == {i \in Items : after[i] # q.saw[i] \/ draft[i] # q.saw[i]} \cup on
      open == {i \in on : after[i].active}
      late == {i \in written : entry[k][i] # q.saw[i]}
      new == IF q.kind \in {"replace", "configure"} THEN q.new ELSE {}
  IN /\ q # Quiet
     /\ new \cap known = {}
     /\ \A i \in written : q.saw[i].status = "NONE" => entry[k][i].status = "NONE"
     /\ \E noted \in BOOLEAN :
          entry' = [entry EXCEPT ![k] = [i \in Items |->
            Written(Written(entry[k][i], q.saw[i], draft[i], noted /\ i \in written),
                    draft[i], after[i], noted /\ i \in on)]]
     /\ known' = known \cup new
     /\ legacy' = [legacy EXCEPT ![k] = (@ \ on) \cup open]
     /\ granted' = [granted EXCEPT ![k] = (@ \ on) \cup open]
     /\ crossed' = [crossed EXCEPT ![k] = (@ \ on) \cup late]
     /\ office' = [office EXCEPT ![o] = Quiet]
     /\ UNCHANGED <<firm, byHand>>

Abandon(o) ==
  /\ office[o] # Quiet
  /\ office' = [office EXCEPT ![o] = Quiet]
  /\ UNCHANGED <<known, firm, entry, legacy, granted, crossed, byHand>>

-----------------------------------------------------------------------------
\* The companies.

\* create_simple_company opens everything at once, in the tables of version 1.2 only.
CreateSimple(k, W) ==
  /\ firm[k] = "NONE" /\ W \in Selections
  /\ firm' = [firm EXCEPT ![k] = "ACTIVE"]
  /\ entry' = [entry EXCEPT ![k] = [i \in Items |-> IF i \in W \cup {"receiver"} THEN Opened ELSE NoRow]]
  /\ known' = known \cup Missing(W)
  /\ granted' = [granted EXCEPT ![k] = W \cup {"receiver"}]
  /\ UNCHANGED <<legacy, office, crossed, byHand>>

\* What is set directly: nothing, or everything.
Scopes == {{}, Items}

\* create_company, and update_company with a scope: the tables of version 1.0 only.
SetScope(k, S) ==
  /\ firm' = [firm EXCEPT ![k] = IF @ = "NONE" THEN "ACTIVE" ELSE @]
  /\ legacy' = [legacy EXCEPT ![k] = S]
  /\ byHand' = byHand \cup {k}
  /\ UNCHANGED <<known, entry, office, granted, crossed>>

\* update_company with a status
SetFirmStatus(k, s) ==
  /\ firm[k] # "NONE" /\ firm[k] # s
  /\ firm' = [firm EXCEPT ![k] = s]
  /\ UNCHANGED <<known, entry, legacy, office, granted, crossed, byHand>>

ProfileNext ==
  \/ \E o \in Offices :
       \/ Commit(o) \/ Abandon(o)
       \/ \E k \in Firms :
            \/ RequestCapability(o, k) \/ ApprovePending(o, k)
            \/ \E W \in SUBSET Regions : ReplaceAreas(o, k, W)
            \/ \E yes \in BOOLEAN : \/ ConfigureCapability(o, k, yes)
                                    \/ \E i \in Items : Review(o, k, i, yes)
  \/ \E k \in Firms :
       \/ \E W \in SUBSET Regions : CreateSimple(k, W)
       \/ \E S \in Scopes : SetScope(k, S)
       \/ \E s \in {"ACTIVE", "DISABLED"} : SetFirmStatus(k, s)

ProfileSpec == ProfileInit /\ [][ProfileNext]_profileVars

-----------------------------------------------------------------------------
\* Who receives a lead of region r, supplied by s ("none" for a lead of the platform).

\* _service_area_dispatchable.  Fault: an area ends when its removal is requested.
DispatchableUntilRequested(row) == row.status = "APPROVED"
Dispatchable(row) == row.status = "APPROVED" \/ (row.status = "PENDING" /\ row.removal)

Serves(k, r) == entry[k][r].active /\ Dispatchable(entry[k][r])

\* has_lead_capability
MayReceive(k) == entry[k]["receiver"].active /\ entry[k]["receiver"].status = "APPROVED"

\* _service_area_region_clause: the region, and what the table of regions knows above it.
Above(r) == IF r \in known THEN Parent[r] ELSE "none"
Clause(r) == {r, Above(r), IF Above(r) = "none" THEN "none" ELSE Above(Above(r))} \ {"none"}

DistrictsOf(r) == {d \in known : Parent[d] = r /\ Level[d] = "DISTRICT"}

\* _region_matches, of one company
RegionMatches(k, r) ==
  \/ \E a \in Clause(r) : Serves(k, a)
  \/ /\ r \in known /\ Level[r] = "CITY"
     /\ Cardinality(DistrictsOf(r)) # 0
     /\ Cardinality({d \in DistrictsOf(r) : Serves(k, d)}) = Cardinality(DistrictsOf(r))

\* evaluate_candidate at the dispatch, and existing_receiver_correction_issues
Accepted(k, r, s) ==
  firm[k] = "ACTIVE" /\ MayReceive(k) /\ k # s /\ RegionMatches(k, r)

\* list_candidates: the rows of areas that match, and the companies that have enough of
\* them.  Fault: the list forgets that an area is served while its removal is pending.
AreaRowsApproved(r) ==
  {x \in Firms \X Clause(r) : entry[x[1]][x[2]].active /\ DispatchableUntilRequested(entry[x[1]][x[2]])}
AreaRows(r) == {x \in Firms \X Clause(r) : Serves(x[1], x[2])}
DistrictRows(r) == {x \in Firms \X DistrictsOf(r) : Serves(x[1], x[2])}

DirectFirms(r) == {x[1] : x \in AreaRows(r)}
WholeCityFirms(r) ==
  LET n == IF r \in known /\ Level[r] = "CITY" THEN Cardinality(DistrictsOf(r)) ELSE 0
  IN IF n = 0 THEN {}
     ELSE {k \in Firms : Cardinality({x \in DistrictRows(r) : x[1] = k}) = n}

Offered(r, s) ==
  {k \in DirectFirms(r) \cup WholeCityFirms(r) : firm[k] = "ACTIVE" /\ MayReceive(k) /\ k # s}

\* has_receiver_coverage, of a lead that is approved, returned or in the public pool
HasReceiverCoverage(r, s) ==
  LET base == {k \in Firms : firm[k] = "ACTIVE" /\ MayReceive(k) /\ k # s}
  IN base \cap DirectFirms(r) # {} \/ base \cap WholeCityFirms(r) # {}

\* approved_lead_pool_target
PoolTarget(r, s) ==
  IF s # "none" /\ ~HasReceiverCoverage(r, s) THEN "PUBLIC_POOL" ELSE "READY_DISPATCH"

-----------------------------------------------------------------------------
ProfileTypeOK ==
  /\ known \subseteq Regions
  /\ firm \in [Firms -> {"NONE", "ACTIVE", "DISABLED"}]
  /\ entry \in [Firms -> [Items -> Row]]
  /\ legacy \in [Firms -> SUBSET Items]
  /\ \A o \in Offices : office[o] = Quiet \/ office[o].kind \in
       {"replace", "configure", "review", "set", "request", "approveAll"}
  /\ granted \in [Firms -> SUBSET Items] /\ crossed \in [Firms -> SUBSET Items]
  /\ byHand \subseteq Firms

\* What a company edits does not change where it receives leads: it receives exactly
\* what the platform last decided, and the tables of version 1.0 never hold more,
\* unless they were set directly.  Excepted is a row that was written over a change
\* nobody had seen.  ("without interrupting approved coverage")
CoverageFollowsDecisions ==
  \A k \in Firms :
    /\ \A r \in Regions \ crossed[k] : Serves(k, r) <=> r \in granted[k]
    /\ "receiver" \notin crossed[k] => (MayReceive(k) <=> "receiver" \in granted[k])
    /\ k \notin byHand => legacy[k] \subseteq granted[k]

\* The list of candidates, the check at the dispatch and the way of an approved lead
\* agree, for every lead, though each asks the tables in its own words: who is
\* offered is accepted, and a supplier's lead waits in the public pool exactly when
\* nobody could be offered.
OfferedIsAccepted ==
  \A r \in Regions, s \in Firms \cup {"none"} :
    /\ \A k \in Firms : k \in Offered(r, s) <=> Accepted(k, r, s)
    /\ s # "none" => (PoolTarget(r, s) = "PUBLIC_POOL" <=> Offered(r, s) = {})

\* When the platform has configured the areas of a company, and nobody has changed them
\* meanwhile, the company serves these and no others.  ("保存后立即用于客资候选匹配")
ConfiguredMeansServed ==
  [][\A o \in Offices :
       LET q == office[o]
       IN q.kind = "configure" /\ office'[o] = Quiet /\ entry[q.of] = q.saw /\ entry' # entry
          => {r \in Regions : entry'[q.of][r].active} = q.want]_profileVars
=============================================================================
