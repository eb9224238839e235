----------------------------- MODULE ClaimFlight -----------------------------
(***************************************************************************)
(* Repeated claims of one dispatch (services/claim_singleflight.py,         *)
(* routers/v12_dispatch.py, claim_assignment of services/dispatch_v12.py).  *)
(*                                                                         *)
(* Calls with the same quote that meet in a process share a flight: the     *)
(* first executes the claim, the others wait for its answer and hand on a   *)
(* copy.  The flight stays as long as somebody uses it, so a call may join  *)
(* one that has landed.  Between processes the row locks and the key of the *)
(* ledger entry decide, so that executing a claim is one step here.  All    *)
(* calls are of users the dispatch is meant for; what a claim demands       *)
(* beyond the round, the price and the points is LeadLifecycle's.           *)
(***************************************************************************)
EXTENDS Naturals, FiniteSets

CONSTANTS
  Claims,      \* calls of the claim endpoint
  Servers,     \* processes of the API
  Prices,      \* points a claim may cost
  Unquoted,    \* the quote of a call without one
  ServerOf,    \* ServerOf[c]: the process that serves the call
  QuoteOf,     \* QuoteOf[c]: body.expected_points
  Noone

Quotes == Prices \cup {Unquoted}

ASSUME ClaimsAssumption ==
  /\ IsFiniteSet(Claims) /\ Noone \notin Claims /\ Unquoted \notin Prices
  /\ ServerOf \in [Claims -> Servers] /\ QuoteOf \in [Claims -> Quotes]

VARIABLES
  round,      \* status of the dispatch: PENDING, CLAIMED (held since), OVER
  price,      \* current_points
  funds,      \* the account covers the price
  debits,     \* claims charged
  leg,        \* how far a call is
  flights,    \* _flights of each process: an entry is named after its leader
  aboard,     \* the entry a call uses
  seats,      \* entry.users
  landed,     \* what entry.result or entry.failure holds, "none" before the event
  outcome,    \* what a call answers with
  meanwhile,  \* history: what a claim with the quote of the call would have been
              \* answered since the call began
  boarded     \* history: the call joined a flight whose leader had executed while
              \* another call was still using it

claimVars == <<round, price, funds, debits, leg, flights, aboard, seats, landed, outcome,
               meanwhile, boarded>>
flightVars == <<flights, aboard, seats, landed, boarded>>
roundVars == <<round, price, funds, debits>>

Flying == {"leading", "executed", "landing", "joining", "waiting", "read"}
Legs == Flying \cup {"new", "traced", "answered", "lost"}
Verdicts == {"claimed", "over", "price", "points"}
Outcomes == Verdicts \cup {"none", "transient", "timeout"}
MaybeClaim == Claims \cup {Noone}

ClaimTypeOK ==
  /\ round \in {"PENDING", "CLAIMED", "OVER"} /\ price \in Prices /\ funds \in BOOLEAN
  /\ debits \in Nat
  /\ leg \in [Claims -> Legs]
  /\ flights \in [Servers -> [Quotes -> MaybeClaim]]
  /\ aboard \in [Claims -> MaybeClaim] /\ seats \in [Claims -> Nat]
  /\ landed \in [Claims -> Outcomes] /\ outcome \in [Claims -> Outcomes]
  /\ meanwhile \in [Claims -> SUBSET Verdicts] /\ boarded \in [Claims -> BOOLEAN]

ClaimInit ==
  /\ round = "PENDING" /\ price \in Prices /\ funds \in BOOLEAN /\ debits = 0
  /\ leg = [c \in Claims |-> "new"]
  /\ flights = [w \in Servers |-> [q \in Quotes |-> Noone]]
  /\ aboard = [c \in Claims |-> Noone] /\ seats = [c \in Claims |-> 0]
  /\ landed = [c \in Claims |-> "none"] /\ outcome = [c \in Claims |-> "none"]
  /\ meanwhile = [c \in Claims |-> {}] /\ boarded = [c \in Claims |-> FALSE]

-----------------------------------------------------------------------------
\* claim_assignment

\* What the database answers a claim: a claimed dispatch again, an ended one, a
\* price that is not the quoted one, and points that do not suffice.
Verdict(r, p, f, quote) ==
  CASE r = "CLAIMED" -> "claimed"
    [] r = "OVER" -> "over"
    [] r = "PENDING" /\ quote \notin {Unquoted, p} -> "price"
    [] r = "PENDING" /\ quote \in {Unquoted, p} /\ ~f -> "points"
    [] OTHER -> "claimed"

\* What each open call would be answered after the step.
Witness ==
  meanwhile' = [c \in Claims |->
    IF leg'[c] \in Flying
    THEN (IF leg[c] = "new" THEN {Verdict(round, price, funds, QuoteOf[c])} ELSE meanwhile[c])
         \cup {Verdict(round', price', funds', QuoteOf[c])}
    ELSE meanwhile[c]]

Flies(c, from, to) == leg[c] = from /\ leg' = [leg EXCEPT ![c] = to]

\* The transaction of the leader, up to its commit; it may fail for a reason of
\* its own, which is not an answer about the claim.
ExecuteClaim(c) ==
  /\ Flies(c, "leading", "executed")
  /\ LET v == Verdict(round, price, funds, QuoteOf[c]) IN
       \/ /\ outcome' = [outcome EXCEPT ![c] = v]
          /\ round' = IF v = "claimed" THEN "CLAIMED" ELSE round
          /\ debits' = IF v = "claimed" /\ round = "PENDING" THEN debits + 1 ELSE debits
       \/ outcome' = [outcome EXCEPT ![c] = "transient"] /\ UNCHANGED <<round, debits>>
  /\ UNCHANGED <<price, funds, flightVars>>

-----------------------------------------------------------------------------
\* run_claim_singleflight

FlightOf(c) == flights[ServerOf[c]][QuoteOf[c]]
UsersOf(e) == {d \in Claims : leg[d] \in Flying /\ aboard[d] = e}

\* _join_or_create
JoinOrCreate(c) ==
  LET e == FlightOf(c) IN
  /\ leg[c] = "new"
  /\ \/ /\ e = Noone
        /\ leg' = [leg EXCEPT ![c] = "leading"]
        /\ flights' = [flights EXCEPT ![ServerOf[c]][QuoteOf[c]] = c]
        /\ aboard' = [aboard EXCEPT ![c] = c]
        /\ seats' = [seats EXCEPT ![c] = 1]
        /\ UNCHANGED boarded
     \/ /\ e # Noone
        /\ leg' = [leg EXCEPT ![c] = "joining"]
        /\ aboard' = [aboard EXCEPT ![c] = e]
        /\ seats' = [seats EXCEPT ![e] = @ + 1]
        /\ boarded' = [boarded EXCEPT ![c] = leg[e] # "leading" /\ UsersOf(e) # {}]
        /\ UNCHANGED flights
  /\ UNCHANGED <<roundVars, landed, outcome>>

\* The result or the failure is stored and the event set under the guard.
PublishOutcome(c) ==
  /\ Flies(c, "executed", "landing")
  /\ landed' = [landed EXCEPT ![c] = outcome[c]]
  /\ UNCHANGED <<roundVars, flights, aboard, seats, outcome, boarded>>

\* db.rollback
BeforeWait(c) ==
  /\ Flies(c, "joining", "waiting")
  /\ UNCHANGED <<roundVars, flightVars, outcome>>

\* The copy of a follower; the failure of the leader's transaction reaches it as a
\* transient one, and so would an event without a result.
ReadOutcome(c) ==
  /\ Flies(c, "waiting", "read")
  /\ landed[aboard[c]] # "none"
  /\ outcome' = [outcome EXCEPT ![c] = landed[aboard[c]]]
  /\ UNCHANGED <<roundVars, flightVars>>

WaitTimesOut(c) ==
  /\ Flies(c, "waiting", "read")
  /\ landed[aboard[c]] = "none"
  /\ outcome' = [outcome EXCEPT ![c] = "timeout"]
  /\ UNCHANGED <<roundVars, flightVars>>

Disembark(c) ==
  /\ \/ Flies(c, "landing", "traced")
     \/ Flies(c, "read", "traced")
  /\ seats' = [seats EXCEPT ![aboard[c]] = @ - 1]
  /\ aboard' = [aboard EXCEPT ![c] = Noone]
  /\ UNCHANGED <<roundVars, landed, outcome, boarded>>

\* Fault: the entry of a flight is never removed.
ReleaseSeatOnly(c) == Disembark(c) /\ UNCHANGED flights

\* _release
ReleaseSeat(c) ==
  /\ Disembark(c)
  /\ flights' = IF seats[aboard[c]] = 1 /\ FlightOf(c) = aboard[c]
                THEN [flights EXCEPT ![ServerOf[c]][QuoteOf[c]] = Noone] ELSE flights

\* The trace of a repeated answer is written and committed before it is given.
AnswerClaim(c) ==
  /\ Flies(c, "traced", "answered")
  /\ UNCHANGED <<roundVars, flightVars, outcome>>

-----------------------------------------------------------------------------
\* The surroundings.

RoundEnds ==
  /\ round # "OVER" /\ round' = "OVER"
  /\ UNCHANGED <<price, funds, debits, leg, flightVars, outcome>>

PriceChanges(p) ==
  /\ p # price /\ price' = p
  /\ UNCHANGED <<round, funds, debits, leg, flightVars, outcome>>

FundsChange ==
  /\ funds' = ~funds
  /\ UNCHANGED <<round, price, debits, leg, flightVars, outcome>>

ServerDies(w) ==
  LET dead == {c \in Claims : ServerOf[c] = w /\ leg[c] \notin {"new", "answered", "lost"}} IN
  /\ dead # {}
  /\ leg' = [c \in Claims |-> IF c \in dead THEN "lost" ELSE leg[c]]
  /\ flights' = [flights EXCEPT ![w] = [q \in Quotes |-> Noone]]
  /\ aboard' = [c \in Claims |-> IF c \in dead THEN Noone ELSE aboard[c]]
  /\ UNCHANGED <<roundVars, seats, landed, outcome, boarded>>

ClaimNext ==
  /\ \/ \E c \in Claims :
          \/ JoinOrCreate(c) \/ ExecuteClaim(c) \/ PublishOutcome(c) \/ BeforeWait(c)
          \/ ReadOutcome(c) \/ WaitTimesOut(c) \/ ReleaseSeat(c) \/ AnswerClaim(c)
     \/ RoundEnds \/ FundsChange
     \/ \E p \in Prices : PriceChanges(p)
     \/ \E w \in Servers : ServerDies(w)
  /\ Witness

ClaimSpec == ClaimInit /\ [][ClaimNext]_claimVars

-----------------------------------------------------------------------------
\* Properties.

\* A call is answered what its own claim would have been answered at some moment
\* since it began, or told that nothing is known; only a call that joins a flight
\* after the leader's claim, while others still use it, may hear what was true
\* for them.  A flight has one leader at a time and is over with its last call,
\* and the points are debited once.
AnswerWasTrueMeanwhile ==
  /\ \A c \in Claims : leg[c] \in {"traced", "answered"} =>
       outcome[c] \in meanwhile[c] \cup {"transient", "timeout"} \/ boarded[c]
  /\ \A c, d \in Claims :
       /\ leg[c] = "leading" /\ leg[d] = "leading"
       /\ ServerOf[c] = ServerOf[d] /\ QuoteOf[c] = QuoteOf[d]
       => c = d
  /\ \A w \in Servers, q \in Quotes : flights[w][q] # Noone => UsersOf(flights[w][q]) # {}
  /\ debits <= 1
=============================================================================
