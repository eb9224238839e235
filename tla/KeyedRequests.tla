---------------------------- MODULE KeyedRequests ----------------------------
(***************************************************************************)
(* Requests with an idempotency key: the dispatch of a lead from the pool,  *)
(* the quick dispatch that enters a lead and sends it, and the entry of a   *)
(* lead that goes to telesales first (routers/v12_dispatch.py,              *)
(* routers/v12_lead_supply.py, services/dispatch_v12.py).                   *)
(*                                                                         *)
(* A key collapses repeated calls in three ways: a lock per key inside each *)
(* process, an advisory lock of PostgreSQL that only the requests entering  *)
(* a lead take, and the unique index the insert meets last.  Each call is a *)
(* thread of a process with a transaction of its own; an outcome is named   *)
(* after the call that made it.  What a dispatch demands of lead and        *)
(* receiver is LeadLifecycle's: here it is refused or not.                  *)
(***************************************************************************)
EXTENDS Naturals, FiniteSets

CONSTANTS
  Calls,        \* the calls, repeated ones included
  Processes,    \* worker processes of the API
  Keys,         \* idempotency keys, with their scope
  PoolLeads,    \* leads that exist before any call
  Nobody,
  ProcessOf,    \* ProcessOf[c]: the process that serves the call
  KeyOf,        \* KeyOf[c]: body.idempotency_key with its scope
  KindOf,       \* KindOf[c]: "dispatch", "quick" or "verify"
  LeadOf,       \* LeadOf[c]: the lead dispatched, for a "dispatch"
  BodyOf        \* BodyOf[c]: the rest of the body, receiver and employee included

ASSUME CallsAssumption ==
  /\ IsFiniteSet(Calls) /\ Nobody \notin Calls
  /\ ProcessOf \in [Calls -> Processes] /\ KeyOf \in [Calls -> Keys]
  /\ KindOf \in [Calls -> {"dispatch", "quick", "verify"}]
  /\ \A c \in Calls : KindOf[c] = "dispatch" => LeadOf[c] \in PoolLeads

\* The entry for telesales has a scope of its own for its keys.
ASSUME ScopeAssumption ==
  \A c, d \in Calls : KeyOf[c] = KeyOf[d] => (KindOf[c] = "verify" <=> KindOf[d] = "verify")

VARIABLES
  stage,     \* how far a call is
  joined,    \* the lock entry a call uses, named after the call that made it
  entryAt,   \* _dispatch_locks of each process
  users,     \* users of an entry
  holder,    \* who holds the lock of an entry
  serial,    \* who holds the advisory lock of a key
  leadLock,  \* who holds the row lock of a lead
  inserted,  \* outcomes inserted and not committed
  committed, \* outcomes committed
  ready,     \* leads in the dispatch pool
  given,     \* the outcome a call answers with
  refusal    \* the error a call answers with

keyedVars == <<stage, joined, entryAt, users, holder, serial, leadLock, inserted, committed,
               ready, given, refusal>>
guardVars == <<joined, entryAt, users, holder>>

Guarded == {"inside", "serial", "working", "checking", "writing", "inserted", "leaving", "clashed"}
Joining == Guarded \cup {"waiting", "parting", "clashedOut"}
Stages == Joining \cup {"new", "retrying", "closing", "done", "lost"}
Refusals == {"none", "conflict", "refused", "failed"}

Entering(c) == KindOf[c] # "dispatch"  \* the call enters a lead of its own
OrNobody == Calls \cup {Nobody}

KeyedTypeOK ==
  /\ stage \in [Calls -> Stages]
  /\ joined \in [Calls -> OrNobody]
  /\ entryAt \in [Processes -> [Keys -> OrNobody]]
  /\ users \in [Calls -> Nat] /\ holder \in [Calls -> OrNobody]
  /\ serial \in [Keys -> OrNobody] /\ leadLock \in [PoolLeads -> OrNobody]
  /\ inserted \subseteq Calls /\ committed \subseteq Calls
  /\ ready \subseteq PoolLeads
  /\ given \in [Calls -> OrNobody] /\ refusal \in [Calls -> Refusals]

KeyedInit ==
  /\ stage = [c \in Calls |-> "new"]
  /\ joined = [c \in Calls |-> Nobody]
  /\ entryAt = [p \in Processes |-> [k \in Keys |-> Nobody]]
  /\ users = [c \in Calls |-> 0] /\ holder = [c \in Calls |-> Nobody]
  /\ serial = [k \in Keys |-> Nobody] /\ leadLock = [l \in PoolLeads |-> Nobody]
  /\ inserted = {} /\ committed = {}
  /\ ready = PoolLeads
  /\ given = [c \in Calls |-> Nobody] /\ refusal = [c \in Calls |-> "none"]

-----------------------------------------------------------------------------
\* manual_dispatch_idempotency_guard

EntryOf(c) == entryAt[ProcessOf[c]][KeyOf[c]]
Goes(c, from, to) == stage[c] = from /\ stage' = [stage EXCEPT ![c] = to]

EnterGuard(c) ==
  /\ Goes(c, "new", "waiting")
  /\ LET e == IF EntryOf(c) = Nobody THEN c ELSE EntryOf(c) IN
       /\ entryAt' = [entryAt EXCEPT ![ProcessOf[c]][KeyOf[c]] = e]
       /\ joined' = [joined EXCEPT ![c] = e]
       /\ users' = [users EXCEPT ![e] = @ + 1]
  /\ UNCHANGED <<holder, serial, leadLock, inserted, committed, ready, given, refusal>>

AcquireGuard(c) ==
  /\ Goes(c, "waiting", "inside")
  /\ holder[joined[c]] = Nobody
  /\ holder' = [holder EXCEPT ![joined[c]] = c]
  /\ UNCHANGED <<joined, entryAt, users, serial, leadLock, inserted, committed, ready, given,
                 refusal>>

ReleaseGuard(c) ==
  /\ \/ Goes(c, "leaving", "parting")
     \/ Goes(c, "clashed", "clashedOut")
  /\ holder' = [holder EXCEPT ![joined[c]] = Nobody]
  /\ UNCHANGED <<joined, entryAt, users, serial, leadLock, inserted, committed, ready, given,
                 refusal>>

\* Fault: the entry is dropped by the first to leave.
LeaveAndForget(c) ==
  /\ \/ Goes(c, "parting", "closing")
     \/ Goes(c, "clashedOut", "retrying")
  /\ users' = [users EXCEPT ![joined[c]] = @ - 1]
  /\ entryAt' = [entryAt EXCEPT ![ProcessOf[c]][KeyOf[c]] = Nobody]
  /\ UNCHANGED <<joined, holder, serial, leadLock, inserted, committed, ready, given, refusal>>

LeaveGuard(c) ==
  /\ \/ Goes(c, "parting", "closing")
     \/ Goes(c, "clashedOut", "retrying")
  /\ users' = [users EXCEPT ![joined[c]] = @ - 1]
  /\ entryAt' = IF users[joined[c]] = 1
                THEN [entryAt EXCEPT ![ProcessOf[c]][KeyOf[c]] = Nobody] ELSE entryAt
  /\ UNCHANGED <<joined, holder, serial, leadLock, inserted, committed, ready, given, refusal>>

-----------------------------------------------------------------------------
\* The locks of the database, freed when the transaction ends.

AcquireSerial(c) ==
  /\ Entering(c) /\ Goes(c, "inside", "serial")
  /\ serial[KeyOf[c]] = Nobody
  /\ serial' = [serial EXCEPT ![KeyOf[c]] = c]
  /\ UNCHANGED <<guardVars, leadLock, inserted, committed, ready, given, refusal>>

LockLead(c) ==
  /\ ~Entering(c) /\ Goes(c, "working", "checking")
  /\ leadLock[LeadOf[c]] = Nobody
  /\ leadLock' = [leadLock EXCEPT ![LeadOf[c]] = c]
  /\ UNCHANGED <<guardVars, serial, inserted, committed, ready, given, refusal>>

FreedOf(locks, c) == [x \in DOMAIN locks |-> IF locks[x] = c THEN Nobody ELSE locks[x]]
EndTransaction(c) == serial' = FreedOf(serial, c) /\ leadLock' = FreedOf(leadLock, c)

-----------------------------------------------------------------------------
\* The lookup by key.

Made(k) == {d \in committed : KeyOf[d] = k}

\* What the lookup compares: lead, receiver and employee for a dispatch, the hash
\* of the body, kept with the lead that was entered, for the others.
Fits(c, d) ==
  CASE KindOf[c] = "dispatch" ->
         KindOf[d] = "dispatch" /\ LeadOf[d] = LeadOf[c] /\ BodyOf[d] = BodyOf[c]
    [] KindOf[c] = "quick"  -> KindOf[d] = "quick" /\ BodyOf[d] = BodyOf[c]
    [] KindOf[c] = "verify" -> KindOf[d] = "verify" /\ BodyOf[d] = BodyOf[c]

\* The key is known: the outcome is answered again, or the call refused.
AnswerKnown(c, d) ==
  IF Fits(c, d) THEN given' = [given EXCEPT ![c] = d] /\ UNCHANGED refusal
                ELSE refusal' = [refusal EXCEPT ![c] = "conflict"] /\ UNCHANGED given

Known(c, from) ==
  /\ Goes(c, from, "leaving")
  /\ \E d \in Made(KeyOf[c]) : AnswerKnown(c, d)
  /\ UNCHANGED <<guardVars, serial, leadLock, inserted, committed, ready>>

Unknown(c, from, to) ==
  /\ Goes(c, from, to)
  /\ Made(KeyOf[c]) = {}
  /\ UNCHANGED <<guardVars, serial, leadLock, inserted, committed, ready, given, refusal>>

Look(c) ==
  LET from == IF Entering(c) THEN "serial" ELSE "inside"
  IN Known(c, from) \/ Unknown(c, from, "working")

\* A dispatch looks again once it holds the lead, a quick dispatch when it comes
\* to dispatch the lead it entered, which no earlier outcome can be about.
LookAgain(c) ==
  \/ /\ KindOf[c] = "dispatch"
     /\ Known(c, "checking") \/ (LeadOf[c] \in ready /\ Unknown(c, "checking", "writing"))
  \/ /\ KindOf[c] = "quick"
     /\ \/ Unknown(c, "working", "writing")
        \/ /\ Made(KeyOf[c]) # {} /\ Goes(c, "working", "leaving")
           /\ refusal' = [refusal EXCEPT ![c] = "conflict"]
           /\ UNCHANGED <<guardVars, serial, leadLock, inserted, committed, ready, given>>

\* The lead is not ready, or another condition fails.
Refuse(c) ==
  /\ stage[c] \in {"working", "checking", "writing"} /\ Goes(c, stage[c], "leaving")
  /\ refusal' = [refusal EXCEPT ![c] = "refused"]
  /\ UNCHANGED <<guardVars, serial, leadLock, inserted, committed, ready, given>>

-----------------------------------------------------------------------------
\* The outcome.

\* The last stage before the insert.
Writes(c) == stage[c] = IF KindOf[c] = "verify" THEN "working" ELSE "writing"

\* Another transaction that has inserted the key is waited for.
IndexFree(c) == \A d \in inserted : KeyOf[d] # KeyOf[c]

InsertOutcome(c) ==
  /\ Writes(c) /\ IndexFree(c) /\ Made(KeyOf[c]) = {}
  /\ stage' = [stage EXCEPT ![c] = "inserted"]
  /\ inserted' = inserted \cup {c}
  /\ UNCHANGED <<guardVars, serial, leadLock, committed, ready, given, refusal>>

\* The key was committed meanwhile: a dispatch fails, the others look once more.
Clash(c) ==
  /\ Writes(c) /\ IndexFree(c) /\ Made(KeyOf[c]) # {}
  /\ stage' = [stage EXCEPT ![c] = IF Entering(c) THEN "clashed" ELSE "leaving"]
  /\ refusal' = IF Entering(c) THEN refusal ELSE [refusal EXCEPT ![c] = "failed"]
  /\ UNCHANGED <<guardVars, serial, leadLock, inserted, committed, ready, given>>

CommitOutcome(c) ==
  /\ Goes(c, "inserted", "leaving")
  /\ inserted' = inserted \ {c} /\ committed' = committed \cup {c}
  /\ ready' = IF Entering(c) THEN ready ELSE ready \ {LeadOf[c]}
  /\ given' = [given EXCEPT ![c] = c]
  /\ EndTransaction(c)
  /\ UNCHANGED <<guardVars, refusal>>

\* except IntegrityError: outside the lock of the process.
LookAfterClash(c) ==
  /\ Goes(c, "retrying", "closing")
  /\ IF Made(KeyOf[c]) = {}
     THEN refusal' = [refusal EXCEPT ![c] = "failed"] /\ UNCHANGED given
     ELSE \E d \in Made(KeyOf[c]) : AnswerKnown(c, d)
  /\ EndTransaction(c)
  /\ UNCHANGED <<guardVars, inserted, committed, ready>>

\* get_db closes the session after the answer.
CloseSession(c) ==
  /\ Goes(c, "closing", "done")
  /\ EndTransaction(c)
  /\ UNCHANGED <<guardVars, inserted, committed, ready, given, refusal>>

-----------------------------------------------------------------------------
\* The surroundings.

\* A process dies with its calls, their transactions and its locks.
ProcessDies(p) ==
  LET dead == {c \in Calls : ProcessOf[c] = p /\ stage[c] \notin {"new", "done", "lost"}} IN
  /\ dead # {}
  /\ stage' = [c \in Calls |-> IF c \in dead THEN "lost" ELSE stage[c]]
  /\ entryAt' = [entryAt EXCEPT ![p] = [k \in Keys |-> Nobody]]
  /\ holder' = [e \in Calls |-> IF holder[e] \in dead THEN Nobody ELSE holder[e]]
  /\ users' = [e \in Calls |-> IF ProcessOf[e] = p THEN 0 ELSE users[e]]
  /\ joined' = [c \in Calls |-> IF c \in dead THEN Nobody ELSE joined[c]]
  /\ serial' = [k \in Keys |-> IF serial[k] \in dead THEN Nobody ELSE serial[k]]
  /\ leadLock' = [l \in PoolLeads |-> IF leadLock[l] \in dead THEN Nobody ELSE leadLock[l]]
  /\ inserted' = inserted \ dead
  /\ given' = [c \in Calls |-> IF c \in dead THEN Nobody ELSE given[c]]
  /\ UNCHANGED <<committed, ready, refusal>>

\* A round ends and its lead returns to the pool.
LeadReturns(l) ==
  /\ l \notin ready /\ leadLock[l] = Nobody
  /\ ready' = ready \cup {l}
  /\ UNCHANGED <<stage, guardVars, serial, leadLock, inserted, committed, given, refusal>>

KeyedNext ==
  \/ \E c \in Calls :
       \/ EnterGuard(c) \/ AcquireGuard(c) \/ ReleaseGuard(c) \/ LeaveGuard(c)
       \/ AcquireSerial(c) \/ LockLead(c)
       \/ Look(c) \/ LookAgain(c) \/ Refuse(c)
       \/ InsertOutcome(c) \/ Clash(c) \/ CommitOutcome(c) \/ LookAfterClash(c)
       \/ CloseSession(c)
  \/ \E p \in Processes : ProcessDies(p)
  \/ \E l \in PoolLeads : LeadReturns(l)

KeyedSpec == KeyedInit /\ [][KeyedNext]_keyedVars

-----------------------------------------------------------------------------
\* Properties.

InGuard(c) == stage[c] \in Guarded

\* A key has one outcome, whatever repetitions, crashes and leads back in the pool
\* come in between, and every call answered with success names it and asked for
\* it.
KeysAnswerAlike ==
  /\ \A c, d \in committed : KeyOf[c] = KeyOf[d] => c = d
  /\ \A c \in Calls : given[c] # Nobody =>
       /\ given[c] \in committed /\ KeyOf[given[c]] = KeyOf[c]
       /\ Fits(c, given[c])

\* The lock of a process admits one call per key although its entry comes and
\* goes, and none is left behind; so the unique index is met only by calls of
\* different processes, and then by a dispatch from the pool, which takes no
\* advisory lock.
GuardCollapsesRepeats ==
  /\ \A c, d \in Calls :
       /\ InGuard(c) /\ InGuard(d)
       /\ ProcessOf[c] = ProcessOf[d] /\ KeyOf[c] = KeyOf[d]
       => c = d
  /\ \A p \in Processes, k \in Keys :
       entryAt[p][k] # Nobody =>
         \E c \in Calls : stage[c] \in Joining /\ ProcessOf[c] = p /\ KeyOf[c] = k
  /\ \A c \in Calls : stage[c] \in {"clashed", "clashedOut", "retrying"} \/ refusal[c] = "failed" =>
       \E d \in committed :
         /\ KeyOf[d] = KeyOf[c] /\ ProcessOf[d] # ProcessOf[c]
         /\ Entering(c) => ~Entering(d)

\* Together: however calls with one key meet, in one process or in two, across a
\* crash or after a clash of the unique index, one of them enters or dispatches
\* and the others answer alike or are told that they asked for something else.
OneKeyOneOutcome == KeysAnswerAlike /\ GuardCollapsesRepeats
=============================================================================
