---------------------------- MODULE PointsLedger ----------------------------
(***************************************************************************)
(* The points ledger of the companies under concurrent finance requests:   *)
(* recharge, manual adjustment and reversal (routers/points.py), and the   *)
(* freeze of a cooperation termination.  A request is one transaction: it  *)
(* reads without a lock (is my key known, is this payment reference used,  *)
(* is this entry reversed already), and only change_points takes the       *)
(* account row lock, which it holds to the commit.  The unlocked reads are *)
(* actions of their own, so other requests commit between them; everything *)
(* from the lock to the commit is one action.                              *)
(***************************************************************************)
EXTENDS PointsAccount, FiniteSets

CONSTANTS
  Companies,    \* companies owning an account
  Requests,     \* HTTP requests to the points router, one transaction each
  Keys,         \* client idempotency keys
  References,   \* external payment references of recharges
  Packages,     \* recharge packages; a package gives its level to the company
  PointsOf,     \* base and bonus points of a package
  Amounts,      \* deltas of manual adjustments
  NoLevel,      \* level of a company that never recharged
  NoRef,        \* external reference of an entry that has none
  NoBody        \* body of a request not received yet

ASSUME PackagesAssumption == PointsOf \in [Packages -> Nat \ {0}]
ASSUME AmountsAssumption  == Amounts \subseteq Int \ {0}
ASSUME SentinelAssumption == NoLevel \notin Packages /\ NoRef \notin References

VARIABLES
  account,    \* account[c]: balances and frozen parts of the company's wallets
  ledger,     \* ledger[c][k]: entries of wallet k in the order of the commits
  level,      \* level[c]: company.level_code
  phase,      \* phase[r]: where request r stands
  body,       \* body[r]: what it asks, and of which company
  seenLevel,  \* seenLevel[r]: the company's level when a recharge loaded it
  answer      \* answer[r]: wallet and position of the entry it was answered with

accountVars == <<account, ledger, level>>
vars == <<account, ledger, level, phase, body, seenLevel, answer>>

-----------------------------------------------------------------------------
\* What a request asks for, as the change record it passes to change_points.

Change(type, kind, delta, business, key, ref, related) ==
  [type |-> type, kind |-> kind, delta |-> delta, business |-> business,
   key |-> key, ref |-> ref, related |-> related,
   allowFrozen |-> FALSE, allowNegative |-> FALSE]

Recharge(p, x, key) ==
  Change("RECHARGE", "CUSTOMER", PointsOf[p], p, key, x, 0)

Adjustment(k, d, key) == Change("ADJUST", k, d, key, key, NoRef, 0)

\* The reversal of entry i of wallet k of company c.
Reversal(c, k, i, key) ==
  Change("REVERSAL", k, -ledger[c][k][i].delta, i, key, NoRef, i)

Businesses == Packages \cup Keys \cup Nat

Entries ==
  [type : LedgerTypes, kind : Kinds, delta : Int, after : Int,
   business : Businesses, key : Keys, ref : References \cup {NoRef},
   related : Nat]

Changes ==
  [type : LedgerTypes, kind : Kinds, delta : Int, business : Businesses,
   key : Keys, ref : References \cup {NoRef}, related : Nat,
   allowFrozen : {FALSE}, allowNegative : {FALSE}]

Bodies ==
  [company : Companies,
   change  : {ch \in Changes : ch.type = "RECHARGE" => ch.business \in Packages}]

\* received: nothing read yet; keyed: the key was free when it was read;
\* checked: the reads before change_points found nothing against the request.
Phases == {"idle", "received", "keyed", "checked", "answered", "refused"}

NoEntry == <<"CUSTOMER", 0>>

-----------------------------------------------------------------------------
\* Reads of the ledger.

KeyKnown(c, key) ==
  \E k \in Kinds : \E i \in DOMAIN ledger[c][k] : ledger[c][k][i].key = key

ReferenceUsed(x) ==
  \E c \in Companies, k \in Kinds :
    \E i \in DOMAIN ledger[c][k] : ledger[c][k][i].ref = x

Reversed(c, k, i) ==
  \E j \in DOMAIN ledger[c][k] :
    /\ ledger[c][k][j].type = "REVERSAL"
    /\ ledger[c][k][j].related = i

-----------------------------------------------------------------------------
Init ==
  /\ account \in [Companies -> {EmptyAccount, [EmptyAccount EXCEPT !.ready = FALSE]}]
  /\ ledger = [c \in Companies |-> [k \in Kinds |-> <<>>]]
  /\ level = [c \in Companies |-> NoLevel]
  /\ phase = [r \in Requests |-> "idle"]
  /\ body = [r \in Requests |-> NoBody]
  /\ seenLevel = [r \in Requests |-> NoLevel]
  /\ answer = [r \in Requests |-> NoEntry]

Receive(r, c, ch, next) ==
  /\ phase[r] = "idle"
  /\ phase' = [phase EXCEPT ![r] = next]
  /\ body' = [body EXCEPT ![r] = [company |-> c, change |-> ch]]
  /\ UNCHANGED <<accountVars, seenLevel, answer>>

ReceiveRecharge(r) ==
  \E c \in Companies, p \in Packages, x \in References, key \in Keys :
    Receive(r, c, Recharge(p, x, key), "received")

\* An adjustment goes to change_points at once.
ReceiveAdjustment(r) ==
  \E c \in Companies, k \in Kinds, d \in Amounts, key \in Keys :
    Receive(r, c, Adjustment(k, d, key), "checked")

\* Only recharges and adjustments may be reversed by hand.
ReceiveReversal(r) ==
  \E c \in Companies, k \in Kinds, key \in Keys :
    \E i \in DOMAIN ledger[c][k] :
      /\ ledger[c][k][i].type \in {"RECHARGE", "ADJUST"}
      /\ Receive(r, c, Reversal(c, k, i, key), "received")

Asks(r, type, at) ==
  /\ phase[r] = at
  /\ body[r].change.type = type

Proceed(r, next) ==
  /\ phase' = [phase EXCEPT ![r] = next]
  /\ UNCHANGED <<accountVars, body, answer>>

Refuse(r) == Proceed(r, "refused") /\ UNCHANGED seenLevel

Answer(r, k, i) ==
  /\ phase' = [phase EXCEPT ![r] = "answered"]
  /\ answer' = [answer EXCEPT ![r] = <<k, i>>]
  /\ UNCHANGED <<body, seenLevel>>

\* recharge_points reads its key first and answers with whatever entry of the
\* company carries it.
RechargeKnownKey(r) ==
  LET c == body[r].company  ch == body[r].change IN
  /\ Asks(r, "RECHARGE", "received")
  /\ \E k \in Kinds : \E i \in DOMAIN ledger[c][k] :
       /\ ledger[c][k][i].key = ch.key
       /\ Answer(r, k, i)
  /\ UNCHANGED accountVars

RechargeNewKey(r) ==
  /\ Asks(r, "RECHARGE", "received")
  /\ ~KeyKnown(body[r].company, body[r].change.key)
  /\ Proceed(r, "keyed")
  /\ UNCHANGED seenLevel

\* The reference is looked up among the entries of every company.
RechargeReferenceUsed(r) ==
  /\ Asks(r, "RECHARGE", "keyed")
  /\ ReferenceUsed(body[r].change.ref)
  /\ Refuse(r)

\* The package is not in force, or the cash received is not its price.
RechargePackageRefused(r) ==
  /\ Asks(r, "RECHARGE", "keyed")
  /\ ~ReferenceUsed(body[r].change.ref)
  /\ Refuse(r)

\* The company row is loaded without a lock; the new level is only pending in
\* the session until the flush of change_points or the commit.
RechargeChecked(r) ==
  /\ Asks(r, "RECHARGE", "keyed")
  /\ ~ReferenceUsed(body[r].change.ref)
  /\ Proceed(r, "checked")
  /\ seenLevel' = [seenLevel EXCEPT ![r] = level[body[r].company]]

ReversalChecked(r) ==
  LET c == body[r].company  ch == body[r].change IN
  /\ Asks(r, "REVERSAL", "received")
  /\ ~Reversed(c, ch.kind, ch.related)
  /\ Proceed(r, "checked")
  /\ UNCHANGED seenLevel

AlreadyReversed(r) ==
  LET c == body[r].company  ch == body[r].change IN
  /\ Asks(r, "REVERSAL", "received")
  /\ Reversed(c, ch.kind, ch.related)
  /\ Refuse(r)

\* The pending level is written with the transaction, and only when it differs
\* from the level the session loaded.
LevelWritten(r) ==
  LET c == body[r].company  ch == body[r].change IN
  level' = IF ch.type = "RECHARGE" /\ seenLevel[r] # ch.business
           THEN [level EXCEPT ![c] = ch.business]
           ELSE level

\* Fault: a known key is a replay whatever posting it was used for.
ReplayOfAnyPosting(r) ==
  LET c == body[r].company  ch == body[r].change IN
  /\ phase[r] = "checked"
  /\ \E k \in Kinds : \E i \in DOMAIN ledger[c][k] :
       /\ ledger[c][k][i].key = ch.key
       /\ Answer(r, k, i)
  /\ LevelWritten(r)
  /\ UNCHANGED <<account, ledger>>

\* change_points: the key is known for the same posting, before the lock or
\* when it is read again under the lock.
Replay(r) ==
  LET c == body[r].company  ch == body[r].change IN
  /\ phase[r] = "checked"
  /\ \E k \in Kinds : \E i \in DOMAIN ledger[c][k] :
       /\ ledger[c][k][i].key = ch.key
       /\ SamePosting(ledger[c][k][i], ch)
       /\ Answer(r, k, i)
  /\ LevelWritten(r)
  /\ UNCHANGED <<account, ledger>>

\* change_points: the key belongs to another posting.
KeyConflict(r) ==
  LET c == body[r].company  ch == body[r].change IN
  /\ phase[r] = "checked"
  /\ \E k \in Kinds : \E i \in DOMAIN ledger[c][k] :
       /\ ledger[c][k][i].key = ch.key
       /\ ~SamePosting(ledger[c][k][i], ch)
  /\ Refuse(r)

\* change_points under the account lock: the key is free and the account
\* accepts the change.
Post(r) ==
  LET c == body[r].company  ch == body[r].change IN
  /\ phase[r] = "checked"
  /\ ~KeyKnown(c, ch.key)
  /\ Accepts(account[c], ch)
  /\ account' = [account EXCEPT ![c] = Credited(@, ch)]
  /\ ledger' = [ledger EXCEPT ![c][ch.kind] = Append(@, EntryFor(account[c], ch))]
  /\ Answer(r, ch.kind, Len(ledger[c][ch.kind]) + 1)
  /\ LevelWritten(r)

\* Fault: the level is committed although the posting was refused.
PostRefusedKeepingLevel(r) ==
  LET c == body[r].company  ch == body[r].change IN
  /\ phase[r] = "checked"
  /\ ~KeyKnown(c, ch.key)
  /\ ~Accepts(account[c], ch)
  /\ phase' = [phase EXCEPT ![r] = "refused"]
  /\ LevelWritten(r)
  /\ UNCHANGED <<account, ledger, body, seenLevel, answer>>

\* change_points raises; the transaction and its pending level are rolled back.
PostRefused(r) ==
  LET c == body[r].company  ch == body[r].change IN
  /\ phase[r] = "checked"
  /\ ~KeyKnown(c, ch.key)
  /\ ~Accepts(account[c], ch)
  /\ Refuse(r)

-----------------------------------------------------------------------------
\* A cooperation termination is approved: both wallets are frozen whole.
FreezeForSettlement(c) ==
  /\ account[c].ready
  /\ ~account[c].settling
  /\ \A k \in Kinds : account[c].balance[k] >= 0
  /\ account' = [account EXCEPT ![c].frozen = account[c].balance,
                                ![c].settling = TRUE]
  /\ UNCHANGED <<ledger, level, phase, body, seenLevel, answer>>

\* The termination is cancelled, or sent back: nothing stays frozen.
ReleaseSettlement(c) ==
  /\ account[c].settling
  /\ account' = [account EXCEPT ![c].frozen = [k \in Kinds |-> 0],
                                ![c].settling = FALSE]
  /\ UNCHANGED <<ledger, level, phase, body, seenLevel, answer>>

Next ==
  \/ \E r \in Requests :
       \/ ReceiveRecharge(r) \/ ReceiveAdjustment(r) \/ ReceiveReversal(r)
       \/ RechargeKnownKey(r) \/ RechargeNewKey(r)
       \/ RechargeReferenceUsed(r) \/ RechargePackageRefused(r) \/ RechargeChecked(r)
       \/ ReversalChecked(r) \/ AlreadyReversed(r)
       \/ Replay(r) \/ KeyConflict(r) \/ Post(r) \/ PostRefused(r)
  \/ \E c \in Companies : FreezeForSettlement(c) \/ ReleaseSettlement(c)

Spec == Init /\ [][Next]_vars

-----------------------------------------------------------------------------
\* The answer an answered request was given.
AnswerOf(r) == ledger[body[r].company][answer[r][1]][answer[r][2]]

\* Every variable has the shape the code gives it; an answer names an entry.
TypeOK ==
  /\ account \in [Companies -> Accounts]
  /\ ledger \in [Companies -> [Kinds -> Seq(Entries)]]
  /\ level \in [Companies -> Packages \cup {NoLevel}]
  /\ phase \in [Requests -> Phases]
  /\ body \in [Requests -> Bodies \cup {NoBody}]
  /\ seenLevel \in [Requests -> Packages \cup {NoLevel}]
  /\ answer \in [Requests -> Kinds \X Nat]
  /\ \A r \in Requests : phase[r] # "idle" => body[r] \in Bodies
  /\ \A r \in Requests : phase[r] = "answered" =>
       answer[r][2] \in DOMAIN ledger[body[r].company][answer[r][1]]

\* The balance before entry i of a wallet, and after the last one.
BalanceBefore(entries, i) == IF i = 1 THEN 0 ELSE entries[i - 1].after
ClosingBalance(entries) ==
  IF entries = <<>> THEN 0 ELSE entries[Len(entries)].after

\* Every wallet reconciles with its ledger (reconcile_points_account): each
\* entry continues the balance the entry before it left, and the balance of
\* the account is what the last entry left.  An update lost between two
\* concurrent postings breaks it.
Reconciled ==
  \A c \in Companies, k \in Kinds :
    /\ account[c].balance[k] = ClosingBalance(ledger[c][k])
    /\ \A i \in DOMAIN ledger[c][k] :
         ledger[c][k][i].after = BalanceBefore(ledger[c][k], i) + ledger[c][k][i].delta

\* An idempotency key names one entry of a company, over both wallets, however
\* many requests carry it (uq_points_idempotency).
KeyNamesOneEntry ==
  \A c \in Companies, k1, k2 \in Kinds :
    \A i1 \in DOMAIN ledger[c][k1], i2 \in DOMAIN ledger[c][k2] :
      ledger[c][k1][i1].key = ledger[c][k2][i2].key => k1 = k2 /\ i1 = i2

\* What a termination froze stays covered by the balance until it is released,
\* whatever postings are tried meanwhile.
BalanceCoversFreeze ==
  \A c \in Companies, k \in Kinds :
    0 <= account[c].frozen[k] /\ account[c].frozen[k] <= account[c].balance[k]

\* An adjustment or a reversal is answered with the entry of the posting it
\* asked for, its own or the one an equal request posted first.  (A recharge
\* whose key is known is answered without a comparison, RechargeKnownKey.)
AnswerIsItsOwnEntry ==
  \A r \in Requests :
    phase[r] = "answered" /\ body[r].change.type \in {"ADJUST", "REVERSAL"} =>
      SamePosting(AnswerOf(r), body[r].change)

\* The level of a company was paid for by one of its recharges: a recharge
\* that was refused or answered from the ledger gives no level of its own.
LevelWasPaidFor ==
  \A c \in Companies : level[c] # NoLevel =>
    \E i \in DOMAIN ledger[c]["CUSTOMER"] :
      /\ ledger[c]["CUSTOMER"][i].type = "RECHARGE"
      /\ ledger[c]["CUSTOMER"][i].business = level[c]

-----------------------------------------------------------------------------
\* What the repository says and the code does not keep.

\* docs/requirements/v1.2-prd.md:105: an entry is reversed at most once,
\* "领取扣分、返分、奖励和冲正均通过幂等键/唯一约束只记一次".
ReversedAtMostOnce ==
  \A c \in Companies, k \in Kinds : \A i, j \in DOMAIN ledger[c][k] :
    /\ ledger[c][k][i].type = "REVERSAL"
    /\ ledger[c][k][j].type = "REVERSAL"
    /\ ledger[c][k][i].related = ledger[c][k][j].related
    => i = j
=============================================================================
