---------------------------- MODULE Points_proofs ----------------------------
(***************************************************************************)
(* Proofs about the two sides of an account of points.                     *)
(*                                                                         *)
(* The first part is about PointsLedger, for any companies, requests,      *)
(* keys, packages and amounts, and ledgers of any length.                  *)
(*                                                                         *)
(* The second is about SupplySettlement, for any number of rewards and     *)
(* withdrawals, any points per reward and any bound on a request: a        *)
(* settlement stays payable, withdrawal and termination never claim the    *)
(* same points, no freeze is left without an owner, no supply point leaves *)
(* twice, and the end of a cooperation leaves nothing to pay.              *)
(*                                                                         *)
(* The points of a set of requests are a cardinality in the model, so that *)
(* part first says how the cardinality moves when a request enters or      *)
(* leaves the set, and then states the inductive invariant.                *)
(***************************************************************************)
EXTENDS PointsLedger, SupplySettlement, FiniteSetTheorems, TLAPS

\* The change records the requests carry are of the declared type.
LEMMA ChangeType ==
  ASSUME NEW type \in LedgerTypes, NEW kind \in Kinds, NEW delta \in Int,
         NEW business \in Businesses, NEW key \in Keys,
         NEW ref \in References \cup {NoRef}, NEW related \in Nat
  PROVE  Change(type, kind, delta, business, key, ref, related) \in Changes
  BY DEF Change, Changes

\* The entry written for a typed change is a typed entry.
LEMMA EntryType ==
  ASSUME NEW a \in Accounts, NEW ch \in Changes
  PROVE  EntryFor(a, ch) \in Entries
  BY DEF EntryFor, Entries, Changes, Accounts

\* An accepted change leaves a typed account.
LEMMA CreditedType ==
  ASSUME NEW a \in Accounts, NEW ch \in Changes
  PROVE  Credited(a, ch) \in Accounts
  BY DEF Credited, Changes, Accounts

\* Freezing, releasing and the initial account are typed.
LEMMA FrozenType ==
  ASSUME NEW a \in Accounts, NEW f \in [Kinds -> Nat], NEW s \in BOOLEAN
  PROVE  [a EXCEPT !.frozen = f, !.settling = s] \in Accounts
  BY DEF Accounts

\* A company starts with an account that has nothing on it.
LEMMA EmptyAccountType ==
  EmptyAccount \in Accounts /\ [EmptyAccount EXCEPT !.ready = FALSE] \in Accounts
  <1> DEFINE z == [k \in Kinds |-> 0]
  <1>1. z \in [Kinds -> Nat] /\ z \in [Kinds -> Int]
    OBVIOUS
  <1> HIDE DEF z
  <1>2. [balance |-> z, frozen |-> z, ready |-> TRUE, settling |-> FALSE] \in Accounts
    BY <1>1 DEF Accounts
  <1>3. EmptyAccount \in Accounts
    BY <1>2 DEF z, EmptyAccount
  <1>4. \A a \in Accounts : [a EXCEPT !.ready = FALSE] \in Accounts
    BY DEF Accounts
  <1> QED
    BY <1>3, <1>4

\* Receiving a request with a typed change keeps the types.
LEMMA ReceiveType ==
  ASSUME TypeOK, NEW r \in Requests, NEW c \in Companies, NEW ch \in Changes,
         ch.type = "RECHARGE" => ch.business \in Packages,
         NEW next \in {"received", "checked"}, Receive(r, c, ch, next)
  PROVE  TypeOK'
  <1> DEFINE new == [company |-> c, change |-> ch]
  <1>1. new \in Bodies
    BY DEF Bodies
  <1>2. /\ body' = [body EXCEPT ![r] = new]
        /\ phase' = [phase EXCEPT ![r] = next]
        /\ UNCHANGED <<account, ledger, level, seenLevel, answer>>
    BY DEF Receive, accountVars
  <1> HIDE DEF new
  <1> QED
    BY <1>1, <1>2 DEF TypeOK, Phases

\* The three bodies the router builds are typed.
LEMMA ReceivedTypes ==
  ASSUME TypeOK, NEW r \in Requests,
         ReceiveRecharge(r) \/ ReceiveAdjustment(r) \/ ReceiveReversal(r)
  PROVE  TypeOK'
  <1>1. CASE ReceiveRecharge(r)
    <2>1. PICK c \in Companies, p \in Packages, x \in References, key \in Keys :
            Receive(r, c, Recharge(p, x, key), "received")
      BY <1>1 DEF ReceiveRecharge
    <2>2. PointsOf[p] \in Int
      BY PackagesAssumption
    <2>3. Recharge(p, x, key) \in Changes
      BY <2>2, ChangeType DEF Recharge, LedgerTypes, Kinds, Businesses
    <2>4. Recharge(p, x, key).business \in Packages
      BY DEF Recharge, Change
    <2> QED
      BY <2>1, <2>3, <2>4, ReceiveType
  <1>2. CASE ReceiveAdjustment(r)
    <2>1. PICK c \in Companies, k \in Kinds, d \in Amounts, key \in Keys :
            Receive(r, c, Adjustment(k, d, key), "checked")
      BY <1>2 DEF ReceiveAdjustment
    <2>2. d \in Int
      BY AmountsAssumption
    <2>3. Adjustment(k, d, key) \in Changes
      BY <2>2, ChangeType DEF Adjustment, LedgerTypes, Businesses
    <2>4. Adjustment(k, d, key).type = "ADJUST"
      BY DEF Adjustment, Change
    <2> QED
      BY <2>1, <2>3, <2>4, ReceiveType
  <1>3. CASE ReceiveReversal(r)
    <2>a. PICK c \in Companies, k \in Kinds, key \in Keys :
            \E i \in DOMAIN ledger[c][k] : Receive(r, c, Reversal(c, k, i, key), "received")
      BY <1>3 DEF ReceiveReversal
    <2>1. PICK i \in DOMAIN ledger[c][k] : Receive(r, c, Reversal(c, k, i, key), "received")
      BY <2>a
    <2>2. i \in Nat /\ ledger[c][k][i] \in Entries
      BY DEF TypeOK
    <2>3. -ledger[c][k][i].delta \in Int
      BY <2>2 DEF Entries
    <2>4. Reversal(c, k, i, key) \in Changes
      BY <2>2, <2>3, ChangeType DEF Reversal, LedgerTypes, Businesses
    <2>5. Reversal(c, k, i, key).type = "REVERSAL"
      BY DEF Reversal, Change
    <2> QED
      BY <2>1, <2>4, <2>5, ReceiveType
  <1> QED
    BY <1>1, <1>2, <1>3

\* A step that only moves a received request to another phase, without an
\* answer, keeps the types.
LEMMA ProceedType ==
  ASSUME TypeOK, NEW r \in Requests, NEW next \in Phases \ {"answered"},
         phase[r] # "idle", Proceed(r, next),
         seenLevel' \in [Requests -> Packages \cup {NoLevel}]
  PROVE  TypeOK'
  BY DEF TypeOK, Phases, Proceed, accountVars

\* A refusal keeps the types.
LEMMA RefuseType ==
  ASSUME TypeOK, NEW r \in Requests, phase[r] # "idle", Refuse(r)
  PROVE  TypeOK'
  <1>1. Proceed(r, "refused") /\ UNCHANGED seenLevel
    BY DEF Refuse
  <1>2. "refused" \in Phases \ {"answered"}
    BY DEF Phases
  <1>3. seenLevel' \in [Requests -> Packages \cup {NoLevel}]
    BY <1>1 DEF TypeOK
  <1> QED
    BY <1>1, <1>2, <1>3, ProceedType

\* The written level is a package's, or what it was.
LEMMA LevelType ==
  ASSUME TypeOK, NEW r \in Requests, body[r] \in Bodies, LevelWritten(r)
  PROVE  level' \in [Companies -> Packages \cup {NoLevel}]
  BY DEF TypeOK, LevelWritten, Bodies, Changes

\* Answering with an entry of the request's company keeps the types.
LEMMA AnswerType ==
  ASSUME TypeOK, NEW r \in Requests, phase[r] # "idle",
         NEW k \in Kinds, NEW i \in DOMAIN ledger[body[r].company][k],
         Answer(r, k, i), UNCHANGED <<account, ledger>>,
         level' \in [Companies -> Packages \cup {NoLevel}]
  PROVE  TypeOK'
  <1>1. i \in Nat
    BY DEF TypeOK, Bodies
  <1>2. /\ phase' = [phase EXCEPT ![r] = "answered"]
        /\ answer' = [answer EXCEPT ![r] = <<k, i>>]
        /\ UNCHANGED <<body, seenLevel>>
    BY DEF Answer
  <1> DEFINE a == <<k, i>>
  <1>3. a \in Kinds \X Nat /\ a[1] = k /\ a[2] = i
    BY <1>1
  <1> HIDE DEF a
  <1> QED
    BY <1>2, <1>3 DEF TypeOK, Phases

\* A posting keeps the types.
LEMMA PostType ==
  ASSUME TypeOK, NEW r \in Requests, Post(r)
  PROVE  TypeOK'
  <1> DEFINE c  == body[r].company
             ch == body[r].change
             e  == EntryFor(account[c], ch)
             n  == Len(ledger[c][ch.kind]) + 1
             a  == Credited(account[c], ch)
  <1>1. body[r] \in Bodies /\ c \in Companies /\ ch \in Changes /\ ch.kind \in Kinds
    BY DEF Post, TypeOK, Bodies, Changes
  <1>2. e \in Entries /\ a \in Accounts
    BY <1>1, EntryType, CreditedType DEF TypeOK
  <1>3. /\ account' = [account EXCEPT ![c] = a]
        /\ ledger' = [ledger EXCEPT ![c] = [ledger[c] EXCEPT
                                              ![ch.kind] = Append(ledger[c][ch.kind], e)]]
        /\ phase' = [phase EXCEPT ![r] = "answered"]
        /\ answer' = [answer EXCEPT ![r] = <<ch.kind, n>>]
        /\ UNCHANGED <<body, seenLevel>>
        /\ LevelWritten(r)
    BY <1>1 DEF Post, Answer, TypeOK
  <1>4. level' \in [Companies -> Packages \cup {NoLevel}]
    BY <1>1, <1>3, LevelType
  <1>5. account' \in [Companies -> Accounts]
    BY <1>1, <1>2, <1>3 DEF TypeOK
  <1>6. /\ ledger[c][ch.kind] \in Seq(Entries)
        /\ ledger[c] \in [Kinds -> Seq(Entries)]
    BY <1>1 DEF TypeOK
  <1>7. /\ Append(ledger[c][ch.kind], e) \in Seq(Entries)
        /\ n \in DOMAIN Append(ledger[c][ch.kind], e)
        /\ n \in Nat
        /\ DOMAIN ledger[c][ch.kind] \subseteq DOMAIN Append(ledger[c][ch.kind], e)
    BY <1>2, <1>6
  <1> HIDE DEF c, ch, e, n, a
  <1>8. ledger' \in [Companies -> [Kinds -> Seq(Entries)]]
    BY <1>1, <1>3, <1>6, <1>7 DEF TypeOK
  <1>9. \A d \in Companies, k \in Kinds : DOMAIN ledger[d][k] \subseteq DOMAIN ledger'[d][k]
    BY <1>1, <1>3, <1>6, <1>7 DEF TypeOK
  <1>10. /\ phase' \in [Requests -> Phases]
         /\ body' \in [Requests -> Bodies \cup {NoBody}]
         /\ seenLevel' \in [Requests -> Packages \cup {NoLevel}]
         /\ answer' \in [Requests -> Kinds \X Nat]
    BY <1>1, <1>3, <1>7 DEF TypeOK, Phases
  <1>11. \A s \in Requests : phase'[s] # "idle" => body'[s] \in Bodies
    BY <1>1, <1>3 DEF TypeOK
  <1>12. ASSUME NEW s \in Requests, phase'[s] = "answered"
         PROVE  answer'[s][2] \in DOMAIN ledger'[body'[s].company][answer'[s][1]]
    <2>1. CASE s = r
      <3>1. answer'[s][1] = ch.kind /\ answer'[s][2] = n
        BY <2>1, <1>3 DEF TypeOK
      <3>2. ledger'[body'[s].company][ch.kind] = Append(ledger[c][ch.kind], e)
        BY <2>1, <1>1, <1>3, <1>6 DEF TypeOK, c
      <3> QED
        BY <3>1, <3>2, <1>7
    <2>2. CASE s # r
      <3>1. phase[s] = "answered" /\ answer'[s] = answer[s] /\ body'[s] = body[s]
        BY <2>2, <1>3, <1>12 DEF TypeOK
      <3>2. body[s].company \in Companies /\ answer[s][1] \in Kinds
        BY <3>1 DEF TypeOK, Bodies
      <3> QED
        BY <3>1, <3>2, <1>9 DEF TypeOK
    <2> QED
      BY <2>1, <2>2
  <1> QED
    BY <1>4, <1>5, <1>8, <1>10, <1>11, <1>12 DEF TypeOK

\* The freeze of a settlement and its release keep the types.
LEMMA SettlementType ==
  ASSUME TypeOK, NEW c \in Companies, FreezeForSettlement(c) \/ ReleaseSettlement(c)
  PROVE  TypeOK'
  <1>1. CASE FreezeForSettlement(c)
    <2>1. account[c].balance \in [Kinds -> Nat]
      BY <1>1 DEF FreezeForSettlement, TypeOK, Accounts
    <2>2. [account[c] EXCEPT !.frozen = account[c].balance, !.settling = TRUE] \in Accounts
      BY <2>1, FrozenType DEF TypeOK
    <2>3. account' = [account EXCEPT ![c] = [account[c] EXCEPT !.frozen = account[c].balance,
                                                             !.settling = TRUE]]
      BY <1>1 DEF FreezeForSettlement, TypeOK
    <2>4. account' \in [Companies -> Accounts]
      BY <2>2, <2>3 DEF TypeOK
    <2> QED
      BY <1>1, <2>4 DEF FreezeForSettlement, TypeOK
  <1>2. CASE ReleaseSettlement(c)
    <2>1. [account[c] EXCEPT !.frozen = [k \in Kinds |-> 0], !.settling = FALSE] \in Accounts
      BY FrozenType DEF TypeOK
    <2>2. account' = [account EXCEPT ![c] = [account[c] EXCEPT !.frozen = [k \in Kinds |-> 0],
                                                             !.settling = FALSE]]
      BY <1>2 DEF ReleaseSettlement, TypeOK
    <2>3. account' \in [Companies -> Accounts]
      BY <2>1, <2>2 DEF TypeOK
    <2> QED
      BY <1>2, <2>3 DEF ReleaseSettlement, TypeOK
  <1> QED
    BY <1>1, <1>2

\* Every step keeps the types.
LEMMA TypeStep ==
  ASSUME TypeOK, [Next]_vars
  PROVE  TypeOK'
  <1>1. ASSUME NEW r \in Requests, ReceiveRecharge(r) \/ ReceiveAdjustment(r) \/ ReceiveReversal(r)
        PROVE  TypeOK'
    BY <1>1, ReceivedTypes
  <1>2. ASSUME NEW r \in Requests, RechargeKnownKey(r)
        PROVE  TypeOK'
    <2>1. phase[r] # "idle" /\ UNCHANGED <<account, ledger, level>>
      BY <1>2 DEF RechargeKnownKey, Asks, accountVars
    <2>2. \E k \in Kinds : \E i \in DOMAIN ledger[body[r].company][k] : Answer(r, k, i)
      BY <1>2 DEF RechargeKnownKey
    <2> QED
      BY <2>1, <2>2, AnswerType DEF TypeOK
  <1>3. ASSUME NEW r \in Requests, RechargeNewKey(r) \/ ReversalChecked(r)
        PROVE  TypeOK'
    <2>1. \E next \in Phases \ {"answered"} : Proceed(r, next)
      BY <1>3 DEF RechargeNewKey, ReversalChecked, Phases
    <2>2. phase[r] # "idle" /\ seenLevel' = seenLevel
      BY <1>3 DEF RechargeNewKey, ReversalChecked, Asks
    <2> QED
      BY <2>1, <2>2, ProceedType DEF TypeOK
  <1>4. ASSUME NEW r \in Requests,
               RechargeReferenceUsed(r) \/ RechargePackageRefused(r)
                 \/ AlreadyReversed(r) \/ KeyConflict(r) \/ PostRefused(r)
        PROVE  TypeOK'
    BY <1>4, RefuseType
    DEF RechargeReferenceUsed, RechargePackageRefused, AlreadyReversed, KeyConflict,
        PostRefused, Asks
  <1>5. ASSUME NEW r \in Requests, RechargeChecked(r)
        PROVE  TypeOK'
    <2>1. phase[r] # "idle" /\ Proceed(r, "checked") /\ "checked" \in Phases \ {"answered"}
      BY <1>5 DEF RechargeChecked, Asks, Phases
    <2>2. seenLevel' \in [Requests -> Packages \cup {NoLevel}]
      BY <1>5, <2>1 DEF RechargeChecked, TypeOK, Bodies
    <2> QED
      BY <2>1, <2>2, ProceedType
  <1>6. ASSUME NEW r \in Requests, Replay(r)
        PROVE  TypeOK'
    <2>1. phase[r] # "idle" /\ body[r] \in Bodies /\ UNCHANGED <<account, ledger>>
      BY <1>6 DEF Replay, TypeOK
    <2>2. level' \in [Companies -> Packages \cup {NoLevel}]
      BY <1>6, <2>1, LevelType DEF Replay
    <2>3. \E k \in Kinds : \E i \in DOMAIN ledger[body[r].company][k] : Answer(r, k, i)
      BY <1>6 DEF Replay
    <2> QED
      BY <2>1, <2>2, <2>3, AnswerType
  <1>7. ASSUME NEW r \in Requests, Post(r)
        PROVE  TypeOK'
    BY <1>7, PostType
  <1>8. ASSUME NEW c \in Companies, FreezeForSettlement(c) \/ ReleaseSettlement(c)
        PROVE  TypeOK'
    BY <1>8, SettlementType
  <1>9. CASE UNCHANGED vars
    BY <1>9 DEF vars, TypeOK
  <1> QED
    BY <1>1, <1>2, <1>3, <1>4, <1>5, <1>6, <1>7, <1>8, <1>9 DEF Next

\* Type correctness: whatever requests interleave, the accounts, the ledgers
\* and the answers keep their shape; every answer names an existing entry.
THEOREM TypeCorrect == Spec => []TypeOK
  <1>1. Init => TypeOK
    <2> SUFFICES ASSUME Init PROVE TypeOK
      OBVIOUS
    <2>1. EmptyAccount \in Accounts /\ [EmptyAccount EXCEPT !.ready = FALSE] \in Accounts
      BY EmptyAccountType
    <2>2. ledger \in [Companies -> [Kinds -> Seq(Entries)]]
      BY DEF Init
    <2>3. NoEntry \in Kinds \X Nat
      BY DEF NoEntry, Kinds
    <2> QED
      BY <2>1, <2>2, <2>3 DEF Init, TypeOK, Phases
  <1>2. TypeOK /\ [Next]_vars => TypeOK'
    BY TypeStep
  <1> QED
    BY <1>1, <1>2, PTL DEF Spec

-----------------------------------------------------------------------------
\* What a posting does to the company's wallets, in the terms the invariants
\* below speak of: one wallet gets one entry and its balance the entry's after.
LEMMA PostEffect ==
  ASSUME TypeOK, NEW r \in Requests, Post(r)
  PROVE  \E c \in Companies, ch \in Changes :
           /\ ch = body[r].change /\ c = body[r].company
           /\ Accepts(account[c], ch) /\ ~KeyKnown(c, ch.key)
           /\ ledger' = [ledger EXCEPT ![c] = [ledger[c] EXCEPT ![ch.kind] =
                           Append(ledger[c][ch.kind], EntryFor(account[c], ch))]]
           /\ \A d \in Companies, k \in Kinds :
                /\ account'[d].frozen[k] = account[d].frozen[k]
                /\ account'[d].balance[k] =
                     IF d = c /\ k = ch.kind THEN account[c].balance[k] + ch.delta
                                             ELSE account[d].balance[k]
  <1> DEFINE c == body[r].company  ch == body[r].change
  <1>1. c \in Companies /\ ch \in Changes /\ ch.kind \in Kinds /\ account[c] \in Accounts
    BY DEF Post, TypeOK, Bodies, Changes
  <1>2. /\ account' = [account EXCEPT ![c] = Credited(account[c], ch)]
        /\ Accepts(account[c], ch) /\ ~KeyKnown(c, ch.key)
        /\ ledger' = [ledger EXCEPT ![c] = [ledger[c] EXCEPT ![ch.kind] =
                           Append(ledger[c][ch.kind], EntryFor(account[c], ch))]]
    BY <1>1 DEF Post, TypeOK
  <1>3. \A k \in Kinds :
          /\ Credited(account[c], ch).frozen[k] = account[c].frozen[k]
          /\ Credited(account[c], ch).balance[k] =
               IF k = ch.kind THEN account[c].balance[k] + ch.delta
                              ELSE account[c].balance[k]
    BY <1>1 DEF Credited, Accounts
  <1> HIDE DEF c, ch
  <1>4. \A d \in Companies, k \in Kinds :
          /\ account'[d].frozen[k] = account[d].frozen[k]
          /\ account'[d].balance[k] =
               IF d = c /\ k = ch.kind THEN account[c].balance[k] + ch.delta
                                       ELSE account[d].balance[k]
    BY <1>1, <1>2, <1>3 DEF TypeOK
  <1> QED
    BY <1>1, <1>2, <1>4 DEF c, ch

\* A step that is not a posting writes no entry and moves no balance.
LEMMA OtherSteps ==
  ASSUME [Next]_vars, ~\E r \in Requests : Post(r)
  PROVE  /\ ledger' = ledger
         /\ \/ account' = account
            \/ \E c \in Companies : FreezeForSettlement(c) \/ ReleaseSettlement(c)
  BY DEF Next, vars, accountVars, ReceiveRecharge, ReceiveAdjustment, ReceiveReversal,
         Receive, RechargeKnownKey, RechargeNewKey, RechargeReferenceUsed,
         RechargePackageRefused, RechargeChecked, ReversalChecked, AlreadyReversed,
         Replay, KeyConflict, PostRefused, Proceed, Refuse, FreezeForSettlement,
         ReleaseSettlement

\* The settlement actions move no balance.
LEMMA SettlementBalances ==
  ASSUME TypeOK, NEW c \in Companies, FreezeForSettlement(c) \/ ReleaseSettlement(c)
  PROVE  \A d \in Companies : account'[d].balance = account[d].balance
  <1>1. \A a \in Accounts : \A f, s : [a EXCEPT !.frozen = f, !.settling = s].balance = a.balance
    BY DEF Accounts
  <1>2. CASE FreezeForSettlement(c)
    <2>1. account' = [account EXCEPT ![c] = [account[c] EXCEPT !.frozen = account[c].balance,
                                                             !.settling = TRUE]]
      BY <1>2 DEF FreezeForSettlement, TypeOK
    <2> QED
      BY <2>1, <1>1 DEF TypeOK
  <1>3. CASE ReleaseSettlement(c)
    <2>1. account' = [account EXCEPT ![c] = [account[c] EXCEPT !.frozen = [k \in Kinds |-> 0],
                                                             !.settling = FALSE]]
      BY <1>3 DEF ReleaseSettlement, TypeOK
    <2> QED
      BY <2>1, <1>1 DEF TypeOK
  <1> QED
    BY <1>2, <1>3

\* The amounts of a typed account.
LEMMA AmountTypes ==
  ASSUME TypeOK, NEW c \in Companies, NEW k \in Kinds
  PROVE  account[c].balance[k] \in Int /\ account[c].frozen[k] \in Nat
  <1>1. account[c].balance \in [Kinds -> Int] /\ account[c].frozen \in [Kinds -> Nat]
    BY DEF TypeOK, Accounts
  <1> QED
    BY <1>1

\* Every account starts with nothing on it.
LEMMA InitialAmounts ==
  ASSUME Init, NEW c \in Companies, NEW k \in Kinds
  PROVE  account[c].balance[k] = 0 /\ account[c].frozen[k] = 0
  <1>1. account[c] \in {EmptyAccount, [EmptyAccount EXCEPT !.ready = FALSE]}
    BY DEF Init
  <1>2. EmptyAccount.balance[k] = 0 /\ EmptyAccount.frozen[k] = 0
    BY DEF EmptyAccount
  <1>3. /\ [EmptyAccount EXCEPT !.ready = FALSE].balance = EmptyAccount.balance
        /\ [EmptyAccount EXCEPT !.ready = FALSE].frozen = EmptyAccount.frozen
    BY DEF EmptyAccount
  <1> QED
    BY <1>1, <1>2, <1>3

-----------------------------------------------------------------------------
\* Whatever a termination froze stays covered by the balance.
THEOREM FreezeCovered == Spec => []BalanceCoversFreeze
  <1>1. Init => BalanceCoversFreeze
    BY InitialAmounts DEF BalanceCoversFreeze
  <1>2. TypeOK /\ BalanceCoversFreeze /\ [Next]_vars => BalanceCoversFreeze'
    <2> SUFFICES ASSUME TypeOK, BalanceCoversFreeze, [Next]_vars
                 PROVE  BalanceCoversFreeze'
      OBVIOUS
    <2>1. ASSUME NEW r \in Requests, Post(r)
          PROVE  BalanceCoversFreeze'
      <3>1. PICK c \in Companies, ch \in Changes :
              /\ Accepts(account[c], ch)
              /\ \A d \in Companies, k \in Kinds :
                /\ account'[d].frozen[k] = account[d].frozen[k]
                /\ account'[d].balance[k] =
                     IF d = c /\ k = ch.kind THEN account[c].balance[k] + ch.delta
                                             ELSE account[d].balance[k]
        BY <2>1, PostEffect
      <3>2. /\ ch.kind \in Kinds /\ ch.delta \in Int
            /\ account[c].balance[ch.kind] \in Int /\ account[c].frozen[ch.kind] \in Nat
            /\ ch.allowFrozen = FALSE /\ ch.allowNegative = FALSE
        BY AmountTypes DEF Changes
      <3>3. account[c].frozen[ch.kind] <= account[c].balance[ch.kind] + ch.delta
        BY <3>1, <3>2 DEF Accepts, Covered, BalanceCoversFreeze
      <3> QED
        BY <3>1, <3>3 DEF BalanceCoversFreeze
    <2>2. ASSUME NEW c \in Companies, FreezeForSettlement(c)
          PROVE  BalanceCoversFreeze'
      BY <2>2 DEF FreezeForSettlement, BalanceCoversFreeze, TypeOK, Accounts
    <2>3. ASSUME NEW c \in Companies, ReleaseSettlement(c)
          PROVE  BalanceCoversFreeze'
      BY <2>3 DEF ReleaseSettlement, BalanceCoversFreeze, TypeOK, Accounts
    <2>4. CASE account' = account
      BY <2>4 DEF BalanceCoversFreeze
    <2> QED
      BY <2>1, <2>2, <2>3, <2>4, OtherSteps
  <1> QED
    BY <1>1, <1>2, TypeCorrect, PTL DEF Spec

\* An idempotency key names one entry of a company, over both wallets.
THEOREM KeysUnique == Spec => []KeyNamesOneEntry
  <1>1. Init => KeyNamesOneEntry
    BY DEF Init, KeyNamesOneEntry
  <1>2. TypeOK /\ KeyNamesOneEntry /\ [Next]_vars => KeyNamesOneEntry'
    <2> SUFFICES ASSUME TypeOK, KeyNamesOneEntry, [Next]_vars
                 PROVE  KeyNamesOneEntry'
      OBVIOUS
    <2>1. ASSUME NEW r \in Requests, Post(r)
          PROVE  KeyNamesOneEntry'
      <3>1. PICK c \in Companies, ch \in Changes :
              /\ ~KeyKnown(c, ch.key)
              /\ ledger' = [ledger EXCEPT ![c] = [ledger[c] EXCEPT ![ch.kind] =
                              Append(ledger[c][ch.kind], EntryFor(account[c], ch))]]
        BY <2>1, PostEffect
      <3> DEFINE e == EntryFor(account[c], ch)
      <3>2. e.key = ch.key /\ ch.kind \in Kinds
        BY DEF EntryFor, Changes
      <3>3. ledger[c] \in [Kinds -> Seq(Entries)]
        BY DEF TypeOK
      <3> HIDE DEF e
      <3>4. \A d \in Companies, k \in Kinds :
              IF d = c /\ k = ch.kind
              THEN ledger'[d][k] = Append(ledger[c][ch.kind], e)
              ELSE ledger'[d][k] = ledger[d][k]
        BY <3>1, <3>2, <3>3 DEF TypeOK, e
      <3>5. \A i \in DOMAIN Append(ledger[c][ch.kind], e) :
              \/ i \in DOMAIN ledger[c][ch.kind]
                   /\ Append(ledger[c][ch.kind], e)[i] = ledger[c][ch.kind][i]
              \/ i = Len(ledger[c][ch.kind]) + 1 /\ Append(ledger[c][ch.kind], e)[i] = e
        BY <3>2, <3>3
      <3>6. ASSUME NEW d \in Companies, NEW k1 \in Kinds, NEW k2 \in Kinds,
                   NEW i1 \in DOMAIN ledger'[d][k1], NEW i2 \in DOMAIN ledger'[d][k2],
                   ledger'[d][k1][i1].key = ledger'[d][k2][i2].key
            PROVE  k1 = k2 /\ i1 = i2
        <4>1. ASSUME NEW k \in Kinds, NEW i \in DOMAIN ledger'[d][k]
              PROVE  \/ i \in DOMAIN ledger[d][k] /\ ledger'[d][k][i] = ledger[d][k][i]
                     \/ /\ d = c /\ k = ch.kind /\ i = Len(ledger[c][ch.kind]) + 1
                        /\ ledger'[d][k][i] = e
          BY <3>4, <3>5
        <4>2. \A k \in Kinds : \A i \in DOMAIN ledger[c][k] : ledger[c][k][i].key # e.key
          BY <3>1, <3>2 DEF KeyKnown
        <4> QED
          BY <4>1, <4>2, <3>6 DEF KeyNamesOneEntry
      <3> QED
        BY <3>6 DEF KeyNamesOneEntry
    <2>2. CASE ledger' = ledger
      BY <2>2 DEF KeyNamesOneEntry
    <2> QED
      BY <2>1, <2>2, OtherSteps
  <1> QED
    BY <1>1, <1>2, TypeCorrect, PTL DEF Spec

\* Every wallet reconciles with its ledger, entry by entry.
THEOREM WalletsReconcile == Spec => []Reconciled
  <1>1. Init => Reconciled
    <2> SUFFICES ASSUME Init, NEW c \in Companies, NEW k \in Kinds
                 PROVE  /\ account[c].balance[k] = ClosingBalance(ledger[c][k])
                        /\ \A i \in DOMAIN ledger[c][k] : FALSE
      BY DEF Reconciled
    <2>1. ledger[c][k] = <<>>
      BY DEF Init
    <2> QED
      BY <2>1, InitialAmounts DEF ClosingBalance
  <1>2. TypeOK /\ Reconciled /\ [Next]_vars => Reconciled'
    <2> SUFFICES ASSUME TypeOK, Reconciled, [Next]_vars
                 PROVE  Reconciled'
      OBVIOUS
    <2>1. ASSUME NEW r \in Requests, Post(r)
          PROVE  Reconciled'
      <3>1. PICK c \in Companies, ch \in Changes :
              /\ ledger' = [ledger EXCEPT ![c] = [ledger[c] EXCEPT ![ch.kind] =
                              Append(ledger[c][ch.kind], EntryFor(account[c], ch))]]
              /\ \A d \in Companies, k \in Kinds :
                /\ account'[d].frozen[k] = account[d].frozen[k]
                /\ account'[d].balance[k] =
                     IF d = c /\ k = ch.kind THEN account[c].balance[k] + ch.delta
                                             ELSE account[d].balance[k]
        BY <2>1, PostEffect
      <3> DEFINE e == EntryFor(account[c], ch)
                 old == ledger[c][ch.kind]
                 new == Append(old, e)
      <3>2. /\ ch.kind \in Kinds /\ ch.delta \in Int
            /\ e \in Entries
            /\ e.after = account[c].balance[ch.kind] + ch.delta /\ e.delta = ch.delta
        BY EntryType DEF EntryFor, Changes, TypeOK
      <3>3. ledger[c] \in [Kinds -> Seq(Entries)] /\ old \in Seq(Entries)
        BY <3>2 DEF TypeOK
      <3>4. /\ account[c].balance[ch.kind] = ClosingBalance(old)
            /\ \A i \in DOMAIN old : old[i].after = BalanceBefore(old, i) + old[i].delta
        BY <3>2 DEF Reconciled
      <3> HIDE DEF e
      <3>5. \A d \in Companies, k \in Kinds :
              ledger'[d][k] = IF d = c /\ k = ch.kind THEN new ELSE ledger[d][k]
        BY <3>1, <3>2, <3>3 DEF TypeOK, e
      <3>6. /\ Len(new) = Len(old) + 1 /\ new # <<>> /\ new[Len(old) + 1] = e
            /\ \A i \in DOMAIN old : new[i] = old[i]
            /\ DOMAIN new = 1 .. Len(old) + 1 /\ DOMAIN old = 1 .. Len(old)
            /\ Len(old) \in Nat
        BY <3>2, <3>3
      <3> HIDE DEF new
      <3>7. ClosingBalance(new) = account[c].balance[ch.kind] + ch.delta
        BY <3>2, <3>6 DEF ClosingBalance
      <3>8. BalanceBefore(new, Len(old) + 1) = account[c].balance[ch.kind]
        <4>1. CASE old = <<>>
          BY <4>1, <3>4 DEF BalanceBefore, ClosingBalance
        <4>2. CASE old # <<>>
          <5>1. Len(old) >= 1 /\ Len(old) \in DOMAIN old
            BY <4>2, <3>3, <3>6
          <5>2. new[Len(old)] = old[Len(old)]
            BY <5>1, <3>6
          <5> QED
            BY <4>2, <5>1, <5>2, <3>4, <3>6 DEF BalanceBefore, ClosingBalance
        <4> QED
          BY <4>1, <4>2
      <3>9. \A i \in DOMAIN new : new[i].after = BalanceBefore(new, i) + new[i].delta
        <4> SUFFICES ASSUME NEW i \in DOMAIN new
                     PROVE  new[i].after = BalanceBefore(new, i) + new[i].delta
          OBVIOUS
        <4>1. CASE i = Len(old) + 1
          BY <4>1, <3>2, <3>6, <3>8
        <4>2. CASE i \in DOMAIN old
          <5>1. new[i] = old[i] /\ (i # 1 => i - 1 \in DOMAIN old /\ new[i - 1] = old[i - 1])
            BY <4>2, <3>6
          <5> QED
            BY <4>2, <5>1, <3>4 DEF BalanceBefore
        <4> QED
          BY <4>1, <4>2, <3>6
      <3> HIDE DEF old
      <3> SUFFICES ASSUME NEW d \in Companies, NEW k \in Kinds
                   PROVE  /\ account'[d].balance[k] = ClosingBalance(ledger'[d][k])
                          /\ \A i \in DOMAIN ledger'[d][k] :
                               ledger'[d][k][i].after
                                 = BalanceBefore(ledger'[d][k], i) + ledger'[d][k][i].delta
        BY DEF Reconciled
      <3>10. CASE d = c /\ k = ch.kind
        <4>1. ledger'[d][k] = new
          BY <3>10, <3>5
        <4>2. account'[d].balance[k] = account[c].balance[ch.kind] + ch.delta
          BY <3>10, <3>1
        <4> QED
          BY <4>1, <4>2, <3>7, <3>9
      <3>11. CASE ~(d = c /\ k = ch.kind)
        <4>1. ledger'[d][k] = ledger[d][k] /\ account'[d].balance[k] = account[d].balance[k]
          BY <3>11, <3>1, <3>5
        <4>2. /\ account[d].balance[k] = ClosingBalance(ledger[d][k])
              /\ \A i \in DOMAIN ledger[d][k] : ledger[d][k][i].after
                   = BalanceBefore(ledger[d][k], i) + ledger[d][k][i].delta
          BY DEF Reconciled
        <4> QED
          BY <4>1, <4>2
      <3> QED
        BY <3>10, <3>11
    <2>2. ASSUME ledger' = ledger,
                 \A d \in Companies : account'[d].balance = account[d].balance
          PROVE  Reconciled'
      BY <2>2 DEF Reconciled
    <2> QED
      BY <2>1, <2>2, OtherSteps, SettlementBalances
  <1> QED
    BY <1>1, <1>2, TypeCorrect, PTL DEF Spec

-----------------------------------------------------------------------------
\* An entry, once written, stays where it is: a step appends to a wallet or
\* leaves it alone.
LEMMA EntriesStay ==
  ASSUME TypeOK, [Next]_vars, NEW c \in Companies, NEW k \in Kinds,
         NEW i \in DOMAIN ledger[c][k]
  PROVE  i \in DOMAIN ledger'[c][k] /\ ledger'[c][k][i] = ledger[c][k][i]
  <1>1. ASSUME NEW r \in Requests, Post(r)
        PROVE  i \in DOMAIN ledger'[c][k] /\ ledger'[c][k][i] = ledger[c][k][i]
    <2>1. PICK d \in Companies, ch \in Changes :
            ledger' = [ledger EXCEPT ![d] = [ledger[d] EXCEPT ![ch.kind] =
                         Append(ledger[d][ch.kind], EntryFor(account[d], ch))]]
      BY <1>1, PostEffect
    <2>2. ledger[c][k] \in Seq(Entries) /\ ch.kind \in Kinds
      BY DEF TypeOK, Changes
    <2> DEFINE e == EntryFor(account[d], ch)
    <2>3. i \in DOMAIN Append(ledger[c][k], e) /\ Append(ledger[c][k], e)[i] = ledger[c][k][i]
      <3> HIDE DEF e
      <3> QED
        BY <2>2
    <2>4. ledger'[c][k] \in {ledger[c][k], Append(ledger[c][k], e)}
      <3> HIDE DEF e
      <3>1. ledger' = [ledger EXCEPT ![d] = [ledger[d] EXCEPT ![ch.kind] =
                         Append(ledger[d][ch.kind], e)]]
        BY <2>1 DEF e
      <3>2. ledger[d] \in [Kinds -> Seq(Entries)] /\ ledger[c] \in [Kinds -> Seq(Entries)]
        BY DEF TypeOK
      <3> QED
        BY <2>2, <3>1, <3>2 DEF TypeOK
    <2> QED
      BY <2>3, <2>4
  <1> QED
    BY <1>1, OtherSteps

\* Who is answered was answered before, or is now: from the ledger by its key,
\* as the replay of a posting, or with a posting of its own.
LEMMA NewAnswers ==
  ASSUME TypeOK, [Next]_vars, NEW r \in Requests, phase'[r] = "answered"
  PROVE  \/ phase[r] = "answered" /\ answer'[r] = answer[r] /\ body'[r] = body[r]
         \/ RechargeKnownKey(r) \/ Replay(r) \/ Post(r)
  <1> USE DEF TypeOK
  <1>1. ASSUME NEW q \in Requests,
               ReceiveRecharge(q) \/ ReceiveAdjustment(q) \/ ReceiveReversal(q)
        PROVE  phase[r] = "answered" /\ answer'[r] = answer[r] /\ body'[r] = body[r]
    <2>1. /\ phase[q] = "idle" /\ answer' = answer
          /\ \E next \in {"received", "checked"} : phase' = [phase EXCEPT ![q] = next]
          /\ \E b : body' = [body EXCEPT ![q] = b]
      BY <1>1 DEF ReceiveRecharge, ReceiveAdjustment, ReceiveReversal, Receive
    <2> QED
      BY <2>1
  <1>2. ASSUME NEW q \in Requests,
               \/ RechargeNewKey(q) \/ RechargeReferenceUsed(q) \/ RechargePackageRefused(q)
               \/ RechargeChecked(q) \/ ReversalChecked(q) \/ AlreadyReversed(q)
               \/ KeyConflict(q) \/ PostRefused(q)
        PROVE  phase[r] = "answered" /\ answer'[r] = answer[r] /\ body'[r] = body[r]
    <2>1. /\ answer' = answer /\ body' = body
          /\ \E next \in {"keyed", "checked", "refused"} : phase' = [phase EXCEPT ![q] = next]
      BY <1>2 DEF RechargeNewKey, RechargeReferenceUsed, RechargePackageRefused, RechargeChecked,
                  ReversalChecked, AlreadyReversed, KeyConflict, PostRefused, Refuse, Proceed
    <2> QED
      BY <2>1
  <1>3. ASSUME NEW q \in Requests, q # r, RechargeKnownKey(q) \/ Replay(q) \/ Post(q)
        PROVE  phase[r] = "answered" /\ answer'[r] = answer[r] /\ body'[r] = body[r]
    <2>1. \E a : /\ phase' = [phase EXCEPT ![q] = "answered"]
                 /\ answer' = [answer EXCEPT ![q] = a]
                 /\ body' = body
      BY <1>3 DEF RechargeKnownKey, Replay, Post, Answer
    <2> QED
      BY <1>3, <2>1
  <1>4. ASSUME NEW c \in Companies, FreezeForSettlement(c) \/ ReleaseSettlement(c)
        PROVE  phase[r] = "answered" /\ answer'[r] = answer[r] /\ body'[r] = body[r]
    BY <1>4 DEF FreezeForSettlement, ReleaseSettlement
  <1>5. CASE UNCHANGED vars
    BY <1>5 DEF vars
  <1> QED
    BY <1>1, <1>2, <1>3, <1>4, <1>5 DEF Next

\* An adjustment or a reversal is answered with the entry of the posting it
\* asked for, whoever posted it: no answer moves to another entry later.
THEOREM AnswerIsHonest == Spec => []AnswerIsItsOwnEntry
  <1>1. Init => AnswerIsItsOwnEntry
    BY DEF Init, AnswerIsItsOwnEntry
  <1>2. TypeOK /\ TypeOK' /\ AnswerIsItsOwnEntry /\ [Next]_vars => AnswerIsItsOwnEntry'
    <2> SUFFICES ASSUME TypeOK, TypeOK', AnswerIsItsOwnEntry, [Next]_vars, NEW r \in Requests,
                        phase'[r] = "answered", body'[r].change.type \in {"ADJUST", "REVERSAL"}
                 PROVE  SamePosting(AnswerOf(r)', body'[r].change)
      BY DEF AnswerIsItsOwnEntry
    <2>1. CASE phase[r] = "answered" /\ answer'[r] = answer[r] /\ body'[r] = body[r]
      <3>1. /\ body[r].company \in Companies /\ answer[r][1] \in Kinds
            /\ answer[r][2] \in DOMAIN ledger[body[r].company][answer[r][1]]
        BY <2>1 DEF TypeOK, Bodies
      <3>2. AnswerOf(r)' = AnswerOf(r)
        BY <2>1, <3>1, EntriesStay DEF AnswerOf
      <3> QED
        BY <2>1, <3>2 DEF AnswerIsItsOwnEntry
    <2>2. CASE RechargeKnownKey(r)
      BY <2>2 DEF RechargeKnownKey, Asks, Answer
    <2>3. CASE Replay(r)
      <3>1. PICK k \in Kinds : \E i \in DOMAIN ledger[body[r].company][k] :
              SamePosting(ledger[body[r].company][k][i], body[r].change) /\ Answer(r, k, i)
        BY <2>3 DEF Replay
      <3>2. PICK i \in DOMAIN ledger[body[r].company][k] :
              SamePosting(ledger[body[r].company][k][i], body[r].change) /\ Answer(r, k, i)
        BY <3>1
      <3>3. answer'[r] = <<k, i>> /\ body' = body /\ ledger' = ledger
        BY <2>3, <3>2 DEF Answer, Replay, TypeOK
      <3> QED
        BY <3>2, <3>3 DEF AnswerOf
    <2>4. CASE Post(r)
      <3> DEFINE c == body[r].company  ch == body[r].change
                 e == EntryFor(account[c], ch)
                 old == ledger[c][ch.kind]
      <3>1. c \in Companies /\ ch \in Changes /\ ch.kind \in Kinds /\ ledger[c] \in [Kinds -> Seq(Entries)]
        BY <2>4 DEF Post, TypeOK, Bodies, Changes
      <3>2. /\ ledger' = [ledger EXCEPT ![c] = [ledger[c] EXCEPT ![ch.kind] = Append(old, e)]]
            /\ answer'[r] = <<ch.kind, Len(old) + 1>> /\ body' = body
        BY <2>4, <3>1 DEF Post, Answer, TypeOK
      <3>3. SamePosting(e, ch)
        BY <3>1 DEF SamePosting, EntryFor, Changes
      <3>4. old \in Seq(Entries)
        BY <3>1
      <3> HIDE DEF e
      <3>5. ledger'[c][ch.kind] = Append(old, e)
        BY <3>1, <3>2 DEF TypeOK
      <3> HIDE DEF old
      <3>6. Append(old, e)[Len(old) + 1] = e
        BY <3>4
      <3> HIDE DEF c, ch
      <3>7. AnswerOf(r)' = e
        <4>1. body'[r].company = c /\ answer'[r][1] = ch.kind /\ answer'[r][2] = Len(old) + 1
          BY <3>2 DEF c
        <4> QED
          BY <3>5, <3>6, <4>1 DEF AnswerOf
      <3> QED
        BY <3>2, <3>3, <3>7 DEF ch
    <2> QED
      BY <2>1, <2>2, <2>3, <2>4, NewAnswers
  <1> QED
    BY <1>1, <1>2, TypeCorrect, PTL DEF Spec

-----------------------------------------------------------------------------
\* Every entry is in the wallet it names, and a recharge is in the customer's.
WalletsHoldTheirOwn ==
  \A c \in Companies, k \in Kinds : \A i \in DOMAIN ledger[c][k] :
    /\ ledger[c][k][i].kind = k
    /\ ledger[c][k][i].type = "RECHARGE" => k = "CUSTOMER"

\* A posting appends an entry of its own kind, of a type the wallet takes.
LEMMA PostedEntry ==
  ASSUME TypeOK, NEW r \in Requests, Post(r)
  PROVE  \E c \in Companies, k \in Kinds, e \in Entries :
           /\ c = body[r].company
           /\ ledger' = [ledger EXCEPT ![c] = [ledger[c] EXCEPT ![k] = Append(ledger[c][k], e)]]
           /\ e.kind = k /\ (e.type = "RECHARGE" => k = "CUSTOMER")
           /\ e.type = body[r].change.type /\ e.business = body[r].change.business
           /\ k = body[r].change.kind /\ e.related = body[r].change.related
           /\ e.ref = body[r].change.ref
  <1>1. PICK c \in Companies, ch \in Changes :
          /\ ch = body[r].change /\ c = body[r].company
          /\ Accepts(account[c], ch)
          /\ ledger' = [ledger EXCEPT ![c] = [ledger[c] EXCEPT ![ch.kind] =
                          Append(ledger[c][ch.kind], EntryFor(account[c], ch))]]
    BY PostEffect
  <1>2. EntryFor(account[c], ch) \in Entries /\ ch.kind \in Kinds
    BY EntryType DEF TypeOK, Changes
  <1>3. /\ EntryFor(account[c], ch).kind = ch.kind /\ EntryFor(account[c], ch).type = ch.type
        /\ EntryFor(account[c], ch).business = ch.business
        /\ EntryFor(account[c], ch).related = ch.related
        /\ EntryFor(account[c], ch).ref = ch.ref
    BY DEF EntryFor
  <1>4. ch.type = "RECHARGE" => ch.kind = "CUSTOMER"
    BY <1>1 DEF Accepts, WellFormed, WalletsOf
  <1> DEFINE e == EntryFor(account[c], ch)
  <1>5. /\ e \in Entries /\ ch.kind \in Kinds /\ c = body[r].company
        /\ ledger' = [ledger EXCEPT ![c] = [ledger[c] EXCEPT ![ch.kind] = Append(ledger[c][ch.kind], e)]]
        /\ e.kind = ch.kind /\ (e.type = "RECHARGE" => ch.kind = "CUSTOMER")
        /\ e.type = body[r].change.type /\ e.business = body[r].change.business
        /\ ch.kind = body[r].change.kind /\ e.related = body[r].change.related
        /\ e.ref = body[r].change.ref
    BY <1>1, <1>2, <1>3, <1>4
  <1> HIDE DEF e
  <1> QED
    BY <1>5

\* An entry of a wallet is an old one, or the one just posted.
LEMMA WalletsStep ==
  ASSUME TypeOK, WalletsHoldTheirOwn, [Next]_vars
  PROVE  WalletsHoldTheirOwn'
  <1>1. ASSUME NEW r \in Requests, Post(r)
        PROVE  WalletsHoldTheirOwn'
    <2>1. PICK c \in Companies, k \in Kinds, e \in Entries :
            /\ ledger' = [ledger EXCEPT ![c] = [ledger[c] EXCEPT ![k] = Append(ledger[c][k], e)]]
            /\ e.kind = k /\ (e.type = "RECHARGE" => k = "CUSTOMER")
      BY <1>1, PostedEntry
    <2>2. ledger[c] \in [Kinds -> Seq(Entries)] /\ ledger[c][k] \in Seq(Entries)
      BY DEF TypeOK
    <2> SUFFICES ASSUME NEW d \in Companies, NEW m \in Kinds, NEW i \in DOMAIN ledger'[d][m]
                 PROVE  /\ ledger'[d][m][i].kind = m
                        /\ ledger'[d][m][i].type = "RECHARGE" => m = "CUSTOMER"
      BY DEF WalletsHoldTheirOwn
    <2>3. CASE d = c /\ m = k
      <3>1. ledger'[d][m] = Append(ledger[c][k], e)
        BY <2>1, <2>2, <2>3 DEF TypeOK
      <3>2. \/ i \in DOMAIN ledger[c][k] /\ ledger'[d][m][i] = ledger[c][k][i]
            \/ ledger'[d][m][i] = e
        BY <2>2, <3>1
      <3> QED
        BY <2>1, <2>3, <3>2 DEF WalletsHoldTheirOwn
    <2>4. CASE ~(d = c /\ m = k)
      <3>1. ledger'[d][m] = ledger[d][m]
        BY <2>1, <2>2, <2>4 DEF TypeOK
      <3> QED
        BY <3>1 DEF WalletsHoldTheirOwn
    <2> QED
      BY <2>3, <2>4
  <1>2. CASE ledger' = ledger
    BY <1>2 DEF WalletsHoldTheirOwn
  <1> QED
    BY <1>1, <1>2, OtherSteps

\* The customer wallet of c holds a recharge with package p.
PaidFor(c, p) ==
  \E i \in DOMAIN ledger[c]["CUSTOMER"] :
    /\ ledger[c]["CUSTOMER"][i].type = "RECHARGE"
    /\ ledger[c]["CUSTOMER"][i].business = p

\* A level changes only with a recharge that is in the ledger after the step.
LEMMA LevelStep ==
  ASSUME TypeOK, WalletsHoldTheirOwn, [Next]_vars, NEW c \in Companies
  PROVE  level'[c] = level[c] \/ PaidFor(c, level[c])'
  <1>1. ASSUME NEW r \in Requests, LevelWritten(r),
               ~(body[r].company = c /\ body[r].change.type = "RECHARGE")
        PROVE  level'[c] = level[c]
    BY <1>1 DEF LevelWritten, TypeOK
  <1>2. ASSUME NEW r \in Requests, LevelWritten(r), body[r].company = c
        PROVE  level'[c] = level[c] \/ level'[c] = body[r].change.business
    BY <1>2 DEF LevelWritten, TypeOK
  <1>3. ASSUME NEW r \in Requests, Replay(r), body[r].company = c,
               body[r].change.type = "RECHARGE"
        PROVE  PaidFor(c, body[r].change.business)'
    <2>1. PICK k \in Kinds : \E i \in DOMAIN ledger[c][k] :
            SamePosting(ledger[c][k][i], body[r].change)
      BY <1>3 DEF Replay
    <2>2. PICK i \in DOMAIN ledger[c][k] : SamePosting(ledger[c][k][i], body[r].change)
      BY <2>1
    <2>3. /\ k = "CUSTOMER" /\ ledger[c][k][i].type = "RECHARGE"
          /\ ledger[c][k][i].business = body[r].change.business
      BY <1>3, <2>2 DEF SamePosting, WalletsHoldTheirOwn
    <2>4. ledger' = ledger /\ body' = body
      BY <1>3 DEF Replay, Answer
    <2> QED
      BY <2>2, <2>3, <2>4 DEF PaidFor
  <1>4. ASSUME NEW r \in Requests, Post(r), body[r].company = c, body[r].change.type = "RECHARGE"
        PROVE  PaidFor(c, body[r].change.business)'
    <2>1. PICK k \in Kinds, e \in Entries :
            /\ ledger' = [ledger EXCEPT ![c] = [ledger[c] EXCEPT ![k] = Append(ledger[c][k], e)]]
            /\ k = "CUSTOMER" /\ e.type = "RECHARGE" /\ e.business = body[r].change.business
      BY <1>4, PostedEntry
    <2>2. ledger[c] \in [Kinds -> Seq(Entries)] /\ ledger[c][k] \in Seq(Entries)
      BY DEF TypeOK
    <2>3. ledger'[c][k] = Append(ledger[c][k], e)
      BY <2>1, <2>2 DEF TypeOK
    <2>4. /\ Len(ledger[c][k]) + 1 \in DOMAIN Append(ledger[c][k], e)
          /\ Append(ledger[c][k], e)[Len(ledger[c][k]) + 1] = e
      BY <2>2
    <2>5. body' = body
      BY <1>4 DEF Post, Answer
    <2> QED
      BY <2>1, <2>3, <2>4, <2>5 DEF PaidFor
  <1>5. ASSUME ~\E r \in Requests : Replay(r) \/ Post(r)
        PROVE  level' = level
    BY <1>5 DEF Next, vars, accountVars, ReceiveRecharge, ReceiveAdjustment, ReceiveReversal,
         Receive, RechargeKnownKey, RechargeNewKey, RechargeReferenceUsed,
         RechargePackageRefused, RechargeChecked, ReversalChecked, AlreadyReversed,
         KeyConflict, PostRefused, Proceed, Refuse, FreezeForSettlement, ReleaseSettlement
  <1>6. ASSUME NEW r \in Requests, Replay(r) \/ Post(r)
        PROVE  LevelWritten(r) /\ body' = body
    BY <1>6 DEF Replay, Post, Answer
  <1>7. ASSUME NEW r \in Requests, level'[c] = body[r].change.business, body' = body,
               PaidFor(c, body[r].change.business)'
        PROVE  PaidFor(c, level[c])'
    BY <1>7 DEF PaidFor
  <1> QED
    BY <1>1, <1>2, <1>3, <1>4, <1>5, <1>6, <1>7

\* The level of a company was paid for by one of its recharges.
THEOREM LevelIsPaidFor == Spec => []LevelWasPaidFor
  <1> DEFINE LInv == WalletsHoldTheirOwn /\ LevelWasPaidFor
  <1>1. Init => LInv
    BY DEF Init, WalletsHoldTheirOwn, LevelWasPaidFor
  <1>2. TypeOK /\ LInv /\ [Next]_vars => LInv'
    <2> SUFFICES ASSUME TypeOK, WalletsHoldTheirOwn, LevelWasPaidFor, [Next]_vars
                 PROVE  WalletsHoldTheirOwn' /\ LevelWasPaidFor'
      OBVIOUS
    <2>1. ASSUME NEW c \in Companies, level'[c] # NoLevel
          PROVE  PaidFor(c, level[c])'
      <3>1. CASE level'[c] = level[c]
        <4>1. PaidFor(c, level[c])
          BY <2>1, <3>1 DEF LevelWasPaidFor, PaidFor
        <4> QED
          BY <3>1, <4>1, EntriesStay DEF PaidFor, Kinds
      <3> QED
        BY <3>1, LevelStep
    <2> QED
      BY <2>1, WalletsStep DEF LevelWasPaidFor, PaidFor
  <1>3. LInv => LevelWasPaidFor
    OBVIOUS
  <1> QED
    BY <1>1, <1>2, <1>3, TypeCorrect, PTL DEF Spec

-----------------------------------------------------------------------------
\* What it takes to reverse an entry twice.

\* The request has found its entry not reversed, and has not posted yet.
MayReverse(r) == phase[r] = "checked" /\ body[r].change.type = "REVERSAL"

\* The requests ask for the reversal of the same entry.
SameReversal(q, r) ==
  /\ body[q].company = body[r].company
  /\ body[q].change.kind = body[r].change.kind
  /\ body[q].change.related = body[r].change.related

\* Nobody looks whether an entry is reversed while another has looked and not posted.
ReversalsAreSerial ==
  \A q, r \in Requests : MayReverse(q) /\ MayReverse(r) /\ SameReversal(q, r) => q = r

\* What a request found not reversed still is not.
FoundUnreversed ==
  \A r \in Requests : MayReverse(r) =>
    ~Reversed(body[r].company, body[r].change.kind, body[r].change.related)

\* A recharge or a reversal that may be posted could be before, or has just looked.
LEMMA NewlyChecked ==
  ASSUME TypeOK, [Next]_vars, NEW r \in Requests,
         phase'[r] = "checked", body'[r].change.type # "ADJUST"
  PROVE  (phase[r] = "checked" \/ ReversalChecked(r) \/ RechargeChecked(r)) /\ body'[r] = body[r]
  <1> USE DEF TypeOK
  <1>1. ASSUME NEW q \in Requests, ReceiveRecharge(q) \/ ReceiveReversal(q)
        PROVE  phase[r] = "checked" /\ body'[r] = body[r]
    <2>1. /\ phase[q] = "idle" /\ phase' = [phase EXCEPT ![q] = "received"]
          /\ \E b : body' = [body EXCEPT ![q] = b]
      BY <1>1 DEF ReceiveRecharge, ReceiveReversal, Receive
    <2> QED
      BY <2>1
  <1>2. ASSUME NEW q \in Requests, ReceiveAdjustment(q)
        PROVE  phase[r] = "checked" /\ body'[r] = body[r]
    <2>1. PICK b : /\ b.change.type = "ADJUST"
                   /\ phase' = [phase EXCEPT ![q] = "checked"]
                   /\ body' = [body EXCEPT ![q] = b]
      BY <1>2 DEF ReceiveAdjustment, Receive, Adjustment, Change
    <2> QED
      BY <2>1
  <1>3. ASSUME NEW q \in Requests, RechargeChecked(q) \/ ReversalChecked(q)
        PROVE  /\ phase[r] = "checked" \/ ReversalChecked(r) \/ RechargeChecked(r)
               /\ body'[r] = body[r]
    BY <1>3 DEF RechargeChecked, ReversalChecked, Asks, Proceed
  <1>4. ASSUME NEW q \in Requests,
               \/ RechargeNewKey(q) \/ RechargeReferenceUsed(q) \/ RechargePackageRefused(q)
               \/ AlreadyReversed(q) \/ KeyConflict(q) \/ PostRefused(q)
               \/ RechargeKnownKey(q) \/ Replay(q) \/ Post(q)
        PROVE  phase[r] = "checked" /\ body'[r] = body[r]
    <2>1. /\ body' = body
          /\ \E next \in {"keyed", "refused", "answered"} : phase' = [phase EXCEPT ![q] = next]
      BY <1>4 DEF RechargeNewKey, RechargeReferenceUsed, RechargePackageRefused, AlreadyReversed,
                  KeyConflict, PostRefused, Refuse, Proceed, RechargeKnownKey, Replay, Post, Answer
    <2> QED
      BY <2>1
  <1>5. ASSUME NEW c \in Companies, FreezeForSettlement(c) \/ ReleaseSettlement(c)
        PROVE  phase[r] = "checked" /\ body'[r] = body[r]
    BY <1>5 DEF FreezeForSettlement, ReleaseSettlement
  <1>6. CASE UNCHANGED vars
    BY <1>6 DEF vars
  <1> QED
    BY <1>1, <1>2, <1>3, <1>4, <1>5, <1>6 DEF Next

LEMMA NewReversals ==
  ASSUME TypeOK, [Next]_vars, NEW r \in Requests, MayReverse(r)'
  PROVE  (MayReverse(r) \/ ReversalChecked(r)) /\ body'[r] = body[r]
  BY NewlyChecked DEF MayReverse, RechargeChecked, Asks

\* An entry after a posting is an old one, or the one posted.
LEMMA EntriesAfterPost ==
  ASSUME TypeOK, NEW q \in Requests, Post(q), NEW c \in Companies, NEW k \in Kinds,
         NEW i \in DOMAIN ledger'[c][k]
  PROVE  \/ i \in DOMAIN ledger[c][k] /\ ledger'[c][k][i] = ledger[c][k][i]
         \/ /\ c = body[q].company /\ k = body[q].change.kind
            /\ i = Len(ledger[c][k]) + 1
            /\ ledger'[c][k][i].type = body[q].change.type
            /\ ledger'[c][k][i].related = body[q].change.related
            /\ ledger'[c][k][i].ref = body[q].change.ref
  <1>1. PICK d \in Companies, m \in Kinds, e \in Entries :
          /\ d = body[q].company
          /\ ledger' = [ledger EXCEPT ![d] = [ledger[d] EXCEPT ![m] = Append(ledger[d][m], e)]]
          /\ e.kind = m /\ (e.type = "RECHARGE" => m = "CUSTOMER")
          /\ e.type = body[q].change.type /\ e.business = body[q].change.business
          /\ m = body[q].change.kind /\ e.related = body[q].change.related
          /\ e.ref = body[q].change.ref
    BY PostedEntry
  <1>2. ledger[d] \in [Kinds -> Seq(Entries)] /\ ledger[d][m] \in Seq(Entries)
    BY DEF TypeOK
  <1>3. CASE c = d /\ k = m
    <2>1. ledger'[c][k] = Append(ledger[c][k], e)
      BY <1>1, <1>2, <1>3 DEF TypeOK
    <2> DEFINE old == ledger[c][k]
    <2>2. old \in Seq(Entries) /\ i \in DOMAIN Append(old, e)
      BY <1>2, <1>3, <2>1
    <2> HIDE DEF old
    <2>3. \/ i \in DOMAIN old /\ Append(old, e)[i] = old[i]
          \/ i = Len(old) + 1 /\ Append(old, e)[i] = e
      BY <2>2
    <2>4. /\ c = body[q].company /\ k = body[q].change.kind
          /\ e.type = body[q].change.type /\ e.related = body[q].change.related
          /\ e.ref = body[q].change.ref
      BY <1>1, <1>3
    <2>5. ledger'[c][k] = Append(old, e)
      BY <2>1 DEF old
    <2>6. CASE i \in DOMAIN old /\ Append(old, e)[i] = old[i]
      BY <2>5, <2>6 DEF old
    <2>7. CASE i = Len(old) + 1 /\ Append(old, e)[i] = e
      BY <2>4, <2>5, <2>7 DEF old
    <2> QED
      BY <2>3, <2>6, <2>7
  <1>4. CASE ~(c = d /\ k = m)
    BY <1>1, <1>2, <1>4 DEF TypeOK
  <1> QED
    BY <1>3, <1>4

\* What was found not reversed stays so, while the requests are serial.
LEMMA UnreversedStep ==
  ASSUME TypeOK, FoundUnreversed, ReversalsAreSerial, [Next]_vars
  PROVE  FoundUnreversed'
  <1> SUFFICES ASSUME NEW r \in Requests, MayReverse(r)'
               PROVE  ~Reversed(body[r].company, body[r].change.kind, body[r].change.related)'
    BY DEF FoundUnreversed
  <1>1. /\ body'[r] = body[r]
        /\ ~Reversed(body[r].company, body[r].change.kind, body[r].change.related)
        /\ MayReverse(r) \/ ReversalChecked(r)
    BY NewReversals DEF FoundUnreversed, ReversalChecked
  <1>2. body[r].company \in Companies /\ body[r].change.kind \in Kinds
    <2>1. phase[r] # "idle"
      BY <1>1 DEF MayReverse, ReversalChecked, Asks
    <2>2. body[r] \in Bodies
      BY <2>1 DEF TypeOK
    <2> QED
      BY <2>2 DEF Bodies, Changes
  <1>3. ASSUME NEW q \in Requests, Post(q)
        PROVE  ~Reversed(body[r].company, body[r].change.kind, body[r].change.related)'
    <2>1. q # r /\ MayReverse(r)
      <3>1. phase[q] = "checked" /\ phase' = [phase EXCEPT ![q] = "answered"]
        BY <1>3 DEF Post, Answer
      <3>2. phase'[q] = "answered" /\ \A s \in Requests \ {q} : phase'[s] = phase[s]
        BY <3>1 DEF TypeOK
      <3>3. q # r
        BY <3>2 DEF MayReverse
      <3> QED
        BY <1>1, <3>2, <3>3 DEF MayReverse
    <2>2. ~(MayReverse(q) /\ SameReversal(q, r))
      BY <2>1 DEF ReversalsAreSerial
    <2>3. body[q].change.type = "REVERSAL" => MayReverse(q)
      BY <1>3 DEF Post, MayReverse
    <2> SUFFICES ASSUME NEW j \in DOMAIN ledger'[body[r].company][body[r].change.kind],
                        ledger'[body[r].company][body[r].change.kind][j].type = "REVERSAL",
                        ledger'[body[r].company][body[r].change.kind][j].related
                          = body[r].change.related
                 PROVE  FALSE
      BY <1>1 DEF Reversed
    <2>4. \/ /\ j \in DOMAIN ledger[body[r].company][body[r].change.kind]
             /\ ledger'[body[r].company][body[r].change.kind][j]
                  = ledger[body[r].company][body[r].change.kind][j]
          \/ body[q].change.type = "REVERSAL" /\ SameReversal(q, r)
      BY <1>2, <1>3, EntriesAfterPost DEF SameReversal
    <2> QED
      BY <1>1, <2>2, <2>3, <2>4 DEF Reversed
  <1>4. CASE ledger' = ledger
    BY <1>1, <1>4 DEF Reversed
  <1> QED
    BY <1>3, <1>4, OtherSteps

\* A posting reverses what was not reversed.
LEMMA ReversalStep ==
  ASSUME TypeOK, FoundUnreversed, ReversedAtMostOnce, [Next]_vars
  PROVE  ReversedAtMostOnce'
  <1>1. ASSUME NEW q \in Requests, Post(q), NEW c \in Companies, NEW k \in Kinds,
               NEW i \in DOMAIN ledger'[c][k], NEW j \in DOMAIN ledger'[c][k],
               ledger'[c][k][i].type = "REVERSAL", ledger'[c][k][j].type = "REVERSAL",
               ledger'[c][k][i].related = ledger'[c][k][j].related
        PROVE  i = j
    <2>1. body[q].change.type = "REVERSAL" =>
            ~Reversed(body[q].company, body[q].change.kind, body[q].change.related)
      BY <1>1 DEF FoundUnreversed, MayReverse, Post
    <2>2. \A n \in {i, j} :
            \/ n \in DOMAIN ledger[c][k] /\ ledger'[c][k][n] = ledger[c][k][n]
            \/ /\ c = body[q].company /\ k = body[q].change.kind
               /\ n = Len(ledger[c][k]) + 1
               /\ body[q].change.type = "REVERSAL"
               /\ ledger'[c][k][n].related = body[q].change.related
      BY <1>1, EntriesAfterPost
    <2> QED
      BY <1>1, <2>1, <2>2 DEF Reversed, ReversedAtMostOnce
  <1>2. CASE ledger' = ledger
    BY <1>2 DEF ReversedAtMostOnce
  <1> QED
    BY <1>1, <1>2, OtherSteps DEF ReversedAtMostOnce

\* An entry is reversed at most once, unless two requests for its reversal
\* have both looked before one of them posted: keys, locks and the order of
\* postings play no part.
THEOREM OnlyARaceReversesTwice == Spec /\ []ReversalsAreSerial => []ReversedAtMostOnce
  <1>1. Init => FoundUnreversed /\ ReversedAtMostOnce
    BY DEF Init, FoundUnreversed, MayReverse, ReversedAtMostOnce
  <1>2. /\ TypeOK /\ FoundUnreversed /\ ReversedAtMostOnce /\ ReversalsAreSerial
        /\ [Next]_vars
        => FoundUnreversed' /\ ReversedAtMostOnce'
    BY UnreversedStep, ReversalStep
  <1> QED
    BY <1>1, <1>2, TypeCorrect, PTL DEF Spec

-----------------------------------------------------------------------------
\* What it takes to use one payment twice.

\* The request has found its payment unused, and has not posted yet.
MayRecharge(r) == phase[r] = "checked" /\ body[r].change.type = "RECHARGE"

\* Nobody looks whether a payment is used while another has looked and not posted,
\* whatever their companies.
RechargesAreSerial ==
  \A q, r \in Requests :
    MayRecharge(q) /\ MayRecharge(r) /\ body[q].change.ref = body[r].change.ref => q = r

\* A payment is credited once, to one company.
PaymentUsedOnce ==
  \A c, d \in Companies, k, m \in Kinds :
    \A i \in DOMAIN ledger[c][k], j \in DOMAIN ledger[d][m] :
      ledger[c][k][i].ref # NoRef /\ ledger[c][k][i].ref = ledger[d][m][j].ref
        => c = d /\ k = m /\ i = j

\* Requests for a recharge name a payment, and only they.
PaymentsAreNamed ==
  \A r \in Requests : phase[r] # "idle" =>
    (body[r].change.type = "RECHARGE" <=> body[r].change.ref # NoRef)

\* What a request found unused still is not used.
FoundUnused == \A r \in Requests : MayRecharge(r) => ~ReferenceUsed(body[r].change.ref)

LEMMA NewRecharges ==
  ASSUME TypeOK, [Next]_vars, NEW r \in Requests, MayRecharge(r)'
  PROVE  (MayRecharge(r) \/ RechargeChecked(r)) /\ body'[r] = body[r]
  BY NewlyChecked DEF MayRecharge, ReversalChecked, Asks

LEMMA NamedStep ==
  ASSUME TypeOK, PaymentsAreNamed, [Next]_vars
  PROVE  PaymentsAreNamed'
  <1> USE DEF TypeOK, PaymentsAreNamed
  <1>1. ASSUME NEW q \in Requests, ReceiveRecharge(q) \/ ReceiveAdjustment(q) \/ ReceiveReversal(q)
        PROVE  PaymentsAreNamed'
    <2>1. PICK b : /\ b.change.type = "RECHARGE" <=> b.change.ref # NoRef
                   /\ \E next : phase' = [phase EXCEPT ![q] = next]
                   /\ body' = [body EXCEPT ![q] = b]
      <3>1. CASE ReceiveRecharge(q)
        BY <3>1, SentinelAssumption DEF ReceiveRecharge, Receive, Recharge, Change
      <3>2. CASE ReceiveAdjustment(q) \/ ReceiveReversal(q)
        BY <3>2 DEF ReceiveAdjustment, ReceiveReversal, Receive, Adjustment, Reversal, Change
      <3> QED
        BY <1>1, <3>1, <3>2
    <2> QED
      BY <2>1
  <1>2. ASSUME NEW q \in Requests,
               \/ RechargeKnownKey(q) \/ RechargeNewKey(q) \/ RechargeReferenceUsed(q)
               \/ RechargePackageRefused(q) \/ RechargeChecked(q) \/ ReversalChecked(q)
               \/ AlreadyReversed(q) \/ Replay(q) \/ KeyConflict(q) \/ Post(q) \/ PostRefused(q)
        PROVE  PaymentsAreNamed'
    <2>1. phase[q] # "idle" /\ body' = body /\ \E next : phase' = [phase EXCEPT ![q] = next]
      BY <1>2 DEF RechargeKnownKey, RechargeNewKey, RechargeReferenceUsed, RechargePackageRefused,
                  RechargeChecked, ReversalChecked, AlreadyReversed, Replay, KeyConflict, Post,
                  PostRefused, Refuse, Proceed, Answer, Asks
    <2> QED
      BY <2>1
  <1>3. CASE UNCHANGED <<phase, body>>
    BY <1>3
  <1> QED
    BY <1>1, <1>2, <1>3 DEF Next, vars, FreezeForSettlement, ReleaseSettlement

\* Only the posting of a recharge uses a payment.
LEMMA UsedAfterPost ==
  ASSUME TypeOK, NEW q \in Requests, Post(q), NEW x, x # NoRef, ReferenceUsed(x)'
  PROVE  ReferenceUsed(x) \/ body[q].change.ref = x
  <1>1. PICK c \in Companies, k \in Kinds : \E i \in DOMAIN ledger'[c][k] : ledger'[c][k][i].ref = x
    BY DEF ReferenceUsed
  <1>2. PICK i \in DOMAIN ledger'[c][k] : ledger'[c][k][i].ref = x
    BY <1>1
  <1> QED
    BY <1>2, EntriesAfterPost DEF ReferenceUsed

\* What was found unused stays so, while the requests are serial.
LEMMA UnusedStep ==
  ASSUME TypeOK, PaymentsAreNamed, FoundUnused, RechargesAreSerial, [Next]_vars
  PROVE  FoundUnused'
  <1> SUFFICES ASSUME NEW r \in Requests, MayRecharge(r)'
               PROVE  ~ReferenceUsed(body[r].change.ref)'
    BY DEF FoundUnused
  <1>1. /\ body'[r] = body[r]
        /\ ~ReferenceUsed(body[r].change.ref)
        /\ MayRecharge(r) \/ RechargeChecked(r)
    BY NewRecharges DEF FoundUnused, RechargeChecked
  <1>2. body[r].change.ref # NoRef
    BY <1>1 DEF PaymentsAreNamed, MayRecharge, RechargeChecked, Asks
  <1>3. ASSUME NEW q \in Requests, Post(q)
        PROVE  ~ReferenceUsed(body[r].change.ref)'
    <2>1. q # r /\ MayRecharge(r)
      <3>1. phase[q] = "checked" /\ phase' = [phase EXCEPT ![q] = "answered"]
        BY <1>3 DEF Post, Answer
      <3>2. phase'[q] = "answered" /\ \A s \in Requests \ {q} : phase'[s] = phase[s]
        BY <3>1 DEF TypeOK
      <3>3. q # r
        BY <3>2 DEF MayRecharge
      <3> QED
        BY <1>1, <3>2, <3>3 DEF MayRecharge
    <2>2. body[q].change.ref # body[r].change.ref
      BY <1>2, <1>3, <2>1 DEF RechargesAreSerial, PaymentsAreNamed, MayRecharge, Post
    <2>3. ReferenceUsed(body[r].change.ref)' => \E x : x = body[r].change.ref /\ ReferenceUsed(x)'
      BY <1>1 DEF ReferenceUsed
    <2> QED
      BY <1>1, <1>2, <1>3, <2>2, <2>3, UsedAfterPost
  <1>4. CASE ledger' = ledger
    BY <1>1, <1>4 DEF ReferenceUsed
  <1> QED
    BY <1>3, <1>4, OtherSteps

\* A posting uses a payment that was not used.
LEMMA PaymentStep ==
  ASSUME TypeOK, PaymentsAreNamed, FoundUnused, PaymentUsedOnce, [Next]_vars
  PROVE  PaymentUsedOnce'
  <1>1. ASSUME NEW q \in Requests, Post(q), NEW c \in Companies, NEW d \in Companies,
               NEW k \in Kinds, NEW m \in Kinds,
               NEW i \in DOMAIN ledger'[c][k], NEW j \in DOMAIN ledger'[d][m],
               ledger'[c][k][i].ref # NoRef, ledger'[c][k][i].ref = ledger'[d][m][j].ref
        PROVE  c = d /\ k = m /\ i = j
    <2>1. body[q].change.ref # NoRef => ~ReferenceUsed(body[q].change.ref)
      BY <1>1 DEF FoundUnused, MayRecharge, Post, PaymentsAreNamed
    <2>2. \/ i \in DOMAIN ledger[c][k] /\ ledger'[c][k][i] = ledger[c][k][i]
          \/ /\ c = body[q].company /\ k = body[q].change.kind /\ i = Len(ledger[c][k]) + 1
             /\ ledger'[c][k][i].ref = body[q].change.ref
      BY <1>1, EntriesAfterPost
    <2>3. \/ j \in DOMAIN ledger[d][m] /\ ledger'[d][m][j] = ledger[d][m][j]
          \/ /\ d = body[q].company /\ m = body[q].change.kind /\ j = Len(ledger[d][m]) + 1
             /\ ledger'[d][m][j].ref = body[q].change.ref
      BY <1>1, EntriesAfterPost
    <2> QED
      BY <1>1, <2>1, <2>2, <2>3 DEF ReferenceUsed, PaymentUsedOnce
  <1>2. CASE ledger' = ledger
    BY <1>2 DEF PaymentUsedOnce
  <1> QED
    BY <1>1, <1>2, OtherSteps DEF PaymentUsedOnce

\* A payment is credited once, in all companies together, unless two recharges with it
\* have both looked before one of them posted (recharge_points looks without a lock).
THEOREM OnlyARacePaysTwice == Spec /\ []RechargesAreSerial => []PaymentUsedOnce
  <1>1. Init => PaymentsAreNamed /\ FoundUnused /\ PaymentUsedOnce
    BY DEF Init, PaymentsAreNamed, FoundUnused, MayRecharge, PaymentUsedOnce
  <1>2. /\ TypeOK /\ PaymentsAreNamed /\ FoundUnused /\ PaymentUsedOnce /\ RechargesAreSerial
        /\ [Next]_vars
        => PaymentsAreNamed' /\ FoundUnused' /\ PaymentUsedOnce'
    BY NamedStep, UnusedStep, PaymentStep
  <1> QED
    BY <1>1, <1>2, TypeCorrect, PTL DEF Spec

-----------------------------------------------------------------------------
\* SupplySettlement.

\* The points of a set of requests.

\* PointsAsked with the sizes as an argument, so that it can be read in two states.
Points(sz, ws) == Cardinality({p \in ws \X (1..MaxSize) : p[2] <= sz[p[1]]})

Sizes == [Withdrawals -> 0..MaxSize]

\* What PointsAsked counts is finite.
LEMMA PointsFinite ==
  ASSUME NEW sz, NEW ws \in SUBSET Withdrawals
  PROVE  /\ IsFiniteSet({p \in ws \X (1..MaxSize) : p[2] <= sz[p[1]]})
         /\ Points(sz, ws) \in Nat
  <1> DEFINE P == {p \in ws \X (1..MaxSize) : p[2] <= sz[p[1]]}
  <1>1. IsFiniteSet(ws)
    BY FS_Subset, SettlementAssumption
  <1>2. IsFiniteSet(1..MaxSize)
    BY FS_Interval, SettlementAssumption
  <1>3. IsFiniteSet(ws \X (1..MaxSize))
    BY <1>1, <1>2, FS_Product
  <1>4. IsFiniteSet(P)
    BY <1>3, FS_Subset, P \in SUBSET (ws \X (1..MaxSize))
  <1>5. Cardinality(P) \in Nat
    BY <1>4, FS_CardinalityType
  <1> QED
    BY <1>4, <1>5 DEF Points

\* A set of requests has no fewer points than a part of it.
LEMMA PointsMonotone ==
  ASSUME NEW sz, NEW vs \in SUBSET Withdrawals, NEW ws \in SUBSET vs
  PROVE  Points(sz, ws) <= Points(sz, vs)
  <1> DEFINE P == {p \in ws \X (1..MaxSize) : p[2] <= sz[p[1]]}
             Q == {p \in vs \X (1..MaxSize) : p[2] <= sz[p[1]]}
  <1>1. P \in SUBSET Q
    OBVIOUS
  <1>2. IsFiniteSet(Q)
    BY PointsFinite
  <1> QED
    BY <1>1, <1>2, FS_Subset DEF Points

\* No request, no points.
LEMMA PointsOfNone == \A sz : Points(sz, {}) = 0
  <1>1. \A sz : {p \in {} \X (1..MaxSize) : p[2] <= sz[p[1]]} = {}
    OBVIOUS
  <1> QED
    BY <1>1, FS_EmptySet DEF Points

\* Only the sizes of the requests in the set count.
LEMMA PointsDependOnMembers ==
  ASSUME NEW sz, NEW tz, NEW ws, \A w \in ws : sz[w] = tz[w]
  PROVE  Points(sz, ws) = Points(tz, ws)
  <1>1. \A p \in ws \X (1..MaxSize) : sz[p[1]] = tz[p[1]]
    OBVIOUS
  <1>2. {p \in ws \X (1..MaxSize) : p[2] <= sz[p[1]]} =
        {p \in ws \X (1..MaxSize) : p[2] <= tz[p[1]]}
    BY <1>1
  <1> QED
    BY <1>2 DEF Points

\* A request that enters the set brings its own points.
LEMMA PointsAdd ==
  ASSUME NEW sz \in Sizes, NEW ws \in SUBSET Withdrawals,
         NEW w \in Withdrawals, w \notin ws
  PROVE  Points(sz, ws \cup {w}) = Points(sz, ws) + sz[w]
  <1> DEFINE P == {p \in ws \X (1..MaxSize) : p[2] <= sz[p[1]]}
             A == {p \in (ws \cup {w}) \X (1..MaxSize) : p[2] <= sz[p[1]]}
             N == {w} \X (1..sz[w])
  <1>1. sz[w] \in Nat /\ sz[w] <= MaxSize /\ MaxSize \in Nat
    BY SettlementAssumption DEF Sizes
  <1>2. A = P \cup N
    <2>1. \A p \in A : p \in P \cup N
      BY <1>1
    <2>2. \A p \in N : p \in A
      BY <1>1
    <2> QED
      BY <2>1, <2>2
  <1>3. P \cap N = {}
    OBVIOUS
  <1>4. IsFiniteSet(P) /\ Cardinality(P) \in Nat
    BY PointsFinite DEF Points
  <1>5. IsFiniteSet(N) /\ Cardinality(N) = sz[w]
    <2>1. IsFiniteSet({w}) /\ Cardinality({w}) = 1
      BY FS_Singleton
    <2>2. IsFiniteSet(1..sz[w]) /\ Cardinality(1..sz[w]) = sz[w]
      <3>1. \A n \in Nat : IsFiniteSet(1..n) /\ Cardinality(1..n) = IF 1 > n THEN 0 ELSE n - 1 + 1
        BY FS_Interval
      <3>2. \A n \in Nat : (IF 1 > n THEN 0 ELSE n - 1 + 1) = n
        OBVIOUS
      <3> QED
        BY <3>1, <3>2, <1>1
    <2>3. IsFiniteSet(N) /\ Cardinality(N) = Cardinality({w}) * Cardinality(1..sz[w])
      BY <2>1, <2>2, FS_Product
    <2> QED
      BY <2>1, <2>2, <2>3, <1>1
  <1>6. Cardinality(P \cup N) = Cardinality(P) + Cardinality(N) - Cardinality(P \cap N)
    BY <1>4, <1>5, FS_Union
  <1>7. Cardinality(P \cap N) = 0
    BY <1>3, FS_EmptySet
  <1> HIDE DEF P, A, N
  <1>8. Cardinality(A) = Cardinality(P) + sz[w]
    BY <1>1, <1>2, <1>4, <1>5, <1>6, <1>7
  <1> QED
    BY <1>8 DEF Points, P, A

\* A request that leaves the set takes its own points along.
LEMMA PointsRemove ==
  ASSUME NEW sz \in Sizes, NEW ws \in SUBSET Withdrawals, NEW w \in ws
  PROVE  Points(sz, ws \ {w}) = Points(sz, ws) - sz[w]
  <1>1. /\ ws \ {w} \in SUBSET Withdrawals /\ w \in Withdrawals /\ w \notin ws \ {w}
        /\ (ws \ {w}) \cup {w} = ws
    OBVIOUS
  <1>2. Points(sz, ws) = Points(sz, ws \ {w}) + sz[w]
    BY <1>1, PointsAdd
  <1>3. Points(sz, ws \ {w}) \in Nat
    BY <1>1, PointsFinite
  <1>4. sz[w] \in Int
    BY <1>1, SettlementAssumption DEF Sizes
  <1> QED
    BY <1>2, <1>3, <1>4

-----------------------------------------------------------------------------
\* The inductive invariant.

Settling == termination \in SettlingStatuses
Paid == {w \in Withdrawals : withdrawal[w] = "PAID"}
Earned == {x \in Rewards : reward[x] = "SETTLED"}

\* A request that exists asks for something: the quota check of a settled
\* account, which leaves nothing available, refuses it.
SizeAsked == \A w \in Withdrawals : withdrawal[w] # "NONE" => size[w] > 0

\* SettlementStaysPayable keeps the balance above the snapshot; the supply
\* wallet, closed to everything, stays exactly at it.
SupplyIsTheSnapshot == Settling => balance["SUPPLY"] = snapshot["SUPPLY"]

\* The freeze outside a settlement is at most what the approved requests ask for.
FreezeIsOwned ==
  ~Settling =>
    frozen["CUSTOMER"] = 0 /\ frozen["SUPPLY"] <= Points(size, Approved)

\* The books of the supply wallet, with the named sets.
SupplyBooks ==
  balance["SUPPLY"] + settled + Points(size, Paid) = RewardPoints * Cardinality(Earned)

\* No reward is promised during and after a settlement.
NothingPromised ==
  Settling \/ cooperation = "TERMINATED" => \A x \in Rewards : reward[x] # "OBSERVING"

\* The cooperation is over with its last termination request.
EndedWithTheRequest ==
  cooperation = "TERMINATED" =>
    /\ termination = "TERMINATED"
    /\ balance["SUPPLY"] <= 0
    /\ Approved = {}

Inv ==
  /\ SettlementTypeOK /\ SizeAsked
  /\ SettlementStaysPayable /\ OneClaimOnThePoints /\ SupplyIsTheSnapshot
  /\ FreezeIsOwned /\ SupplyBooks /\ NothingPromised /\ EndedWithTheRequest

-----------------------------------------------------------------------------
\* What a posting does.

\* An accepted posting moves one wallet by its amount; the supply wallet takes
\* a reward or a reversal only while nothing of it is frozen, and a claim
\* leaves the frozen part alone.
LEMMA SettlementPost ==
  ASSUME NEW a \in Accounts, NEW k \in Kinds, NEW type, NEW d \in Int,
         Moved(a, Movement(k, type, d))
  PROVE  /\ balance' = [a.balance EXCEPT ![k] = a.balance[k] + d]
         /\ k = "SUPPLY" /\ type \in {"REWARD", "REVERSAL"} =>
              a.frozen["SUPPLY"] = 0 /\ ~a.settling
         /\ d < 0 /\ type = "CLAIM" => a.balance[k] + d >= a.frozen[k]
  <1> DEFINE ch == Movement(k, type, d)
  <1>1. /\ ch.kind = k /\ ch.type = type /\ ch.delta = d
        /\ ch.allowNegative <=> type = "REVERSAL"
        /\ ch.allowFrozen <=> type \in {"WITHDRAWAL_WRITEOFF", "TERMINATION_WRITEOFF"}
    BY DEF Movement
  <1>2. Accepts(a, ch) /\ balance' = Credited(a, ch).balance
    BY DEF Moved
  <1> HIDE DEF ch
  <1>3. Credited(a, ch).balance = [a.balance EXCEPT ![k] = a.balance[k] + d]
    BY <1>1 DEF Credited, Accounts
  <1>4. ~SupplyClosed(a, ch) /\ Covered(a, ch)
    BY <1>2 DEF Accepts
  <1>5. a.frozen \in [Kinds -> Nat] /\ a.settling \in BOOLEAN
    BY DEF Accounts
  <1>6. k = "SUPPLY" /\ type \in {"REWARD", "REVERSAL"} =>
          a.frozen["SUPPLY"] = 0 /\ ~a.settling
    BY <1>1, <1>4, <1>5 DEF SupplyClosed, Kinds
  <1>7. d < 0 /\ type = "CLAIM" => a.balance[k] + d >= a.frozen[k]
    BY <1>1, <1>4 DEF Covered
  <1> QED
    BY <1>2, <1>3, <1>6, <1>7

\* The account of the module is one.
LEMMA AccountType ==
  ASSUME SettlementTypeOK
  PROVE  /\ Account \in Accounts
         /\ Account.balance = balance /\ Account.frozen = frozen
         /\ Account.settling <=> Settling
  <1>1. \A b \in [Kinds -> Int], f \in [Kinds -> Nat], st \in BOOLEAN :
          [balance |-> b, frozen |-> f, ready |-> TRUE, settling |-> st] \in Accounts
    BY DEF Accounts
  <1>2. balance \in [Kinds -> Int] /\ frozen \in [Kinds -> Nat]
    BY DEF SettlementTypeOK
  <1> DEFINE st == termination \in SettlingStatuses
  <1>3. st \in BOOLEAN
    OBVIOUS
  <1>4. Account = [balance |-> balance, frozen |-> frozen, ready |-> TRUE, settling |-> st]
    BY DEF Account
  <1>5. st <=> Settling
    BY DEF Settling
  <1> HIDE DEF st
  <1>6. Account \in Accounts
    BY <1>1, <1>2, <1>3, <1>4
  <1> QED
    BY <1>3, <1>4, <1>5, <1>6

\* So is the account after a snapshot was voided.
LEMMA VoidedAccountType ==
  ASSUME NEW a \in Accounts
  PROVE  /\ [a EXCEPT !.frozen = NoPoints, !.settling = FALSE] \in Accounts
         /\ [a EXCEPT !.frozen = NoPoints, !.settling = FALSE].balance = a.balance
  <1>1. NoPoints \in [Kinds -> Nat]
    BY DEF NoPoints
  <1> QED
    BY <1>1 DEF Accounts

\* The postings of the module, read off SettlementPost.
LEMMA CustomerStep ==
  ASSUME SettlementTypeOK, MoveCustomerPoints
  PROVE  \E d \in Int :
           /\ balance' = [balance EXCEPT !["CUSTOMER"] = balance["CUSTOMER"] + d]
           /\ d >= 0 \/ balance["CUSTOMER"] + d >= frozen["CUSTOMER"]
  <1>1. CASE Moved(Account, Movement("CUSTOMER", "RECHARGE", 1))
    <2>1. balance' = [balance EXCEPT !["CUSTOMER"] = balance["CUSTOMER"] + 1]
      BY <1>1, SettlementPost, AccountType DEF Kinds
    <2> WITNESS 1 \in Int
    <2> QED
      BY <2>1
  <1>2. CASE Moved(Account, Movement("CUSTOMER", "CLAIM", -1))
    <2>1. /\ balance' = [balance EXCEPT !["CUSTOMER"] = balance["CUSTOMER"] + (-1)]
          /\ balance["CUSTOMER"] + (-1) >= frozen["CUSTOMER"]
      BY <1>2, SettlementPost, AccountType DEF Kinds
    <2> WITNESS (-1) \in Int
    <2> QED
      BY <2>1
  <1> QED
    BY <1>1, <1>2 DEF MoveCustomerPoints

\* A reward is paid into a wallet nothing is frozen of.
LEMMA RewardStep ==
  ASSUME SettlementTypeOK, NEW x \in Rewards, SettleReward(x)
  PROVE  /\ balance' = [balance EXCEPT !["SUPPLY"] = balance["SUPPLY"] + RewardPoints]
         /\ frozen["SUPPLY"] = 0 /\ ~Settling
  <1>1. Moved(Account, Movement("SUPPLY", "REWARD", RewardPoints))
    BY DEF SettleReward
  <1>2. RewardPoints \in Int
    BY SettlementAssumption
  <1> QED
    BY <1>1, <1>2, SettlementPost, AccountType DEF Kinds

\* A reward is taken back from such a wallet, or voids the snapshot first.
LEMMA TakeBackStep ==
  ASSUME SettlementTypeOK, NEW x \in Rewards, TakeBack(x)
  PROVE  /\ balance' = [balance EXCEPT !["SUPPLY"] = balance["SUPPLY"] + (-RewardPoints)]
         /\ \/ frozen["SUPPLY"] = 0 /\ ~Settling /\ UNCHANGED <<frozen, termination, snapshot>>
            \/ SnapshotInvalidated
  <1>1. -RewardPoints \in Int
    BY SettlementAssumption
  <1>2. CASE Settling
    <2> DEFINE voided == [Account EXCEPT !.frozen = NoPoints, !.settling = FALSE]
    <2>1. SnapshotInvalidated /\ Moved(voided, Movement("SUPPLY", "REVERSAL", -RewardPoints))
      BY <1>2 DEF TakeBack, Settling
    <2>2. voided \in Accounts /\ voided.balance = balance
      BY AccountType, VoidedAccountType
    <2> HIDE DEF voided
    <2>3. balance' = [balance EXCEPT !["SUPPLY"] = balance["SUPPLY"] + (-RewardPoints)]
      BY <1>1, <2>1, <2>2, SettlementPost DEF Kinds
    <2> QED
      BY <2>1, <2>3
  <1>3. CASE ~Settling
    <2>1. /\ Moved(Account, Movement("SUPPLY", "REVERSAL", -RewardPoints))
          /\ UNCHANGED <<frozen, termination, snapshot>>
      BY <1>3 DEF TakeBack, Settling
    <2> QED
      BY <1>1, <1>3, <2>1, SettlementPost, AccountType DEF Kinds
  <1> QED
    BY <1>2, <1>3

\* A withdrawal paid out takes its points from the supply wallet.
LEMMA WriteOffStep ==
  ASSUME SettlementTypeOK, NEW w \in Withdrawals, ConfirmWithdrawalPayment(w)
  PROVE  balance' = [balance EXCEPT !["SUPPLY"] = balance["SUPPLY"] + (-size[w])]
  <1>1. -size[w] \in Int
    BY SettlementAssumption DEF SettlementTypeOK
  <1>2. Moved(Account, Movement("SUPPLY", "WITHDRAWAL_WRITEOFF", -size[w]))
    BY DEF ConfirmWithdrawalPayment
  <1> QED
    BY <1>1, <1>2, SettlementPost, AccountType DEF Kinds

-----------------------------------------------------------------------------
\* Types.

\* The steps on rewards and windows.
LEMMA RewardTypes ==
  ASSUME SettlementTypeOK, NEW x \in Rewards,
         \/ PromiseReward(x) \/ SettleReward(x) \/ OpenAppeal(x) \/ RejectAppeal(x)
         \/ DeadlinePasses(x) \/ ReverseReward(x) \/ ApproveAppeal(x)
  PROVE  SettlementTypeOK'
  <1> USE SettlementAssumption
  <1>1. CASE PromiseReward(x) \/ OpenAppeal(x) \/ RejectAppeal(x)
    BY <1>1 DEF SettlementTypeOK, PromiseReward, OpenAppeal, RejectAppeal, walletVars,
                withdrawalVars, terminationVars
  <1>2. CASE DeadlinePasses(x)
    BY <1>2 DEF SettlementTypeOK, DeadlinePasses, walletVars, withdrawalVars, terminationVars
  <1>3. CASE SettleReward(x)
    <2>1. balance' \in [Kinds -> Int]
      BY <1>3, RewardStep DEF SettlementTypeOK, Kinds
    <2> QED
      BY <1>3, <2>1 DEF SettlementTypeOK, SettleReward, withdrawalVars, terminationVars
  <1>4. ASSUME TakeBack(x)
        PROVE  /\ balance' \in [Kinds -> Int] /\ frozen' \in [Kinds -> Nat]
               /\ snapshot' \in [Kinds -> Nat]
               /\ termination' \in {"NONE", "CANCELLED", "REJECTED", "TERMINATED"}
                                     \cup ActiveRequestStatuses
               /\ reward' = [reward EXCEPT ![x] = "REVERSED"]
    <2>1. balance' \in [Kinds -> Int]
      BY <1>4, TakeBackStep DEF SettlementTypeOK, Kinds
    <2>2. NoPoints \in [Kinds -> Nat]
      BY DEF NoPoints
    <2>3. CASE UNCHANGED <<frozen, termination, snapshot>>
      BY <1>4, <2>1, <2>3 DEF SettlementTypeOK, TakeBack
    <2>4. CASE SnapshotInvalidated
      BY <1>4, <2>1, <2>2, <2>4 DEF SettlementTypeOK, TakeBack, SnapshotInvalidated, ActiveRequestStatuses
    <2> QED
      BY <1>4, <2>3, <2>4, TakeBackStep
  <1>5. CASE ReverseReward(x)
    BY <1>4, <1>5 DEF SettlementTypeOK, ReverseReward, withdrawalVars
  <1>6. CASE ApproveAppeal(x)
    <2>1. CASE TakeBack(x)
      BY <1>4, <1>6, <2>1 DEF SettlementTypeOK, ApproveAppeal, withdrawalVars
    <2>2. CASE ~TakeBack(x)
      BY <1>6, <2>2 DEF SettlementTypeOK, ApproveAppeal, withdrawalVars, walletVars
    <2> QED
      BY <2>1, <2>2
  <1> QED
    BY <1>1, <1>2, <1>3, <1>5, <1>6

\* The freeze after a release is one.
LEMMA ReleaseType ==
  ASSUME SettlementTypeOK, NEW w \in Withdrawals, ReleaseFreeze(w)
  PROVE  /\ frozen' \in [Kinds -> Nat]
         /\ frozen'["CUSTOMER"] = frozen["CUSTOMER"]
         /\ \/ frozen'["SUPPLY"] = 0
            \/ frozen'["SUPPLY"] = frozen["SUPPLY"] - size[w]
  BY SettlementAssumption DEF SettlementTypeOK, ReleaseFreeze, Kinds

\* The steps on withdrawals.
LEMMA WithdrawalTypes ==
  ASSUME SettlementTypeOK, NEW w \in Withdrawals,
         \/ \E n \in 1..MaxSize : CheckWithdrawal(w, n)
         \/ InsertWithdrawal(w) \/ ApproveWithdrawal(w) \/ RejectWithdrawal(w)
         \/ CancelWithdrawal(w) \/ RecordWithdrawalPayment(w)
         \/ FailWithdrawalPayment(w) \/ ConfirmWithdrawalPayment(w)
         \/ RequestPaymentChange(w) \/ ReviewPaymentChange(w)
  PROVE  SettlementTypeOK'
  <1> USE SettlementAssumption DEF InFlightStatuses, ApprovedStatuses
  <1>1. CASE \E n \in 1..MaxSize : CheckWithdrawal(w, n)
    BY <1>1 DEF SettlementTypeOK, CheckWithdrawal, walletVars, rewardVars, terminationVars
  <1>2. CASE InsertWithdrawal(w) \/ RejectWithdrawal(w) \/ RecordWithdrawalPayment(w)
               \/ FailWithdrawalPayment(w) \/ RequestPaymentChange(w) \/ ReviewPaymentChange(w)
    BY <1>2 DEF SettlementTypeOK, InsertWithdrawal, RejectWithdrawal, RecordWithdrawalPayment,
                FailWithdrawalPayment, RequestPaymentChange, ReviewPaymentChange,
                WithdrawalStep, walletVars, rewardVars, terminationVars
  <1>3. CASE ApproveWithdrawal(w)
    <2>1. frozen' \in [Kinds -> Nat]
      BY <1>3 DEF SettlementTypeOK, ApproveWithdrawal, Kinds
    <2> QED
      BY <1>3, <2>1 DEF SettlementTypeOK, ApproveWithdrawal, WithdrawalStep, rewardVars, terminationVars
  <1>4. CASE CancelWithdrawal(w)
    <2>1. frozen' \in [Kinds -> Nat]
      BY <1>4, ReleaseType DEF SettlementTypeOK, CancelWithdrawal
    <2> QED
      BY <1>4, <2>1 DEF SettlementTypeOK, CancelWithdrawal, WithdrawalStep, rewardVars, terminationVars
  <1>5. CASE ConfirmWithdrawalPayment(w)
    <2>1. frozen' \in [Kinds -> Nat]
      BY <1>5, ReleaseType DEF ConfirmWithdrawalPayment
    <2>2. balance' \in [Kinds -> Int]
      BY <1>5, WriteOffStep DEF SettlementTypeOK, Kinds
    <2> QED
      BY <1>5, <2>1, <2>2 DEF SettlementTypeOK, ConfirmWithdrawalPayment, WithdrawalStep, rewardVars,
                              terminationVars
  <1> QED
    BY <1>1, <1>2, <1>3, <1>4, <1>5

\* A company without blockers has no negative balance and nothing in flight.
LEMMA NoBlockers ==
  ASSUME SettlementTypeOK, ~Blockers
  PROVE  /\ balance \in [Kinds -> Nat]
         /\ Approved = {}
         /\ \A x \in Rewards : reward[x] # "OBSERVING"
  <1>1. balance["CUSTOMER"] >= 0 /\ balance["SUPPLY"] >= 0
    BY DEF Blockers, SettlementTypeOK, Kinds
  <1> QED
    BY <1>1 DEF Blockers, SettlementTypeOK, Kinds, Approved, InFlight, InFlightStatuses

\* The steps on the termination.
LEMMA TerminationTypes ==
  ASSUME SettlementTypeOK,
         \/ RequestTermination \/ RefreshTermination \/ CancelTermination
         \/ ApproveTermination \/ DecideTermination \/ RecordTerminationPayment
         \/ FailTerminationPayment \/ ConfirmTermination \/ ReopenCooperation
  PROVE  SettlementTypeOK'
  <1> USE DEF ActiveRequestStatuses, SettlingStatuses
  <1>1. CASE RequestTermination \/ RefreshTermination \/ DecideTermination
               \/ RecordTerminationPayment \/ FailTerminationPayment \/ ReopenCooperation
    BY <1>1 DEF SettlementTypeOK, RequestTermination, RefreshTermination, DecideTermination,
                RecordTerminationPayment, FailTerminationPayment, ReopenCooperation,
                TerminationStep, walletVars, rewardVars, withdrawalVars
  <1>2. NoPoints \in [Kinds -> Nat]
    BY DEF NoPoints
  <1>3. CASE CancelTermination
    BY <1>2, <1>3 DEF SettlementTypeOK, CancelTermination, TerminationStep, rewardVars, withdrawalVars
  <1>4. CASE ApproveTermination
    BY <1>4, NoBlockers DEF SettlementTypeOK, ApproveTermination, TerminationStep, rewardVars,
                            withdrawalVars
  <1>5. CASE ConfirmTermination
    <2>1. \A k \in Kinds : balance[k] - snapshot[k] \in Int
      BY DEF SettlementTypeOK
    <2>2. balance' \in [Kinds -> Int]
      BY <1>5, <2>1 DEF ConfirmTermination
    <2>3. settled' \in Nat
      BY <1>5 DEF ConfirmTermination, SettlementTypeOK, Kinds
    <2> QED
      BY <1>2, <1>5, <2>2, <2>3 DEF SettlementTypeOK, ConfirmTermination, TerminationStep, rewardVars,
                                    withdrawalVars
  <1> QED
    BY <1>1, <1>3, <1>4, <1>5

\* Every step keeps the types.
LEMMA SettlementTypeStep ==
  ASSUME SettlementTypeOK, [SettlementNext]_settlementVars
  PROVE  SettlementTypeOK'
  <1>1. CASE MoveCustomerPoints
    <2>1. balance' \in [Kinds -> Int]
      BY <1>1, CustomerStep DEF SettlementTypeOK, Kinds
    <2> QED
      BY <1>1, <2>1 DEF SettlementTypeOK, MoveCustomerPoints, rewardVars, withdrawalVars, terminationVars
  <1>2. CASE UNCHANGED settlementVars
    BY <1>2 DEF SettlementTypeOK, settlementVars, walletVars, rewardVars, withdrawalVars, terminationVars
  <1> QED
    BY <1>1, <1>2, RewardTypes, WithdrawalTypes, TerminationTypes DEF SettlementNext

-----------------------------------------------------------------------------
\* The invariant, step by step.

\* The counts of the invariant are natural numbers.
LEMMA Counts ==
  ASSUME SettlementTypeOK
  PROVE  /\ Points(size, Approved) \in Nat /\ Points(size, Paid) \in Nat
         /\ IsFiniteSet(Earned) /\ Cardinality(Earned) \in Nat
         /\ size \in Sizes
  <1>1. Approved \in SUBSET Withdrawals /\ Paid \in SUBSET Withdrawals
    BY DEF Approved, Paid
  <1>2. Earned \in SUBSET Rewards
    BY DEF Earned
  <1>3. IsFiniteSet(Earned) /\ Cardinality(Earned) \in Nat
    BY <1>2, FS_Subset, FS_CardinalityType, SettlementAssumption
  <1>4. size \in Sizes
    BY DEF SettlementTypeOK, Sizes
  <1> QED
    BY <1>1, <1>3, <1>4, PointsFinite

\* A step that moves no point and changes none of the sets the invariant is
\* about keeps it, provided it promises no reward against it.
LEMMA Frame ==
  ASSUME Inv, SettlementTypeOK', NothingPromised',
         UNCHANGED <<balance, frozen, snapshot, settled>>,
         Settling' <=> Settling,
         Approved' = Approved, Paid' = Paid, Earned' = Earned,
         \A w \in Withdrawals : withdrawal'[w] # "NONE" => size'[w] > 0,
         \A w \in Withdrawals : withdrawal[w] # "NONE" => size'[w] = size[w],
         cooperation' = "TERMINATED" =>
           cooperation = "TERMINATED" /\ termination' = termination
  PROVE  Inv'
  <1>1. Points(size', Approved') = Points(size, Approved)
    <2>1. \A w \in Approved : size'[w] = size[w]
      BY DEF Approved, ApprovedStatuses
    <2> QED
      BY <2>1, PointsDependOnMembers
  <1>2. Points(size', Paid') = Points(size, Paid)
    <2>1. \A w \in Paid : size'[w] = size[w]
      BY DEF Paid
    <2> QED
      BY <2>1, PointsDependOnMembers
  <1>3. SizeAsked'
    BY DEF SizeAsked
  <1>4. (SettlementStaysPayable /\ OneClaimOnThePoints /\ SupplyIsTheSnapshot)'
    BY DEF Inv, SettlementStaysPayable, OneClaimOnThePoints, SupplyIsTheSnapshot, Settling
  <1>5. FreezeIsOwned'
    BY <1>1 DEF Inv, FreezeIsOwned
  <1>6. SupplyBooks'
    BY <1>2 DEF Inv, SupplyBooks
  <1>7. EndedWithTheRequest'
    BY DEF Inv, EndedWithTheRequest
  <1> QED
    BY <1>3, <1>4, <1>5, <1>6, <1>7 DEF Inv

\* The steps on rewards that pay nothing.
LEMMA QuietRewards ==
  ASSUME Inv, SettlementTypeOK', NEW x \in Rewards,
         PromiseReward(x) \/ OpenAppeal(x) \/ RejectAppeal(x) \/ DeadlinePasses(x)
  PROVE  Inv'
  <1>1. /\ UNCHANGED <<walletVars, withdrawalVars, terminationVars>>
        /\ Earned' = Earned
    BY DEF PromiseReward, OpenAppeal, RejectAppeal, DeadlinePasses, Earned, SettlementTypeOK, Inv
  <1>2. NothingPromised'
    BY DEF PromiseReward, OpenAppeal, RejectAppeal, DeadlinePasses, NothingPromised, Inv,
           Settling, SettlementTypeOK, terminationVars
  <1> QED
    BY <1>1, <1>2, Frame DEF walletVars, withdrawalVars, terminationVars, Settling, Approved,
                             Paid, Inv, SizeAsked

\* The steps on withdrawals that freeze and pay nothing.
LEMMA QuietWithdrawals ==
  ASSUME Inv, SettlementTypeOK', NEW w \in Withdrawals,
         \/ \E n \in 1..MaxSize : CheckWithdrawal(w, n)
         \/ InsertWithdrawal(w) \/ RejectWithdrawal(w)
         \/ CancelWithdrawal(w) /\ withdrawal[w] # "APPROVED_PENDING_PAYMENT"
         \/ RecordWithdrawalPayment(w) \/ FailWithdrawalPayment(w)
         \/ RequestPaymentChange(w) \/ ReviewPaymentChange(w)
  PROVE  Inv'
  <1>1. /\ UNCHANGED <<walletVars, rewardVars, terminationVars>>
        /\ Approved' = Approved /\ Paid' = Paid
        /\ \A v \in Withdrawals : withdrawal[v] # "NONE" => size'[v] = size[v]
        /\ \A v \in Withdrawals : withdrawal'[v] # "NONE" => size'[v] > 0
    <2>1. CASE \E n \in 1..MaxSize : CheckWithdrawal(w, n)
      BY <2>1, SettlementAssumption DEF CheckWithdrawal, Approved, Paid, ApprovedStatuses,
               SettlementTypeOK, Inv, SizeAsked
    <2>2. CASE \/ InsertWithdrawal(w) \/ RejectWithdrawal(w)
               \/ CancelWithdrawal(w) /\ withdrawal[w] # "APPROVED_PENDING_PAYMENT"
               \/ RecordWithdrawalPayment(w) \/ FailWithdrawalPayment(w)
               \/ RequestPaymentChange(w) \/ ReviewPaymentChange(w)
      BY <2>2 DEF InsertWithdrawal, RejectWithdrawal, CancelWithdrawal,
                  RecordWithdrawalPayment, FailWithdrawalPayment, RequestPaymentChange,
                  ReviewPaymentChange, WithdrawalStep, Approved, Paid, ApprovedStatuses,
                  SettlementTypeOK, Inv, SizeAsked, walletVars
    <2> QED
      BY <2>1, <2>2
  <1>2. NothingPromised'
    BY <1>1 DEF NothingPromised, Inv, Settling, terminationVars, rewardVars
  <1> QED
    BY <1>1, <1>2, Frame DEF walletVars, rewardVars, terminationVars, Settling, Earned

\* The steps on the termination that freeze and pay nothing.
LEMMA QuietTermination ==
  ASSUME Inv, SettlementTypeOK',
         \/ RequestTermination \/ RefreshTermination \/ DecideTermination
         \/ RecordTerminationPayment \/ FailTerminationPayment \/ ReopenCooperation
  PROVE  Inv'
  <1>1. /\ UNCHANGED <<walletVars, rewardVars, withdrawalVars, snapshot, settled>>
        /\ Settling' <=> Settling
        /\ cooperation' = "TERMINATED" => cooperation = "TERMINATED" /\ termination' = termination
    BY DEF RequestTermination, RefreshTermination, DecideTermination, RecordTerminationPayment,
           FailTerminationPayment, ReopenCooperation, TerminationStep, Settling,
           SettlingStatuses, ActiveRequestStatuses, Inv, EndedWithTheRequest
  <1>2. NothingPromised'
    BY <1>1 DEF NothingPromised, Inv, rewardVars
  <1> QED
    BY <1>1, <1>2, Frame DEF walletVars, rewardVars, withdrawalVars, Earned, Approved, Paid,
                             Inv, SizeAsked

\* Recharges and claims of the company touch the customer wallet alone, and
\* never what is frozen of it.
LEMMA InvMoveCustomerPoints ==
  ASSUME Inv, SettlementTypeOK', MoveCustomerPoints
  PROVE  Inv'
  <1>1. PICK d \in Int :
          /\ balance' = [balance EXCEPT !["CUSTOMER"] = balance["CUSTOMER"] + d]
          /\ d >= 0 \/ balance["CUSTOMER"] + d >= frozen["CUSTOMER"]
    BY CustomerStep DEF Inv
  <1>2. /\ balance'["SUPPLY"] = balance["SUPPLY"]
        /\ balance'["CUSTOMER"] >= balance["CUSTOMER"] \/ balance'["CUSTOMER"] >= frozen["CUSTOMER"]
    BY <1>1 DEF Inv, SettlementTypeOK, Kinds
  <1>3. UNCHANGED <<frozen, rewardVars, withdrawalVars, terminationVars>>
    BY DEF MoveCustomerPoints
  <1>4. /\ UNCHANGED <<reward, withdrawal, size, cooperation, termination, snapshot, settled>>
        /\ Approved' = Approved /\ Paid' = Paid /\ Earned' = Earned
    BY <1>3 DEF rewardVars, withdrawalVars, terminationVars, Approved, Paid, Earned
  <1>5. SettlementStaysPayable'
    BY <1>2, <1>3, <1>4 DEF SettlementStaysPayable, Inv, SettlementTypeOK, Kinds
  <1>6. (SizeAsked /\ OneClaimOnThePoints /\ SupplyIsTheSnapshot /\ NothingPromised)'
    BY <1>2, <1>4 DEF SizeAsked, OneClaimOnThePoints, SupplyIsTheSnapshot, NothingPromised, Inv,
                      Settling
  <1>7. (FreezeIsOwned /\ SupplyBooks /\ EndedWithTheRequest)'
    BY <1>2, <1>3, <1>4 DEF FreezeIsOwned, SupplyBooks, EndedWithTheRequest, Inv, Settling
  <1> QED
    BY <1>5, <1>6, <1>7 DEF Inv

\* The books stay balanced when both sides move alike.
LEMMA BooksMove ==
  /\ \A b, s, p, e, r \in Int : b + s + p = e => (b + r) + s + p = e + r
  /\ \A b, s, p, e, r \in Int : b + s + p = e => (b - r) + s + p = e - r
  OBVIOUS

\* A paid reward is booked once, in a wallet that no settlement has closed.
LEMMA InvSettleReward ==
  ASSUME Inv, SettlementTypeOK', NEW x \in Rewards, SettleReward(x)
  PROVE  Inv'
  <1>1. /\ balance' = [balance EXCEPT !["SUPPLY"] = balance["SUPPLY"] + RewardPoints]
        /\ ~Settling
    BY RewardStep DEF Inv
  <1>2. /\ UNCHANGED <<frozen, withdrawal, size, cooperation, termination, snapshot, settled>>
        /\ Approved' = Approved /\ Paid' = Paid
        /\ reward[x] = "OBSERVING" /\ reward' = [reward EXCEPT ![x] = "SETTLED"]
    BY DEF SettleReward, withdrawalVars, terminationVars, Approved, Paid
  <1>3. Earned' = Earned \cup {x} /\ x \notin Earned
    BY <1>2 DEF Earned, Inv, SettlementTypeOK
  <1>4. Cardinality(Earned') = Cardinality(Earned) + 1
    BY <1>3, Counts, FS_AddElement DEF Inv
  <1>5. RewardPoints * (Cardinality(Earned) + 1) = RewardPoints * Cardinality(Earned) + RewardPoints
    BY Counts, SettlementAssumption DEF Inv
  <1>6. balance'["SUPPLY"] = balance["SUPPLY"] + RewardPoints
    BY <1>1 DEF Inv, SettlementTypeOK, Kinds
  <1>7. SupplyBooks'
    <2> DEFINE p == Points(size, Paid)
               e == RewardPoints * Cardinality(Earned)
    <2>1. Points(size', Paid') = p
      BY <1>2
    <2>2. RewardPoints * Cardinality(Earned') = e + RewardPoints
      BY <1>4, <1>5
    <2>3. p \in Int /\ e \in Int /\ balance["SUPPLY"] \in Int /\ settled \in Int
          /\ RewardPoints \in Int
      BY Counts, SettlementAssumption DEF Inv, SettlementTypeOK, Kinds
    <2>4. balance["SUPPLY"] + settled + p = e
      BY DEF Inv, SupplyBooks
    <2> HIDE DEF p, e
    <2>5. settled' = settled
      BY <1>2
    <2>6. (balance["SUPPLY"] + RewardPoints) + settled + p = e + RewardPoints
      BY <2>3, <2>4, BooksMove
    <2> QED
      BY <1>6, <2>1, <2>2, <2>5, <2>6 DEF SupplyBooks
  <1>8. cooperation # "TERMINATED"
    BY <1>2 DEF Inv, NothingPromised
  <1>9. ~Settling'
    BY <1>1, <1>2 DEF Settling
  <1>10. (NothingPromised /\ EndedWithTheRequest)'
    BY <1>2, <1>8, <1>9 DEF NothingPromised, EndedWithTheRequest
  <1>11. (SettlementStaysPayable /\ OneClaimOnThePoints /\ SupplyIsTheSnapshot)'
    BY <1>9 DEF SettlementStaysPayable, OneClaimOnThePoints, SupplyIsTheSnapshot, Settling
  <1>12. (SizeAsked /\ FreezeIsOwned)'
    BY <1>1, <1>2 DEF SizeAsked, FreezeIsOwned, Inv, Settling
  <1> QED
    BY <1>7, <1>10, <1>11, <1>12 DEF Inv

\* A reward taken back leaves the books once; a snapshot it was part of is void.
LEMMA InvTakeBack ==
  ASSUME Inv, SettlementTypeOK', NEW x \in Rewards, TakeBack(x),
         UNCHANGED <<withdrawalVars, cooperation, settled>>
  PROVE  Inv'
  <1>1. /\ balance' = [balance EXCEPT !["SUPPLY"] = balance["SUPPLY"] + (-RewardPoints)]
        /\ \/ ~Settling /\ UNCHANGED <<frozen, termination, snapshot>>
           \/ SnapshotInvalidated
    BY TakeBackStep DEF Inv
  <1>2. /\ UNCHANGED <<withdrawal, size>>
        /\ Approved' = Approved /\ Paid' = Paid
        /\ reward[x] = "SETTLED" /\ reward' = [reward EXCEPT ![x] = "REVERSED"]
    BY DEF TakeBack, withdrawalVars, Approved, Paid
  <1>3. Earned' = Earned \ {x} /\ x \in Earned
    BY <1>2 DEF Earned, Inv, SettlementTypeOK
  <1>4. Cardinality(Earned') = Cardinality(Earned) - 1
    BY <1>3, Counts, FS_RemoveElement DEF Inv
  <1>5. RewardPoints * (Cardinality(Earned) - 1) = RewardPoints * Cardinality(Earned) - RewardPoints
    BY Counts, SettlementAssumption DEF Inv
  <1>6. balance'["SUPPLY"] = balance["SUPPLY"] - RewardPoints
    BY <1>1, SettlementAssumption DEF Inv, SettlementTypeOK, Kinds
  <1>7. SupplyBooks'
    <2> DEFINE p == Points(size, Paid)
               e == RewardPoints * Cardinality(Earned)
    <2>1. Points(size', Paid') = p
      BY <1>2
    <2>2. RewardPoints * Cardinality(Earned') = e - RewardPoints
      BY <1>4, <1>5
    <2>3. p \in Int /\ e \in Int /\ balance["SUPPLY"] \in Int /\ settled \in Int
          /\ RewardPoints \in Int
      BY Counts, SettlementAssumption DEF Inv, SettlementTypeOK, Kinds
    <2>4. balance["SUPPLY"] + settled + p = e
      BY DEF Inv, SupplyBooks
    <2> HIDE DEF p, e
    <2>5. settled' = settled
      OBVIOUS
    <2>6. (balance["SUPPLY"] - RewardPoints) + settled + p = e - RewardPoints
      BY <2>3, <2>4, BooksMove
    <2> QED
      BY <1>6, <2>1, <2>2, <2>5, <2>6 DEF SupplyBooks
  <1>8. ~Settling'
    BY <1>1 DEF Settling, SnapshotInvalidated, SettlingStatuses
  <1>9. NothingPromised'
    BY <1>2, <1>8 DEF NothingPromised, Inv, SettlementTypeOK
  <1>10. EndedWithTheRequest'
    <2> SUFFICES ASSUME cooperation' = "TERMINATED"
                 PROVE  /\ termination' = "TERMINATED" /\ balance'["SUPPLY"] <= 0
                        /\ Approved' = {}
      BY DEF EndedWithTheRequest
    <2>1. termination = "TERMINATED" /\ balance["SUPPLY"] <= 0 /\ Approved = {}
      BY DEF Inv, EndedWithTheRequest
    <2>2. ~SnapshotInvalidated
      BY <2>1, <1>1 DEF TakeBack, SettlingStatuses, SnapshotInvalidated
    <2>3. balance'["SUPPLY"] <= 0
      BY <2>1, <1>6, SettlementAssumption DEF Inv, SettlementTypeOK, Kinds
    <2> QED
      BY <1>1, <1>2, <2>1, <2>2, <2>3
  <1>11. (SettlementStaysPayable /\ OneClaimOnThePoints /\ SupplyIsTheSnapshot)'
    BY <1>8 DEF SettlementStaysPayable, OneClaimOnThePoints, SupplyIsTheSnapshot, Settling
  <1>12. FreezeIsOwned'
    <2>1. CASE ~Settling /\ UNCHANGED frozen
      BY <1>2, <2>1 DEF FreezeIsOwned, Inv
    <2>2. CASE frozen' = NoPoints
      BY <1>2, <2>2, Counts DEF FreezeIsOwned, Inv, NoPoints, Kinds
    <2> QED
      BY <1>1, <2>1, <2>2 DEF SnapshotInvalidated
  <1>13. SizeAsked'
    BY <1>2 DEF SizeAsked, Inv
  <1> QED
    BY <1>7, <1>9, <1>10, <1>11, <1>12, <1>13 DEF Inv

\* The quota leaves out what is frozen and what other requests ask for.
LEMMA AvailableBound ==
  ASSUME SettlementTypeOK, NEW w \in Withdrawals
  PROVE  /\ Available(w) \in Int /\ AtRiskPoints \in Nat
         /\ Points(size, InFlight \ {w}) \in Nat
         /\ Available(w) = balance["SUPPLY"] - frozen["SUPPLY"] - Points(size, InFlight \ {w})
                             - AtRiskPoints
         /\ Available(w) <= balance["SUPPLY"] - frozen["SUPPLY"]
  <1> DEFINE risky == {x \in Rewards : reward[x] = "SETTLED" /\ recorded[x] # "past"}
             q == Points(size, InFlight \ {w})
  <1>1. AtRiskPoints \in Nat
    <2>1. risky \in SUBSET Rewards
      OBVIOUS
    <2>2. Cardinality(risky) \in Nat
      BY <2>1, FS_Subset, FS_CardinalityType, SettlementAssumption
    <2> HIDE DEF risky
    <2>3. RewardPoints * Cardinality(risky) \in Nat
      BY <2>2, SettlementAssumption
    <2> QED
      BY <2>3 DEF AtRiskPoints, risky
  <1>2. q \in Nat
    <2>1. InFlight \ {w} \in SUBSET Withdrawals
      BY DEF InFlight
    <2> QED
      BY <2>1, PointsFinite
  <1>3. Available(w) = balance["SUPPLY"] - frozen["SUPPLY"] - q - AtRiskPoints
    BY DEF Available, PointsAsked, Points
  <1>4. balance["SUPPLY"] \in Int /\ frozen["SUPPLY"] \in Int
    BY DEF SettlementTypeOK, Kinds
  <1> HIDE DEF q
  <1>5. Available(w) \in Int /\ Available(w) <= balance["SUPPLY"] - frozen["SUPPLY"]
    BY <1>1, <1>2, <1>3, <1>4
  <1> QED
    BY <1>1, <1>2, <1>3, <1>5 DEF q

\* An approval freezes what it promises, on an account that has it.
LEMMA InvApproveWithdrawal ==
  ASSUME Inv, SettlementTypeOK', NEW w \in Withdrawals, ApproveWithdrawal(w)
  PROVE  Inv'
  <1>1. /\ UNCHANGED <<balance, size, reward, cooperation, termination, snapshot, settled>>
        /\ withdrawal[w] = "PENDING_REVIEW"
        /\ withdrawal' = [withdrawal EXCEPT ![w] = "APPROVED_PENDING_PAYMENT"]
        /\ frozen' = [frozen EXCEPT !["SUPPLY"] = frozen["SUPPLY"] + size[w]]
        /\ size[w] <= Available(w)
    BY DEF ApproveWithdrawal, WithdrawalStep, rewardVars, terminationVars
  <1>2. size[w] \in Nat /\ size[w] > 0
    BY <1>1, SettlementAssumption DEF Inv, SettlementTypeOK, SizeAsked
  <1>3. balance["SUPPLY"] > frozen["SUPPLY"] /\ frozen["SUPPLY"] \in Nat /\ balance["SUPPLY"] \in Int
    <2>1. Available(w) \in Int /\ Available(w) <= balance["SUPPLY"] - frozen["SUPPLY"]
      BY AvailableBound DEF Inv
    <2>2. frozen["SUPPLY"] \in Nat /\ balance["SUPPLY"] \in Int
      BY DEF Inv, SettlementTypeOK, Kinds
    <2> QED
      BY <1>1, <1>2, <2>1, <2>2
  <1>4. ~Settling /\ ~Settling'
    BY <1>1, <1>3 DEF Inv, SettlementStaysPayable, SupplyIsTheSnapshot, Settling, Kinds
  <1>5. cooperation' # "TERMINATED"
    BY <1>1, <1>3 DEF Inv, EndedWithTheRequest
  <1>6. Approved' = Approved \cup {w} /\ w \notin Approved /\ Paid' = Paid /\ Earned' = Earned
    BY <1>1 DEF Approved, Paid, Earned, ApprovedStatuses, Inv, SettlementTypeOK
  <1>7. Points(size, Approved \cup {w}) = Points(size, Approved) + size[w]
    BY <1>6, Counts, PointsAdd DEF Inv, Approved
  <1>8. FreezeIsOwned'
    <2>1. frozen'["SUPPLY"] = frozen["SUPPLY"] + size[w] /\ frozen'["CUSTOMER"] = frozen["CUSTOMER"]
      BY <1>1 DEF Inv, SettlementTypeOK, Kinds
    <2>2. frozen["SUPPLY"] <= Points(size, Approved) /\ frozen["CUSTOMER"] = 0
      BY <1>4 DEF Inv, FreezeIsOwned
    <2>3. Points(size', Approved') = Points(size, Approved) + size[w]
      BY <1>1, <1>6, <1>7
    <2>4. Points(size, Approved) \in Nat
      BY Counts DEF Inv
    <2>5. frozen'["SUPPLY"] <= Points(size', Approved')
      BY <1>2, <1>3, <2>1, <2>2, <2>3, <2>4
    <2> QED
      BY <2>1, <2>2, <2>5 DEF FreezeIsOwned
  <1>9. (SettlementStaysPayable /\ OneClaimOnThePoints /\ SupplyIsTheSnapshot)'
    BY <1>4 DEF SettlementStaysPayable, OneClaimOnThePoints, SupplyIsTheSnapshot, Settling
  <1>10. SizeAsked'
    BY <1>1, <1>2 DEF SizeAsked, Inv, SettlementTypeOK
  <1>11. (SupplyBooks /\ NothingPromised /\ EndedWithTheRequest)'
    BY <1>1, <1>4, <1>5, <1>6 DEF SupplyBooks, NothingPromised, EndedWithTheRequest, Inv
  <1> QED
    BY <1>8, <1>9, <1>10, <1>11 DEF Inv

\* While a request is approved, no settlement is under way and the cooperation
\* goes on.
LEMMA ApprovedExcludes ==
  ASSUME Inv, NEW w \in Approved
  PROVE  ~Settling /\ cooperation # "TERMINATED"
  BY DEF Inv, OneClaimOnThePoints, EndedWithTheRequest, Settling

\* The freeze without a request that ends is still owned by the others.
LEMMA ReleaseOwned ==
  ASSUME Inv, SettlementTypeOK', NEW w \in Approved, ReleaseFreeze(w),
         Approved' = Approved \ {w}, UNCHANGED <<size, termination>>
  PROVE  FreezeIsOwned'
  <1>1. frozen["CUSTOMER"] = 0 /\ frozen["SUPPLY"] <= Points(size, Approved)
    BY ApprovedExcludes DEF Inv, FreezeIsOwned
  <1>2. w \in Withdrawals /\ Approved \in SUBSET Withdrawals
    BY DEF Approved
  <1>3. Points(size', Approved') = Points(size, Approved) - size[w]
    BY <1>2, Counts, PointsRemove DEF Inv
  <1>4. Points(size', Approved') \in Nat
    BY Counts, <1>2, PointsFinite, Approved \ {w} \in SUBSET Withdrawals
  <1>5. size[w] \in Int /\ frozen["SUPPLY"] \in Int /\ Points(size, Approved) \in Int
    BY <1>2, Counts, SettlementAssumption DEF Inv, SettlementTypeOK, Kinds
  <1>6. /\ frozen'["CUSTOMER"] = frozen["CUSTOMER"]
        /\ \/ frozen'["SUPPLY"] = 0
           \/ frozen'["SUPPLY"] = frozen["SUPPLY"] - size[w]
    BY <1>2, ReleaseType DEF Inv
  <1>7. frozen'["SUPPLY"] <= Points(size', Approved')
    BY <1>1, <1>3, <1>4, <1>5, <1>6
  <1> QED
    BY <1>1, <1>6, <1>7 DEF FreezeIsOwned

\* Cancelling an approved request gives its points free.
LEMMA InvCancelApproved ==
  ASSUME Inv, SettlementTypeOK', NEW w \in Withdrawals, CancelWithdrawal(w),
         withdrawal[w] = "APPROVED_PENDING_PAYMENT"
  PROVE  Inv'
  <1>1. /\ UNCHANGED <<balance, size, reward, cooperation, termination, snapshot, settled>>
        /\ withdrawal' = [withdrawal EXCEPT ![w] = "CANCELLED"]
        /\ ReleaseFreeze(w)
    BY DEF CancelWithdrawal, WithdrawalStep, rewardVars, terminationVars
  <1>2. w \in Approved
    BY DEF Approved, ApprovedStatuses
  <1>3. Approved' = Approved \ {w} /\ Paid' = Paid /\ Earned' = Earned
    BY <1>1 DEF Approved, Paid, Earned, ApprovedStatuses, Inv, SettlementTypeOK
  <1>4. FreezeIsOwned'
    BY <1>1, <1>2, <1>3, ReleaseOwned
  <1>5. ~Settling' /\ cooperation' # "TERMINATED"
    BY <1>1, <1>2, ApprovedExcludes DEF Settling
  <1>6. (SettlementStaysPayable /\ OneClaimOnThePoints /\ SupplyIsTheSnapshot)'
    BY <1>5 DEF SettlementStaysPayable, OneClaimOnThePoints, SupplyIsTheSnapshot, Settling
  <1>7. SizeAsked'
    BY <1>1 DEF SizeAsked, Inv, SettlementTypeOK
  <1>8. (SupplyBooks /\ NothingPromised /\ EndedWithTheRequest)'
    BY <1>1, <1>3, <1>5 DEF SupplyBooks, NothingPromised, EndedWithTheRequest, Inv
  <1> QED
    BY <1>4, <1>6, <1>7, <1>8 DEF Inv

\* A withdrawal paid out moves its points from the balance to the paid ones.
LEMMA InvConfirmWithdrawal ==
  ASSUME Inv, SettlementTypeOK', NEW w \in Withdrawals, ConfirmWithdrawalPayment(w)
  PROVE  Inv'
  <1>1. /\ UNCHANGED <<size, reward, cooperation, termination, snapshot, settled>>
        /\ withdrawal[w] = "PAID_PENDING_WRITE_OFF"
        /\ withdrawal' = [withdrawal EXCEPT ![w] = "PAID"]
        /\ ReleaseFreeze(w)
    BY DEF ConfirmWithdrawalPayment, WithdrawalStep, rewardVars, terminationVars
  <1>2. w \in Approved
    BY <1>1 DEF Approved, ApprovedStatuses
  <1>3. Approved' = Approved \ {w} /\ Earned' = Earned
    BY <1>1 DEF Approved, Earned, ApprovedStatuses, Inv, SettlementTypeOK
  <1>4. Paid' = Paid \cup {w} /\ w \notin Paid
    BY <1>1 DEF Paid, Inv, SettlementTypeOK
  <1>5. FreezeIsOwned'
    BY <1>1, <1>2, <1>3, ReleaseOwned
  <1>6. ~Settling' /\ cooperation' # "TERMINATED"
    BY <1>1, <1>2, ApprovedExcludes DEF Settling
  <1>7. SupplyBooks'
    <2>1. Points(size', Paid') = Points(size, Paid) + size[w]
      BY <1>1, <1>4, Counts, PointsAdd DEF Inv, Paid
    <2>2. size[w] \in Int /\ balance["SUPPLY"] \in Int /\ settled \in Int
      BY SettlementAssumption DEF Inv, SettlementTypeOK, Kinds
    <2>3. balance'["SUPPLY"] = balance["SUPPLY"] - size[w]
      BY <2>2, WriteOffStep DEF Inv, SettlementTypeOK, Kinds
    <2>4. \A b, s, p, d \in Int : (b - d) + s + (p + d) = b + s + p
      OBVIOUS
    <2>5. Points(size, Paid) \in Int
      BY Counts DEF Inv
    <2>6. balance["SUPPLY"] + settled + Points(size, Paid) = RewardPoints * Cardinality(Earned)
      BY DEF Inv, SupplyBooks
    <2>7. (balance["SUPPLY"] - size[w]) + settled + (Points(size, Paid) + size[w])
            = RewardPoints * Cardinality(Earned)
      BY <2>2, <2>4, <2>5, <2>6
    <2> QED
      BY <1>1, <1>3, <2>1, <2>3, <2>7 DEF SupplyBooks
  <1>8. (SettlementStaysPayable /\ OneClaimOnThePoints /\ SupplyIsTheSnapshot)'
    BY <1>6 DEF SettlementStaysPayable, OneClaimOnThePoints, SupplyIsTheSnapshot, Settling
  <1>9. SizeAsked'
    BY <1>1 DEF SizeAsked, Inv, SettlementTypeOK
  <1>10. (NothingPromised /\ EndedWithTheRequest)'
    BY <1>6 DEF NothingPromised, EndedWithTheRequest
  <1> QED
    BY <1>5, <1>7, <1>8, <1>9, <1>10 DEF Inv

\* Giving a termination up frees everything, approved withdrawals included.
LEMMA InvCancelTermination ==
  ASSUME Inv, SettlementTypeOK', CancelTermination
  PROVE  Inv'
  <1>1. /\ UNCHANGED <<balance, reward, withdrawal, size, settled>>
        /\ termination' = "CANCELLED" /\ cooperation' = "ACTIVE"
        /\ frozen' = NoPoints
    BY DEF CancelTermination, TerminationStep, rewardVars, withdrawalVars
  <1>2. ~Settling'
    BY <1>1 DEF Settling, SettlingStatuses
  <1>3. FreezeIsOwned'
    <2>1. Points(size, Approved) \in Nat /\ Approved' = Approved
      BY <1>1, Counts DEF Inv, Approved
    <2>2. frozen'["CUSTOMER"] = 0 /\ frozen'["SUPPLY"] = 0
      BY <1>1 DEF NoPoints, Kinds
    <2> QED
      BY <1>1, <2>1, <2>2 DEF FreezeIsOwned
  <1>4. (SizeAsked /\ SupplyBooks)'
    BY <1>1 DEF SizeAsked, SupplyBooks, Paid, Earned, Inv
  <1>5. (SettlementStaysPayable /\ OneClaimOnThePoints /\ SupplyIsTheSnapshot)'
    BY <1>2 DEF SettlementStaysPayable, OneClaimOnThePoints, SupplyIsTheSnapshot, Settling
  <1>6. (NothingPromised /\ EndedWithTheRequest)'
    BY <1>1, <1>2 DEF NothingPromised, EndedWithTheRequest
  <1> QED
    BY <1>3, <1>4, <1>5, <1>6 DEF Inv

\* An approved termination freezes exactly what it has read, and finds nobody
\* else with a claim on it.
LEMMA InvApproveTermination ==
  ASSUME Inv, SettlementTypeOK', ApproveTermination
  PROVE  Inv'
  <1>1. /\ UNCHANGED <<balance, reward, withdrawal, size, settled>>
        /\ termination' = "APPROVED_PENDING_PAYMENT" /\ cooperation' = "TERMINATION_PENDING"
        /\ frozen' = balance /\ snapshot' = balance
        /\ ~Blockers
    BY DEF ApproveTermination, TerminationStep, rewardVars, withdrawalVars
  <1>2. Approved' = {} /\ \A x \in Rewards : reward'[x] # "OBSERVING"
    BY <1>1, NoBlockers DEF Inv, Approved
  <1>3. Settling' /\ balance \in [Kinds -> Int]
    BY <1>1 DEF Settling, SettlingStatuses, Inv, SettlementTypeOK
  <1>4. (SettlementStaysPayable /\ OneClaimOnThePoints /\ SupplyIsTheSnapshot)'
    BY <1>1, <1>2, <1>3 DEF SettlementStaysPayable, OneClaimOnThePoints, SupplyIsTheSnapshot
  <1>5. (FreezeIsOwned /\ NothingPromised /\ EndedWithTheRequest)'
    BY <1>1, <1>2, <1>3 DEF FreezeIsOwned, NothingPromised, EndedWithTheRequest
  <1>6. (SizeAsked /\ SupplyBooks)'
    BY <1>1 DEF SizeAsked, SupplyBooks, Paid, Earned, Inv
  <1> QED
    BY <1>4, <1>5, <1>6 DEF Inv

\* The write-off empties the supply wallet into the settled points.
LEMMA InvConfirmTermination ==
  ASSUME Inv, SettlementTypeOK', ConfirmTermination
  PROVE  Inv'
  <1>1. /\ UNCHANGED <<reward, withdrawal, size, snapshot>>
        /\ termination = "PAID_PENDING_WRITE_OFF"
        /\ termination' = "TERMINATED" /\ cooperation' = "TERMINATED"
        /\ balance' = [k \in Kinds |-> balance[k] - snapshot[k]]
        /\ frozen' = NoPoints
        /\ settled' = settled + snapshot["SUPPLY"]
    BY DEF ConfirmTermination, TerminationStep, rewardVars, withdrawalVars
  <1>2. Settling /\ ~Settling'
    BY <1>1 DEF Settling, SettlingStatuses
  <1>3. balance["SUPPLY"] = snapshot["SUPPLY"] /\ Approved = {}
    BY <1>2 DEF Inv, SupplyIsTheSnapshot, OneClaimOnThePoints, Settling
  <1>4. Approved' = {} /\ Paid' = Paid /\ Earned' = Earned
    BY <1>1, <1>3 DEF Approved, Paid, Earned
  <1>5. balance["SUPPLY"] \in Int /\ snapshot["SUPPLY"] \in Int /\ settled \in Int
    BY DEF Inv, SettlementTypeOK, Kinds
  <1>6. balance'["SUPPLY"] = 0
    BY <1>1, <1>3, <1>5 DEF Kinds
  <1>7. FreezeIsOwned'
    BY <1>1, <1>4, PointsOfNone DEF FreezeIsOwned, NoPoints, Kinds
  <1>8. SupplyBooks'
    <2>1. \A b, s, p \in Int : b + s + p = 0 + (s + b) + p
      OBVIOUS
    <2>2. Points(size, Paid) \in Int
      BY Counts DEF Inv
    <2>3. balance["SUPPLY"] + settled + Points(size, Paid)
            = 0 + (settled + balance["SUPPLY"]) + Points(size, Paid)
      BY <1>5, <2>1, <2>2
    <2> QED
      BY <1>1, <1>3, <1>4, <1>6, <2>3 DEF SupplyBooks, Inv
  <1>9. (SettlementStaysPayable /\ OneClaimOnThePoints /\ SupplyIsTheSnapshot)'
    BY <1>2 DEF SettlementStaysPayable, OneClaimOnThePoints, SupplyIsTheSnapshot, Settling
  <1>10. (NothingPromised /\ EndedWithTheRequest)'
    BY <1>1, <1>2, <1>4, <1>6 DEF NothingPromised, EndedWithTheRequest, Inv
  <1>11. SizeAsked'
    BY <1>1 DEF SizeAsked, Inv
  <1> QED
    BY <1>7, <1>8, <1>9, <1>10, <1>11 DEF Inv

\* A stuttering step changes nothing.
LEMMA InvStutter ==
  ASSUME Inv, SettlementTypeOK', UNCHANGED settlementVars
  PROVE  Inv'
  <1>1. UNCHANGED <<balance, frozen, reward, withdrawal, size, cooperation, termination,
                    snapshot, settled>>
    BY DEF settlementVars, walletVars, rewardVars, withdrawalVars, terminationVars
  <1>2. NothingPromised'
    BY <1>1 DEF NothingPromised, Settling, Inv
  <1> QED
    BY <1>1, <1>2, Frame DEF Settling, Approved, Paid, Earned, Inv, SizeAsked

\* Every step keeps the invariant.
LEMMA InvStep ==
  ASSUME Inv, [SettlementNext]_settlementVars
  PROVE  Inv'
  <1>1. SettlementTypeOK'
    BY SettlementTypeStep DEF Inv
  <1>2. CASE MoveCustomerPoints
    BY <1>1, <1>2, InvMoveCustomerPoints
  <1>3. ASSUME NEW x \in Rewards, ReverseReward(x) \/ ApproveAppeal(x)
        PROVE  Inv'
    <2>1. CASE TakeBack(x)
      BY <1>1, <1>3, <2>1, InvTakeBack DEF ReverseReward, ApproveAppeal
    <2>2. CASE ~TakeBack(x)
      <3>1. /\ reward' = [reward EXCEPT ![x] = IF @ = "OBSERVING" THEN "CANCELLED" ELSE @]
            /\ reward[x] # "SETTLED"
            /\ UNCHANGED <<walletVars, withdrawalVars, terminationVars>>
        BY <1>3, <2>2 DEF ReverseReward, ApproveAppeal, terminationVars
      <3>2. Earned' = Earned
        BY <3>1 DEF Earned, Inv, SettlementTypeOK
      <3>3. NothingPromised'
        BY <3>1 DEF NothingPromised, Inv, SettlementTypeOK, Settling, terminationVars
      <3> QED
        BY <1>1, <3>1, <3>2, <3>3, Frame DEF walletVars, withdrawalVars, terminationVars,
           Settling, Approved, Paid, Inv, SizeAsked
    <2> QED
      BY <2>1, <2>2
  <1>4. ASSUME NEW x \in Rewards,
               \/ PromiseReward(x) \/ SettleReward(x) \/ OpenAppeal(x) \/ RejectAppeal(x)
               \/ DeadlinePasses(x) \/ ReverseReward(x) \/ ApproveAppeal(x)
        PROVE  Inv'
    BY <1>1, <1>3, <1>4, QuietRewards, InvSettleReward
  <1>5. ASSUME NEW w \in Withdrawals,
               \/ \E n \in 1..MaxSize : CheckWithdrawal(w, n)
               \/ InsertWithdrawal(w) \/ ApproveWithdrawal(w) \/ RejectWithdrawal(w)
               \/ CancelWithdrawal(w) \/ RecordWithdrawalPayment(w)
               \/ FailWithdrawalPayment(w) \/ ConfirmWithdrawalPayment(w)
               \/ RequestPaymentChange(w) \/ ReviewPaymentChange(w)
        PROVE  Inv'
    BY <1>1, <1>5, QuietWithdrawals, InvApproveWithdrawal, InvCancelApproved,
       InvConfirmWithdrawal
  <1>6. CASE \/ RequestTermination \/ RefreshTermination \/ CancelTermination
             \/ ApproveTermination \/ DecideTermination \/ RecordTerminationPayment
             \/ FailTerminationPayment \/ ConfirmTermination \/ ReopenCooperation
    BY <1>1, <1>6, QuietTermination, InvCancelTermination, InvApproveTermination,
       InvConfirmTermination
  <1>7. CASE UNCHANGED settlementVars
    BY <1>1, <1>7, InvStutter
  <1> QED
    BY <1>2, <1>4, <1>5, <1>6, <1>7 DEF SettlementNext

\* A company starts with nothing paid, asked for or frozen.
LEMMA InvInit ==
  ASSUME SettlementInit
  PROVE  Inv
  <1>1. SettlementTypeOK
    BY SettlementAssumption DEF SettlementInit, SettlementTypeOK, NoPoints, InFlightStatuses, ActiveRequestStatuses
  <1>2. ~Settling /\ cooperation # "TERMINATED"
    BY DEF SettlementInit, Settling, SettlingStatuses
  <1>3. Approved = {} /\ Paid = {} /\ Earned = {}
    BY DEF SettlementInit, Approved, ApprovedStatuses, Paid, Earned
  <1>4. Cardinality(Earned) = 0 /\ Points(size, Approved) = 0 /\ Points(size, Paid) = 0
    BY <1>3, FS_EmptySet, PointsOfNone
  <1>5. balance["SUPPLY"] = 0 /\ frozen["SUPPLY"] = 0 /\ frozen["CUSTOMER"] = 0 /\ settled = 0
    BY DEF SettlementInit, NoPoints, Kinds
  <1>6. SupplyBooks
    BY <1>4, <1>5, SettlementAssumption DEF SupplyBooks
  <1>7. SizeAsked
    BY DEF SettlementInit, SizeAsked
  <1>8. SettlementStaysPayable /\ OneClaimOnThePoints /\ SupplyIsTheSnapshot
    BY <1>2 DEF SettlementStaysPayable, OneClaimOnThePoints, SupplyIsTheSnapshot, Settling
  <1>9. FreezeIsOwned /\ NothingPromised /\ EndedWithTheRequest
    BY <1>2, <1>4, <1>5 DEF FreezeIsOwned, NothingPromised, EndedWithTheRequest
  <1> QED
    BY <1>1, <1>6, <1>7, <1>8, <1>9 DEF Inv

\* Hence the invariant holds throughout.
LEMMA Invariant == SettlementSpec => []Inv
  <1>1. SettlementInit => Inv
    BY InvInit
  <1>2. Inv /\ [SettlementNext]_settlementVars => Inv'
    BY InvStep
  <1> QED
    BY <1>1, <1>2, PTL DEF SettlementSpec

-----------------------------------------------------------------------------
\* The properties.

\* Every variable keeps the type the tables give it.
THEOREM SettlementTypeCorrect == SettlementSpec => []SettlementTypeOK
  <1>1. Inv => SettlementTypeOK
    BY DEF Inv
  <1> QED
    BY <1>1, Invariant, PTL

\* From the approval of a termination to its write-off the points of the
\* snapshot stay in the account, frozen (approve_termination,
\* confirm_offline_payment), for any number of rewards and withdrawals.
THEOREM SettlementCanBePaid == SettlementSpec => []SettlementStaysPayable
  <1>1. Inv => SettlementStaysPayable
    BY DEF Inv
  <1> QED
    BY <1>1, Invariant, PTL

\* A withdrawal is never approved while a termination is settled, nor a
\* termination while a withdrawal is approved (review_withdrawal,
\* termination_blockers).
THEOREM ClaimsExclude == SettlementSpec => []OneClaimOnThePoints
  <1>1. Inv => OneClaimOnThePoints
    BY DEF Inv
  <1> QED
    BY <1>1, Invariant, PTL

\* No points stay frozen without a request or a termination they are frozen
\* for (release_frozen_points and cancel_termination).
THEOREM FreezeHasAnOwner == SettlementSpec => []NoOrphanFreeze
  <1>1. Inv => NoOrphanFreeze
    <2> SUFFICES ASSUME Inv, ~Settling
                 PROVE  frozen["CUSTOMER"] = 0 /\ (frozen["SUPPLY"] > 0 => Approved # {})
      BY DEF NoOrphanFreeze, Settling
    <2>1. frozen["CUSTOMER"] = 0 /\ frozen["SUPPLY"] <= Points(size, Approved)
      BY DEF Inv, FreezeIsOwned
    <2>2. Approved = {} => Points(size, Approved) = 0
      BY PointsOfNone
    <2>3. frozen["SUPPLY"] \in Nat
      BY DEF Inv, SettlementTypeOK, Kinds
    <2> QED
      BY <2>1, <2>2, <2>3
  <1> QED
    BY <1>1, Invariant, PTL

\* Rewards paid and not taken back are the balance, the withdrawals paid out
\* and the terminations written off: no supply point leaves twice.
THEOREM NoPointLeavesTwice == SettlementSpec => []SupplyIsAccountedFor
  <1>1. Inv => SupplyIsAccountedFor
    BY DEF Inv, SupplyBooks, SupplyIsAccountedFor, Points, PointsAsked, Paid, Earned
  <1> QED
    BY <1>1, Invariant, PTL

\* The end of a cooperation leaves no supply points and nothing to pay out.
THEOREM NothingLeftToPay == SettlementSpec => []TerminatedIsSettled
  <1>1. Inv => TerminatedIsSettled
    BY DEF Inv, EndedWithTheRequest, TerminatedIsSettled
  <1> QED
    BY <1>1, Invariant, PTL

\* Only the review approves a request.
LEMMA OnlyTheReviewApproves ==
  ASSUME SettlementTypeOK, [SettlementNext]_settlementVars, NEW w \in Withdrawals,
         withdrawal[w] = "PENDING_REVIEW", withdrawal'[w] = "APPROVED_PENDING_PAYMENT"
  PROVE  ApproveWithdrawal(w)
  <1>1. withdrawal' # withdrawal
    OBVIOUS
  <1>2. ASSUME NEW x \in Rewards,
               \/ PromiseReward(x) \/ SettleReward(x) \/ OpenAppeal(x) \/ RejectAppeal(x)
               \/ DeadlinePasses(x) \/ ReverseReward(x) \/ ApproveAppeal(x)
        PROVE  UNCHANGED withdrawal
    BY <1>2 DEF PromiseReward, SettleReward, OpenAppeal, RejectAppeal, DeadlinePasses,
                ReverseReward, ApproveAppeal, withdrawalVars
  <1>3. CASE \/ RequestTermination \/ RefreshTermination \/ CancelTermination
             \/ ApproveTermination \/ DecideTermination \/ RecordTerminationPayment
             \/ FailTerminationPayment \/ ConfirmTermination \/ ReopenCooperation
    <2>1. UNCHANGED withdrawal
      BY <1>3 DEF RequestTermination, RefreshTermination, CancelTermination, ApproveTermination,
                  DecideTermination, RecordTerminationPayment, FailTerminationPayment,
                  ConfirmTermination, ReopenCooperation, TerminationStep, withdrawalVars
    <2> QED
      BY <1>1, <2>1
  <1>4. CASE MoveCustomerPoints \/ UNCHANGED settlementVars
    <2>1. UNCHANGED withdrawal
      BY <1>4 DEF MoveCustomerPoints, settlementVars, withdrawalVars
    <2> QED
      BY <1>1, <2>1
  <1>5. ASSUME NEW v \in Withdrawals,
               \/ \E n \in 1..MaxSize : CheckWithdrawal(v, n)
               \/ InsertWithdrawal(v) \/ RejectWithdrawal(v)
               \/ CancelWithdrawal(v) \/ RecordWithdrawalPayment(v)
               \/ FailWithdrawalPayment(v) \/ ConfirmWithdrawalPayment(v)
               \/ RequestPaymentChange(v) \/ ReviewPaymentChange(v)
        PROVE  FALSE
    BY <1>5 DEF SettlementTypeOK, CheckWithdrawal, InsertWithdrawal, RejectWithdrawal, CancelWithdrawal,
                RecordWithdrawalPayment, FailWithdrawalPayment, ConfirmWithdrawalPayment,
                RequestPaymentChange, ReviewPaymentChange, WithdrawalStep
  <1>6. ASSUME NEW v \in Withdrawals, ApproveWithdrawal(v)
        PROVE  v = w
    BY <1>6 DEF SettlementTypeOK, ApproveWithdrawal, WithdrawalStep
  <1> QED
    BY <1>1, <1>2, <1>3, <1>4, <1>5, <1>6 DEF SettlementNext

\* An approval counts what is approved against the balance and what may be taken back.
LEMMA ApprovalFits ==
  ASSUME SettlementTypeOK, [SettlementNext]_settlementVars, NEW w \in Withdrawals,
         withdrawal[w] = "PENDING_REVIEW", withdrawal'[w] = "APPROVED_PENDING_PAYMENT"
  PROVE  PointsAsked(Approved)' <= balance["SUPPLY"] - AtRiskPoints
  <1>1. ApproveWithdrawal(w)
    BY OnlyTheReviewApproves
  <1>2. /\ size' = size /\ size[w] <= Available(w)
        /\ withdrawal' = [withdrawal EXCEPT ![w] = "APPROVED_PENDING_PAYMENT"]
    BY <1>1 DEF ApproveWithdrawal, WithdrawalStep
  <1>3. Approved' = Approved \cup {w} /\ w \notin Approved /\ Approved \in SUBSET Withdrawals
    BY <1>2 DEF Approved, ApprovedStatuses, SettlementTypeOK
  <1>4. PointsAsked(Approved)' = Points(size, Approved) + size[w]
    <2>1. PointsAsked(Approved)' = Points(size', Approved')
      BY DEF PointsAsked, Points
    <2>2. Points(size, Approved \cup {w}) = Points(size, Approved) + size[w]
      BY <1>3, Counts, PointsAdd
    <2> QED
      BY <1>2, <1>3, <2>1, <2>2
  <1>5. Points(size, Approved) <= Points(size, InFlight \ {w})
    <2>1. Approved \in SUBSET (InFlight \ {w}) /\ InFlight \ {w} \in SUBSET Withdrawals
      BY <1>3 DEF Approved, InFlight, InFlightStatuses
    <2> QED
      BY <2>1, PointsMonotone
  <1>6. /\ Points(size, Approved) \in Nat /\ Points(size, InFlight \ {w}) \in Nat
        /\ size[w] \in Int /\ balance["SUPPLY"] \in Int /\ frozen["SUPPLY"] \in Nat
        /\ AtRiskPoints \in Nat
    <2>1. Points(size, Approved) \in Nat
      BY Counts
    <2>2. AtRiskPoints \in Nat /\ Points(size, InFlight \ {w}) \in Nat
      BY AvailableBound
    <2>3. size[w] \in Int /\ balance["SUPPLY"] \in Int /\ frozen["SUPPLY"] \in Nat
      BY SettlementAssumption DEF SettlementTypeOK, Kinds
    <2> QED
      BY <2>1, <2>2, <2>3
  <1>7. Available(w) = balance["SUPPLY"] - frozen["SUPPLY"] - Points(size, InFlight \ {w})
                         - AtRiskPoints
    BY AvailableBound
  <1>8. \A b, f, q, r, p, n \in Int :
          f >= 0 /\ p <= q /\ n <= b - f - q - r => p + n <= b - r
    OBVIOUS
  <1>9. Points(size, Approved) + size[w] <= balance["SUPPLY"] - AtRiskPoints
    BY <1>2, <1>5, <1>6, <1>7, <1>8
  <1> QED
    BY <1>4, <1>9

\* Whatever two requests of the supplier read at the same time, the review never
\* approves more than the balance covers (available_supply_points read again in
\* review_withdrawal).
THEOREM ApprovalsAreCovered == SettlementSpec => ApprovalsFitTheBalance
  <1>1. SettlementTypeOK /\ [SettlementNext]_settlementVars =>
          \A w \in Withdrawals :
            withdrawal[w] = "PENDING_REVIEW" /\ withdrawal'[w] = "APPROVED_PENDING_PAYMENT" =>
              PointsAsked(Approved)' <= balance["SUPPLY"] - AtRiskPoints
    BY ApprovalFits
  <1> QED
    BY <1>1, SettlementTypeCorrect, PTL DEF SettlementSpec, ApprovalsFitTheBalance

-----------------------------------------------------------------------------
\* Two things the code says and does not keep, and exactly what breaks them.

\* Who is approved and what is frozen stay as they are.
LEMMA FrozenStays ==
  ASSUME Inv, ApprovedPointsStayFrozen, frozen' = frozen, Approved' = Approved,
         \A w \in Approved : size'[w] = size[w]
  PROVE  ApprovedPointsStayFrozen'
  <1>1. Points(size', Approved) = Points(size, Approved)
    BY PointsDependOnMembers
  <1> QED
    BY <1>1 DEF ApprovedPointsStayFrozen, PointsAsked, Points

\* Without approved requests there is nothing to keep frozen.
LEMMA NothingToFreeze ==
  ASSUME Inv', Approved' = {}
  PROVE  ApprovedPointsStayFrozen'
  <1>1. Points(size', Approved') = 0
    BY PointsOfNone
  <1>2. frozen'["SUPPLY"] \in Nat
    BY DEF Inv, SettlementTypeOK, Kinds
  <1> QED
    BY <1>1, <1>2 DEF ApprovedPointsStayFrozen, PointsAsked, Points

\* A request that ends gives its own points free and leaves those of the others.
LEMMA FrozenForTheOthers ==
  ASSUME Inv, ApprovedPointsStayFrozen, NEW w \in Approved, ReleaseFreeze(w),
         Approved' = Approved \ {w}, size' = size
  PROVE  ApprovedPointsStayFrozen'
  <1>1. w \in Withdrawals /\ Approved \in SUBSET Withdrawals
    BY DEF Approved
  <1>2. Points(size', Approved') = Points(size, Approved) - size[w]
    BY <1>1, Counts, PointsRemove DEF Inv
  <1>3. Points(size, Approved) <= frozen["SUPPLY"]
    BY DEF ApprovedPointsStayFrozen, PointsAsked, Points
  <1>4. Approved \ {w} \in SUBSET Withdrawals
    BY <1>1
  <1>5. Points(size', Approved') \in Nat
    BY <1>4, PointsFinite
  <1>6. size[w] \in Nat /\ frozen["SUPPLY"] \in Nat /\ Points(size, Approved) \in Nat
    BY <1>1, Counts, SettlementAssumption DEF Inv, SettlementTypeOK, Kinds
  <1>7. frozen'["SUPPLY"] = IF frozen["SUPPLY"] > size[w] THEN frozen["SUPPLY"] - size[w] ELSE 0
    BY DEF ReleaseFreeze, Inv, SettlementTypeOK, Kinds
  <1>8. Points(size', Approved') <= frozen'["SUPPLY"]
    BY <1>2, <1>3, <1>5, <1>6, <1>7
  <1> QED
    BY <1>8 DEF ApprovedPointsStayFrozen, PointsAsked, Points

\* An approval freezes the points of its request beside those of the others.
LEMMA FrozenForOneMore ==
  ASSUME Inv, ApprovedPointsStayFrozen, NEW w \in Withdrawals, ApproveWithdrawal(w)
  PROVE  ApprovedPointsStayFrozen'
  <1>1. /\ size' = size /\ withdrawal[w] = "PENDING_REVIEW"
        /\ withdrawal' = [withdrawal EXCEPT ![w] = "APPROVED_PENDING_PAYMENT"]
        /\ frozen' = [frozen EXCEPT !["SUPPLY"] = frozen["SUPPLY"] + size[w]]
    BY DEF ApproveWithdrawal, WithdrawalStep
  <1>2. Approved' = Approved \cup {w} /\ w \notin Approved /\ Approved \in SUBSET Withdrawals
    BY <1>1 DEF Approved, ApprovedStatuses, Inv, SettlementTypeOK
  <1>3. Points(size', Approved') = Points(size, Approved) + size[w]
    BY <1>1, <1>2, Counts, PointsAdd DEF Inv
  <1>4. size[w] \in Nat /\ frozen["SUPPLY"] \in Nat /\ Points(size, Approved) \in Nat
    BY <1>1, Counts, SettlementAssumption DEF Inv, SettlementTypeOK, Kinds
  <1>5. frozen'["SUPPLY"] = frozen["SUPPLY"] + size[w]
    BY <1>1 DEF Inv, SettlementTypeOK, Kinds
  <1>6. Points(size, Approved) <= frozen["SUPPLY"]
    BY DEF ApprovedPointsStayFrozen, PointsAsked, Points
  <1>7. Points(size', Approved') <= frozen'["SUPPLY"]
    BY <1>3, <1>4, <1>5, <1>6
  <1> QED
    BY <1>7 DEF ApprovedPointsStayFrozen, PointsAsked, Points

\* A reward that is taken back touches a freeze only to void a snapshot, and
\* beside a snapshot no request is approved.
LEMMA FrozenWhileRewardsMove ==
  ASSUME Inv, Inv', ApprovedPointsStayFrozen, NEW x \in Rewards,
         \/ PromiseReward(x) \/ SettleReward(x) \/ OpenAppeal(x) \/ RejectAppeal(x)
         \/ DeadlinePasses(x) \/ ReverseReward(x) \/ ApproveAppeal(x)
  PROVE  ApprovedPointsStayFrozen'
  <1>1. withdrawal' = withdrawal /\ size' = size
    BY DEF PromiseReward, SettleReward, OpenAppeal, RejectAppeal, DeadlinePasses,
           ReverseReward, ApproveAppeal, withdrawalVars
  <1>2. Approved' = Approved
    BY <1>1 DEF Approved
  <1>3. CASE frozen' = frozen
    BY <1>1, <1>2, <1>3, FrozenStays
  <1>4. CASE TakeBack(x) /\ Settling
    BY <1>2, <1>4, NothingToFreeze DEF Inv, OneClaimOnThePoints, Settling
  <1>5. frozen' = frozen \/ (TakeBack(x) /\ Settling)
    <2>1. TakeBack(x) => frozen' = frozen \/ Settling
      BY DEF TakeBack, Settling
    <2> QED
      BY <2>1 DEF PromiseReward, SettleReward, OpenAppeal, RejectAppeal, DeadlinePasses,
                  ReverseReward, ApproveAppeal, walletVars
  <1> QED
    BY <1>3, <1>4, <1>5

\* The steps of one request keep what is frozen for the others.
LEMMA FrozenWhileRequestsMove ==
  ASSUME Inv, Inv', ApprovedPointsStayFrozen, NEW w \in Withdrawals,
         \/ \E n \in 1..MaxSize : CheckWithdrawal(w, n)
         \/ InsertWithdrawal(w) \/ ApproveWithdrawal(w) \/ RejectWithdrawal(w)
         \/ CancelWithdrawal(w) \/ RecordWithdrawalPayment(w)
         \/ FailWithdrawalPayment(w) \/ ConfirmWithdrawalPayment(w)
         \/ RequestPaymentChange(w) \/ ReviewPaymentChange(w)
  PROVE  ApprovedPointsStayFrozen'
  <1> USE DEF Inv, SettlementTypeOK, Approved, ApprovedStatuses
  <1>1. ASSUME NEW n \in 1..MaxSize, CheckWithdrawal(w, n)
        PROVE  ApprovedPointsStayFrozen'
    <2>1. /\ frozen' = frozen /\ Approved' = Approved
          /\ \A v \in Approved : size'[v] = size[v]
      BY <1>1 DEF CheckWithdrawal, walletVars
    <2> QED
      BY <2>1, FrozenStays
  <1>2. CASE \/ InsertWithdrawal(w) \/ RejectWithdrawal(w)
             \/ CancelWithdrawal(w) /\ withdrawal[w] # "APPROVED_PENDING_PAYMENT"
             \/ RecordWithdrawalPayment(w) \/ FailWithdrawalPayment(w)
             \/ RequestPaymentChange(w) \/ ReviewPaymentChange(w)
    <2>1. frozen' = frozen /\ size' = size /\ Approved' = Approved
      BY <1>2 DEF InsertWithdrawal, RejectWithdrawal, CancelWithdrawal, RecordWithdrawalPayment,
                  FailWithdrawalPayment, RequestPaymentChange, ReviewPaymentChange,
                  WithdrawalStep, walletVars
    <2> QED
      BY <2>1, FrozenStays
  <1>3. CASE \/ CancelWithdrawal(w) /\ withdrawal[w] = "APPROVED_PENDING_PAYMENT"
             \/ ConfirmWithdrawalPayment(w)
    <2>1. w \in Approved /\ ReleaseFreeze(w) /\ size' = size /\ Approved' = Approved \ {w}
      BY <1>3 DEF CancelWithdrawal, ConfirmWithdrawalPayment, WithdrawalStep
    <2> QED
      BY <2>1, FrozenForTheOthers
  <1> QED
    BY <1>1, <1>2, <1>3, FrozenForOneMore

\* A termination freezes or frees a wallet of which nothing is approved, but for
\* the one that is given up.
LEMMA FrozenWhileTerminating ==
  ASSUME Inv, Inv', ApprovedPointsStayFrozen, CancelTermination => Approved = {},
         \/ RequestTermination \/ RefreshTermination \/ CancelTermination
         \/ ApproveTermination \/ DecideTermination \/ RecordTerminationPayment
         \/ FailTerminationPayment \/ ConfirmTermination \/ ReopenCooperation
  PROVE  ApprovedPointsStayFrozen'
  <1>1. withdrawal' = withdrawal /\ size' = size
    BY DEF RequestTermination, RefreshTermination, CancelTermination, ApproveTermination,
           DecideTermination, RecordTerminationPayment, FailTerminationPayment,
           ConfirmTermination, ReopenCooperation, TerminationStep, withdrawalVars
  <1>2. Approved' = Approved
    BY <1>1 DEF Approved
  <1>3. CASE frozen' = frozen
    BY <1>1, <1>2, <1>3, FrozenStays
  <1>4. CASE ApproveTermination
    <2>1. Approved = {}
      BY <1>4 DEF ApproveTermination, Blockers, InFlight, InFlightStatuses, Approved
    <2> QED
      BY <1>2, <2>1, NothingToFreeze
  <1>5. CASE ConfirmTermination
    <2>1. Approved = {}
      BY <1>5 DEF ConfirmTermination, TerminationStep, SettlingStatuses, Inv, OneClaimOnThePoints
    <2> QED
      BY <1>2, <2>1, NothingToFreeze
  <1>6. CASE CancelTermination
    BY <1>2, <1>6, NothingToFreeze
  <1>7. \/ frozen' = frozen
        \/ ApproveTermination \/ ConfirmTermination \/ CancelTermination
    BY DEF RequestTermination, RefreshTermination, DecideTermination, RecordTerminationPayment,
           FailTerminationPayment, ReopenCooperation, walletVars
  <1> QED
    BY <1>3, <1>4, <1>5, <1>6, <1>7

\* The points of approved withdrawals are frozen until a termination is given up
\* beside one of them (cancel_termination frees the whole account): nothing else
\* the code does loses the freeze.
THEOREM OnlyAGivenUpTerminationThaws ==
    SettlementSpec /\ [][CancelTermination => Approved = {}]_settlementVars
      => []ApprovedPointsStayFrozen
  <1>1. SettlementInit => ApprovedPointsStayFrozen
    <2>1. SettlementInit => Approved = {} /\ frozen["SUPPLY"] = 0
      BY DEF SettlementInit, Approved, ApprovedStatuses, NoPoints, Kinds
    <2> QED
      BY <2>1, PointsOfNone DEF ApprovedPointsStayFrozen, PointsAsked, Points
  <1>2. /\ Inv /\ Inv' /\ ApprovedPointsStayFrozen /\ [SettlementNext]_settlementVars
        /\ [CancelTermination => Approved = {}]_settlementVars
        => ApprovedPointsStayFrozen'
    <2> SUFFICES ASSUME Inv, Inv', ApprovedPointsStayFrozen, [SettlementNext]_settlementVars,
                        [CancelTermination => Approved = {}]_settlementVars
                 PROVE  ApprovedPointsStayFrozen'
      OBVIOUS
    <2>1. CASE UNCHANGED settlementVars
      BY <2>1 DEF settlementVars, walletVars, rewardVars, withdrawalVars, terminationVars,
                  ApprovedPointsStayFrozen, PointsAsked, Approved
    <2>2. CASE MoveCustomerPoints
      BY <2>2, FrozenStays DEF MoveCustomerPoints, withdrawalVars, Approved
    <2>3. CASE SettlementNext /\ (CancelTermination => Approved = {})
      BY <2>2, <2>3, FrozenWhileRewardsMove, FrozenWhileRequestsMove, FrozenWhileTerminating
         DEF SettlementNext
    <2> QED
      BY <2>1, <2>3
  <1> QED
    BY <1>1, <1>2, Invariant, PTL DEF SettlementSpec

\* A paid reward whose window runs says so in its own column.
PaidWindowsAreRecorded ==
  \A x \in Rewards : reward[x] = "SETTLED" =>
    window[x] = "closed" \/ (window[x] \in {"open", "resumed"} /\ recorded[x] = "current")

\* It does so until a return stops the window.
LEMMA RecordedStep ==
  ASSUME SettlementTypeOK, PaidWindowsAreRecorded, SettlementNext,
         \A x \in Rewards : OpenAppeal(x) => reward[x] # "SETTLED"
  PROVE  PaidWindowsAreRecorded'
  <1> USE DEF SettlementTypeOK, PaidWindowsAreRecorded
  <1>1. ASSUME NEW x \in Rewards, PromiseReward(x)
        PROVE  PaidWindowsAreRecorded'
    BY <1>1 DEF PromiseReward
  <1>2. ASSUME NEW x \in Rewards, SettleReward(x)
        PROVE  PaidWindowsAreRecorded'
    BY <1>2 DEF SettleReward
  <1>3. ASSUME NEW x \in Rewards, OpenAppeal(x)
        PROVE  PaidWindowsAreRecorded'
    BY <1>3 DEF OpenAppeal
  <1>4. ASSUME NEW x \in Rewards, RejectAppeal(x)
        PROVE  PaidWindowsAreRecorded'
    BY <1>4 DEF RejectAppeal
  <1>5. ASSUME NEW x \in Rewards, DeadlinePasses(x)
        PROVE  PaidWindowsAreRecorded'
    BY <1>5 DEF DeadlinePasses
  <1>6. ASSUME NEW x \in Rewards, TakeBack(x) \/ reward' = [reward EXCEPT ![x] =
                                     IF reward[x] = "OBSERVING" THEN "CANCELLED" ELSE reward[x]],
               window' \in {window, [window EXCEPT ![x] = "closed"]}, recorded' = recorded
        PROVE  PaidWindowsAreRecorded'
    BY <1>6 DEF TakeBack
  <1>7. ASSUME NEW x \in Rewards, ReverseReward(x) \/ ApproveAppeal(x)
        PROVE  PaidWindowsAreRecorded'
    <2>1. /\ \/ TakeBack(x)
             \/ reward' = [reward EXCEPT ![x] =
                             IF reward[x] = "OBSERVING" THEN "CANCELLED" ELSE reward[x]]
          /\ window' \in {window, [window EXCEPT ![x] = "closed"]} /\ recorded' = recorded
      BY <1>7 DEF ReverseReward, ApproveAppeal
    <2> QED
      BY <1>6, <2>1
  <1>8. CASE UNCHANGED rewardVars
    BY <1>8 DEF rewardVars
  <1>9. ASSUME NEW w \in Withdrawals,
               \/ \E n \in 1..MaxSize : CheckWithdrawal(w, n)
               \/ InsertWithdrawal(w) \/ ApproveWithdrawal(w) \/ RejectWithdrawal(w)
               \/ CancelWithdrawal(w) \/ RecordWithdrawalPayment(w)
               \/ FailWithdrawalPayment(w) \/ ConfirmWithdrawalPayment(w)
               \/ RequestPaymentChange(w) \/ ReviewPaymentChange(w)
        PROVE  UNCHANGED rewardVars
    BY <1>9 DEF CheckWithdrawal, InsertWithdrawal, ApproveWithdrawal, RejectWithdrawal,
                CancelWithdrawal, RecordWithdrawalPayment, FailWithdrawalPayment,
                ConfirmWithdrawalPayment, RequestPaymentChange, ReviewPaymentChange,
                WithdrawalStep
  <1>10. ASSUME \/ RequestTermination \/ RefreshTermination \/ CancelTermination
                \/ ApproveTermination \/ DecideTermination \/ RecordTerminationPayment
                \/ FailTerminationPayment \/ ConfirmTermination \/ ReopenCooperation
                \/ MoveCustomerPoints
         PROVE  UNCHANGED rewardVars
    BY <1>10 DEF RequestTermination, RefreshTermination, CancelTermination, ApproveTermination,
                 DecideTermination, RecordTerminationPayment, FailTerminationPayment,
                 ConfirmTermination, ReopenCooperation, TerminationStep, MoveCustomerPoints
  <1> QED
    BY <1>1, <1>2, <1>3, <1>4, <1>5, <1>7, <1>8, <1>9, <1>10 DEF SettlementNext

\* Then the points at risk by the column are all that are at risk.
LEMMA RecordedRiskIsTheRisk ==
  ASSUME SettlementTypeOK, PaidWindowsAreRecorded
  PROVE  /\ RewardPoints * Cardinality({x \in Rewards : reward[x] = "SETTLED" /\ window[x] # "closed"})
              <= AtRiskPoints
         /\ RewardPoints * Cardinality({x \in Rewards : reward[x] = "SETTLED" /\ window[x] # "closed"})
              \in Nat
  <1> DEFINE open == {x \in Rewards : reward[x] = "SETTLED" /\ window[x] # "closed"}
             risky == {x \in Rewards : reward[x] = "SETTLED" /\ recorded[x] # "past"}
  <1>1. open \in SUBSET risky /\ risky \in SUBSET Rewards
    BY DEF PaidWindowsAreRecorded
  <1>2. IsFiniteSet(risky)
    BY <1>1, FS_Subset, SettlementAssumption
  <1> HIDE DEF open, risky
  <1>3. Cardinality(open) <= Cardinality(risky) /\ Cardinality(open) \in Nat /\ Cardinality(risky) \in Nat
    BY <1>1, <1>2, FS_Subset, FS_CardinalityType
  <1>4. RewardPoints \in Nat
    BY SettlementAssumption
  <1>5. \A p, m, n \in Nat : m <= n => p * m <= p * n /\ p * m \in Nat
    <2> SUFFICES ASSUME NEW p \in Nat, NEW m \in Nat, NEW n \in Nat, m <= n
                 PROVE  p * m <= p * n /\ p * m \in Nat
      OBVIOUS
    <2>1. PICK d \in Nat : n = m + d
      <3>1. n = m + (n - m) /\ n - m \in Nat
        OBVIOUS
      <3> QED
        BY <3>1
    <2>2. p * d \in Nat /\ p * m \in Nat /\ p * n = p * m + p * d
      BY <2>1
    <2> QED
      BY <2>2
  <1> QED
    BY <1>3, <1>4, <1>5 DEF AtRiskPoints, open, risky

\* No approval promises points a running window may still take back, until a
\* return is opened against a reward already paid: its rejection moves the window
\* and not the column the quota reads (reject_return, available_supply_points).
THEOREM OnlyAnAppealOfThePaidEscapes ==
    SettlementSpec /\ [][\A x \in Rewards : OpenAppeal(x) => reward[x] # "SETTLED"]_settlementVars
      => ApprovalsLeaveWhatMayBeTakenBack
  <1> DEFINE Kept == PaidWindowsAreRecorded
             Fits == \A w \in Withdrawals :
               withdrawal[w] = "PENDING_REVIEW" /\ withdrawal'[w] = "APPROVED_PENDING_PAYMENT" =>
                 PointsAsked(Approved)' <=
                   balance["SUPPLY"]
                   - RewardPoints * Cardinality({x \in Rewards :
                                      reward[x] = "SETTLED" /\ window[x] # "closed"})
  <1>1. SettlementInit => Kept
    BY DEF SettlementInit, PaidWindowsAreRecorded
  <1>2. /\ SettlementTypeOK /\ Kept /\ [SettlementNext]_settlementVars
        /\ [\A x \in Rewards : OpenAppeal(x) => reward[x] # "SETTLED"]_settlementVars
        => Kept'
    <2>1. CASE UNCHANGED settlementVars
      BY <2>1 DEF settlementVars, rewardVars, PaidWindowsAreRecorded
    <2> QED
      BY <2>1, RecordedStep
  <1>3. SettlementTypeOK /\ SettlementTypeOK' /\ Kept /\ [SettlementNext]_settlementVars => Fits
    <2> SUFFICES ASSUME SettlementTypeOK, SettlementTypeOK', Kept, [SettlementNext]_settlementVars,
                        NEW w \in Withdrawals, withdrawal[w] = "PENDING_REVIEW",
                        withdrawal'[w] = "APPROVED_PENDING_PAYMENT"
                 PROVE  PointsAsked(Approved)' <=
                          balance["SUPPLY"]
                          - RewardPoints * Cardinality({x \in Rewards :
                                             reward[x] = "SETTLED" /\ window[x] # "closed"})
      OBVIOUS
    <2>1. PointsAsked(Approved)' <= balance["SUPPLY"] - AtRiskPoints
      BY ApprovalFits
    <2>2. Points(size', Approved') \in Nat
      <3>1. Approved' \in SUBSET Withdrawals
        BY DEF Approved
      <3> QED
        BY <3>1, PointsFinite
    <2>3. balance["SUPPLY"] \in Int /\ AtRiskPoints \in Nat
      BY AvailableBound DEF SettlementTypeOK, Kinds
    <2>4. PointsAsked(Approved)' = Points(size', Approved')
      BY DEF PointsAsked, Points
    <2>5. \A p, b, r, s \in Int : p <= b - r /\ s <= r => p <= b - s
      OBVIOUS
    <2> QED
      BY <2>1, <2>2, <2>3, <2>4, <2>5, RecordedRiskIsTheRisk
  <1> QED
    BY <1>1, <1>2, <1>3, SettlementTypeCorrect, PTL
       DEF SettlementSpec, ApprovalsLeaveWhatMayBeTakenBack

=============================================================================
