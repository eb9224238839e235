---------------------------- MODULE ExportPromise ----------------------------
(***************************************************************************)
(* What a user who asks for an export of leads is promised: one answer,    *)
(* which stands, and after a good answer a file that can be fetched for    *)
(* the whole retention period and is destroyed afterwards.                 *)
(***************************************************************************)
EXTENDS Naturals

CONSTANTS
  Tasks,        \* requested exports
  Retention     \* how long a file is kept

VARIABLES
  promise,      \* promise[t]: none, waiting, ready, refused, destroyed
  kept          \* kept[t]: how much of the retention is left

Init ==
  /\ promise = [t \in Tasks |-> "none"]
  /\ kept = [t \in Tasks |-> 0]

Ask(t) ==
  /\ promise[t] = "none"
  /\ promise' = [promise EXCEPT ![t] = "waiting"]
  /\ UNCHANGED kept

Refuse(t) ==
  /\ promise[t] = "waiting"
  /\ promise' = [promise EXCEPT ![t] = "refused"]
  /\ UNCHANGED kept

Deliver(t) ==
  /\ promise[t] = "waiting"
  /\ promise' = [promise EXCEPT ![t] = "ready"]
  /\ kept' = [kept EXCEPT ![t] = Retention]

\* Time passes for every file that is kept.
Age ==
  /\ kept' = [t \in Tasks |-> IF kept[t] = 0 THEN 0 ELSE kept[t] - 1]
  /\ UNCHANGED promise

Destroy(t) ==
  /\ promise[t] = "ready" /\ kept[t] = 0
  /\ promise' = [promise EXCEPT ![t] = "destroyed"]
  /\ UNCHANGED kept

Next ==
  \/ \E t \in Tasks : Ask(t) \/ Refuse(t) \/ Deliver(t) \/ Destroy(t)
  \/ Age

vars == <<promise, kept>>

\* A task that waits is answered, a file is destroyed in the end.
Fairness == \A t \in Tasks : WF_vars(Refuse(t) \/ Deliver(t)) /\ WF_vars(Destroy(t)) /\ WF_vars(Age)

Spec == Init /\ [][Next]_vars /\ Fairness
=============================================================================
