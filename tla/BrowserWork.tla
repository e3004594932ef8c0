---------------------------- MODULE BrowserWork ----------------------------
(***************************************************************************)
(* The durable ledger of browser work (infra/browser_work.py): one SQLite   *)
(* file shared by every account and round of the machine.  Each operation   *)
(* runs in one BEGIN IMMEDIATE transaction on a connection of its own, so   *)
(* it is one atomic action here; a refused operation raises, the            *)
(* transaction rolls back and the state is unchanged.                       *)
(*                                                                          *)
(* A column of the table "works" is a function on the work ids.  The ghost  *)
(* "permits" counts the replies that carried execution_permitted = True: it *)
(* is what the host was allowed to do, which the ledger never stores.       *)
(***************************************************************************)
EXTENDS Naturals, FiniteSets

CONSTANTS
    Works,          \* work ids: the digest of (action, binding, key)
    Accounts,       \* the account/round part of a binding
    Owner,          \* the binding a work id is computed from
    Specs,          \* specifications (action, task, binding, side_effect)
    SideEffects,    \* the specifications with side_effect = True
    Nonces,         \* secrets.token_urlsafe values
    ReceiptIds,
    Outcomes,       \* outcomes a receipt can report
    Bodies,         \* the rest of a receipt's content
    NoSpec, NoNonce, NoResult, Cancelled, NoReceipt,
    MaxObservationAttempts

ASSUME OwnerAssumption == Owner \in [Works -> Accounts]
ASSUME SideEffectsAssumption == SideEffects \subseteq Specs
ASSUME BudgetAssumption == MaxObservationAttempts \in Nat \ {0}
ASSUME UncertainAssumption == "uncertain" \in Outcomes
ASSUME NullAssumption ==
    /\ NoSpec \notin Specs
    /\ NoNonce \notin Nonces
    /\ NoResult # Cancelled
    /\ {NoResult, Cancelled} \cap [receipt: ReceiptIds, outcome: Outcomes, body: Bodies] = {}
    /\ NoReceipt \notin [work: Works, outcome: Outcomes, body: Bodies]

VARIABLES
    wstate,         \* "absent" while the table has no row
    wspec,          \* specification_digest
    wnonce,
    wresult,        \* result_json: the last accepted receipt, or Cancelled
    wattempts,      \* observation_attempts
    receipts,       \* the table "receipts", by receipt_id
    permits         \* ghost: permissions issued for a work

columns == <<wspec, wnonce, wresult, wattempts>>
vars == <<wstate, wspec, wnonce, wresult, wattempts, receipts, permits>>

States == {"ready", "intent_recorded", "reconcile_only", "closed"}
Results == [receipt: ReceiptIds, outcome: Outcomes, body: Bodies]
Receipts == [work: Works, outcome: Outcomes, body: Bodies]

TypeOK ==
    /\ wstate \in [Works -> States \cup {"absent"}]
    /\ wspec \in [Works -> Specs \cup {NoSpec}]
    /\ wnonce \in [Works -> Nonces \cup {NoNonce}]
    /\ wresult \in [Works -> Results \cup {NoResult, Cancelled}]
    /\ wattempts \in [Works -> Nat]
    /\ receipts \in [ReceiptIds -> Receipts \cup {NoReceipt}]
    /\ permits \in [Works -> Nat]

Open(w) == wstate[w] \in {"ready", "intent_recorded", "reconcile_only"}
SideEffect(w) == wspec[w] \in SideEffects

Init ==
    /\ wstate = [w \in Works |-> "absent"]
    /\ wspec = [w \in Works |-> NoSpec]
    /\ wnonce = [w \in Works |-> NoNonce]
    /\ wresult = [w \in Works |-> NoResult]
    /\ wattempts = [w \in Works |-> 0]
    /\ receipts = [r \in ReceiptIds |-> NoReceipt]
    /\ permits = [w \in Works |-> 0]

-----------------------------------------------------------------------------
(* The operations.  The definitions marked "mutation" are faulty variants of *)
(* the one that follows them; no specification here uses them.              *)

\* A row that exists is returned as it is, or is a conflict when the caller
\* brings another specification for the same key: neither changes the ledger.
EnsureWork(w, s) ==
    /\ wstate[w] = "absent"
    /\ \A v \in Works : ~Open(v)
    /\ wstate' = [wstate EXCEPT ![w] = "ready"]
    /\ wspec' = [wspec EXCEPT ![w] = s]
    /\ UNCHANGED <<wnonce, wresult, wattempts, receipts, permits>>

\* Recovering the open work turns an issued intent into reconciliation.
PendingWork(a, w) ==
    /\ Open(w)
    /\ Owner[w] = a
    /\ wstate[w] = "intent_recorded"
    /\ wstate' = [wstate EXCEPT ![w] = "reconcile_only"]
    /\ UNCHANGED <<columns, receipts, permits>>

\* nonce = work["nonce"] or secrets.token_urlsafe(32)
NonceFor(w, n) ==
    IF wnonce[w] # NoNonce THEN n = wnonce[w]
                           ELSE \A v \in Works : wnonce[v] # n

BeginEffect(a, w, n) ==
    /\ Owner[w] = a
    /\ SideEffect(w)
    /\ wstate[w] = "ready"
    /\ NonceFor(w, n)
    /\ wstate' = [wstate EXCEPT ![w] = "intent_recorded"]
    /\ wnonce' = [wnonce EXCEPT ![w] = n]
    /\ permits' = [permits EXCEPT ![w] = @ + 1]
    /\ UNCHANGED <<wspec, wresult, wattempts, receipts>>

BeginObservation(a, w, n) ==
    /\ Owner[w] = a
    /\ Open(w)
    /\ ~SideEffect(w)
    /\ wattempts[w] < MaxObservationAttempts
    /\ NonceFor(w, n)
    /\ wstate' = [wstate EXCEPT ![w] = "intent_recorded"]
    /\ wnonce' = [wnonce EXCEPT ![w] = n]
    /\ wattempts' = [wattempts EXCEPT ![w] = @ + 1]
    /\ permits' = [permits EXCEPT ![w] = @ + 1]
    /\ UNCHANGED <<wspec, wresult, receipts>>

\* A second begin of an external action carries no permission.
BeginIssued(a, w) ==
    /\ Owner[w] = a
    /\ SideEffect(w)
    /\ wstate[w] \in {"intent_recorded", "reconcile_only"}
    /\ wstate' = [wstate EXCEPT ![w] = "reconcile_only"]
    /\ UNCHANGED <<columns, receipts, permits>>

RecordReceipt(w, r, o, b) ==
    /\ receipts[r] = NoReceipt
    /\ receipts' = [receipts EXCEPT ![r] = [work |-> w, outcome |-> o, body |-> b]]
    /\ wresult' = [wresult EXCEPT ![w] = [receipt |-> r, outcome |-> o, body |-> b]]
    /\ UNCHANGED <<wspec, wnonce, wattempts, permits>>

\* The receipt's nonce must be the recorded one and its id unused; the replay
\* of an identical receipt and every refusal leave the ledger as it is.
SubmitWork(a, w, r, n, o, b) ==
    /\ Owner[w] = a
    /\ wnonce[w] = n
    /\ wstate[w] \in {"intent_recorded", "reconcile_only"}
    /\ RecordReceipt(w, r, o, b)
    /\ wstate' = [wstate EXCEPT ![w] = IF o = "uncertain" THEN "reconcile_only" ELSE "closed"]

\* Mutation: an issued external action can be cancelled.
CancelIssued(a, w) ==
    /\ Owner[w] = a
    /\ Open(w)
    /\ wstate' = [wstate EXCEPT ![w] = "closed"]
    /\ wresult' = [wresult EXCEPT ![w] = Cancelled]
    /\ UNCHANGED <<wspec, wnonce, wattempts, receipts, permits>>

CancelUnexecuted(a, w) ==
    /\ Owner[w] = a
    /\ Open(w)
    /\ SideEffect(w) => wstate[w] = "ready"
    /\ wstate' = [wstate EXCEPT ![w] = "closed"]
    /\ wresult' = [wresult EXCEPT ![w] = Cancelled]
    /\ UNCHANGED <<wspec, wnonce, wattempts, receipts, permits>>

Next ==
    \E a \in Accounts, w \in Works :
        \/ \E s \in Specs : Owner[w] = a /\ EnsureWork(w, s)
        \/ PendingWork(a, w)
        \/ \E n \in Nonces : BeginEffect(a, w, n) \/ BeginObservation(a, w, n)
        \/ BeginIssued(a, w)
        \/ \E r \in ReceiptIds, n \in Nonces, o \in Outcomes, b \in Bodies :
               SubmitWork(a, w, r, n, o, b)
        \/ CancelUnexecuted(a, w)

Spec == Init /\ [][Next]_vars

-----------------------------------------------------------------------------
\* One lease for the whole machine: no two works are open together, whichever
\* accounts, rounds or processes created them.
OneOpenWork ==
    \A v, w \in Works : Open(v) /\ Open(w) => v = w

\* The one-use permission: however begin, recovery, uncertain receipts and
\* replays interleave, an external action is permitted at most once and a
\* read-only one at most MAX_OBSERVATION_ATTEMPTS times.
PermissionBudget ==
    \A w \in Works : permits[w] <= IF SideEffect(w) THEN 1 ELSE MaxObservationAttempts

\* A cancelled external action is one the host was never allowed to perform.
CancelledNeverIssued ==
    \A w \in Works : SideEffect(w) /\ wresult[w] = Cancelled => permits[w] = 0

Decisive(w) == {r \in ReceiptIds : receipts[r] # NoReceipt
                    /\ receipts[r].work = w /\ receipts[r].outcome # "uncertain"}

\* A work is settled by exactly one decisive receipt, which is the result the
\* application reads, or by a cancellation and then by no receipt at all.
SettledByOneReceipt ==
    \A w \in Works :
        Decisive(w) = IF wstate[w] = "closed" /\ wresult[w] # Cancelled
                      THEN {wresult[w].receipt} ELSE {}

\* No evidence without permission: a receipt is only ever recorded for a work
\* whose execution was permitted before.
NoReceiptWithoutPermission ==
    \A r \in ReceiptIds : receipts[r] # NoReceipt => permits[receipts[r].work] > 0

\* What is committed stays: a closed work is never reopened, given another
\* result or permitted again, and a receipt is never replaced.
SettledForever ==
    [][/\ \A w \in Works : wstate[w] = "closed" =>
            /\ wstate'[w] = "closed"
            /\ wresult'[w] = wresult[w]
            /\ permits'[w] = permits[w]
       /\ \A r \in ReceiptIds : receipts[r] # NoReceipt => receipts'[r] = receipts[r]]_vars

\* A delayed receipt can still be reconciled: while a permission is
\* unresolved its nonce is kept, and no other work ever receives that nonce.
NonceKept ==
    [][\A w \in Works : permits[w] > 0 =>
         /\ wnonce'[w] = wnonce[w]
         /\ \A v \in Works : wnonce'[v] = wnonce[w] => v = w]_vars
-----------------------------------------------------------------------------
Fate(w) ==
    IF wstate[w] # "closed" THEN "none"
    ELSE IF wresult[w] = Cancelled THEN "withdrawn" ELSE "settled"

OneShot == INSTANCE OneShotPermission WITH
    lease <- {w \in Works : Open(w)},
    once <- {w \in Works : SideEffect(w)},
    grants <- permits,
    fate <- [w \in Works |-> Fate(w)]

\* The ledger implements the one-shot permission: every transaction is one of
\* its steps, or is invisible to it.
ImplementsOneShot == OneShot!Spec
=============================================================================
