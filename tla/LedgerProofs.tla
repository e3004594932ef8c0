------------------------------ MODULE LedgerProofs ------------------------------
(***************************************************************************)
(* The ledger and its two users, for any number of works, accounts,           *)
(* receipts, operations, crashes and calls.                                   *)
(*                                                                          *)
(* The ledger: an inductive invariant, the theorems that follow from it, and   *)
(* the refinement of OneShotPermission.  The loop of the host: the             *)
(* permissions shown and on their way are counted against those issued, and    *)
(* the dispatches of an operation against its claim.  `work run`: its memory,  *)
(* the checkpoint and the clicks are tied to the state of the work.  Either    *)
(* user reaches the ledger only through its operations, so the ledger's own    *)
(* results hold of both.                                                      *)
(***************************************************************************)
EXTENDS HostLoop, PlaywrightWork, TLAPS

-----------------------------------------------------------------------------
(* The ledger.                                                               *)

Untouched(w) == permits[w] = 0 /\ wnonce[w] = NoNonce /\ wresult[w] = NoResult

\* The columns of a row follow its state.
Lifecycle ==
    \A w \in Works :
        /\ wstate[w] = "absent" => Untouched(w) /\ wspec[w] = NoSpec
        /\ wstate[w] = "ready" => Untouched(w)
        /\ wstate[w] \in {"intent_recorded", "reconcile_only"} =>
              permits[w] > 0 /\ wresult[w] # Cancelled
        /\ wstate[w] = "closed" => wresult[w] # NoResult
        /\ permits[w] > 0 <=> wnonce[w] # NoNonce

\* Permissions are accounted for: by the state of an external action, by the
\* attempt counter of an observation.
Accounting ==
    \A w \in Works :
        /\ ~SideEffect(w) => permits[w] = wattempts[w] /\ wattempts[w] <= MaxObservationAttempts
        /\ SideEffect(w) => permits[w] <= 1 /\ wattempts[w] = 0
        /\ wstate[w] = "absent" => wattempts[w] = 0
        /\ SideEffect(w) /\ wresult[w] = Cancelled => permits[w] = 0

NoncesUnique ==
    \A v, w \in Works : wnonce[v] = wnonce[w] /\ wnonce[w] # NoNonce => v = w

LedgerInv ==
    /\ TypeOK
    /\ OneOpenWork
    /\ Lifecycle
    /\ Accounting
    /\ NoncesUnique
    /\ SettledByOneReceipt
    /\ NoReceiptWithoutPermission
-----------------------------------------------------------------------------
USE OwnerAssumption, SideEffectsAssumption, BudgetAssumption, UncertainAssumption, NullAssumption

LEMMA InitLedger == Init => LedgerInv
  BY SMT DEF Init, LedgerInv, TypeOK, OneOpenWork, Open, Lifecycle, Untouched, Accounting,
         SideEffect, NoncesUnique, SettledByOneReceipt, Decisive, NoReceiptWithoutPermission

LEMMA EnsureStep ==
    ASSUME LedgerInv, NEW w \in Works, NEW s \in Specs,
           EnsureWork(w, s)
    PROVE  LedgerInv'
<1> USE DEF LedgerInv, EnsureWork, Open, columns
<1>1. TypeOK'
  BY DEF TypeOK, States, Results, Receipts
<1>2. OneOpenWork'
  BY DEF OneOpenWork, TypeOK
<1>3. Lifecycle'
  BY DEF Lifecycle, Untouched, TypeOK, SideEffect, Results
<1>4. Accounting'
  BY DEF Accounting, Lifecycle, Untouched, TypeOK, SideEffect, Results
<1>5. NoncesUnique'
  BY DEF NoncesUnique, TypeOK
<1>6. SettledByOneReceipt'
  BY DEF SettledByOneReceipt, Decisive, TypeOK, Results, Receipts
<1>7. NoReceiptWithoutPermission'
  BY DEF NoReceiptWithoutPermission, Lifecycle, TypeOK, Receipts
<1> QED
  BY <1>1, <1>2, <1>3, <1>4, <1>5, <1>6, <1>7

LEMMA PendingStep ==
    ASSUME LedgerInv, NEW a \in Accounts, NEW w \in Works,
           PendingWork(a, w)
    PROVE  LedgerInv'
<1> USE DEF LedgerInv, PendingWork, Open, columns
<1>1. TypeOK'
  BY DEF TypeOK, States, Results, Receipts
<1>2. OneOpenWork'
  BY DEF OneOpenWork, TypeOK
<1>3. Lifecycle'
  BY DEF Lifecycle, Untouched, TypeOK, SideEffect, Results
<1>4. Accounting'
  BY DEF Accounting, Lifecycle, Untouched, TypeOK, SideEffect, Results
<1>5. NoncesUnique'
  BY DEF NoncesUnique, TypeOK
<1>6. SettledByOneReceipt'
  BY DEF SettledByOneReceipt, Decisive, TypeOK, Results, Receipts
<1>7. NoReceiptWithoutPermission'
  BY DEF NoReceiptWithoutPermission, Lifecycle, TypeOK, Receipts
<1> QED
  BY <1>1, <1>2, <1>3, <1>4, <1>5, <1>6, <1>7

LEMMA BeginEffectStep ==
    ASSUME LedgerInv, NEW a \in Accounts, NEW w \in Works, NEW n \in Nonces,
           BeginEffect(a, w, n)
    PROVE  LedgerInv'
<1> USE DEF LedgerInv, BeginEffect, NonceFor, Open, columns
<1>1. TypeOK'
  BY DEF TypeOK, States, Results, Receipts
<1>2. OneOpenWork'
  BY DEF OneOpenWork, TypeOK
<1>3. Lifecycle'
  BY DEF Lifecycle, Untouched, TypeOK, SideEffect, Results
<1>4. Accounting'
  BY DEF Accounting, Lifecycle, Untouched, TypeOK, SideEffect, Results
<1>5. NoncesUnique'
  BY DEF NoncesUnique, TypeOK
<1>6. SettledByOneReceipt'
  BY DEF SettledByOneReceipt, Decisive, TypeOK, Results, Receipts
<1>7. NoReceiptWithoutPermission'
  BY DEF NoReceiptWithoutPermission, Lifecycle, TypeOK, Receipts
<1> QED
  BY <1>1, <1>2, <1>3, <1>4, <1>5, <1>6, <1>7

LEMMA BeginObservationStep ==
    ASSUME LedgerInv, NEW a \in Accounts, NEW w \in Works, NEW n \in Nonces,
           BeginObservation(a, w, n)
    PROVE  LedgerInv'
<1> USE DEF LedgerInv, BeginObservation, NonceFor, Open, columns
<1>1. TypeOK'
  BY DEF TypeOK, States, Results, Receipts
<1>2. OneOpenWork'
  BY DEF OneOpenWork, TypeOK
<1>3. Lifecycle'
  BY DEF Lifecycle, Untouched, TypeOK, SideEffect, Results
<1>4. Accounting'
  BY DEF Accounting, Lifecycle, Untouched, TypeOK, SideEffect, Results
<1>5. NoncesUnique'
  BY DEF NoncesUnique, TypeOK
<1>6. SettledByOneReceipt'
  BY DEF SettledByOneReceipt, Decisive, TypeOK, Results, Receipts
<1>7. NoReceiptWithoutPermission'
  BY DEF NoReceiptWithoutPermission, Lifecycle, TypeOK, Receipts
<1> QED
  BY <1>1, <1>2, <1>3, <1>4, <1>5, <1>6, <1>7

LEMMA BeginIssuedStep ==
    ASSUME LedgerInv, NEW a \in Accounts, NEW w \in Works,
           BeginIssued(a, w)
    PROVE  LedgerInv'
<1> USE DEF LedgerInv, BeginIssued, Open, columns
<1>1. TypeOK'
  BY DEF TypeOK, States, Results, Receipts
<1>2. OneOpenWork'
  BY DEF OneOpenWork, TypeOK
<1>3. Lifecycle'
  BY DEF Lifecycle, Untouched, TypeOK, SideEffect, Results
<1>4. Accounting'
  BY DEF Accounting, Lifecycle, Untouched, TypeOK, SideEffect, Results
<1>5. NoncesUnique'
  BY DEF NoncesUnique, TypeOK
<1>6. SettledByOneReceipt'
  BY DEF SettledByOneReceipt, Decisive, TypeOK, Results, Receipts
<1>7. NoReceiptWithoutPermission'
  BY DEF NoReceiptWithoutPermission, Lifecycle, TypeOK, Receipts
<1> QED
  BY <1>1, <1>2, <1>3, <1>4, <1>5, <1>6, <1>7

LEMMA SubmitStep ==
    ASSUME LedgerInv, NEW a \in Accounts, NEW w \in Works, NEW r \in ReceiptIds,
           NEW n \in Nonces, NEW o \in Outcomes, NEW b \in Bodies,
           SubmitWork(a, w, r, n, o, b)
    PROVE  LedgerInv'
<1> USE DEF LedgerInv, SubmitWork, RecordReceipt, Open, columns
<1>1. TypeOK'
  BY DEF TypeOK, States, Results, Receipts
<1>2. OneOpenWork'
  BY DEF OneOpenWork, TypeOK
<1>3. Lifecycle'
  BY DEF Lifecycle, Untouched, TypeOK, SideEffect, Results
<1>4. Accounting'
  BY DEF Accounting, Lifecycle, Untouched, TypeOK, SideEffect, Results
<1>5. NoncesUnique'
  BY DEF NoncesUnique, TypeOK
<1>6. SettledByOneReceipt'
  BY DEF SettledByOneReceipt, Decisive, TypeOK, Results, Receipts
<1>7. NoReceiptWithoutPermission'
  BY DEF NoReceiptWithoutPermission, Lifecycle, TypeOK, Receipts
<1> QED
  BY <1>1, <1>2, <1>3, <1>4, <1>5, <1>6, <1>7

LEMMA CancelStep ==
    ASSUME LedgerInv, NEW a \in Accounts, NEW w \in Works,
           CancelUnexecuted(a, w)
    PROVE  LedgerInv'
<1> USE DEF LedgerInv, CancelUnexecuted, Open, columns
<1>1. TypeOK'
  BY DEF TypeOK, States, Results, Receipts
<1>2. OneOpenWork'
  BY DEF OneOpenWork, TypeOK
<1>3. Lifecycle'
  BY DEF Lifecycle, Untouched, TypeOK, SideEffect, Results
<1>4. Accounting'
  BY DEF Accounting, Lifecycle, Untouched, TypeOK, SideEffect, Results
<1>5. NoncesUnique'
  BY DEF NoncesUnique, TypeOK
<1>6. SettledByOneReceipt'
  BY DEF SettledByOneReceipt, Decisive, TypeOK, Results, Receipts
<1>7. NoReceiptWithoutPermission'
  BY DEF NoReceiptWithoutPermission, Lifecycle, TypeOK, Receipts
<1> QED
  BY <1>1, <1>2, <1>3, <1>4, <1>5, <1>6, <1>7

LEMMA LedgerUnchanged == LedgerInv /\ UNCHANGED vars => LedgerInv'
  BY DEF LedgerInv, vars, TypeOK, OneOpenWork, Open, Lifecycle, Untouched, Accounting,
         SideEffect, NoncesUnique, SettledByOneReceipt, Decisive, NoReceiptWithoutPermission

\* Every operation of the ledger preserves the inductive invariant.
LEMMA LedgerNext == LedgerInv /\ [Next]_vars => LedgerInv'
<1> SUFFICES ASSUME LedgerInv, [Next]_vars PROVE LedgerInv'
  OBVIOUS
<1>1. ASSUME NEW a \in Accounts, NEW w \in Works, NEW s \in Specs, EnsureWork(w, s)
      PROVE  LedgerInv'
  BY <1>1, EnsureStep
<1>2. ASSUME NEW a \in Accounts, NEW w \in Works, PendingWork(a, w)
      PROVE  LedgerInv'
  BY <1>2, PendingStep
<1>3. ASSUME NEW a \in Accounts, NEW w \in Works, NEW n \in Nonces, BeginEffect(a, w, n)
      PROVE  LedgerInv'
  BY <1>3, BeginEffectStep
<1>4. ASSUME NEW a \in Accounts, NEW w \in Works, NEW n \in Nonces, BeginObservation(a, w, n)
      PROVE  LedgerInv'
  BY <1>4, BeginObservationStep
<1>5. ASSUME NEW a \in Accounts, NEW w \in Works, BeginIssued(a, w)
      PROVE  LedgerInv'
  BY <1>5, BeginIssuedStep
<1>6. ASSUME NEW a \in Accounts, NEW w \in Works, NEW r \in ReceiptIds, NEW n \in Nonces,
             NEW o \in Outcomes, NEW b \in Bodies, SubmitWork(a, w, r, n, o, b)
      PROVE  LedgerInv'
  BY <1>6, SubmitStep
<1>7. ASSUME NEW a \in Accounts, NEW w \in Works, CancelUnexecuted(a, w)
      PROVE  LedgerInv'
  BY <1>7, CancelStep
<1>8. CASE UNCHANGED vars
  BY <1>8, LedgerUnchanged
<1> QED
  BY <1>1, <1>2, <1>3, <1>4, <1>5, <1>6, <1>7, <1>8 DEF Next

\* Type correctness of the ledger, and the inductive invariant itself.
THEOREM LedgerTypeCorrect == Spec => []TypeOK
<1>1. LedgerInv => TypeOK
  BY DEF LedgerInv
<1> QED
  BY InitLedger, LedgerNext, <1>1, PTL DEF Spec

\* One lease: at no time are two works open, in whatever accounts and rounds.
THEOREM LeaseIsExclusive == Spec => []OneOpenWork
<1>1. LedgerInv => OneOpenWork
  BY DEF LedgerInv
<1> QED
  BY InitLedger, LedgerNext, <1>1, PTL DEF Spec

\* The one-use permission: no history of begin, recovery, uncertain receipts
\* and replays permits an external action twice, or an observation more often
\* than MAX_OBSERVATION_ATTEMPTS.
THEOREM PermissionIsOneUse == Spec => []PermissionBudget
<1>1. LedgerInv => PermissionBudget
  BY DEF LedgerInv, Accounting, PermissionBudget, TypeOK
<1> QED
  BY InitLedger, LedgerNext, <1>1, PTL DEF Spec

\* work cancel never closes an external action that had been permitted.
THEOREM CancelIsSafe == Spec => []CancelledNeverIssued
<1>1. LedgerInv => CancelledNeverIssued
  BY DEF LedgerInv, Accounting, CancelledNeverIssued
<1> QED
  BY InitLedger, LedgerNext, <1>1, PTL DEF Spec

\* A closed work carries exactly one decisive receipt, or is cancelled and
\* carries none.
THEOREM OneDecisiveReceipt == Spec => []SettledByOneReceipt
<1>1. LedgerInv => SettledByOneReceipt
  BY DEF LedgerInv
<1> QED
  BY InitLedger, LedgerNext, <1>1, PTL DEF Spec

\* No receipt is recorded for a work whose execution was never permitted.
THEOREM EvidenceNeedsPermission == Spec => []NoReceiptWithoutPermission
<1>1. LedgerInv => NoReceiptWithoutPermission
  BY DEF LedgerInv
<1> QED
  BY InitLedger, LedgerNext, <1>1, PTL DEF Spec

-----------------------------------------------------------------------------
SettledStep ==
    /\ \A w \in Works : wstate[w] = "closed" =>
         /\ wstate'[w] = "closed"
         /\ wresult'[w] = wresult[w]
         /\ permits'[w] = permits[w]
    /\ \A r \in ReceiptIds : receipts[r] # NoReceipt => receipts'[r] = receipts[r]

LEMMA SettledNext == LedgerInv /\ [Next]_vars => [SettledStep]_vars
<1> SUFFICES ASSUME LedgerInv, Next PROVE SettledStep
  OBVIOUS
<1> USE DEF LedgerInv, TypeOK, SettledStep, Open, columns
<1>1. ASSUME NEW a \in Accounts, NEW w \in Works, NEW s \in Specs, EnsureWork(w, s)
      PROVE  SettledStep
  BY <1>1 DEF EnsureWork
<1>2. ASSUME NEW a \in Accounts, NEW w \in Works, PendingWork(a, w)
      PROVE  SettledStep
  BY <1>2 DEF PendingWork
<1>3. ASSUME NEW a \in Accounts, NEW w \in Works, NEW n \in Nonces, BeginEffect(a, w, n)
      PROVE  SettledStep
  BY <1>3 DEF BeginEffect, NonceFor
<1>4. ASSUME NEW a \in Accounts, NEW w \in Works, NEW n \in Nonces, BeginObservation(a, w, n)
      PROVE  SettledStep
  BY <1>4 DEF BeginObservation, NonceFor
<1>5. ASSUME NEW a \in Accounts, NEW w \in Works, BeginIssued(a, w)
      PROVE  SettledStep
  BY <1>5 DEF BeginIssued
<1>6. ASSUME NEW a \in Accounts, NEW w \in Works, NEW r \in ReceiptIds, NEW n \in Nonces,
             NEW o \in Outcomes, NEW b \in Bodies, SubmitWork(a, w, r, n, o, b)
      PROVE  SettledStep
  BY <1>6 DEF SubmitWork, RecordReceipt
<1>7. ASSUME NEW a \in Accounts, NEW w \in Works, CancelUnexecuted(a, w)
      PROVE  SettledStep
  BY <1>7 DEF CancelUnexecuted
<1> QED
  BY <1>1, <1>2, <1>3, <1>4, <1>5, <1>6, <1>7 DEF Next

\* What is committed stays: no operation reopens a closed work, changes its
\* result, permits it again or replaces a receipt.
THEOREM CommittedEvidenceStays == Spec => SettledForever
<1>1. [SettledStep]_vars => [/\ \A w \in Works : wstate[w] = "closed" =>
                                /\ wstate'[w] = "closed"
                                /\ wresult'[w] = wresult[w]
                                /\ permits'[w] = permits[w]
                             /\ \A r \in ReceiptIds : receipts[r] # NoReceipt =>
                                   receipts'[r] = receipts[r]]_vars
  BY DEF SettledStep
<1> QED
  BY InitLedger, LedgerNext, SettledNext, <1>1, PTL DEF Spec, SettledForever

LEMMA NonceNext == LedgerInv /\ [Next]_vars =>
    [\A w \in Works : permits[w] > 0 =>
        /\ wnonce'[w] = wnonce[w]
        /\ \A v \in Works : wnonce'[v] = wnonce[w] => v = w]_vars
<1> SUFFICES ASSUME LedgerInv, Next, NEW x \in Works, permits[x] > 0
             PROVE  /\ wnonce'[x] = wnonce[x]
                    /\ \A v \in Works : wnonce'[v] = wnonce[x] => v = x
  OBVIOUS
<1> USE DEF LedgerInv, TypeOK, NoncesUnique, Lifecycle, Untouched, Open, columns
<1>1. ASSUME NEW a \in Accounts, NEW w \in Works, NEW s \in Specs, EnsureWork(w, s)
      PROVE  /\ wnonce'[x] = wnonce[x]
             /\ \A v \in Works : wnonce'[v] = wnonce[x] => v = x
  BY <1>1 DEF EnsureWork
<1>2. ASSUME NEW a \in Accounts, NEW w \in Works, PendingWork(a, w)
      PROVE  /\ wnonce'[x] = wnonce[x]
             /\ \A v \in Works : wnonce'[v] = wnonce[x] => v = x
  BY <1>2 DEF PendingWork
<1>3. ASSUME NEW a \in Accounts, NEW w \in Works, NEW n \in Nonces, BeginEffect(a, w, n)
      PROVE  /\ wnonce'[x] = wnonce[x]
             /\ \A v \in Works : wnonce'[v] = wnonce[x] => v = x
  BY <1>3 DEF BeginEffect, NonceFor
<1>4. ASSUME NEW a \in Accounts, NEW w \in Works, NEW n \in Nonces, BeginObservation(a, w, n)
      PROVE  /\ wnonce'[x] = wnonce[x]
             /\ \A v \in Works : wnonce'[v] = wnonce[x] => v = x
  BY <1>4 DEF BeginObservation, NonceFor
<1>5. ASSUME NEW a \in Accounts, NEW w \in Works, BeginIssued(a, w)
      PROVE  /\ wnonce'[x] = wnonce[x]
             /\ \A v \in Works : wnonce'[v] = wnonce[x] => v = x
  BY <1>5 DEF BeginIssued
<1>6. ASSUME NEW a \in Accounts, NEW w \in Works, NEW r \in ReceiptIds, NEW n \in Nonces,
             NEW o \in Outcomes, NEW b \in Bodies, SubmitWork(a, w, r, n, o, b)
      PROVE  /\ wnonce'[x] = wnonce[x]
             /\ \A v \in Works : wnonce'[v] = wnonce[x] => v = x
  BY <1>6 DEF SubmitWork, RecordReceipt
<1>7. ASSUME NEW a \in Accounts, NEW w \in Works, CancelUnexecuted(a, w)
      PROVE  /\ wnonce'[x] = wnonce[x]
             /\ \A v \in Works : wnonce'[v] = wnonce[x] => v = x
  BY <1>7 DEF CancelUnexecuted
<1> QED
  BY <1>1, <1>2, <1>3, <1>4, <1>5, <1>6, <1>7 DEF Next

\* The nonce of a permitted work is stable and never given to another work,
\* so that a delayed receipt is still matched with the right intent.
THEOREM NonceIsStable == Spec => NonceKept
  BY InitLedger, LedgerNext, NonceNext, PTL DEF Spec, NonceKept

-----------------------------------------------------------------------------
(* Refinement.                                                              *)

LEMMA InitRefines == Init => OneShot!Init
  BY DEF Init, OneShot!Init, Open, SideEffect, Fate

LEMMA StepRefines == LedgerInv /\ [Next]_vars => [OneShot!Next]_(OneShot!absVars)
<1> SUFFICES ASSUME LedgerInv, [Next]_vars PROVE OneShot!Next \/ UNCHANGED OneShot!absVars
  OBVIOUS
<1> USE DEF LedgerInv, TypeOK, OneOpenWork, Lifecycle, Accounting, Untouched,
            Open, SideEffect, Fate, OneShot!absVars, columns
<1>1. ASSUME NEW a \in Accounts, NEW w \in Works, NEW s \in Specs, EnsureWork(w, s)
      PROVE  OneShot!Register(w)
  BY <1>1 DEF EnsureWork, OneShot!Register
<1>2. ASSUME NEW a \in Accounts, NEW w \in Works, PendingWork(a, w)
      PROVE  UNCHANGED OneShot!absVars
  BY <1>2 DEF PendingWork
<1>3. ASSUME NEW a \in Accounts, NEW w \in Works, NEW n \in Nonces, BeginEffect(a, w, n)
      PROVE  OneShot!Grant(w)
  BY <1>3 DEF BeginEffect, OneShot!Grant
<1>4. ASSUME NEW a \in Accounts, NEW w \in Works, NEW n \in Nonces, BeginObservation(a, w, n)
      PROVE  OneShot!Grant(w)
  BY <1>4 DEF BeginObservation, OneShot!Grant
<1>5. ASSUME NEW a \in Accounts, NEW w \in Works, BeginIssued(a, w)
      PROVE  UNCHANGED OneShot!absVars
  BY <1>5 DEF BeginIssued
<1>6. ASSUME NEW a \in Accounts, NEW w \in Works, NEW r \in ReceiptIds, NEW n \in Nonces,
             NEW o \in Outcomes, NEW b \in Bodies, SubmitWork(a, w, r, n, o, b)
      PROVE  OneShot!Settle(w) \/ UNCHANGED OneShot!absVars
  <2> USE <1>6 DEF SubmitWork, RecordReceipt
  <2>1. wresult'[w] # Cancelled
    BY DEF Results
  <2>2. \A v \in Works : v # w => wstate'[v] = wstate[v] /\ wresult'[v] = wresult[v]
    OBVIOUS
  <2>3. UNCHANGED <<{v \in Works : SideEffect(v)}, permits>>
    OBVIOUS
  <2>4. CASE o = "uncertain"
    <3>1. \A v \in Works : Open(v)' = Open(v) /\ Fate(v)' = Fate(v)
      BY <2>2, <2>4
    <3> QED
      BY <2>3, <3>1
  <2>5. CASE o # "uncertain"
    <3>1. wstate'[w] = "closed"
      BY <2>5
    <3>2. Fate(w)' = "settled" /\ \A v \in Works : v # w => Fate(v)' = Fate(v)
      BY <2>1, <2>2, <3>1
    <3> QED
      BY <2>2, <2>3, <3>1, <3>2 DEF OneShot!Settle
  <2> QED
    BY <2>4, <2>5
<1>7. ASSUME NEW a \in Accounts, NEW w \in Works, CancelUnexecuted(a, w)
      PROVE  OneShot!Withdraw(w)
  BY <1>7 DEF CancelUnexecuted, OneShot!Withdraw
<1>8. CASE UNCHANGED vars
  BY <1>8 DEF vars
<1> QED
  BY <1>1, <1>2, <1>3, <1>4, <1>5, <1>6, <1>7, <1>8 DEF Next, OneShot!Next

\* The ledger implements the one-shot permission: a lease for one work, a
\* permission that cannot be repeated for an external action, and a fate that
\* is settled by evidence or withdrawn before any permission.
THEOREM LedgerImplementsOneShot == Spec => ImplementsOneShot
  BY InitLedger, LedgerNext, InitRefines, StepRefines, PTL DEF Spec, ImplementsOneShot, OneShot!Spec

-----------------------------------------------------------------------------
(* The loop of the host.                                                     *)

\* A permission on its way to the host.
Carried(w) == IF cmd.grant = w THEN 1 ELSE 0

\* What is shown, and what the command under way is going to show, was permitted.
ShownWasPermitted == \A w \in Works : shown[w] + Carried(w) <= permits[w]

\* A command that is still to be dispatched has a claim that was never dispatched.
ClaimedFirst ==
    /\ \A o \in Ops : ops[o].st = "ready" => runs[o] = 0
    /\ cmd.at = "dispatch" =>
          /\ cmd.grant = NoWork
          /\ cmd.op \in Ops
          /\ ops[cmd.op].st = "claimed"
          /\ runs[cmd.op] = 0

LoopInv ==
    /\ LedgerInv
    /\ LoopTypeOK
    /\ ShownWasPermitted
    /\ DispatchedOnce
    /\ ClaimedFirst

-----------------------------------------------------------------------------
(* The loop acts on the ledger as the ledger's own operations do.             *)

\* The business of a command is one transaction of the ledger or none.
LEMMA BusinessIsLedger ==
    ASSUME NEW does \in Commands, NEW g, OnLedger(does, g)
    PROVE  [Next]_vars
<1> USE LoopAssumption
<1>1. ASSUME NEW w \in Mine, NEW h, BeginsWith(w, h) PROVE [Next]_vars
  BY <1>1 DEF BeginsWith, Mine, Same, Next
<1>2. ASSUME Makes PROVE Next
  BY <1>2 DEF Makes, Mine, Next
<1>3. ASSUME Recovers PROVE Next
  BY <1>3 DEF Recovers, Mine, Next
<1>4. ASSUME Submits PROVE Next
  BY <1>4 DEF Submits, Mine, Next
<1>5. ASSUME \E w \in Mine : CancelUnexecuted(Me, w) PROVE Next
  BY <1>5 DEF Mine, Next
<1>6. does.name = "begin" => does.work \in Mine
  BY DEF Commands, Names
<1> QED
  BY <1>1, <1>2, <1>3, <1>4, <1>5, <1>6 DEF OnLedger, Same

LEMMA LoopStepIsLedger == LoopTypeOK /\ [LoopNext]_loopVars => [Next]_vars
<1> SUFFICES ASSUME LoopTypeOK, [LoopNext]_loopVars PROVE [Next]_vars
  OBVIOUS
<1>1. CASE Dispatch
  BY <1>1, BusinessIsLedger DEF Dispatch, Business, LoopTypeOK
<1>2. ASSUME NEW does \in Commands, Direct(does) PROVE [Next]_vars
  BY <1>2, BusinessIsLedger DEF Direct, Business
<1>3. ASSUME NEW a \in Accounts, Elsewhere(a) PROVE [Next]_vars
  BY <1>3 DEF Elsewhere, Next
<1>4. CASE UNCHANGED loopVars
  BY <1>4 DEF loopVars
<1> QED
  BY <1>1, <1>2, <1>3, <1>4
     DEF LoopNext, Offer, Claim, Replay, Record, Output, SubmitIntent, Die

-----------------------------------------------------------------------------
(* Permissions issued by the ledger's operations.                              *)

\* A transaction withdraws no permission.
LEMMA PermitsGrow ==
    ASSUME TypeOK, [Next]_vars, NEW w \in Works
    PROVE  permits'[w] >= permits[w]
  BY DEF TypeOK, Next, vars, columns, EnsureWork, PendingWork, BeginEffect, BeginObservation,
         BeginIssued, SubmitWork, RecordReceipt, CancelUnexecuted

\* A result carries a permission only when its transaction has issued it.
LEMMA GrantIsIssued ==
    ASSUME TypeOK, NEW does \in Commands, NEW g \in Works, OnLedger(does, g)
    PROVE  permits'[g] = permits[g] + 1
<1>1. g # NoWork
  BY LoopAssumption
<1>2. does.name = "begin" /\ BeginsWith(does.work, g)
  BY <1>1 DEF OnLedger
<1>3. PICK n \in Nonces : BeginEffect(Me, g, n)
  BY <1>1, <1>2 DEF BeginsWith
<1> QED
  BY <1>3 DEF BeginEffect, TypeOK

-----------------------------------------------------------------------------
(* The invariant.                                                              *)

LEMMA LoopInitInv == LoopInit => LoopInv
<1> SUFFICES ASSUME LoopInit PROVE LoopInv
  OBVIOUS
<1> USE LoopAssumption DEF LoopInit
<1>1. LedgerInv
  BY InitLedger
<1>2. LoopTypeOK
  BY <1>1 DEF LedgerInv, LoopTypeOK, NoOp, NoCommand, Read, Commands, Names
<1>3. ShownWasPermitted
  BY DEF ShownWasPermitted, Carried, NoCommand, Init
<1>4. DispatchedOnce /\ ClaimedFirst
  BY DEF DispatchedOnce, ClaimedFirst, NoOp, NoCommand
<1> QED
  BY <1>1, <1>2, <1>3, <1>4 DEF LoopInv

\* The ledger's part, and its types, follow from the ledger's own proofs.
LEMMA LedgerPart == LoopInv /\ [LoopNext]_loopVars => LedgerInv' /\ TypeOK'
  BY LoopStepIsLedger, LedgerNext DEF LoopInv, LedgerInv

\* A stale operation is forgotten, a claimed one is not.
LEMMA StaleOps ==
    ASSUME LoopTypeOK, NEW o \in Ops
    PROVE  /\ Stale[o] \in [st : {"none", "ready", "claimed", "completed"},
                            does : Commands, grant : Works \cup {NoWork}]
           /\ Stale[o].st # "ready"
           /\ ops[o].st = "claimed" => Stale[o] = ops[o]
  BY DEF LoopTypeOK, Stale, NoOp, Read, Commands, Names

\* Business forgets operations at most.
LEMMA BusinessOps ==
    ASSUME LoopTypeOK, NEW does, NEW g, Business(does, g)
    PROVE  /\ ops' \in [Ops -> [st : {"none", "ready", "claimed", "completed"},
                                does : Commands, grant : Works \cup {NoWork}]]
           /\ last' \in Works \cup {NoWork}
           /\ \A o \in Ops : ops'[o].st = "ready" => ops[o].st = "ready"
           /\ \A o \in Ops : ops[o].st = "claimed" => ops'[o].st = "claimed"
<1>1. CASE UNCHANGED <<ops, last>>
  BY <1>1 DEF LoopTypeOK
<1>2. CASE ops' = Stale /\ last' = NoWork
  BY <1>2, StaleOps DEF Stale
<1> QED
  BY <1>1, <1>2 DEF Business

\* What the loop adds to the ledger's invariant.
JournalInv == LoopTypeOK /\ ShownWasPermitted /\ DispatchedOnce /\ ClaimedFirst

\* Outside the ledger nothing is issued, so what is shown or carried must have been on its
\* way before.
LEMMA NothingIssued ==
    ASSUME LoopTypeOK, ShownWasPermitted, UNCHANGED vars,
           \/ UNCHANGED shown /\ cmd'.grant \in {cmd.grant, NoWork}
           \/ Shows(cmd.grant) /\ cmd'.grant = NoWork
    PROVE  ShownWasPermitted' /\ shown' \in [Works -> Nat]
<1> USE LoopAssumption DEF LoopTypeOK, TypeOK, ShownWasPermitted, Carried, vars
<1>1. CASE UNCHANGED shown /\ cmd'.grant \in {cmd.grant, NoWork}
  BY <1>1
<1>2. CASE Shows(cmd.grant) /\ cmd'.grant = NoWork
  BY <1>2 DEF Shows
<1> QED
  BY <1>1, <1>2

LEMMA OfferStep ==
    ASSUME LoopInv, NEW o \in Ops, NEW does \in Commands, Offer(o, does)
    PROVE  JournalInv'
<1> USE LoopAssumption DEF Offer
<1>1. ops'[o].st = "ready" /\ runs'[o] = 0 /\ \A p \in Ops \ {o} : ops'[p] = ops[p] /\ runs'[p] = runs[p]
  BY DEF LoopInv, LoopTypeOK, NoOp
<1>2. ShownWasPermitted' /\ shown' \in [Works -> Nat]
  BY NothingIssued DEF LoopInv, Safe, Shows, NoCommand
<1>3. LoopTypeOK'
  BY <1>2, LedgerPart DEF LoopInv, LoopTypeOK, NoOp, Read, Commands, Names, LoopNext
<1>4. DispatchedOnce' /\ ClaimedFirst'
  BY <1>1 DEF LoopInv, DispatchedOnce, ClaimedFirst, NoCommand
<1> QED
  BY <1>2, <1>3, <1>4 DEF JournalInv

LEMMA ClaimStep ==
    ASSUME LoopInv, NEW o \in Ops, Claim(o)
    PROVE  JournalInv'
<1> USE LoopAssumption DEF Claim, LoopInv
<1>1. ops'[o].st = "claimed" /\ \A p \in Ops \ {o} : ops'[p] = ops[p]
  BY DEF LoopTypeOK
<1>2. cmd'.grant = NoWork /\ cmd'.op = o /\ cmd'.at = "dispatch"
  BY DEF NoCommand
<1>3. ShownWasPermitted' /\ shown' \in [Works -> Nat]
  BY <1>2, NothingIssued
<1>4. LoopTypeOK'
  <2>1. ops[o].does \in Commands
    BY DEF LoopTypeOK
  <2>2. cmd' \in [at : {"idle", "dispatch", "record", "output"}, does : Commands,
                  op : Ops \cup {NoWork}, grant : Works \cup {NoWork}]
    BY <2>1 DEF NoCommand
  <2>3. ops' \in [Ops -> [st : {"none", "ready", "claimed", "completed"},
                         does : Commands, grant : Works \cup {NoWork}]]
    BY DEF LoopTypeOK
  <2>4. TypeOK'
    BY LedgerPart DEF LoopNext
  <2> QED
    BY <1>3, <2>2, <2>3, <2>4 DEF LoopTypeOK
<1>5. DispatchedOnce' /\ ClaimedFirst'
  BY <1>1, <1>2 DEF DispatchedOnce, ClaimedFirst
<1> QED
  BY <1>3, <1>4, <1>5 DEF JournalInv

LEMMA ReplayStep ==
    ASSUME LoopInv, NEW o \in Ops, Replay(o)
    PROVE  JournalInv'
<1> USE LoopAssumption DEF Replay, LoopInv
<1>1. cmd'.grant = NoWork /\ cmd'.at = "output"
  BY DEF NoCommand, Safe
<1>2. ShownWasPermitted' /\ shown' \in [Works -> Nat]
  BY <1>1, NothingIssued
<1>3. LoopTypeOK'
  BY <1>2, LedgerPart DEF LoopTypeOK, NoCommand, Read, Safe, Commands, Names, LoopNext
<1>4. DispatchedOnce' /\ ClaimedFirst'
  BY <1>1 DEF DispatchedOnce, ClaimedFirst
<1> QED
  BY <1>2, <1>3, <1>4 DEF JournalInv

\* A transaction adds to the permissions what its result carries.
LEMMA BusinessShows ==
    ASSUME LoopInv, NEW does \in Commands, NEW g \in Works \cup {NoWork}, OnLedger(does, g),
           cmd.grant = NoWork, cmd'.grant = g, UNCHANGED shown
    PROVE  ShownWasPermitted'
<1> SUFFICES ASSUME NEW w \in Works PROVE shown[w] + Carried(w)' <= permits'[w]
  BY DEF ShownWasPermitted
<1>1. shown[w] <= permits[w] /\ shown[w] \in Nat /\ permits[w] \in Nat
  BY LoopAssumption DEF LoopInv, ShownWasPermitted, Carried, LoopTypeOK, TypeOK
<1>2. CASE g = w
  <2>1. permits'[w] = permits[w] + 1
    BY <1>2, GrantIsIssued DEF LoopInv, LoopTypeOK
  <2> QED
    BY <1>1, <1>2, <2>1 DEF Carried
<1>3. CASE g # w
  <2>1. [Next]_vars
    BY BusinessIsLedger
  <2>2. permits'[w] >= permits[w]
    BY <2>1, PermitsGrow DEF LoopInv, LoopTypeOK
  <2>3. permits'[w] \in Nat
    BY <2>1, LedgerNext DEF LoopInv, LedgerInv, TypeOK
  <2> QED
    BY <1>1, <1>3, <2>2, <2>3 DEF Carried
<1> QED
  BY <1>2, <1>3

LEMMA DispatchStep ==
    ASSUME LoopInv, Dispatch
    PROVE  JournalInv'
<1>1. PICK g \in Works \cup {NoWork} :
          Business(cmd.does, g) /\ cmd' = [cmd EXCEPT !.at = "record", !.grant = g]
  BY DEF Dispatch
<1>2. cmd.at = "dispatch" /\ UNCHANGED shown /\ runs' = [runs EXCEPT ![cmd.op] = @ + 1]
  BY DEF Dispatch
<1>3. cmd.does \in Commands /\ cmd.op \in Ops /\ cmd.grant = NoWork
      /\ ops[cmd.op].st = "claimed" /\ runs[cmd.op] = 0
  BY <1>2 DEF LoopInv, ClaimedFirst, LoopTypeOK
<1>4. cmd'.at = "record" /\ cmd'.grant = g
  BY <1>1 DEF LoopInv, LoopTypeOK
<1>5. ShownWasPermitted'
  BY <1>1, <1>2, <1>3, <1>4, BusinessShows DEF Business
<1>6. LoopTypeOK'
  <2>1. cmd' \in [at : {"idle", "dispatch", "record", "output"}, does : Commands,
                  op : Ops \cup {NoWork}, grant : Works \cup {NoWork}]
    BY <1>1 DEF LoopInv, LoopTypeOK
  <2>2. runs' \in [Ops -> Nat]
    <3>1. runs \in [Ops -> Nat]
      BY DEF LoopInv, LoopTypeOK
    <3> QED
      BY <1>2, <1>3, <3>1
  <2>3. TypeOK'
    BY LedgerPart DEF LoopNext
  <2>4. /\ ops' \in [Ops -> [st : {"none", "ready", "claimed", "completed"},
                            does : Commands, grant : Works \cup {NoWork}]]
        /\ last' \in Works \cup {NoWork}
    BY <1>1, BusinessOps DEF LoopInv
  <2>5. shown' \in [Works -> Nat]
    BY <1>2 DEF LoopInv, LoopTypeOK
  <2> QED
    BY <2>1, <2>2, <2>3, <2>4, <2>5 DEF LoopTypeOK
<1>7. DispatchedOnce'
  BY <1>2, <1>3 DEF LoopInv, LoopTypeOK, DispatchedOnce
<1>8. ClaimedFirst'
  BY <1>1, <1>2, <1>3, <1>4, BusinessOps DEF LoopInv, LoopTypeOK, ClaimedFirst
<1> QED
  BY <1>5, <1>6, <1>7, <1>8 DEF JournalInv

LEMMA DirectStep ==
    ASSUME LoopInv, NEW does \in Commands, Direct(does)
    PROVE  JournalInv'
<1>1. PICK g \in Works \cup {NoWork} :
          Business(does, g) /\ cmd' = [NoCommand EXCEPT !.at = "record", !.does = does, !.grant = g]
  BY DEF Direct
<1>2. cmd = NoCommand /\ UNCHANGED <<shown, runs>>
  BY DEF Direct
<1>3. cmd'.at = "record" /\ cmd'.grant = g /\ cmd.grant = NoWork
  BY <1>1, <1>2 DEF NoCommand
<1>4. ShownWasPermitted'
  BY <1>1, <1>2, <1>3, BusinessShows DEF Business
<1>5. LoopTypeOK'
  <2>1. cmd' \in [at : {"idle", "dispatch", "record", "output"}, does : Commands,
                  op : Ops \cup {NoWork}, grant : Works \cup {NoWork}]
    BY <1>1 DEF NoCommand
  <2>2. TypeOK'
    BY LedgerPart DEF LoopNext
  <2> QED
    BY <1>1, <1>2, <2>1, <2>2, BusinessOps DEF LoopInv, LoopTypeOK
<1>6. DispatchedOnce' /\ ClaimedFirst'
  BY <1>1, <1>2, <1>3, BusinessOps DEF LoopInv, LoopTypeOK, DispatchedOnce, ClaimedFirst
<1> QED
  BY <1>4, <1>5, <1>6 DEF JournalInv

LEMMA RecordStep ==
    ASSUME LoopInv, Record
    PROVE  JournalInv'
<1> USE LoopAssumption DEF Record, LoopInv
<1>1. cmd'.grant = cmd.grant /\ cmd'.at = "output"
  BY DEF NoCommand
<1>2. ShownWasPermitted' /\ shown' \in [Works -> Nat]
  BY <1>1, NothingIssued
<1>3. /\ ops' \in [Ops -> [st : {"none", "ready", "claimed", "completed"},
                           does : Commands, grant : Works \cup {NoWork}]]
      /\ \A o \in Ops : ops'[o].st # "ready"
  <2>1. PICK closes \in BOOLEAN :
          ops' = [o \in Ops |->
              IF o = cmd.op
              THEN IF cmd.grant = NoWork THEN NoOp
                   ELSE [NoOp EXCEPT !.st = "completed", !.grant = cmd.grant]
              ELSE IF ops[o].st = "claimed" /\ Settled(o, closes) THEN NoOp ELSE Stale[o]]
    OBVIOUS
  <2>2. NoOp \in [st : {"none", "ready", "claimed", "completed"},
                  does : Commands, grant : Works \cup {NoWork}] /\ NoOp.st = "none"
    BY DEF NoOp, Read, Commands, Names
  <2>3. cmd.grant \in Works \cup {NoWork}
    BY DEF LoopTypeOK
  <2>4. /\ [NoOp EXCEPT !.st = "completed", !.grant = cmd.grant] \in
             [st : {"none", "ready", "claimed", "completed"},
              does : Commands, grant : Works \cup {NoWork}]
        /\ [NoOp EXCEPT !.st = "completed", !.grant = cmd.grant].st = "completed"
    BY <2>2, <2>3
  <2> QED
    BY <2>1, <2>2, <2>4, StaleOps
<1>4. LoopTypeOK'
  BY <1>2, <1>3, LedgerPart DEF LoopTypeOK, NoCommand, Read, Commands, Names, LoopNext
<1>5. DispatchedOnce' /\ ClaimedFirst'
  BY <1>1, <1>3 DEF DispatchedOnce, ClaimedFirst
<1> QED
  BY <1>2, <1>4, <1>5 DEF JournalInv

\* The ends of a command, and a new intent.
LEMMA OutputStep ==
    ASSUME LoopInv, Output
    PROVE  JournalInv'
<1> USE DEF Output, LoopInv
<1>1. cmd'.grant = NoWork /\ cmd'.at = "idle"
  BY DEF NoCommand
<1>2. ShownWasPermitted' /\ shown' \in [Works -> Nat]
  BY <1>1, NothingIssued
<1>3. LoopTypeOK'
  BY <1>2, LedgerPart DEF LoopTypeOK, NoCommand, Read, Commands, Names, LoopNext
<1>4. DispatchedOnce' /\ ClaimedFirst'
  BY <1>1 DEF DispatchedOnce, ClaimedFirst
<1> QED
  BY <1>2, <1>3, <1>4 DEF JournalInv

LEMMA DieStep ==
    ASSUME LoopInv, Die
    PROVE  JournalInv'
<1> USE DEF Die, LoopInv
<1>1. cmd'.grant = NoWork /\ cmd'.at = "idle"
  BY DEF NoCommand
<1>2. ShownWasPermitted' /\ shown' \in [Works -> Nat]
  BY <1>1, NothingIssued
<1>3. LoopTypeOK'
  BY <1>2, LedgerPart DEF LoopTypeOK, NoCommand, Read, Commands, Names, LoopNext
<1>4. DispatchedOnce' /\ ClaimedFirst'
  BY <1>1 DEF DispatchedOnce, ClaimedFirst
<1> QED
  BY <1>2, <1>3, <1>4 DEF JournalInv

LEMMA SubmitIntentStep ==
    ASSUME LoopInv, SubmitIntent
    PROVE  JournalInv'
<1> USE DEF SubmitIntent, LoopInv
<1>1. ShownWasPermitted' /\ shown' \in [Works -> Nat]
  BY NothingIssued
<1>2. LoopTypeOK'
  BY <1>1, StaleOps, LedgerPart DEF LoopTypeOK, Stale, LoopNext
<1>3. DispatchedOnce' /\ ClaimedFirst'
  BY StaleOps DEF DispatchedOnce, ClaimedFirst, LoopTypeOK, NoCommand
<1> QED
  BY <1>1, <1>2, <1>3 DEF JournalInv

LEMMA ElsewhereStep ==
    ASSUME LoopInv, NEW a \in Accounts, Elsewhere(a)
    PROVE  JournalInv'
<1>1. UNCHANGED <<ops, last, cmd, shown, runs>>
  BY DEF Elsewhere
<1>2. TypeOK'
  BY LedgerPart DEF LoopNext
<1>3. [Next]_vars
  BY LoopStepIsLedger DEF LoopNext, LoopInv
<1>4. ShownWasPermitted'
  <2>1. \A w \in Works : permits'[w] >= permits[w]
    BY <1>3, PermitsGrow DEF LoopInv, LoopTypeOK
  <2> QED
    BY <1>1, <1>2, <2>1 DEF ShownWasPermitted, Carried, LoopInv, LoopTypeOK, TypeOK
<1> QED
  BY <1>1, <1>2, <1>4 DEF JournalInv, LoopInv, LoopTypeOK, DispatchedOnce, ClaimedFirst

LEMMA LoopNextInv == LoopInv /\ [LoopNext]_loopVars => LoopInv'
<1> SUFFICES ASSUME LoopInv, [LoopNext]_loopVars PROVE LoopInv'
  OBVIOUS
<1>1. LedgerInv'
  BY LedgerPart
<1>2. ASSUME UNCHANGED loopVars PROVE JournalInv'
  BY <1>2 DEF loopVars, vars, LoopInv, JournalInv, LoopTypeOK, TypeOK, ShownWasPermitted,
              Carried, DispatchedOnce, ClaimedFirst
<1>3. ASSUME LoopNext PROVE JournalInv'
  BY <1>3, OfferStep, ClaimStep, ReplayStep, DispatchStep, DirectStep, RecordStep, OutputStep,
     SubmitIntentStep, DieStep, ElsewhereStep DEF LoopNext
<1> QED
  BY <1>1, <1>2, <1>3 DEF LoopInv, JournalInv

-----------------------------------------------------------------------------
(* The results.                                                                *)

\* The loop behaves as the ledger does: what is proved of the ledger holds of it.
THEOREM LoopIsLedger == LoopSpec => Spec
<1>1. LoopInit => Init
  BY DEF LoopInit
<1>2. LoopInv /\ [LoopNext]_loopVars => [Next]_vars
  BY LoopStepIsLedger DEF LoopInv
<1> QED
  BY LoopInitInv, LoopNextInv, <1>1, <1>2, PTL DEF LoopSpec, Spec

\* The loop, too, implements the one-shot permission.
THEOREM LoopImplementsOneShot == LoopSpec => ImplementsOneShot
  BY LoopIsLedger, LedgerImplementsOneShot

\* The host sees the permission for an external action once, in whatever order operations are
\* advanced, replayed or die.
THEOREM GrantIsShownOnce == LoopSpec => []GrantShownOnce
<1>1. LoopInv => GrantShownOnce
  <2> SUFFICES ASSUME LoopInv, NEW w \in Works, SideEffect(w) PROVE shown[w] <= 1
    BY DEF GrantShownOnce
  <2>1. permits[w] <= 1 /\ permits[w] \in Nat
    BY DEF LoopInv, LedgerInv, Accounting, TypeOK
  <2>2. shown[w] <= permits[w] /\ shown[w] \in Nat
    BY <2>1 DEF LoopInv, ShownWasPermitted, Carried, LoopTypeOK
  <2> QED
    BY <2>1, <2>2
<1> QED
  BY LoopInitInv, LoopNextInv, <1>1, PTL DEF LoopSpec

\* An operation is dispatched once, whatever dies.
THEOREM OperationRunsOnce == LoopSpec => []DispatchedOnce
<1>1. LoopInv => DispatchedOnce
  BY DEF LoopInv
<1> QED
  BY LoopInitInv, LoopNextInv, <1>1, PTL DEF LoopSpec

-----------------------------------------------------------------------------
(* work run                                                                  *)

USE OwnerAssumption, SideEffectsAssumption, BudgetAssumption, NullAssumption,
    AdaptersAssumption, MishapAssumption, OutcomesAssumption

InRun == {"prepare", "begin", "act", "click", "again", "observe", "save", "accept"}

\* A run's memory agrees with the ledger: only a run that received the
\* permission of a side effect may stand before a click, and none was made.
RunInv ==
    /\ run.pc = "accept" => file[run.work] # NoFile
    /\ run.pc = "act" /\ run.mayAct /\ SideEffect(run.work) =>
           wstate[run.work] = "intent_recorded" /\ clicks[run.work] = 0
    /\ run.pc = "click" => wstate[run.work] = "intent_recorded" /\ clicks[run.work] = 0
    /\ run.pc = "again" => wstate[run.work] = "intent_recorded" /\ clicks[run.work] <= 1
                              /\ adapter[run.work] = "liepin_open"
    /\ run.pc \in InRun => wstate[run.work] # "absent"

\* A click is only made after the permission, and twice only by liepin_open.
ClickInv ==
    \A w \in Works :
        /\ wstate[w] \in {"absent", "ready"} => clicks[w] = 0
        /\ adapter[w] # "liepin_open" => clicks[w] <= 1

\* What the adapters have read before the click is what they hold when it is made.
FreshInv ==
    /\ run.pc = "begin" /\ wstate[run.work] = "ready" /\ adapter[run.work] \in ChecksHistory =>
           history[run.work] = "absent"
    /\ run.pc = "act" /\ run.mayAct /\ SideEffect(run.work) /\ adapter[run.work] \in ChecksHistory =>
           history[run.work] = "absent"
    /\ run.pc = "click" /\ adapter[run.work] \in ChecksHistory => history[run.work] = "absent"
    /\ run.pc = "click" /\ adapter[run.work] = "boss_greeting" => world[run.work] = "none"

ExecInv == LedgerInv /\ ExecTypeOK /\ RunInv /\ ClickInv /\ FreshInv
-----------------------------------------------------------------------------
\* What a program counter says of the rest of a run's record.
LEMMA RunShape ==
    ASSUME ExecTypeOK
    PROVE  /\ run.pc # "idle" => run.work \in Works
           /\ run.pc \in {"act", "click", "again", "observe"} =>
                 run = [pc |-> run.pc, work |-> run.work, mayAct |-> run.mayAct] /\ run.mayAct \in BOOLEAN
           /\ run.pc = "save" => run.outcome \in RunOutcomes
           /\ run.pc \in InRun \cup {"idle"}
  BY DEF ExecTypeOK, Idle, InRun

LEMMA InitExec == ExecInit => ExecInv
<1> SUFFICES ASSUME ExecInit PROVE ExecInv
  OBVIOUS
<1>1. LedgerInv
  BY InitLedger DEF ExecInit
<1> QED
  BY <1>1 DEF ExecInit, ExecInv, LedgerInv, Init, ExecTypeOK, RunInv, ClickInv, FreshInv, Idle, InRun, Checkpoints, Readings

LEMMA CreateExec ==
    ASSUME ExecInv, NEW w \in Works, NEW s \in Specs, Create(w, s)
    PROVE  ([Next]_vars) /\ ExecTypeOK' /\ RunInv' /\ ClickInv' /\ FreshInv'
<1> USE DEF ExecInv, ExecTypeOK, RunInv, Goto, At, Idle, Finish, InRun, Create, EnsureWork, execVars, columns, Open, SideEffect
<1>1. [Next]_vars
  <2>1. Owner[w] \in Accounts
    OBVIOUS
  <2> QED
    BY <2>1 DEF Next
<1>2. TypeOK'
  BY <1>1, LedgerNext DEF LedgerInv
<1>3. ExecTypeOK'
  BY <1>2 DEF RunOutcomes
<1>4. RunInv'
  BY DEF ClickInv, LedgerInv, TypeOK, RunOutcomes
<1>5. ClickInv'
  BY DEF ClickInv, LedgerInv, TypeOK
<1>6. FreshInv'
  BY DEF FreshInv, LedgerInv, TypeOK, ChecksHistory
<1> QED
  BY <1>1, <1>3, <1>4, <1>5, <1>6

LEMMA RecoverExec ==
    ASSUME ExecInv, NEW w \in Works, Recover(w)
    PROVE  ([Next]_vars) /\ ExecTypeOK' /\ RunInv' /\ ClickInv' /\ FreshInv'
<1> USE DEF ExecInv, ExecTypeOK, RunInv, Goto, At, Idle, Finish, InRun, Recover, PendingWork, execVars, columns, Open, SideEffect
<1>1. [Next]_vars
  <2>1. Owner[w] \in Accounts
    OBVIOUS
  <2> QED
    BY <2>1 DEF Next
<1>2. TypeOK'
  BY <1>1, LedgerNext DEF LedgerInv
<1>3. ExecTypeOK'
  BY <1>2 DEF RunOutcomes
<1>4. RunInv'
  BY DEF ClickInv, LedgerInv, TypeOK, RunOutcomes
<1>5. ClickInv'
  BY DEF ClickInv, LedgerInv, TypeOK
<1>6. FreshInv'
  BY DEF FreshInv, LedgerInv, TypeOK, ChecksHistory
<1> QED
  BY <1>1, <1>3, <1>4, <1>5, <1>6

LEMMA CancelExec ==
    ASSUME ExecInv, NEW w \in Works, Cancel(w)
    PROVE  ([Next]_vars) /\ ExecTypeOK' /\ RunInv' /\ ClickInv' /\ FreshInv'
<1> USE DEF ExecInv, ExecTypeOK, RunInv, Goto, At, Idle, Finish, InRun, Cancel, CancelUnexecuted, execVars, columns, Open, SideEffect
<1>1. [Next]_vars
  <2>1. Owner[w] \in Accounts
    OBVIOUS
  <2> QED
    BY <2>1 DEF Next
<1>2. TypeOK'
  BY <1>1, LedgerNext DEF LedgerInv
<1>3. ExecTypeOK'
  BY <1>2 DEF RunOutcomes
<1>4. RunInv'
  BY DEF ClickInv, LedgerInv, TypeOK, RunOutcomes
<1>5. ClickInv'
  BY DEF ClickInv, LedgerInv, TypeOK
<1>6. FreshInv'
  BY DEF FreshInv, LedgerInv, TypeOK, ChecksHistory
<1> QED
  BY <1>1, <1>3, <1>4, <1>5, <1>6

LEMMA LoadExec ==
    ASSUME ExecInv, NEW w \in Works, Load(w)
    PROVE  ([Next]_vars) /\ ExecTypeOK' /\ RunInv' /\ ClickInv' /\ FreshInv'
<1> USE DEF ExecInv, ExecTypeOK, RunInv, Goto, At, Idle, Finish, InRun, Load, vars, columns, SideEffect
<1>1. UNCHANGED vars
  OBVIOUS
<1>2. TypeOK'
  BY <1>1 DEF TypeOK, LedgerInv
<1>3. ExecTypeOK'
  BY <1>2 DEF RunOutcomes
<1>4. RunInv'
  BY DEF ClickInv, LedgerInv, TypeOK, RunOutcomes
<1>5. ClickInv'
  BY DEF ClickInv, LedgerInv, TypeOK
<1>6. FreshInv'
  BY DEF FreshInv, LedgerInv, TypeOK, ChecksHistory
<1> QED
  BY <1>1, <1>3, <1>4, <1>5, <1>6

LEMMA ActExec ==
    ASSUME ExecInv, NEW w \in Works, Act(w)
    PROVE  ([Next]_vars) /\ ExecTypeOK' /\ RunInv' /\ ClickInv' /\ FreshInv'
<1> DEFINE click == [pc |-> "click", work |-> w, mayAct |-> TRUE]
<1> USE DEF ExecInv, Goto, At, Finish, Act, vars, columns
<1>1. UNCHANGED vars
  OBVIOUS
<1>2. TypeOK'
  BY <1>1 DEF TypeOK, LedgerInv
<1>3. wstate[w] = "intent_recorded" /\ clicks[w] = 0
  BY DEF RunInv
<1>4. \/ run' \in [pc: {"save"}, work: Works, outcome: RunOutcomes] /\ UNCHANGED <<checkpoint, clicks, world>>
      \/ run' \in [pc: {"observe"}, work: Works, mayAct: BOOLEAN] /\ UNCHANGED <<checkpoint, clicks, world>>
      \/ /\ run' = click
         /\ SaveCheckpoint(w)
         /\ adapter[w] = "boss_greeting" => world[w] = "none"
  <2>1. CASE Finish(w, "success") /\ UNCHANGED <<checkpoint, clicks, world>>
    BY <2>1 DEF RunOutcomes
  <2>2. CASE Finish(w, "uncertain") /\ UNCHANGED <<checkpoint, clicks, world>>
    BY <2>2 DEF RunOutcomes
  <2>3. CASE Goto([pc |-> "observe", work |-> w, mayAct |-> TRUE]) /\ UNCHANGED <<checkpoint, clicks, world>>
    <3>1. [pc |-> "observe", work |-> w, mayAct |-> TRUE] \in [pc: {"observe"}, work: Works, mayAct: BOOLEAN]
      OBVIOUS
    <3> QED
      BY <2>3, <3>1
  <2>4. CASE /\ adapter[w] = "boss_greeting" => world[w] = "none"
             /\ SaveCheckpoint(w)
             /\ Goto(click)
    BY <2>4
  <2> QED
    BY <2>1, <2>2, <2>3, <2>4
<1>5. run'.work = w
  BY <1>4, RunShape DEF Finish
<1>6. ExecTypeOK'
  <2>1. checkpoint' \in [Works -> Checkpoints]
    BY <1>4 DEF ExecTypeOK, SaveCheckpoint
  <2>2. click \in [pc: {"act", "click", "again", "observe"}, work: Works, mayAct: BOOLEAN]
    OBVIOUS
  <2>3. run' \in [pc: {"act", "click", "again", "observe"}, work: Works, mayAct: BOOLEAN]
                \cup [pc: {"save"}, work: Works, outcome: RunOutcomes]
    BY <1>4, <2>2
  <2>4. UNCHANGED <<adapter, file, rejected, history, clicks, world, mishaps>>
    BY <1>4 DEF SaveCheckpoint
  <2> QED
    BY <1>2, <2>1, <2>3, <2>4 DEF ExecTypeOK
<1>7. RunInv'
  BY <1>1, <1>3, <1>4, <1>5 DEF RunInv, InRun, SaveCheckpoint, SideEffect
<1>8. ClickInv'
  BY <1>1, <1>4 DEF ClickInv, SaveCheckpoint
<1>9. FreshInv'
  BY <1>1, <1>4, <1>5 DEF FreshInv, SaveCheckpoint, ChecksHistory
<1> QED
  BY <1>1, <1>6, <1>7, <1>8, <1>9

LEMMA ClickExec ==
    ASSUME ExecInv, NEW w \in Works, Click(w)
    PROVE  ([Next]_vars) /\ ExecTypeOK' /\ RunInv' /\ ClickInv' /\ FreshInv'
<1> USE DEF ExecInv, ExecTypeOK, RunInv, Goto, At, Idle, Finish, InRun, Click, vars, columns, SideEffect
<1>1. UNCHANGED vars
  OBVIOUS
<1>2. TypeOK'
  BY <1>1 DEF TypeOK, LedgerInv
<1>3. ExecTypeOK'
  BY <1>2 DEF RunOutcomes
<1>4. RunInv'
  BY DEF ClickInv, LedgerInv, TypeOK, RunOutcomes
<1>5. ClickInv'
  BY DEF ClickInv, LedgerInv, TypeOK
<1>6. FreshInv'
  BY DEF FreshInv, LedgerInv, TypeOK, ChecksHistory
<1> QED
  BY <1>1, <1>3, <1>4, <1>5, <1>6

LEMMA ClickRaisesExec ==
    ASSUME ExecInv, NEW w \in Works, ClickRaises(w)
    PROVE  ([Next]_vars) /\ ExecTypeOK' /\ RunInv' /\ ClickInv' /\ FreshInv'
<1> USE DEF ExecInv, ExecTypeOK, RunInv, Goto, At, Idle, Finish, InRun, ClickRaises, vars, columns, SideEffect
<1>1. UNCHANGED vars
  OBVIOUS
<1>2. TypeOK'
  BY <1>1 DEF TypeOK, LedgerInv
<1>3. ExecTypeOK'
  BY <1>2 DEF RunOutcomes
<1>4. RunInv'
  BY DEF ClickInv, LedgerInv, TypeOK, RunOutcomes
<1>5. ClickInv'
  BY DEF ClickInv, LedgerInv, TypeOK
<1>6. FreshInv'
  BY DEF FreshInv, LedgerInv, TypeOK, ChecksHistory
<1> QED
  BY <1>1, <1>3, <1>4, <1>5, <1>6

LEMMA OnlyLookExec ==
    ASSUME ExecInv, NEW w \in Works, OnlyLook(w)
    PROVE  ([Next]_vars) /\ ExecTypeOK' /\ RunInv' /\ ClickInv' /\ FreshInv'
<1> USE DEF ExecInv, ExecTypeOK, RunInv, Goto, At, Idle, Finish, InRun, OnlyLook, vars, columns, SideEffect
<1>1. UNCHANGED vars
  OBVIOUS
<1>2. TypeOK'
  BY <1>1 DEF TypeOK, LedgerInv
<1>3. ExecTypeOK'
  BY <1>2 DEF RunOutcomes
<1>4. RunInv'
  BY DEF ClickInv, LedgerInv, TypeOK, RunOutcomes
<1>5. ClickInv'
  BY DEF ClickInv, LedgerInv, TypeOK
<1>6. FreshInv'
  BY DEF FreshInv, LedgerInv, TypeOK, ChecksHistory
<1> QED
  BY <1>1, <1>3, <1>4, <1>5, <1>6

LEMMA BeginExec ==
    ASSUME ExecInv, NEW w \in Works, NEW n \in Nonces, Begin(w, n)
    PROVE  ([Next]_vars) /\ ExecTypeOK' /\ RunInv' /\ ClickInv' /\ FreshInv'
<1> DEFINE act(m) == [pc |-> "act", work |-> w, mayAct |-> m]
<1> USE DEF ExecInv
<1>1. Owner[w] \in Accounts
  OBVIOUS
<1>2. \/ (BeginEffect(Owner[w], w, n) \/ BeginObservation(Owner[w], w, n)) /\ run' = act(TRUE)
      \/ Reconcile(w, n) /\ run' = act(FALSE)
  BY DEF Begin, Goto
<1>3. UNCHANGED <<adapter, file, rejected, checkpoint, history, clicks, world, mishaps>> /\ run.pc = "begin" /\ run.work = w
  BY DEF Begin, At
<1>4. [Next]_vars
  BY <1>1, <1>2 DEF Next, Reconcile
<1>5. TypeOK'
  BY <1>4, LedgerNext DEF LedgerInv
<1>6. ExecTypeOK'
  <2>1. act(TRUE) \in [pc: {"act", "click", "again", "observe"}, work: Works, mayAct: BOOLEAN]
    OBVIOUS
  <2>2. act(FALSE) \in [pc: {"act", "click", "again", "observe"}, work: Works, mayAct: BOOLEAN]
    OBVIOUS
  <2>3. run' = act(TRUE) \/ run' = act(FALSE)
    BY <1>2
  <2>4. run' \in [pc: {"act", "click", "again", "observe"}, work: Works, mayAct: BOOLEAN]
    BY <2>1, <2>2, <2>3
  <2> QED
    BY <1>3, <1>5, <2>4 DEF ExecTypeOK
<1>7. \A v \in Works : v # w => wstate'[v] = wstate[v]
  BY <1>2 DEF BeginEffect, BeginObservation, Reconcile, PendingWork, LedgerInv, TypeOK, vars
<1>8. wspec' = wspec /\ wstate'[w] \notin {"absent", "ready"}
  BY <1>2 DEF BeginEffect, BeginObservation, Reconcile, PendingWork, LedgerInv, TypeOK, vars, columns
<1>9. run'.mayAct /\ SideEffect(w) =>
         wstate[w] = "ready" /\ wstate'[w] = "intent_recorded"
  BY <1>2 DEF BeginEffect, BeginObservation, Reconcile, LedgerInv, TypeOK
<1>10. RunInv'
  <2>1. run'.mayAct /\ SideEffect(w) => clicks[w] = 0
    BY <1>9 DEF ClickInv
  <2> QED
    BY <1>2, <1>3, <1>8, <1>9, <2>1 DEF RunInv, InRun, SideEffect
<1>11. ClickInv'
  BY <1>3, <1>7, <1>8 DEF ClickInv
<1>12. FreshInv'
  BY <1>2, <1>3, <1>8, <1>9 DEF FreshInv, SideEffect
<1> QED
  BY <1>4, <1>6, <1>10, <1>11, <1>12

LEMMA ObserveExec ==
    ASSUME ExecInv, NEW w \in Works, NEW o \in RunOutcomes, Observe(w, o)
    PROVE  ([Next]_vars) /\ ExecTypeOK' /\ RunInv' /\ ClickInv' /\ FreshInv'
<1> USE DEF ExecInv, ExecTypeOK, RunInv, Goto, At, Idle, Finish, InRun, Observe, vars, columns, SideEffect, Reread, Readings
<1>1. UNCHANGED vars
  OBVIOUS
<1>2. TypeOK'
  BY <1>1 DEF TypeOK, LedgerInv
<1>3. ExecTypeOK'
  BY <1>2 DEF RunOutcomes
<1>4. RunInv'
  BY DEF ClickInv, LedgerInv, TypeOK, RunOutcomes
<1>5. ClickInv'
  BY DEF ClickInv, LedgerInv, TypeOK
<1>6. FreshInv'
  BY DEF FreshInv, LedgerInv, TypeOK, ChecksHistory
<1> QED
  BY <1>1, <1>3, <1>4, <1>5, <1>6

LEMMA PlatformRecordsExec ==
    ASSUME ExecInv, NEW w \in Works, PlatformRecords(w)
    PROVE  ([Next]_vars) /\ ExecTypeOK' /\ RunInv' /\ ClickInv' /\ FreshInv'
<1> USE DEF ExecInv, ExecTypeOK, RunInv, Goto, At, Idle, Finish, InRun, PlatformRecords, vars, columns, SideEffect
<1>1. UNCHANGED vars
  OBVIOUS
<1>2. TypeOK'
  BY <1>1 DEF TypeOK, LedgerInv
<1>3. ExecTypeOK'
  BY <1>2 DEF RunOutcomes
<1>4. RunInv'
  BY DEF ClickInv, LedgerInv, TypeOK, RunOutcomes
<1>5. ClickInv'
  BY DEF ClickInv, LedgerInv, TypeOK
<1>6. FreshInv'
  BY DEF FreshInv, LedgerInv, TypeOK, ChecksHistory
<1> QED
  BY <1>1, <1>3, <1>4, <1>5, <1>6

LEMMA ByHandExec ==
    ASSUME ExecInv, NEW w \in Works, ByHand(w)
    PROVE  ([Next]_vars) /\ ExecTypeOK' /\ RunInv' /\ ClickInv' /\ FreshInv'
<1> USE DEF ExecInv, ExecTypeOK, RunInv, Goto, At, Idle, Finish, InRun, ByHand, vars, columns, SideEffect
<1>1. UNCHANGED vars
  OBVIOUS
<1>2. TypeOK'
  BY <1>1 DEF TypeOK, LedgerInv
<1>3. ExecTypeOK'
  BY <1>2 DEF RunOutcomes
<1>4. RunInv'
  BY DEF ClickInv, LedgerInv, TypeOK, RunOutcomes
<1>5. ClickInv'
  BY DEF ClickInv, LedgerInv, TypeOK
<1>6. FreshInv'
  BY DEF FreshInv, LedgerInv, TypeOK, ChecksHistory
<1> QED
  BY <1>1, <1>3, <1>4, <1>5, <1>6

LEMMA AgesExec ==
    ASSUME ExecInv, NEW w \in Works, Ages(w)
    PROVE  ([Next]_vars) /\ ExecTypeOK' /\ RunInv' /\ ClickInv' /\ FreshInv'
<1> USE DEF ExecInv, ExecTypeOK, RunInv, Goto, At, Idle, Finish, InRun, Ages, vars, columns, SideEffect, Readings
<1>1. UNCHANGED vars
  OBVIOUS
<1>2. TypeOK'
  BY <1>1 DEF TypeOK, LedgerInv
<1>3. ExecTypeOK'
  BY <1>2 DEF RunOutcomes
<1>4. RunInv'
  BY DEF ClickInv, LedgerInv, TypeOK, RunOutcomes
<1>5. ClickInv'
  BY DEF ClickInv, LedgerInv, TypeOK
<1>6. FreshInv'
  BY DEF FreshInv, LedgerInv, TypeOK, ChecksHistory
<1> QED
  BY <1>1, <1>3, <1>4, <1>5, <1>6

LEMMA PreparedExec ==
    ASSUME ExecInv, Prepared
    PROVE  ([Next]_vars) /\ ExecTypeOK' /\ RunInv' /\ ClickInv' /\ FreshInv'
<1> USE DEF ExecInv, ExecTypeOK, RunInv, Goto, At, Idle, Finish, InRun, Prepared, MayPrepare, vars, columns, SideEffect, ReadsHistory, ReadHistory, Reread, Readings
<1>1. UNCHANGED vars
  OBVIOUS
<1>2. TypeOK'
  BY <1>1 DEF TypeOK, LedgerInv
<1>3. ExecTypeOK'
  BY <1>2 DEF RunOutcomes
<1>4. RunInv'
  BY DEF ClickInv, LedgerInv, TypeOK, RunOutcomes
<1>5. ClickInv'
  BY DEF ClickInv, LedgerInv, TypeOK
<1>6. FreshInv'
  BY DEF FreshInv, LedgerInv, TypeOK, ChecksHistory
<1> QED
  BY <1>1, <1>3, <1>4, <1>5, <1>6

LEMMA PrepareRaisesExec ==
    ASSUME ExecInv, PrepareRaises
    PROVE  ([Next]_vars) /\ ExecTypeOK' /\ RunInv' /\ ClickInv' /\ FreshInv'
<1> USE DEF ExecInv, ExecTypeOK, RunInv, Goto, At, Idle, Finish, InRun, PrepareRaises, vars, columns, SideEffect, ReadsHistory, ReadHistory, Reread, Readings
<1>1. UNCHANGED vars
  OBVIOUS
<1>2. TypeOK'
  BY <1>1 DEF TypeOK, LedgerInv
<1>3. ExecTypeOK'
  BY <1>2 DEF RunOutcomes
<1>4. RunInv'
  BY DEF ClickInv, LedgerInv, TypeOK, RunOutcomes
<1>5. ClickInv'
  BY DEF ClickInv, LedgerInv, TypeOK
<1>6. FreshInv'
  BY DEF FreshInv, LedgerInv, TypeOK, ChecksHistory
<1> QED
  BY <1>1, <1>3, <1>4, <1>5, <1>6

LEMMA SaveExec ==
    ASSUME ExecInv, Save
    PROVE  ([Next]_vars) /\ ExecTypeOK' /\ RunInv' /\ ClickInv' /\ FreshInv'
<1> USE DEF ExecInv, ExecTypeOK, RunInv, Goto, At, Idle, Finish, InRun, Save, vars, columns, SideEffect
<1>0. run.work \in Works /\ run.outcome \in RunOutcomes
  BY RunShape
<1>1. UNCHANGED vars
  OBVIOUS
<1>2. TypeOK'
  BY <1>1 DEF TypeOK, LedgerInv
<1>3. ExecTypeOK'
  BY <1>0, <1>2 DEF RunOutcomes
<1>4. RunInv'
  <2>1. run'.pc = "accept" /\ run'.work = run.work
    OBVIOUS
  <2>2. file'[run.work] # NoFile
    BY <1>0 DEF RunOutcomes, NoFile
  <2>3. wstate'[run.work] # "absent"
    BY <1>0, <1>1
  <2> QED
    BY <2>1, <2>2, <2>3
<1>5. ClickInv'
  BY DEF ClickInv, LedgerInv, TypeOK
<1>6. FreshInv'
  BY DEF FreshInv, LedgerInv, TypeOK, ChecksHistory
<1> QED
  BY <1>1, <1>3, <1>4, <1>5, <1>6

LEMMA UnfiledExec ==
    ASSUME ExecInv, Unfiled
    PROVE  ([Next]_vars) /\ ExecTypeOK' /\ RunInv' /\ ClickInv' /\ FreshInv'
<1> USE DEF ExecInv, ExecTypeOK, RunInv, Goto, At, Idle, Finish, InRun, Unfiled, vars, columns, SideEffect
<1>1. UNCHANGED vars
  OBVIOUS
<1>2. TypeOK'
  BY <1>1 DEF TypeOK, LedgerInv
<1>3. ExecTypeOK'
  BY <1>2 DEF RunOutcomes
<1>4. RunInv'
  BY DEF ClickInv, LedgerInv, TypeOK, RunOutcomes
<1>5. ClickInv'
  BY DEF ClickInv, LedgerInv, TypeOK
<1>6. FreshInv'
  BY DEF FreshInv, LedgerInv, TypeOK, ChecksHistory
<1> QED
  BY <1>1, <1>3, <1>4, <1>5, <1>6

LEMMA AcceptExec ==
    ASSUME ExecInv, NEW r \in ReceiptIds, NEW b \in Bodies, Accept(r, b)
    PROVE  ([Next]_vars) /\ ExecTypeOK' /\ RunInv' /\ ClickInv' /\ FreshInv'
<1> USE DEF ExecInv
<1>1. run.work \in Works /\ run.pc = "accept" /\ file[run.work] # NoFile
  BY RunShape DEF Accept, At, RunInv
<1>2. run' = Idle /\ rejected' \in [Works -> BOOLEAN]
      /\ UNCHANGED <<adapter, file, checkpoint, history, clicks, world, mishaps>>
  BY DEF Accept, Goto, ExecTypeOK
<1>3. CASE SubmitWork(Owner[run.work], run.work, r, wnonce[run.work], file[run.work], b)
  <2> DEFINE w == run.work
  <2>1. Owner[w] \in Accounts /\ file[w] \in Outcomes
    BY <1>1 DEF ExecTypeOK
  <2>2. wnonce[w] \in Nonces
    BY <1>1, <1>3 DEF SubmitWork, LedgerInv, Lifecycle, TypeOK
  <2>3. Next
    BY <1>1, <1>3, <2>1, <2>2 DEF Next
  <2>4. TypeOK'
    BY <2>3, LedgerNext DEF LedgerInv
  <2>5. wstate' = [wstate EXCEPT ![w] = wstate'[w]] /\ wstate'[w] \in {"reconcile_only", "closed"}
    BY <1>1, <1>3 DEF SubmitWork, LedgerInv, TypeOK
  <2>6. ClickInv'
    <3> SUFFICES ASSUME NEW v \in Works
                 PROVE  /\ wstate'[v] \in {"absent", "ready"} => clicks[v] = 0
                        /\ adapter[v] # "liepin_open" => clicks[v] <= 1
      BY <1>2 DEF ClickInv
    <3> QED
      BY <2>5 DEF ClickInv, LedgerInv, TypeOK
  <2> QED
    BY <1>2, <2>3, <2>4, <2>6 DEF ExecTypeOK, RunInv, FreshInv, Idle, InRun
<1>4. CASE UNCHANGED vars
  BY <1>2, <1>4 DEF ExecTypeOK, RunInv, ClickInv, FreshInv, Idle, InRun, TypeOK, vars
<1> QED
  BY <1>3, <1>4 DEF Accept

LEMMA RejectReceiptExec ==
    ASSUME ExecInv, RejectReceipt
    PROVE  ([Next]_vars) /\ ExecTypeOK' /\ RunInv' /\ ClickInv' /\ FreshInv'
<1> USE DEF ExecInv, ExecTypeOK, RunInv, Goto, At, Idle, Finish, InRun, RejectReceipt, vars, columns, SideEffect
<1>1. UNCHANGED vars
  OBVIOUS
<1>2. TypeOK'
  BY <1>1 DEF TypeOK, LedgerInv
<1>3. ExecTypeOK'
  BY <1>2 DEF RunOutcomes
<1>4. RunInv'
  BY DEF ClickInv, LedgerInv, TypeOK, RunOutcomes
<1>5. ClickInv'
  BY DEF ClickInv, LedgerInv, TypeOK
<1>6. FreshInv'
  BY DEF FreshInv, LedgerInv, TypeOK, ChecksHistory
<1> QED
  BY <1>1, <1>3, <1>4, <1>5, <1>6

LEMMA CrashExec ==
    ASSUME ExecInv, Crash
    PROVE  ([Next]_vars) /\ ExecTypeOK' /\ RunInv' /\ ClickInv' /\ FreshInv'
<1> USE DEF ExecInv, ExecTypeOK, RunInv, Goto, At, Idle, Finish, InRun, Crash, vars, columns, SideEffect
<1>1. UNCHANGED vars
  OBVIOUS
<1>2. TypeOK'
  BY <1>1 DEF TypeOK, LedgerInv
<1>3. ExecTypeOK'
  BY <1>2 DEF RunOutcomes
<1>4. RunInv'
  BY DEF ClickInv, LedgerInv, TypeOK, RunOutcomes
<1>5. ClickInv'
  BY DEF ClickInv, LedgerInv, TypeOK
<1>6. FreshInv'
  BY DEF FreshInv, LedgerInv, TypeOK, ChecksHistory
<1> QED
  BY <1>1, <1>3, <1>4, <1>5, <1>6

-----------------------------------------------------------------------------
LEMMA ExecStep == ExecInv /\ [ExecNext]_allVars => [Next]_vars /\ ExecInv'
<1> SUFFICES ASSUME ExecInv, [ExecNext]_allVars
             PROVE  [Next]_vars /\ ExecTypeOK' /\ RunInv' /\ ClickInv' /\ FreshInv'
  BY LedgerNext DEF ExecInv
<1> DEFINE Goal == [Next]_vars /\ ExecTypeOK' /\ RunInv' /\ ClickInv' /\ FreshInv'
<1>1. ASSUME NEW w \in Works, NEW s \in Specs, Create(w, s) PROVE Goal
  BY <1>1, CreateExec
<1>2. ASSUME NEW w \in Works, Recover(w) \/ Cancel(w) PROVE Goal
  BY <1>2, RecoverExec, CancelExec
<1>3. ASSUME NEW w \in Works, RunStep(w) PROVE Goal
  BY <1>3, LoadExec, ActExec, ClickExec, ClickRaisesExec, OnlyLookExec, BeginExec, ObserveExec
     DEF RunStep
<1>4. ASSUME NEW w \in Works, PlatformRecords(w) \/ ByHand(w) \/ Ages(w) PROVE Goal
  BY <1>4, PlatformRecordsExec, ByHandExec, AgesExec
<1>5. CASE Prepared \/ PrepareRaises \/ Save \/ Unfiled
  BY <1>5, PreparedExec, PrepareRaisesExec, SaveExec, UnfiledExec
<1>6. ASSUME NEW r \in ReceiptIds, NEW b \in Bodies, Accept(r, b) PROVE Goal
  BY <1>6, AcceptExec
<1>7. CASE RejectReceipt \/ Crash
  BY <1>7, RejectReceiptExec, CrashExec
<1>8. CASE UNCHANGED allVars
  BY <1>8 DEF allVars, execVars, vars, ExecInv, ExecTypeOK, TypeOK, RunInv, ClickInv, FreshInv, SideEffect
<1> QED
  BY <1>1, <1>2, <1>3, <1>4, <1>5, <1>6, <1>7, <1>8 DEF ExecNext

LEMMA ExecInvariant == ExecSpec => []ExecInv
<1>1. ExecInv /\ [ExecNext]_allVars => ExecInv'
  BY ExecStep
<1> QED
  BY InitExec, <1>1, PTL DEF ExecSpec

\* The run reaches the ledger only by the ledger's operations: what is proved
\* of the ledger holds while works are executed, interrupted and reconciled.
THEOREM ExecutorUsesTheLedger == ExecSpec => Spec
<1>1. ExecInv /\ [ExecNext]_allVars => [Next]_vars
  BY ExecStep
<1>2. ExecInit => Init
  BY DEF ExecInit
<1> QED
  BY <1>1, <1>2, ExecInvariant, PTL DEF ExecSpec, Spec

\* Type correctness of the executor.
THEOREM ExecutorTypeCorrect == ExecSpec => []ExecTypeOK
<1>1. ExecInv => ExecTypeOK
  BY DEF ExecInv
<1> QED
  BY <1>1, ExecInvariant, PTL

\* No history of crashes, uncertain receipts and repeated runs clicks the
\* control that sends a message or an application of a work twice.
THEOREM OneClickPerWork == ExecSpec => []AtMostOneClick
<1>1. ExecInv => AtMostOneClick
  BY DEF ExecInv, ClickInv, AtMostOneClick
<1> QED
  BY <1>1, ExecInvariant, PTL

LEMMA ClickStep == ExecInv /\ [ExecNext]_allVars =>
    [\A w \in Works : clicks'[w] # clicks[w] =>
        /\ wstate[w] = "intent_recorded"
        /\ adapter[w] \in ChecksHistory => history[w] = "absent"
        /\ adapter[w] = "boss_greeting" => world[w] = "none"]_allVars
<1> SUFFICES ASSUME ExecInv, ExecNext, NEW x \in Works, clicks'[x] # clicks[x]
             PROVE  /\ wstate[x] = "intent_recorded"
                    /\ adapter[x] \in ChecksHistory => history[x] = "absent"
                    /\ adapter[x] = "boss_greeting" => world[x] = "none"
  OBVIOUS
<1>1. PICK w \in Works : Act(w) \/ Click(w)
  BY DEF ExecNext, RunStep, Create, Recover, Cancel, Load, ClickRaises, OnlyLook, Begin, Observe,
         PlatformRecords, ByHand, Ages, Prepared, PrepareRaises, Save, Unfiled, Accept, RejectReceipt,
         Crash, execVars
<1>2. CASE Act(w)
  BY <1>2 DEF Act, SaveCheckpoint
<1>3. CASE Click(w)
  <2>1. x = w /\ run.work = w /\ run.pc \in {"click", "again"}
    BY <1>3 DEF Click, At, ExecInv, ExecTypeOK
  <2> QED
    BY <2>1 DEF ExecInv, RunInv, FreshInv, ChecksHistory
<1> QED
  BY <1>1, <1>2, <1>3

\* A click is made under the recorded intent, and never against what its adapter
\* has read: the history it holds, however old, lacks the job.
THEOREM ClicksAreIntended == ExecSpec => ClickUnderIntent
  BY ExecInvariant, ClickStep, PTL DEF ExecSpec, ClickUnderIntent
=================================================================================
