------------------------ MODULE NativeDeliveryProofs ------------------------
(***************************************************************************)
(* What delivery on one platform never does, for every number of jobs,      *)
(* lists and commands that die and for every platform.                      *)
(*                                                                          *)
(* OnePermission and KeepsPromise: a work for an external action is only    *)
(* made when no other list has one for the same job (OneList), and a        *)
(* permission leaves its work issued or closed (Spent); so a ready work is  *)
(* the only one of its action and nothing was permitted before.  That the   *)
(* permission belongs to the confirmed list follows because works are made  *)
(* for jobs of the list of their number (Placed), and the review file holds *)
(* the list confirmed last while it is confirmed at all (Current).          *)
(*                                                                          *)
(* PermittedInOrder and SentMeansVisited: one work is open at a time, and   *)
(* until it is closed nothing changes what the loop found at the jobs       *)
(* before it (InOrder); no job has another work before its page was looked  *)
(* at (InspectFirst).                                                       *)
(*                                                                          *)
(* ReadBeforeGreeting and NothingTwice: what the evidence of a job shows of  *)
(* the platform, and which works account for what it does not show (Known). *)
(***************************************************************************)
EXTENDS NativeDelivery, FiniteSetTheorems, TLAPS

Types ==
    /\ review \in [jobs: Seq(Jobs), auth: Lists \cup {0}]
    /\ shown \in Seq(Seq(Jobs)) /\ Len(shown) <= MaxLists
    /\ delivery \in [list: Lists \cup {0}, limit: Nat, stop: BOOLEAN, cancelled: BOOLEAN]
    /\ wstate \in [Keys -> {"absent", "ready", "issued", "closed"}]
    /\ grants \in [Jobs \X Actions -> Nat]

\* A work belongs to a job of the list confirmed under its number.
Placed ==
    \A k \in Keys : wstate[k] # "absent" =>
        /\ k[1] <= Len(shown)
        /\ \E n \in DOMAIN shown[k[1]] : shown[k[1]][n] = k[2]

\* The review file is confirmed only as the list confirmed last.
Current ==
    review.auth # 0 => review.auth = Len(shown) /\ review.jobs = shown[review.auth]

\* A card that asks about a list asks about one not confirmed yet.
Asking == card = "choice" => review.auth = 0 /\ Len(shown) < MaxLists

\* Without a send command there is no command, question or work.
Under ==
    delivery.list = 0 =>
        /\ delivery = NoDelivery /\ pc = Idle /\ asked = {} /\ DOMAIN followups = {}
        /\ \A k \in Keys : wstate[k] = "absent"

\* The works for one action on one job belong to one list.
OneList ==
    \A l, m \in Lists, j \in Jobs, a \in Actions :
        wstate[<<l, j, a>>] # "absent" /\ wstate[<<m, j, a>>] # "absent" => l = m

\* A permission is used up: its work is issued or closed and never ready again.
Spent ==
    \A j \in Jobs, a \in Actions :
        /\ grants[<<j, a>>] <= 1
        /\ \/ grants[<<j, a>>] = 0
           \/ \E l \in Lists : wstate[<<l, j, a>>] \in {"issued", "closed"}

DeliveryInv == Types /\ Placed /\ Current /\ Asking /\ Under /\ OneList /\ Spent

USE CandidatesAssumption, BoundsAssumption

\* The first component of a key is a list, the second a job, the third a kind.
LEMMA KeyParts ==
    \A k \in Keys : /\ k[1] \in Lists /\ k[2] \in Jobs /\ k[3] \in Kinds
                    /\ k = <<k[1], k[2], k[3]>>
BY DEF Keys

LEMMA KeyMade == \A l \in Lists, j \in Jobs, a \in Kinds : <<l, j, a>> \in Keys
BY DEF Keys

LEMMA ActionsAreKinds == Actions \subseteq Kinds
BY DEF Kinds

LEMMA ListsAreNumbers == Lists \subseteq Nat \ {0}
BY DEF Lists

\* The invariant holds at first: nothing was shown, sent or permitted.
LEMMA DeliveryInvInit == Init => DeliveryInv
<1> SUFFICES ASSUME Init PROVE DeliveryInv
  OBVIOUS
<1>1. Types
  BY DEF Init, Types, NoDelivery
<1>2. Placed /\ Current /\ Asking
  BY DEF Init, Placed, Current, Asking
<1>3. Under
  BY DEF Init, Under, Idle
<1>4. OneList
  BY KeyMade, ActionsAreKinds DEF Init, OneList
<1>5. Spent
  BY DEF Init, Spent
<1> QED BY <1>1, <1>2, <1>3, <1>4, <1>5 DEF DeliveryInv

\* A step that leaves the works, the permissions and the lists alone only has
\* to keep what it says of cards and of the delivery.
LEMMA QuietStep ==
    ASSUME DeliveryInv, UNCHANGED <<review, shown, wstate, grants>>,
           delivery' \in [list: Lists \cup {0}, limit: Nat, stop: BOOLEAN, cancelled: BOOLEAN],
           card' = "choice" => card = "choice", Under'
    PROVE  DeliveryInv'
<1>1. Types' /\ Placed' /\ Current' /\ Asking'
  BY DEF DeliveryInv, Types, Placed, Current, Asking
<1>2. OneList'
  BY DEF DeliveryInv, OneList
<1>3. Spent'
  BY DEF DeliveryInv, Spent
<1> QED BY <1>1, <1>2, <1>3 DEF DeliveryInv

\* A command that is under way works for a delivery.
LEMMA CommandHasDelivery ==
    ASSUME DeliveryInv, pc # Idle
    PROVE  delivery.list \in Lists
BY DEF DeliveryInv, Types, Under
-----------------------------------------------------------------------------
\* The steps that leave the works, the permissions and the lists alone.
LEMMA QuietActions ==
    ASSUME DeliveryInv,
           \/ ConfirmAgain
           \/ \E n \in 1..Batch, stop \in BOOLEAN : Start(n, stop)
           \/ \E s \in DOMAIN followups : AnswerFollowup(s)
           \/ \E l \in Lists, j \in Jobs : AnswerChoice(l, j)
           \/ \E k \in Keys : BeginRefused(k) \/ Act(k)
           \/ NextWaits \/ NextContinue \/ NextAdvance \/ Continue
           \/ AdvanceStopped \/ AdvanceQuestion \/ AdvanceRefused \/ AdvancePaused \/ AdvanceEnd
           \/ SaveCancel \/ Crash \/ Audit \/ Skip
    PROVE  DeliveryInv'
<1>1. CASE ConfirmAgain
  <2>1. Under'
    BY <1>1 DEF DeliveryInv, ConfirmAgain, Under, choices, ledger, lists
  <2> QED BY <1>1, <2>1, QuietStep DEF DeliveryInv, Types, ConfirmAgain, lists, ledger
<1>2. ASSUME NEW n \in 1..Batch, NEW stop \in BOOLEAN, Start(n, stop)
      PROVE  DeliveryInv'
  <2>1. review.auth \in Lists
    BY <1>2 DEF DeliveryInv, Types, Start
  <2>2. /\ delivery' = [list |-> review.auth, limit |-> n, stop |-> stop, cancelled |-> FALSE]
        /\ UNCHANGED <<review, shown, wstate, grants, card>>
    BY <1>2 DEF Start, lists, ledger
  <2>3. Under'
    BY <2>1, <2>2, ListsAreNumbers DEF Under
  <2> QED BY <2>1, <2>2, <2>3, QuietStep
<1>3. ASSUME NEW s \in DOMAIN followups, AnswerFollowup(s)
      PROVE  DeliveryInv'
  <2>1. delivery.list # 0
    BY DEF DeliveryInv, Under
  <2>2. /\ delivery'.list = delivery.list
        /\ delivery' \in [list: Lists \cup {0}, limit: Nat, stop: BOOLEAN, cancelled: BOOLEAN]
    <3>1. CASE UNCHANGED delivery
      BY <3>1 DEF DeliveryInv, Types
    <3>2. CASE delivery' = [delivery EXCEPT !.limit =
                 IF s.limit + Batch < Len(Approved) THEN s.limit + Batch ELSE Len(Approved)]
      <4> DEFINE wider == IF s.limit + Batch < Len(Approved) THEN s.limit + Batch ELSE Len(Approved)
      <4>1. Len(Approved) \in Nat
        BY DEF DeliveryInv, Types, Approved
      <4>2. s.limit \in Nat
        BY <1>3 DEF AnswerFollowup, Source, DeliveryInv, Types
      <4>3. wider \in Nat
        BY <4>1, <4>2
      <4>4. delivery' = [delivery EXCEPT !.limit = wider]
        BY <3>2
      <4> HIDE DEF wider
      <4> QED BY <4>3, <4>4 DEF DeliveryInv, Types
    <3> QED BY <1>3, <3>1, <3>2 DEF AnswerFollowup
  <2>3. UNCHANGED <<review, shown, wstate, grants>> /\ (card' = "choice" => card = "choice")
    BY <1>3 DEF AnswerFollowup, lists, ledger
  <2> QED BY <2>1, <2>2, <2>3, QuietStep DEF Under
<1>4. ASSUME NEW l \in Lists, NEW j \in Jobs, AnswerChoice(l, j)
      PROVE  DeliveryInv'
  <2>1. delivery.list # 0
    BY <1>4 DEF DeliveryInv, Under, AnswerChoice
  <2> QED BY <1>4, <2>1, QuietStep DEF DeliveryInv, Types, AnswerChoice, lists, ledger, Under
<1>5. ASSUME NEW k \in Keys, BeginRefused(k) \/ Act(k)
      PROVE  DeliveryInv'
  <2>1. UNCHANGED <<lists, ledger, grants, delivery, card, followups, choices, pc>>
    BY <1>5 DEF BeginRefused, Act, outside
  <2> QED BY <2>1, QuietStep DEF DeliveryInv, Types, Under, lists, ledger, choices
<1>6. CASE NextWaits
  BY <1>6, QuietStep DEF DeliveryInv, Types, Under, NextWaits, lists, ledger, choices
<1>7. CASE NextContinue \/ NextAdvance
  <2>1. delivery.list # 0
    BY <1>7 DEF DeliveryInv, Under, NextContinue, NextAdvance, Unsettled
  <2>2. UNCHANGED <<lists, ledger, grants, delivery, card>>
    BY <1>7 DEF NextContinue, NextAdvance
  <2> QED BY <2>1, <2>2, QuietStep DEF DeliveryInv, Types, Under, lists, ledger
<1>8. CASE Continue \/ AdvanceStopped \/ AdvanceQuestion \/ AdvanceRefused \/ AdvancePaused
           \/ AdvanceEnd \/ SaveCancel
  <2>1. pc # Idle
    BY <1>8 DEF Idle, Continue, AdvanceStopped, AdvanceQuestion, AdvanceRefused, AdvancePaused,
                AdvanceEnd, SaveCancel, MayGoOn
  <2>2. delivery.list \in Lists
    BY <2>1, CommandHasDelivery
  <2>3. UNCHANGED <<review, shown, wstate, grants>> /\ (card' = "choice" => card = "choice")
    BY <1>8 DEF Continue, AdvanceStopped, AdvanceQuestion, AdvanceRefused, AdvancePaused,
                AdvanceEnd, SaveCancel, lists, ledger
  <2>4. /\ delivery'.list = delivery.list
        /\ delivery' \in [list: Lists \cup {0}, limit: Nat, stop: BOOLEAN, cancelled: BOOLEAN]
    <3>1. CASE SaveCancel
      BY <3>1 DEF SaveCancel, DeliveryInv, Types
    <3>2. CASE ~SaveCancel
      BY <1>8, <3>2 DEF DeliveryInv, Types, Continue, AdvanceStopped, AdvanceQuestion,
                        AdvanceRefused, AdvancePaused, AdvanceEnd
    <3> QED BY <3>1, <3>2
  <2>5. Under'
    BY <2>2, <2>4, ListsAreNumbers DEF Under
  <2> QED BY <2>3, <2>4, <2>5, QuietStep
<1>9. CASE Crash \/ Audit \/ Skip
  <2>1. /\ UNCHANGED <<lists, ledger, grants, delivery, followups, choices>>
        /\ card' = "choice" => card = "choice"
        /\ pc' = pc \/ pc # Idle
    BY <1>9 DEF Crash, Audit, Skip
  <2>2. Under'
    BY <2>1, CommandHasDelivery, ListsAreNumbers DEF DeliveryInv, Under, ledger, choices
  <2> QED BY <2>1, <2>2, QuietStep DEF DeliveryInv, Types, lists, ledger
<1> QED BY <1>1, <1>2, <1>3, <1>4, <1>5, <1>6, <1>7, <1>8, <1>9
-----------------------------------------------------------------------------
\* A new list withdraws the confirmation; nothing was permitted by showing it.
LEMMA ShowListStep ==
    ASSUME DeliveryInv, NEW c \in Candidates, ShowList(c)
    PROVE  DeliveryInv'
<1> USE DEF ShowList
<1>1. Types' /\ Placed' /\ Current' /\ Asking'
  BY DEF DeliveryInv, Types, Placed, Current, Asking, ledger
<1>2. Under' /\ OneList' /\ Spent'
  BY DEF DeliveryInv, Under, OneList, Spent, ledger, choices
<1> QED BY <1>1, <1>2 DEF DeliveryInv

\* A confirmation gets a number of its own, which no work carries yet.
LEMMA ConfirmStep ==
    ASSUME DeliveryInv, Confirm
    PROVE  DeliveryInv'
<1> USE DEF Confirm
<1>1. /\ Len(shown) \in Nat /\ Len(shown) < MaxLists
      /\ review.jobs \in Seq(Jobs) /\ shown \in Seq(Seq(Jobs))
  BY DEF DeliveryInv, Types, Asking
<1>2. /\ Len(shown') = Len(shown) + 1
      /\ \A l \in 1..Len(shown) : shown'[l] = shown[l]
      /\ shown'[Len(shown) + 1] = review.jobs
      /\ shown' \in Seq(Seq(Jobs))
  BY <1>1
<1>3. Types'
  <2>1. Len(shown) + 1 \in Lists
    BY <1>1 DEF Lists
  <2>2. review' \in [jobs: Seq(Jobs), auth: Lists \cup {0}]
    BY <2>1 DEF DeliveryInv, Types
  <2>3. UNCHANGED <<delivery, wstate, grants>>
    BY DEF ledger
  <2>4. Len(shown') <= MaxLists
    BY <1>1, <1>2
  <2> QED BY <1>2, <2>2, <2>3, <2>4 DEF DeliveryInv, Types
<1>4. Placed'
  <2> SUFFICES ASSUME NEW k \in Keys, wstate[k] # "absent"
               PROVE  /\ k[1] <= Len(shown')
                      /\ \E n \in DOMAIN shown'[k[1]] : shown'[k[1]][n] = k[2]
    BY DEF Placed, ledger
  <2>1. k[1] \in 1..Len(shown)
    BY <1>1, KeyParts, ListsAreNumbers DEF DeliveryInv, Placed, Lists
  <2>2. shown'[k[1]] = shown[k[1]] /\ k[1] <= Len(shown')
    BY <1>1, <1>2, <2>1 DEF DeliveryInv, Types
  <2>3. \E n \in DOMAIN shown[k[1]] : shown[k[1]][n] = k[2]
    BY DEF DeliveryInv, Placed
  <2> QED BY <2>2, <2>3
<1>5. Current' /\ Asking'
  BY <1>1, <1>2 DEF DeliveryInv, Types, Current, Asking
<1>6. Under' /\ OneList' /\ Spent'
  BY DEF DeliveryInv, Under, OneList, Spent, ledger, choices
<1> QED BY <1>3, <1>4, <1>5, <1>6 DEF DeliveryInv

\* A step that moves one existing work on, and no permission, keeps the rest.
LEMMA MovedOn ==
    ASSUME DeliveryInv,
           UNCHANGED <<review, shown, delivery, card, grants>>,
           NEW k \in Keys, wstate[k] # "absent",
           wstate' = [wstate EXCEPT ![k] = "closed"]
    PROVE  DeliveryInv'
<1>1. delivery.list # 0
  BY DEF DeliveryInv, Under
<1>2. Types' /\ Placed' /\ Current' /\ Asking' /\ Under'
  BY <1>1 DEF DeliveryInv, Types, Placed, Current, Asking, Under
<1>3. OneList'
  BY KeyMade, ActionsAreKinds DEF DeliveryInv, Types, OneList
<1>4. Spent'
  BY KeyMade, ActionsAreKinds DEF DeliveryInv, Types, Spent
<1> QED BY <1>2, <1>3, <1>4 DEF DeliveryInv

LEMMA ClosingActions ==
    ASSUME DeliveryInv, NEW k \in Keys,
           Cancel(k) \/ \E r \in Reports(k) : Submit(k, r)
    PROVE  DeliveryInv'
<1>1. UNCHANGED <<review, shown, delivery, card, grants>>
  BY DEF Cancel, Submit, lists
<1>2. CASE wstate' = [wstate EXCEPT ![k] = "closed"]
  <2>1. wstate[k] # "absent"
    BY DEF Cancel, Submit
  <2> QED BY <1>1, <1>2, <2>1, MovedOn
<1>3. CASE UNCHANGED wstate /\ wstate[k] = "closed"
  <2>1. delivery.list # 0
    BY <1>3 DEF DeliveryInv, Under
  <2> QED BY <1>1, <1>3, <2>1, QuietStep DEF DeliveryInv, Types, Under
<1> QED BY <1>2, <1>3 DEF Cancel, Submit

\* A ready work is the only one for its action, so nothing was permitted.
LEMMA ReadyIsUnspent ==
    ASSUME DeliveryInv, NEW k \in Keys, wstate[k] = "ready", k[3] \in Actions
    PROVE  grants[<<k[2], k[3]>>] = 0
<1>1. k[1] \in Lists /\ k[2] \in Jobs /\ wstate[<<k[1], k[2], k[3]>>] = "ready"
  BY KeyParts
<1>2. ASSUME NEW l \in Lists, wstate[<<l, k[2], k[3]>>] \in {"issued", "closed"}
      PROVE  FALSE
  BY <1>1, <1>2 DEF DeliveryInv, OneList
<1> QED BY <1>1, <1>2 DEF DeliveryInv, Spent

LEMMA BeginStep ==
    ASSUME DeliveryInv, NEW k \in Keys, Begin(k)
    PROVE  DeliveryInv'
<1>1. delivery.list # 0
  BY DEF DeliveryInv, Under, Begin
<1>2. k[1] \in Lists /\ k[2] \in Jobs /\ k = <<k[1], k[2], k[3]>>
  BY KeyParts
<1>3. UNCHANGED <<review, shown, delivery, card>> /\ wstate' = [wstate EXCEPT ![k] = "issued"]
  BY DEF Begin, lists
<1>4. CASE k[3] \notin Actions
  <2>1. UNCHANGED grants
    BY <1>4 DEF Begin
  <2>2. Types' /\ Placed' /\ Current' /\ Asking' /\ Under'
    BY <1>1, <1>3, <2>1 DEF DeliveryInv, Types, Placed, Current, Asking, Under, Begin
  <2>3. \A l \in Lists, j \in Jobs, a \in Actions : wstate'[<<l, j, a>>] = wstate[<<l, j, a>>]
    <3> SUFFICES ASSUME NEW l \in Lists, NEW j \in Jobs, NEW a \in Actions
                 PROVE  wstate'[<<l, j, a>>] = wstate[<<l, j, a>>]
      OBVIOUS
    <3>1. <<l, j, a>> \in Keys /\ <<l, j, a>> # k
      BY <1>2, <1>4, KeyMade, ActionsAreKinds
    <3> QED BY <1>3, <3>1 DEF DeliveryInv, Types
  <2>4. OneList'
    BY <2>3 DEF DeliveryInv, OneList
  <2>5. Spent'
    BY <2>1, <2>3 DEF DeliveryInv, Spent
  <2> QED BY <2>2, <2>4, <2>5 DEF DeliveryInv
<1>5. CASE k[3] \in Actions
  <2> DEFINE p == <<k[2], k[3]>>
  <2>1. p \in Jobs \X Actions /\ grants[p] = 0
    BY <1>2, <1>5, ReadyIsUnspent DEF Begin
  <2>2. grants' = [grants EXCEPT ![p] = 1]
    BY <1>5, <2>1 DEF Begin
  <2>3. Types'
    BY <1>3, <2>1, <2>2 DEF DeliveryInv, Types
  <2>4. Placed' /\ Current' /\ Asking' /\ Under'
    BY <1>1, <1>3 DEF DeliveryInv, Types, Placed, Current, Asking, Under, Begin
  <2>5. OneList'
    BY <1>3, KeyMade, ActionsAreKinds DEF DeliveryInv, Types, OneList, Begin
  <2>6. Spent'
    <3> SUFFICES ASSUME NEW j \in Jobs, NEW a \in Actions
                 PROVE  /\ grants'[<<j, a>>] <= 1
                        /\ \/ grants'[<<j, a>>] = 0
                           \/ \E l \in Lists : wstate'[<<l, j, a>>] \in {"issued", "closed"}
      BY DEF Spent
    <3>1. CASE <<j, a>> = p
      <4>1. grants'[<<j, a>>] = 1
        BY <2>1, <2>2, <3>1 DEF DeliveryInv, Types
      <4>2. j = k[2] /\ a = k[3]
        BY <3>1
      <4>3. wstate'[<<k[1], j, a>>] = "issued"
        <5>1. <<k[1], j, a>> = k
          BY <1>2, <4>2
        <5>2. wstate'[k] = "issued"
          BY <1>3 DEF DeliveryInv, Types
        <5> QED BY <5>1, <5>2
      <4> QED BY <1>2, <4>1, <4>3
    <3>2. CASE <<j, a>> # p
      <4>1. grants'[<<j, a>>] = grants[<<j, a>>]
        BY <2>2, <3>2 DEF DeliveryInv, Types
      <4>2. \A l \in Lists : wstate'[<<l, j, a>>] = wstate[<<l, j, a>>]
        BY <1>2, <1>3, <3>2, KeyMade, ActionsAreKinds DEF DeliveryInv, Types
      <4> QED BY <4>1, <4>2 DEF DeliveryInv, Spent
    <3> QED BY <3>1, <3>2
  <2> QED BY <2>3, <2>4, <2>5, <2>6 DEF DeliveryInv
<1> QED BY <1>4, <1>5

\* A new work: its list is the confirmed one, and no other list has a work for
\* an external action on the job.
LEMMA AdvanceWorkStep ==
    ASSUME DeliveryInv, AdvanceWork
    PROVE  DeliveryInv'
<1>1. delivery.list \in Lists /\ delivery.list = review.auth
  BY CommandHasDelivery DEF AdvanceWork, MayGoOn, Authorized, Idle
<1>2. PICK n \in DOMAIN Approved, kind \in Kinds :
        /\ Needs(delivery.list, Approved[n], kind)
        /\ wstate[<<delivery.list, Approved[n], kind>>] = "absent"
        /\ wstate' = [wstate EXCEPT ![<<delivery.list, Approved[n], kind>>] = "ready"]
  BY DEF AdvanceWork
<1> DEFINE job == Approved[n]
           key == <<delivery.list, job, kind>>
<1>3. job \in Jobs
  BY DEF DeliveryInv, Types, Approved
<1>4. key \in Keys
  BY <1>1, <1>3, KeyMade
<1>5. UNCHANGED <<review, shown, delivery, card, grants>>
  BY DEF AdvanceWork, lists
<1>6. Types' /\ Current' /\ Asking' /\ Under'
  BY <1>1, <1>2, <1>5, ListsAreNumbers DEF DeliveryInv, Types, Current, Asking, Under
<1>7. Placed'
  <2>1. /\ delivery.list <= Len(shown)
        /\ n \in DOMAIN shown[delivery.list] /\ shown[delivery.list][n] = job
    BY <1>1, ListsAreNumbers DEF DeliveryInv, Types, Current, Approved
  <2>2. key[1] = delivery.list /\ key[2] = job
    OBVIOUS
  <2>3. \A k \in Keys : k # key => wstate'[k] = wstate[k]
    BY <1>2 DEF DeliveryInv, Types
  <2> HIDE DEF key, job
  <2> QED BY <1>5, <2>1, <2>2, <2>3 DEF DeliveryInv, Placed
<1>8. CASE kind \notin Actions
  <2>1. \A l \in Lists, j \in Jobs, a \in Actions : wstate'[<<l, j, a>>] = wstate[<<l, j, a>>]
    BY <1>2, <1>8, KeyMade, ActionsAreKinds DEF DeliveryInv, Types
  <2>2. OneList'
    BY <2>1 DEF DeliveryInv, OneList
  <2>3. ASSUME NEW j \in Jobs, NEW a \in Actions
        PROVE  /\ grants'[<<j, a>>] <= 1
               /\ \/ grants'[<<j, a>>] = 0
                  \/ \E l \in Lists : wstate'[<<l, j, a>>] \in {"issued", "closed"}
    <3>1. grants'[<<j, a>>] = grants[<<j, a>>]
      BY <1>5
    <3>2. \A l \in Lists : wstate'[<<l, j, a>>] = wstate[<<l, j, a>>]
      BY <2>1
    <3> QED BY <3>1, <3>2 DEF DeliveryInv, Spent
  <2>4. Spent'
    BY <2>3 DEF Spent
  <2> QED BY <1>6, <1>7, <2>2, <2>4 DEF DeliveryInv
<1>9. CASE kind \in Actions
  <2>1. \A m \in Lists : m # delivery.list => wstate[<<m, job, kind>>] = "absent"
    <3>1. Due(delivery.list, job, kind)
      BY <1>2, <1>9 DEF Needs, Actions
    <3> QED BY <3>1 DEF Due, Prior, Exists
  <2>2. ASSUME NEW l \in Lists, NEW j \in Jobs, NEW a \in Actions
        PROVE  /\ <<l, j, a>> # key => wstate'[<<l, j, a>>] = wstate[<<l, j, a>>]
               /\ <<l, j, a>> = key => wstate'[<<l, j, a>>] = "ready"
    BY <1>2, <1>4, KeyMade, ActionsAreKinds DEF DeliveryInv, Types
  <2>3. OneList'
    <3> SUFFICES ASSUME NEW l \in Lists, NEW m \in Lists, NEW j \in Jobs, NEW a \in Actions,
                        wstate'[<<l, j, a>>] # "absent", wstate'[<<m, j, a>>] # "absent", l # m
                 PROVE  FALSE
      BY DEF OneList
    <3>1. CASE j = job /\ a = kind
      BY <2>1, <2>2, <3>1
    <3>2. CASE ~(j = job /\ a = kind)
      BY <2>2, <3>2 DEF DeliveryInv, OneList
    <3> QED BY <3>1, <3>2
  <2>4. Spent'
    <3> SUFFICES ASSUME NEW j \in Jobs, NEW a \in Actions
                 PROVE  /\ grants'[<<j, a>>] <= 1
                        /\ \/ grants'[<<j, a>>] = 0
                           \/ \E l \in Lists : wstate'[<<l, j, a>>] \in {"issued", "closed"}
      BY DEF Spent
    <3>1. \A l \in Lists : wstate[<<l, j, a>>] \in {"issued", "closed"} =>
                            wstate'[<<l, j, a>>] \in {"issued", "closed"}
      BY <1>2, <2>2
    <3> QED BY <1>5, <3>1 DEF DeliveryInv, Spent
  <2> QED BY <1>6, <1>7, <2>3, <2>4 DEF DeliveryInv
<1> QED BY <1>8, <1>9
-----------------------------------------------------------------------------
\* Every step keeps the invariant.
LEMMA DeliveryInvStep == DeliveryInv /\ [Next]_vars => DeliveryInv'
<1> SUFFICES ASSUME DeliveryInv, [Next]_vars
             PROVE  DeliveryInv'
  OBVIOUS
<1>1. CASE UNCHANGED vars
  BY <1>1, QuietStep DEF DeliveryInv, Types, Under, vars
<1>2. CASE Users
  BY <1>2, QuietActions, ShowListStep, ConfirmStep, ClosingActions DEF Users
<1>3. CASE Machine
  BY <1>3, QuietActions, AdvanceWorkStep DEF Machine, Advance
<1>4. CASE Crash
  BY <1>4, QuietActions
<1>5. ASSUME NEW k \in Keys, Host(k)
      PROVE  DeliveryInv'
  BY <1>5, QuietActions, BeginStep, ClosingActions DEF Host
<1> QED BY <1>1, <1>2, <1>3, <1>4, <1>5 DEF Next

LEMMA DeliveryInvariant == Spec => []DeliveryInv
BY DeliveryInvInit, DeliveryInvStep, PTL DEF Spec

\* A greeting, a resume, an opened conversation is permitted at most once for
\* a job, on every platform, for every number of lists, re-sends, crashes and
\* cancellations (native_work._delivery_next).
THEOREM PermittedOnce == Spec => []OnePermission
<1>1. DeliveryInv => OnePermission
  BY DEF DeliveryInv, Spent, OnePermission
<1> QED BY <1>1, DeliveryInvariant, PTL
-----------------------------------------------------------------------------
\* A permitted action is a Grant of the promise: its job is confirmed now.
LEMMA BeginGrants ==
    ASSUME DeliveryInv, NEW k \in Keys, Begin(k)
    PROVE  [Promise!Next]_(Promise!promiseVars)
<1>1. UNCHANGED review
  BY DEF Begin, lists
<1>2. CASE k[3] \notin Actions
  <2>1. UNCHANGED grants
    BY <1>2 DEF Begin
  <2> QED BY <1>1, <2>1 DEF Promise!promiseVars
<1>3. CASE k[3] \in Actions
  <2>1. /\ k[1] \in Lists /\ k[2] \in Jobs
        /\ grants[<<k[2], k[3]>>] = 0
    BY <1>3, KeyParts, ReadyIsUnspent DEF Begin
  <2>2. grants' = [grants EXCEPT ![<<k[2], k[3]>>] = 1]
    BY <1>3, <2>1 DEF Begin
  <2>3. review.auth = k[1] /\ review.auth # 0
    BY <2>1, ListsAreNumbers DEF Begin, Authorized
  <2>4. \E n \in DOMAIN review.jobs : review.jobs[n] = k[2]
    BY <2>3 DEF DeliveryInv, Placed, Current, Begin
  <2>5. Promise!Grant(k[2], k[3])
    BY <1>1, <2>1, <2>2, <2>3, <2>4 DEF Promise!Grant
  <2> QED BY <1>3, <2>1, <2>5 DEF Promise!Next
<1> QED BY <1>2, <1>3

\* Every step of delivery is a step of the promise or leaves it alone.
LEMMA PromiseStep ==
    ASSUME DeliveryInv, [Next]_vars
    PROVE  [Promise!Next]_(Promise!promiseVars)
<1>1. CASE UNCHANGED <<review, grants>>
  BY <1>1 DEF Promise!promiseVars
<1>2. ASSUME NEW c \in Candidates, ShowList(c)
      PROVE  Promise!Show
  BY <1>2 DEF ShowList, Promise!Show
<1>3. CASE Confirm
  <2>1. review.auth = 0 /\ review.jobs \in Seq(Jobs)
    BY <1>3 DEF DeliveryInv, Types, Asking, Confirm
  <2>2. /\ review'.jobs = review.jobs /\ review'.auth = Len(shown) + 1
        /\ Len(shown) \in Nat /\ UNCHANGED grants
    BY <1>3 DEF DeliveryInv, Types, Confirm
  <2>3. {review.jobs[n] : n \in DOMAIN review.jobs} \subseteq Jobs
    BY <2>1
  <2> QED BY <2>1, <2>2, <2>3 DEF Promise!Next, Promise!Confirm
<1>4. ASSUME NEW k \in Keys, Begin(k)
      PROVE  [Promise!Next]_(Promise!promiseVars)
  BY <1>4, BeginGrants
<1>5. CASE Users
  <2>1. \/ \E c \in Candidates : ShowList(c)
        \/ Confirm
        \/ UNCHANGED <<review, grants>>
    BY <1>5
       DEF Users, ConfirmAgain, Start, AnswerFollowup, AnswerChoice, Cancel, Skip, lists
  <2> QED BY <1>1, <1>2, <1>3, <2>1 DEF Promise!Next
<1>6. CASE Machine \/ Crash
  BY <1>1, <1>6
     DEF Machine, NextWaits, NextContinue, NextAdvance, Continue, Advance, AdvanceStopped,
         AdvanceWork, AdvanceQuestion, AdvanceRefused, AdvancePaused, AdvanceEnd, SaveCancel,
         Audit, Crash, lists
<1>7. ASSUME NEW k \in Keys, Host(k)
      PROVE  [Promise!Next]_(Promise!promiseVars)
  BY <1>1, <1>4, <1>7 DEF Host, BeginRefused, Act, Submit, lists, outside
<1> QED BY <1>1, <1>5, <1>6, <1>7 DEF Next, vars

\* Delivery keeps its promise: an irrevocable action is permitted only for a
\* job of the list that is confirmed at that moment, and only once.
THEOREM DeliveryKeepsItsPromise == Spec => KeepsPromise
<1>1. Init => Promise!Init
  BY DEF Init, Promise!Init
<1>2. DeliveryInv /\ [Next]_vars => [Promise!Next]_(Promise!promiseVars)
  BY PromiseStep
<1> QED BY <1>1, <1>2, DeliveryInvariant, PTL DEF Spec, KeepsPromise, Promise!Spec
-----------------------------------------------------------------------------
(* The order of the list.                                                    *)

\* The evidence a closed work left is of the shapes the code accepts.
Evidenced == outcome \in [Keys -> Outcomes] /\ seen \in [Keys -> Sights]

\* One work is open at a time, and it belongs to the delivery under way and to
\* the list confirmed last.
OneOpen == \A k, m \in Keys : Open(k) /\ Open(m) => k = m

Ours == \A k \in Keys : Open(k) => k[1] = delivery.list /\ k[1] = Len(shown)

\* No job has another work before its page was looked at.
InspectFirst ==
    \A l \in Lists, j \in Jobs, k \in Kinds :
        Exists(l, j, k) /\ k # "inspect" => Succeeded(l, j, "inspect")

\* The question of a dialog is known of every job the dialog was prepared for.
PreparedKnown ==
    \A l \in Lists, j \in Jobs : Exists(l, j, "prepare") => <<l, j>> \in DOMAIN preparedFor

\* A list names a job once.
Distinct == review.jobs \in Candidates \cup {<<>>}

\* The job of a ready work is still the next one of the delivery.
InOrder ==
    \A k \in Keys : wstate[k] = "ready" /\ review.auth = k[1] =>
        \E n \in InBatch : Approved[n] = k[2] /\ \A m \in 1..(n - 1) : Passed(m)

OrderInv == Evidenced /\ OneOpen /\ Ours /\ InspectFirst /\ PreparedKnown /\ Distinct /\ InOrder

-----------------------------------------------------------------------------
LEMMA KindsOfSteps == {Steps[n] : n \in DOMAIN Steps} \subseteq Actions
BY DEF Steps, Actions

\* What the loop finds at a job rests on the works of that job, the answer about
\* its attachment and the source of the delivery.
SameJob(l, j) ==
    /\ \A m \in Lists, k \in Kinds :
          /\ wstate'[<<m, j, k>>] = wstate[<<m, j, k>>]
          /\ outcome'[<<m, j, k>>] = outcome[<<m, j, k>>]
          /\ seen'[<<m, j, k>>] = seen[<<m, j, k>>]
    /\ <<l, j>> \in answered' <=> <<l, j>> \in answered
    /\ Source' = Source
    /\ Platform = "liepin" /\ Succeeded(l, j, "prepare") =>
          preparedFor'[<<l, j>>] = preparedFor[<<l, j>>]

LEMMA SameJobSameWorks ==
    ASSUME NEW l \in Lists, NEW j \in Jobs, SameJob(l, j)
    PROVE  /\ \A k \in Kinds : /\ Exists(l, j, k)' <=> Exists(l, j, k)
                               /\ Closed(l, j, k)' <=> Closed(l, j, k)
                               /\ Succeeded(l, j, k)' <=> Succeeded(l, j, k)
                               /\ seen'[<<l, j, k>>] = seen[<<l, j, k>>]
                               /\ outcome'[<<l, j, k>>] = outcome[<<l, j, k>>]
           /\ \A k \in Kinds : Prior(l, j, k)' <=> Prior(l, j, k)
<1>1. \A k \in Kinds, m \in Lists : Exists(m, j, k)' <=> Exists(m, j, k)
  BY DEF SameJob, Exists
<1>2. \A k \in Kinds : Closed(l, j, k)' <=> Closed(l, j, k)
  BY DEF SameJob, Closed
<1>3. \A k \in Kinds : Succeeded(l, j, k)' <=> Succeeded(l, j, k)
  BY <1>2 DEF SameJob, Succeeded
<1>4. \A k \in Kinds : Prior(l, j, k)' <=> Prior(l, j, k)
  BY <1>1 DEF Prior
<1> QED BY <1>1, <1>2, <1>3, <1>4 DEF SameJob

LEMMA SameJobSameEvidence ==
    ASSUME NEW l \in Lists, NEW j \in Jobs, SameJob(l, j)
    PROVE  /\ NeedsAfter(l, j)' <=> NeedsAfter(l, j)
           /\ Evidence(l, j)' = Evidence(l, j)
           /\ Remaining(l, j)' = Remaining(l, j)
           /\ Read(l, j)' <=> Read(l, j)
           /\ Gone(l, j)' <=> Gone(l, j)
<1> USE SameJobSameWorks
<1>1. Chat(l, j)' <=> Chat(l, j)
  BY DEF Chat
<1>2. NeedsAfter(l, j)' <=> NeedsAfter(l, j)
  BY <1>1 DEF NeedsAfter, Kinds, Readings, Actions
<1>3. Evidence(l, j)' = Evidence(l, j)
  BY <1>2 DEF Evidence, Kinds, Readings
<1>4. \A a \in Actions : AlreadyDone(l, j, a)' <=> AlreadyDone(l, j, a)
  BY <1>1, <1>3 DEF AlreadyDone, Actions
<1>5. Remaining(l, j)' = Remaining(l, j)
  <2>1. \A a \in {Steps[n] : n \in DOMAIN Steps} :
           a \in Remaining(l, j)' <=> a \in Remaining(l, j)
    BY <1>4, KindsOfSteps, ActionsAreKinds DEF Remaining
  <2> QED BY <2>1 DEF Remaining
<1>6. Read(l, j)' <=> Read(l, j)
  BY <1>2 DEF Read, Kinds, Readings
<1>7. Gone(l, j)' <=> Gone(l, j)
  BY DEF Gone, Kinds, Readings
<1> QED BY <1>2, <1>3, <1>5, <1>6, <1>7

LEMMA SameJobSameNeeds ==
    ASSUME NEW l \in Lists, NEW j \in Jobs, SameJob(l, j)
    PROVE  /\ \A k \in Kinds : Needs(l, j, k)' <=> Needs(l, j, k)
           /\ Asks(l, j)' <=> Asks(l, j)
           /\ Misbound(l, j)' <=> Misbound(l, j)
           /\ Refused(l, j)' <=> Refused(l, j)
           /\ Finished(l, j)' <=> Finished(l, j)
<1> USE SameJobSameWorks, SameJobSameEvidence
<1>1. \A a \in Actions : IsNext(l, j, a)' <=> IsNext(l, j, a)
  BY DEF IsNext
<1>2. \A a \in Actions : Due(l, j, a)' <=> Due(l, j, a)
  BY <1>1, ActionsAreKinds DEF Due
<1>3. Due(l, j, "resume")' <=> Due(l, j, "resume")
  BY <1>2 DEF Actions
<1>4. Prepared(l, j)' <=> Prepared(l, j)
  BY DEF Prepared, Kinds, Readings
<1>5. Chosen(l, j)' <=> Chosen(l, j)
  BY DEF Chosen, SameJob
<1>6. Prepared(l, j) => (SourceKept(l, j)' <=> SourceKept(l, j))
  BY DEF Prepared, SourceKept, SameJob
<1>7. \A k \in Kinds : Needs(l, j, k)' <=> Needs(l, j, k)
  <2> SUFFICES ASSUME NEW k \in Kinds PROVE Needs(l, j, k)' <=> Needs(l, j, k)
    OBVIOUS
  <2>1. CASE k = "inspect" \/ k = "after"
    BY <2>1 DEF Needs, Kinds, Readings
  <2>2. CASE k = "selection" \/ k = "prepare"
    BY <1>3, <2>2 DEF Needs, Kinds, Readings
  <2>3. CASE k = "resume"
    BY <1>3, <1>4, <1>5, <1>6, <2>3 DEF Needs
  <2>4. CASE k = "open" \/ k = "greeting"
    BY <1>2, <2>4 DEF Needs, Actions
  <2> QED BY <2>1, <2>2, <2>3, <2>4 DEF Kinds, Readings, Actions
<1>8. Asks(l, j)' <=> Asks(l, j)
  BY <1>3, <1>4, <1>5, <1>6 DEF Asks
<1>9. Misbound(l, j)' <=> Misbound(l, j)
  BY <1>3, <1>4, <1>6 DEF Misbound
<1>10. Refused(l, j)' <=> Refused(l, j)
  BY <1>1, ActionsAreKinds DEF Refused
<1>11. Finished(l, j)' <=> Finished(l, j)
  BY DEF Finished
<1> QED BY <1>7, <1>8, <1>9, <1>10, <1>11

LEMMA SameJobSamePassed ==
    ASSUME NEW l \in Lists, NEW j \in Jobs, SameJob(l, j)
    PROVE  /\ Finished(l, j)' <=> Finished(l, j)
           /\ Problem(l, j)' <=> Problem(l, j)
<1> USE SameJobSameNeeds
<1>1. Problem(l, j)' <=> Problem(l, j)
  BY DEF Problem
<1> QED BY <1>1

-----------------------------------------------------------------------------
LEMMA PassedSame ==
    ASSUME DeliveryInv, delivery.list \in Lists, NEW n \in DOMAIN Approved,
           SameJob(delivery.list, Approved[n]), UNCHANGED review
    PROVE  Passed(n)' <=> Passed(n)
<1>1. PICK l \in Lists, j \in Jobs : l = delivery.list /\ j = Approved[n]
  BY DEF DeliveryInv, Types, Approved
<1>2. delivery'.list = l /\ delivery'.stop = delivery.stop /\ Approved'[n] = j
  BY <1>1 DEF SameJob, Source, Approved
<1>3. SameJob(l, j)
  BY <1>1
<1>4. (Finished(l, j)' <=> Finished(l, j)) /\ (Problem(l, j)' <=> Problem(l, j))
  BY <1>3, SameJobSamePassed
<1>5. Passed(n) <=> Finished(l, j) \/ (Problem(l, j) /\ ~delivery.stop)
  BY <1>1 DEF Passed
<1>6. Passed(n)' <=> Finished(l, j)' \/ (Problem(l, j)' /\ ~delivery'.stop)
  BY <1>2 DEF Passed
<1> QED BY <1>2, <1>4, <1>5, <1>6

LEMMA OrderInvInit == Init => OrderInv
<1> SUFFICES ASSUME Init PROVE OrderInv
  OBVIOUS
<1>1. Evidenced
  BY DEF Init, Evidenced, Outcomes, Sights, Nothing
<1>2. \A k \in Keys : wstate[k] = "absent"
  BY DEF Init
<1>3. OneOpen /\ Ours /\ InOrder
  BY <1>2 DEF OneOpen, Ours, InOrder, Open
<1>4. InspectFirst /\ PreparedKnown
  BY <1>2, KeyMade DEF InspectFirst, PreparedKnown, Exists, Kinds, Readings
<1>5. Distinct
  BY DEF Init, Distinct
<1> QED BY <1>1, <1>3, <1>4, <1>5 DEF OrderInv

LEMMA SameLedger ==
    ASSUME OrderInv, UNCHANGED <<ledger, preparedFor>>
    PROVE  Evidenced' /\ OneOpen' /\ InspectFirst' /\ PreparedKnown'
BY DEF OrderInv, ledger, Evidenced, OneOpen, Open, InspectFirst, PreparedKnown, Exists,
       Succeeded, Closed

\* Nothing is open: what stands about open works cannot be disturbed.
LEMMA NothingOpen ==
    ASSUME OrderInv, ~SomeOpen, UNCHANGED <<ledger, preparedFor>>, Distinct'
    PROVE  OrderInv'
<1>1. Ours' /\ InOrder'
  BY DEF SomeOpen, Open, Ours, InOrder, ledger
<1> QED BY <1>1, SameLedger DEF OrderInv

\* What the decisions rest on is the same.
LEMMA SameGround ==
    ASSUME DeliveryInv, OrderInv, UNCHANGED <<ledger, preparedFor, review, shown, answered>>,
           Source' = Source
    PROVE  OrderInv'
<1>1. Ours'
  BY DEF OrderInv, Ours, Open, ledger, Source
<1>2. InOrder'
  <2> SUFFICES ASSUME NEW k \in Keys, wstate[k] = "ready", review.auth = k[1]
               PROVE  \E n \in InBatch' : /\ Approved'[n] = k[2]
                                          /\ \A m \in 1..(n - 1) : Passed(m)'
    BY DEF InOrder, ledger
  <2>1. delivery.list \in Lists
    BY KeyParts DEF OrderInv, Ours, Open
  <2>2. PICK n \in InBatch : Approved[n] = k[2] /\ \A m \in 1..(n - 1) : Passed(m)
    BY DEF OrderInv, InOrder
  <2>3. InBatch' = InBatch /\ Approved' = Approved
    BY DEF InBatch, Approved, Source
  <2>4. ASSUME NEW m \in 1..(n - 1) PROVE Passed(m)'
    <3>1. m \in DOMAIN Approved
      BY DEF InBatch, DeliveryInv, Types, Approved
    <3>2. SameJob(delivery.list, Approved[m])
      BY DEF SameJob, ledger
    <3> QED BY <2>1, <2>2, <3>1, <3>2, PassedSame
  <2> QED BY <2>2, <2>3, <2>4
<1>3. Distinct'
  BY DEF OrderInv, Distinct
<1> QED BY <1>1, <1>2, <1>3, SameLedger DEF OrderInv

\* An open work moves on: it was the only one, so none is ready any more.
LEMMA OpenMovesOn ==
    ASSUME DeliveryInv, OrderInv, NEW k \in Keys, Open(k), NEW v \in {"issued", "closed"},
           wstate' = [wstate EXCEPT ![k] = v],
           UNCHANGED <<review, shown, delivery, preparedFor>>,
           Evidenced',
           \A m \in Keys \ {k} : outcome'[m] = outcome[m]
    PROVE  OrderInv'
<1>1. \A m \in Keys \ {k} : wstate'[m] = wstate[m]
  BY DEF DeliveryInv, Types
<1>2. wstate'[k] = v
  BY DEF DeliveryInv, Types
<1>3. \A m \in Keys \ {k} : ~(Open(m)')
  BY <1>1 DEF OrderInv, OneOpen, Open
<1>4. OneOpen' /\ Ours'
  BY <1>3 DEF OrderInv, OneOpen, Ours, Open
<1>5. InspectFirst'
  <2> SUFFICES ASSUME NEW l \in Lists, NEW j \in Jobs, NEW a \in Kinds,
                      Exists(l, j, a)', a # "inspect"
               PROVE  Succeeded(l, j, "inspect")'
    BY DEF InspectFirst
  <2>1. Exists(l, j, a)
    BY <1>1, KeyMade DEF Exists, Open
  <2>2. Succeeded(l, j, "inspect")
    BY <2>1 DEF OrderInv, InspectFirst
  <2>3. <<l, j, "inspect">> \in Keys \ {k}
    BY <2>2, KeyMade DEF Succeeded, Closed, Open, Kinds, Readings
  <2> QED BY <1>1, <2>2, <2>3 DEF Succeeded, Closed
<1>6. PreparedKnown'
  <2>1. \A l \in Lists, j \in Jobs : Exists(l, j, "prepare")' => Exists(l, j, "prepare")
    BY <1>1, KeyMade DEF Exists, Open, Kinds, Readings
  <2> QED BY <2>1 DEF OrderInv, PreparedKnown
<1>7. Distinct'
  BY DEF OrderInv, Distinct
<1>8. InOrder'
  BY <1>2, <1>3 DEF InOrder, Open
<1> QED BY <1>4, <1>5, <1>6, <1>7, <1>8 DEF OrderInv

LEMMA BeginOrder ==
    ASSUME DeliveryInv, OrderInv, NEW k \in Keys, Begin(k)
    PROVE  OrderInv'
<1>1. /\ Open(k) /\ wstate' = [wstate EXCEPT ![k] = "issued"]
      /\ UNCHANGED <<review, shown, delivery, preparedFor, outcome, seen>>
  BY DEF Begin, Open, lists
<1>2. Evidenced'
  BY <1>1 DEF OrderInv, Evidenced
<1> QED BY <1>1, <1>2, OpenMovesOn

LEMMA EvidentIsSight == ASSUME NEW k \in Keys PROVE Evident(k) \subseteq Sights
<1>1. k[3] \in Kinds
  BY KeyParts
<1> QED BY <1>1 DEF Evident, Kinds, Readings, Actions

LEMMA SubmitOrder ==
    ASSUME DeliveryInv, OrderInv, NEW k \in Keys, NEW r \in Reports(k), Submit(k, r)
    PROVE  OrderInv'
<1>1. /\ Open(k) /\ wstate' = [wstate EXCEPT ![k] = "closed"]
      /\ UNCHANGED <<review, shown, delivery, preparedFor>>
      /\ outcome' = [outcome EXCEPT ![k] = r.outcome] /\ seen' = [seen EXCEPT ![k] = r.sight]
  BY DEF Submit, Open, lists
<1>2. r.outcome \in Outcomes /\ r.sight \in Sights
  <2>1. CASE r \in [outcome: {"success"}, sight: Evident(k)]
    BY <2>1, EvidentIsSight DEF Outcomes
  <2>2. CASE r \in [outcome: {"unresolved", "unavailable"}, sight: {Nothing}]
    <3>1. Nothing \in Sights
      BY DEF Nothing, Sights
    <3> QED BY <2>2, <3>1 DEF Outcomes
  <2> QED BY <2>1, <2>2 DEF Reports
<1>3. Evidenced'
  BY <1>1, <1>2 DEF OrderInv, Evidenced
<1>4. \A m \in Keys \ {k} : outcome'[m] = outcome[m]
  BY <1>1 DEF OrderInv, Evidenced
<1> QED BY <1>1, <1>3, <1>4, OpenMovesOn

LEMMA CancelOrder ==
    ASSUME DeliveryInv, OrderInv, NEW k \in Keys, Cancel(k)
    PROVE  OrderInv'
<1>1. UNCHANGED <<review, shown, delivery, preparedFor, seen, answered>>
  BY DEF Cancel, lists, choices
<1>2. CASE UNCHANGED <<wstate, outcome>>
  BY <1>1, <1>2, SameGround DEF ledger, Source
<1>3. CASE /\ Open(k) /\ wstate' = [wstate EXCEPT ![k] = "closed"]
           /\ outcome' = [outcome EXCEPT ![k] = "cancelled"]
  <2>1. Evidenced'
    BY <1>1, <1>3 DEF OrderInv, Evidenced, Outcomes
  <2>2. \A m \in Keys \ {k} : outcome'[m] = outcome[m]
    BY <1>3 DEF OrderInv, Evidenced
  <2> QED BY <1>1, <1>3, <2>1, <2>2, OpenMovesOn
<1> QED BY <1>2, <1>3 DEF Cancel, Open

\* The steps of the user, each taken when nothing is open or with the same source.
LEMMA UserOrder ==
    ASSUME DeliveryInv, OrderInv,
           \/ \E c \in Candidates : ShowList(c)
           \/ Confirm \/ ConfirmAgain
           \/ \E n \in 1..Batch, stop \in BOOLEAN : Start(n, stop)
           \/ \E s \in DOMAIN followups : AnswerFollowup(s)
           \/ \E l \in Lists, j \in Jobs : AnswerChoice(l, j)
           \/ Skip
    PROVE  OrderInv'
<1>1. ASSUME NEW c \in Candidates, ShowList(c) PROVE OrderInv'
  <2>1. /\ UNCHANGED <<ledger, preparedFor, delivery, shown>>
        /\ review' = [jobs |-> c, auth |-> 0]
    BY <1>1 DEF ShowList
  <2>2. Ours'
    BY <2>1 DEF OrderInv, Ours, Open, ledger
  <2>3. InOrder'
    BY <2>1, KeyParts, ListsAreNumbers DEF InOrder
  <2>4. Distinct'
    BY <2>1 DEF Distinct
  <2> QED BY <2>1, <2>2, <2>3, <2>4, SameLedger DEF OrderInv
<1>2. CASE Confirm
  <2>1. ~SomeOpen /\ UNCHANGED <<ledger, preparedFor>> /\ review'.jobs = review.jobs
    BY <1>2 DEF Confirm, DeliveryInv, Types
  <2> QED BY <2>1, NothingOpen DEF OrderInv, Distinct
<1>3. CASE ConfirmAgain \/ Skip
  BY <1>3, NothingOpen DEF ConfirmAgain, Skip, lists, OrderInv, Distinct
<1>4. ASSUME NEW n \in 1..Batch, NEW stop \in BOOLEAN, Start(n, stop) PROVE OrderInv'
  <2>1. /\ UNCHANGED <<ledger, preparedFor, review, shown, answered>>
        /\ \/ delivery = NoDelivery \/ ~SomeOpen
           \/ delivery = [list |-> review.auth, limit |-> n, stop |-> stop, cancelled |-> FALSE]
        /\ delivery' = [list |-> review.auth, limit |-> n, stop |-> stop, cancelled |-> FALSE]
    BY <1>4 DEF Start, lists, choices
  <2>2. CASE ~SomeOpen
    BY <2>1, <2>2, NothingOpen DEF OrderInv, Distinct
  <2>3. CASE delivery = NoDelivery
    <3>1. ~SomeOpen
      BY <2>3 DEF DeliveryInv, Under, NoDelivery, SomeOpen, Open
    <3> QED BY <2>2, <3>1
  <2>4. CASE delivery = [list |-> review.auth, limit |-> n, stop |-> stop, cancelled |-> FALSE]
    <3>1. UNCHANGED delivery
      BY <2>1, <2>4
    <3> QED BY <2>1, <3>1, SameGround DEF Source
  <2> QED BY <2>1, <2>2, <2>3, <2>4
<1>5. ASSUME NEW s \in DOMAIN followups, AnswerFollowup(s) PROVE OrderInv'
  BY <1>5, NothingOpen DEF AnswerFollowup, lists, OrderInv, Distinct
<1>6. ASSUME NEW l \in Lists, NEW j \in Jobs, AnswerChoice(l, j) PROVE OrderInv'
  BY <1>6, NothingOpen DEF AnswerChoice, lists, OrderInv, Distinct
<1> QED BY <1>1, <1>2, <1>3, <1>4, <1>5, <1>6

\* The steps of a command that make no work.
LEMMA CommandOrder ==
    ASSUME DeliveryInv, OrderInv,
           \/ \E k \in Keys : BeginRefused(k) \/ Act(k)
           \/ NextWaits \/ NextContinue \/ NextAdvance \/ Continue
           \/ AdvanceStopped \/ AdvanceQuestion \/ AdvanceRefused \/ AdvancePaused \/ AdvanceEnd
           \/ SaveCancel \/ Crash \/ Audit
    PROVE  OrderInv'
<1>1. CASE AdvanceQuestion
  BY <1>1, NothingOpen DEF AdvanceQuestion, MayGoOn, lists, OrderInv, Distinct
<1>2. CASE SaveCancel
  <2>1. /\ UNCHANGED <<ledger, preparedFor, review, shown, answered>>
        /\ delivery' = [delivery EXCEPT !.cancelled = @ \/ outcome[pc.work] = "cancelled"]
    BY <1>2 DEF SaveCancel, lists, choices
  <2>2. Source' = Source
    BY <2>1 DEF DeliveryInv, Types, Source
  <2> QED BY <2>1, <2>2, SameGround
<1>3. CASE \/ \E k \in Keys : BeginRefused(k) \/ Act(k)
           \/ NextWaits \/ NextContinue \/ NextAdvance \/ Continue
           \/ AdvanceStopped \/ AdvanceRefused \/ AdvancePaused \/ AdvanceEnd
           \/ Crash \/ Audit
  <2>1. UNCHANGED <<ledger, preparedFor, review, shown, answered, delivery>>
    BY <1>3 DEF BeginRefused, Act, NextWaits, NextContinue, NextAdvance, Continue,
                AdvanceStopped, AdvanceRefused, AdvancePaused, AdvanceEnd, Crash, Audit,
                lists, choices
  <2> QED BY <2>1, SameGround DEF Source
<1> QED BY <1>1, <1>2, <1>3

\* The next work is for the job the loop has come to.
LEMMA AdvanceWorkOrder ==
    ASSUME DeliveryInv, OrderInv, AdvanceWork
    PROVE  OrderInv'
<1>1. /\ delivery.list \in Lists /\ delivery.list = review.auth /\ delivery.list = Len(shown)
      /\ ~SomeOpen
  BY CommandHasDelivery, ListsAreNumbers
     DEF AdvanceWork, MayGoOn, Authorized, Idle, DeliveryInv, Current
<1>2. PICK n \in DOMAIN Approved, kind \in Kinds :
        /\ Reached(n)
        /\ Needs(delivery.list, Approved[n], kind)
        /\ wstate[<<delivery.list, Approved[n], kind>>] = "absent"
        /\ wstate' = [wstate EXCEPT ![<<delivery.list, Approved[n], kind>>] = "ready"]
        /\ preparedFor' = IF kind = "prepare"
              THEN [p \in DOMAIN preparedFor \cup {<<delivery.list, Approved[n]>>} |->
                      IF p = <<delivery.list, Approved[n]>> THEN Source ELSE preparedFor[p]]
              ELSE preparedFor
  BY DEF AdvanceWork
<1>3. PICK l \in Lists, job \in Jobs : l = delivery.list /\ job = Approved[n]
  BY <1>1 DEF DeliveryInv, Types, Approved
<1>4. UNCHANGED <<review, shown, delivery, outcome, seen, answered>>
  BY DEF AdvanceWork, lists, choices
<1>5. <<l, job, kind>> \in Keys
  BY KeyMade
<1>6. /\ wstate'[<<l, job, kind>>] = "ready"
      /\ \A k \in Keys : k # <<l, job, kind>> => wstate'[k] = wstate[k]
  BY <1>2, <1>3, <1>5 DEF DeliveryInv, Types
<1>7. \A k \in Keys : Open(k)' => k = <<l, job, kind>>
  BY <1>1, <1>6 DEF SomeOpen, Open
<1>8. OneOpen' /\ Ours'
  BY <1>1, <1>3, <1>4, <1>7 DEF OneOpen, Ours
<1>9. Evidenced' /\ Distinct'
  BY <1>4 DEF OrderInv, Evidenced, Distinct
<1>10. \A m \in Lists, j \in Jobs, a \in Kinds : Succeeded(m, j, a) => Succeeded(m, j, a)'
  BY <1>2, <1>3, <1>4, <1>6, KeyMade DEF Succeeded, Closed
<1>11. InspectFirst'
  <2> SUFFICES ASSUME NEW m \in Lists, NEW j \in Jobs, NEW a \in Kinds,
                      Exists(m, j, a)', a # "inspect"
               PROVE  Succeeded(m, j, "inspect")'
    BY DEF InspectFirst
  <2>1. Succeeded(m, j, "inspect")
    <3>1. CASE <<m, j, a>> = <<l, job, kind>>
      <4>1. Needs(m, j, a)
        BY <1>2, <1>3, <3>1
      <4> QED BY <4>1 DEF Needs, Due, Read, Kinds, Readings, Actions
    <3>2. CASE <<m, j, a>> # <<l, job, kind>>
      BY <1>6, <3>2, KeyMade DEF Exists, OrderInv, InspectFirst
    <3> QED BY <3>1, <3>2
  <2> QED BY <1>10, <2>1 DEF Kinds, Readings
<1>12. PreparedKnown'
  <2> SUFFICES ASSUME NEW m \in Lists, NEW j \in Jobs, Exists(m, j, "prepare")'
               PROVE  <<m, j>> \in DOMAIN preparedFor'
    BY DEF PreparedKnown
  <2>1. CASE <<m, j, "prepare">> = <<l, job, kind>>
    BY <1>2, <1>3, <2>1
  <2>2. CASE <<m, j, "prepare">> # <<l, job, kind>>
    BY <1>2, <1>6, <2>2, KeyMade DEF Exists, OrderInv, PreparedKnown, Kinds, Readings
  <2> QED BY <2>1, <2>2
<1>13. ASSUME NEW m \in 1..(n - 1) PROVE Passed(m)'
  <2>1. m \in DOMAIN Approved /\ m # n /\ Passed(m)
    BY <1>2 DEF Reached, DeliveryInv, Types, Approved
  <2>2. Approved[m] # job
    <3>1. \A a, b \in DOMAIN review.jobs : review.jobs[a] = review.jobs[b] => a = b
      BY CandidatesAssumption DEF OrderInv, Distinct
    <3> QED BY <1>3, <2>1, <3>1 DEF Approved
  <2>3. PICK j \in Jobs : j = Approved[m]
    BY <2>1 DEF DeliveryInv, Types, Approved
  <2>4. \A a \in Lists, k \in Kinds : wstate'[<<a, j, k>>] = wstate[<<a, j, k>>]
    BY <1>6, <2>2, <2>3, KeyMade
  <2>5. Source' = Source
    BY <1>4 DEF Source
  <2>6. Succeeded(l, j, "prepare") => preparedFor'[<<l, j>>] = preparedFor[<<l, j>>]
    <3> SUFFICES ASSUME Succeeded(l, j, "prepare")
                 PROVE  preparedFor'[<<l, j>>] = preparedFor[<<l, j>>]
      OBVIOUS
    <3>1. <<l, j>> \in DOMAIN preparedFor
      BY DEF Succeeded, Closed, Exists, OrderInv, PreparedKnown
    <3>2. <<l, j>> # <<l, job>>
      BY <2>2, <2>3
    <3> QED BY <1>2, <1>3, <3>1, <3>2
  <2>7. SameJob(l, j)
    BY <1>4, <2>4, <2>5, <2>6 DEF SameJob
  <2> QED BY <1>1, <1>3, <1>4, <2>1, <2>3, <2>7, PassedSame
<1>14. InOrder'
  <2> SUFFICES ASSUME NEW k \in Keys, wstate'[k] = "ready"
               PROVE  \E i \in InBatch' : /\ Approved'[i] = k[2]
                                          /\ \A m \in 1..(i - 1) : Passed(m)'
    BY DEF InOrder
  <2>1. k[2] = job
    BY <1>7 DEF Open
  <2>2. n \in InBatch' /\ Approved'[n] = job
    BY <1>2, <1>3, <1>4 DEF Reached, InBatch, Approved
  <2> QED BY <1>13, <2>1, <2>2
<1> QED BY <1>8, <1>9, <1>11, <1>12, <1>14 DEF OrderInv

LEMMA OrderInvStep == DeliveryInv /\ OrderInv /\ [Next]_vars => OrderInv'
<1> SUFFICES ASSUME DeliveryInv, OrderInv, [Next]_vars
             PROVE  OrderInv'
  OBVIOUS
<1>1. CASE UNCHANGED vars
  BY <1>1, SameGround DEF vars, Source, ledger, choices, lists
<1>2. CASE Users
  BY <1>2, UserOrder, CancelOrder DEF Users
<1>3. CASE Machine
  BY <1>3, CommandOrder, AdvanceWorkOrder DEF Machine, Advance
<1>4. CASE Crash
  BY <1>4, CommandOrder
<1>5. ASSUME NEW k \in Keys, Host(k)
      PROVE  OrderInv'
  BY <1>5, CommandOrder, BeginOrder, SubmitOrder DEF Host
<1> QED BY <1>1, <1>2, <1>3, <1>4, <1>5 DEF Next

LEMMA OrderInvariant == Spec => []OrderInv
BY OrderInvInit, OrderInvStep, DeliveryInvariant, PTL DEF Spec

\* Between the making of a work and its permission nothing has changed the order.
THEOREM PermissionsInOrder == Spec => PermittedInOrder
<1> DEFINE A == \A k \in Keys : Permits(k) =>
                  /\ delivery.list = k[1]
                  /\ \E n \in InBatch : /\ Approved[n] = k[2]
                                        /\ \A m \in 1..(n - 1) : Passed(m)
<1>1. ASSUME DeliveryInv, OrderInv, [Next]_vars PROVE A
  <2> SUFFICES ASSUME NEW k \in Keys, Permits(k)
               PROVE  /\ delivery.list = k[1]
                      /\ \E n \in InBatch : /\ Approved[n] = k[2]
                                            /\ \A m \in 1..(n - 1) : Passed(m)
    OBVIOUS
  <2>1. wstate[k] = "ready" /\ wstate'[k] = "issued"
    BY DEF Permits
  <2>2. PICK b \in Keys : Begin(b)
    <3>1. wstate' # wstate
      BY <2>1
    <3>2. \A b \in Keys : ~(wstate' = [wstate EXCEPT ![b] = "closed"])
      BY <1>1, <2>1 DEF DeliveryInv, Types
    <3>3. \A b : ~(wstate' = [wstate EXCEPT ![b] = "ready"])
      BY <1>1, <2>1 DEF DeliveryInv, Types
    <3>4. /\ \A b \in Keys : ~Cancel(b)
          /\ \A b \in Keys : \A r \in Reports(b) : ~Submit(b, r)
          /\ ~AdvanceWork
      BY <3>1, <3>2, <3>3 DEF Cancel, Submit, AdvanceWork
    <3>5. CASE Users
      BY <3>1, <3>4, <3>5
         DEF Users, ShowList, Confirm, ConfirmAgain, Start, AnswerFollowup, AnswerChoice, Skip, ledger
    <3>6. CASE Machine \/ Crash
      BY <3>1, <3>4, <3>6
         DEF Machine, NextWaits, NextContinue, NextAdvance, Continue, Advance, AdvanceStopped,
             AdvanceQuestion, AdvanceRefused, AdvancePaused, AdvanceEnd, SaveCancel, Audit,
             Crash, ledger
    <3>7. ASSUME NEW b \in Keys, Host(b) PROVE \E c \in Keys : Begin(c)
      BY <3>1, <3>4, <3>7 DEF Host, BeginRefused, Act, ledger
    <3> QED BY <1>1, <3>1, <3>5, <3>6, <3>7 DEF Next, vars
  <2>3. k = b
    BY <2>1, <2>2 DEF Begin, DeliveryInv, Types
  <2> QED BY <2>1, <2>2, <2>3, <1>1 DEF Begin, Authorized, OrderInv, InOrder, Ours, Open
<1> QED BY <1>1, DeliveryInvariant, OrderInvariant, PTL DEF Spec, PermittedInOrder
-----------------------------------------------------------------------------
\* A job the loop goes past was looked at.
LEMMA PassedWasVisited ==
    ASSUME DeliveryInv, OrderInv, delivery.list \in Lists, NEW n \in DOMAIN Approved, Passed(n)
    PROVE  Closed(delivery.list, Approved[n], "inspect")
<1>1. PICK l \in Lists, j \in Jobs : l = delivery.list /\ j = Approved[n]
  BY DEF DeliveryInv, Types, Approved
<1>2. CASE Gone(l, j)
  <2>1. PICK k \in {"inspect", "after"} : Closed(l, j, k)
    BY <1>2 DEF Gone
  <2>2. k = "inspect" \/ Succeeded(l, j, "inspect")
    BY <2>1 DEF OrderInv, InspectFirst, Exists, Closed, Kinds, Readings
  <2> QED BY <1>1, <2>1, <2>2 DEF Succeeded
<1>3. CASE Read(l, j)
  BY <1>1, <1>3 DEF Read, Succeeded
<1>4. CASE Problem(l, j)
  <2>1. ~Needs(l, j, "inspect")
    BY <1>4 DEF Problem, Kinds, Readings
  <2> QED BY <1>1, <2>1 DEF Needs
<1> QED BY <1>1, <1>2, <1>3, <1>4 DEF Passed, Finished

\* All works are of this list: when the totals are those of the list, each of
\* its jobs has a work, and it is closed.
LEMMA TotalsCountTheList ==
    ASSUME DeliveryInv, OrderInv, delivery.list \in Lists, Authorized(delivery.list),
           \A k \in Keys : wstate[k] # "absent" => k[1] = delivery.list,
           Cardinality(AuditJobs) = Len(Approved), AuditPending = {},
           NEW n \in DOMAIN Approved
    PROVE  Closed(delivery.list, Approved[n], "inspect")
<1> DEFINE Named == {Approved[i] : i \in 1..Len(Approved)}
<1>1. Len(Approved) \in Nat /\ DOMAIN Approved = 1..Len(Approved)
  BY DEF DeliveryInv, Types, Approved
<1>2. IsFiniteSet(1..Len(Approved)) /\ Cardinality(1..Len(Approved)) = Len(Approved)
  <2>1. 1 \in Int /\ Len(Approved) \in Int
    BY <1>1
  <2>2. IsFiniteSet(1..Len(Approved)) /\ Cardinality(1..Len(Approved)) =
          IF 1 > Len(Approved) THEN 0 ELSE Len(Approved) - 1 + 1
    BY <2>1, FS_Interval
  <2> QED BY <1>1, <2>2
<1>3. IsFiniteSet(Named) /\ Cardinality(Named) <= Len(Approved)
  <2>1. Approved \in Surjection(1..Len(Approved), Named)
    BY <1>1 DEF Surjection, DeliveryInv, Types, Approved
  <2> HIDE DEF Named
  <2> QED BY <1>2, <2>1, FS_Surjection
<1>4. AuditJobs \subseteq Named
  <2> SUFFICES ASSUME NEW j \in Jobs, NEW l \in Lists, NEW k \in Kinds, Exists(l, j, k)
               PROVE  j \in Named
    BY DEF AuditJobs
  <2>1. wstate[<<l, j, k>>] # "absent" /\ <<l, j, k>> \in Keys
    BY KeyMade DEF Exists
  <2>2. l = delivery.list /\ \E i \in DOMAIN shown[l] : shown[l][i] = j
    BY <2>1 DEF DeliveryInv, Placed
  <2>3. shown[l] = Approved
    BY <2>2, ListsAreNumbers DEF DeliveryInv, Current, Authorized, Approved
  <2> QED BY <1>1, <2>2, <2>3
<1>5. AuditJobs = Named
  <2> HIDE DEF Named
  <2>1. IsFiniteSet(AuditJobs) /\ Cardinality(AuditJobs) <= Cardinality(Named)
        /\ (Cardinality(Named) = Cardinality(AuditJobs) => Named = AuditJobs)
    BY <1>3, <1>4, FS_Subset
  <2>2. Cardinality(Named) \in Nat /\ Cardinality(AuditJobs) \in Nat
    BY <1>3, <2>1, FS_CardinalityType
  <2> QED BY <1>1, <1>3, <2>1, <2>2
<1>6. Approved[n] \in AuditJobs
  BY <1>1, <1>5
<1>7. PICK l \in Lists, j \in Jobs, k \in Kinds :
        l = delivery.list /\ j = Approved[n] /\ Exists(l, j, k)
  BY <1>6, KeyMade DEF AuditJobs, Exists
<1>8. ~Open(<<l, j, k>>)
  BY <1>6, <1>7 DEF AuditPending
<1>9. Closed(l, j, k)
  BY <1>7, <1>8, KeyMade DEF DeliveryInv, Types, Exists, Open, Closed
<1> QED BY <1>7, <1>9 DEF OrderInv, InspectFirst, Succeeded

\* "sent" is claimed at the end of the list, or when the totals of the round say
\* that nothing is left: then each job was looked at, if no other list has works.
THEOREM SentWasVisited == Spec => SentMeansVisited
<1> DEFINE A == status' = "sent" /\ status # "sent" =>
                  \/ \A n \in DOMAIN Approved : Closed(delivery.list, Approved[n], "inspect")
                  \/ \E k \in Keys : k[1] # delivery.list /\ wstate[k] # "absent"
<1>1. ASSUME DeliveryInv, OrderInv, [Next]_vars PROVE A
  <2> SUFFICES ASSUME status' = "sent", status # "sent",
                      \A k \in Keys : wstate[k] # "absent" => k[1] = delivery.list,
                      NEW n \in DOMAIN Approved
               PROVE  Closed(delivery.list, Approved[n], "inspect")
    OBVIOUS
  <2>1. AdvancePaused \/ AdvanceEnd
    <3>1. CASE Users
      BY <3>1 DEF Users, ShowList, Confirm, ConfirmAgain, Start, AnswerFollowup, AnswerChoice,
                  Cancel, Skip
    <3>2. CASE Machine \/ Crash
      BY <3>2 DEF Machine, NextWaits, NextContinue, NextAdvance, Continue, Advance,
                  AdvanceStopped, AdvanceWork, AdvanceQuestion, AdvanceRefused, SaveCancel, Audit,
                  Crash
    <3>3. ASSUME NEW b \in Keys, Host(b) PROVE FALSE
      BY <3>3 DEF Host, Begin, BeginRefused, Act, Submit
    <3> QED BY <1>1, <3>1, <3>2, <3>3 DEF Next, vars
  <2>2. delivery.list \in Lists /\ Authorized(delivery.list)
    BY <1>1, <2>1, CommandHasDelivery DEF AdvancePaused, AdvanceEnd, MayGoOn, Idle
  <2>3. CASE AdvancePaused
    <3>1. Cardinality(AuditJobs) = Len(Approved) /\ AuditPending = {}
      BY <2>3 DEF AdvancePaused
    <3> QED BY <1>1, <2>2, <3>1, TotalsCountTheList
  <2>4. CASE AdvanceEnd
    <3>1. ~(delivery.limit < Len(Approved)) /\ \A m \in InBatch : Passed(m)
      BY <2>4 DEF AdvanceEnd
    <3>2. n \in InBatch
      BY <1>1, <3>1 DEF InBatch, DeliveryInv, Types, Approved
    <3> QED BY <1>1, <2>2, <3>1, <3>2, PassedWasVisited
  <2> QED BY <2>1, <2>3, <2>4
<1> QED BY <1>1, DeliveryInvariant, OrderInvariant, PTL DEF Spec, SentMeansVisited
-----------------------------------------------------------------------------
(* What the works know of the platform.                                      *)

\* The works that only read.
Looks == {"inspect", "after", "selection"}
\* The platforms whose conversation is opened by a work of its own.
Talks == Platform \in {"boss", "liepin"}

\* What the platform holds of a job.
WorldTyped == world \in [Jobs -> Sights]

\* These readings are only accepted with the conversation open.
Sees ==
    \A l \in Lists, j \in Jobs :
        /\ Succeeded(l, j, "open") => seen[<<l, j, "open">>].chat
        /\ Platform = "liepin" /\ Succeeded(l, j, "selection") => seen[<<l, j, "selection">>].chat

\* Boss sends no resume with a work of its own.
NoResume ==
    Platform = "boss" =>
        \A l \in Lists, j \in Jobs, k \in {"selection", "prepare", "resume"} : ~Exists(l, j, k)

\* A greeting is only made after the open conversation was read; on Boss that
\* reading is what decides about it.
ReadFirst ==
    \A l \in Lists, j \in Jobs : Exists(l, j, "greeting") =>
        /\ Succeeded(l, j, "after")
        /\ Platform = "boss" => ~seen[<<l, j, "after">>].greeting

\* A greeting the conversation shows is on the platform.
TrueGreeting ==
    \A l \in Lists, j \in Jobs :
        Succeeded(l, j, "after") /\ seen[<<l, j, "after">>].greeting => world[j].greeting

ReadInv == WorldTyped /\ Sees /\ NoResume /\ ReadFirst /\ TrueGreeting

\* What is on the platform and a reading does not show was done after it, under
\* a work of its own, or with the opening of the conversation on Liepin.
Known ==
    \A l \in Lists, j \in Jobs, k \in Looks : Succeeded(l, j, k) =>
        /\ world[j].chat /\ ~seen[<<l, j, k>>].chat => \E m \in Lists : Exists(m, j, "open")
        /\ world[j].greeting /\ ~seen[<<l, j, k>>].greeting =>
              \E m \in Lists : Exists(m, j, "greeting")
        /\ world[j].resume /\ ~seen[<<l, j, k>>].resume =>
              \/ \E m \in Lists : Exists(m, j, "resume")
              \/ Platform = "liepin" /\ k = "inspect" /\ Exists(l, j, "open")
              \/ Platform = "liepin" /\ l # Len(shown)

\* What comes after the opening of the conversation, in the order of the works.
Later == Kinds \ {"inspect", "open"}

\* Where a conversation is opened by a work of its own, later works wait for it.
OpenDone ==
    Talks => \A l \in Lists, j \in Jobs, k \in Later :
        Exists(l, j, k) => Chat(l, j) \/ seen[<<l, j, "inspect">>].greeting

\* While the opening is open, the job has no later work.
OpenEarly ==
    \A l \in Lists, j \in Jobs, k \in Later : Open(<<l, j, "open">>) => ~Exists(l, j, k)

\* A conversation is only opened for a greeting that was not there at first.
OpenNeeded ==
    \A l \in Lists, j \in Jobs :
        Exists(l, j, "open") => Talks /\ ~seen[<<l, j, "inspect">>].greeting

\* What a ready work would do has not been done.
ReadyIsNew ==
    \A l \in Lists, j \in Jobs, a \in Actions :
        wstate[<<l, j, a>>] = "ready" => ~OnThePlatform(j, a)

WorldInv == Known /\ OpenDone /\ OpenEarly /\ OpenNeeded /\ ReadyIsNew

LEMMA NamesOfKinds ==
    /\ Looks \subseteq Kinds /\ Later \subseteq Kinds
    /\ "inspect" \in Kinds /\ "open" \in Kinds /\ "greeting" \in Kinds /\ "resume" \in Kinds
    /\ "after" \in Kinds /\ "selection" \in Kinds /\ "prepare" \in Kinds
    /\ "open" \in Actions /\ "greeting" \in Actions /\ "resume" \in Actions
    /\ \A k \in Later : k # "inspect" /\ k # "open"
    /\ Kinds = Later \cup {"inspect", "open"}
    /\ Later = {"after", "selection", "prepare", "resume", "greeting"}
BY DEF Looks, Later, Kinds, Readings, Actions

-----------------------------------------------------------------------------
(* What a step does to the works and to the platform.                        *)

\* An open work moves on; what is reported of it is evidence that is accepted.
MovesOn(k) ==
    /\ Open(k)
    /\ UNCHANGED <<shown, world>>
    /\ \E v \in {"issued", "closed"} : wstate' = [wstate EXCEPT ![k] = v]
    /\ \A m \in Keys \ {k} : outcome'[m] = outcome[m] /\ seen'[m] = seen[m]
    /\ wstate'[k] = "closed" /\ outcome'[k] = "success" => seen'[k] \in Evident(k)

\* A job gets the next work it needs, while nothing else is open.
NewWork(l, j, k) ==
    /\ Needs(l, j, k) /\ ~Exists(l, j, k)
    /\ l = Len(shown)
    /\ UNCHANGED <<shown, outcome, seen, world>>
    /\ \A m \in Lists, i \in Jobs, a \in Kinds :
          /\ Succeeded(m, i, a)' <=> Succeeded(m, i, a)
          /\ Exists(m, i, a) => Exists(m, i, a)'
          /\ Exists(m, i, a)' => Exists(m, i, a) \/ (m = l /\ i = j /\ a = k)
          /\ Open(<<m, i, a>>)' => m = l /\ i = j /\ a = k

LEMMA HostMovesOn ==
    ASSUME DeliveryInv, OrderInv, NEW k \in Keys,
           Begin(k) \/ Cancel(k) \/ \E r \in Reports(k) : Submit(k, r)
    PROVE  MovesOn(k) \/ UNCHANGED <<ledger, world, shown>>
<1>1. UNCHANGED <<shown, world>>
  BY DEF Begin, Cancel, Submit, lists, outside
<1>2. CASE Begin(k)
  <2>1. Open(k) /\ wstate' = [wstate EXCEPT ![k] = "issued"] /\ UNCHANGED <<outcome, seen>>
    BY <1>2 DEF Begin, Open
  <2>2. wstate'[k] # "closed"
    BY <2>1 DEF DeliveryInv, Types
  <2> QED BY <1>1, <2>1, <2>2 DEF MovesOn
<1>3. CASE Cancel(k) /\ UNCHANGED <<wstate, outcome>>
  BY <1>1, <1>3 DEF Cancel, ledger
<1>4. CASE /\ Open(k) /\ wstate' = [wstate EXCEPT ![k] = "closed"]
           /\ outcome' = [outcome EXCEPT ![k] = "cancelled"] /\ UNCHANGED seen
  <2>1. outcome'[k] # "success" /\ \A m \in Keys \ {k} : outcome'[m] = outcome[m]
    BY <1>4 DEF OrderInv, Evidenced
  <2> QED BY <1>1, <1>4, <2>1 DEF MovesOn
<1>5. ASSUME NEW r \in Reports(k), Submit(k, r) PROVE MovesOn(k)
  <2>1. /\ Open(k) /\ wstate' = [wstate EXCEPT ![k] = "closed"]
        /\ outcome' = [outcome EXCEPT ![k] = r.outcome] /\ seen' = [seen EXCEPT ![k] = r.sight]
    BY <1>5 DEF Submit, Open
  <2>2. /\ outcome'[k] = r.outcome /\ seen'[k] = r.sight
        /\ \A m \in Keys \ {k} : outcome'[m] = outcome[m] /\ seen'[m] = seen[m]
    BY <2>1 DEF OrderInv, Evidenced
  <2>3. r.outcome = "success" => r.sight \in Evident(k)
    BY DEF Reports
  <2> QED BY <1>1, <2>1, <2>2, <2>3 DEF MovesOn
<1>6. Cancel(k) => \/ Cancel(k) /\ UNCHANGED <<wstate, outcome>>
                   \/ /\ Open(k) /\ wstate' = [wstate EXCEPT ![k] = "closed"]
                      /\ outcome' = [outcome EXCEPT ![k] = "cancelled"] /\ UNCHANGED seen
  BY DEF Cancel, Open
<1> QED BY <1>2, <1>3, <1>4, <1>5, <1>6

\* What was there stays; a new success is what the evidence shows.
LEMMA MovedOnKeeps ==
    ASSUME DeliveryInv, OrderInv, NEW k \in Keys, MovesOn(k)
    PROVE  /\ \A l \in Lists, j \in Jobs, a \in Kinds :
                 /\ Exists(l, j, a)' <=> Exists(l, j, a)
                 /\ Succeeded(l, j, a) =>
                       Succeeded(l, j, a)' /\ seen'[<<l, j, a>>] = seen[<<l, j, a>>]
                 /\ Succeeded(l, j, a)' =>
                       Succeeded(l, j, a) \/ seen'[<<l, j, a>>] \in Evident(<<l, j, a>>)
                 /\ Exists(l, j, a) /\ a # "inspect" =>
                       seen'[<<l, j, "inspect">>] = seen[<<l, j, "inspect">>]
           /\ \A m \in Keys : /\ Open(m)' => Open(m)
                              /\ wstate'[m] = "ready" => wstate[m] = "ready"
           /\ \A l \in Lists, j \in Jobs : Chat(l, j) => Chat(l, j)'
<1>1. PICK v \in {"issued", "closed"} : wstate' = [wstate EXCEPT ![k] = v]
  BY DEF MovesOn
<1>2. wstate'[k] = v /\ \A m \in Keys \ {k} : wstate'[m] = wstate[m]
  BY <1>1 DEF DeliveryInv, Types
<1>3. \A l \in Lists, j \in Jobs, a \in Kinds : Exists(l, j, a)' <=> Exists(l, j, a)
  BY <1>2, KeyMade DEF Exists, Open, MovesOn
<1>4. \A l \in Lists, j \in Jobs, a \in Kinds :
         Succeeded(l, j, a) => Succeeded(l, j, a)' /\ seen'[<<l, j, a>>] = seen[<<l, j, a>>]
  BY <1>2, KeyMade DEF Succeeded, Closed, Open, MovesOn
<1>5. ASSUME NEW l \in Lists, NEW j \in Jobs, NEW a \in Kinds,
             Succeeded(l, j, a)', ~Succeeded(l, j, a)
      PROVE  seen'[<<l, j, a>>] \in Evident(<<l, j, a>>)
  <2>1. <<l, j, a>> = k
    BY <1>2, <1>5, KeyMade DEF Succeeded, Closed, MovesOn
  <2> QED BY <1>5, <2>1 DEF Succeeded, Closed, MovesOn
<1>6. \A m \in Keys : /\ Open(m)' => Open(m)
                      /\ wstate'[m] = "ready" => wstate[m] = "ready"
  BY <1>2 DEF Open, MovesOn
<1>7. \A l \in Lists, j \in Jobs : Chat(l, j) => Chat(l, j)'
  BY <1>4 DEF Chat
<1>8. \A l \in Lists, j \in Jobs, a \in Kinds : Exists(l, j, a) /\ a # "inspect" =>
         seen'[<<l, j, "inspect">>] = seen[<<l, j, "inspect">>]
  BY <1>4, NamesOfKinds DEF OrderInv, InspectFirst
<1> QED BY <1>3, <1>4, <1>5, <1>6, <1>7, <1>8

LEMMA AdvanceMakesWork ==
    ASSUME DeliveryInv, OrderInv, AdvanceWork
    PROVE  \E l \in Lists, j \in Jobs, k \in Kinds : NewWork(l, j, k)
<1>1. /\ delivery.list \in Lists /\ delivery.list = Len(shown) /\ ~SomeOpen
  BY CommandHasDelivery, ListsAreNumbers
     DEF AdvanceWork, MayGoOn, Authorized, Idle, DeliveryInv, Current
<1>2. PICK n \in DOMAIN Approved, kind \in Kinds :
        /\ Needs(delivery.list, Approved[n], kind)
        /\ wstate[<<delivery.list, Approved[n], kind>>] = "absent"
        /\ wstate' = [wstate EXCEPT ![<<delivery.list, Approved[n], kind>>] = "ready"]
  BY DEF AdvanceWork
<1>3. PICK l \in Lists, job \in Jobs : l = delivery.list /\ job = Approved[n]
  BY <1>1 DEF DeliveryInv, Types, Approved
<1>4. UNCHANGED <<shown, outcome, seen, world>>
  BY DEF AdvanceWork, lists, outside
<1>5. /\ Needs(l, job, kind) /\ ~Exists(l, job, kind) /\ l = Len(shown)
      /\ wstate'[<<l, job, kind>>] = "ready"
      /\ \A k \in Keys : k # <<l, job, kind>> => wstate'[k] = wstate[k]
  BY <1>1, <1>2, <1>3, KeyMade DEF DeliveryInv, Types, Exists
<1>6. ASSUME NEW m \in Lists, NEW j \in Jobs, NEW a \in Kinds
      PROVE  /\ Succeeded(m, j, a)' <=> Succeeded(m, j, a)
             /\ Exists(m, j, a) => Exists(m, j, a)'
             /\ Exists(m, j, a)' => Exists(m, j, a) \/ (m = l /\ j = job /\ a = kind)
             /\ Open(<<m, j, a>>)' => m = l /\ j = job /\ a = kind
  <2>1. <<m, j, a>> \in Keys
    BY KeyMade
  <2>2. CASE <<m, j, a>> = <<l, job, kind>>
    BY <1>5, <2>2 DEF Succeeded, Closed, Exists
  <2>3. CASE <<m, j, a>> # <<l, job, kind>>
    BY <1>1, <1>4, <1>5, <2>1, <2>3 DEF Succeeded, Closed, Exists, Open, SomeOpen
  <2> QED BY <2>2, <2>3
<1>7. NewWork(l, job, kind)
  BY <1>4, <1>5, <1>6 DEF NewWork
<1> QED BY <1>7

LEMMA StepsOfWorks ==
    ASSUME DeliveryInv, OrderInv, [Next]_vars
    PROVE  \/ UNCHANGED <<ledger, world, shown>>
           \/ Confirm
           \/ \E k \in Keys : MovesOn(k) \/ Act(k)
           \/ \E l \in Lists, j \in Jobs, k \in Kinds : NewWork(l, j, k)
<1>1. CASE Users
  <2>1. \/ UNCHANGED <<ledger, world, shown>>
        \/ Confirm \/ \E k \in Keys : Cancel(k)
    BY <1>1 DEF Users, ShowList, ConfirmAgain, Start, AnswerFollowup, AnswerChoice, Skip,
                lists, outside
  <2> QED BY <2>1, HostMovesOn
<1>2. CASE Machine \/ Crash
  <2>1. UNCHANGED <<ledger, world, shown>> \/ AdvanceWork
    BY <1>2 DEF Machine, NextWaits, NextContinue, NextAdvance, Continue, Advance,
                AdvanceStopped, AdvanceQuestion, AdvanceRefused, AdvancePaused, AdvanceEnd,
                SaveCancel, Audit, Crash, lists, outside
  <2> QED BY <2>1, AdvanceMakesWork
<1>3. ASSUME NEW k \in Keys, Host(k)
      PROVE  UNCHANGED <<ledger, world, shown>> \/ MovesOn(k) \/ Act(k)
  <2>1. BeginRefused(k) => UNCHANGED <<ledger, world, shown>>
    BY DEF BeginRefused, lists, outside
  <2> QED BY <1>3, <2>1, HostMovesOn DEF Host
<1>4. CASE UNCHANGED vars
  BY <1>4 DEF vars, ledger
<1> QED BY <1>1, <1>2, <1>3, <1>4 DEF Next

-----------------------------------------------------------------------------
(* What was read before something is sent.                                   *)

LEMMA ReadInvInit == Init => ReadInv
<1> SUFFICES ASSUME Init PROVE ReadInv
  OBVIOUS
<1>1. \A l \in Lists, j \in Jobs, k \in Kinds : wstate[<<l, j, k>>] = "absent"
  BY KeyMade DEF Init
<1>2. WorldTyped
  <2>1. Nothing \in Sights /\ AppliedByHand \in Sights
    BY DEF Nothing, AppliedByHand, Sights
  <2> QED BY <2>1 DEF Init, WorldTyped
<1>3. \A l \in Lists, j \in Jobs, k \in Kinds : ~Exists(l, j, k) /\ ~Succeeded(l, j, k)
  BY <1>1 DEF Exists, Succeeded, Closed
<1>4. Sees /\ TrueGreeting
  BY <1>3, NamesOfKinds DEF Sees, TrueGreeting
<1>5. NoResume /\ ReadFirst
  BY <1>3, NamesOfKinds DEF NoResume, ReadFirst
<1> QED BY <1>2, <1>4, <1>5 DEF ReadInv

LEMMA SameRead ==
    ASSUME ReadInv, UNCHANGED <<ledger, world>>
    PROVE  ReadInv'
<1>1. WorldTyped' /\ Sees'
  BY DEF ReadInv, WorldTyped, Sees, Succeeded, Closed, ledger
<1>2. NoResume' /\ ReadFirst'
  BY DEF ReadInv, NoResume, ReadFirst, Exists, Succeeded, Closed, ledger
<1>3. TrueGreeting'
  BY DEF ReadInv, TrueGreeting, Succeeded, Closed, ledger
<1> QED BY <1>1, <1>2, <1>3 DEF ReadInv

LEMMA ChatIsSeen ==
    ASSUME NEW l \in Lists, NEW j \in Jobs, NEW k \in Kinds, NEW s \in Evident(<<l, j, k>>),
           k = "open" \/ (Platform = "liepin" /\ k = "selection")
    PROVE  s.chat
<1>1. CASE k = "open"
  BY <1>1 DEF Evident, Nothing
<1>2. CASE Platform = "liepin" /\ k = "selection"
  BY <1>2 DEF Evident
<1> QED BY <1>1, <1>2

LEMMA GreetingIsTrue ==
    ASSUME NEW l \in Lists, NEW j \in Jobs, NEW s \in Evident(<<l, j, "after">>), s.greeting
    PROVE  world[j].greeting
<1>1. Shows(s, world[j], "greeting")
  BY DEF Evident
<1> QED BY <1>1 DEF Shows

LEMMA MovesOnRead ==
    ASSUME DeliveryInv, OrderInv, ReadInv, NEW k \in Keys, MovesOn(k)
    PROVE  ReadInv'
<1>1. UNCHANGED world
  BY DEF MovesOn
<1>2. \A l \in Lists, j \in Jobs, a \in Kinds :
         /\ Exists(l, j, a)' <=> Exists(l, j, a)
         /\ Succeeded(l, j, a) => Succeeded(l, j, a)' /\ seen'[<<l, j, a>>] = seen[<<l, j, a>>]
         /\ Succeeded(l, j, a)' =>
               Succeeded(l, j, a) \/ seen'[<<l, j, a>>] \in Evident(<<l, j, a>>)
  BY MovedOnKeeps
<1>3. WorldTyped'
  BY <1>1 DEF ReadInv, WorldTyped
<1>4. Sees'
  <2> SUFFICES ASSUME NEW l \in Lists, NEW j \in Jobs, NEW a \in Kinds, Succeeded(l, j, a)',
                      a = "open" \/ (Platform = "liepin" /\ a = "selection")
               PROVE  seen'[<<l, j, a>>].chat
    BY NamesOfKinds DEF Sees
  <2>1. CASE Succeeded(l, j, a)
    BY <1>2, <2>1 DEF ReadInv, Sees
  <2>2. CASE ~Succeeded(l, j, a)
    BY <1>2, <2>2, ChatIsSeen
  <2> QED BY <2>1, <2>2
<1>5. NoResume'
  BY <1>2, NamesOfKinds DEF ReadInv, NoResume
<1>6. ReadFirst'
  BY <1>2, NamesOfKinds DEF ReadInv, ReadFirst
<1>7. TrueGreeting'
  <2> SUFFICES ASSUME NEW l \in Lists, NEW j \in Jobs, Succeeded(l, j, "after")',
                      seen'[<<l, j, "after">>].greeting
               PROVE  world[j].greeting
    BY <1>1 DEF TrueGreeting
  <2>1. CASE Succeeded(l, j, "after")
    BY <1>2, <2>1, NamesOfKinds DEF ReadInv, TrueGreeting
  <2>2. CASE ~Succeeded(l, j, "after")
    BY <1>2, <2>2, GreetingIsTrue, NamesOfKinds
  <2> QED BY <2>1, <2>2
<1> QED BY <1>3, <1>4, <1>5, <1>6, <1>7 DEF ReadInv

\* What one action changes on the platform.
LEMMA ActChanges ==
    ASSUME WorldTyped, NEW l \in Lists, NEW j \in Jobs, NEW a \in Actions, Act(<<l, j, a>>)
    PROVE  /\ WorldTyped'
           /\ \A i \in Jobs \ {j} : world'[i] = world[i]
           /\ world[j].greeting => world'[j].greeting
           /\ world'[j].chat => world[j].chat \/ a = "open"
           /\ world'[j].greeting => world[j].greeting \/ a = "greeting"
           /\ world'[j].resume => \/ world[j].resume \/ a = "resume"
                                  \/ a = "open" /\ Platform = "liepin"
<1>1. world[j] \in Sights
  BY DEF WorldTyped
<1>2. CASE a = "open"
  <2>1. CASE world' = [world EXCEPT ![j].chat = TRUE]
    BY <1>1, <1>2, <2>1 DEF WorldTyped, Sights
  <2>2. CASE Platform = "liepin" /\ world' = [world EXCEPT ![j].chat = TRUE, ![j].resume = TRUE]
    <3> DEFINE both == [world[j] EXCEPT !.chat = TRUE, !.resume = TRUE]
    <3>1. world' = [world EXCEPT ![j] = both]
      BY <2>2
    <3>2. both \in Sights /\ both.greeting = world[j].greeting
      BY <1>1 DEF Sights
    <3> HIDE DEF both
    <3>3. world' \in [Jobs -> Sights] /\ world'[j] = both /\ \A i \in Jobs \ {j} : world'[i] = world[i]
      BY <3>1, <3>2 DEF WorldTyped
    <3> QED BY <1>2, <2>2, <3>2, <3>3 DEF WorldTyped
  <2> QED BY <1>2, <2>1, <2>2 DEF Act
<1>3. CASE a = "resume"
  <2>1. world' = [world EXCEPT ![j].resume = TRUE]
    BY <1>3 DEF Act
  <2> QED BY <1>1, <1>3, <2>1 DEF WorldTyped, Sights
<1>4. CASE a = "greeting"
  <2>1. world' = [world EXCEPT ![j].greeting = TRUE]
    BY <1>4 DEF Act
  <2> QED BY <1>1, <1>4, <2>1 DEF WorldTyped, Sights
<1> QED BY <1>2, <1>3, <1>4 DEF Actions

LEMMA ActRead ==
    ASSUME ReadInv, NEW k \in Keys, Act(k)
    PROVE  ReadInv'
<1>1. UNCHANGED ledger /\ k[3] \in Actions
  BY DEF Act
<1>2. PICK l \in Lists, j \in Jobs, a \in Actions : k = <<l, j, a>>
  BY <1>1, KeyParts
<1>3. /\ WorldTyped'
      /\ \A i \in Jobs : world[i].greeting => world'[i].greeting
  BY <1>2, ActChanges DEF ReadInv
<1>4. Sees'
  BY <1>1 DEF ReadInv, Sees, Succeeded, Closed, ledger
<1>5. NoResume' /\ ReadFirst'
  BY <1>1 DEF ReadInv, NoResume, ReadFirst, Exists, Succeeded, Closed, ledger
<1>6. TrueGreeting'
  BY <1>1, <1>3 DEF ReadInv, TrueGreeting, Succeeded, Closed, ledger
<1> QED BY <1>3, <1>4, <1>5, <1>6 DEF ReadInv

LEMMA StepsOfPlatforms ==
    /\ \A n \in DOMAIN Steps : Steps[n] \in {"open", "greeting"} => Talks
    /\ Talks => 1 \in DOMAIN Steps /\ Steps[1] = "open"
    /\ Platform = "boss" => \A n \in DOMAIN Steps : Steps[n] # "resume"
    /\ DOMAIN Steps \subseteq Nat \ {0}
<1>1. CASE Platform = "boss"
  BY <1>1 DEF Steps, Talks
<1>2. CASE Platform = "liepin"
  BY <1>2 DEF Steps, Talks
<1>3. CASE Platform \notin {"boss", "liepin"}
  BY <1>3 DEF Steps, Talks
<1> QED BY <1>1, <1>2, <1>3

\* The reading a decision rests on was completed, and it is the latest that counts.
LEMMA EvidenceIsRead ==
    ASSUME NEW l \in Lists, NEW j \in Jobs, Read(l, j)
    PROVE  \E e \in Looks :
              /\ Succeeded(l, j, e) /\ Evidence(l, j) = seen[<<l, j, e>>]
              /\ e = "after" => Chat(l, j)
              /\ e = "inspect" => ~NeedsAfter(l, j)
<1>1. CASE Closed(l, j, "selection")
  BY <1>1 DEF Read, Evidence, Looks
<1>2. CASE ~Closed(l, j, "selection") /\ NeedsAfter(l, j)
  <2>1. Chat(l, j)
    BY <1>2 DEF NeedsAfter
  <2> QED BY <1>2, <2>1 DEF Read, Evidence, Looks
<1>3. CASE ~Closed(l, j, "selection") /\ ~NeedsAfter(l, j)
  BY <1>3 DEF Read, Evidence, Looks
<1> QED BY <1>1, <1>2, <1>3

LEMMA DueIsRemaining ==
    ASSUME NEW l \in Lists, NEW j \in Jobs, NEW a \in Actions, Due(l, j, a)
    PROVE  /\ Read(l, j)
           /\ ~AlreadyDone(l, j, a)
           /\ \E n \in DOMAIN Steps : Steps[n] = a
           /\ \A m \in Lists \ {l} : ~Exists(m, j, a)
BY DEF Due, IsNext, Remaining, Prior

LEMMA NeedsWhatIsDue ==
    ASSUME NEW l \in Lists, NEW j \in Jobs, NEW k \in Kinds, Needs(l, j, k)
    PROVE  /\ k = "after" => Chat(l, j)
           /\ k \in {"selection", "prepare", "resume"} => Due(l, j, "resume")
           /\ k \in Actions => Due(l, j, k)
<1>1. CASE k = "after"
  BY <1>1 DEF Needs, NeedsAfter, Actions
<1>2. CASE k = "selection" \/ k = "prepare"
  BY <1>2 DEF Needs, Actions
<1>3. CASE k = "resume"
  BY <1>3 DEF Needs
<1>4. CASE k = "open" \/ k = "greeting"
  BY <1>4 DEF Needs
<1>5. CASE k = "inspect"
  BY <1>5 DEF Actions
<1> QED BY <1>1, <1>2, <1>3, <1>4, <1>5 DEF Kinds, Readings, Actions

\* Where the employer is talked to, nothing else is due before the conversation
\* is open, or a greeting was seen in it.
LEMMA OpenedOrSeen ==
    ASSUME ReadInv, Talks, NEW l \in Lists, NEW j \in Jobs, NEW a \in {"resume", "greeting"},
           Due(l, j, a)
    PROVE  Chat(l, j) \/ Evidence(l, j).greeting
<1>1. a \in Actions /\ a # "open"
  BY DEF Actions
<1>2. AlreadyDone(l, j, "open") \/ Succeeded(l, j, "open")
  <2>1. PICK n \in DOMAIN Steps : Steps[n] = a /\ \A m \in 1..(n - 1) : Steps[m] \notin Remaining(l, j)
    BY DEF Due, IsNext
  <2>2. 1 \in DOMAIN Steps /\ Steps[1] = "open" /\ n \in Nat \ {0} /\ n # 1
    BY <1>1, <2>1, StepsOfPlatforms
  <2>3. "open" \notin Remaining(l, j)
    <3>1. 1 \in 1..(n - 1)
      BY <2>2
    <3> QED BY <2>1, <2>2, <3>1
  <2> QED BY <2>2, <2>3 DEF Remaining
<1>3. CASE Succeeded(l, j, "open")
  BY <1>3, NamesOfKinds DEF ReadInv, Sees, Chat
<1>4. CASE AlreadyDone(l, j, "open")
  BY <1>4 DEF AlreadyDone
<1> QED BY <1>2, <1>3, <1>4

\* A greeting that is due follows a reading of the open conversation.
LEMMA GreetingIsDue ==
    ASSUME ReadInv, NEW l \in Lists, NEW j \in Jobs, Due(l, j, "greeting"),
           ~Exists(l, j, "greeting")
    PROVE  /\ Succeeded(l, j, "after")
           /\ Platform = "boss" => ~seen[<<l, j, "after">>].greeting
<1>1. /\ Talks /\ Read(l, j) /\ ~Evidence(l, j).greeting
  <2>1. Read(l, j) /\ ~AlreadyDone(l, j, "greeting") /\ \E n \in DOMAIN Steps : Steps[n] = "greeting"
    BY DueIsRemaining, NamesOfKinds
  <2> QED BY <2>1, StepsOfPlatforms DEF AlreadyDone
<1>2. Chat(l, j)
  BY <1>1, OpenedOrSeen
<1>3. CASE Platform = "liepin"
  BY <1>1, <1>2, <1>3 DEF NeedsAfter, Read
<1>4. CASE Platform = "boss"
  <2>1. ~Closed(l, j, "selection")
    BY <1>4 DEF ReadInv, NoResume, Exists, Closed
  <2>2. NeedsAfter(l, j)
    <3>1. ~NeedsAfter(l, j) => Evidence(l, j) = seen[<<l, j, "inspect">>]
      BY <2>1 DEF Evidence
    <3> QED BY <1>1, <1>2, <1>4, <3>1 DEF NeedsAfter
  <2>3. Evidence(l, j) = seen[<<l, j, "after">>]
    BY <2>1, <2>2 DEF Evidence
  <2> QED BY <1>1, <2>2, <2>3 DEF Read
<1> QED BY <1>1, <1>3, <1>4 DEF Talks

LEMMA NewWorkRead ==
    ASSUME ReadInv, NEW l \in Lists, NEW j \in Jobs, NEW k \in Kinds, NewWork(l, j, k)
    PROVE  ReadInv'
<1>1. /\ UNCHANGED <<seen, world>> /\ Needs(l, j, k) /\ ~Exists(l, j, k)
      /\ \A m \in Lists, i \in Jobs, a \in Kinds :
            /\ Succeeded(m, i, a)' <=> Succeeded(m, i, a)
            /\ Exists(m, i, a)' => Exists(m, i, a) \/ (m = l /\ i = j /\ a = k)
  BY DEF NewWork
<1>2. WorldTyped'
  BY <1>1 DEF ReadInv, WorldTyped
<1>3. \A m \in Lists, i \in Jobs :
         /\ Succeeded(m, i, "open")' <=> Succeeded(m, i, "open")
         /\ Succeeded(m, i, "selection")' <=> Succeeded(m, i, "selection")
         /\ Succeeded(m, i, "after")' <=> Succeeded(m, i, "after")
  BY <1>1, NamesOfKinds
<1>4. Sees' /\ TrueGreeting'
  BY <1>1, <1>3 DEF ReadInv, Sees, TrueGreeting
<1>5. NoResume'
  <2> SUFFICES ASSUME Platform = "boss", NEW m \in Lists, NEW i \in Jobs,
                      NEW a \in {"selection", "prepare", "resume"}, Exists(m, i, a)'
               PROVE  FALSE
    BY DEF NoResume
  <2>1. a \in Kinds /\ ~Exists(m, i, a)
    BY NamesOfKinds DEF ReadInv, NoResume
  <2>2. m = l /\ i = j /\ a = k
    BY <1>1, <2>1
  <2>3. Due(l, j, "resume")
    BY <1>1, <2>2, NeedsWhatIsDue
  <2> QED BY <2>3, DueIsRemaining, StepsOfPlatforms, NamesOfKinds
<1>6. ReadFirst'
  <2> SUFFICES ASSUME NEW m \in Lists, NEW i \in Jobs, Exists(m, i, "greeting")'
               PROVE  /\ Succeeded(m, i, "after")
                      /\ Platform = "boss" => ~seen[<<m, i, "after">>].greeting
    BY <1>1, <1>3 DEF ReadFirst
  <2>1. CASE Exists(m, i, "greeting")
    BY <2>1 DEF ReadInv, ReadFirst
  <2>2. CASE m = l /\ i = j /\ k = "greeting"
    <3>1. Due(l, j, "greeting")
      BY <1>1, <2>2, NeedsWhatIsDue, NamesOfKinds
    <3> QED BY <1>1, <2>2, <3>1, GreetingIsDue
  <2> QED BY <1>1, <2>1, <2>2, NamesOfKinds
<1> QED BY <1>2, <1>4, <1>5, <1>6 DEF ReadInv

LEMMA ReadInvStep == DeliveryInv /\ OrderInv /\ ReadInv /\ [Next]_vars => ReadInv'
<1> SUFFICES ASSUME DeliveryInv, OrderInv, ReadInv, [Next]_vars
             PROVE  ReadInv'
  OBVIOUS
<1>1. CASE UNCHANGED <<ledger, world>>
  BY <1>1, SameRead
<1>2. Confirm => UNCHANGED <<ledger, world>>
  BY DEF Confirm, outside
<1> QED BY <1>1, <1>2, StepsOfWorks, MovesOnRead, ActRead, NewWorkRead

LEMMA ReadInvariant == Spec => []ReadInv
BY ReadInvInit, ReadInvStep, DeliveryInvariant, OrderInvariant, PTL DEF Spec
-----------------------------------------------------------------------------
(* What is on the platform and what the works know of it, where pages show   *)
(* what was done.                                                            *)

LEMMA WorldInvInit == Init => WorldInv
<1> SUFFICES ASSUME Init PROVE WorldInv
  OBVIOUS
<1>1. \A l \in Lists, j \in Jobs, k \in Kinds : wstate[<<l, j, k>>] = "absent"
  BY KeyMade DEF Init
<1>2. Known
  BY <1>1, NamesOfKinds DEF Known, Succeeded, Closed
<1>3. \A l \in Lists, j \in Jobs, k \in Kinds : ~Exists(l, j, k)
  BY <1>1 DEF Exists
<1>4. OpenDone /\ OpenEarly
  BY <1>3, NamesOfKinds DEF OpenDone, OpenEarly
<1>5. OpenNeeded
  BY <1>3, NamesOfKinds DEF OpenNeeded
<1>6. ReadyIsNew
  BY <1>1, ActionsAreKinds DEF ReadyIsNew
<1> QED BY <1>2, <1>4, <1>5, <1>6 DEF WorldInv

\* The works and the platform are the same; the last list may be another.
LEMMA SameWorld ==
    ASSUME WorldInv, UNCHANGED <<ledger, world>>,
           \A l \in Lists, j \in Jobs, k \in Looks :
              Succeeded(l, j, k) /\ l # Len(shown) => l # Len(shown')
    PROVE  WorldInv'
<1>1. Known'
  <2>1. \A l \in Lists, j \in Jobs, k \in Looks :
           (Succeeded(l, j, k)' <=> Succeeded(l, j, k)) /\ seen'[<<l, j, k>>] = seen[<<l, j, k>>]
    BY DEF Succeeded, Closed, ledger
  <2>2. \A l \in Lists, j \in Jobs, k \in Kinds : Exists(l, j, k)' <=> Exists(l, j, k)
    BY DEF Exists, ledger
  <2> QED BY <2>1, <2>2, NamesOfKinds DEF WorldInv, Known
<1>2. OpenDone'
  BY DEF WorldInv, OpenDone, Exists, Chat, Succeeded, Closed, ledger
<1>3. OpenEarly' /\ OpenNeeded'
  BY DEF WorldInv, OpenEarly, OpenNeeded, Open, Exists, ledger
<1>4. ReadyIsNew'
  BY DEF WorldInv, ReadyIsNew, OnThePlatform, ledger
<1> QED BY <1>1, <1>2, <1>3, <1>4 DEF WorldInv

\* A new confirmation has no work yet.
LEMMA ConfirmWorld ==
    ASSUME DeliveryInv, WorldInv, Confirm
    PROVE  WorldInv'
<1>1. /\ UNCHANGED <<ledger, world>>
      /\ Len(shown) \in Nat /\ Len(shown') = Len(shown) + 1
  BY DEF Confirm, outside, DeliveryInv, Types
<1>2. ASSUME NEW l \in Lists, NEW j \in Jobs, NEW k \in Looks, Succeeded(l, j, k)
      PROVE  l # Len(shown')
  <2>1. <<l, j, k>> \in Keys /\ wstate[<<l, j, k>>] # "absent"
    BY <1>2, KeyMade, NamesOfKinds DEF Succeeded, Closed
  <2>2. l <= Len(shown)
    BY <2>1 DEF DeliveryInv, Placed
  <2> QED BY <1>1, <2>2, ListsAreNumbers
<1> QED BY <1>1, <1>2, SameWorld

\* Where pages show what was done, a look at the page reports what is there.
LEMMA LookIsTrue ==
    ASSUME PagesLag = FALSE, WorldTyped, NEW l \in Lists, NEW j \in Jobs, NEW k \in Looks,
           NEW s \in Evident(<<l, j, k>>)
    PROVE  /\ s.chat = world[j].chat
           /\ s.greeting = world[j].greeting
           /\ s.resume = world[j].resume
<1>1. CASE k = "inspect"
  BY <1>1 DEF Evident, Shows
<1>2. CASE k = "after"
  BY <1>2 DEF Evident, Shows
<1>3. CASE k = "selection"
  BY <1>3 DEF Evident, Shows
<1> QED BY <1>1, <1>2, <1>3 DEF Looks

LEMMA MovesOnWorld ==
    ASSUME PagesLag = FALSE, DeliveryInv, OrderInv, ReadInv, WorldInv, NEW k \in Keys, MovesOn(k)
    PROVE  WorldInv'
<1>1. UNCHANGED <<shown, world>>
  BY DEF MovesOn
<1>2. \A l \in Lists, j \in Jobs, a \in Kinds :
         /\ Exists(l, j, a)' <=> Exists(l, j, a)
         /\ Succeeded(l, j, a) => Succeeded(l, j, a)' /\ seen'[<<l, j, a>>] = seen[<<l, j, a>>]
         /\ Succeeded(l, j, a)' =>
               Succeeded(l, j, a) \/ seen'[<<l, j, a>>] \in Evident(<<l, j, a>>)
         /\ Exists(l, j, a) /\ a # "inspect" =>
               seen'[<<l, j, "inspect">>] = seen[<<l, j, "inspect">>]
  BY MovedOnKeeps
<1>3. \A m \in Keys : /\ Open(m)' => Open(m)
                      /\ wstate'[m] = "ready" => wstate[m] = "ready"
  BY MovedOnKeeps
<1>4. \A l \in Lists, j \in Jobs : Chat(l, j) => Chat(l, j)'
  BY MovedOnKeeps
<1>5. Known'
  <2> SUFFICES ASSUME NEW l \in Lists, NEW j \in Jobs, NEW a \in Looks, Succeeded(l, j, a)'
               PROVE
        /\ world[j].chat /\ ~seen'[<<l, j, a>>].chat => \E m \in Lists : Exists(m, j, "open")'
        /\ world[j].greeting /\ ~seen'[<<l, j, a>>].greeting =>
              \E m \in Lists : Exists(m, j, "greeting")'
        /\ world[j].resume /\ ~seen'[<<l, j, a>>].resume =>
              \/ \E m \in Lists : Exists(m, j, "resume")'
              \/ Platform = "liepin" /\ a = "inspect" /\ Exists(l, j, "open")'
              \/ Platform = "liepin" /\ l # Len(shown)
    BY <1>1 DEF Known
  <2>1. CASE Succeeded(l, j, a)
    <3>1. seen'[<<l, j, a>>] = seen[<<l, j, a>>]
      BY <1>2, <2>1, NamesOfKinds
    <3>2. \A m \in Lists : /\ Exists(m, j, "open")' <=> Exists(m, j, "open")
                           /\ Exists(m, j, "greeting")' <=> Exists(m, j, "greeting")
                           /\ Exists(m, j, "resume")' <=> Exists(m, j, "resume")
      BY <1>2, NamesOfKinds
    <3> QED BY <2>1, <3>1, <3>2 DEF WorldInv, Known
  <2>2. CASE ~Succeeded(l, j, a)
    <3>1. seen'[<<l, j, a>>] \in Evident(<<l, j, a>>)
      BY <1>2, <2>2, NamesOfKinds
    <3> QED BY <3>1, LookIsTrue DEF ReadInv
  <2> QED BY <2>1, <2>2
<1>6. OpenDone'
  BY <1>2, <1>4, NamesOfKinds DEF WorldInv, OpenDone
<1>7. OpenEarly'
  BY <1>2, <1>3, KeyMade, NamesOfKinds DEF WorldInv, OpenEarly
<1>8. OpenNeeded'
  BY <1>2, NamesOfKinds DEF WorldInv, OpenNeeded
<1>9. ReadyIsNew'
  <2> SUFFICES ASSUME NEW l \in Lists, NEW j \in Jobs, NEW a \in Actions,
                      wstate'[<<l, j, a>>] = "ready"
               PROVE  ~OnThePlatform(j, a)'
    BY DEF ReadyIsNew
  <2>1. wstate[<<l, j, a>>] = "ready"
    BY <1>3, KeyMade, ActionsAreKinds
  <2>2. OnThePlatform(j, a)' <=> OnThePlatform(j, a)
    BY <1>1 DEF OnThePlatform
  <2> QED BY <2>1, <2>2 DEF WorldInv, ReadyIsNew
<1> QED BY <1>5, <1>6, <1>7, <1>8, <1>9 DEF WorldInv

LEMMA ActWorld ==
    ASSUME DeliveryInv, OrderInv, ReadInv, WorldInv, NEW k \in Keys, Act(k)
    PROVE  WorldInv'
<1>1. UNCHANGED <<ledger, shown>> /\ wstate[k] = "issued" /\ k[3] \in Actions
  BY DEF Act, lists
<1>2. PICK l \in Lists, j \in Jobs, a \in Actions : k = <<l, j, a>>
  BY <1>1, KeyParts
<1>3. /\ \A i \in Jobs \ {j} : world'[i] = world[i]
      /\ world'[j].chat => world[j].chat \/ a = "open"
      /\ world'[j].greeting => world[j].greeting \/ a = "greeting"
      /\ world'[j].resume => \/ world[j].resume \/ a = "resume"
                             \/ a = "open" /\ Platform = "liepin"
  BY <1>2, ActChanges DEF ReadInv
<1>4. Exists(l, j, a) /\ Open(<<l, j, a>>) /\ l = Len(shown)
  BY <1>1, <1>2 DEF Exists, Open, OrderInv, Ours
<1>5. \A m \in Lists, i \in Jobs, b \in Kinds :
         /\ Succeeded(m, i, b)' <=> Succeeded(m, i, b)
         /\ Exists(m, i, b)' <=> Exists(m, i, b)
         /\ seen'[<<m, i, b>>] = seen[<<m, i, b>>]
  BY <1>1 DEF Succeeded, Closed, Exists, ledger
<1>6. Known'
  <2> SUFFICES ASSUME NEW m \in Lists, NEW i \in Jobs, NEW b \in Looks, Succeeded(m, i, b)
               PROVE
        /\ world'[i].chat /\ ~seen[<<m, i, b>>].chat => \E n \in Lists : Exists(n, i, "open")
        /\ world'[i].greeting /\ ~seen[<<m, i, b>>].greeting =>
              \E n \in Lists : Exists(n, i, "greeting")
        /\ world'[i].resume /\ ~seen[<<m, i, b>>].resume =>
              \/ \E n \in Lists : Exists(n, i, "resume")
              \/ Platform = "liepin" /\ b = "inspect" /\ Exists(m, i, "open")
              \/ Platform = "liepin" /\ m # Len(shown)
    <3>1. \A m \in Lists, i \in Jobs, b \in Looks :
             /\ Succeeded(m, i, b)' <=> Succeeded(m, i, b)
             /\ seen'[<<m, i, b>>] = seen[<<m, i, b>>]
      BY <1>5, NamesOfKinds
    <3>2. \A m \in Lists, i \in Jobs : /\ Exists(m, i, "open")' <=> Exists(m, i, "open")
                                       /\ Exists(m, i, "greeting")' <=> Exists(m, i, "greeting")
                                       /\ Exists(m, i, "resume")' <=> Exists(m, i, "resume")
      BY <1>5, NamesOfKinds
    <3> QED BY <1>1, <3>1, <3>2 DEF Known
  <2>1. CASE i # j
    <3>1. world'[i] = world[i]
      BY <1>3, <2>1
    <3> QED BY <3>1 DEF WorldInv, Known
  <2>2. CASE i = j
    <3>1. world'[j].chat /\ ~seen[<<m, i, b>>].chat => \E n \in Lists : Exists(n, i, "open")
      BY <1>3, <1>4, <2>2 DEF WorldInv, Known
    <3>2. world'[j].greeting /\ ~seen[<<m, i, b>>].greeting =>
             \E n \in Lists : Exists(n, i, "greeting")
      BY <1>3, <1>4, <2>2 DEF WorldInv, Known
    <3>3. CASE world[j].resume
      BY <2>2, <3>1, <3>2, <3>3 DEF WorldInv, Known
    <3>4. CASE a = "resume"
      BY <1>4, <2>2, <3>1, <3>2, <3>4
    <3>5. CASE a = "open" /\ Platform = "liepin" /\ m # l
      BY <1>4, <2>2, <3>1, <3>2, <3>5
    <3>6. CASE a = "open" /\ Platform = "liepin" /\ m = l
      <4>1. b = "inspect"
        <5>1. b \in Later => ~Exists(l, j, b)
          BY <1>4, <3>6 DEF WorldInv, OpenEarly
        <5>2. Exists(l, j, b)
          BY <2>2, <3>6 DEF Succeeded, Closed, Exists
        <5> QED BY <5>1, <5>2, NamesOfKinds DEF Looks
      <4> QED BY <1>4, <2>2, <3>1, <3>2, <3>6, <4>1
    <3> QED BY <1>3, <2>2, <3>1, <3>2, <3>3, <3>4, <3>5, <3>6
  <2> QED BY <2>1, <2>2
<1>7. OpenDone' /\ OpenNeeded'
  <2>1. \A m \in Lists, i \in Jobs : Chat(m, i)' <=> Chat(m, i)
    BY <1>5 DEF Chat
  <2>2. OpenDone'
    BY <1>5, <2>1, NamesOfKinds DEF WorldInv, OpenDone
  <2>3. OpenNeeded'
    BY <1>5, NamesOfKinds DEF WorldInv, OpenNeeded
  <2> QED BY <2>2, <2>3
<1>8. OpenEarly'
  BY <1>1 DEF WorldInv, OpenEarly, Open, Exists, ledger
<1>9. ReadyIsNew'
  <2>1. \A m \in Lists, i \in Jobs, b \in Actions : wstate'[<<m, i, b>>] # "ready"
    <3> SUFFICES ASSUME NEW m \in Lists, NEW i \in Jobs, NEW b \in Actions,
                        wstate[<<m, i, b>>] = "ready"
                 PROVE  FALSE
      BY <1>1 DEF ledger
    <3>1. <<m, i, b>> \in Keys /\ Open(<<m, i, b>>)
      BY KeyMade, ActionsAreKinds DEF Open
    <3> QED BY <1>1, <1>2, <1>4, <3>1 DEF OrderInv, OneOpen
  <2> QED BY <2>1 DEF ReadyIsNew
<1> QED BY <1>6, <1>7, <1>8, <1>9 DEF WorldInv
\* The page showed the greeting, when the conversation is not known to be open.
LEMMA OpenedOrGreeted ==
    ASSUME ReadInv, WorldInv, Talks, NEW l \in Lists, NEW j \in Jobs,
           NEW a \in {"resume", "greeting"}, Due(l, j, a)
    PROVE  Chat(l, j) \/ seen[<<l, j, "inspect">>].greeting
<1>1. CASE Evidence(l, j).greeting
  <2>1. PICK e \in Looks : Succeeded(l, j, e) /\ Evidence(l, j) = seen[<<l, j, e>>]
    <3>1. a \in Actions
      BY DEF Actions
    <3>2. Read(l, j)
      BY <3>1, DueIsRemaining
    <3> QED BY <3>2, EvidenceIsRead
  <2>2. CASE e = "inspect"
    BY <1>1, <2>1, <2>2
  <2>3. CASE e \in Later
    <3>1. Exists(l, j, e)
      BY <2>1 DEF Succeeded, Closed, Exists
    <3> QED BY <2>3, <3>1 DEF WorldInv, OpenDone
  <2> QED BY <2>2, <2>3, NamesOfKinds DEF Looks
<1> QED BY <1>1, OpenedOrSeen

\* The opening of a conversation comes before all that follows it.
LEMMA OpenIsFirst ==
    ASSUME ReadInv, WorldInv, NEW l \in Lists, NEW j \in Jobs, Due(l, j, "open")
    PROVE  /\ Talks
           /\ ~Chat(l, j) /\ ~seen[<<l, j, "inspect">>].greeting
           /\ \A k \in Later : ~Exists(l, j, k)
<1>1. Talks /\ Read(l, j) /\ ~AlreadyDone(l, j, "open")
  BY DueIsRemaining, StepsOfPlatforms, NamesOfKinds
<1>2. ~Chat(l, j) /\ ~Evidence(l, j).greeting
  BY <1>1 DEF AlreadyDone
<1>3. PICK e \in Looks : /\ Succeeded(l, j, e) /\ Evidence(l, j) = seen[<<l, j, e>>]
                         /\ e = "after" => Chat(l, j)
  BY <1>1, EvidenceIsRead
<1>4. e # "selection"
  <2> SUFFICES ASSUME e = "selection" PROVE FALSE
    OBVIOUS
  <2>1. Exists(l, j, "selection")
    BY <1>3 DEF Succeeded, Closed, Exists
  <2>2. Platform = "liepin"
    BY <1>1, <2>1 DEF ReadInv, NoResume, Talks
  <2>3. seen[<<l, j, "selection">>].chat
    BY <1>3, <2>2 DEF ReadInv, Sees
  <2> QED BY <1>2, <1>3, <2>3, NamesOfKinds DEF Chat
<1>5. ~seen[<<l, j, "inspect">>].greeting
  BY <1>2, <1>3, <1>4 DEF Looks
<1> QED BY <1>1, <1>2, <1>5 DEF WorldInv, OpenDone

\* What is due for the first time is not on the platform.
LEMMA DueIsNew ==
    ASSUME ReadInv, WorldInv, NEW l \in Lists, NEW j \in Jobs, NEW a \in Actions,
           Due(l, j, a), ~Exists(l, j, a), l = Len(shown)
    PROVE  ~OnThePlatform(j, a)
<1>1. /\ Read(l, j) /\ ~AlreadyDone(l, j, a)
      /\ \A m \in Lists : ~Exists(m, j, a)
  BY DueIsRemaining
<1>2. PICK e \in Looks : /\ Succeeded(l, j, e) /\ Evidence(l, j) = seen[<<l, j, e>>]
                         /\ e = "inspect" => ~NeedsAfter(l, j)
  BY <1>1, EvidenceIsRead
<1>3. CASE a = "open"
  <2>1. Succeeded(l, j, "inspect") /\ ~Chat(l, j)
    BY <1>1, <1>3 DEF Read, AlreadyDone
  <2>2. ~seen[<<l, j, "inspect">>].chat
    BY <2>1, NamesOfKinds DEF Chat
  <2>3. ~world[j].chat
    BY <1>1, <1>3, <2>1, <2>2 DEF WorldInv, Known, Looks
  <2> QED BY <1>3, <2>3 DEF OnThePlatform
<1>4. CASE a = "greeting"
  <2>1. ~seen[<<l, j, e>>].greeting
    BY <1>1, <1>2, <1>4 DEF AlreadyDone
  <2>2. ~world[j].greeting
    BY <1>1, <1>2, <1>4, <2>1 DEF WorldInv, Known
  <2> QED BY <1>4, <2>2 DEF OnThePlatform
<1>5. CASE a = "resume"
  <2>1. ~seen[<<l, j, e>>].resume
    BY <1>1, <1>2, <1>5 DEF AlreadyDone
  <2>2. ~(Platform = "liepin" /\ e = "inspect" /\ Exists(l, j, "open"))
    <3> SUFFICES ASSUME Platform = "liepin", e = "inspect", Exists(l, j, "open")
                 PROVE  FALSE
      OBVIOUS
    <3>1. Talks /\ ~seen[<<l, j, "inspect">>].greeting
      BY DEF WorldInv, OpenNeeded
    <3>2. Chat(l, j)
      BY <1>5, <3>1, OpenedOrGreeted
    <3>3. NeedsAfter(l, j)
      BY <3>2 DEF NeedsAfter
    <3> QED BY <1>2, <3>3
  <2>3. ~world[j].resume
    BY <1>1, <1>2, <1>5, <2>1, <2>2 DEF WorldInv, Known
  <2> QED BY <1>5, <2>3 DEF OnThePlatform
<1> QED BY <1>3, <1>4, <1>5 DEF Actions

\* The new work is due: what it is for was not done before.
LEMMA NewWorkWorld ==
    ASSUME ReadInv, WorldInv, NEW l \in Lists, NEW j \in Jobs, NEW k \in Kinds, NewWork(l, j, k)
    PROVE  WorldInv'
<1>1. /\ Needs(l, j, k) /\ ~Exists(l, j, k) /\ l = Len(shown)
      /\ UNCHANGED <<shown, seen, world>>
      /\ \A m \in Lists, i \in Jobs, a \in Kinds :
            /\ Succeeded(m, i, a)' <=> Succeeded(m, i, a)
            /\ Exists(m, i, a) => Exists(m, i, a)'
            /\ Exists(m, i, a)' => Exists(m, i, a) \/ (m = l /\ i = j /\ a = k)
            /\ Open(<<m, i, a>>)' => m = l /\ i = j /\ a = k
  BY DEF NewWork
<1>2. Known'
  <2>1. \A m \in Lists, i \in Jobs, a \in Looks :
           /\ Succeeded(m, i, a)' <=> Succeeded(m, i, a)
           /\ seen'[<<m, i, a>>] = seen[<<m, i, a>>]
    BY <1>1, NamesOfKinds
  <2>2. \A m \in Lists, i \in Jobs : /\ Exists(m, i, "open") => Exists(m, i, "open")'
                                     /\ Exists(m, i, "greeting") => Exists(m, i, "greeting")'
                                     /\ Exists(m, i, "resume") => Exists(m, i, "resume")'
    BY <1>1, NamesOfKinds
  <2> QED BY <1>1, <2>1, <2>2 DEF WorldInv, Known
<1>3. OpenDone'
  <2>1. \A m \in Lists, i \in Jobs : Chat(m, i)' <=> Chat(m, i)
    BY <1>1 DEF Chat
  <2> SUFFICES ASSUME Talks, NEW m \in Lists, NEW i \in Jobs, NEW a \in Later, Exists(m, i, a)'
               PROVE  Chat(m, i)' \/ seen'[<<m, i, "inspect">>].greeting
    BY DEF OpenDone
  <2>2. CASE Exists(m, i, a)
    BY <1>1, <2>1, <2>2 DEF WorldInv, OpenDone
  <2>3. CASE m = l /\ i = j /\ a = k
    <3>1. CASE k = "after"
      BY <1>1, <2>1, <2>3, <3>1, NeedsWhatIsDue
    <3>2. CASE k \in {"selection", "prepare", "resume"}
      <4>1. Due(l, j, "resume")
        BY <1>1, <3>2, NeedsWhatIsDue
      <4> QED BY <1>1, <2>1, <2>3, <4>1, OpenedOrGreeted
    <3>3. CASE k = "greeting"
      <4>1. Due(l, j, "greeting")
        BY <1>1, <3>3, NeedsWhatIsDue, NamesOfKinds
      <4> QED BY <1>1, <2>1, <2>3, <4>1, OpenedOrGreeted
    <3> QED BY <2>3, <3>1, <3>2, <3>3, NamesOfKinds
  <2> QED BY <1>1, <2>2, <2>3, NamesOfKinds
<1>4. k = "open" => /\ Talks /\ ~seen[<<l, j, "inspect">>].greeting
                    /\ \A a \in Later : ~Exists(l, j, a)
  BY <1>1, OpenIsFirst, NeedsWhatIsDue, NamesOfKinds
<1>5. OpenEarly'
  <2> SUFFICES ASSUME NEW m \in Lists, NEW i \in Jobs, NEW a \in Later,
                      Open(<<m, i, "open">>)', Exists(m, i, a)'
               PROVE  FALSE
    BY DEF OpenEarly
  <2>1. m = l /\ i = j /\ k = "open"
    BY <1>1, NamesOfKinds
  <2> QED BY <1>1, <1>4, <2>1, NamesOfKinds
<1>6. OpenNeeded'
  <2> SUFFICES ASSUME NEW m \in Lists, NEW i \in Jobs, Exists(m, i, "open")'
               PROVE  Talks /\ ~seen[<<m, i, "inspect">>].greeting
    BY <1>1 DEF OpenNeeded
  <2> QED BY <1>1, <1>4, NamesOfKinds DEF WorldInv, OpenNeeded
<1>7. ReadyIsNew'
  <2> SUFFICES ASSUME NEW m \in Lists, NEW i \in Jobs, NEW a \in Actions,
                      wstate'[<<m, i, a>>] = "ready"
               PROVE  ~OnThePlatform(i, a)'
    BY DEF ReadyIsNew
  <2>1. OnThePlatform(i, a)' <=> OnThePlatform(i, a)
    BY <1>1 DEF OnThePlatform
  <2>2. m = l /\ i = j /\ a = k
    BY <1>1, ActionsAreKinds DEF Open
  <2>3. Due(l, j, a)
    BY <1>1, <2>2, NeedsWhatIsDue
  <2> QED BY <1>1, <2>1, <2>2, <2>3, DueIsNew
<1> QED BY <1>2, <1>3, <1>5, <1>6, <1>7 DEF WorldInv

LEMMA WorldInvStep ==
    ASSUME PagesLag = FALSE
    PROVE  DeliveryInv /\ OrderInv /\ ReadInv /\ WorldInv /\ [Next]_vars => WorldInv'
<1> SUFFICES ASSUME DeliveryInv, OrderInv, ReadInv, WorldInv, [Next]_vars
             PROVE  WorldInv'
  OBVIOUS
<1>1. CASE UNCHANGED <<ledger, world, shown>>
  BY <1>1, SameWorld
<1> QED BY <1>1, StepsOfWorks, ConfirmWorld, MovesOnWorld, ActWorld, NewWorkWorld

LEMMA WorldInvariant ==
    ASSUME PagesLag = FALSE
    PROVE  Spec => []WorldInv
BY WorldInvInit, WorldInvStep, DeliveryInvariant, OrderInvariant, ReadInvariant, PTL DEF Spec

\* Where pages show what was done, an employer never gets a second greeting or
\* resume, be the first one from the user's own hand or sent with the opening of
\* the conversation (native_work._delivery_next, on the evidence it reads).
THEOREM NothingTwiceWhereSeen ==
    ASSUME PagesLag = FALSE
    PROVE  Spec => NothingTwice
<1>1. ASSUME DeliveryInv, WorldInv, [Next]_vars
      PROVE  \A k \in Keys : Permits(k) /\ k[3] \in Actions => ~OnThePlatform(k[2], k[3])
  <2> SUFFICES ASSUME NEW k \in Keys, Permits(k), k[3] \in Actions
               PROVE  ~OnThePlatform(k[2], k[3])
    OBVIOUS
  <2>1. wstate[<<k[1], k[2], k[3]>>] = "ready" /\ k[1] \in Lists /\ k[2] \in Jobs
    BY KeyParts DEF Permits
  <2> QED BY <1>1, <2>1 DEF WorldInv, ReadyIsNew
<1> QED BY <1>1, DeliveryInvariant, WorldInvariant, PTL DEF Spec, NothingTwice

\* Nothing is written into a conversation before it was read open, and what was
\* read there did not show the greeting: on Boss whatever the pages show, on
\* Liepin where they show what was done (a later reading decides there).
THEOREM GreetingAfterReading ==
    ASSUME Platform = "boss" \/ PagesLag = FALSE
    PROVE  Spec => ReadBeforeGreeting
<1> DEFINE A == \A k \in Keys : Permits(k) /\ k[3] = "greeting" =>
                  /\ Succeeded(k[1], k[2], "after")
                  /\ ~seen[<<k[1], k[2], "after">>].greeting
<1>1. ASSUME ReadInv, NEW k \in Keys, Permits(k), k[3] = "greeting"
      PROVE  /\ k[1] \in Lists /\ k[2] \in Jobs /\ wstate[<<k[1], k[2], "greeting">>] = "ready"
             /\ Succeeded(k[1], k[2], "after")
             /\ Platform = "boss" => ~seen[<<k[1], k[2], "after">>].greeting
  <2>1. k[1] \in Lists /\ k[2] \in Jobs /\ wstate[<<k[1], k[2], "greeting">>] = "ready"
    BY <1>1, KeyParts DEF Permits
  <2>2. Exists(k[1], k[2], "greeting")
    BY <2>1 DEF Exists
  <2> QED BY <1>1, <2>1, <2>2 DEF ReadInv, ReadFirst
<1>2. CASE Platform = "boss"
  <2>1. ReadInv => A
    BY <1>1, <1>2
  <2> QED BY <2>1, ReadInvariant, PTL DEF Spec, ReadBeforeGreeting
<1>3. CASE PagesLag = FALSE
  <2>1. ReadInv /\ WorldInv => A
    <3> SUFFICES ASSUME ReadInv, WorldInv, NEW k \in Keys, Permits(k), k[3] = "greeting"
                 PROVE  /\ Succeeded(k[1], k[2], "after")
                        /\ ~seen[<<k[1], k[2], "after">>].greeting
      OBVIOUS
    <3>1. ~OnThePlatform(k[2], "greeting")
      BY <1>1, NamesOfKinds DEF WorldInv, ReadyIsNew
    <3>2. ~world[k[2]].greeting
      BY <3>1 DEF OnThePlatform
    <3> QED BY <1>1, <3>2 DEF ReadInv, TrueGreeting
  <2> QED BY <1>3, <2>1, ReadInvariant, WorldInvariant, PTL DEF Spec, ReadBeforeGreeting
<1> QED BY <1>2, <1>3
=============================================================================
