--------------------- MODULE DeliveryConfirmationProofs ---------------------
(***************************************************************************)
(* What is permitted is what the user confirmed last, for every number of    *)
(* jobs, lists, changes of the criteria and commands that die.               *)
(*                                                                          *)
(* The argument: whenever the gate would let a list through, its file holds  *)
(* what the user's last accepted answer confirms (Gated).  To keep this      *)
(* through half-finished commands it takes five more facts: a command that   *)
(* rewrites a list carries no authorization, and one that saves an           *)
(* authorization carries the list of the card (Carried); no file is ahead    *)
(* of the round, nor the round of the service (RevOrder); a round without a  *)
(* record at the service has left no trace there (NeverServed); a list holds *)
(* only what the criteria of its own revision leave (Filtered); and a        *)
(* delivery that holds its authorization is one of a list (Started).         *)
(***************************************************************************)
EXTENDS DeliveryConfirmation, TLAPS

Gated == \A d \in Lists : Gate(d) => agreed[d] = files[d].cands

Carried ==
    /\ cmd.at \in {"save", "register", "ticket"} => cmd.review.auth = None
    /\ cmd.at = "saveAuth" =>
          /\ cmd.list = card.list /\ cmd.review.cands = card.cands
          /\ cmd.review.auth.ticket # None => agreed[cmd.list] = card.cands

RevOrder ==
    /\ round.rev <= service.rev
    /\ cmd.at = "saveCriteria" => round.rev < service.rev
    /\ \A d \in Lists : files[d].rev <= round.rev
    /\ cmd.review.rev <= round.rev

NeverServed ==
    ~Enabled =>
        /\ cmd.review.ticket = None
        /\ \A d \in Lists : files[d].ticket = None /\ service.lists[d].state = "none"

Fits(review) == review.rev # 0 => review.cands \subseteq Allowed[review.rev]

Filtered == Fits(cmd.review) /\ \A d \in Lists : Fits(files[d])

Started == round.held => round.source # 0

ConfirmInv == TypeOK /\ Gated /\ Carried /\ RevOrder /\ NeverServed /\ Filtered /\ Started

USE ConfirmationAssumption

LEMMA ConstantsTyped ==
    /\ 1 \in Lists /\ 0 \in Revisions
    /\ NoReview \in Reviews /\ NoCard \in Cards
    /\ Idle \in Commands /\ Idle.at = "idle" /\ Idle.review = NoReview
    BY DEF Lists, Revisions, NoReview, Reviews, NoCard, Cards, Idle, Commands

\* A command that goes on keeps the review it holds; "done" forgets it.
LEMMA GoTyped ==
    ASSUME cmd \in Commands, NEW at \in Writes, Go(at)
    PROVE  /\ cmd' \in Commands
           /\ cmd'.at = at /\ cmd'.list = cmd.list /\ cmd'.review = cmd.review
    BY DEF Commands, Go

LEMMA DoneTyped ==
    ASSUME Done
    PROVE  cmd' \in Commands /\ cmd'.at = "idle" /\ cmd'.review = NoReview
    BY ConstantsTyped DEF Done

LEMMA InitConfirm == Init => ConfirmInv
    <1> SUFFICES ASSUME Init PROVE ConfirmInv
        OBVIOUS
    <1>1. round \in Rounds /\ service \in [rev: Revisions, lists: [Lists -> Records]]
        BY ConstantsTyped DEF Init, Rounds, Statuses, Records
    <1>2. TypeOK
        BY <1>1, ConstantsTyped DEF Init, TypeOK
    <1>3. Gated
        BY DEF Init, Gated, Gate, NoReview
    <1>4. Carried /\ RevOrder /\ NeverServed /\ Filtered /\ Started
        BY DEF Init, Carried, RevOrder, NeverServed, Filtered, Fits, Enabled, Started, Idle, NoReview
    <1> QED BY <1>2, <1>3, <1>4 DEF ConfirmInv

\* Steps that touch neither a review file, the service nor the revision, and
\* do not come to a write of a review file.
LEMMA Frame ==
    ASSUME ConfirmInv, round' \in Rounds, card' \in Cards, cmd' \in Commands,
           found' \in Lists, faults' = faults,
           UNCHANGED <<served, files, service, agreed>>,
           round'.rev = round.rev, round'.cancelled = round.cancelled,
           round'.held => round'.source # 0,
           cmd'.at \notin {"save", "register", "ticket", "saveAuth", "saveCriteria"},
           cmd'.review \in {cmd.review, NoReview} \cup {files[d] : d \in Lists}
    PROVE  ConfirmInv'
    <1>1. TypeOK'
        BY DEF ConfirmInv, TypeOK
    <1>2. Gated'
        BY DEF ConfirmInv, Gated, Gate, CriteriaCurrent, Consults, Enabled, Verified, Stands
    <1>3. Carried'
        BY DEF Carried
    <1>4. RevOrder'
        BY DEF ConfirmInv, RevOrder, TypeOK, Rounds, Revisions, NoReview
    <1>5. NeverServed' /\ Filtered' /\ Started'
        BY DEF ConfirmInv, NeverServed, Enabled, Filtered, Fits, Started, NoReview
    <1> QED BY <1>1, <1>2, <1>3, <1>4, <1>5 DEF ConfirmInv

\* One review file is written.
LEMMA FileWritten ==
    ASSUME TypeOK, NEW e \in Lists, NEW review \in Reviews, files' = [files EXCEPT ![e] = review]
    PROVE  /\ files' \in [Lists -> Reviews]
           /\ files'[e] = review
           /\ \A d \in Lists \ {e} : files'[d] = files[d]
    BY DEF TypeOK

\* The service's record of one list is written.
LEMMA RecordWritten ==
    ASSUME TypeOK, NEW e \in Lists, NEW record \in Records,
           service' = [service EXCEPT !.lists[e] = record]
    PROVE  /\ service' \in [rev: Revisions, lists: [Lists -> Records]]
           /\ service'.rev = service.rev /\ service'.lists[e] = record
           /\ \A d \in Lists \ {e} : service'.lists[d] = service.lists[d]
    <1> DEFINE lists == [service.lists EXCEPT ![e] = record]
    <1>1. lists \in [Lists -> Records] /\ lists[e] = record
          /\ \A d \in Lists \ {e} : lists[d] = service.lists[d]
        BY DEF TypeOK
    <1>2. service' = [service EXCEPT !.lists = lists]
        OBVIOUS
    <1> HIDE DEF lists
    <1> QED BY <1>1, <1>2 DEF TypeOK

\* An answer changes only the state of the record.
LEMMA StateWritten ==
    ASSUME TypeOK, NEW e \in Lists, NEW state \in {"confirmed", "cancelled"},
           service' = [service EXCEPT !.lists[e].state = state]
    PROVE  /\ service' \in [rev: Revisions, lists: [Lists -> Records]]
           /\ service'.rev = service.rev /\ service'.lists[e].state = state
           /\ \A d \in Lists \ {e} : service'.lists[d] = service.lists[d]
    <1> DEFINE record == [service.lists[e] EXCEPT !.state = state]
    <1>1. record \in Records /\ record.state = state
        BY DEF TypeOK, Records
    <1>2. service' = [service EXCEPT !.lists[e] = record]
        OBVIOUS
    <1> HIDE DEF record
    <1> QED BY <1>1, <1>2, RecordWritten

LEMMA DisownedTyped ==
    ASSUME TypeOK, Started, NEW e \in Lists, round' = Disowned(e)
    PROVE  round' \in Rounds /\ round'.rev = round.rev /\ round'.cancelled = round.cancelled /\ Started'
    <1> DEFINE held == round.held /\ round.source # e
    <1>1. held \in BOOLEAN /\ (held => round.held)
        OBVIOUS
    <1>2. round' = [round EXCEPT !.held = held]
        BY DEF Disowned
    <1> HIDE DEF held
    <1> QED BY <1>1, <1>2 DEF TypeOK, Rounds, Started

\* A list whose file and record are left alone stays as confirmed as it was.
LEMMA GateElsewhere ==
    ASSUME Gated, NEW d \in Lists, files'[d] = files[d], agreed'[d] = agreed[d],
           served' = served, service'.rev = service.rev, service'.lists[d] = service.lists[d],
           round'.rev = round.rev, round.cancelled \subseteq round'.cancelled
    PROVE  Gate(d)' => agreed'[d] = files'[d].cands
    BY DEF Gated, Gate, CriteriaCurrent, Consults, Enabled, Verified, Stands

LEMMA NoAuthNoGate ==
    ASSUME NEW d, files'[d].auth = None
    PROVE  ~Gate(d)'
    BY DEF Gate

LEMMA ShowCardStep ==
    ASSUME ConfirmInv, ShowCard
    PROVE  ConfirmInv'
    <1> USE DEF ConfirmInv, TypeOK
    <1>1. round' \in Rounds /\ round'.rev = round.rev /\ round'.cancelled = round.cancelled
          /\ (round'.held => round'.source # 0)
        BY DEF ShowCard, Started
    <1>2. card' \in Cards
        BY ConstantsTyped DEF ShowCard, Cards, Commands, Reviews
    <1>3. /\ cmd' \in Commands
          /\ cmd'.at \notin {"save", "register", "ticket", "saveAuth", "saveCriteria"}
          /\ cmd'.review \in {cmd.review, NoReview}
        BY GoTyped, DoneTyped, ConstantsTyped DEF ShowCard, Writes
    <1>4. found' \in Lists
        BY DEF ShowCard
    <1> QED BY <1>1, <1>2, <1>3, <1>4, Frame DEF ShowCard

LEMMA SetStatusStep ==
    ASSUME ConfirmInv, SetStatus
    PROVE  ConfirmInv'
    <1> USE DEF ConfirmInv, TypeOK
    <1>1. round' \in Rounds /\ round'.rev = round.rev /\ round'.cancelled = round.cancelled
          /\ (round'.held => round'.source # 0)
        BY DEF SetStatus, Started, Rounds, Statuses
    <1>2. card' \in Cards
        BY DEF SetStatus
    <1>3. /\ cmd' \in Commands
          /\ cmd'.at \notin {"save", "register", "ticket", "saveAuth", "saveCriteria"}
          /\ cmd'.review \in {cmd.review, NoReview}
        BY GoTyped, DoneTyped, ConstantsTyped DEF SetStatus, Writes
    <1>4. found' \in Lists
        BY DEF SetStatus
    <1> QED BY <1>1, <1>2, <1>3, <1>4, Frame DEF SetStatus

LEMMA ShowAuthorizedStep ==
    ASSUME ConfirmInv, ShowAuthorized
    PROVE  ConfirmInv'
    <1> USE DEF ConfirmInv, TypeOK
    <1>1. round' \in Rounds /\ round'.rev = round.rev /\ round'.cancelled = round.cancelled
          /\ (round'.held => round'.source # 0)
        BY DEF ShowAuthorized, Started
    <1>2. card' \in Cards
        BY ConstantsTyped DEF ShowAuthorized, Cards
    <1>3. /\ cmd' \in Commands
          /\ cmd'.at \notin {"save", "register", "ticket", "saveAuth", "saveCriteria"}
          /\ cmd'.review \in {cmd.review, NoReview}
        BY GoTyped, DoneTyped, ConstantsTyped DEF ShowAuthorized, Writes
    <1>4. found' \in Lists
        BY DEF ShowAuthorized
    <1> QED BY <1>1, <1>2, <1>3, <1>4, Frame DEF ShowAuthorized

LEMMA SetReviewedStep ==
    ASSUME ConfirmInv, SetReviewed
    PROVE  ConfirmInv'
    <1> USE DEF ConfirmInv, TypeOK
    <1>1. round' \in Rounds /\ round'.rev = round.rev /\ round'.cancelled = round.cancelled
          /\ (round'.held => round'.source # 0)
        BY DEF SetReviewed, Started, Rounds, Statuses
    <1>2. card' \in Cards
        BY DEF SetReviewed
    <1>3. /\ cmd' \in Commands
          /\ cmd'.at \notin {"save", "register", "ticket", "saveAuth", "saveCriteria"}
          /\ cmd'.review \in {cmd.review, NoReview}
        BY GoTyped, DoneTyped, ConstantsTyped DEF SetReviewed, Writes
    <1>4. found' \in Lists
        BY DEF SetReviewed
    <1> QED BY <1>1, <1>2, <1>3, <1>4, Frame DEF SetReviewed

LEMMA AskExclusionsStep ==
    ASSUME ConfirmInv, AskExclusions
    PROVE  ConfirmInv'
    <1> USE DEF ConfirmInv, TypeOK
    <1>1. round' \in Rounds /\ round'.rev = round.rev /\ round'.cancelled = round.cancelled
          /\ (round'.held => round'.source # 0)
        BY DEF AskExclusions, Started
    <1>2. card' \in Cards
        BY ConstantsTyped DEF AskExclusions, Cards
    <1>3. /\ cmd' \in Commands
          /\ cmd'.at \notin {"save", "register", "ticket", "saveAuth", "saveCriteria"}
          /\ cmd'.review \in {cmd.review, NoReview}
        BY ConstantsTyped DEF AskExclusions, Answering
    <1>4. found' \in Lists
        BY DEF AskExclusions
    <1> QED BY <1>1, <1>2, <1>3, <1>4, Frame DEF AskExclusions

LEMMA ShowFollowupStep ==
    ASSUME ConfirmInv, ShowFollowup
    PROVE  ConfirmInv'
    <1> USE DEF ConfirmInv, TypeOK
    <1>1. round' \in Rounds /\ round'.rev = round.rev /\ round'.cancelled = round.cancelled
          /\ (round'.held => round'.source # 0)
        BY DEF ShowFollowup, Started
    <1>2. card' \in Cards
        BY ConstantsTyped DEF ShowFollowup, Cards, Commands
    <1>3. /\ cmd' \in Commands
          /\ cmd'.at \notin {"save", "register", "ticket", "saveAuth", "saveCriteria"}
          /\ cmd'.review \in {cmd.review, NoReview}
        BY GoTyped, DoneTyped, ConstantsTyped DEF ShowFollowup, Writes
    <1>4. found' \in Lists
        BY DEF ShowFollowup
    <1> QED BY <1>1, <1>2, <1>3, <1>4, Frame DEF ShowFollowup

LEMMA AnswerFollowupStep ==
    ASSUME NEW choice, ConfirmInv, AnswerFollowup(choice)
    PROVE  ConfirmInv'
    <1> USE DEF ConfirmInv, TypeOK
    <1>1. round' \in Rounds /\ round'.rev = round.rev /\ round'.cancelled = round.cancelled
          /\ (round'.held => round'.source # 0)
        BY DEF AnswerFollowup, Started, Rounds, Statuses
    <1>2. card' \in Cards
        BY DEF AnswerFollowup
    <1>3. /\ cmd' \in Commands
          /\ cmd'.at \notin {"save", "register", "ticket", "saveAuth", "saveCriteria"}
          /\ cmd'.review \in {cmd.review, NoReview}
        BY ConstantsTyped DEF AnswerFollowup, Idle, Commands, Writes
    <1>4. found' \in Lists
        BY DEF AnswerFollowup
    <1> QED BY <1>1, <1>2, <1>3, <1>4, Frame DEF AnswerFollowup

LEMMA ClearStep ==
    ASSUME ConfirmInv, Clear
    PROVE  ConfirmInv'
    <1> USE DEF ConfirmInv, TypeOK
    <1>1. round' \in Rounds /\ round'.rev = round.rev /\ round'.cancelled = round.cancelled
          /\ (round'.held => round'.source # 0)
        BY DEF Clear, Started
    <1>2. card' \in Cards
        BY ConstantsTyped DEF Clear, Cards
    <1>3. /\ cmd' \in Commands
          /\ cmd'.at \notin {"save", "register", "ticket", "saveAuth", "saveCriteria"}
          /\ cmd'.review \in {cmd.review, NoReview}
        BY GoTyped, DoneTyped, ConstantsTyped DEF Clear, Writes
    <1>4. found' \in Lists
        BY DEF Clear
    <1> QED BY <1>1, <1>2, <1>3, <1>4, Frame DEF Clear

LEMMA DiscoverStep ==
    ASSUME ConfirmInv, Discover
    PROVE  ConfirmInv'
    <1> USE DEF ConfirmInv, TypeOK
    <1>1. round' \in Rounds /\ round'.rev = round.rev /\ round'.cancelled = round.cancelled
          /\ (round'.held => round'.source # 0)
        BY DEF Discover, Started, Rounds, Statuses
    <1>2. card' \in Cards
        BY DEF Discover
    <1>3. /\ cmd' \in Commands
          /\ cmd'.at \notin {"save", "register", "ticket", "saveAuth", "saveCriteria"}
          /\ cmd'.review \in {cmd.review, NoReview}
        BY ConstantsTyped DEF Discover
    <1>4. found' \in Lists
        BY DEF Discover, Lists
    <1> QED BY <1>1, <1>2, <1>3, <1>4, Frame DEF Discover

LEMMA SkipStep ==
    ASSUME ConfirmInv, Skip
    PROVE  ConfirmInv'
    <1> USE DEF ConfirmInv, TypeOK
    <1>1. round' \in Rounds /\ round'.rev = round.rev /\ round'.cancelled = round.cancelled
          /\ (round'.held => round'.source # 0)
        BY DEF Skip, Started, Rounds, Statuses
    <1>2. card' \in Cards
        BY DEF Skip
    <1>3. /\ cmd' \in Commands
          /\ cmd'.at \notin {"save", "register", "ticket", "saveAuth", "saveCriteria"}
          /\ cmd'.review \in {cmd.review, NoReview}
        BY ConstantsTyped DEF Skip
    <1>4. found' \in Lists
        BY DEF Skip
    <1> QED BY <1>1, <1>2, <1>3, <1>4, Frame DEF Skip

LEMMA StartStep ==
    ASSUME NEW d \in Lists, ConfirmInv, Start(d)
    PROVE  ConfirmInv'
    <1> USE DEF ConfirmInv, TypeOK
    <1>1. round' \in Rounds /\ round'.rev = round.rev /\ round'.cancelled = round.cancelled
          /\ (round'.held => round'.source # 0)
        <2>1. PICK work \in {"none", "ready"} :
                  round' = [round EXCEPT !.source = d, !.held = TRUE, !.work = work]
            BY DEF Start
        <2>2. d # 0
            BY DEF Lists
        <2> QED BY <2>1, <2>2 DEF Rounds
    <1>2. card' \in Cards
        BY DEF Start
    <1>3. /\ cmd' \in Commands
          /\ cmd'.at \notin {"save", "register", "ticket", "saveAuth", "saveCriteria"}
          /\ cmd'.review \in {cmd.review, NoReview}
        BY ConstantsTyped DEF Start
    <1>4. found' \in Lists
        BY DEF Start
    <1> QED BY <1>1, <1>2, <1>3, <1>4, Frame DEF Start

LEMMA MakeWorkStep ==
    ASSUME ConfirmInv, MakeWork
    PROVE  ConfirmInv'
    <1> USE DEF ConfirmInv, TypeOK
    <1>1. round' \in Rounds /\ round'.rev = round.rev /\ round'.cancelled = round.cancelled
          /\ (round'.held => round'.source # 0)
        BY DEF MakeWork, Started, Rounds, Statuses
    <1>2. card' \in Cards
        BY DEF MakeWork
    <1>3. /\ cmd' \in Commands
          /\ cmd'.at \notin {"save", "register", "ticket", "saveAuth", "saveCriteria"}
          /\ cmd'.review \in {cmd.review, NoReview}
        BY ConstantsTyped DEF MakeWork
    <1>4. found' \in Lists
        BY DEF MakeWork
    <1> QED BY <1>1, <1>2, <1>3, <1>4, Frame DEF MakeWork

LEMMA BeginStep ==
    ASSUME ConfirmInv, Begin
    PROVE  ConfirmInv'
    <1> USE DEF ConfirmInv, TypeOK
    <1>1. round' \in Rounds /\ round'.rev = round.rev /\ round'.cancelled = round.cancelled
          /\ (round'.held => round'.source # 0)
        BY DEF Begin, Started, Rounds, Statuses
    <1>2. card' \in Cards
        BY DEF Begin
    <1>3. /\ cmd' \in Commands
          /\ cmd'.at \notin {"save", "register", "ticket", "saveAuth", "saveCriteria"}
          /\ cmd'.review \in {cmd.review, NoReview}
        BY ConstantsTyped DEF Begin
    <1>4. found' \in Lists
        BY DEF Begin
    <1> QED BY <1>1, <1>2, <1>3, <1>4, Frame DEF Begin

LEMMA EndWorkStep ==
    ASSUME ConfirmInv, EndWork
    PROVE  ConfirmInv'
    <1> USE DEF ConfirmInv, TypeOK
    <1>1. round' \in Rounds /\ round'.rev = round.rev /\ round'.cancelled = round.cancelled
          /\ (round'.held => round'.source # 0)
        BY DEF EndWork, Started, Rounds, Statuses
    <1>2. card' \in Cards
        BY DEF EndWork
    <1>3. /\ cmd' \in Commands
          /\ cmd'.at \notin {"save", "register", "ticket", "saveAuth", "saveCriteria"}
          /\ cmd'.review \in {cmd.review, NoReview}
        BY ConstantsTyped DEF EndWork
    <1>4. found' \in Lists
        BY DEF EndWork
    <1> QED BY <1>1, <1>2, <1>3, <1>4, Frame DEF EndWork

LEMMA DisplaceStep ==
    ASSUME ConfirmInv, Displace
    PROVE  ConfirmInv'
    <1> USE DEF ConfirmInv, TypeOK
    <1>1. round' \in Rounds /\ round'.rev = round.rev /\ round'.cancelled = round.cancelled
          /\ (round'.held => round'.source # 0)
        BY DEF Displace, Started
    <1>2. card' \in Cards
        BY ConstantsTyped DEF Displace
    <1>3. /\ cmd' \in Commands
          /\ cmd'.at \notin {"save", "register", "ticket", "saveAuth", "saveCriteria"}
          /\ cmd'.review \in {cmd.review, NoReview}
        BY ConstantsTyped DEF Displace
    <1>4. found' \in Lists
        BY DEF Displace
    <1> QED BY <1>1, <1>2, <1>3, <1>4, Frame DEF Displace

LEMMA ReviewStep ==
    ASSUME NEW d \in Lists, NEW kept \in BOOLEAN, ConfirmInv, Review(d, kept)
    PROVE  ConfirmInv'
    <1> USE DEF ConfirmInv
    <1> DEFINE dropped == IF kept THEN files[d].excluded ELSE {}
               left == IF round.rev = 0 THEN Selected ELSE Selected \cap Allowed[round.rev]
               cands == left \ dropped
               shown == [is |-> "whole", cands |-> cands, excluded |-> dropped, rev |-> round.rev,
                         preview |-> None, ticket |-> None, auth |-> None]
    <1>1. /\ cmd' = [at |-> "save", by |-> "review", list |-> d, review |-> shown]
          /\ UNCHANGED <<served, found, files, round, card, service, agreed, faults>>
        BY DEF Review, NoReview
    <1>2. dropped \in SUBSET Jobs
        BY DEF TypeOK, Reviews
    <1>3. round.rev \in Revisions
        BY DEF TypeOK, Rounds
    <1>4. cands \in SUBSET Jobs /\ (round.rev # 0 => cands \subseteq Allowed[round.rev])
        OBVIOUS
    <1> HIDE DEF dropped, left, cands
    <1>5. shown \in Reviews /\ Fits(shown) /\ shown.rev = round.rev
          /\ shown.auth = None /\ shown.ticket = None
        BY <1>2, <1>3, <1>4 DEF Reviews, Fits
    <1> HIDE DEF shown
    <1>6. TypeOK'
        BY <1>1, <1>5 DEF TypeOK, Commands, Writes
    <1>7. Gated'
        BY <1>1, GateElsewhere DEF Gated
    <1>8. Carried' /\ NeverServed' /\ Filtered' /\ Started'
        BY <1>1, <1>5 DEF Carried, NeverServed, Enabled, Filtered, Fits, Started
    <1>9. RevOrder'
        BY <1>1, <1>3, <1>5 DEF RevOrder, Revisions
    <1> QED BY <1>6, <1>7, <1>8, <1>9

LEMMA SaveStep ==
    ASSUME ConfirmInv, Save
    PROVE  ConfirmInv'
    <1> USE DEF ConfirmInv
    <1>1. PICK e \in Lists : e = cmd.list
        BY DEF TypeOK, Commands
    <1>0. cmd.review \in Reviews /\ cmd.review.auth = None
        BY DEF Save, TypeOK, Commands, Carried
    <1>2. /\ files' \in [Lists -> Reviews] /\ files'[e] = cmd.review
          /\ \A d \in Lists \ {e} : files'[d] = files[d]
        BY <1>0, <1>1, FileWritten DEF Save
    <1>3. round' \in Rounds /\ round'.rev = round.rev /\ round'.cancelled = round.cancelled /\ Started'
        BY <1>1, DisownedTyped DEF Save
    <1>4. cmd' \in Commands /\ cmd'.at = "register" /\ cmd'.review = cmd.review
        BY GoTyped DEF Save, Writes, TypeOK
    <1>5. /\ agreed' \in [Lists -> {None} \cup SUBSET Jobs]
          /\ \A d \in Lists \ {e} : agreed'[d] = agreed[d]
        BY <1>1 DEF Save, TypeOK
    <1>6. UNCHANGED <<served, found, card, service, faults>>
        BY DEF Save
    <1>7. TypeOK'
        BY <1>2, <1>3, <1>4, <1>5, <1>6 DEF TypeOK
    <1>8. Gated'
        <2>1. ~Gate(e)'
            BY <1>0, <1>2, NoAuthNoGate
        <2>2. \A d \in Lists \ {e} : Gate(d)' => agreed'[d] = files'[d].cands
            BY <1>2, <1>3, <1>5, <1>6, GateElsewhere
        <2> QED BY <2>1, <2>2 DEF Gated
    <1>9. Carried' /\ NeverServed' /\ Filtered'
        BY <1>0, <1>2, <1>3, <1>4, <1>6 DEF Carried, NeverServed, Enabled, Filtered, Fits
    <1>10. RevOrder'
        BY <1>0, <1>2, <1>3, <1>4, <1>6 DEF RevOrder
    <1> QED BY <1>3, <1>7, <1>8, <1>9, <1>10

\* Register goes on with the complete preview, named by a ticket or not.
LEMMA ShownTyped ==
    ASSUME TypeOK, NEW t \in {None} \cup Tickets,
           cmd' = [cmd EXCEPT !.at = "ticket", !.review.ticket = t,
                              !.review.preview = cmd.review.cands]
    PROVE  /\ cmd' \in Commands /\ cmd'.at = "ticket" /\ cmd'.review.ticket = t
           /\ cmd'.review.rev = cmd.review.rev /\ cmd'.review.cands = cmd.review.cands
           /\ cmd'.review.auth = cmd.review.auth
    <1> DEFINE held == [cmd.review EXCEPT !.ticket = t, !.preview = cmd.review.cands]
    <1>1. cmd.review \in Reviews
        BY DEF TypeOK, Commands
    <1>2. /\ held \in Reviews /\ held.ticket = t /\ held.rev = cmd.review.rev
          /\ held.cands = cmd.review.cands /\ held.auth = cmd.review.auth
        BY <1>1 DEF Reviews
    <1>3. cmd' = [cmd EXCEPT !.at = "ticket", !.review = held]
        BY DEF TypeOK, Commands
    <1> HIDE DEF held
    <1> QED BY <1>2, <1>3 DEF TypeOK, Commands, Writes

LEMMA RegisterStep ==
    ASSUME ConfirmInv, Register
    PROVE  ConfirmInv'
    <1> USE DEF ConfirmInv
    <1>0. PICK e \in Lists : e = cmd.list
        BY DEF TypeOK, Commands
    <1> DEFINE ticket == [cands |-> cmd.review.cands, rev |-> round.rev]
               Shown(t) == cmd' = [cmd EXCEPT !.at = "ticket", !.review.ticket = t,
                                              !.review.preview = cmd.review.cands]
    <1>1. cmd.review.auth = None /\ ticket \in Tickets
        BY DEF Register, TypeOK, Commands, Carried, Reviews, Rounds, Tickets
    <1>2. UNCHANGED <<served, found, files, round, card, agreed, faults>>
        BY DEF Register
    <1>3. CASE ~Enabled /\ Shown(None) /\ UNCHANGED service
        <2>1. /\ cmd' \in Commands /\ cmd'.at = "ticket" /\ cmd'.review.ticket = None
              /\ cmd'.review.rev = cmd.review.rev /\ cmd'.review.cands = cmd.review.cands
              /\ cmd'.review.auth = cmd.review.auth
            BY <1>3, ShownTyped
        <2>2. TypeOK'
            BY <1>2, <1>3, <2>1 DEF TypeOK
        <2>3. Gated'
            BY <1>2, <1>3, GateElsewhere DEF Gated
        <2>4. Carried' /\ NeverServed' /\ Filtered' /\ RevOrder' /\ Started'
            BY <1>1, <1>2, <1>3, <2>1
            DEF Carried, NeverServed, Enabled, Filtered, Fits, RevOrder, Started
        <2> QED BY <2>2, <2>3, <2>4
    <1>4. CASE Go("followup") /\ UNCHANGED service
        BY <1>2, <1>4, GoTyped, Frame DEF TypeOK, Started, Writes
    <1>5. CASE Done /\ UNCHANGED service
        BY <1>2, <1>5, DoneTyped, Frame DEF TypeOK, Started
    <1>6. CASE /\ Enabled /\ Shown(ticket)
               /\ service' = [service EXCEPT !.lists[e] = [ticket |-> ticket, state |-> "shown"]]
        <2> DEFINE record == [ticket |-> ticket, state |-> "shown"]
        <2>1. record \in Records /\ record.state = "shown"
            BY <1>1 DEF Records
        <2>2. service' = [service EXCEPT !.lists[e] = record]
            BY <1>6
        <2> HIDE DEF record
        <2>3. /\ service' \in [rev: Revisions, lists: [Lists -> Records]]
              /\ service'.rev = service.rev /\ service'.lists[e].state = "shown"
              /\ \A d \in Lists \ {e} : service'.lists[d] = service.lists[d]
            BY <1>1, <2>1, <2>2, RecordWritten
        <2>4. /\ cmd' \in Commands /\ cmd'.at = "ticket"
              /\ cmd'.review.rev = cmd.review.rev /\ cmd'.review.cands = cmd.review.cands
              /\ cmd'.review.auth = cmd.review.auth
            BY <1>1, <1>6, ShownTyped
        <2>5. TypeOK'
            BY <1>2, <2>3, <2>4 DEF TypeOK
        <2>6. Gated'
            <3>1. ~Gate(e)'
                BY <1>2, <1>6, <2>3 DEF Gate, Consults, Enabled
            <3>2. \A d \in Lists \ {e} : Gate(d)' => agreed'[d] = files'[d].cands
                BY <1>2, <2>3, GateElsewhere
            <3> QED BY <3>1, <3>2 DEF Gated
        <2>7. Carried' /\ NeverServed' /\ Filtered' /\ RevOrder' /\ Started'
            BY <1>1, <1>2, <1>6, <2>3, <2>4
            DEF Carried, NeverServed, Enabled, Filtered, Fits, RevOrder, Started
        <2> QED BY <2>5, <2>6, <2>7
    <1> QED BY <1>0, <1>3, <1>4, <1>5, <1>6 DEF Register

LEMMA SaveTicketStep ==
    ASSUME ConfirmInv, SaveTicket
    PROVE  ConfirmInv'
    <1> USE DEF ConfirmInv
    <1>1. PICK e \in Lists : e = cmd.list
        BY DEF TypeOK, Commands
    <1>0. cmd.review \in Reviews /\ cmd.review.auth = None
        BY DEF SaveTicket, TypeOK, Commands, Carried
    <1>2. /\ files' \in [Lists -> Reviews] /\ files'[e] = cmd.review
          /\ \A d \in Lists \ {e} : files'[d] = files[d]
        BY <1>0, <1>1, FileWritten DEF SaveTicket
    <1>3. /\ cmd' \in Commands /\ cmd'.at \in {"card", "status", "followup"}
          /\ cmd'.review = cmd.review
        BY GoTyped DEF SaveTicket, Writes, TypeOK
    <1>4. UNCHANGED <<served, found, round, card, service, agreed, faults>>
        BY DEF SaveTicket
    <1>5. TypeOK'
        BY <1>2, <1>3, <1>4 DEF TypeOK
    <1>6. Gated'
        <2>1. ~Gate(e)'
            BY <1>0, <1>2, NoAuthNoGate
        <2>2. \A d \in Lists \ {e} : Gate(d)' => agreed'[d] = files'[d].cands
            BY <1>2, <1>4, GateElsewhere
        <2> QED BY <2>1, <2>2 DEF Gated
    <1>7. Carried' /\ NeverServed' /\ Filtered' /\ RevOrder' /\ Started'
        BY <1>0, <1>2, <1>3, <1>4
        DEF Carried, NeverServed, Enabled, Filtered, Fits, RevOrder, Started
    <1> QED BY <1>5, <1>6, <1>7

LEMMA ConfirmStep ==
    ASSUME ConfirmInv, Confirm
    PROVE  ConfirmInv'
    <1> USE DEF ConfirmInv
    <1>1. PICK e \in Lists : e = card.list
        BY DEF TypeOK, Cards
    <1>2. /\ files[e] \in Reviews /\ files[e].cands = card.cands
          /\ UNCHANGED <<served, found, files, round, card, faults>>
        BY <1>1 DEF Confirm, Answering, TypeOK
    <1> DEFINE Held(ticket) ==
                   [files[e] EXCEPT !.auth = [cands |-> files[e].cands, ticket |-> ticket]]
               Authorized(ticket) ==
                   cmd' = [at |-> "saveAuth", by |-> "confirm", list |-> e, review |-> Held(ticket)]
    <1>3. ASSUME NEW ticket \in {None} \cup Tickets, Authorized(ticket)
          PROVE  /\ cmd' \in Commands /\ cmd'.at = "saveAuth" /\ cmd'.list = e
                 /\ cmd'.review.cands = files[e].cands /\ cmd'.review.rev = files[e].rev
                 /\ cmd'.review.ticket = files[e].ticket /\ cmd'.review.auth.ticket = ticket
        <2>1. /\ Held(ticket) \in Reviews /\ Held(ticket).cands = files[e].cands
              /\ Held(ticket).rev = files[e].rev /\ Held(ticket).ticket = files[e].ticket
              /\ Held(ticket).auth.ticket = ticket
            BY <1>2 DEF Reviews, Receipts
        <2> HIDE DEF Held
        <2> QED BY <1>3, <2>1 DEF Commands, Writes
    <1> HIDE DEF Held
    <1>4. CASE /\ cmd' = [at |-> "authCard", by |-> "confirm", list |-> e, review |-> files[e]]
               /\ UNCHANGED <<service, agreed>>
        <2>1. /\ cmd' \in Commands /\ cmd'.at = "authCard"
              /\ cmd'.review \in {files[d] : d \in Lists}
            BY <1>2, <1>4 DEF Commands, Writes
        <2> QED BY <1>2, <1>4, <2>1, Frame DEF TypeOK, Started
    <1>5. CASE Authorized(None) /\ UNCHANGED <<service, agreed>>
        <2>1. TypeOK'
            BY <1>2, <1>3, <1>5 DEF TypeOK
        <2>2. Gated'
            BY <1>2, <1>5, GateElsewhere DEF Gated
        <2>3. Carried'
            BY <1>1, <1>2, <1>3, <1>5 DEF Carried
        <2>4. RevOrder' /\ NeverServed' /\ Filtered' /\ Started'
            BY <1>2, <1>3, <1>5 DEF RevOrder, NeverServed, Enabled, Filtered, Fits, Started
        <2> QED BY <2>1, <2>2, <2>3, <2>4
    <1>6. CASE /\ Consults(files[e]) /\ files[e].ticket # None
               /\ service' = [service EXCEPT !.lists[e].state = "confirmed"]
               /\ agreed' = [agreed EXCEPT ![e] = card.cands]
               /\ Authorized(files[e].ticket) \/ Done
        <2>1. /\ service' \in [rev: Revisions, lists: [Lists -> Records]]
              /\ service'.rev = service.rev
              /\ \A d \in Lists \ {e} : service'.lists[d] = service.lists[d]
            BY <1>6, StateWritten
        <2>2. /\ agreed' \in [Lists -> {None} \cup SUBSET Jobs] /\ agreed'[e] = card.cands
              /\ \A d \in Lists \ {e} : agreed'[d] = agreed[d]
            BY <1>2, <1>6 DEF TypeOK, Cards
        <2>3. \/ /\ cmd' \in Commands /\ cmd'.at = "saveAuth" /\ cmd'.list = e
                 /\ cmd'.review.cands = files[e].cands /\ cmd'.review.rev = files[e].rev
              \/ cmd' \in Commands /\ cmd'.at = "idle" /\ cmd'.review = NoReview
            BY <1>2, <1>3, <1>6, DoneTyped DEF Reviews
        <2>4. TypeOK'
            BY <1>2, <2>1, <2>2, <2>3 DEF TypeOK
        <2>5. Gated'
            <3>1. Gate(e)' => agreed'[e] = files'[e].cands
                BY <1>2, <2>2
            <3>2. \A d \in Lists \ {e} : Gate(d)' => agreed'[d] = files'[d].cands
                BY <1>2, <2>1, <2>2, GateElsewhere
            <3> QED BY <3>1, <3>2 DEF Gated
        <2>6. Carried'
            BY <1>1, <1>2, <2>2, <2>3 DEF Carried
        <2>7. Enabled
            BY <1>6 DEF NeverServed
        <2>8. NeverServed' /\ Started'
            BY <1>2, <2>7 DEF NeverServed, Enabled, Started
        <2>9. RevOrder' /\ Filtered'
            BY <1>2, <2>1, <2>3 DEF RevOrder, Filtered, Fits, NoReview, TypeOK, Rounds, Revisions
        <2> QED BY <2>4, <2>5, <2>6, <2>8, <2>9
    <1> QED BY <1>1, <1>4, <1>5, <1>6 DEF Confirm, Stands, Held

LEMMA SaveAuthStep ==
    ASSUME ConfirmInv, SaveAuth
    PROVE  ConfirmInv'
    <1> USE DEF ConfirmInv
    <1>1. PICK e \in Lists : e = cmd.list
        BY DEF TypeOK, Commands
    <1> DEFINE told == IF cmd.review.auth.ticket = None THEN card.cands ELSE agreed[e]
    <1>2. cmd.review \in Reviews /\ cmd.review.cands = card.cands /\ told = card.cands
        BY <1>1 DEF SaveAuth, TypeOK, Commands, Carried
    <1>3. told \in SUBSET Jobs
        BY <1>2 DEF TypeOK, Cards
    <1>4. agreed' = [agreed EXCEPT ![e] = told]
        BY <1>1 DEF SaveAuth
    <1> HIDE DEF told
    <1>5. /\ files' \in [Lists -> Reviews] /\ files'[e] = cmd.review
          /\ \A d \in Lists \ {e} : files'[d] = files[d]
        BY <1>1, <1>2, FileWritten DEF SaveAuth
    <1>6. round' \in Rounds /\ round'.rev = round.rev /\ round'.cancelled = round.cancelled /\ Started'
        BY <1>1, DisownedTyped DEF SaveAuth
    <1>7. cmd' \in Commands /\ cmd'.at = "authCard" /\ cmd'.review = cmd.review
        BY GoTyped DEF SaveAuth, Writes, TypeOK
    <1>8. /\ agreed' \in [Lists -> {None} \cup SUBSET Jobs] /\ agreed'[e] = told
          /\ \A d \in Lists \ {e} : agreed'[d] = agreed[d]
        BY <1>3, <1>4 DEF TypeOK
    <1>9. UNCHANGED <<served, found, card, service, faults>>
        BY DEF SaveAuth
    <1>10. TypeOK'
        BY <1>5, <1>6, <1>7, <1>8, <1>9 DEF TypeOK
    <1>11. Gated'
        <2>1. agreed'[e] = files'[e].cands
            BY <1>2, <1>5, <1>8
        <2>2. \A d \in Lists \ {e} : Gate(d)' => agreed'[d] = files'[d].cands
            BY <1>5, <1>6, <1>8, <1>9, GateElsewhere
        <2> QED BY <2>1, <2>2 DEF Gated
    <1>12. Carried' /\ RevOrder'
        BY <1>5, <1>6, <1>7, <1>9 DEF Carried, RevOrder
    <1>13. NeverServed' /\ Filtered'
        BY <1>5, <1>6, <1>7, <1>9 DEF NeverServed, Enabled, Filtered, Fits
    <1> QED BY <1>6, <1>10, <1>11, <1>12, <1>13

\* A cancellation, by itself or as an exclusion that leaves nothing.
LEMMA CancelStep ==
    ASSUME ConfirmInv, NEW e \in Lists, NEW review \in Reviews,
           review.ticket = files[e].ticket, review.rev = files[e].rev, Fits(review),
           CancelList(e, review), UNCHANGED <<served, found, files, round, card, faults>>
    PROVE  ConfirmInv'
    <1> USE DEF ConfirmInv
    <1>1. cmd' \in Commands /\ cmd'.at = "followup" /\ cmd'.review = review
        BY DEF CancelList, Commands, Writes
    <1>2. CASE UNCHANGED <<service, agreed>>
        <2>1. TypeOK'
            BY <1>1, <1>2 DEF TypeOK
        <2>2. Gated'
            BY <1>2, GateElsewhere DEF Gated
        <2>3. Carried' /\ RevOrder' /\ Started'
            BY <1>1, <1>2 DEF Carried, RevOrder, Started
        <2>4. NeverServed' /\ Filtered'
            BY <1>1, <1>2 DEF NeverServed, Enabled, Filtered, Fits
        <2> QED BY <2>1, <2>2, <2>3, <2>4
    <1>3. CASE /\ review.ticket # None
               /\ service' = [service EXCEPT !.lists[e].state = "cancelled"]
               /\ agreed' = [agreed EXCEPT ![e] = None]
        <2>1. /\ service' \in [rev: Revisions, lists: [Lists -> Records]]
              /\ service'.rev = service.rev /\ service'.lists[e].state = "cancelled"
              /\ \A d \in Lists \ {e} : service'.lists[d] = service.lists[d]
            BY <1>3, StateWritten
        <2>2. /\ agreed' \in [Lists -> {None} \cup SUBSET Jobs]
              /\ \A d \in Lists \ {e} : agreed'[d] = agreed[d]
            BY <1>3 DEF TypeOK
        <2>3. TypeOK'
            BY <1>1, <2>1, <2>2 DEF TypeOK
        <2>4. Gated'
            <3>1. ~Gate(e)'
                BY <1>3, <2>1 DEF Gate, Consults, Stands
            <3>2. \A d \in Lists \ {e} : Gate(d)' => agreed'[d] = files'[d].cands
                BY <2>1, <2>2, GateElsewhere
            <3> QED BY <3>1, <3>2 DEF Gated
        <2>5. Carried' /\ RevOrder' /\ Started'
            BY <1>1, <2>1 DEF Carried, RevOrder, Started
        <2>6. Enabled
            BY <1>3 DEF NeverServed
        <2>7. NeverServed' /\ Filtered'
            BY <1>1, <2>6 DEF NeverServed, Enabled, Filtered, Fits
        <2> QED BY <2>3, <2>4, <2>5, <2>7
    <1> QED BY <1>2, <1>3 DEF CancelList

LEMMA CancelChosenStep ==
    ASSUME ConfirmInv, Cancel
    PROVE  ConfirmInv'
    BY CancelStep DEF ConfirmInv, Cancel, TypeOK, Cards, Filtered

LEMMA ExcludeStep ==
    ASSUME NEW out \in SUBSET Jobs, ConfirmInv, Exclude(out)
    PROVE  ConfirmInv'
    <1> USE DEF ConfirmInv
    <1>1. PICK e \in Lists : e = card.list
        BY DEF TypeOK, Cards
    <1> DEFINE left == files[e].cands \ out
               review == [files[e] EXCEPT !.cands = left, !.excluded = @ \cup out, !.auth = None]
               shown == [review EXCEPT !.preview = left]
    <1>2. files[e] \in Reviews /\ Fits(files[e])
        BY DEF TypeOK, Filtered
    <1>3. /\ review \in Reviews /\ review.ticket = files[e].ticket
          /\ review.rev = files[e].rev /\ review.auth = None /\ review.cands = left
        BY <1>2 DEF Reviews
    <1>4. /\ shown \in Reviews /\ shown.ticket = files[e].ticket
          /\ shown.rev = files[e].rev /\ shown.auth = None /\ shown.cands = left
        BY <1>2 DEF Reviews
    <1>5. left \subseteq files[e].cands
        OBVIOUS
    <1>6. UNCHANGED <<served, found, files, round, card, faults>>
        BY DEF Exclude
    <1>7. \/ CancelList(e, review)
          \/ /\ cmd' = [at |-> "save", by |-> "exclude", list |-> e, review |-> shown]
             /\ UNCHANGED <<service, agreed>>
        BY <1>1 DEF Exclude
    <1> HIDE DEF left, review, shown
    <1>8. Fits(review) /\ Fits(shown)
        BY <1>2, <1>3, <1>4, <1>5 DEF Fits
    <1>9. CASE CancelList(e, review)
        BY <1>3, <1>6, <1>8, <1>9, CancelStep
    <1>10. CASE /\ cmd' = [at |-> "save", by |-> "exclude", list |-> e, review |-> shown]
                /\ UNCHANGED <<service, agreed>>
        <2>1. TypeOK'
            BY <1>4, <1>6, <1>10 DEF TypeOK, Commands, Writes
        <2>2. Gated'
            BY <1>6, <1>10, GateElsewhere DEF Gated
        <2>3. Carried' /\ RevOrder' /\ Started'
            BY <1>4, <1>6, <1>10 DEF Carried, RevOrder, Started
        <2>4. NeverServed' /\ Filtered'
            BY <1>4, <1>6, <1>8, <1>10 DEF NeverServed, Enabled, Filtered, Fits
        <2> QED BY <2>1, <2>2, <2>3, <2>4
    <1> QED BY <1>7, <1>9, <1>10

LEMMA RegisterFollowupStep ==
    ASSUME ConfirmInv, RegisterFollowup
    PROVE  ConfirmInv'
    <1> USE DEF ConfirmInv
    <1>1. PICK e \in Lists : e = cmd.list
        BY DEF TypeOK, Commands
    <1>2. UNCHANGED <<served, found, files, card, service, faults>>
        BY DEF RegisterFollowup
    <1>3. CASE (Go("dropAuth") \/ Done) /\ UNCHANGED <<round, agreed>>
        BY <1>2, <1>3, GoTyped, DoneTyped, Frame DEF TypeOK, Writes, Started
    <1>4. CASE /\ round' = [round EXCEPT !.cancelled = @ \cup {e}, !.asked = e,
                                         !.answered = FALSE, !.status = "after_cancel"]
               /\ agreed' = [agreed EXCEPT ![e] = None]
               /\ Go("followupCard")
        <2>1. /\ round' \in Rounds /\ round'.rev = round.rev /\ e \in round'.cancelled
              /\ round.cancelled \subseteq round'.cancelled /\ Started'
            BY <1>4 DEF TypeOK, Rounds, Statuses, Started
        <2>2. /\ agreed' \in [Lists -> {None} \cup SUBSET Jobs]
              /\ \A d \in Lists \ {e} : agreed'[d] = agreed[d]
            BY <1>4 DEF TypeOK
        <2>3. cmd' \in Commands /\ cmd'.at = "followupCard" /\ cmd'.review = cmd.review
            BY <1>4, GoTyped DEF Writes, TypeOK
        <2>4. TypeOK'
            BY <1>2, <2>1, <2>2, <2>3 DEF TypeOK
        <2>5. Gated'
            <3>1. ~Gate(e)'
                BY <2>1 DEF Gate
            <3>2. \A d \in Lists \ {e} : Gate(d)' => agreed'[d] = files'[d].cands
                BY <1>2, <2>1, <2>2, GateElsewhere
            <3> QED BY <3>1, <3>2 DEF Gated
        <2>6. Carried' /\ RevOrder'
            BY <1>2, <2>1, <2>3 DEF Carried, RevOrder
        <2>7. NeverServed' /\ Filtered'
            BY <1>2, <2>1, <2>3 DEF NeverServed, Enabled, Filtered, Fits
        <2> QED BY <2>1, <2>4, <2>5, <2>6, <2>7
    <1> QED BY <1>1, <1>3, <1>4 DEF RegisterFollowup

LEMMA DropAuthStep ==
    ASSUME ConfirmInv, DropAuth
    PROVE  ConfirmInv'
    <1> USE DEF ConfirmInv
    <1>1. PICK e \in Lists : e = cmd.list
        BY DEF TypeOK, Commands
    <1> DEFINE review == [cmd.review EXCEPT !.auth = None]
    <1>2. /\ review \in Reviews /\ review.auth = None /\ review.cands = cmd.review.cands
          /\ review.rev = cmd.review.rev /\ review.ticket = cmd.review.ticket
        BY DEF TypeOK, Commands, Reviews
    <1>3. files' = [files EXCEPT ![e] = review]
        BY <1>1 DEF DropAuth
    <1> HIDE DEF review
    <1>4. /\ files' \in [Lists -> Reviews] /\ files'[e] = review
          /\ \A d \in Lists \ {e} : files'[d] = files[d]
        BY <1>2, <1>3, FileWritten
    <1>5. round' \in Rounds /\ round'.rev = round.rev /\ round'.cancelled = round.cancelled /\ Started'
        BY <1>1, DisownedTyped DEF DropAuth
    <1>6. cmd' \in Commands /\ cmd'.at = "idle" /\ cmd'.review = NoReview
        BY DoneTyped DEF DropAuth
    <1>7. UNCHANGED <<served, found, card, service, agreed, faults>>
        BY DEF DropAuth
    <1>8. TypeOK'
        BY <1>4, <1>5, <1>6, <1>7 DEF TypeOK
    <1>9. Gated'
        <2>1. ~Gate(e)'
            BY <1>2, <1>4, NoAuthNoGate
        <2>2. \A d \in Lists \ {e} : Gate(d)' => agreed'[d] = files'[d].cands
            BY <1>4, <1>5, <1>7, GateElsewhere
        <2> QED BY <2>1, <2>2 DEF Gated
    <1>10. Carried' /\ RevOrder'
        BY <1>2, <1>4, <1>5, <1>6, <1>7 DEF Carried, RevOrder, TypeOK, Rounds, Revisions, NoReview
    <1>11. NeverServed' /\ Filtered'
        BY <1>2, <1>4, <1>5, <1>6, <1>7 DEF NeverServed, Enabled, Filtered, Fits, NoReview
    <1> QED BY <1>5, <1>8, <1>9, <1>10, <1>11

LEMMA UpdateCriteriaStep ==
    ASSUME ConfirmInv, UpdateCriteria
    PROVE  ConfirmInv'
    <1> USE DEF ConfirmInv
    <1>1. UNCHANGED <<served, found, files, round, card, faults>>
        BY DEF UpdateCriteria
    <1>2. round.rev \in Revisions /\ service.rev \in Revisions
        BY DEF TypeOK, Rounds
    <1>3. /\ service' \in [rev: Revisions, lists: [Lists -> Records]]
          /\ service'.lists = service.lists /\ round.rev < service'.rev
        BY <1>2 DEF UpdateCriteria, TypeOK, RevOrder, Revisions
    <1>4. cmd' \in Commands /\ cmd'.at = "saveCriteria" /\ cmd'.review = NoReview
        BY ConstantsTyped DEF UpdateCriteria, Idle, Commands, Writes
    <1>5. agreed' = IF Enabled THEN [d \in Lists |-> None] ELSE agreed
        BY DEF UpdateCriteria
    <1>6. TypeOK'
        BY <1>1, <1>3, <1>4, <1>5 DEF TypeOK
    <1>7. Gated'
        <2>1. CASE Enabled
            <3>1. round.rev # service'.rev
                BY <1>2, <1>3 DEF Revisions
            <3>2. \A d \in Lists : ~Gate(d)'
                BY <1>1, <2>1, <3>1 DEF Gate, CriteriaCurrent, Consults, Enabled, Verified, Stands
            <3> QED BY <3>2 DEF Gated
        <2>2. CASE ~Enabled
            <3>1. \A d \in Lists : Gate(d)' => Gate(d)
                BY <1>1, <2>2 DEF Gate, CriteriaCurrent, Consults, Enabled, NeverServed
            <3> QED BY <1>1, <1>5, <2>2, <3>1 DEF Gated
        <2> QED BY <2>1, <2>2
    <1>8. Carried' /\ RevOrder' /\ Started'
        BY <1>1, <1>2, <1>3, <1>4 DEF Carried, RevOrder, Started, NoReview, Revisions
    <1>9. NeverServed' /\ Filtered'
        BY <1>1, <1>3, <1>4 DEF NeverServed, Enabled, Filtered, Fits, NoReview
    <1> QED BY <1>6, <1>7, <1>8, <1>9

\* The round moves to the revision of the service: no file is of it yet.
LEMMA RoundMoves ==
    ASSUME ConfirmInv, round' \in Rounds, round'.rev = service.rev, round.rev < service.rev,
           UNCHANGED <<served, files, service>>
    PROVE  /\ \A d \in Lists : ~Gate(d)' /\ files'[d].rev <= round'.rev
           /\ cmd.review.rev <= round'.rev
           /\ Enabled'
    <1> USE DEF ConfirmInv
    <1>1. round.rev \in Revisions /\ service.rev \in Revisions
        BY DEF TypeOK, Rounds
    <1>2. \A d \in Lists : files[d].rev \in Revisions /\ files[d].rev <= round.rev
        BY DEF TypeOK, Reviews, RevOrder
    <1>3. cmd.review.rev \in Revisions /\ cmd.review.rev <= round.rev
        BY DEF TypeOK, Commands, Reviews, RevOrder
    <1>4. round'.rev # 0 /\ \A d \in Lists : files'[d].rev # round'.rev /\ files'[d].rev <= round'.rev
        BY <1>1, <1>2 DEF Revisions
    <1>5. cmd.review.rev <= round'.rev
        BY <1>1, <1>3 DEF Revisions
    <1> QED BY <1>4, <1>5 DEF Gate, CriteriaCurrent, Enabled

LEMMA SaveCriteriaStep ==
    ASSUME ConfirmInv, SaveCriteria
    PROVE  ConfirmInv'
    <1> USE DEF ConfirmInv
    <1>1. UNCHANGED <<served, found, files, card, service, faults>>
        BY DEF SaveCriteria
    <1>2. round' \in Rounds /\ round'.rev = service.rev /\ Started'
        BY DEF SaveCriteria, TypeOK, Rounds, Statuses, Started
    <1>3. round.rev < service.rev
        BY DEF SaveCriteria, RevOrder
    <1>4. cmd' \in Commands /\ cmd'.at = "clear" /\ cmd'.review = cmd.review
        BY GoTyped DEF SaveCriteria, Writes, TypeOK
    <1>5. agreed' \in [Lists -> {None} \cup SUBSET Jobs]
        BY DEF SaveCriteria
    <1>6. TypeOK'
        BY <1>1, <1>2, <1>4, <1>5 DEF TypeOK
    <1>7. /\ \A d \in Lists : ~Gate(d)' /\ files'[d].rev <= round'.rev
          /\ cmd.review.rev <= round'.rev /\ Enabled'
        BY <1>1, <1>2, <1>3, RoundMoves
    <1>8. Gated' /\ Carried' /\ NeverServed'
        BY <1>4, <1>7 DEF Gated, Carried, NeverServed
    <1>9. RevOrder' /\ Filtered'
        BY <1>1, <1>2, <1>4, <1>7 DEF RevOrder, Filtered, Fits, TypeOK, Revisions
    <1> QED BY <1>2, <1>6, <1>8, <1>9

LEMMA CatchUpStep ==
    ASSUME ConfirmInv, CatchUp
    PROVE  ConfirmInv'
    <1> USE DEF ConfirmInv
    <1>1. UNCHANGED <<served, found, files, card, service, cmd, agreed, faults>>
        BY DEF CatchUp
    <1>2. round' \in Rounds /\ round'.rev = service.rev /\ Started'
        BY DEF CatchUp, TypeOK, Rounds, Started
    <1>3. round.rev < service.rev /\ cmd.at = "idle"
        BY ConstantsTyped DEF CatchUp, TypeOK, Rounds, Revisions
    <1>4. TypeOK'
        BY <1>1, <1>2 DEF TypeOK
    <1>5. /\ \A d \in Lists : ~Gate(d)' /\ files'[d].rev <= round'.rev
          /\ cmd.review.rev <= round'.rev /\ Enabled'
        BY <1>1, <1>2, <1>3, RoundMoves
    <1>6. Gated' /\ Carried' /\ NeverServed'
        BY <1>1, <1>3, <1>5 DEF Gated, Carried, NeverServed
    <1>7. RevOrder' /\ Filtered'
        BY <1>1, <1>2, <1>3, <1>5 DEF RevOrder, Filtered, Fits, TypeOK, Revisions
    <1> QED BY <1>2, <1>4, <1>6, <1>7

LEMMA DieStep ==
    ASSUME ConfirmInv, Die
    PROVE  ConfirmInv'
    <1> USE DEF ConfirmInv
    <1>1. UNCHANGED <<served, found, round, card, service, agreed>>
        BY DEF Die
    <1>2. faults' \in 0..MaxFaults
        BY DEF Die, TypeOK
    <1>3. cmd' \in Commands /\ cmd'.at = "idle" /\ cmd'.review = NoReview
        BY ConstantsTyped DEF Die
    <1>4. /\ files' \in [Lists -> Reviews]
          /\ \A d \in Lists : \/ files'[d] = files[d]
                              \/ files'[d] = [files[d] EXCEPT !.is = "torn"]
        <2>1. CASE files' = files
            BY <2>1 DEF TypeOK
        <2>2. CASE files' = [files EXCEPT ![cmd.list].is = "torn"]
            <3>1. PICK e \in Lists : e = cmd.list
                BY DEF TypeOK, Commands
            <3> DEFINE review == [files[e] EXCEPT !.is = "torn"]
            <3>2. review \in Reviews
                BY DEF TypeOK, Reviews
            <3>3. files' = [files EXCEPT ![e] = review]
                BY <2>2, <3>1
            <3> HIDE DEF review
            <3>4. /\ files' \in [Lists -> Reviews] /\ files'[e] = review
                  /\ \A d \in Lists \ {e} : files'[d] = files[d]
                BY <3>2, <3>3, FileWritten
            <3> QED BY <3>4 DEF review
        <2> QED BY <2>1, <2>2 DEF Die
    <1>5. \A d \in Lists : /\ files'[d] = files[d] \/ files'[d].is = "torn"
                           /\ files'[d].cands = files[d].cands /\ files'[d].rev = files[d].rev
                           /\ files'[d].ticket = files[d].ticket
        BY <1>4 DEF TypeOK, Reviews
    <1>6. TypeOK'
        BY <1>1, <1>2, <1>3, <1>4 DEF TypeOK
    <1>7. Gated'
        <2> SUFFICES ASSUME NEW d \in Lists PROVE Gate(d)' => agreed'[d] = files'[d].cands
            BY DEF Gated
        <2>1. CASE files'[d] = files[d]
            BY <1>1, <2>1, GateElsewhere
        <2>2. CASE files'[d].is = "torn"
            BY <2>2 DEF Gate
        <2> QED BY <1>5, <2>1, <2>2
    <1>8. Carried' /\ RevOrder' /\ Started'
        BY <1>1, <1>3, <1>5 DEF Carried, RevOrder, Started, NoReview, TypeOK, Rounds, Revisions
    <1>9. NeverServed' /\ Filtered'
        BY <1>1, <1>3, <1>5 DEF NeverServed, Enabled, Filtered, Fits, NoReview
    <1> QED BY <1>6, <1>7, <1>8, <1>9

LEMMA ConfirmNext ==
    ASSUME ConfirmInv, [Next]_vars
    PROVE  ConfirmInv'
    <1>1. CASE Command
        BY <1>1, SaveStep, RegisterStep, SaveTicketStep, ShowCardStep, SetStatusStep,
           SaveAuthStep, ShowAuthorizedStep, SetReviewedStep, RegisterFollowupStep,
           ShowFollowupStep, DropAuthStep, ClearStep, SaveCriteriaStep DEF Command
    <1>2. CASE User
        BY <1>2, ConfirmStep, AskExclusionsStep, CancelChosenStep, ExcludeStep,
           AnswerFollowupStep, SkipStep, UpdateCriteriaStep DEF User
    <1>3. CASE Host
        BY <1>3, ReviewStep, DiscoverStep, CatchUpStep, DisplaceStep, StartStep,
           MakeWorkStep, BeginStep, EndWorkStep DEF Host
    <1>4. CASE Die
        BY <1>4, DieStep
    <1>5. CASE UNCHANGED vars
        <2>1. TypeOK' /\ Carried' /\ RevOrder' /\ NeverServed' /\ Filtered' /\ Started'
            BY <1>5 DEF ConfirmInv, TypeOK, Carried, RevOrder, NeverServed, Enabled, Filtered,
                        Fits, Started, vars
        <2>2. Gated'
            BY <1>5, GateElsewhere DEF ConfirmInv, Gated, vars
        <2> QED BY <2>1, <2>2 DEF ConfirmInv
    <1> QED BY <1>1, <1>2, <1>3, <1>4, <1>5 DEF Next

\* Only "work begin" comes to an issued permission, and only past the gate.
LEMMA PermitsBegins ==
    ASSUME ConfirmInv, [Next]_vars, Permits
    PROVE  /\ round.source \in Lists /\ Gate(round.source)
           /\ round'.source = round.source /\ round'.rev = round.rev
           /\ round'.cancelled = round.cancelled
           /\ UNCHANGED <<files, service, agreed>>
    <1>1. round \in Rounds
        BY DEF ConfirmInv, TypeOK
    <1>2. round.work # "issued" /\ round'.work = "issued"
        BY DEF Permits
    <1>3. ~Command
        <2>1. ~Save /\ ~SaveAuth /\ ~DropAuth
            BY <1>1, <1>2 DEF Save, SaveAuth, DropAuth, Disowned, Rounds
        <2>2. ~Register /\ ~SaveTicket /\ ~ShowCard /\ ~ShowAuthorized /\ ~ShowFollowup /\ ~Clear
            BY <1>2 DEF Register, SaveTicket, ShowCard, ShowAuthorized, ShowFollowup, Clear
        <2>3. ~SetStatus /\ ~SetReviewed /\ ~RegisterFollowup /\ ~SaveCriteria
            BY <1>1, <1>2 DEF SetStatus, SetReviewed, RegisterFollowup, SaveCriteria, Rounds
        <2> QED BY <2>1, <2>2, <2>3 DEF Command
    <1>4. ~User
        <2>1. ~Confirm /\ ~AskExclusions /\ ~Cancel /\ ~UpdateCriteria
            BY <1>2 DEF Confirm, AskExclusions, Cancel, UpdateCriteria
        <2>2. \A out : ~Exclude(out)
            BY <1>2 DEF Exclude
        <2>3. ~Skip /\ \A choice : ~AnswerFollowup(choice)
            BY <1>1, <1>2 DEF Skip, AnswerFollowup, Rounds
        <2> QED BY <2>1, <2>2, <2>3 DEF User
    <1>5. ~Die /\ ~UNCHANGED vars
        BY <1>2 DEF Die, vars
    <1>6. CASE Host
        <2>1. ~Displace /\ \A d, kept : ~Review(d, kept)
            BY <1>2 DEF Displace, Review
        <2>2. ~Discover /\ ~CatchUp /\ ~EndWork /\ ~MakeWork
            BY <1>1, <1>2 DEF Discover, CatchUp, EndWork, MakeWork, Rounds
        <2>3. \A d : ~Start(d)
            BY <1>1, <1>2 DEF Start, Rounds
        <2>4. Begin
            BY <1>6, <2>1, <2>2, <2>3 DEF Host
        <2> QED BY <1>1, <2>4 DEF Begin, ConfirmInv, Started, Rounds
    <1> QED BY <1>3, <1>4, <1>5, <1>6 DEF Next

LEMMA SpecConfirm == Spec => []ConfirmInv
    <1>1. ConfirmInv /\ [Next]_vars => ConfirmInv'
        BY ConfirmNext
    <1> QED BY InitConfirm, <1>1, PTL DEF Spec

\* Review files, the card, the round, the record of the service and the command
\* under way keep their form through every order of commands, answers and deaths.
THEOREM ConfirmationTyped == Spec => []TypeOK
    <1>1. ConfirmInv => TypeOK
        BY DEF ConfirmInv
    <1> QED BY SpecConfirm, <1>1, PTL

\* What a work is permitted for is the list as the user last confirmed it: the
\* gate of delivery.py passes no half-written, shortened or reconditioned list.
THEOREM PermittedAsConfirmed == Spec => SentAsConfirmed
    <1>1. ConfirmInv /\ [Next]_vars => (Permits => agreed[round.source] = files[round.source].cands)
        BY PermitsBegins DEF ConfirmInv, Gated
    <1>2. ConfirmInv /\ [Next]_vars
              => [Permits => agreed[round.source] = files[round.source].cands]_vars
        BY <1>1
    <1> QED BY SpecConfirm, <1>2, PTL DEF Spec, SentAsConfirmed

\* A list the round or the service knows as cancelled is never permitted again,
\* also where no record of the service is asked for.
THEOREM CancelledStaysUnsent == Spec => CancelledNotSent
    <1> DEFINE NotCancelled == /\ round.source \notin round.cancelled
                               /\ service.lists[round.source].state # "cancelled"
    <1>1. ASSUME ConfirmInv, [Next]_vars, Permits
          PROVE  NotCancelled
        <2>1. round.source \in Lists /\ Gate(round.source)
            BY <1>1, PermitsBegins
        <2>2. CASE Consults(files[round.source])
            BY <2>1, <2>2 DEF Gate
        <2>3. CASE ~Consults(files[round.source])
            BY <1>1, <2>1, <2>3 DEF Gate, Consults, ConfirmInv, NeverServed
        <2> QED BY <2>2, <2>3
    <1> HIDE DEF NotCancelled
    <1>2. ConfirmInv /\ [Next]_vars => [Permits => NotCancelled]_vars
        BY <1>1
    <1>3. Spec => [][Permits => NotCancelled]_vars
        BY SpecConfirm, <1>2, PTL DEF Spec
    <1> QED BY <1>3 DEF CancelledNotSent, NotCancelled

\* Only jobs the criteria of the round leave are ever permitted.
THEOREM PermittedWithinCriteria == Spec => SentWithinCriteria
    <1> DEFINE Within == files[round.source].cands \subseteq Allowed[round.rev]
    <1>1. ASSUME ConfirmInv, [Next]_vars, Permits, round.rev # 0
          PROVE  Within
        <2>1. round.source \in Lists /\ Gate(round.source)
            BY <1>1, PermitsBegins
        <2>2. files[round.source].rev = round.rev
            BY <1>1, <2>1 DEF Gate, CriteriaCurrent
        <2> QED BY <1>1, <2>1, <2>2 DEF ConfirmInv, Filtered, Fits
    <1> HIDE DEF Within
    <1>2. ConfirmInv /\ [Next]_vars => [Permits /\ round.rev # 0 => Within]_vars
        BY <1>1
    <1>3. Spec => [][Permits /\ round.rev # 0 => Within]_vars
        BY SpecConfirm, <1>2, PTL DEF Spec
    <1> QED BY <1>3 DEF SentWithinCriteria, Within
=============================================================================
