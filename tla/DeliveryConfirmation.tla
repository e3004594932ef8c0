------------------------ MODULE DeliveryConfirmation ------------------------
(***************************************************************************)
(* From a reviewed list to the permission to send it, on one platform:       *)
(* application/review.py, delivery_confirmation.py, delivery_followup.py,    *)
(* workflow_delivery.py, round_criteria.py and the gate of delivery.py.      *)
(*                                                                          *)
(* Four files tell what the user has decided: the review file of the list,   *)
(* the round, the pending card, and the record of the service.  A command    *)
(* writes them one after the other and can die in between; the next command  *)
(* must not take half an answer for a whole one.  Commands are serial        *)
(* (infra/native_command_lock.py), so "cmd" is the only one under way.       *)
(*                                                                          *)
(* A preview, its identifier and the digest of its candidates are the set of *)
(* jobs shown.  The account and the round do not change here.                *)
(***************************************************************************)
EXTENDS Naturals, FiniteSets

CONSTANTS
    Jobs,
    MaxLists,       \* lists one after the other: each but the first a new search
    Selected,       \* what the signed decision selects
    MaxRevision,    \* changes of the criteria
    Allowed,        \* what the criteria of each revision leave
    MaxFaults,      \* commands that die, with or without an answer of the service
    None

Revisions == 0..MaxRevision
Lists == 1..MaxLists

ASSUME ConfirmationAssumption ==
    /\ MaxLists \in Nat \ {0} /\ MaxFaults \in Nat
    /\ Selected \in SUBSET Jobs
    /\ MaxRevision \in Nat /\ Allowed \in [Revisions -> SUBSET Jobs]
    /\ \A jobs \in SUBSET Jobs : jobs # None

VARIABLES
    served,     \* the round is one the service keeps its own record of
    found,      \* lists discovered so far
    files,      \* review file of each list
    round,      \* the platform's part of the round file
    card,       \* pending_interaction.json, as far as it is about a delivery
    service,    \* the record of the service
    cmd,        \* the command under way and the review it holds in memory
    agreed,     \* ghost: the list the user's last accepted answer confirms
    faults

vars == <<served, found, files, round, card, service, cmd, agreed, faults>>

Tickets == [cands: SUBSET Jobs, rev: Revisions]
Receipts == [cands: SUBSET Jobs, ticket: {None} \cup Tickets]
Reviews == [is: {"absent", "whole", "torn"}, cands: SUBSET Jobs, excluded: SUBSET Jobs,
            rev: Revisions, preview: {None} \cup SUBSET Jobs,
            ticket: {None} \cup Tickets, auth: {None} \cup Receipts]

NoReview == [is |-> "absent", cands |-> {}, excluded |-> {}, rev |-> 0, preview |-> None,
             ticket |-> None, auth |-> None]
Idle == [at |-> "idle", by |-> "none", list |-> 1, review |-> NoReview]
NoCard == [stage |-> "none", list |-> 1, cands |-> {}]

Statuses == {"login_verified", "discovered", "awaiting", "reviewed", "after_cancel", "skipped"}
Rounds == [status: Statuses, rev: Revisions, source: Lists \cup {0}, held: BOOLEAN,
           work: {"none", "ready", "issued"},
           cancelled: SUBSET Lists, asked: Lists \cup {0}, answered: BOOLEAN]
Cards == [stage: {"none", "choice", "exclusions", "authorized", "after_cancel"},
          list: Lists, cands: SUBSET Jobs]
Records == [ticket: {None} \cup Tickets, state: {"none", "shown", "confirmed", "cancelled"}]
Writes == {"save", "register", "ticket", "card", "status", "saveAuth", "authCard", "authStatus",
           "followup", "followupCard", "dropAuth", "clear", "saveCriteria"}
Commands == [at: {"idle"} \cup Writes,
             by: {"none", "review", "exclude", "confirm", "cancel", "answer", "update"},
             list: Lists, review: Reviews]

TypeOK ==
    /\ served \in BOOLEAN /\ found \in Lists
    /\ files \in [Lists -> Reviews]
    /\ round \in Rounds
    /\ card \in Cards
    /\ service \in [rev: Revisions, lists: [Lists -> Records]]
    /\ cmd \in Commands
    /\ agreed \in [Lists -> {None} \cup SUBSET Jobs]
    /\ faults \in 0..MaxFaults

Init ==
    /\ served \in BOOLEAN
    /\ found = 1
    /\ files = [d \in Lists |-> NoReview]
    /\ round = [status |-> "discovered", rev |-> 0, source |-> 0, held |-> FALSE,
                work |-> "none", cancelled |-> {}, asked |-> 0, answered |-> FALSE]
    /\ card = NoCard
    /\ service = [rev |-> 0, lists |-> [d \in Lists |-> [ticket |-> None, state |-> "none"]]]
    /\ cmd = Idle
    /\ agreed = [d \in Lists |-> None]
    /\ faults = 0

MyTurn == round.status # "skipped"
AfterCancel == round.asked # 0 /\ ~round.answered

\* workflow_delivery.enabled, and what its answer and assert_authorized go by
Enabled == served \/ round.rev # 0
Consults(review) == Enabled \/ review.ticket # None

\* The service still stands behind the preview that a review file names.
Stands(d, review) ==
    /\ review.ticket # None
    /\ service.lists[d].ticket = review.ticket
    /\ service.lists[d].state # "cancelled"
    /\ review.ticket.rev = service.rev

\* A receipt of the service is about this very list and revision.
Verified(review, ticket) == ticket.cands = review.cands /\ ticket.rev = round.rev

\* round_criteria.assert_current, where it does not refuse
CriteriaCurrent(review) ==
    round.rev # 0 => service.rev = round.rev /\ review.rev = round.rev

Go(at) == cmd' = [cmd EXCEPT !.at = at]
Done == cmd' = Idle

\* A delivery was started with an authorization that the file now loses.
Disowned(d) == [round EXCEPT !.held = @ /\ round.source # d]
-----------------------------------------------------------------------------
(* The review command, and the part of an exclusion that goes the same way:   *)
(* file, service, file again, card, round.                                    *)

\* Mutation: the filter of the criteria is not applied to the list.
ReviewUnfiltered(d, kept) ==
    LET dropped == IF kept THEN files[d].excluded ELSE {}
        left == Selected
    IN /\ cmd = Idle /\ MyTurn /\ ~AfterCancel
       /\ d <= found /\ d \notin round.cancelled
       /\ kept => files[d].is = "whole"
       /\ round.rev # 0 => service.rev = round.rev
       /\ cmd' = [at |-> "save", by |-> "review", list |-> d,
                  review |-> [NoReview EXCEPT !.is = "whole", !.cands = left \ dropped,
                                              !.excluded = dropped, !.rev = round.rev]]
       /\ UNCHANGED <<served, found, files, round, card, service, agreed, faults>>

\* review_decision reads the review file, or the decision when it is given none.
Review(d, kept) ==
    LET dropped == IF kept THEN files[d].excluded ELSE {}
        left == IF round.rev = 0 THEN Selected ELSE Selected \cap Allowed[round.rev]
    IN /\ cmd = Idle /\ MyTurn /\ ~AfterCancel
       /\ d <= found /\ d \notin round.cancelled
       /\ kept => files[d].is = "whole"
       /\ round.rev # 0 => service.rev = round.rev
       /\ cmd' = [at |-> "save", by |-> "review", list |-> d,
                  review |-> [NoReview EXCEPT !.is = "whole", !.cands = left \ dropped,
                                              !.excluded = dropped, !.rev = round.rev]]
       /\ UNCHANGED <<served, found, files, round, card, service, agreed, faults>>

\* The first save: whatever was confirmed of this list is not any more.
Save ==
    /\ cmd.at = "save"
    /\ files' = [files EXCEPT ![cmd.list] = cmd.review]
    /\ round' = Disowned(cmd.list)
    /\ agreed' = [agreed EXCEPT ![cmd.list] = None]
    /\ Go("register")
    /\ UNCHANGED <<served, found, card, service, faults>>

\* Mutation: a list the service has cancelled is an error like any other.
RegisterGivesUp ==
    LET d == cmd.list
        ticket == [cands |-> cmd.review.cands, rev |-> round.rev]
        Shown(t) == cmd' = [cmd EXCEPT !.at = "ticket", !.review.ticket = t,
                                       !.review.preview = cmd.review.cands]
    IN /\ cmd.at = "register"
       /\ \/ ~Enabled /\ Shown(None) /\ UNCHANGED service
          \/ /\ Enabled /\ service.lists[d].state = "cancelled"
             /\ Done /\ UNCHANGED service
          \/ Enabled /\ service.rev # round.rev /\ Done /\ UNCHANGED service
          \/ /\ Enabled /\ service.lists[d].state # "cancelled" /\ service.rev = round.rev
             /\ Shown(ticket)
             /\ service' = [service EXCEPT !.lists[d] = [ticket |-> ticket, state |-> "shown"]]
       /\ UNCHANGED <<served, found, files, round, card, agreed, faults>>

\* The complete preview, known to the service where it keeps a record.
Register ==
    LET d == cmd.list
        ticket == [cands |-> cmd.review.cands, rev |-> round.rev]
        Shown(t) == cmd' = [cmd EXCEPT !.at = "ticket", !.review.ticket = t,
                                       !.review.preview = cmd.review.cands]
    IN /\ cmd.at = "register"
       /\ \/ ~Enabled /\ Shown(None) /\ UNCHANGED service
          \/ /\ Enabled /\ service.lists[d].state = "cancelled"
             /\ IF cmd.by = "review" THEN Go("followup") ELSE Done
             /\ UNCHANGED service
          \/ Enabled /\ service.rev # round.rev /\ Done /\ UNCHANGED service
          \/ /\ Enabled /\ service.lists[d].state # "cancelled" /\ service.rev = round.rev
             /\ Shown(ticket)
             /\ service' = [service EXCEPT !.lists[d] = [ticket |-> ticket, state |-> "shown"]]
       /\ UNCHANGED <<served, found, files, round, card, agreed, faults>>

\* A filter that leaves nothing may offer a new search instead of a preview.
SaveTicket ==
    /\ cmd.at = "ticket"
    /\ files' = [files EXCEPT ![cmd.list] = cmd.review]
    /\ IF cmd.review.cands # {} THEN Go("card")
       ELSE Go("status") \/ (round.rev # 0 /\ Go("followup"))
    /\ UNCHANGED <<served, found, round, card, service, agreed, faults>>

ShowCard ==
    /\ cmd.at = "card"
    /\ card' = [stage |-> "choice", list |-> cmd.list, cands |-> cmd.review.cands]
    /\ Go("status")
    /\ UNCHANGED <<served, found, files, round, service, agreed, faults>>

SetStatus ==
    /\ cmd.at = "status"
    /\ round' = [round EXCEPT !.status = IF cmd.review.cands = {} THEN "reviewed" ELSE "awaiting"]
    /\ Done
    /\ UNCHANGED <<served, found, files, card, service, agreed, faults>>
-----------------------------------------------------------------------------
(* respond_delivery_confirmation.  The card answers for the list it shows: the *)
(* file must still hold that very list.                                       *)

\* Mutation: the file behind the card is taken as it is.
AnsweringUnchecked ==
    /\ cmd = Idle /\ round.work = "none"
    /\ card.stage \in {"choice", "exclusions", "authorized"}
    /\ files[card.list].is = "whole" /\ CriteriaCurrent(files[card.list])

Answering ==
    LET review == files[card.list] IN
    /\ cmd = Idle /\ round.work = "none"
    /\ card.stage \in {"choice", "exclusions", "authorized"}
    /\ review.is = "whole" /\ CriteriaCurrent(review)
    /\ review.preview = review.cands /\ review.cands = card.cands

Confirm ==
    LET d == card.list
        review == files[d]
        Authorized(ticket) ==
            cmd' = [at |-> "saveAuth", by |-> "confirm", list |-> d,
                    review |-> [review EXCEPT !.auth = [cands |-> review.cands, ticket |-> ticket]]]
    IN /\ Answering
       /\ \/ /\ review.auth # None
             /\ cmd' = [at |-> "authCard", by |-> "confirm", list |-> d, review |-> review]
             /\ UNCHANGED <<service, agreed>>
          \/ /\ review.auth = None /\ ~Consults(review)
             /\ Authorized(None)
             /\ UNCHANGED <<service, agreed>>
          \/ /\ review.auth = None /\ Consults(review)
             /\ Stands(d, review)
             /\ service' = [service EXCEPT !.lists[d].state = "confirmed"]
             /\ agreed' = [agreed EXCEPT ![d] = card.cands]
             /\ IF Verified(review, review.ticket) THEN Authorized(review.ticket) ELSE Done
       /\ UNCHANGED <<served, found, files, round, card, faults>>

SaveAuth ==
    /\ cmd.at = "saveAuth"
    /\ files' = [files EXCEPT ![cmd.list] = cmd.review]
    /\ round' = Disowned(cmd.list)
    /\ agreed' = [agreed EXCEPT ![cmd.list] = IF cmd.review.auth.ticket = None
                                              THEN card.cands ELSE @]
    /\ Go("authCard")
    /\ UNCHANGED <<served, found, card, service, faults>>

ShowAuthorized ==
    /\ cmd.at = "authCard"
    /\ card' = [card EXCEPT !.stage = "authorized"]
    /\ Go("authStatus")
    /\ UNCHANGED <<served, found, files, round, service, agreed, faults>>

SetReviewed ==
    /\ cmd.at = "authStatus"
    /\ round' = [round EXCEPT !.status = "reviewed"]
    /\ Done
    /\ UNCHANGED <<served, found, files, card, service, agreed, faults>>

\* "exclude_jobs" without numbers asks for them.
AskExclusions ==
    /\ Answering
    /\ card' = [card EXCEPT !.stage = "exclusions"]
    /\ UNCHANGED <<served, found, files, round, service, cmd, agreed, faults>>

\* _cancel_delivery: the service hears of it before the round does.
CancelList(d, review) ==
    /\ \/ ~Consults(review) /\ UNCHANGED <<service, agreed>>
       \/ /\ Consults(review) /\ review.ticket # None
          /\ service.lists[d].ticket = review.ticket
          /\ service' = [service EXCEPT !.lists[d].state = "cancelled"]
          /\ agreed' = [agreed EXCEPT ![d] = None]
    /\ cmd' = [at |-> "followup", by |-> "cancel", list |-> d, review |-> review]

Cancel ==
    /\ Answering
    /\ CancelList(card.list, files[card.list])
    /\ UNCHANGED <<served, found, files, round, card, faults>>

Exclude(out) ==
    LET d == card.list
        left == files[d].cands \ out
        review == [files[d] EXCEPT !.cands = left, !.excluded = @ \cup out, !.auth = None]
    IN /\ Answering
       /\ out # {} /\ out \subseteq files[d].cands
       /\ IF left = {} THEN CancelList(d, review)
          ELSE /\ cmd' = [at |-> "save", by |-> "exclude", list |-> d,
                          review |-> [review EXCEPT !.preview = left]]
               /\ UNCHANGED <<service, agreed>>
       /\ UNCHANGED <<served, found, files, round, card, faults>>
-----------------------------------------------------------------------------
(* delivery_followup: what comes after a cancelled list.                      *)

\* register: one card for each cancelled list, unless the delivery has begun.
RegisterFollowup ==
    LET d == cmd.list
        Next_(at) == IF cmd.by = "cancel" THEN Go(at) ELSE Done
    IN /\ cmd.at = "followup"
       /\ \/ /\ round.work # "none" \/ ~MyTurn \/ round.source # 0
             /\ Done
             /\ UNCHANGED <<round, agreed>>
          \/ /\ round.work = "none" /\ MyTurn /\ round.source = 0
             /\ IF round.asked = d
                THEN Next_("dropAuth") /\ UNCHANGED <<round, agreed>>
                ELSE /\ round' = [round EXCEPT !.cancelled = @ \cup {d}, !.asked = d,
                                               !.answered = FALSE, !.status = "after_cancel"]
                     /\ agreed' = [agreed EXCEPT ![d] = None]
                     /\ Go("followupCard")
       /\ UNCHANGED <<served, found, files, card, service, faults>>

ShowFollowup ==
    /\ cmd.at = "followupCard"
    /\ card' = [stage |-> "after_cancel", list |-> cmd.list, cands |-> {}]
    /\ IF cmd.by = "cancel" THEN Go("dropAuth") ELSE Done
    /\ UNCHANGED <<served, found, files, round, service, agreed, faults>>

DropAuth ==
    /\ cmd.at = "dropAuth"
    /\ files' = [files EXCEPT ![cmd.list] = [cmd.review EXCEPT !.auth = None]]
    /\ round' = Disowned(cmd.list)
    /\ Done
    /\ UNCHANGED <<served, found, card, service, agreed, faults>>

\* The answer goes by the record in the round, whatever card is pending.
AnswerFollowup(choice) ==
    /\ cmd = Idle /\ MyTurn /\ round.work = "none"
    /\ AfterCancel
    /\ round' = [round EXCEPT !.answered = TRUE,
                     !.status = IF choice = "skip" THEN "skipped" ELSE "login_verified"]
    /\ cmd' = [Idle EXCEPT !.at = "clear", !.by = "answer"]
    /\ UNCHANGED <<served, found, files, card, service, agreed, faults>>

Clear ==
    /\ cmd.at = "clear"
    /\ card' = IF cmd.by = "answer" \/ card.stage \in {"choice", "exclusions"} THEN NoCard ELSE card
    /\ Done
    /\ UNCHANGED <<served, found, files, round, service, agreed, faults>>

\* A new search brings a new list.
Discover ==
    /\ cmd = Idle /\ ~AfterCancel
    /\ round.status = "login_verified" /\ found < MaxLists
    /\ found' = found + 1
    /\ round' = [round EXCEPT !.status = "discovered"]
    /\ UNCHANGED <<served, files, card, service, cmd, agreed, faults>>

\* "round skip", confirmed by the user
Skip ==
    /\ cmd = Idle /\ round.work = "none" /\ MyTurn /\ ~AfterCancel
    /\ round' = [round EXCEPT !.status = "skipped"]
    /\ UNCHANGED <<served, found, files, card, service, cmd, agreed, faults>>
-----------------------------------------------------------------------------
(* round_criteria: the conditions of the round change under the list.         *)

\* A request whose answer was lost is answered again, not counted twice.
UpdateCriteria ==
    /\ cmd = Idle /\ round.work = "none" /\ ~AfterCancel
    /\ IF service.rev = round.rev
       THEN service.rev + 1 \in Revisions /\ service' = [service EXCEPT !.rev = @ + 1]
       ELSE UNCHANGED service
    /\ agreed' = IF Enabled THEN [d \in Lists |-> None] ELSE agreed
    /\ cmd' = [Idle EXCEPT !.at = "saveCriteria", !.by = "update"]
    /\ UNCHANGED <<served, found, files, round, card, faults>>

SaveCriteria ==
    /\ cmd.at = "saveCriteria"
    /\ round' = [round EXCEPT !.rev = service.rev,
                     !.status = IF @ \in {"reviewed", "awaiting"} THEN "discovered" ELSE @]
    /\ agreed' = [d \in Lists |-> None]
    /\ Go("clear")
    /\ UNCHANGED <<served, found, files, card, service, faults>>

\* A command that loads a list learns that the service has moved on.
CatchUp ==
    /\ cmd = Idle
    /\ \E d \in Lists : files[d].is = "whole"
    /\ round.rev # 0 /\ service.rev > round.rev
    /\ round' = [round EXCEPT !.rev = service.rev]
    /\ UNCHANGED <<served, found, files, card, service, cmd, agreed, faults>>
-----------------------------------------------------------------------------
(* Delivery, as far as the gate is concerned.                                 *)

\* Mutation: assert_list_active is not asked.
GateAnyList(d) ==
    LET review == files[d] IN
    /\ review.is = "whole" /\ CriteriaCurrent(review)
    /\ review.cands # {} /\ review.preview = review.cands
    /\ review.auth # None /\ review.auth.cands = review.cands
    /\ Consults(review) =>
          /\ review.auth.ticket # None /\ Verified(review, review.auth.ticket)
          /\ Stands(d, review) /\ review.auth.ticket = review.ticket
          /\ service.lists[d].state = "confirmed"

\* _load_reviewed lets the list through.
Gate(d) ==
    LET review == files[d] IN
    /\ d \notin round.cancelled
    /\ review.is = "whole" /\ CriteriaCurrent(review)
    /\ review.cands # {} /\ review.preview = review.cands
    /\ review.auth # None /\ review.auth.cands = review.cands
    /\ Consults(review) =>
          /\ review.auth.ticket # None /\ Verified(review, review.auth.ticket)
          /\ Stands(d, review) /\ review.auth.ticket = review.ticket
          /\ service.lists[d].state = "confirmed"

\* The send command, with the identifiers the confirmation returned.  It goes
\* on to _delivery_next and leaves a first work, if there is one to make.
Start(d) ==
    /\ cmd = Idle /\ MyTurn /\ ~AfterCancel /\ round.work = "none"
    /\ Gate(d)
    /\ \E work \in {"none", "ready"} :
          round' = [round EXCEPT !.source = d, !.held = TRUE, !.work = work]
    /\ UNCHANGED <<served, found, files, card, service, cmd, agreed, faults>>

\* _delivery_next makes the next work, "work begin" permits it: each asks the gate.
MakeWork ==
    /\ cmd = Idle /\ MyTurn /\ round.work = "none"
    /\ round.source # 0 /\ round.held /\ Gate(round.source)
    /\ round' = [round EXCEPT !.work = "ready"]
    /\ UNCHANGED <<served, found, files, card, service, cmd, agreed, faults>>

Begin ==
    /\ cmd = Idle /\ MyTurn /\ round.work = "ready"
    /\ round.held /\ Gate(round.source)
    /\ round' = [round EXCEPT !.work = "issued"]
    /\ UNCHANGED <<served, found, files, card, service, cmd, agreed, faults>>

\* A receipt or a cancellation closes it.
EndWork ==
    /\ cmd = Idle /\ round.work # "none"
    /\ round' = [round EXCEPT !.work = "none"]
    /\ UNCHANGED <<served, found, files, card, service, cmd, agreed, faults>>

\* The pending slot is taken by a card about something else.
Displace ==
    /\ cmd = Idle /\ card # NoCard
    /\ card' = NoCard
    /\ UNCHANGED <<served, found, files, round, service, cmd, agreed, faults>>

\* A command dies; a review file it was writing is left truncated.
Die ==
    /\ cmd # Idle /\ faults < MaxFaults
    /\ faults' = faults + 1
    /\ files' \in {files} \cup (IF cmd.at \in {"save", "ticket", "saveAuth", "dropAuth"}
                               THEN {[files EXCEPT ![cmd.list].is = "torn"]} ELSE {})
    /\ cmd' = Idle
    /\ UNCHANGED <<served, found, round, card, service, agreed>>

Command ==
    \/ Save \/ Register \/ SaveTicket \/ ShowCard \/ SetStatus
    \/ SaveAuth \/ ShowAuthorized \/ SetReviewed
    \/ RegisterFollowup \/ ShowFollowup \/ DropAuth \/ Clear \/ SaveCriteria

User ==
    \/ Confirm \/ AskExclusions \/ Cancel \/ \E out \in SUBSET Jobs : Exclude(out)
    \/ \E choice \in {"search", "skip"} : AnswerFollowup(choice)
    \/ Skip \/ UpdateCriteria

Host ==
    \/ \E d \in Lists, kept \in BOOLEAN : Review(d, kept)
    \/ Discover \/ CatchUp \/ Displace
    \/ \E d \in Lists : Start(d)
    \/ MakeWork \/ Begin \/ EndWork

Next == Command \/ User \/ Host \/ Die

Spec == Init /\ [][Next]_vars
-----------------------------------------------------------------------------
Permits == round.work # "issued" /\ round'.work = "issued"

\* "Only an accepted interaction creates an authorization" (README.md:398):
\* what a work is permitted for is the list as the user last confirmed it, not
\* shown anew, shortened, cancelled or put under other conditions since, even
\* when the commands that did so died half way.
SentAsConfirmed ==
    [][Permits => agreed[round.source] = files[round.source].cands]_vars

\* A list that the round or the service knows as cancelled is never permitted
\* again, whatever is answered to a card that a dead command left behind.
CancelledNotSent ==
    [][Permits => /\ round.source \notin round.cancelled
                  /\ service.lists[round.source].state # "cancelled"]_vars

\* Only jobs the criteria of the round leave are ever permitted.
SentWithinCriteria ==
    [][Permits /\ round.rev # 0 => files[round.source].cands \subseteq Allowed[round.rev]]_vars

\* A command comes to its end or dies, and the host repeats what it is told to
\* repeat: the review of the list, a change of the criteria whose answer was lost.
Fairness ==
    /\ WF_vars(Command)
    /\ SF_vars(\E d \in Lists, kept \in BOOLEAN : d = found /\ Review(d, kept))
    /\ SF_vars(CatchUp)
    /\ SF_vars(service.rev # round.rev /\ UpdateCriteria)

FairSpec == Spec /\ Fairness

\* Before a delivery has begun, a cancellation the service knows of is followed
\* by the choice between a new search and skipping, though the command that
\* cancelled has died before it could tell the round.
CancellationAnswered ==
    \A d \in Lists :
        service.lists[d].state = "cancelled" ~> d \in round.cancelled \/ ~MyTurn \/ round.source # 0

\* "cancel_delivery ... lead[s] to a second card" (docs/workflow-host-loop.md:232)
CancelLeadsToCard ==
    cmd = Idle /\ faults = 0 /\ MyTurn =>
        \A d \in Lists : service.lists[d].state = "cancelled" => d \in round.cancelled

\* "drop its record ... otherwise a stale awaiting card could resurrect the
\* skipped platform when answered" (cli.py:2166)
SkippedStaysSkipped == [][round.status = "skipped" => round'.status = "skipped"]_vars
=============================================================================
