--------------------------- MODULE NativeDelivery ---------------------------
(***************************************************************************)
(* Delivery on one platform (application/native_work.py): the user confirms  *)
(* a list of jobs, and one command after the other creates, permits and      *)
(* settles the browser works of each job in turn.  Two durable stores are    *)
(* written one after the other, the ledger of works and the round file, and  *)
(* a command can die between the two.                                        *)
(*                                                                          *)
(* A command holds the command lock from its first step to its last, so      *)
(* only one is under way: pc says where it is, and a crash returns to        *)
(* "idle".  The host and the platform act at any time.  Each confirmation    *)
(* makes an authorization of its own: a list is the number of its            *)
(* confirmation.  A work is known by its list, its job and its kind, which   *)
(* is what the code looks works up by.                                       *)
(***************************************************************************)
EXTENDS Integers, Sequences, FiniteSets

CONSTANTS
    Platform,
    Jobs,
    Candidates,     \* the lists a review can propose
    MaxLists,       \* bound: confirmations in one round
    Batch,          \* jobs added by "continue the remaining jobs" (100)
    MaxCrashes,     \* bound: commands that die
    PagesLag        \* whether a page may not show yet what was just done

ASSUME PlatformAssumption == Platform \in {"boss", "liepin", "zhilian", "51job"}
ASSUME CandidatesAssumption ==
    Candidates \subseteq {c \in Seq(Jobs) : \A m, n \in DOMAIN c : c[m] = c[n] => m = n}
ASSUME BoundsAssumption == MaxLists \in Nat \ {0} /\ Batch \in Nat \ {0} /\ MaxCrashes \in Nat
                        /\ PagesLag \in BOOLEAN

Lists == 1..MaxLists
Actions == {"open", "resume", "greeting"}
Readings == {"inspect", "after", "selection", "prepare"}
Kinds == Readings \cup Actions
Keys == Lists \X Jobs \X Kinds
Outcomes == {"none", "success", "unresolved", "unavailable", "cancelled"}
Sights == [chat: BOOLEAN, resume: BOOLEAN, greeting: BOOLEAN, named: BOOLEAN]
Nothing == [chat |-> FALSE, resume |-> FALSE, greeting |-> FALSE, named |-> FALSE]

\* The order of the external actions on a platform.
Steps ==
    IF Platform = "boss" THEN <<"open", "greeting">>
    ELSE IF Platform = "liepin" THEN <<"open", "resume", "greeting">>
    ELSE <<"resume">>

VARIABLES
    review,         \* the review file: jobs shown, number of its confirmation
    shown,          \* the jobs confirmed under each number
    delivery,       \* platforms[p].native_delivery
    status,         \* platforms[p].status
    card,           \* the stage of the pending interaction
    followups,      \* native_delivery_followups: batch source -> its status
    asked,          \* native_resume_choices: jobs with an attachment card
    answered,       \* those the user has answered
    preparedFor,    \* the delivery source a prepare_resume work was made under
    processed,      \* native_processed_work
    wstate,         \* the ledger: state of a work
    outcome,        \* outcome of a closed work
    seen,           \* what the accepted evidence of a work reports
    world,          \* what the platform really did, a job at a time
    acted,          \* issued works whose action the host performed
    grants,         \* ghost: permissions given for an action on a job
    pc,             \* the command under way
    reply,          \* what the last command answered
    crashes

ledger == <<wstate, outcome, seen>>
choices == <<asked, answered>>
lists == <<review, shown>>
outside == <<world, acted>>
vars == <<review, shown, delivery, status, card, followups, asked, answered, preparedFor,
          processed, wstate, outcome, seen, world, acted, grants, pc, reply, crashes>>

NoDelivery == [list |-> 0, limit |-> 0, stop |-> TRUE, cancelled |-> FALSE]
Deliveries == [list: Lists, limit: Nat, stop: BOOLEAN, cancelled: BOOLEAN]
Source == [list |-> delivery.list, limit |-> delivery.limit, stop |-> delivery.stop]
Sources == [list: Lists, limit: Nat, stop: BOOLEAN]
Idle == [at |-> "idle", work |-> <<>>]
Statuses == {"discovered", "awaiting", "reviewed", "sent", "completed", "skipped"}

Open(k) == wstate[k] \in {"ready", "issued"}
Exists(l, j, k) == wstate[<<l, j, k>>] # "absent"
Closed(l, j, k) == wstate[<<l, j, k>>] = "closed"
Succeeded(l, j, k) == Closed(l, j, k) /\ outcome[<<l, j, k>>] = "success"
SomeOpen == \E k \in Keys : Open(k)
MyTurn == status \notin {"completed", "skipped"}
Authorized(l) == review.auth = l
Awaited == {s \in DOMAIN followups : followups[s] \in {"awaiting", "paused"}}
-----------------------------------------------------------------------------
(* One job of the list in _delivery_next: which work it needs next.          *)

\* The conversation is open as far as the evidence of this list tells.
Chat(l, j) == \E k \in Kinds : Succeeded(l, j, k) /\ seen[<<l, j, k>>].chat

\* The open conversation is read before anything is sent into it.
NeedsAfter(l, j) ==
    /\ Chat(l, j)
    /\ \/ Platform = "liepin"
       \/ /\ Platform = "boss"
          /\ ~seen[<<l, j, "inspect">>].greeting
          /\ ~Exists(l, j, "greeting")

\* The evidence the decision rests on: the latest reading that counts.
Evidence(l, j) ==
    seen[<<l, j, IF Closed(l, j, "selection") THEN "selection"
                 ELSE IF NeedsAfter(l, j) THEN "after" ELSE "inspect">>]

\* Mutation: a greeting found in the conversation is not compared with ours.
AlreadyDoneButGreeting(l, j, a) ==
    CASE a = "open" -> Chat(l, j) \/ Evidence(l, j).greeting
      [] a = "resume" -> Evidence(l, j).resume
      [] a = "greeting" -> FALSE

AlreadyDone(l, j, a) ==
    CASE a = "open" -> Chat(l, j) \/ Evidence(l, j).greeting
      [] a = "resume" -> Evidence(l, j).resume
      [] a = "greeting" -> Evidence(l, j).greeting

\* The external actions the job still needs.
Remaining(l, j) ==
    {a \in {Steps[n] : n \in DOMAIN Steps} : ~AlreadyDone(l, j, a) /\ ~Succeeded(l, j, a)}

\* The first of them, in the order of the platform.
IsNext(l, j, a) ==
    LET left == Remaining(l, j) IN
    /\ a \in left
    /\ \E n \in DOMAIN Steps : Steps[n] = a /\ \A m \in 1..(n - 1) : Steps[m] \notin left

\* An earlier list has a work for the action, whatever became of it.
Prior(l, j, a) == \E m \in Lists \ {l} : Exists(m, j, a)

Read(l, j) ==
    /\ Succeeded(l, j, "inspect")
    /\ NeedsAfter(l, j) => Succeeded(l, j, "after")
    /\ Closed(l, j, "selection") => Succeeded(l, j, "selection")

Gone(l, j) ==
    \E k \in {"inspect", "after"} : Closed(l, j, k) /\ outcome[<<l, j, k>>] = "unavailable"

\* The next external action of the job, when nothing forbids it.
Due(l, j, a) ==
    /\ Read(l, j)
    /\ ~Closed(l, j, a)
    /\ ~Prior(l, j, a)
    /\ IsNext(l, j, a)

Prepared(l, j) == Platform = "liepin" => Succeeded(l, j, "prepare")

Chosen(l, j) == Platform = "liepin" => <<l, j>> \in answered

\* A dialog prepared under another source of the same list is of no use.
SourceKept(l, j) == Platform = "liepin" => preparedFor[<<l, j>>] = Source

\* The work the job needs next.
Needs(l, j, k) ==
    CASE k = "inspect" -> ~Closed(l, j, "inspect")
      [] k = "after" -> Succeeded(l, j, "inspect") /\ NeedsAfter(l, j) /\ ~Closed(l, j, "after")
      [] k = "selection" -> Due(l, j, "resume") /\ ~Evidence(l, j).named
      [] k = "prepare" -> /\ Platform = "liepin"
                          /\ Due(l, j, "resume") /\ Evidence(l, j).named
                          /\ ~Closed(l, j, "prepare")
      [] k = "resume" -> /\ Due(l, j, "resume") /\ Evidence(l, j).named
                         /\ Prepared(l, j) /\ Chosen(l, j) /\ SourceKept(l, j)
      [] k \in {"open", "greeting"} -> Due(l, j, k)

\* The user must say which attachment goes with the resume.
Asks(l, j) ==
    /\ Due(l, j, "resume") /\ Evidence(l, j).named
    /\ Prepared(l, j) /\ ~Chosen(l, j) /\ SourceKept(l, j)

Misbound(l, j) ==
    Due(l, j, "resume") /\ Evidence(l, j).named /\ Prepared(l, j) /\ ~SourceKept(l, j)

\* The next action already has a work in an earlier list.
Refused(l, j) ==
    /\ Read(l, j)
    /\ \E a \in Actions : ~Closed(l, j, a) /\ Prior(l, j, a) /\ IsNext(l, j, a)

Finished(l, j) == Gone(l, j) \/ (Read(l, j) /\ Remaining(l, j) = {})

\* Anything else ended without a result the next step can build on.
Problem(l, j) ==
    /\ ~Finished(l, j) /\ ~Refused(l, j) /\ ~Asks(l, j) /\ ~Misbound(l, j)
    /\ \A k \in Kinds : ~Needs(l, j, k)
-----------------------------------------------------------------------------
(* The whole list.                                                           *)

Approved == review.jobs
InBatch == 1..(IF delivery.limit < Len(Approved) THEN delivery.limit ELSE Len(Approved))

\* A job the loop goes past: finished, or a problem the user chose to pass.
Passed(n) ==
    \/ Finished(delivery.list, Approved[n])
    \/ Problem(delivery.list, Approved[n]) /\ ~delivery.stop

\* The loop has come to the job at place n.
Reached(n) == n \in InBatch /\ ~Passed(n) /\ \A m \in 1..(n - 1) : Passed(m)

\* The totals audit() computes over every list of the round.
AuditJobs == {j \in Jobs : \E l \in Lists, k \in Kinds : Exists(l, j, k)}

Verified(j, what) == \E l \in Lists, k \in Kinds : Succeeded(l, j, k) /\ seen[<<l, j, k>>][what]

Delivered(j) ==
    /\ Platform = "boss" \/ Verified(j, "resume")
    /\ Platform \in {"boss", "liepin"} => Verified(j, "greeting")

HalfWay(j) ==
    \E l \in Lists :
        \/ \E k \in {"prepare", "selection"} : Closed(l, j, k)
        \/ /\ Platform # "boss"
           /\ \E k \in {"inspect", "after"} :
                 /\ Succeeded(l, j, k)
                 /\ ~seen[<<l, j, k>>].resume
                 /\ ~seen[<<l, j, k>>].named

Ended(j) ==
    \E l \in Lists, k \in Kinds :
        Closed(l, j, k) /\ outcome[<<l, j, k>>] \in {"unavailable", "unresolved"}

AuditPending ==
    {j \in AuditJobs : \/ \E l \in Lists, k \in Kinds : Open(<<l, j, k>>)
                       \/ HalfWay(j) /\ ~Delivered(j) /\ ~Ended(j)}
-----------------------------------------------------------------------------
TypeOK ==
    /\ review.jobs \in Candidates \cup {<<>>} /\ review.auth \in Lists \cup {0}
    /\ shown \in Seq(Candidates) /\ Len(shown) <= MaxLists
    /\ delivery \in Deliveries \cup {NoDelivery}
    /\ status \in Statuses
    /\ card \in {"none", "choice", "authorized", "followup", "attachment"}
    /\ DOMAIN followups \subseteq Sources
    /\ \A s \in DOMAIN followups : followups[s] \in {"awaiting", "paused", "answered"}
    /\ asked \subseteq Lists \X Jobs /\ answered \subseteq asked
    /\ DOMAIN preparedFor \subseteq Lists \X Jobs
    /\ \A p \in DOMAIN preparedFor : preparedFor[p] \in Sources
    /\ processed \subseteq Keys
    /\ wstate \in [Keys -> {"absent", "ready", "issued", "closed"}]
    /\ outcome \in [Keys -> Outcomes]
    /\ seen \in [Keys -> Sights]
    /\ world \in [Jobs -> Sights]
    /\ acted \subseteq Keys
    /\ grants \in [Jobs \X Actions -> Nat]
    /\ pc \in [at: {"idle", "continue", "advance", "cancelling", "audited"}, work: Keys \cup {<<>>}]
    /\ crashes \in 0..MaxCrashes

\* What an application made by hand leaves on the platform.
AppliedByHand ==
    [chat |-> Platform \in {"boss", "liepin"}, resume |-> Platform # "boss",
     greeting |-> Platform \in {"boss", "liepin"}, named |-> FALSE]

\* A job is new to the user, or was applied to by hand before the round.
Init ==
    /\ review = [jobs |-> <<>>, auth |-> 0]
    /\ shown = <<>>
    /\ delivery = NoDelivery
    /\ status = "discovered"
    /\ card = "none"
    /\ followups = <<>>
    /\ asked = {}
    /\ answered = {}
    /\ preparedFor = <<>>
    /\ processed = {}
    /\ wstate = [k \in Keys |-> "absent"]
    /\ outcome = [k \in Keys |-> "none"]
    /\ seen = [k \in Keys |-> Nothing]
    /\ world \in [Jobs -> {Nothing, AppliedByHand}]
    /\ acted = {}
    /\ grants = [p \in Jobs \X Actions |-> 0]
    /\ pc = Idle
    /\ reply = "none"
    /\ crashes = 0
-----------------------------------------------------------------------------
(* The user: review, confirmation, the send command, the follow-up cards, and *)
(* skipping the platform.  No card is answered while a work is open.          *)

\* review_decision: a new complete list, whatever was confirmed before.
ShowList(c) ==
    /\ pc = Idle /\ MyTurn /\ Awaited = {}
    /\ Len(shown) < MaxLists
    /\ review' = [jobs |-> c, auth |-> 0]
    /\ status' = "awaiting"
    /\ card' = "choice"
    /\ reply' = "none"
    /\ UNCHANGED <<shown, delivery, followups, choices, preparedFor, processed, ledger,
                   outside, grants, pc, crashes>>

\* confirm_all: the answer is an authorization for exactly this list.
Confirm ==
    /\ pc = Idle
    /\ card = "choice" /\ ~SomeOpen
    /\ shown' = Append(shown, review.jobs)
    /\ review' = [review EXCEPT !.auth = Len(shown) + 1]
    /\ status' = "reviewed"
    /\ card' = "authorized"
    /\ reply' = "none"
    /\ UNCHANGED <<delivery, followups, choices, preparedFor, processed, ledger, outside,
                   grants, pc, crashes>>

\* The card of a confirmed list stays pending: the answer can be repeated.
ConfirmAgain ==
    /\ pc = Idle
    /\ card = "authorized" /\ ~SomeOpen
    /\ status' = "reviewed"
    /\ reply' = "none"
    /\ UNCHANGED <<lists, delivery, card, followups, choices, preparedFor, processed, ledger,
                   outside, grants, pc, crashes>>

\* Mutation: a delivery under way may be given another limit or policy.
StartAnyway(n, stop) ==
    LET source == [list |-> review.auth, limit |-> n, stop |-> stop, cancelled |-> FALSE] IN
    /\ pc = Idle /\ MyTurn
    /\ Awaited = {}
    /\ review.auth # 0
    /\ delivery' = source
    /\ pc' = [at |-> "advance", work |-> <<>>]
    /\ reply' = "none"
    /\ UNCHANGED <<lists, status, card, followups, choices, preparedFor, processed, ledger,
                   outside, grants, crashes>>

\* start_delivery with the ids of the confirmed list, a limit and a policy.
Start(n, stop) ==
    LET source == [list |-> review.auth, limit |-> n, stop |-> stop, cancelled |-> FALSE] IN
    /\ pc = Idle /\ MyTurn
    /\ Awaited = {}
    /\ review.auth # 0
    /\ delivery = NoDelivery \/ delivery = source \/ ~SomeOpen
    /\ delivery' = source
    /\ pc' = [at |-> "advance", work |-> <<>>]
    /\ reply' = "none"
    /\ UNCHANGED <<lists, status, card, followups, choices, preparedFor, processed, ledger,
                   outside, grants, crashes>>

\* native_delivery_followup.respond
AnswerFollowup(s) ==
    /\ pc = Idle
    /\ s \in Awaited /\ s = Source
    /\ ~SomeOpen
    /\ \/ /\ followups' = [followups EXCEPT ![s] = "paused"]
          /\ UNCHANGED <<delivery, status, card>>
       \/ /\ MyTurn /\ Authorized(s.list)
          /\ delivery' = [delivery EXCEPT !.limit =
                 IF s.limit + Batch < Len(Approved) THEN s.limit + Batch ELSE Len(Approved)]
          /\ followups' = [followups EXCEPT ![s] = "answered"]
          /\ card' = IF card = "followup" THEN "none" ELSE card
          /\ UNCHANGED status
       \/ /\ MyTurn
          /\ status' = "skipped"
          /\ followups' = [followups EXCEPT ![s] = "answered"]
          /\ card' = IF card = "followup" THEN "none" ELSE card
          /\ UNCHANGED delivery
    /\ reply' = "none"
    /\ UNCHANGED <<lists, choices, preparedFor, processed, ledger, outside, grants, pc, crashes>>

\* native_resume_choice.respond with one of the attachments
AnswerChoice(l, j) ==
    /\ pc = Idle /\ MyTurn
    /\ <<l, j>> \in asked \ answered
    /\ preparedFor[<<l, j>>] = Source
    /\ ~SomeOpen
    /\ Authorized(l)
    /\ answered' = answered \cup {<<l, j>>}
    /\ card' = IF card = "attachment" THEN "none" ELSE card
    /\ pc' = [at |-> "advance", work |-> <<>>]
    /\ reply' = "none"
    /\ UNCHANGED <<lists, delivery, status, followups, asked, preparedFor, processed, ledger,
                   outside, grants, crashes>>

\* "round skip", confirmed by the user; a follow-up card is answered by it.
Skip ==
    /\ pc = Idle /\ MyTurn
    /\ Awaited = {} /\ ~SomeOpen
    /\ status' = "skipped"
    /\ reply' = "skipped"
    /\ UNCHANGED <<lists, delivery, card, followups, choices, preparedFor, processed, ledger,
                   outside, grants, pc, crashes>>
-----------------------------------------------------------------------------
(* One work: begin, the host's click, submit, cancel.                         *)

\* Mutation: the review is not loaded again when a work begins.
BeginStale(k) ==
    /\ pc = Idle /\ MyTurn
    /\ wstate[k] = "ready"
    /\ wstate' = [wstate EXCEPT ![k] = "issued"]
    /\ grants' = IF k[3] \in Actions THEN [grants EXCEPT ![<<k[2], k[3]>>] = @ + 1] ELSE grants
    /\ reply' = "none"
    /\ UNCHANGED <<lists, delivery, status, card, followups, choices, preparedFor, processed,
                   outcome, seen, outside, pc, crashes>>

\* Only a ready work is permitted, and only while its list is the confirmed one.
Begin(k) ==
    /\ pc = Idle /\ MyTurn
    /\ wstate[k] = "ready"
    /\ Authorized(k[1])
    /\ wstate' = [wstate EXCEPT ![k] = "issued"]
    /\ grants' = IF k[3] \in Actions THEN [grants EXCEPT ![<<k[2], k[3]>>] = @ + 1] ELSE grants
    /\ reply' = "none"
    /\ UNCHANGED <<lists, delivery, status, card, followups, choices, preparedFor, processed,
                   outcome, seen, outside, pc, crashes>>

BeginRefused(k) ==
    /\ pc = Idle /\ MyTurn
    /\ wstate[k] = "ready"
    /\ ~Authorized(k[1])
    /\ reply' = "preview_required"
    /\ UNCHANGED <<lists, delivery, status, card, followups, choices, preparedFor, processed,
                   ledger, outside, grants, pc, crashes>>

\* The host performs the permitted action.  Opening a conversation on Liepin
\* can submit the resume as well.
Act(k) ==
    LET j == k[2] IN
    /\ wstate[k] = "issued" /\ k[3] \in Actions /\ k \notin acted
    /\ acted' = acted \cup {k}
    /\ world' \in
         CASE k[3] = "open" ->
                {[world EXCEPT ![j].chat = TRUE]} \cup
                (IF Platform = "liepin"
                 THEN {[world EXCEPT ![j].chat = TRUE, ![j].resume = TRUE]} ELSE {})
           [] k[3] = "resume" -> {[world EXCEPT ![j].resume = TRUE]}
           [] k[3] = "greeting" -> {[world EXCEPT ![j].greeting = TRUE]}
    /\ UNCHANGED <<lists, delivery, status, card, followups, choices, preparedFor, processed,
                   ledger, grants, pc, reply, crashes>>

\* What is there is reported, unless the page does not show it yet.
Shows(s, w, what) == IF PagesLag THEN s[what] => w[what] ELSE s[what] = w[what]

\* What _validate_delivery accepts as the evidence of a success, from a host
\* that reports what it sees.
Evident(k) ==
    LET w == world[k[2]]
        Honest == {s \in Sights : /\ s.chat = w.chat
                                  /\ Shows(s, w, "resume") /\ Shows(s, w, "greeting")}
    IN CASE k[3] = "inspect" -> {s \in Honest : s.named => Platform # "boss" /\ ~s.resume}
         [] k[3] = "after" -> {s \in Honest : s.chat /\ (s.named => Platform # "boss" /\ ~s.resume)}
         [] k[3] = "selection" -> {s \in Honest : s.named /\ (Platform = "liepin" => s.chat)}
         [] k[3] = "prepare" -> {s \in Sights : s = [Nothing EXCEPT !.chat = TRUE] /\ w.chat
                                               /\ Shows(s, w, "resume")}
         [] k[3] = "open" -> {s \in Sights : s = [Nothing EXCEPT !.chat = TRUE] /\ w.chat}
         [] k[3] = "resume" -> {s \in Sights : s = [Nothing EXCEPT !.resume = TRUE] /\ w.resume}
         [] k[3] = "greeting" -> {s \in Sights : /\ s = [Nothing EXCEPT !.chat = TRUE, !.greeting = TRUE]
                                                /\ w.greeting}

Reports(k) ==
    [outcome: {"success"}, sight: Evident(k)] \cup
    [outcome: {"unresolved", "unavailable"}, sight: {Nothing}]

\* The decisive receipt is committed; the command has not come to the round.
Submit(k, r) ==
    /\ pc = Idle /\ MyTurn
    /\ wstate[k] = "issued"
    /\ wstate' = [wstate EXCEPT ![k] = "closed"]
    /\ outcome' = [outcome EXCEPT ![k] = r.outcome]
    /\ seen' = [seen EXCEPT ![k] = r.sight]
    /\ acted' = acted \ {k}
    /\ pc' = [at |-> "continue", work |-> k]
    /\ reply' = "none"
    /\ UNCHANGED <<lists, delivery, status, card, followups, choices, preparedFor, processed,
                   world, grants, crashes>>

\* cancel(): the ledger first, the round file second.  A closed work is
\* returned as it is, and the round file catches up with it.
Cancel(k) ==
    /\ pc = Idle
    /\ \/ /\ wstate[k] = "ready" \/ (wstate[k] = "issued" /\ k[3] \in Readings)
          /\ wstate' = [wstate EXCEPT ![k] = "closed"]
          /\ outcome' = [outcome EXCEPT ![k] = "cancelled"]
       \/ /\ wstate[k] = "closed" /\ k \notin processed
          /\ UNCHANGED <<wstate, outcome>>
    /\ pc' = [at |-> "cancelling", work |-> k]
    /\ reply' = "none"
    /\ UNCHANGED <<lists, delivery, status, card, followups, choices, preparedFor, processed,
                   seen, outside, grants, crashes>>

SaveCancel ==
    /\ pc.at = "cancelling"
    /\ processed' = processed \cup {pc.work}
    /\ delivery' = [delivery EXCEPT !.cancelled = @ \/ outcome[pc.work] = "cancelled"]
    /\ pc' = Idle
    /\ reply' = "cancelled"
    /\ UNCHANGED <<lists, status, card, followups, choices, preparedFor, ledger, outside,
                   grants, crashes>>

Crash ==
    /\ pc # Idle
    /\ crashes < MaxCrashes
    /\ crashes' = crashes + 1
    /\ pc' = Idle
    /\ reply' = "none"
    /\ UNCHANGED <<lists, delivery, status, card, followups, choices, preparedFor, processed,
                   ledger, outside, grants>>
-----------------------------------------------------------------------------
(* next_work, _continue, _delivery_next, audit: the machine's own steps.      *)

Questions == asked \ answered
Unsettled == {k \in Keys : wstate[k] = "closed" /\ k \notin processed}

\* Mutation: the card of a confirmed list counts as unanswered.
NextFreeOnceAnswered ==
    /\ pc = Idle /\ MyTurn
    /\ Awaited = {} /\ Questions = {} /\ card \notin {"choice", "authorized"}
    /\ ~SomeOpen

NextFree ==
    /\ pc = Idle /\ MyTurn
    /\ Awaited = {} /\ Questions = {} /\ card # "choice"
    /\ ~SomeOpen

\* What stands before any further work is only shown, and so is what there is
\* to do when no work follows: send the list, or audit the platform.
NextWaits ==
    /\ \/ pc = Idle /\ Awaited # {} /\ reply' = "followup"
       \/ pc = Idle /\ Awaited = {} /\ Questions # {} /\ reply' = "question"
       \/ pc = Idle /\ Awaited = {} /\ Questions = {} /\ card = "choice" /\ reply' = "confirm"
       \/ /\ NextFree /\ Unsettled = {}
          /\ delivery = NoDelivery \/ status = "sent"
          /\ reply' = "suggested"
    /\ UNCHANGED <<lists, delivery, status, card, followups, choices, preparedFor, processed,
                   ledger, outside, grants, pc, crashes>>

\* A receipt whose command died before the round was saved is taken up again.
NextContinue ==
    /\ NextFree
    /\ \E k \in Unsettled : pc' = [at |-> "continue", work |-> k]
    /\ reply' = "none"
    /\ UNCHANGED <<lists, delivery, status, card, followups, choices, preparedFor, processed,
                   ledger, outside, grants, crashes>>

NextAdvance ==
    /\ NextFree
    /\ Unsettled = {}
    /\ delivery # NoDelivery /\ status # "sent"
    /\ pc' = [at |-> "advance", work |-> <<>>]
    /\ reply' = "none"
    /\ UNCHANGED <<lists, delivery, status, card, followups, choices, preparedFor, processed,
                   ledger, outside, grants, crashes>>

Continue ==
    /\ pc.at = "continue"
    /\ processed' = processed \cup {pc.work}
    /\ pc' = [at |-> "advance", work |-> <<>>]
    /\ UNCHANGED <<lists, delivery, status, card, followups, choices, preparedFor, ledger,
                   outside, grants, reply, crashes>>

\* _delivery_next before it looks at the jobs.
AdvanceStopped ==
    /\ pc.at = "advance"
    /\ \/ SomeOpen /\ reply' = "none"
       \/ ~SomeOpen /\ delivery.cancelled /\ reply' = "cancelled"
       \/ ~SomeOpen /\ ~delivery.cancelled /\ ~Authorized(delivery.list)
          /\ reply' = "preview_required"
    /\ pc' = Idle
    /\ UNCHANGED <<lists, delivery, status, card, followups, choices, preparedFor, processed,
                   ledger, outside, grants, crashes>>

MayGoOn ==
    /\ pc.at = "advance"
    /\ ~SomeOpen
    /\ ~delivery.cancelled
    /\ Authorized(delivery.list)

\* The job reached gets its next work; the ledger returns an existing one.
AdvanceWork ==
    /\ MayGoOn
    /\ \E n \in DOMAIN Approved, k \in Kinds :
          LET j == Approved[n]
              key == <<delivery.list, j, k>>
          IN /\ Reached(n)
             /\ Needs(delivery.list, j, k)
             /\ wstate[key] = "absent"
             /\ wstate' = [wstate EXCEPT ![key] = "ready"]
             /\ preparedFor' = IF k = "prepare"
                  THEN [p \in DOMAIN preparedFor \cup {<<delivery.list, j>>} |->
                          IF p = <<delivery.list, j>> THEN Source ELSE preparedFor[p]]
                  ELSE preparedFor
    /\ pc' = Idle
    /\ reply' = "none"
    /\ UNCHANGED <<lists, delivery, status, card, followups, choices, processed, outcome, seen,
                   outside, grants, crashes>>

AdvanceQuestion ==
    /\ MayGoOn
    /\ \E n \in DOMAIN Approved :
          /\ Reached(n)
          /\ \/ /\ Asks(delivery.list, Approved[n])
                /\ asked' = asked \cup {<<delivery.list, Approved[n]>>}
                /\ card' = "attachment"
                /\ reply' = "question"
             \/ /\ Misbound(delivery.list, Approved[n])
                /\ reply' = "misbound"
                /\ UNCHANGED <<asked, card>>
    /\ pc' = Idle
    /\ UNCHANGED <<lists, delivery, status, followups, answered, preparedFor, processed, ledger,
                   outside, grants, crashes>>

AdvanceRefused ==
    /\ MayGoOn
    /\ \E n \in DOMAIN Approved : Reached(n) /\ Refused(delivery.list, Approved[n])
    /\ pc' = Idle
    /\ reply' = "refused"
    /\ UNCHANGED <<lists, delivery, status, card, followups, choices, preparedFor, processed,
                   ledger, outside, grants, crashes>>

\* _delivery_paused: the list stops, unless the totals say nothing is left.
AdvancePaused ==
    /\ MayGoOn
    /\ \E n \in DOMAIN Approved : Reached(n) /\ Problem(delivery.list, Approved[n])
    /\ pc' = Idle
    /\ IF Cardinality(AuditJobs) = Len(Approved) /\ AuditPending = {}
       THEN status' = "sent" /\ reply' = "sent"
       ELSE reply' = "paused" /\ UNCHANGED status
    /\ UNCHANGED <<lists, delivery, card, followups, choices, preparedFor, processed, ledger,
                   outside, grants, crashes>>

\* Mutation: the rest of the list is forgotten at the end of the batch.
AdvanceEndForgetful ==
    /\ MayGoOn
    /\ \A n \in InBatch : Passed(n)
    /\ pc' = Idle
    /\ status' = "sent" /\ reply' = "sent"
    /\ UNCHANGED <<lists, delivery, card, followups, choices, preparedFor, processed, ledger,
                   outside, grants, crashes>>

\* The batch is through: the follow-up card while jobs are left, else "sent".
AdvanceEnd ==
    /\ MayGoOn
    /\ \A n \in InBatch : Passed(n)
    /\ pc' = Idle
    /\ IF delivery.limit < Len(Approved)
       THEN /\ UNCHANGED status
            /\ IF Source \in DOMAIN followups
               THEN /\ reply' = "none"
                    /\ UNCHANGED <<followups, card>>
               ELSE /\ followups' = [s \in DOMAIN followups \cup {Source} |->
                          IF s = Source THEN "awaiting" ELSE followups[s]]
                    /\ card' = "followup"
                    /\ reply' = "followup"
       ELSE /\ status' = "sent" /\ reply' = "sent"
            /\ UNCHANGED <<followups, card>>
    /\ UNCHANGED <<lists, delivery, choices, preparedFor, processed, ledger,
                   outside, grants, crashes>>

Advance ==
    \/ AdvanceStopped \/ AdvanceWork \/ AdvanceQuestion
    \/ AdvanceRefused \/ AdvancePaused \/ AdvanceEnd

\* audit(): the platform is completed from "sent" when nothing is pending.
Audit ==
    /\ pc = Idle
    /\ Awaited = {}
    /\ status = "sent"
    /\ \/ /\ AuditPending = {}
          /\ status' = "completed"
          /\ reply' = "completed"
          /\ card' \in {card, "followup"}    \* a card while platforms are left
       \/ /\ AuditPending # {}
          /\ reply' = "pending"
          /\ UNCHANGED <<status, card>>
    /\ UNCHANGED <<lists, delivery, followups, choices, preparedFor, processed, ledger, outside,
                   grants, pc, crashes>>

Users ==
    \/ \E c \in Candidates : ShowList(c)
    \/ Confirm \/ ConfirmAgain
    \/ \E n \in 1..Batch, stop \in BOOLEAN : Start(n, stop)
    \/ \E s \in DOMAIN followups : AnswerFollowup(s)
    \/ \E l \in Lists, j \in Jobs : AnswerChoice(l, j)
    \/ \E k \in Keys : Cancel(k)
    \/ Skip

Host(k) ==
    \/ Begin(k) \/ BeginRefused(k) \/ Act(k)
    \/ wstate[k] = "issued" /\ \E r \in Reports(k) : Submit(k, r)

Machine == NextWaits \/ NextContinue \/ NextAdvance \/ Continue \/ Advance \/ SaveCancel \/ Audit

Next == Users \/ Machine \/ Crash \/ \E k \in Keys : Host(k)

Spec == Init /\ [][Next]_vars
-----------------------------------------------------------------------------
\* A greeting, a resume, an opened conversation: permitted at most once for a
\* job, however many lists, re-sends, crashes and cancellations there are.
OnePermission == \A p \in Jobs \X Actions : grants[p] <= 1

Promise == INSTANCE DeliveryPromise WITH
    confirmed <- IF review.auth = 0 THEN {} ELSE {review.jobs[n] : n \in DOMAIN review.jobs}

\* Delivery implements its promise to the user: what is permitted belongs to
\* the list that is confirmed at that moment, and happens once.
KeepsPromise == Promise!Spec

Permits(k) == wstate[k] = "ready" /\ wstate'[k] = "issued"

\* A permission belongs to the delivery under way, inside its limit, and every
\* job before it on the list is through: finished, or passed by the policy the
\* user has set.  The work was made under these conditions by an earlier
\* command; nothing since may have changed them.
PermittedInOrder ==
    [][\A k \in Keys : Permits(k) =>
          /\ delivery.list = k[1]
          /\ \E n \in InBatch : /\ Approved[n] = k[2]
                                /\ \A m \in 1..(n - 1) : Passed(m)]_vars

\* Nothing is written into a conversation before it was read open, and what
\* was read there did not show the greeting already.
ReadBeforeGreeting ==
    [][\A k \in Keys : Permits(k) /\ k[3] = "greeting" =>
          /\ Succeeded(k[1], k[2], "after")
          /\ ~seen[<<k[1], k[2], "after">>].greeting]_vars

OnThePlatform(j, a) ==
    CASE a = "open" -> world[j].chat
      [] a = "resume" -> world[j].resume
      [] a = "greeting" -> world[j].greeting

\* Where pages show what was done, an employer never gets a second greeting or
\* resume: no permission for what is on the platform already, be it by the
\* user's own hand or as a side effect of opening the conversation.
NothingTwice ==
    [][\A k \in Keys : Permits(k) /\ k[3] \in Actions => ~OnThePlatform(k[2], k[3])]_vars

\* "sent" is never claimed while a job of the list was not even looked at, unless an earlier
\* list of the round has works: the totals that let a paused list end count these too.
SentMeansVisited ==
    [][status' = "sent" /\ status # "sent" =>
          \/ \A n \in DOMAIN Approved : Closed(delivery.list, Approved[n], "inspect")
          \/ \E k \in Keys : k[1] # delivery.list /\ wstate[k] # "absent"]_vars

\* A completed platform has no work left that could still be permitted.
CompletedMeansClosed == status = "completed" => ~SomeOpen

\* While the follow-up card waits for its answer no work can be permitted.
WaitingMeansIdle == Awaited # {} => ~SomeOpen

\* The host calls "work next" and carries out what it is shown, and a command
\* that runs comes to its end or dies.  The user need not do anything.
Fairness ==
    /\ WF_vars(Continue) /\ WF_vars(Advance) /\ WF_vars(SaveCancel)
    /\ SF_vars(NextWaits) /\ SF_vars(NextContinue) /\ SF_vars(NextAdvance) /\ SF_vars(Audit)
    /\ SF_vars(\E k \in Keys : Begin(k) \/ BeginRefused(k))
    /\ SF_vars(\E k \in Keys : \E r \in Reports(k) : Submit(k, r))

FairSpec == Spec /\ Fairness

Answered == reply # "none"

\* The batch is through, and its follow-up card was answered already: the list
\* was sent again with the limit of an earlier batch.
CardSpent ==
    /\ delivery.limit < Len(Approved)
    /\ Source \in DOMAIN followups
    /\ \A n \in InBatch : Passed(n)

\* A delivery that is under way comes to an answer for the user, whatever dies on the
\* way, unless it is sent again with a limit whose card is spent: then the client
\* answers "work next" to every "work next" (CardWhileJobsLeft).
EventuallyAnswered == pc.at = "advance" ~> (Answered \/ CardSpent)

\* "If all authorized jobs are already terminal, audit may complete normally"
\* (native_work.py:1386).
SentMeansAttempted ==
    [][status' = "sent" /\ status # "sent" =>
          \A n \in DOMAIN Approved : Approved[n] \in AuditJobs]_vars

\* The message of a cancelled delivery: "Generate a new complete preview and
\* obtain confirmation before continuing" (native_work.py:1219).
CancelIsFinal ==
    [][\A k, c \in Keys : Permits(k) /\ c[1] = k[1] => outcome[c] # "cancelled"]_vars

\* "Display the complete delivery_batch_followup card whenever the original
\* authorized list has unattempted jobs" (docs/workflow-host-loop.md:119).
CardWhileJobsLeft ==
    [][AdvanceEnd /\ delivery.limit < Len(Approved) => followups'[Source] = "awaiting"]_vars
=============================================================================
