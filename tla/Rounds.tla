-------------------------------- MODULE Rounds --------------------------------
(***************************************************************************)
(* A round over its platforms and the questions that stop it: infra/        *)
(* rounds.py, application/resume_freshness.py, delivery_followup.py,        *)
(* round_direction.py, round_resume_binding.py and the branches of cli.py   *)
(* that start a round, skip a platform and answer a card.                   *)
(*                                                                          *)
(* The platforms are taken in a fixed order, each up to its audit.  Before   *)
(* a search and before a delivery the user must have said that the platform  *)
(* holds the resume revision bound to the round.  The question is a record   *)
(* of the platform in the round file, and a card in the one slot of the      *)
(* pending interaction, which any other card displaces.  The user may answer *)
(* "synced", give up the platform, or hold the whole round.                  *)
(*                                                                          *)
(* Commands are taken one after the other (the command lock); what a command *)
(* still has to write is `todo`, and it may die before any write.            *)
(***************************************************************************)
EXTENDS Integers, Sequences, FiniteSets

CONSTANTS
    Last,           \* the platforms are 1..Last in their order
    Revs,           \* revisions of resumes, one binding each
    Policies,       \* 2, and 1 for cards that a former client asked
    Executor,       \* who collects: "native", or "bulk"
    MaxRounds, MaxLists, MaxDirections, MaxGone, MaxFaults     \* bounds

Platforms == 1..Last
NoRev == 0
Terminal == {"completed", "skipped_this_round"}
Held == "resume_freshness_hold"
HoldStates == {"platform_hold", "round_hold"}

\* What gate_search asks about; "working" stands for active, login_verified and
\* blocked, which no guard tells apart.
Searchable == {"pending", "working"}
Listed == {"discovered", "awaiting_delivery_confirmation", "reviewed"}
Statuses == Searchable \cup Listed \cup Terminal
            \cup {"awaiting_after_cancel_choice", "sent", Held}

ASSUME RoundsAssumption ==
    /\ Last \in Nat \ {0} /\ Revs \subseteq Nat \ {NoRev} /\ Policies \subseteq {1, 2}
    /\ Executor \in {"native", "bulk"}
    /\ {MaxRounds, MaxLists} \subseteq Nat \ {0} /\ {MaxDirections, MaxGone, MaxFaults} \subseteq Nat

VARIABLES
    round,      \* the round file
    slot,       \* pending_interaction.json
    baseline,   \* resume_freshness.json: the revision attested for a platform
    lists,      \* review file of a platform: how far its list is; searches, and the list's
    started,    \* platforms with a preserved search request, or its decision
    gone,       \* revisions whose binding the service no longer serves
    todo,       \* writes left to the command under way
    attested,   \* ghost: <<p, r>> the user has said p holds r
    faults

files == <<round, slot, baseline, lists, started>>
vars == <<files, gone, todo, attested, faults>>

NoRec == [policy |-> 0, rev |-> NoRev, state |-> "none", pre |-> "pending"]
NoCard == [kind |-> "none", p |-> 0, rev |-> NoRev, round |-> 0]
Card(kind, p, r) == [kind |-> kind, p |-> p, rev |-> r, round |-> round.id]
NoList == [n |-> 0, of |-> 0, is |-> "none"]

Fresh(id, r) ==
    [id |-> id, status |-> "active", bound |-> r, hold |-> 0,
     st |-> [p \in Platforms |-> "pending"], rec |-> [p \in Platforms |-> NoRec],
     follow |-> [p \in Platforms |-> "none"], begun |-> {},
     direction |-> "none", prev |-> NoCard]

Init ==
    /\ round = [Fresh(0, NoRev) EXCEPT !.status = "not_started"]
    /\ slot = NoCard /\ baseline = [p \in Platforms |-> NoRev]
    /\ lists = [p \in Platforms |-> NoList] /\ started = {} /\ gone = {}
    /\ todo = <<>> /\ attested = {} /\ faults = 0

-----------------------------------------------------------------------------
(* The writes of a command, each one a file replaced *)

Record(p, v) == [w |-> "record", p |-> p, v |-> v]
Status(p, s) == [w |-> "status", p |-> p, s |-> s]
Slot(c) == [w |-> "slot", c |-> c]
DropOwn(p, r) == [w |-> "own", p |-> p, r |-> r]
Baseline(p, r) == [w |-> "baseline", p |-> p, r |-> r]
HoldRound(p) == [w |-> "hold", p |-> p]
Bind(r) == [w |-> "bind", r |-> r]
Start(p) == [w |-> "start", p |-> p]
Found(p) == [w |-> "found", p |-> p]
Clear(p) == [w |-> "clear", p |-> p]
List(p, is) == [w |-> "list", p |-> p, is |-> is]
Deliver(p) == [w |-> "deliver", p |-> p]
Follow(p, f, s) == [w |-> "follow", p |-> p, f |-> f, s |-> s]
Direction(d) == [w |-> "direction", d |-> d]
Create(r) == [w |-> "create", r |-> r]
Settle == [w |-> "settle"]
FinishNext == [w |-> "finish"]

Idle == todo = <<>>
Active == round.status = "active"
Do(writes) == todo' = writes /\ UNCHANGED <<files, gone, attested, faults>>

Next1(w) == todo # <<>> /\ Head(todo).w = w /\ todo' = Tail(todo)
Rest == UNCHANGED <<gone, attested, faults>>
RoundOnly == UNCHANGED <<slot, baseline, lists, started>> /\ Rest

\* Mutation: dropping the record leaves the round's hold.
HoldKept(p, v) == round.hold

\* Without the record of its platform there is no hold of the round.
HoldAfter(p, v) == IF v = NoRec /\ round.hold = p THEN 0 ELSE round.hold

SaveRecord ==
    /\ Next1("record") /\ RoundOnly
    /\ LET h == Head(todo) IN
       round' = IF ~Active THEN round
                ELSE [round EXCEPT !.rec[h.p] = h.v, !.hold = HoldAfter(h.p, h.v)]

SaveHold ==
    /\ Next1("hold") /\ RoundOnly
    /\ round' = [round EXCEPT !.hold = Head(todo).p]

SaveStatus ==
    /\ Next1("status") /\ RoundOnly
    /\ round' = [round EXCEPT !.st[Head(todo).p] = Head(todo).s]

SaveSlot ==
    /\ Next1("slot") /\ slot' = Head(todo).c
    /\ UNCHANGED <<round, baseline, lists, started>> /\ Rest

\* Only the card of this question is cleared, the slot may hold another by now.
ClearOwnCard ==
    /\ Next1("own")
    /\ LET h == Head(todo) IN
       slot' = IF slot = Card("freshness", h.p, h.r) THEN NoCard ELSE slot
    /\ UNCHANGED <<round, baseline, lists, started>> /\ Rest

SaveBaseline ==
    /\ Next1("baseline")
    /\ baseline' = [baseline EXCEPT ![Head(todo).p] = Head(todo).r]
    /\ UNCHANGED <<round, slot, lists, started>> /\ Rest

SaveBinding ==
    /\ Next1("bind") /\ RoundOnly
    /\ round' = [round EXCEPT !.bound = Head(todo).r]

\* The preserved request of a search: a search that goes on keeps its request, and
\* the list it has found already.
SaveStart ==
    /\ Next1("start") /\ started' = started \cup {Head(todo).p}
    /\ lists' = IF Head(todo).p \in started THEN lists ELSE [lists EXCEPT ![Head(todo).p].n = @ + 1]
    /\ UNCHANGED <<round, slot, baseline>> /\ Rest

SaveFound ==
    /\ Next1("found")
    /\ LET p == Head(todo).p IN
       lists' = [lists EXCEPT ![p].of = lists[p].n,
                              ![p].is = IF lists[p].of = lists[p].n THEN @ ELSE "found"]
    /\ UNCHANGED <<round, slot, baseline, started>> /\ Rest

SaveClear ==
    /\ Next1("clear") /\ started' = started \ {Head(todo).p}
    /\ UNCHANGED <<round, slot, baseline, lists>> /\ Rest

SaveList ==
    /\ Next1("list") /\ lists' = [lists EXCEPT ![Head(todo).p].is = Head(todo).is]
    /\ UNCHANGED <<round, slot, baseline, started>> /\ Rest

SaveDelivery ==
    /\ Next1("deliver")
    /\ round' = [round EXCEPT !.begun = @ \cup {Head(todo).p}]
    /\ UNCHANGED <<slot, baseline, lists, started>> /\ Rest

SaveFollowup ==
    /\ Next1("follow") /\ RoundOnly
    /\ LET h == Head(todo) IN
       round' = [round EXCEPT !.follow[h.p] = h.f, !.st[h.p] = h.s]

\* The card displaced by the question of the new direction is kept with it.
SaveDirection ==
    /\ Next1("direction") /\ RoundOnly
    /\ round' = [round EXCEPT !.direction = Head(todo).d,
                              !.prev = IF Head(todo).d = "awaiting" THEN slot ELSE NoCard]

SaveCreated ==
    /\ Next1("create") /\ round' = Fresh(round.id + 1, Head(todo).r)
    /\ lists' = [p \in Platforms |-> NoList]
    /\ UNCHANGED <<slot, baseline, started>> /\ Rest

\* round_status completes a round that is over: at the end of a command, and
\* whenever the host asks.
Over == \A p \in Platforms : round.st[p] \in Terminal
SaveSettled ==
    /\ Next1("settle") /\ RoundOnly
    /\ round' = IF Active /\ Over THEN [round EXCEPT !.status = "completed"] ELSE round

Die ==
    /\ ~Idle /\ faults < MaxFaults
    /\ todo' = <<>> /\ faults' = faults + 1
    /\ UNCHANGED <<files, gone, attested>>

-----------------------------------------------------------------------------
(* The order of the platforms *)

Open == {p \in Platforms : round.st[p] \notin Terminal \cup {Held}}
IsCurrent(p) == p \in Open /\ \A q \in Open : p <= q

\* assert_platform_turn; the commands of a platform also wait for the choice
\* after a cancelled list.
Turn(p) == Active /\ round.hold = 0 /\ IsCurrent(p)
ChoiceDue == \E p \in Platforms : round.follow[p] = "awaiting"
Works(p) == Idle /\ Turn(p) /\ ~ChoiceDue

(* The freshness gate *)

Rec(p) == round.rec[p]
AsksAgain(p) == round.bound # NoRev /\ Rec(p).state = "awaiting"
IsHeld(p) == Rec(p).state \in HoldStates

BaselineIsFresh(p) == baseline[p] = round.bound
GatePasses(p) == round.bound = NoRev \/ (Rec(p) = NoRec /\ BaselineIsFresh(p))

\* Mutation: only a new question is shown.
GateOnce(p, policy) ==
    /\ round.bound # NoRev /\ Rec(p) = NoRec /\ ~BaselineIsFresh(p)
    /\ Do(<<Record(p, [policy |-> policy, rev |-> round.bound, state |-> "awaiting",
                       pre |-> round.st[p]]),
            Slot(Card("freshness", p, round.bound))>>)

Gate(p, policy) ==
    \/ AsksAgain(p) /\ Do(<<Slot(Card("freshness", p, Rec(p).rev))>>)
    \/ /\ round.bound # NoRev /\ Rec(p) = NoRec /\ ~BaselineIsFresh(p)
       /\ Do(<<Record(p, [policy |-> policy, rev |-> round.bound, state |-> "awaiting",
                          pre |-> round.st[p]]),
               Slot(Card("freshness", p, round.bound))>>)

-----------------------------------------------------------------------------
(* Work on the current platform *)

Login(p) ==
    /\ Works(p) /\ round.st[p] \notin Listed /\ p \notin round.begun
    /\ Do(<<Status(p, "working")>>)

MaySearch(p) == Works(p) /\ round.st[p] \notin Listed \cup {"sent"} /\ p \notin round.begun
SearchGated(p) == round.st[p] \in Searchable /\ p \notin started /\ ~GatePasses(p)

AskBeforeSearch(p) == MaySearch(p) /\ SearchGated(p) /\ Gate(p, 2)

\* A binding that the service refuses is taken from the round.
SearchUnbinds(p) ==
    /\ MaySearch(p) /\ ~SearchGated(p) /\ round.bound \in gone
    /\ Do(<<Bind(NoRev)>>)

Searches(p) ==
    /\ MaySearch(p) /\ ~SearchGated(p) /\ round.bound \notin gone
    /\ p \in started \/ lists[p].n < MaxLists
SearchBlocked(p) ==
    Searches(p) /\ Do(<<Start(p), Status(p, "working")>>)

\* The bulk executor has cleared its request, and clears the decision, before the
\* status is written; the native executor clears its request after.
FoundWrites(p) ==
    IF Executor = "bulk" THEN <<Found(p), Clear(p), Status(p, "discovered")>>
                         ELSE <<Found(p), Status(p, "discovered"), Clear(p)>>
Search(p) ==
    Searches(p) /\ Do(<<Start(p), Status(p, "working")>> \o FoundWrites(p))

Review(p) ==
    /\ Works(p) /\ lists[p].is \in {"found", "shown", "confirmed"}
    /\ Do(<<List(p, "shown"), Slot(Card("delivery", p, NoRev)),
            Status(p, "awaiting_delivery_confirmation")>>)

\* The answer to the card of a list asks for its round and not for the turn.
CardOf(kind, p) == slot.kind = kind /\ slot.p = p /\ slot.round = round.id

Confirm(p) ==
    /\ Idle /\ Active /\ CardOf("delivery", p) /\ lists[p].is \in {"shown", "confirmed"}
    /\ Do(<<List(p, "confirmed"), Status(p, "reviewed")>>)

CancelList(p) ==
    /\ Idle /\ Turn(p) /\ CardOf("delivery", p) /\ lists[p].is \in {"shown", "confirmed"}
    /\ p \notin round.begun
    /\ Do(<<Follow(p, "awaiting", "awaiting_after_cancel_choice"),
            Slot(Card("after_cancel", p, NoRev)), List(p, "cancelled")>>)

MayDeliver(p) == Works(p) /\ lists[p].is = "confirmed"
AskBeforeDelivery(p) == MayDeliver(p) /\ ~GatePasses(p) /\ \E q \in Policies : Gate(p, q)

StartDelivery(p) ==
    /\ MayDeliver(p) /\ GatePasses(p)
    /\ Do(<<Deliver(p), Status(p, "sent")>>)

Audit(p) ==
    /\ Works(p) /\ round.st[p] = "sent"
    /\ Do(<<Status(p, "completed"), Settle>>)

-----------------------------------------------------------------------------
(* Skipping a platform, and the choice after a cancelled list *)

FollowWrites(p, choice) ==
    <<Follow(p, choice, IF choice = "skip_platform" THEN "skipped_this_round"
                        ELSE "working"), Slot(NoCard), Settle>>

MayChoose(p) == round.follow[p] = "awaiting" /\ Turn(p) /\ p \notin started

ChooseAfterCancel(p, choice) ==
    /\ Idle /\ MayChoose(p) /\ choice \in {"search_again", "skip_platform"}
    /\ Do(FollowWrites(p, choice))

OwnsHold(p) == round.st[p] = Held \/ round.hold = p \/ Rec(p) # NoRec

SkipWrites(p) ==
    IF round.follow[p] = "awaiting" THEN FollowWrites(p, "skip_platform")
    ELSE (IF Rec(p) # NoRec
          THEN <<Record(p, NoRec), Status(p, Rec(p).pre), DropOwn(p, Rec(p).rev)>> ELSE <<>>)
         \o <<Status(p, "skipped_this_round"), Settle>>

\* Mutation: a platform that is held is skipped in its turn only.
MaySkipInTurn(p) == IF round.follow[p] = "awaiting" THEN MayChoose(p) ELSE Turn(p)

MaySkip(p) ==
    IF round.follow[p] = "awaiting" THEN MayChoose(p) ELSE OwnsHold(p) \/ Turn(p)

Skip(p) == Idle /\ Active /\ MaySkip(p) /\ Do(SkipWrites(p))

-----------------------------------------------------------------------------
(* Answers to the freshness question *)

\* Mutation: what is attested is the revision bound by now.
ResolveBound(p) ==
    <<Baseline(p, round.bound), Record(p, NoRec), Status(p, Rec(p).pre),
      DropOwn(p, Rec(p).rev)>>

\* "synced": the revision of the question is the platform's, and the platform
\* goes on where it was when it was asked.
ResolveWrites(p) ==
    <<Baseline(p, Rec(p).rev), Record(p, NoRec), Status(p, Rec(p).pre),
      DropOwn(p, Rec(p).rev)>>

Synced(p) ==
    /\ attested' = attested \cup {<<p, Rec(p).rev>>}
    /\ todo' = ResolveWrites(p)
    /\ UNCHANGED <<files, gone, faults>>

\* The binding of a former client's question is gone: the hold is let go, and
\* with it the binding, unless the round was bound anew.
Unwind(p) ==
    Do((IF round.bound = Rec(p).rev THEN <<Bind(NoRev)>> ELSE <<>>)
       \o <<Record(p, NoRec), Status(p, Rec(p).pre)>>)

\* The service is asked for the binding before the answer counts.
Recheck(p) ==
    \/ Rec(p).rev \notin gone /\ Synced(p)
    \/ Rec(p).rev \in gone /\ Rec(p).policy = 1 /\ Unwind(p)

Shown(p) == Idle /\ Active /\ slot.kind = "freshness" /\ slot.p = p
Pending(p) ==
    /\ Shown(p) /\ round.st[p] \notin Terminal
    /\ Rec(p) # NoRec /\ slot = Card("freshness", p, Rec(p).rev)

AnswerTooLate(p) ==
    /\ Shown(p) /\ round.st[p] \in Terminal
    /\ Do(<<Record(p, NoRec), Slot(NoCard)>>)

AnswerSynced(p) ==
    /\ Pending(p)
    /\ IF Rec(p).policy = 2 THEN Recheck(p) ELSE Synced(p)

PausePlatform(p) ==
    /\ Pending(p)
    /\ Do(IF Rec(p).policy = 2
          THEN <<Record(p, NoRec), Slot(NoCard), Status(p, "skipped_this_round"), Settle>>
          ELSE <<Record(p, [Rec(p) EXCEPT !.state = "platform_hold"]), Status(p, Held),
                 Slot(NoCard)>>)

PauseRound(p) ==
    /\ Pending(p)
    /\ Do(<<Record(p, [Rec(p) EXCEPT !.state = "round_hold"]), HoldRound(p),
            Status(p, Held), Slot(NoCard)>>)

\* A hold is answered by its id, whatever card is in the slot.
AnswerHeld(p) ==
    /\ Idle /\ Active /\ IsHeld(p) /\ slot # Card("freshness", p, Rec(p).rev)
    /\ Recheck(p)

-----------------------------------------------------------------------------
(* Starting a round, its resume, and a change of direction *)

StartRound(r) ==
    /\ Idle /\ ~Active /\ round.id < MaxRounds /\ r \notin gone
    /\ Do(<<Create(r), Slot(NoCard)>>)

\* "round start" in an active round: the slot is cleared, whatever was in it.
StartAgain(r) ==
    /\ Idle /\ Active /\ slot.kind # "setup"
    /\ \/ round.bound \in gone /\ r = NoRev /\ Do(<<Bind(NoRev)>>)
       \/ round.bound \notin gone /\ round.bound # NoRev /\ r = NoRev
          /\ slot # NoCard /\ Do(<<Slot(NoCard)>>)
       \/ round.bound = NoRev /\ r \in Revs \ gone /\ Do(<<Slot(NoCard), Bind(r)>>)

AskResume ==
    /\ Idle /\ Active /\ round.bound = NoRev /\ slot.kind # "setup" /\ Revs \ gone # {}
    /\ Do(<<Slot(Card("setup", 0, NoRev))>>)

ChooseResume(r) ==
    /\ Idle /\ Active /\ slot.kind = "setup" /\ r \in Revs \ gone
    /\ Do(<<Slot(NoCard), Bind(r)>>)

AskDirection ==
    /\ Idle /\ Active /\ round.direction = "none" /\ MaxDirections > 0
    /\ Do(<<Direction("awaiting"), Slot(Card("direction", 0, NoRev))>>)

KeepRound ==
    /\ Idle /\ Active /\ round.direction = "awaiting"
    /\ Do(<<Slot(round.prev), Direction("cancelled")>>)

FinishRound ==
    /\ Idle /\ Active /\ round.direction \in {"awaiting", "finishing"}
    /\ Do(<<Direction("finishing"), FinishNext>>)

\* The platforms left are skipped one after the other; a refusal ends it.
ToFinish ==
    IF Open # {} THEN {p \in Open : \A q \in Open : p <= q}
    ELSE {p \in Platforms : round.st[p] = Held /\ \A q \in Platforms : round.st[q] = Held => p <= q}

Finish ==
    /\ todo # <<>> /\ Head(todo).w = "finish"
    /\ \/ Over /\ todo' = <<Slot(NoCard), Direction("completed")>>
       \/ /\ ~Over
          /\ \E p \in ToFinish :
                todo' = IF MaySkip(p) THEN SkipWrites(p) \o <<FinishNext>> ELSE <<>>
    /\ UNCHANGED files /\ Rest

RoundStatus == Idle /\ Active /\ Over /\ Do(<<Settle>>)

(* The user changes or withdraws a resume in the workbench. *)
ResumeGone(r) ==
    /\ Idle /\ Cardinality(gone) < MaxGone /\ r \in Revs \ gone /\ gone' = gone \cup {r}
    /\ UNCHANGED <<files, todo, attested, faults>>

-----------------------------------------------------------------------------
Write ==
    \/ SaveRecord \/ SaveHold \/ SaveStatus \/ SaveSlot \/ ClearOwnCard \/ SaveBaseline
    \/ SaveBinding \/ SaveStart \/ SaveFound \/ SaveClear \/ SaveList \/ SaveDelivery \/ SaveFollowup
    \/ SaveDirection \/ SaveCreated \/ SaveSettled \/ Finish

Work(p) ==
    \/ Login(p) \/ AskBeforeSearch(p) \/ SearchUnbinds(p) \/ SearchBlocked(p) \/ Search(p)
    \/ Review(p) \/ Confirm(p) \/ CancelList(p)
    \/ AskBeforeDelivery(p) \/ StartDelivery(p) \/ Audit(p)

Answer(p) ==
    \/ Skip(p) \/ \E c \in {"search_again", "skip_platform"} : ChooseAfterCancel(p, c)
    \/ AnswerTooLate(p) \/ AnswerSynced(p) \/ PausePlatform(p) \/ PauseRound(p) \/ AnswerHeld(p)

Manage ==
    \/ \E r \in Revs \cup {NoRev} : StartRound(r) \/ StartAgain(r) \/ ChooseResume(r)
    \/ AskResume \/ AskDirection \/ KeepRound \/ FinishRound \/ RoundStatus
    \/ \E r \in Revs : ResumeGone(r)

Next == Write \/ Die \/ (\E p \in Platforms : Work(p) \/ Answer(p)) \/ Manage

Spec == Init /\ [][Next]_vars

\* A command ends, or dies.
FairSpec == Spec /\ WF_vars(Write)

\* The host goes on with what the platform at hand is due, a freshness question
\* first; the user confirms the lists that are shown.
Asks == \E p \in Platforms : AskBeforeSearch(p) \/ AskBeforeDelivery(p) \/ Search(p)
Host ==
    /\ SF_vars(Asks)
    /\ SF_vars(\E p \in Platforms : Review(p)) /\ SF_vars(\E p \in Platforms : Confirm(p))

\* A user insists on giving up what is left.
Insists == WF_vars(RoundStatus) /\ \A p \in Platforms : SF_vars(Skip(p))

-----------------------------------------------------------------------------
(* Properties *)

Recs == [policy : {0, 1, 2}, rev : Revs \cup {NoRev},
         state : {"none", "awaiting"} \cup HoldStates, pre : Statuses]
Cards == [kind : {"none", "freshness", "delivery", "after_cancel", "setup", "direction"},
          p : Platforms \cup {0}, rev : Revs \cup {NoRev}, round : Nat]
Choices == {"none", "awaiting", "search_again", "skip_platform"}
Directions == {"none", "awaiting", "cancelled", "finishing", "completed"}
RoundFiles ==
    [id : Nat, status : {"not_started", "active", "completed"}, bound : Revs \cup {NoRev},
     hold : Platforms \cup {0}, st : [Platforms -> Statuses], rec : [Platforms -> Recs],
     follow : [Platforms -> Choices], begun : SUBSET Platforms,
     direction : Directions, prev : Cards]
ListStates == {"none", "found", "shown", "confirmed", "cancelled"}
Writes ==
    [w : {"record"}, p : Platforms, v : Recs] \cup [w : {"status"}, p : Platforms, s : Statuses]
    \cup [w : {"slot"}, c : Cards] \cup [w : {"hold", "start", "found", "clear", "deliver"}, p : Platforms]
    \cup [w : {"own", "baseline"}, p : Platforms, r : Revs \cup {NoRev}]
    \cup [w : {"bind", "create"}, r : Revs \cup {NoRev}]
    \cup [w : {"list"}, p : Platforms, is : ListStates]
    \cup [w : {"follow"}, p : Platforms, f : Choices, s : Statuses]
    \cup [w : {"direction"}, d : Directions \ {"none"}] \cup [w : {"settle", "finish"}]

\* The files and the writes under way are of their kinds: a status is one that
\* the order knows, a choice is one the card offered.
RoundsTypeOK ==
    /\ round \in RoundFiles /\ slot \in Cards
    /\ baseline \in [Platforms -> Revs \cup {NoRev}]
    /\ lists \in [Platforms -> [n : Nat, of : Nat, is : ListStates]]
    /\ started \subseteq Platforms /\ gone \subseteq Revs
    /\ todo \in Seq(Writes) /\ faults \in Nat

\* Nothing is delivered on a platform under a revision of which the user has not
\* said that the platform holds it.
Delivers(p) == todo # <<>> /\ Head(todo) = Deliver(p)

DeliveredAsAttested ==
    \A p \in Platforms : Delivers(p) /\ round.bound # NoRev => <<p, round.bound>> \in attested

\* The answer "synced" ends the hold: its question is a record of the platform, and
\* the service still serves the binding asked about, or a former client asked.
SyncedEnds(p) == IsHeld(p) /\ (Rec(p).rev \notin gone \/ Rec(p).policy = 1)

\* Giving up the platform drops its record, and the hold of the round with it.
SkipEnds(p) == Rec(p) # NoRec /\ MaySkip(p)

\* A round on hold can be released: the answer "synced" is taken, or the platform
\* that holds the round can be skipped.  A question of the present client whose
\* binding is gone leaves the skip only, and a change of direction can leave neither:
\* it puts back a card that it displaced beside the choice after a cancelled list.
HoldCanBeEnded ==
    \A p \in Platforms : round.hold = p =>
        \/ SyncedEnds(p) \/ SkipEnds(p)
        \/ round.direction # "none" /\ round.follow[p] = "awaiting"

\* The user is asked again: a freshness question of the platform at hand that another
\* card displaced, or a command that died left unasked, is in the slot once more,
\* unless by then it is answered, another platform or another choice is due, or the
\* resume is gone from the round.
AskedAgain ==
    Host => \A p \in Platforms :
        (Active /\ IsCurrent(p) /\ Rec(p).state = "awaiting")
            ~> (slot = Card("freshness", p, Rec(p).rev) \/ Rec(p).state # "awaiting"
                \/ ~IsCurrent(p) \/ ~Active \/ round.hold # 0 \/ ChoiceDue
                \/ round.bound = NoRev \/ round.bound \in gone)

\* A user who goes on skipping what is left gets to the end of the round, unless a
\* change of direction was asked for, or a list was cancelled while the request of its
\* search was still kept: the choice after it, and the skip, are then refused.
SkippedOut ==
    Insists => (Active ~> \/ ~Active \/ round.direction # "none"
                          \/ \E p \in started : round.follow[p] = "awaiting")

\* The choice to search a platform again stands until a search has found a list.
SearchAgainStands ==
    \A p \in Platforms :
        Idle /\ round.follow[p] = "search_again" /\ lists[p].is = "cancelled"
            => round.st[p] # "reviewed"
===============================================================================
