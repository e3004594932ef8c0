----------------------------- MODULE RoundsProofs -----------------------------
(***************************************************************************)
(* What a round keeps, for every number of platforms, revisions and rounds,  *)
(* and however many commands die.                                            *)
(*                                                                          *)
(* The argument is about the writes that a command still has to make.  Most  *)
(* are quiet: neither the hold of the round, nor a question, nor a baseline, *)
(* nor a delivery depends on them (DoQuiet).  The others are in an order      *)
(* that matters (WritesInOrder): a baseline was attested when it is written; *)
(* a delivery is the first write of its command, while the gate still        *)
(* passes; a new question is the first write of its command, and not of the  *)
(* platform that holds the round; the hold of the round comes right after    *)
(* the record of its platform.  So a hold has its question (HoldIsKept).      *)
(*                                                                          *)
(* That the platform can also be skipped rests on ChoiceInv: beside the      *)
(* choice after a cancelled list there is neither the hold nor a freshness    *)
(* card of that platform, nor a write that puts one there, as long as no      *)
(* change of direction was asked for.                                        *)
(***************************************************************************)
EXTENDS Rounds, SequenceTheorems, TLAPS

USE RoundsAssumption

\* A baseline is a revision the user attested.
Attested == \A p \in Platforms : baseline[p] # NoRev => <<p, baseline[p]>> \in attested

IsAsking(v) == v.state = "awaiting"
Holds(v) == v.state \in HoldStates

InOrder(i) ==
    /\ todo[i].w = "baseline" => <<todo[i].p, todo[i].r>> \in attested
    /\ todo[i].w = "deliver" =>
          i = 1 /\ (round.bound = NoRev \/ baseline[todo[i].p] = round.bound)
    /\ todo[i].w = "record" =>
          \/ todo[i].v = NoRec \/ Holds(todo[i].v)
          \/ i = 1 /\ IsAsking(todo[i].v) /\ round.hold # todo[i].p
    /\ todo[i].w = "hold" =>
          \/ i = 1 /\ IsHeld(todo[i].p)
          \/ i = 2 /\ Active /\ todo[1].w = "record" /\ todo[1].p = todo[2].p /\ Holds(todo[1].v)

WritesInOrder == \A i \in 1..Len(todo) : InOrder(i)

\* The platform that holds the round has a question that says so.
HoldIsKept == round.hold # 0 => IsHeld(round.hold)

Asked(c, p) == c.kind = "freshness" /\ c.p = p
Beside(p) == round.hold = p \/ Asked(slot, p)
Puts(e, p) == (e.w = "hold" /\ e.p = p) \/ (e.w = "slot" /\ Asked(e.c, p))
Opens(e, p) == e.w = "follow" /\ e.f = "awaiting" /\ e.p = p
Choosing(p) == round.direction = "none" /\ round.follow[p] = "awaiting"

ChoiceInv ==
    /\ \A p \in Platforms : Choosing(p) =>
          ~Beside(p) /\ \A i \in 1..Len(todo) : ~Puts(todo[i], p)
    /\ \A i \in 1..Len(todo), p \in Platforms : Opens(todo[i], p) =>
          ~Beside(p) /\ \A k \in 1..Len(todo), q \in Platforms : ~Puts(todo[k], q)

RoundInv == RoundsTypeOK /\ Attested /\ HoldIsKept /\ WritesInOrder /\ ChoiceInv

\* In order wherever they come.
Orderly == {e \in Writes : e.w \notin {"baseline", "deliver", "record", "hold"}
                           \/ (e.w = "record" /\ e.v = NoRec)}

\* And they open no choice and show no question.
Quiet == {e \in Orderly : (e.w = "follow" => e.f # "awaiting") /\ (e.w = "slot" => e.c.kind # "freshness")}

-----------------------------------------------------------------------------
(* The writes *)

LEMMA WriteParts ==
    ASSUME NEW e \in Writes
    PROVE  /\ e.w \in {"record", "status", "hold", "start", "found", "clear", "deliver", "own", "baseline",
                       "list", "follow"} => e.p \in Platforms
           /\ e.w = "record" => e.v \in Recs
           /\ e.w \in {"status", "follow"} => e.s \in Statuses
           /\ e.w = "slot" => e.c \in Cards
           /\ e.w \in {"own", "baseline", "bind", "create"} => e.r \in Revs \cup {NoRev}
           /\ e.w = "list" => e.is \in ListStates
           /\ e.w = "follow" => e.f \in Choices
           /\ e.w = "direction" => e.d \in Directions \ {"none"}
    BY DEF Writes

LEMMA NonesTyped ==
    NoRec \in Recs /\ NoCard \in Cards /\ NoRec.state = "none" /\ NoCard.kind = "none"
    BY DEF NoRec, Recs, NoCard, Cards, NoRev, Statuses, Searchable

LEMMA MadeQuiet ==
    /\ \A p \in Platforms : /\ Record(p, NoRec) \in Quiet /\ Start(p) \in Quiet
                           /\ Found(p) \in Quiet /\ Clear(p) \in Quiet
    /\ \A p \in Platforms, s \in Statuses : Status(p, s) \in Quiet
    /\ \A c \in Cards : Slot(c) \in Orderly /\ (c.kind # "freshness" => Slot(c) \in Quiet)
    /\ \A p \in Platforms, r \in Revs \cup {NoRev} : DropOwn(p, r) \in Quiet
    /\ \A r \in Revs \cup {NoRev} : Bind(r) \in Quiet /\ Create(r) \in Quiet
    /\ \A p \in Platforms, is \in ListStates : List(p, is) \in Quiet
    /\ \A p \in Platforms, f \in Choices, s \in Statuses :
          Follow(p, f, s) \in Orderly /\ (f # "awaiting" => Follow(p, f, s) \in Quiet)
    /\ \A d \in Directions \ {"none"} : Direction(d) \in Quiet
    /\ Settle \in Quiet /\ FinishNext \in Quiet
<1>1. NoRec \in Recs
    BY NonesTyped
<1> QED
    BY <1>1 DEF Orderly, Quiet, Opens, Writes, Record, Start, Found, Clear, Status, Slot, DropOwn,
                Bind, Create, List, Follow, Direction, Settle, FinishNext

LEMMA QuietSeq == Seq(Quiet) \subseteq Seq(Orderly) /\ Seq(Orderly) \subseteq Seq(Writes)
    BY DEF Quiet, Orderly

LEMMA StatusesTyped ==
    {"pending", "working", "discovered", "awaiting_delivery_confirmation", "reviewed", "sent",
     "completed", "skipped_this_round", "awaiting_after_cancel_choice", Held} \subseteq Statuses
    BY DEF Statuses, Searchable, Listed, Terminal, Held

LEMMA RecTyped ==
    ASSUME RoundsTypeOK, NEW p \in Platforms
    PROVE  Rec(p) \in Recs /\ Rec(p).rev \in Revs \cup {NoRev} /\ Rec(p).pre \in Statuses
           /\ round.st[p] \in Statuses /\ round.bound \in Revs \cup {NoRev} /\ round.prev \in Cards
    BY DEF RoundsTypeOK, RoundFiles, Rec, Recs

LEMMA CardTyped ==
    ASSUME RoundsTypeOK, NEW p \in Platforms \cup {0}, NEW r \in Revs \cup {NoRev}
    PROVE  /\ Card("freshness", p, r) \in Cards /\ Card("delivery", p, r) \in Cards
           /\ Card("after_cancel", p, r) \in Cards /\ Card("setup", p, r) \in Cards
           /\ Card("direction", p, r) \in Cards
           /\ \A k \in {"freshness", "delivery", "after_cancel", "setup", "direction"} :
                 Card(k, p, r).kind = k /\ Card(k, p, r).p = p
    BY DEF RoundsTypeOK, RoundFiles, Card, Cards

-----------------------------------------------------------------------------
(* Commands that make quiet writes *)

\* What a command has to write leaves the choices alone, if it opens none and shows
\* no question, and holds no platform, beside one.
LEMMA NewWrites ==
    ASSUME RoundInv, UNCHANGED <<round, slot>>,
           \A i \in 1..Len(todo'), p \in Platforms :
              ~Opens(todo'[i], p) /\ (Puts(todo'[i], p) => ~Choosing(p))
    PROVE  ChoiceInv'
    BY DEF RoundInv, ChoiceInv, Choosing, Beside

LEMMA DoOrderly ==
    ASSUME RoundInv, todo' \in Seq(Orderly), UNCHANGED <<files, gone, attested, faults>>, ChoiceInv'
    PROVE  RoundInv'
<1>1. RoundsTypeOK'
    BY QuietSeq DEF RoundInv, RoundsTypeOK, files
<1>2. Attested' /\ HoldIsKept'
    BY DEF RoundInv, Attested, HoldIsKept, IsHeld, Rec, files
<1>3. ASSUME NEW i \in 1..Len(todo') PROVE InOrder(i)'
    <2>1. todo'[i] \in Orderly
        BY <1>3
    <2> QED
        BY <2>1 DEF InOrder, Orderly
<1> QED
    BY <1>1, <1>2, <1>3 DEF RoundInv, WritesInOrder

LEMMA DoQuiet ==
    ASSUME RoundInv, todo' \in Seq(Quiet), UNCHANGED <<files, gone, attested, faults>>
    PROVE  RoundInv'
<1>1. \A i \in 1..Len(todo') : todo'[i] \in Quiet
    OBVIOUS
<1>2. \A i \in 1..Len(todo') : \A p \in Platforms : ~Opens(todo'[i], p) /\ ~Puts(todo'[i], p)
    BY <1>1 DEF Quiet, Orderly, Opens, Puts, Asked
<1>3. ChoiceInv'
    BY <1>2, NewWrites DEF files
<1> QED
    BY <1>3, QuietSeq, DoOrderly

\* A write that is not a record leaves the rest in order, whatever it writes.
LEMMA TailInOrder ==
    ASSUME RoundInv, todo # <<>>, todo' = Tail(todo), UNCHANGED attested, Head(todo).w # "record"
    PROVE  WritesInOrder'
<1>1. todo \in Seq(Writes) /\ Head(todo) = todo[1]
    BY DEF RoundInv, RoundsTypeOK
<1>2. SUFFICES ASSUME NEW i \in 1..Len(todo') PROVE InOrder(i)'
    BY DEF WritesInOrder
<1>3. i + 1 \in 1..Len(todo) /\ todo'[i] = todo[i + 1] /\ i + 1 # 1 /\ i \in Nat
    BY <1>1, <1>2
<1>4. InOrder(i + 1)
    BY <1>3 DEF RoundInv, WritesInOrder
<1> QED
    BY <1>1, <1>3, <1>4 DEF InOrder

LEMMA TailTyped ==
    ASSUME RoundsTypeOK, NEW w, Next1(w)
    PROVE  Head(todo) \in Writes /\ Head(todo).w = w /\ todo # <<>> /\ todo' = Tail(todo)
           /\ todo' \in Seq(Writes)
    BY DEF RoundsTypeOK, Next1

\* A write that leaves the choices, and puts no hold and no card, beside them.
Undisturbed ==
    /\ round'.hold \in {round.hold, 0} /\ round'.follow = round.follow
    /\ round'.direction = "none" => round.direction = "none"
    /\ slot' \in {slot, NoCard}

LEMMA TailChoices ==
    ASSUME RoundInv, todo # <<>>, todo' = Tail(todo), Undisturbed
    PROVE  ChoiceInv'
<1>1. todo \in Seq(Writes)
    BY DEF RoundInv, RoundsTypeOK
<1>2. \A i \in 1..Len(todo') : i + 1 \in 1..Len(todo) /\ todo'[i] = todo[i + 1]
    BY <1>1
<1>3. \A p \in Platforms : Beside(p)' => Beside(p)
    BY NonesTyped DEF Undisturbed, Beside, Asked, Platforms
<1>4. \A p \in Platforms : Choosing(p)' => Choosing(p)
    BY DEF Undisturbed, Choosing
<1>5. ASSUME NEW p \in Platforms, Choosing(p)' PROVE ~Beside(p)' /\ \A i \in 1..Len(todo') : ~Puts(todo'[i], p)
    BY <1>2, <1>3, <1>4, <1>5 DEF RoundInv, ChoiceInv
<1>6. ASSUME NEW i \in 1..Len(todo'), NEW p \in Platforms, Opens(todo'[i], p)
      PROVE  ~Beside(p)' /\ \A k \in 1..Len(todo'), q \in Platforms : ~Puts(todo'[k], q)
    <2>1. i + 1 \in 1..Len(todo) /\ todo'[i] = todo[i + 1] /\ Opens(todo[i + 1], p)
        BY <1>2, <1>6
    <2>2. ~Beside(p) /\ \A k \in 1..Len(todo), q \in Platforms : ~Puts(todo[k], q)
        BY <2>1 DEF RoundInv, ChoiceInv
    <2> QED
        BY <1>2, <1>3, <2>1, <2>2
<1> QED
    BY <1>5, <1>6 DEF ChoiceInv

LEMMA SaveKeeps ==
    ASSUME RoundInv, NEW w, Next1(w), w # "record", UNCHANGED attested, RoundsTypeOK',
           baseline' = baseline, round'.hold = round.hold, round'.rec = round.rec, ChoiceInv'
    PROVE  RoundInv'
<1>1. WritesInOrder'
    BY TailInOrder DEF Next1
<1> QED
    BY <1>1 DEF RoundInv, Attested, HoldIsKept, IsHeld, Rec

\* A change of the other parts of the round leaves its hold and its questions.
LEMMA StatusChanged ==
    ASSUME NEW f \in RoundFiles, NEW p \in Platforms, NEW s \in Statuses,
           NEW g, g = [f EXCEPT !.st[p] = s]
    PROVE  /\ g \in RoundFiles /\ g.hold = f.hold /\ g.rec = f.rec
           /\ g.follow = f.follow /\ g.direction = f.direction
<1> DEFINE st == [f.st EXCEPT ![p] = s]
<1>1. st \in [Platforms -> Statuses] /\ g = [f EXCEPT !.st = st]
    BY DEF RoundFiles
<1> HIDE DEF st
<1> QED
    BY <1>1 DEF RoundFiles

LEMMA BegunChanged ==
    ASSUME NEW f \in RoundFiles, NEW p \in Platforms,
           NEW g, g = [f EXCEPT !.begun = f.begun \cup {p}]
    PROVE  /\ g \in RoundFiles /\ g.hold = f.hold /\ g.rec = f.rec
           /\ g.follow = f.follow /\ g.direction = f.direction
<1> DEFINE begun == f.begun \cup {p}
<1>1. begun \in SUBSET Platforms /\ g = [f EXCEPT !.begun = begun]
    BY DEF RoundFiles
<1> HIDE DEF begun
<1> QED
    BY <1>1 DEF RoundFiles

LEMMA RoundSaves ==
    ASSUME RoundInv, SaveStatus \/ SaveBinding \/ SaveFollowup \/ SaveDirection \/ SaveSettled
                     \/ SaveDelivery
    PROVE  RoundInv'
<1> USE DEF RoundInv
<1> DEFINE h == Head(todo)
           SamePart == /\ round'.hold = round.hold /\ round'.rec = round.rec
                       /\ round'.follow = round.follow
                       /\ round'.direction = "none" => round.direction = "none"
<1>1. CASE SaveStatus
    <2>1. Next1("status") /\ h.p \in Platforms /\ h.s \in Statuses
        BY <1>1, TailTyped, WriteParts DEF SaveStatus
    <2>2. round' = [round EXCEPT !.st[h.p] = h.s]
        BY <1>1 DEF SaveStatus
    <2>3. RoundsTypeOK' /\ SamePart
        <3>1. round \in RoundFiles
            BY DEF RoundsTypeOK
        <3> HIDE DEF h
        <3>2. round' \in RoundFiles /\ SamePart
            BY <2>1, <2>2, <3>1, StatusChanged
        <3> QED
            BY <1>1, <2>1, <3>2, TailTyped DEF RoundsTypeOK, SaveStatus, RoundOnly, Rest
    <2>4. ChoiceInv'
        BY <1>1, <2>1, <2>3, TailTyped, TailChoices DEF SaveStatus, RoundOnly, Undisturbed
    <2> QED
        BY <1>1, <2>1, <2>3, <2>4, SaveKeeps DEF SaveStatus, RoundOnly, Rest
<1>2. CASE SaveBinding
    <2>1. Next1("bind") /\ h.r \in Revs \cup {NoRev}
        BY <1>2, TailTyped, WriteParts DEF SaveBinding
    <2>2. round' = [round EXCEPT !.bound = h.r]
        BY <1>2 DEF SaveBinding
    <2>3. RoundsTypeOK' /\ SamePart
        <3> HIDE DEF h
        <3> QED
            BY <1>2, <2>1, <2>2, TailTyped DEF RoundsTypeOK, RoundFiles, SaveBinding, RoundOnly, Rest
    <2>4. ChoiceInv'
        BY <1>2, <2>1, <2>3, TailTyped, TailChoices DEF SaveBinding, RoundOnly, Undisturbed
    <2> QED
        BY <1>2, <2>1, <2>3, <2>4, SaveKeeps DEF SaveBinding, RoundOnly, Rest
<1>3. CASE SaveFollowup
    <2>1. Next1("follow") /\ h.p \in Platforms /\ h.f \in Choices /\ h.s \in Statuses
        BY <1>3, TailTyped, WriteParts DEF SaveFollowup
    <2> DEFINE st == [round.st EXCEPT ![h.p] = h.s]
               follow == [round.follow EXCEPT ![h.p] = h.f]
    <2>2. /\ st \in [Platforms -> Statuses] /\ follow \in [Platforms -> Choices]
          /\ round' = [round EXCEPT !.follow = follow, !.st = st]
        BY <1>3, <2>1 DEF SaveFollowup, RoundsTypeOK, RoundFiles
    <2>3. /\ RoundsTypeOK' /\ round'.hold = round.hold /\ round'.rec = round.rec
          /\ round'.follow = follow /\ round'.direction = round.direction
        <3> HIDE DEF h, st, follow
        <3>1. /\ round' \in RoundFiles /\ round'.hold = round.hold /\ round'.rec = round.rec
              /\ round'.follow = follow /\ round'.direction = round.direction
            BY <2>2 DEF RoundsTypeOK, RoundFiles
        <3> QED
            BY <1>3, <2>1, <3>1, TailTyped DEF RoundsTypeOK, SaveFollowup, RoundOnly, Rest
    <2>4. ChoiceInv'
        <3>1. /\ todo # <<>> /\ todo' = Tail(todo) /\ h = todo[1] /\ h.w = "follow"
              /\ todo \in Seq(Writes) /\ slot' = slot
            BY <1>3, <2>1, TailTyped DEF RoundsTypeOK, SaveFollowup, RoundOnly
        <3>2. \A n \in 1..Len(todo') : n + 1 \in 1..Len(todo) /\ todo'[n] = todo[n + 1]
            BY <3>1
        <3>3. \A p \in Platforms : Beside(p)' <=> Beside(p)
            BY <2>3, <3>1 DEF Beside
        <3>4. \A p \in Platforms : Opens(h, p) =>
                 ~Beside(p) /\ \A n \in 1..Len(todo), q \in Platforms : ~Puts(todo[n], q)
            BY <3>1 DEF ChoiceInv
        <3>5. \A p \in Platforms : Choosing(p)' => Choosing(p) \/ Opens(h, p)
            BY <2>1, <2>3, <3>1 DEF Choosing, Opens, RoundsTypeOK, RoundFiles
        <3>6. ASSUME NEW p \in Platforms, Choosing(p)'
              PROVE  ~Beside(p)' /\ \A n \in 1..Len(todo') : ~Puts(todo'[n], p)
            <4>1. ~Beside(p) /\ \A n \in 1..Len(todo) : ~Puts(todo[n], p)
                BY <3>4, <3>5, <3>6 DEF ChoiceInv
            <4> QED
                BY <3>2, <3>3, <4>1
        <3>7. ASSUME NEW n \in 1..Len(todo'), NEW p \in Platforms, Opens(todo'[n], p)
              PROVE  ~Beside(p)' /\ \A k \in 1..Len(todo'), q \in Platforms : ~Puts(todo'[k], q)
            <4>1. n + 1 \in 1..Len(todo) /\ todo'[n] = todo[n + 1] /\ Opens(todo[n + 1], p)
                BY <3>2, <3>7
            <4>2. ~Beside(p) /\ \A k \in 1..Len(todo), q \in Platforms : ~Puts(todo[k], q)
                BY <4>1 DEF ChoiceInv
            <4> QED
                BY <3>2, <3>3, <4>1, <4>2
        <3> QED
            BY <3>6, <3>7 DEF ChoiceInv
    <2> QED
        BY <1>3, <2>1, <2>3, <2>4, SaveKeeps DEF SaveFollowup, RoundOnly, Rest
<1>4. CASE SaveDirection
    <2>1. Next1("direction") /\ h.d \in Directions \ {"none"}
        BY <1>4, TailTyped, WriteParts DEF SaveDirection
    <2>2. PICK c \in Cards : round' = [round EXCEPT !.direction = h.d, !.prev = c]
        BY <1>4, NonesTyped DEF SaveDirection, RoundsTypeOK
    <2>3. RoundsTypeOK' /\ SamePart
        <3> HIDE DEF h
        <3>1. round' \in RoundFiles /\ SamePart
            BY <2>1, <2>2 DEF RoundsTypeOK, RoundFiles
        <3> QED
            BY <1>4, <2>1, <3>1, TailTyped DEF RoundsTypeOK, SaveDirection, RoundOnly, Rest
    <2>4. ChoiceInv'
        BY <1>4, <2>1, <2>3, TailTyped, TailChoices DEF SaveDirection, RoundOnly, Undisturbed
    <2> QED
        BY <1>4, <2>1, <2>3, <2>4, SaveKeeps DEF SaveDirection, RoundOnly, Rest
<1>5. CASE SaveSettled
    <2>1. Next1("settle") /\ (round' = round \/ round' = [round EXCEPT !.status = "completed"])
        BY <1>5 DEF SaveSettled
    <2>2. RoundsTypeOK' /\ SamePart
        BY <1>5, <2>1, TailTyped DEF RoundsTypeOK, RoundFiles, SaveSettled, RoundOnly, Rest
    <2>3. ChoiceInv'
        BY <1>5, <2>1, <2>2, TailTyped, TailChoices DEF SaveSettled, RoundOnly, Undisturbed
    <2> QED
        BY <1>5, <2>1, <2>2, <2>3, SaveKeeps DEF SaveSettled, RoundOnly, Rest
<1>6. CASE SaveDelivery
    <2>1. Next1("deliver") /\ h.p \in Platforms
        BY <1>6, TailTyped, WriteParts DEF SaveDelivery
    <2>2. round' = [round EXCEPT !.begun = round.begun \cup {h.p}]
        BY <1>6 DEF SaveDelivery
    <2>3. RoundsTypeOK' /\ SamePart
        <3>1. round \in RoundFiles
            BY DEF RoundsTypeOK
        <3> HIDE DEF h
        <3>2. round' \in RoundFiles /\ SamePart
            BY <2>1, <2>2, <3>1, BegunChanged
        <3> QED
            BY <1>6, <2>1, <3>2, TailTyped DEF RoundsTypeOK, SaveDelivery, Rest
    <2>4. ChoiceInv'
        BY <1>6, <2>1, <2>3, TailTyped, TailChoices DEF SaveDelivery, Undisturbed
    <2> QED
        BY <1>6, <2>1, <2>3, <2>4, SaveKeeps DEF SaveDelivery, Rest
<1> QED
    BY <1>1, <1>2, <1>3, <1>4, <1>5, <1>6

LEMMA FileSaves ==
    ASSUME RoundInv, SaveSlot \/ ClearOwnCard \/ SaveStart \/ SaveFound \/ SaveClear \/ SaveList
    PROVE  RoundInv'
<1> USE DEF RoundInv
<1> DEFINE h == Head(todo)
<1>1. CASE SaveSlot
    <2>1. /\ Next1("slot") /\ h.c \in Cards /\ h = todo[1] /\ 1 \in 1..Len(todo) /\ h.w = "slot"
          /\ todo # <<>> /\ todo' = Tail(todo) /\ todo \in Seq(Writes) /\ slot' = h.c
          /\ round' = round
        BY <1>1, TailTyped, WriteParts DEF SaveSlot, RoundsTypeOK
    <2>2. \A n \in 1..Len(todo') : n + 1 \in 1..Len(todo) /\ todo'[n] = todo[n + 1]
        BY <2>1
    <2>3. \A p \in Platforms : Beside(p)' => Beside(p) \/ Puts(todo[1], p)
        BY <2>1 DEF Beside, Puts
    <2>4. \A p \in Platforms : Choosing(p)' <=> Choosing(p)
        BY <2>1 DEF Choosing
    <2>5. ASSUME NEW p \in Platforms, Choosing(p)'
          PROVE  ~Beside(p)' /\ \A n \in 1..Len(todo') : ~Puts(todo'[n], p)
        BY <2>1, <2>2, <2>3, <2>4, <2>5 DEF ChoiceInv
    <2>6. ASSUME NEW n \in 1..Len(todo'), NEW p \in Platforms, Opens(todo'[n], p)
          PROVE  ~Beside(p)' /\ \A k \in 1..Len(todo'), q \in Platforms : ~Puts(todo'[k], q)
        <3>1. n + 1 \in 1..Len(todo) /\ todo'[n] = todo[n + 1] /\ Opens(todo[n + 1], p)
            BY <2>2, <2>6
        <3>2. ~Beside(p) /\ \A k \in 1..Len(todo), q \in Platforms : ~Puts(todo[k], q)
            BY <3>1 DEF ChoiceInv
        <3> QED
            BY <2>1, <2>2, <2>3, <3>1, <3>2
    <2>7. ChoiceInv'
        BY <2>5, <2>6 DEF ChoiceInv
    <2> QED
        BY <1>1, <2>1, <2>7, TailTyped, SaveKeeps DEF SaveSlot, Rest, RoundsTypeOK
<1>2. CASE ClearOwnCard
    <2>1. ChoiceInv'
        BY <1>2, TailTyped, TailChoices DEF ClearOwnCard, Undisturbed
    <2> QED
        BY <1>2, <2>1, TailTyped, NonesTyped, SaveKeeps DEF ClearOwnCard, Rest, RoundsTypeOK
<1>3. CASE SaveStart
    <2>1. Next1("start") /\ h.p \in Platforms
        BY <1>3, TailTyped, WriteParts DEF SaveStart
    <2>2. lists' = lists \/ lists' = [lists EXCEPT ![h.p].n = @ + 1]
        BY <1>3 DEF SaveStart
    <2>3. lists' \in [Platforms -> [n : Nat, of : Nat, is : ListStates]]
        <3> HIDE DEF h
        <3>1. lists \in [Platforms -> [n : Nat, of : Nat, is : ListStates]]
            BY DEF RoundsTypeOK
        <3>2. CASE lists' = lists
            BY <3>1, <3>2
        <3>3. CASE lists' = [lists EXCEPT ![h.p].n = @ + 1]
            <4>1. lists[h.p] \in [n : Nat, of : Nat, is : ListStates] /\ lists[h.p].n + 1 \in Nat
                BY <2>1, <3>1
            <4> QED
                BY <2>1, <3>1, <3>3, <4>1
        <3> QED
            BY <2>2, <3>2, <3>3
    <2>4. ChoiceInv'
        BY <1>3, TailTyped, TailChoices DEF SaveStart, Undisturbed
    <2> QED
        BY <1>3, <2>1, <2>3, <2>4, TailTyped, SaveKeeps DEF SaveStart, Rest, RoundsTypeOK
<1>4. CASE SaveFound
    <2>1. Next1("found") /\ h.p \in Platforms
        BY <1>4, TailTyped, WriteParts DEF SaveFound
    <2>2. PICK is \in ListStates : lists' = [lists EXCEPT ![h.p].of = lists[h.p].n, ![h.p].is = is]
        BY <1>4, <2>1 DEF SaveFound, RoundsTypeOK, ListStates
    <2>3. lists' \in [Platforms -> [n : Nat, of : Nat, is : ListStates]]
        <3> HIDE DEF h
        <3> QED
            BY <2>1, <2>2 DEF RoundsTypeOK
    <2>4. ChoiceInv'
        BY <1>4, TailTyped, TailChoices DEF SaveFound, Undisturbed
    <2> QED
        BY <1>4, <2>1, <2>3, <2>4, TailTyped, SaveKeeps DEF SaveFound, Rest, RoundsTypeOK
<1>5. CASE SaveList
    <2>1. Next1("list") /\ h.p \in Platforms /\ h.is \in ListStates
        BY <1>5, TailTyped, WriteParts DEF SaveList
    <2>2. lists' = [lists EXCEPT ![h.p].is = h.is]
        BY <1>5 DEF SaveList
    <2>3. lists' \in [Platforms -> [n : Nat, of : Nat, is : ListStates]]
        <3> HIDE DEF h
        <3> QED
            BY <2>1, <2>2 DEF RoundsTypeOK
    <2>4. ChoiceInv'
        BY <1>5, TailTyped, TailChoices DEF SaveList, Undisturbed
    <2> QED
        BY <1>5, <2>1, <2>3, <2>4, TailTyped, SaveKeeps DEF SaveList, Rest, RoundsTypeOK
<1>6. CASE SaveClear
    <2>1. Next1("clear") /\ h.p \in Platforms
        BY <1>6, TailTyped, WriteParts DEF SaveClear
    <2>2. ChoiceInv'
        BY <1>6, TailTyped, TailChoices DEF SaveClear, Undisturbed
    <2> QED
        BY <1>6, <2>1, <2>2, TailTyped, SaveKeeps DEF SaveClear, Rest, RoundsTypeOK
<1> QED
    BY <1>1, <1>2, <1>3, <1>4, <1>5, <1>6

\* A baseline that is written was attested.
LEMMA BaselineSaved ==
    ASSUME RoundInv, SaveBaseline
    PROVE  RoundInv'
<1> USE DEF RoundInv
<1> DEFINE h == Head(todo)
<1>1. Next1("baseline") /\ h.p \in Platforms /\ h.r \in Revs \cup {NoRev} /\ h.w = "baseline"
      /\ todo # <<>> /\ todo' = Tail(todo) /\ todo' \in Seq(Writes)
    BY TailTyped, WriteParts DEF SaveBaseline
<1>2. <<h.p, h.r>> \in attested
    <2>1. h = todo[1] /\ 1 \in 1..Len(todo)
        BY <1>1 DEF RoundsTypeOK
    <2> QED
        BY <1>1, <2>1 DEF WritesInOrder, InOrder
<1>3. baseline' = [baseline EXCEPT ![h.p] = h.r] /\ UNCHANGED <<round, slot, lists, started, gone,
                                                               attested, faults>>
    BY DEF SaveBaseline, Rest
<1>4. RoundsTypeOK' /\ Attested'
    <2> HIDE DEF h
    <2> QED
        BY <1>1, <1>2, <1>3 DEF RoundsTypeOK, Attested
<1>5. WritesInOrder'
    BY <1>1, <1>3, TailInOrder
<1>6. ChoiceInv'
    BY <1>1, <1>3, TailChoices DEF Undisturbed
<1> QED
    BY <1>3, <1>4, <1>5, <1>6 DEF HoldIsKept, IsHeld, Rec

LEMMA HeadInOrder ==
    ASSUME RoundInv, todo # <<>>
    PROVE  InOrder(1)
<1>1. 1 \in 1..Len(todo)
    BY DEF RoundInv, RoundsTypeOK
<1> QED
    BY <1>1 DEF RoundInv, WritesInOrder

\* A record that is written is none, and lets its hold go, or is a hold, or is a
\* new question of a platform that does not hold the round.
LEMMA RecordSaved ==
    ASSUME RoundInv, SaveRecord
    PROVE  RoundInv'
<1> USE DEF RoundInv
<1>1. PICK h \in Writes : /\ h = Head(todo) /\ h = todo[1] /\ h.w = "record" /\ h.p \in Platforms
                          /\ h.v \in Recs /\ todo # <<>> /\ todo' = Tail(todo)
                          /\ todo' \in Seq(Writes)
    BY TailTyped, WriteParts DEF SaveRecord, RoundsTypeOK
<1>2. h.v = NoRec \/ Holds(h.v) \/ (IsAsking(h.v) /\ round.hold # h.p)
    BY <1>1, HeadInOrder DEF InOrder
<1>3. UNCHANGED <<slot, baseline, lists, started, gone, attested, faults>>
    BY DEF SaveRecord, RoundOnly, Rest
<1> DEFINE hold == HoldAfter(h.p, h.v)
           rec == [round.rec EXCEPT ![h.p] = h.v]
<1>4. round' = IF ~Active THEN round ELSE [round EXCEPT !.rec = rec, !.hold = hold]
    BY <1>1 DEF SaveRecord, RoundsTypeOK, RoundFiles
<1>5. hold \in Platforms \cup {0} /\ rec \in [Platforms -> Recs] /\ rec[h.p] = h.v
    BY <1>1 DEF HoldAfter, RoundsTypeOK, RoundFiles
<1>6. RoundsTypeOK'
    <2> HIDE DEF hold, rec
    <2> QED
        BY <1>1, <1>3, <1>4, <1>5 DEF RoundsTypeOK, RoundFiles
<1>7. Active => round'.rec = rec /\ round'.hold = hold
    <2> HIDE DEF hold, rec
    <2> QED
        BY <1>4, <1>5 DEF RoundsTypeOK, RoundFiles
<1>8. HoldIsKept'
    <2>1. CASE ~Active
        BY <1>4, <2>1 DEF HoldIsKept, IsHeld, Rec
    <2>2. CASE Active /\ round.hold # h.p
        <3>1. hold = round.hold
            BY <2>2 DEF HoldAfter
        <3>2. hold # 0 => rec[hold] = round.rec[hold]
            BY <3>1, <2>2 DEF RoundsTypeOK, RoundFiles
        <3> QED
            BY <1>7, <2>2, <3>1, <3>2 DEF HoldIsKept, IsHeld, Rec
    <2>3. CASE Active /\ round.hold = h.p
        <3>1. CASE h.v = NoRec
            BY <1>7, <2>3, <3>1 DEF HoldAfter, HoldIsKept
        <3>2. CASE Holds(h.v)
            <4>1. hold = h.p
                BY <2>3, <3>2, NonesTyped DEF HoldAfter, Holds, HoldStates
            <4> QED
                BY <1>5, <1>7, <2>3, <3>2, <4>1 DEF HoldIsKept, IsHeld, Rec, Holds
        <3> QED
            BY <1>2, <2>3, <3>1, <3>2
    <2> QED
        BY <2>1, <2>2, <2>3
<1>9. WritesInOrder'
    <2>1. SUFFICES ASSUME NEW i \in 1..Len(todo') PROVE InOrder(i)'
        BY DEF WritesInOrder
    <2>2. i + 1 \in 1..Len(todo) /\ todo'[i] = todo[i + 1] /\ i + 1 # 1 /\ i \in Nat
        BY <1>1, <2>1 DEF RoundsTypeOK
    <2>3. InOrder(i + 1)
        BY <2>2 DEF WritesInOrder
    <2>4. todo[i + 1].w = "hold" => i = 1 /\ Active /\ h.p = todo[i + 1].p /\ Holds(h.v)
        BY <1>1, <2>2, <2>3 DEF InOrder
    <2>5. todo'[i].w = "hold" => i = 1 /\ round'.rec[todo'[i].p].state \in HoldStates
        BY <1>5, <1>7, <2>2, <2>4 DEF Holds
    <2> QED
        BY <1>3, <2>2, <2>3, <2>5 DEF InOrder, IsHeld, Rec
<1>10. ChoiceInv'
    <2>1. /\ round'.hold \in {round.hold, 0} /\ round'.follow = round.follow
          /\ round'.direction = round.direction
        <3>1. hold \in {round.hold, 0}
            BY DEF HoldAfter
        <3> HIDE DEF hold, rec
        <3> QED
            BY <1>4, <3>1 DEF RoundsTypeOK, RoundFiles
    <2> QED
        BY <1>1, <1>3, <2>1, TailChoices DEF Undisturbed
<1> QED
    BY <1>3, <1>6, <1>8, <1>9, <1>10 DEF Attested

\* The round is held by a platform whose record says so.
LEMMA HoldSaved ==
    ASSUME RoundInv, SaveHold
    PROVE  RoundInv'
<1> USE DEF RoundInv
<1>1. PICK h \in Writes : /\ h = Head(todo) /\ h = todo[1] /\ h.w = "hold" /\ h.p \in Platforms
                          /\ todo # <<>> /\ todo' = Tail(todo) /\ todo' \in Seq(Writes)
    BY TailTyped, WriteParts DEF SaveHold, RoundsTypeOK
<1>2. IsHeld(h.p)
    BY <1>1, HeadInOrder DEF InOrder
<1>3. round' = [round EXCEPT !.hold = h.p]
      /\ UNCHANGED <<slot, baseline, lists, started, gone, attested, faults>>
    BY <1>1 DEF SaveHold, RoundOnly, Rest
<1>4. RoundsTypeOK' /\ HoldIsKept'
    BY <1>1, <1>2, <1>3 DEF RoundsTypeOK, RoundFiles, HoldIsKept, IsHeld, Rec
<1>5. WritesInOrder'
    BY <1>1, <1>3, TailInOrder
<1>6. ChoiceInv'
    <2>1. todo \in Seq(Writes) /\ 1 \in 1..Len(todo) /\ todo[1].w = "hold" /\ todo[1].p = h.p
        BY <1>1 DEF RoundsTypeOK
    <2>2. \A n \in 1..Len(todo') : n + 1 \in 1..Len(todo) /\ todo'[n] = todo[n + 1]
        BY <1>1, <2>1
    <2>3. /\ round'.hold = h.p /\ round'.follow = round.follow
          /\ round'.direction = round.direction
        BY <1>3 DEF RoundsTypeOK, RoundFiles
    <2>4. \A p \in Platforms : Beside(p)' => Beside(p) \/ Puts(todo[1], p)
        BY <1>3, <2>1, <2>3 DEF Beside, Puts
    <2>5. \A p \in Platforms : Choosing(p)' <=> Choosing(p)
        BY <2>3 DEF Choosing
    <2>6. ASSUME NEW p \in Platforms, Choosing(p)'
          PROVE  ~Beside(p)' /\ \A n \in 1..Len(todo') : ~Puts(todo'[n], p)
        BY <2>1, <2>2, <2>4, <2>5, <2>6 DEF ChoiceInv
    <2>7. \A n \in 1..Len(todo'), p \in Platforms : ~Opens(todo'[n], p)
        <3>1. Puts(todo[1], h.p)
            BY <2>1 DEF Puts
        <3> QED
            BY <1>1, <2>1, <2>2, <3>1 DEF ChoiceInv
    <2> QED
        BY <2>6, <2>7 DEF ChoiceInv
<1> QED
    BY <1>3, <1>4, <1>5, <1>6 DEF Attested

LEMMA FreshTyped ==
    ASSUME NEW id \in Nat, NEW r \in Revs \cup {NoRev}
    PROVE  /\ Fresh(id, r) \in RoundFiles /\ Fresh(id, r).hold = 0
           /\ \A p \in Platforms : Fresh(id, r).follow[p] = "none"
    BY NonesTyped, StatusesTyped DEF Fresh, RoundFiles, Choices, Directions

LEMMA CreatedSaved ==
    ASSUME RoundInv, SaveCreated
    PROVE  RoundInv'
<1> USE DEF RoundInv
<1>1. PICK h \in Writes : /\ h = Head(todo) /\ h.w = "create" /\ h.r \in Revs \cup {NoRev}
                          /\ todo # <<>> /\ todo' = Tail(todo) /\ todo' \in Seq(Writes)
    BY TailTyped, WriteParts DEF SaveCreated
<1>2. round' \in RoundFiles /\ round'.hold = 0 /\ \A p \in Platforms : round'.follow[p] = "none"
    <2>1. round.id + 1 \in Nat /\ round' = Fresh(round.id + 1, h.r)
        BY <1>1 DEF SaveCreated, RoundsTypeOK, RoundFiles
    <2> QED
        BY <1>1, <2>1, FreshTyped
<1>3. lists' \in [Platforms -> [n : Nat, of : Nat, is : ListStates]]
      /\ UNCHANGED <<slot, baseline, started, gone, attested, faults>>
    BY DEF SaveCreated, Rest, NoList, ListStates
<1>4. WritesInOrder'
    BY <1>1, <1>3, TailInOrder
<1>5. ChoiceInv'
    <2>1. todo \in Seq(Writes)
        BY DEF RoundsTypeOK
    <2>2. \A n \in 1..Len(todo') : n + 1 \in 1..Len(todo) /\ todo'[n] = todo[n + 1]
        BY <1>1, <2>1
    <2>3. \A p \in Platforms : ~Choosing(p)' /\ (Beside(p)' => Beside(p))
        BY <1>2, <1>3 DEF Choosing, Beside, Platforms
    <2>4. ASSUME NEW n \in 1..Len(todo'), NEW p \in Platforms, Opens(todo'[n], p)
          PROVE  ~Beside(p)' /\ \A k \in 1..Len(todo'), q \in Platforms : ~Puts(todo'[k], q)
        <3>1. n + 1 \in 1..Len(todo) /\ todo'[n] = todo[n + 1] /\ Opens(todo[n + 1], p)
            BY <2>2, <2>4
        <3>2. ~Beside(p) /\ \A k \in 1..Len(todo), q \in Platforms : ~Puts(todo[k], q)
            BY <3>1 DEF ChoiceInv
        <3> QED
            BY <2>2, <2>3, <3>1, <3>2
    <2> QED
        BY <2>3, <2>4 DEF ChoiceInv
<1> QED
    BY <1>1, <1>2, <1>3, <1>4, <1>5 DEF RoundsTypeOK, Attested, HoldIsKept

LEMMA Died ==
    ASSUME RoundInv, Die
    PROVE  RoundInv'
<1>1. todo' = <<>> /\ UNCHANGED <<files, gone, attested>> /\ faults' \in Nat
    BY DEF Die, RoundInv, RoundsTypeOK
<1> QED
    BY <1>1 DEF RoundInv, RoundsTypeOK, Attested, HoldIsKept, IsHeld, Rec, WritesInOrder, ChoiceInv,
                Choosing, Beside, files

-----------------------------------------------------------------------------
(* What a command has to write *)

LEMMA QuietJoin ==
    ASSUME NEW s \in Seq(Quiet), NEW t \in Seq(Quiet)
    PROVE  s \o t \in Seq(Quiet)
    BY ConcatProperties

LEMMA FollowQuiet ==
    ASSUME RoundsTypeOK, NEW p \in Platforms, NEW c \in {"search_again", "skip_platform"}
    PROVE  FollowWrites(p, c) \in Seq(Quiet)
<1>1. \A s \in Statuses : Follow(p, c, s) \in Quiet
    BY MadeQuiet DEF Choices
<1>2. "skipped_this_round" \in Statuses /\ "working" \in Statuses
    BY StatusesTyped
<1>3. Slot(NoCard) \in Quiet /\ Settle \in Quiet
    BY MadeQuiet, NonesTyped
<1> QED
    BY <1>1, <1>2, <1>3 DEF FollowWrites

LEMMA ReleaseQuiet ==
    ASSUME RoundsTypeOK, NEW p \in Platforms
    PROVE  /\ Record(p, NoRec) \in Quiet /\ Status(p, Rec(p).pre) \in Quiet
           /\ DropOwn(p, Rec(p).rev) \in Quiet
           /\ Slot(NoCard) \in Quiet /\ Settle \in Quiet
    BY MadeQuiet, RecTyped, NonesTyped

LEMMA SkipQuiet ==
    ASSUME RoundsTypeOK, NEW p \in Platforms
    PROVE  SkipWrites(p) \in Seq(Quiet)
<1>1. CASE round.follow[p] = "awaiting"
    BY <1>1, FollowQuiet DEF SkipWrites
<1>2. CASE round.follow[p] # "awaiting"
    <2> DEFINE release == IF Rec(p) # NoRec
                  THEN <<Record(p, NoRec), Status(p, Rec(p).pre), DropOwn(p, Rec(p).rev)>> ELSE <<>>
               skip == <<Status(p, "skipped_this_round"), Settle>>
    <2>1. release \in Seq(Quiet)
        BY ReleaseQuiet
    <2>2. Status(p, "skipped_this_round") \in Quiet
        BY MadeQuiet, StatusesTyped
    <2>3. skip \in Seq(Quiet)
        BY <2>2, ReleaseQuiet
    <2>4. SkipWrites(p) = release \o skip
        BY <1>2 DEF SkipWrites
    <2> HIDE DEF release, skip
    <2> QED
        BY <2>1, <2>3, <2>4, QuietJoin
<1> QED
    BY <1>1, <1>2

LEMMA WorkQuiet ==
    ASSUME RoundInv, NEW p \in Platforms,
           \/ Login(p) \/ SearchUnbinds(p) \/ SearchBlocked(p) \/ Search(p) \/ Review(p)
           \/ Confirm(p) \/ Audit(p)
    PROVE  RoundInv'
<1> USE DEF RoundInv, Do
<1>1. /\ \A s \in Statuses : Status(p, s) \in Quiet
      /\ \A is \in ListStates : List(p, is) \in Quiet
      /\ Start(p) \in Quiet /\ Found(p) \in Quiet /\ Clear(p) \in Quiet
      /\ Bind(NoRev) \in Quiet /\ Settle \in Quiet
    BY MadeQuiet
<1>2. /\ {"working", "discovered", "awaiting_delivery_confirmation", "reviewed", "completed"}
         \subseteq Statuses
      /\ {"shown", "confirmed"} \subseteq ListStates
    BY StatusesTyped DEF ListStates
<1>3. Slot(Card("delivery", p, NoRev)) \in Quiet
    BY CardTyped, MadeQuiet
<1>4. todo' \in Seq(Quiet)
    <2>1. CASE Login(p)
        BY <1>1, <1>2, <2>1 DEF Login
    <2>2. CASE SearchUnbinds(p)
        BY <1>1, <2>2 DEF SearchUnbinds
    <2>3. CASE SearchBlocked(p)
        BY <1>1, <1>2, <2>3 DEF SearchBlocked
    <2>4. CASE Search(p)
        <3>1. <<Start(p), Status(p, "working")>> \in Seq(Quiet) /\ FoundWrites(p) \in Seq(Quiet)
            BY <1>1, <1>2 DEF FoundWrites
        <3>2. todo' = <<Start(p), Status(p, "working")>> \o FoundWrites(p)
            BY <2>4 DEF Search
        <3> QED
            BY <3>1, <3>2, QuietJoin
    <2>5. CASE Review(p)
        BY <1>1, <1>2, <1>3, <2>5 DEF Review
    <2>6. CASE Confirm(p)
        BY <1>1, <1>2, <2>6 DEF Confirm
    <2>7. CASE Audit(p)
        BY <1>1, <1>2, <2>7 DEF Audit
    <2> QED
        BY <2>1, <2>2, <2>3, <2>4, <2>5, <2>6, <2>7
<1> QED
    BY <1>4, DoQuiet DEF Login, SearchUnbinds, SearchBlocked, Search, Review, Confirm, Audit

\* A choice is opened while no platform holds the round and the card of the list is
\* the one shown.
LEMMA CancelKeeps ==
    ASSUME RoundInv, NEW p \in Platforms, CancelList(p)
    PROVE  RoundInv'
<1> USE DEF RoundInv, Do
<1>1. /\ UNCHANGED <<files, gone, attested, faults>> /\ round.hold = 0 /\ slot.kind = "delivery"
      /\ todo' = <<Follow(p, "awaiting", "awaiting_after_cancel_choice"),
                  Slot(Card("after_cancel", p, NoRev)), List(p, "cancelled")>>
    BY DEF CancelList, Turn, CardOf
<1>2. Follow(p, "awaiting", "awaiting_after_cancel_choice") \in Orderly
    BY MadeQuiet, StatusesTyped DEF Choices
<1>3. Slot(Card("after_cancel", p, NoRev)) \in Quiet /\ List(p, "cancelled") \in Quiet
    BY CardTyped, MadeQuiet DEF ListStates
<1>4. /\ todo' \in Seq(Orderly) /\ Len(todo') = 3
      /\ todo'[1] = Follow(p, "awaiting", "awaiting_after_cancel_choice")
      /\ todo'[2] \in Quiet /\ todo'[3] \in Quiet
    BY <1>1, <1>2, <1>3 DEF Quiet
<1>5. \A i \in 1..Len(todo'), q \in Platforms : ~Puts(todo'[i], q)
    BY <1>4 DEF Follow, Quiet, Orderly, Puts, Asked
<1>6. \A q \in Platforms : ~Beside(q)'
    BY <1>1 DEF Beside, Asked, Platforms, files
<1>7. ChoiceInv'
    BY <1>5, <1>6 DEF ChoiceInv
<1> QED
    BY <1>1, <1>4, <1>7, DoOrderly

LEMMA QuietFew ==
    ASSUME NEW a \in Quiet, NEW b \in Quiet
    PROVE  <<a>> \in Seq(Quiet) /\ <<a, b>> \in Seq(Quiet)
    OBVIOUS

LEMMA ManageMakes ==
    ASSUME RoundsTypeOK
    PROVE  /\ \A r \in Revs \cup {NoRev} : Bind(r) \in Quiet /\ Create(r) \in Quiet
           /\ Direction("awaiting") \in Quiet /\ Direction("cancelled") \in Quiet
           /\ Direction("finishing") \in Quiet /\ Direction("completed") \in Quiet
           /\ Settle \in Quiet /\ FinishNext \in Quiet /\ Slot(NoCard) \in Quiet
           /\ Slot(Card("setup", 0, NoRev)) \in Quiet /\ Slot(Card("direction", 0, NoRev)) \in Quiet
           /\ Slot(round.prev) \in Orderly
<1>1. /\ Card("setup", 0, NoRev) \in Cards /\ Card("direction", 0, NoRev) \in Cards
      /\ Card("setup", 0, NoRev).kind = "setup" /\ Card("direction", 0, NoRev).kind = "direction"
    BY DEF RoundsTypeOK, RoundFiles, Card, Cards
<1>2. round.prev \in Cards /\ NoCard \in Cards
    BY NonesTyped DEF RoundsTypeOK, RoundFiles
<1> QED
    BY <1>1, <1>2, NonesTyped, MadeQuiet DEF Directions

LEMMA ResumeQuiet ==
    ASSUME RoundInv, NEW r \in Revs \cup {NoRev}, StartRound(r) \/ StartAgain(r) \/ ChooseResume(r)
    PROVE  RoundInv'
<1> USE DEF Do
<1>1. /\ Bind(r) \in Quiet /\ Create(r) \in Quiet /\ Bind(NoRev) \in Quiet
      /\ Slot(NoCard) \in Quiet
    BY ManageMakes DEF RoundInv
<1>2. \/ todo' = <<Create(r), Slot(NoCard)>> \/ todo' = <<Bind(NoRev)>> \/ todo' = <<Slot(NoCard)>>
      \/ todo' = <<Slot(NoCard), Bind(r)>>
    BY DEF StartRound, StartAgain, ChooseResume
<1>3. todo' \in Seq(Quiet)
    BY <1>1, <1>2, QuietFew
<1> QED
    BY <1>3, DoQuiet DEF StartRound, StartAgain, ChooseResume

LEMMA ManageQuiet ==
    ASSUME RoundInv, AskResume \/ AskDirection \/ FinishRound \/ RoundStatus
    PROVE  RoundInv'
<1> USE DEF Do
<1>1. \/ todo' = <<Slot(Card("setup", 0, NoRev))>>
      \/ todo' = <<Direction("awaiting"), Slot(Card("direction", 0, NoRev))>>
      \/ todo' = <<Direction("finishing"), FinishNext>> \/ todo' = <<Settle>>
    BY DEF AskResume, AskDirection, FinishRound, RoundStatus
<1>2. todo' \in Seq(Quiet)
    BY <1>1, ManageMakes, QuietFew DEF RoundInv
<1> QED
    BY <1>2, DoQuiet DEF AskResume, AskDirection, FinishRound, RoundStatus

\* The card put back may be a question: a change of direction has been asked for.
LEMMA KeepKeeps ==
    ASSUME RoundInv, KeepRound
    PROVE  RoundInv'
<1> USE DEF RoundInv, Do
<1>1. /\ todo' = <<Slot(round.prev), Direction("cancelled")>> /\ round.direction = "awaiting"
      /\ UNCHANGED <<files, gone, attested, faults>>
    BY DEF KeepRound
<1>2. Slot(round.prev) \in Orderly /\ Direction("cancelled") \in Orderly
    BY ManageMakes DEF Quiet
<1>3. todo' \in Seq(Orderly) /\ \A i \in 1..Len(todo'), r \in Platforms : ~Opens(todo'[i], r)
    BY <1>1, <1>2 DEF Slot, Direction, Opens
<1>4. \A p \in Platforms : ~Choosing(p)
    BY <1>1 DEF Choosing
<1>5. ChoiceInv'
    BY <1>1, <1>3, <1>4, NewWrites DEF files
<1> QED
    BY <1>1, <1>3, <1>5, DoOrderly

\* Finishing a round skips one platform after the other.
LEMMA FinishKeeps ==
    ASSUME RoundInv, Finish
    PROVE  RoundInv'
<1> USE DEF RoundInv
<1>1. CASE Over
    <2>1. Slot(NoCard) \in Quiet /\ Direction("completed") \in Quiet
        BY MadeQuiet, NonesTyped DEF Directions
    <2>2. todo' = <<Slot(NoCard), Direction("completed")>>
        BY <1>1 DEF Finish
    <2>3. todo' \in Seq(Quiet)
        BY <2>1, <2>2
    <2> QED
        BY <2>3, DoQuiet DEF Finish, Rest
<1>2. CASE ~Over
    <2>1. ToFinish \subseteq Platforms
        BY DEF ToFinish, Open
    <2>2. PICK p \in Platforms : todo' = IF MaySkip(p) THEN SkipWrites(p) \o <<FinishNext>> ELSE <<>>
        BY <1>2, <2>1 DEF Finish
    <2>3. <<FinishNext>> \in Seq(Quiet) /\ <<>> \in Seq(Quiet)
        BY MadeQuiet
    <2>4. todo' \in Seq(Quiet)
        BY <2>2, <2>3, SkipQuiet, QuietJoin
    <2> QED
        BY <2>4, DoQuiet DEF Finish, Rest
<1> QED
    BY <1>1, <1>2

\* The other commands: what they have to write is in order.
LEMMA DoInOrder ==
    ASSUME RoundInv, todo' \in Seq(Writes), UNCHANGED <<files, gone, faults>>,
           attested \subseteq attested', WritesInOrder', ChoiceInv'
    PROVE  RoundInv'
<1>1. RoundsTypeOK'
    BY DEF RoundInv, RoundsTypeOK, files
<1>2. Attested' /\ HoldIsKept'
    BY DEF RoundInv, Attested, HoldIsKept, IsHeld, Rec, files
<1> QED
    BY <1>1, <1>2 DEF RoundInv

\* A quiet write is in order wherever it comes.
LEMMA QuietInOrder ==
    ASSUME NEW i \in 1..Len(todo'), todo'[i] \in Orderly
    PROVE  InOrder(i)'
    BY DEF InOrder, Orderly

\* A quiet write opens no choice and puts nothing beside one.
LEMMA QuietPuts ==
    ASSUME NEW e \in Quiet, NEW p
    PROVE  e \in Orderly /\ e \in Writes /\ ~Opens(e, p) /\ ~Puts(e, p)
    BY DEF Quiet, Orderly, Opens, Puts, Asked

\* A question is asked of a platform without a record, which is not the holder.
LEMMA GateKeeps ==
    ASSUME RoundInv, NEW p \in Platforms, NEW q \in {1, 2}, Gate(p, q), ~ChoiceDue
    PROVE  RoundInv'
<1> USE DEF RoundInv, Do
<1>1. UNCHANGED <<files, gone, attested, faults>>
    BY DEF Gate
<1>4. \A r \in Platforms : ~Choosing(r)
    BY DEF ChoiceDue, Choosing
<1>2. CASE todo' = <<Slot(Card("freshness", p, Rec(p).rev))>>
    <2>1. Slot(Card("freshness", p, Rec(p).rev)) \in Orderly
        BY RecTyped, CardTyped, MadeQuiet
    <2>2. todo' \in Seq(Orderly) /\ \A i \in 1..Len(todo'), r \in Platforms : ~Opens(todo'[i], r)
        BY <1>2, <2>1 DEF Slot, Opens
    <2>3. ChoiceInv'
        BY <1>1, <2>2, <1>4, NewWrites DEF files
    <2> QED
        BY <1>1, <2>2, <2>3, DoOrderly
<1>3. CASE /\ Rec(p) = NoRec
           /\ todo' = <<Record(p, [policy |-> q, rev |-> round.bound, state |-> "awaiting",
                                   pre |-> round.st[p]]),
                        Slot(Card("freshness", p, round.bound))>>
    <2> DEFINE v == [policy |-> q, rev |-> round.bound, state |-> "awaiting", pre |-> round.st[p]]
               c == Card("freshness", p, round.bound)
    <2>1. v \in Recs /\ IsAsking(v)
        <3>1. round.bound \in Revs \cup {NoRev} /\ round.st[p] \in Statuses /\ q \in {0, 1, 2}
            BY RecTyped
        <3> QED
            BY <3>1 DEF Recs, IsAsking
    <2>2. c \in Cards
        BY RecTyped, CardTyped
    <2>3. round.hold # p
        BY <1>3, NonesTyped DEF HoldIsKept, IsHeld, HoldStates, Platforms
    <2> HIDE DEF v, c
    <2>4. todo' = <<Record(p, v), Slot(c)>>
        BY <1>3 DEF v, c
    <2>5. Record(p, v) \in Writes /\ Record(p, v).w = "record" /\ Record(p, v).v = v
          /\ Record(p, v).p = p
        BY <2>1 DEF Record, Writes
    <2>6. Slot(c) \in Orderly /\ Slot(c) \in Writes
        BY <2>2, MadeQuiet DEF Orderly
    <2>7. todo' \in Seq(Writes) /\ Len(todo') = 2 /\ todo'[1] = Record(p, v) /\ todo'[2] = Slot(c)
        BY <2>4, <2>5, <2>6
    <2>8. InOrder(1)' /\ InOrder(2)'
        <3>1. InOrder(1)'
            BY <1>1, <2>1, <2>3, <2>5, <2>7 DEF InOrder, files
        <3>2. InOrder(2)'
            BY <2>6, <2>7, QuietInOrder
        <3> QED
            BY <3>1, <3>2
    <2>10. ChoiceInv'
        <3>1. \A i \in 1..Len(todo'), r \in Platforms : ~Opens(todo'[i], r)
            BY <2>5, <2>7 DEF Slot, Opens
        <3> QED
            BY <1>1, <1>4, <3>1, NewWrites DEF files
    <2>9. WritesInOrder'
        <3>1. \A i \in 1..Len(todo') : i = 1 \/ i = 2
            BY <2>7
        <3> QED
            BY <2>8, <3>1 DEF WritesInOrder
    <2> QED
        BY <1>1, <2>7, <2>9, <2>10, DoInOrder
<1> QED
    BY <1>2, <1>3 DEF Gate

\* A delivery starts with the baseline of the revision bound, or none bound.
LEMMA DeliveryKeeps ==
    ASSUME RoundInv, NEW p \in Platforms, StartDelivery(p)
    PROVE  RoundInv'
<1> USE DEF RoundInv, Do
<1>1. /\ UNCHANGED <<files, gone, attested, faults>> /\ todo' = <<Deliver(p), Status(p, "sent")>>
      /\ round.bound = NoRev \/ baseline[p] = round.bound
    BY DEF StartDelivery, GatePasses, BaselineIsFresh
<1>2. Deliver(p) \in Writes /\ Deliver(p).w = "deliver" /\ Deliver(p).p = p
    BY DEF Deliver, Writes
<1>3. Status(p, "sent") \in Quiet /\ Status(p, "sent") \in Orderly /\ Status(p, "sent") \in Writes
    BY MadeQuiet, StatusesTyped DEF Quiet, Orderly
<1>4. /\ todo' \in Seq(Writes) /\ Len(todo') = 2 /\ todo'[1] = Deliver(p)
      /\ todo'[2] = Status(p, "sent")
    BY <1>1, <1>2, <1>3
<1>5. InOrder(1)'
    BY <1>1, <1>2, <1>4 DEF InOrder, files
<1>6. InOrder(2)'
    BY <1>3, <1>4, QuietInOrder
<1>7. WritesInOrder'
    <2>1. \A i \in 1..Len(todo') : i = 1 \/ i = 2
        BY <1>4
    <2> QED
        BY <1>5, <1>6, <2>1 DEF WritesInOrder
<1>8. ChoiceInv'
    <2>1. \A q \in Platforms : ~Opens(todo'[1], q) /\ ~Puts(todo'[1], q)
        BY <1>2, <1>4 DEF Opens, Puts
    <2>2. \A q \in Platforms : ~Opens(todo'[2], q) /\ ~Puts(todo'[2], q)
        BY <1>3, <1>4, QuietPuts
    <2>3. \A i \in 1..Len(todo') : i = 1 \/ i = 2
        BY <1>4
    <2>4. \A i \in 1..Len(todo'), q \in Platforms : ~Opens(todo'[i], q) /\ ~Puts(todo'[i], q)
        BY <2>1, <2>2, <2>3
    <2> QED
        BY <1>1, <2>4, NewWrites DEF files
<1> QED
    BY <1>1, <1>4, <1>7, <1>8, DoInOrder

-----------------------------------------------------------------------------
(* Answers *)

LEMMA UnwindQuiet ==
    ASSUME RoundInv, NEW p \in Platforms, Unwind(p)
    PROVE  RoundInv'
<1> DEFINE unbind == IF round.bound = Rec(p).rev THEN <<Bind(NoRev)>> ELSE <<>>
           release == <<Record(p, NoRec), Status(p, Rec(p).pre)>>
<1>1. Bind(NoRev) \in Quiet /\ Record(p, NoRec) \in Quiet /\ Status(p, Rec(p).pre) \in Quiet
    BY MadeQuiet, ReleaseQuiet DEF RoundInv
<1>2. unbind \in Seq(Quiet) /\ release \in Seq(Quiet)
    BY <1>1
<1>3. todo' = unbind \o release /\ UNCHANGED <<files, gone, attested, faults>>
    BY DEF Unwind, Do
<1> HIDE DEF unbind, release
<1> QED
    BY <1>2, <1>3, QuietJoin, DoQuiet

\* The revision that becomes the baseline is attested in the same step.
LEMMA SyncedKeeps ==
    ASSUME RoundInv, NEW p \in Platforms, Synced(p)
    PROVE  RoundInv'
<1> USE DEF RoundInv
<1> DEFINE r == Rec(p).rev
           s == Rec(p).pre
<1>1. r \in Revs \cup {NoRev} /\ s \in Statuses
    BY RecTyped
<1>2. /\ Record(p, NoRec) \in Quiet /\ Status(p, s) \in Quiet /\ DropOwn(p, r) \in Quiet
      /\ Baseline(p, r) \in Writes /\ Baseline(p, r).w = "baseline"
      /\ Baseline(p, r).p = p /\ Baseline(p, r).r = r
    BY <1>1, MadeQuiet, NonesTyped DEF Baseline, Writes
<1>3. /\ todo' = <<Baseline(p, r), Record(p, NoRec), Status(p, s), DropOwn(p, r)>>
      /\ UNCHANGED <<files, gone, faults>> /\ attested' = attested \cup {<<p, r>>}
    BY DEF Synced, ResolveWrites
<1> HIDE DEF r, s
<1>4. /\ todo' \in Seq(Writes) /\ Len(todo') = 4 /\ todo'[1] = Baseline(p, r)
      /\ \A i \in 2..4 : todo'[i] \in Quiet /\ todo'[i] \in Orderly
    BY <1>2, <1>3 DEF Quiet, Orderly
<1>5. InOrder(1)'
    BY <1>2, <1>3, <1>4 DEF InOrder
<1>6. ASSUME NEW i \in 1..Len(todo') PROVE InOrder(i)'
    <2>1. i = 1 \/ i \in 2..4
        BY <1>4
    <2> QED
        BY <1>4, <1>5, <2>1, QuietInOrder
<1>7. ChoiceInv'
    <2>1. \A i \in 1..Len(todo') : \A q \in Platforms : ~Opens(todo'[i], q) /\ ~Puts(todo'[i], q)
        <3>1. \A i \in 1..Len(todo') : i = 1 \/ i \in 2..4
            BY <1>4
        <3> QED
            BY <1>2, <1>4, <3>1, QuietPuts DEF Opens, Puts
    <2> QED
        BY <1>3, <2>1, NewWrites DEF files
<1> QED
    BY <1>3, <1>4, <1>6, <1>7, DoInOrder DEF WritesInOrder

LEMMA RecheckKeeps ==
    ASSUME RoundInv, NEW p \in Platforms, Recheck(p)
    PROVE  RoundInv'
    BY UnwindQuiet, SyncedKeeps DEF Recheck

\* Holding a platform, or the round: the record comes first and says so.
LEMMA PauseKeeps ==
    ASSUME RoundInv, NEW p \in Platforms, PausePlatform(p) \/ PauseRound(p)
    PROVE  RoundInv'
<1> USE DEF RoundInv, Do
<1> DEFINE ph == [Rec(p) EXCEPT !.state = "platform_hold"]
           rh == [Rec(p) EXCEPT !.state = "round_hold"]
<1>1. ph \in Recs /\ Holds(ph) /\ rh \in Recs /\ Holds(rh)
    <2>1. Rec(p) \in Recs
        BY RecTyped
    <2> QED
        BY <2>1 DEF Recs, Holds, HoldStates
<1>2. /\ Status(p, Held) \in Quiet /\ Status(p, "skipped_this_round") \in Quiet
      /\ Record(p, NoRec) \in Quiet /\ Slot(NoCard) \in Quiet /\ Settle \in Quiet
    BY MadeQuiet, StatusesTyped, ReleaseQuiet
<1>3. UNCHANGED <<files, gone, attested, faults>> /\ Active
    BY DEF PausePlatform, PauseRound, Pending, Shown
<1>9. slot.kind = "freshness" /\ slot.p = p
    BY DEF PausePlatform, PauseRound, Pending, Shown
<1>4. \/ todo' = <<Record(p, NoRec), Slot(NoCard), Status(p, "skipped_this_round"), Settle>>
      \/ todo' = <<Record(p, ph), Status(p, Held), Slot(NoCard)>>
      \/ todo' = <<Record(p, rh), HoldRound(p), Status(p, Held), Slot(NoCard)>>
    BY DEF PausePlatform, PauseRound
<1> HIDE DEF ph, rh
<1>5. CASE todo' = <<Record(p, NoRec), Slot(NoCard), Status(p, "skipped_this_round"), Settle>>
    <2>1. todo' \in Seq(Quiet)
        BY <1>2, <1>5
    <2> QED
        BY <1>3, <2>1, DoQuiet
<1>6. \A v \in Recs : Record(p, v) \in Writes /\ Record(p, v).w = "record"
                      /\ Record(p, v).p = p /\ Record(p, v).v = v
    BY DEF Record, Writes
<1>7. CASE todo' = <<Record(p, ph), Status(p, Held), Slot(NoCard)>>
    <2>1. /\ todo' \in Seq(Writes) /\ Len(todo') = 3 /\ todo'[1] = Record(p, ph)
          /\ \A i \in 2..3 : todo'[i] \in Quiet /\ todo'[i] \in Orderly
        BY <1>1, <1>2, <1>6, <1>7 DEF Quiet, Orderly
    <2>2. InOrder(1)'
        BY <1>1, <1>6, <2>1 DEF InOrder
    <2>3. ASSUME NEW i \in 1..Len(todo') PROVE InOrder(i)'
        <3>1. i = 1 \/ i \in 2..3
            BY <2>1
        <3> QED
            BY <2>1, <2>2, <3>1, QuietInOrder
    <2>4. ChoiceInv'
        <3>1. \A i \in 1..Len(todo') : \A q \in Platforms : ~Opens(todo'[i], q) /\ ~Puts(todo'[i], q)
            <4>1. \A i \in 1..Len(todo') : i = 1 \/ i \in 2..3
                BY <2>1
            <4> QED
                BY <1>1, <1>6, <2>1, <4>1, QuietPuts DEF Opens, Puts
        <3> QED
            BY <1>3, <3>1, NewWrites DEF files
    <2> QED
        BY <1>3, <2>1, <2>3, <2>4, DoInOrder DEF WritesInOrder
<1>8. CASE todo' = <<Record(p, rh), HoldRound(p), Status(p, Held), Slot(NoCard)>>
    <2>1. HoldRound(p) \in Writes /\ HoldRound(p).w = "hold" /\ HoldRound(p).p = p
        BY DEF HoldRound, Writes
    <2>2. /\ todo' \in Seq(Writes) /\ Len(todo') = 4 /\ todo'[1] = Record(p, rh)
          /\ todo'[2] = HoldRound(p)
          /\ \A i \in 3..4 : todo'[i] \in Quiet /\ todo'[i] \in Orderly
        BY <1>1, <1>2, <1>6, <1>8, <2>1 DEF Quiet, Orderly
    <2>3. InOrder(1)'
        BY <1>1, <1>6, <2>2 DEF InOrder
    <2>4. InOrder(2)'
        <3>1. Active'
            BY <1>3 DEF Active, files
        <3> QED
            BY <1>1, <1>6, <2>1, <2>2, <3>1 DEF InOrder
    <2>5. ASSUME NEW i \in 1..Len(todo') PROVE InOrder(i)'
        <3>1. i = 1 \/ i = 2 \/ i \in 3..4
            BY <2>2
        <3> QED
            BY <2>2, <2>3, <2>4, <3>1, QuietInOrder
    <2>6. ChoiceInv'
        <3>1. ~Choosing(p)
            BY <1>9 DEF ChoiceInv, Beside, Asked
        <3>2. ASSUME NEW i \in 1..Len(todo')
              PROVE  \A q \in Platforms : ~Opens(todo'[i], q) /\ (Puts(todo'[i], q) => ~Choosing(q))
            <4>1. CASE i = 1
                BY <1>1, <1>6, <2>2, <4>1 DEF Opens, Puts
            <4>2. CASE i = 2
                BY <2>1, <2>2, <3>1, <4>2 DEF Opens, Puts
            <4>3. CASE i \in 3..4
                BY <2>2, <4>3, QuietPuts
            <4> QED
                BY <2>2, <4>1, <4>2, <4>3
        <3> QED
            BY <1>3, <3>2, NewWrites DEF files
    <2> QED
        BY <1>3, <2>2, <2>5, <2>6, DoInOrder DEF WritesInOrder
<1> QED
    BY <1>4, <1>5, <1>7, <1>8

LEMMA AnswerKeeps ==
    ASSUME RoundInv, NEW p \in Platforms, Answer(p)
    PROVE  RoundInv'
<1> USE DEF RoundInv
<1>1. CASE Skip(p)
    BY <1>1, SkipQuiet, DoQuiet DEF Skip, Do
<1>2. CASE \E c \in {"search_again", "skip_platform"} : ChooseAfterCancel(p, c)
    BY <1>2, FollowQuiet, DoQuiet DEF ChooseAfterCancel, Do
<1>3. CASE AnswerTooLate(p)
    <2>1. todo' = <<Record(p, NoRec), Slot(NoCard)>>
        BY <1>3 DEF AnswerTooLate, Do
    <2>2. todo' \in Seq(Quiet)
        BY <2>1, ReleaseQuiet, QuietFew
    <2> QED
        BY <1>3, <2>2, DoQuiet DEF AnswerTooLate, Do
<1>4. CASE AnswerSynced(p)
    BY <1>4, RecheckKeeps, SyncedKeeps DEF AnswerSynced
<1>5. CASE PausePlatform(p) \/ PauseRound(p)
    BY <1>5, PauseKeeps
<1>6. CASE AnswerHeld(p)
    BY <1>6, RecheckKeeps DEF AnswerHeld
<1> QED
    BY <1>1, <1>2, <1>3, <1>4, <1>5, <1>6 DEF Answer

-----------------------------------------------------------------------------
(* The invariant *)

LEMMA Starts == Init => RoundInv
<1> SUFFICES ASSUME Init PROVE RoundInv
    OBVIOUS
<1> DEFINE f == Fresh(0, NoRev)
<1>1. f \in RoundFiles /\ f.hold = 0 /\ \A p \in Platforms : f.follow[p] = "none"
    <2>1. 0 \in Nat /\ NoRev \in Revs \cup {NoRev}
        OBVIOUS
    <2> QED
        BY <2>1, FreshTyped
<1>2. round = [f EXCEPT !.status = "not_started"]
    BY DEF Init
<1>3. /\ round \in RoundFiles /\ round.hold = 0
      /\ \A p \in Platforms : round.follow[p] = "none"
    <2> HIDE DEF f
    <2> QED
        BY <1>1, <1>2 DEF RoundFiles
<1>4. RoundsTypeOK
    BY <1>3, NonesTyped DEF Init, RoundsTypeOK, NoList, ListStates
<1> QED
    BY <1>3, <1>4 DEF Init, RoundInv, Attested, HoldIsKept, WritesInOrder, ChoiceInv, Choosing

LEMMA WriteKeeps ==
    ASSUME RoundInv, Write
    PROVE  RoundInv'
    BY RecordSaved, HoldSaved, RoundSaves, FileSaves, BaselineSaved, CreatedSaved, FinishKeeps
       DEF Write

LEMMA WorkKeeps ==
    ASSUME RoundInv, NEW p \in Platforms, Work(p)
    PROVE  RoundInv'
<1>1. CASE AskBeforeSearch(p)
    BY <1>1, GateKeeps DEF AskBeforeSearch, MaySearch, Works
<1>2. CASE AskBeforeDelivery(p)
    BY <1>2, GateKeeps DEF AskBeforeDelivery, MayDeliver, Works
<1> QED
    BY <1>1, <1>2, WorkQuiet, CancelKeeps, DeliveryKeeps DEF Work

LEMMA Keeps ==
    ASSUME RoundInv, [Next]_vars
    PROVE  RoundInv'
<1>1. CASE Write
    BY <1>1, WriteKeeps
<1>2. CASE Die
    BY <1>2, Died
<1>3. CASE \E p \in Platforms : Work(p) \/ Answer(p)
    BY <1>3, WorkKeeps, AnswerKeeps
<1>4. CASE \E r \in Revs : ResumeGone(r)
    <2>1. gone' \subseteq Revs /\ UNCHANGED <<files, todo, attested, faults>>
        BY <1>4 DEF ResumeGone, RoundInv, RoundsTypeOK
    <2> QED
        BY <2>1 DEF RoundInv, RoundsTypeOK, Attested, HoldIsKept, IsHeld, Rec, WritesInOrder,
                    InOrder, Active, ChoiceInv, Choosing, Beside, files
<1>5. CASE Manage
    BY <1>4, <1>5, ResumeQuiet, ManageQuiet, KeepKeeps DEF Manage
<1>6. CASE UNCHANGED vars
    BY <1>6 DEF vars, files, RoundInv, RoundsTypeOK, Attested, HoldIsKept, IsHeld, Rec,
                WritesInOrder, InOrder, Active, ChoiceInv, Choosing, Beside
<1> QED
    BY <1>1, <1>2, <1>3, <1>5, <1>6 DEF Next

LEMMA RoundKept == Spec => []RoundInv
<1>1. RoundInv /\ [Next]_vars => RoundInv'
    BY Keeps
<1> QED
    BY <1>1, Starts, PTL DEF Spec

\* The files and the writes under way are of their kinds (RoundsTypeOK).
THEOREM RoundsTyped == Spec => []RoundsTypeOK
<1>1. RoundInv => RoundsTypeOK
    BY DEF RoundInv
<1> QED
    BY <1>1, RoundKept, PTL

\* A round on hold can be released (HoldCanBeEnded), wherever the four writes of a
\* hold, or those of its release, were cut short: "synced" ends it, or, when the
\* service no longer serves the binding asked about, skipping the platform, unless a
\* change of direction was asked for and a cancelled list waits for its choice.
THEOREM HoldHasAnEnd == Spec => []HoldCanBeEnded
<1>1. ASSUME RoundInv PROVE HoldCanBeEnded
    <2>1. SUFFICES ASSUME NEW p \in Platforms, round.hold = p
                   PROVE  SkipEnds(p) \/ (round.direction # "none" /\ round.follow[p] = "awaiting")
        BY DEF HoldCanBeEnded
    <2>2. IsHeld(p)
        BY <1>1, <2>1 DEF RoundInv, HoldIsKept, Platforms
    <2>3. Rec(p) # NoRec
        BY <2>2, NonesTyped DEF IsHeld, HoldStates
    <2>4. CASE round.follow[p] = "awaiting"
        BY <1>1, <2>1, <2>4 DEF RoundInv, ChoiceInv, Choosing, Beside
    <2>5. CASE round.follow[p] # "awaiting"
        BY <2>3, <2>5 DEF SkipEnds, MaySkip, OwnsHold
    <2> QED
        BY <2>4, <2>5
<1> QED
    BY <1>1, RoundKept, PTL

\* No delivery starts under a revision that the user did not attest for the
\* platform (DeliveredAsAttested), whichever questions, answers, bindings and
\* deaths came between.
THEOREM DeliveryIsAttested == Spec => []DeliveredAsAttested
<1>1. ASSUME RoundInv PROVE DeliveredAsAttested
    <2>1. SUFFICES ASSUME NEW p \in Platforms, Delivers(p), round.bound # NoRev
                   PROVE  <<p, round.bound>> \in attested
        BY DEF DeliveredAsAttested
    <2>2. todo # <<>> /\ todo[1] = Deliver(p)
        BY <1>1, <2>1 DEF Delivers, RoundInv, RoundsTypeOK
    <2>3. todo[1].w = "deliver" /\ todo[1].p = p
        BY <2>2 DEF Deliver
    <2>4. baseline[p] = round.bound
        BY <1>1, <2>1, <2>2, <2>3, HeadInOrder DEF InOrder
    <2> QED
        BY <1>1, <2>1, <2>4 DEF RoundInv, Attested
<1> QED
    BY <1>1, RoundKept, PTL
===============================================================================
