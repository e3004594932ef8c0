----------------------------- MODULE Job51Sender -----------------------------
(***************************************************************************)
(* The resume of the account is submitted from the card of the job on the     *)
(* search that found it: platforms/job51/apply.py, Job51ApplySender.  A click  *)
(* that the page does not prove is kept in the audit log, and the job is only   *)
(* looked at from then on, twice at most or for a day.                       *)
(***************************************************************************)
EXTENDS SenderState

ReconcileLimit == 2
Rest51 == <<Kept, contacted, drafts>>

\* _job51_delivery_detected: the card says so, or any text of the page does.
Detected51 == page.shows \cap {"resume", "another"} # {}
Taken == page.card = "own" /\ "taken" \in page.shows
\* The job is taken for delivered, whatever the evidence was of.
Deliver51(a) ==
    /\ EndsWith(a, "delivered", FALSE)
    /\ confused' = IF "resume" \in page.shows \/ "taken" \in page.shows THEN confused
                   ELSE confused \cup {Job}

Reopen51(at) == \/ Load(Job, at) /\ Goto("look51") /\ UNCHANGED att
                \/ Trouble /\ UNCHANGED page /\ Fails(att)

Open51 == pc = "open51" /\ Reopen51("detail") /\ UNCHANGED <<Rest51, received, confused>>

\* A page without the card is loaded again, up to twice, before the click is tried.
Look51 ==
    /\ pc = "look51"
    /\ LET a == [Read("resume") EXCEPT !.ready = page.card = "own" /\ ~Taken] IN
       \/ need = "login" /\ Fails(a) /\ UNCHANGED confused
       \/ need = "user" /\ Asks(a) /\ UNCHANGED confused
       \/ need = "none" /\ Detected51 /\ Deliver51(a)
       \/ /\ need = "none" /\ ~Detected51 /\ UNCHANGED confused
          /\ att' = a
          /\ Goto(IF page.card = "own" \/ att.tries = 2 THEN "click51" ELSE "reload51")
    /\ UNCHANGED <<Rest51, received, page, trouble>>

Reload51 ==
    /\ pc = "reload51"
    /\ att' = [att EXCEPT !.tries = @ + 1]
    /\ \/ Load(Job, page.at) /\ Goto("look51")
       \/ Trouble /\ UNCHANGED page /\ Goto(IF att.tries = 1 THEN "click51" ELSE "reload51")
    /\ UNCHANGED <<Rest51, received, confused>>

Clicked == /\ Goto("after51") /\ att' = [att EXCEPT !.clicked = TRUE]

ClickOwn ==
    /\ page.card = "own" /\ ~Taken
    /\ Clicked /\ Handed(Job, "resume") /\ UNCHANGED confused

\* Without a control that says "submit" the attempt fails; one that is only disabled is
\* clicked without effect.
ClickTaken ==
    /\ page.card = "own" /\ Taken
    /\ Clicked \/ Fails(att)
    /\ Calm /\ UNCHANGED <<received, page, confused>>

\* A single card is clicked, whatever its job: another of the list, or none of ours.
ClickOther ==
    /\ page.card = "other"
    /\ Clicked /\ Calm
    /\ confused' = confused \cup {Job}
    /\ \/ UNCHANGED received
       \/ need = "none" /\ \E k \in Jobs \ {Job} : ~Has(k, "resume") /\ received' = More(k, "resume")
    /\ UNCHANGED page

\* No card: the title is searched for, unless that is the search already.
ClickNone ==
    /\ page.card = "none"
    /\ Calm /\ UNCHANGED <<received, page, confused>>
    /\ \/ ~att.second /\ Goto("recover51") /\ att' = [att EXCEPT !.second = TRUE, !.tries = 0]
       \/ EndsWith(att, "unavailable", FALSE)

Click51 ==
    /\ pc = "click51"
    /\ ClickOwn \/ ClickTaken \/ ClickOther \/ ClickNone
    /\ UNCHANGED Rest51

Recover51 == pc = "recover51" /\ Reopen51("recovery") /\ UNCHANGED <<Rest51, received, confused>>

\* Proof is a notice, or the control of the card changed by the click, for three looks.
Proved == Detected51 \/ (att.ready /\ Taken /\ need = "none")

After51 ==
    /\ pc = "after51"
    /\ LET a == [att EXCEPT !.moved = Taken] IN
       \/ Proved /\ Deliver51(a)
       \/ /\ ~Proved /\ UNCHANGED confused
          /\ \/ need = "login" /\ Fails(a)
             \/ need = "user" /\ Asks(a)
             \/ need = "none" /\ EndsWith(a, "indeterminate", FALSE)
    /\ UNCHANGED <<Rest51, received, page, trouble>>

\* Mutation: a look at a clicked job is not counted.
BoundUncounted ==
    /\ pc = "bound51"
    /\ \/ EndsWith(att, "unresolved", FALSE)
       \/ log[Job].tries < ReconcileLimit /\ Goto("reopen51") /\ UNCHANGED att
    /\ UNCHANGED <<Rest51, received, page, confused, trouble>>

\* _reconcile_indeterminate: a clicked job is looked at, on its page and on the search for
\* its title, and never clicked.  A day may have passed at any time.
Bound51 ==
    /\ pc = "bound51"
    /\ LET a == [att EXCEPT !.recon = log[Job].tries + 1] IN
       \/ EndsWith(a, "unresolved", FALSE)
       \/ log[Job].tries < ReconcileLimit /\ att' = a /\ Goto("reopen51")
    /\ UNCHANGED <<Rest51, received, page, confused, trouble>>

Undecided == EndsWith(att, IF att.recon >= ReconcileLimit THEN "unresolved" ELSE "indeterminate", FALSE)
             \/ EndsWith(att, "unresolved", FALSE)
NextCandidate == IF att.second THEN Undecided ELSE Goto("reopen51") /\ att' = [att EXCEPT !.second = TRUE]

Reconcile51 ==
    /\ pc = "reopen51"
    /\ \/ Load(Job, IF att.second THEN "recovery" ELSE "detail") /\ Goto("relook51") /\ UNCHANGED att
       \/ Trouble /\ UNCHANGED page /\ NextCandidate
    /\ UNCHANGED <<Rest51, received, confused>>

Relook51 ==
    /\ pc = "relook51"
    /\ LET proved == Detected51 \/ (log[Job].moved /\ Taken) IN
       \/ need = "login" /\ Fails(att) /\ UNCHANGED confused
       \/ need = "user" /\ Asks(att) /\ UNCHANGED confused
       \/ need = "none" /\ proved /\ Deliver51(att)
       \/ need = "none" /\ ~proved /\ NextCandidate /\ UNCHANGED confused
    /\ UNCHANGED <<Rest51, received, page, trouble>>

Job51Step ==
    \/ Open51 \/ Look51 \/ Reload51 \/ Click51 \/ Recover51 \/ After51
    \/ Bound51 \/ Reconcile51 \/ Relook51
=============================================================================
