---------------------------- MODULE LiepinSender ----------------------------
(***************************************************************************)
(* The resume and the personalized greeting are sent in the conversation of    *)
(* the job: platforms/liepin/apply.py, LiepinApplySender.  What was shown of    *)
(* the greeting when the conversation opened is used after the resume.        *)
(***************************************************************************)
EXTENDS SenderState

RestLiepin == <<Kept, gone, drafts, confused>>
Untouched == UNCHANGED <<received, page, trouble>>
Shown(part) == part \in page.shows

OpenLiepin ==
    /\ pc = "openL"
    /\ \/ \E at \in IF Job \in contacted THEN {"detail", "chat"} ELSE {"detail"} : Load(Job, at)
          /\ Goto("lookL") /\ UNCHANGED att
       \/ Trouble /\ UNCHANGED page /\ Fails(att)     \* no answer, or not the page of the job
    /\ UNCHANGED <<RestLiepin, received, contacted>>

\* A login that is missing here is reported, like a state that wants the person.
InspectLiepin ==
    /\ pc = "lookL"
    /\ \/ need # "none" /\ Asks(att)
       \/ need = "none" /\ Goto(IF page.at = "chat" THEN "chatL" ELSE "entryL") /\ UNCHANGED att
    /\ UNCHANGED <<RestLiepin, contacted>> /\ Untouched

\* The entry opens the conversation, or on a first contact only makes it; it is clicked
\* once more when no editor appears.
EntryLiepin ==
    /\ pc = "entryL"
    /\ \/ need # "none" /\ Fails(att) /\ Calm /\ UNCHANGED <<contacted, page>>
       \/ /\ need = "none" /\ Calm
          /\ contacted' = contacted \cup {Job} /\ page' = PageOf(Job, "chat")
          /\ Goto("chatL") /\ UNCHANGED att
       \/ /\ need = "none"
          /\ \/ Calm /\ ~att.second /\ Job \notin contacted /\ contacted' = contacted \cup {Job}
             \/ Trouble /\ UNCHANGED contacted
          /\ UNCHANGED page
          /\ Goto(IF att.second THEN "chatL" ELSE "entryL") /\ att' = [att EXCEPT !.second = TRUE]
    /\ UNCHANGED <<RestLiepin, received>>

ChatLiepin ==
    /\ pc = "chatL"
    /\ LET a == [att EXCEPT !.resumed = log[Job].resume \/ Shown("resume"), !.greeted = Shown("greeting"),
                            !.blind = @ \/ Hidden("resume") \/ Hidden("greeting")] IN
       \/ need # "none" /\ Asks(a)
       \/ need = "none" /\ page.at # "chat" /\ Fails(a)
       \/ need = "none" /\ page.at = "chat" /\ att' = a /\ Goto(IF a.resumed THEN "greetL" ELSE "resumeL")
    /\ UNCHANGED <<RestLiepin, contacted>> /\ Untouched

\* The resume: three clicks and one through the DOM; then the same for its confirmation.
\* The control may not be ready, nor a resume be selected.
Again == [att EXCEPT !.tries = @ + 1]

ResumeLiepin ==
    /\ pc = "resumeL"
    /\ \/ Trouble /\ UNCHANGED <<received, page, att>> /\ Goto("greetL")
       \/ Handed(Job, "resume") /\ att' = Again /\ Goto("pollL")
       \/ /\ need = "none" /\ page' = [page EXCEPT !.dialog = TRUE] /\ Calm /\ UNCHANGED received
          /\ att' = Again /\ Goto("pollL")
    /\ UNCHANGED <<RestLiepin, contacted>>

\* A state that wants the person ends the attempt here without being among its steps.
Poll(next, done) ==
    LET a == [Read("resume") EXCEPT !.resumed = Shown("resume")] IN
    \/ need = "user" /\ Fails(Read("resume"))
    \/ need # "user" /\ (Shown("resume") \/ done) /\ att' = a /\ Goto("greetL")
    \/ need # "user" /\ ~Shown("resume") /\ ~done /\ att' = [a EXCEPT !.tries = next.tries] /\ Goto(next.pc)

PollLiepin ==
    /\ pc = "pollL"
    /\ Poll(IF page.dialog THEN [pc |-> "confirmL", tries |-> 0] ELSE [pc |-> "resumeL", tries |-> att.tries],
            need = "login" \/ (att.tries = 4 /\ ~page.dialog))
    /\ UNCHANGED <<RestLiepin, contacted>> /\ Untouched

ConfirmLiepin ==
    /\ pc = "confirmL"
    /\ \/ Trouble /\ UNCHANGED <<received, page, att>> /\ Goto("greetL")
       \/ Handed(Job, "resume") /\ att' = Again /\ Goto("confirmedL")
    /\ UNCHANGED <<RestLiepin, contacted>>

ConfirmedLiepin ==
    /\ pc = "confirmedL"
    /\ Poll([pc |-> "confirmL", tries |-> att.tries], need = "login" \/ ~page.dialog \/ att.tries = 4)
    /\ UNCHANGED <<RestLiepin, contacted>> /\ Untouched

GreetLiepin ==
    /\ pc = "greetL"
    /\ \/ att.greeted /\ Calm /\ UNCHANGED <<received, page>> /\ Goto("endL")
       \/ ~att.greeted /\ Handed(Job, "greeting") /\ Goto("sentL")
       \/ ~att.greeted /\ Trouble /\ UNCHANGED <<received, page>> /\ Goto("endL")     \* no editor
    /\ UNCHANGED <<RestLiepin, contacted, att>>

\* What is shown of both parts, after the greeting and once more when only the resume
\* is missing.
ReadBoth ==
    [att EXCEPT !.greeted = @ \/ Shown("greeting"), !.resumed = @ \/ Shown("resume"),
                !.blind = @ \/ Hidden("resume") \/ Hidden("greeting")]

SentLiepin ==
    /\ pc = "sentL"
    /\ \/ need = "user" /\ Asks(ReadBoth)
       \/ need # "user" /\ att' = ReadBoth /\ Goto("endL")
    /\ UNCHANGED <<RestLiepin, contacted>> /\ Untouched

\* Mutation: the greeting alone counts as the delivery.
EndByGreeting ==
    /\ pc = "endL"
    /\ EndsWith(att, IF att.greeted THEN "delivered" ELSE "failed", FALSE)
    /\ UNCHANGED <<RestLiepin, contacted>> /\ Untouched

EndLiepin ==
    /\ pc = "endL"
    /\ LET a == IF att.greeted /\ ~att.resumed THEN ReadBoth ELSE att IN
       IF a.resumed /\ a.greeted /\ (att.resumed \/ need # "user") THEN EndsWith(a, "delivered", FALSE)
       ELSE EndsWith(a, "failed", need = "user" /\ att.greeted /\ ~att.resumed)
    /\ UNCHANGED <<RestLiepin, contacted>> /\ Untouched

LiepinStep ==
    \/ OpenLiepin \/ InspectLiepin \/ EntryLiepin \/ ChatLiepin \/ ResumeLiepin \/ PollLiepin
    \/ ConfirmLiepin \/ ConfirmedLiepin \/ GreetLiepin \/ SentLiepin \/ EndLiepin
=============================================================================
