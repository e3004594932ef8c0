---------------------------- MODULE ZhilianSender ----------------------------
(***************************************************************************)
(* The resume of the account is submitted from the page of the job:           *)
(* platforms/zhilian/apply.py, ZhilianApplySender.                           *)
(***************************************************************************)
EXTENDS SenderState

RestZhilian == <<Kept, drafts, confused>>

\* A page that speaks of a conversation counts as a delivery.
DetectedZhilian == page.shows \cap {"resume", "contacted"} # {}

OpenZhilian ==
    /\ pc = "openZ"
    /\ \/ Load(Job, "detail") /\ Goto("lookZ") /\ UNCHANGED att
       \/ Trouble /\ UNCHANGED page /\ Fails(att)
    /\ UNCHANGED <<RestZhilian, received, contacted>>

InspectZhilian ==
    /\ pc = "lookZ"
    /\ LET a == Read("resume") IN
       \/ need = "login" /\ Fails(a)
       \/ need = "user" /\ Asks(a)
       \/ need = "none" /\ DetectedZhilian /\ EndsWith(a, "delivered", FALSE)
       \/ need = "none" /\ ~DetectedZhilian /\ att' = a /\ Goto("entryZ")
    /\ UNCHANGED <<RestZhilian, received, contacted, page, trouble>>

\* The control of the page: it submits, or asks in a dialog, or only starts a conversation.
Press ==
    /\ ~DetectedZhilian /\ ~page.dialog
    /\ \/ Handed(Job, "resume") /\ UNCHANGED contacted
       \/ need = "none" /\ page' = [page EXCEPT !.dialog = TRUE] /\ Calm /\ UNCHANGED <<received, contacted>>
       \/ /\ need = "none" /\ Trouble
          /\ contacted' = contacted \cup {Job}
          /\ page' = [page EXCEPT !.shows = @ \cup {"contacted"}] /\ UNCHANGED received
Idle == Calm /\ UNCHANGED <<received, contacted, page>>

EntryZhilian ==
    /\ pc = "entryZ"
    /\ \/ Press /\ Goto("dialogZ") /\ UNCHANGED att
       \/ (DetectedZhilian \/ need # "none") /\ Idle /\ Fails(att)
    /\ UNCHANGED RestZhilian

\* _drive_dialog: six times a look, the button that confirms, and a look again.
LookAgain == IF att.tries = 5 THEN Fails(Read("resume"))
             ELSE Goto("dialogZ") /\ att' = [Read("resume") EXCEPT !.tries = @ + 1]

DialogZhilian ==
    /\ pc = "dialogZ"
    /\ LET a == Read("resume") IN
       \/ need = "login" /\ Fails(a)
       \/ need # "login" /\ DetectedZhilian /\ EndsWith(a, "delivered", FALSE)
       \/ need = "user" /\ ~DetectedZhilian /\ Asks(a)
       \/ need = "none" /\ ~DetectedZhilian /\ att' = a /\ Goto("confirmZ")
    /\ UNCHANGED <<RestZhilian, received, contacted, page, trouble>>

ConfirmZhilian ==
    /\ pc = "confirmZ"
    /\ \/ page.dialog /\ Handed(Job, "resume") /\ UNCHANGED <<contacted, att>> /\ Goto("afterZ")
       \/ Press /\ UNCHANGED att /\ Goto("afterZ")
       \/ ~page.dialog /\ Idle /\ LookAgain
    /\ UNCHANGED RestZhilian

AfterZhilian ==
    /\ pc = "afterZ"
    /\ \/ DetectedZhilian /\ EndsWith(Read("resume"), "delivered", FALSE)
       \/ ~DetectedZhilian /\ need = "user" /\ Asks(Read("resume"))
       \/ ~DetectedZhilian /\ need # "user" /\ LookAgain
    /\ UNCHANGED <<RestZhilian, received, contacted, page, trouble>>

ZhilianStep ==
    \/ OpenZhilian \/ InspectZhilian \/ EntryZhilian \/ DialogZhilian \/ ConfirmZhilian \/ AfterZhilian
=============================================================================
