----------------------------- MODULE BossSender -----------------------------
(***************************************************************************)
(* The personalized greeting is filled into the conversation of the job and   *)
(* sent: platforms/boss/send_flow.py over drivers/boss/cdp_driver.py.         *)
(***************************************************************************)
EXTENDS SenderState

RestBoss == <<Kept, gone, confused>>
Greeted == "greeting" \in page.shows

OpenBoss ==
    /\ pc = "openB"
    /\ \/ need # "user" /\ Load(Job, "detail") /\ Goto("entryB") /\ UNCHANGED att
       \/ need = "user" /\ Calm /\ UNCHANGED page /\ Fails(att)
       \/ Trouble /\ UNCHANGED page /\ Fails(att)
    /\ UNCHANGED <<RestBoss, received, contacted, drafts>>

\* click_chat_entry: the entry opens the conversation, the first time perhaps with a
\* default message of the platform's own; or a redirect leads to it.
EntryOpens ==
    /\ need = "none" /\ Calm
    /\ \E default \in IF Job \in contacted THEN {FALSE} ELSE BOOLEAN :
          att' = [att EXCEPT !.defaulted = default]
    /\ contacted' = contacted \cup {Job} /\ page' = PageOf(Job, "chat") /\ Goto("editorB")

\* An answer that is lost is recovered when the editor is that of the job.
EntryBoss ==
    /\ pc = "entryB"
    /\ \/ EntryOpens
       \/ need = "login" /\ Calm /\ UNCHANGED <<page, contacted, att>> /\ Goto("editorB")
       \/ need = "user" /\ Calm /\ UNCHANGED <<page, contacted>> /\ Fails(att)
       \/ /\ need = "none" /\ Trouble /\ contacted' \in {contacted, contacted \cup {Job}}
          /\ UNCHANGED page /\ Fails(att)
    /\ UNCHANGED <<RestBoss, received, drafts>>

\* A login dialog leaves only the draft that the conversation may hold.
EditorBoss ==
    /\ pc = "editorB"
    /\ \/ need = "login" /\ Goto("draftB") /\ UNCHANGED att /\ Calm
       \/ need # "login" /\ Goto("preB") /\ att' = [att EXCEPT !.ready = need = "none"] /\ Calm
       \/ need = "none" /\ Goto("preB") /\ UNCHANGED att /\ Trouble
    /\ UNCHANGED <<RestBoss, received, contacted, drafts, page>>

\* Mutation: the conversation is not looked at before the greeting is filled in.
PreverifyUnlooked ==
    /\ pc = "preB"
    /\ IF att.ready THEN Goto("fillB") /\ UNCHANGED att ELSE Fails(att)
    /\ UNCHANGED <<RestBoss, received, contacted, drafts, page, trouble>>

\* The exact greeting with its delivery mark in the bound conversation is not sent again.
PreverifyBoss ==
    /\ pc = "preB"
    /\ LET a == Read("greeting") IN
       \/ Greeted /\ EndsWith(a, "delivered", FALSE)
       \/ ~Greeted /\ ~att.ready /\ Fails(a)
       \/ ~Greeted /\ att.ready /\ att' = a /\ Goto("fillB")
    /\ UNCHANGED <<RestBoss, received, contacted, drafts, page, trouble>>

FillBoss ==
    /\ pc = "fillB"
    /\ \/ need = "none" /\ Calm /\ Goto("sendB") /\ UNCHANGED att
          /\ drafts' = [drafts EXCEPT ![Job] = IF att.blind THEN "misled" ELSE "fresh"]
       \/ need # "none" /\ Calm /\ UNCHANGED drafts /\ Fails(att)
       \/ Trouble /\ UNCHANGED drafts /\ Fails(att)
    /\ UNCHANGED <<RestBoss, received, contacted, page>>

Unfilled == [drafts EXCEPT ![Job] = "none"]

\* The draft goes when the greeting is received, and stays in the editor when it is not.
Sends ==
    /\ Handed(Job, "greeting")
    /\ drafts' = IF received' = received THEN drafts ELSE Unfilled

SendBoss ==
    /\ pc = "sendB"
    /\ \/ Sends /\ Goto("verifyB") /\ UNCHANGED att
       \/ need # "none" /\ Calm /\ UNCHANGED <<received, drafts, page>> /\ Fails(att)
       \/ need = "none" /\ Trouble /\ received' = More(Job, "greeting") /\ drafts' = Unfilled
          /\ UNCHANGED page /\ Fails(att)     \* the answer of the browser is lost
    /\ UNCHANGED <<RestBoss, contacted>>

\* Unverified: the draft is sent if it still stands there, then once more everything.
VerifyBoss ==
    /\ pc = "verifyB"
    /\ LET a == Read("greeting") IN
       \/ Greeted /\ EndsWith(a, "delivered", FALSE)
       \/ ~Greeted /\ att.second /\ Fails(a)
       \/ ~Greeted /\ ~att.second /\ att.tries = 0 /\ att' = [a EXCEPT !.tries = 1] /\ Goto("draftB")
       \/ ~Greeted /\ ~att.second /\ att.tries = 1 /\ att' = [a EXCEPT !.second = TRUE] /\ Goto("fillB")
    /\ UNCHANGED <<RestBoss, received, contacted, drafts, page, trouble>>

\* recover_draft_delivery, after a login dialog (tries 0) or an unverified message.
Afterwards(sent) ==
    IF att.tries = 1 THEN Goto("verifyB") /\ UNCHANGED att
    ELSE IF sent THEN Goto("verifyB") /\ att' = [att EXCEPT !.second = TRUE] ELSE Fails(att)

DraftBoss ==
    /\ pc = "draftB"
    /\ \/ drafts[Job] # "none" /\ need = "none" /\ page.at = "chat" /\ Sends /\ Afterwards(TRUE)
       \/ /\ drafts[Job] = "none" \/ need # "none" \/ page.at # "chat"
          /\ Calm /\ UNCHANGED <<received, drafts, page>> /\ Afterwards(FALSE)
    /\ UNCHANGED <<RestBoss, contacted>>

BossStep ==
    \/ OpenBoss \/ EntryBoss \/ EditorBoss \/ PreverifyBoss \/ FillBoss \/ SendBoss \/ VerifyBoss
    \/ DraftBoss
=============================================================================
