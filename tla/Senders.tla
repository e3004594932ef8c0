------------------------------- MODULE Senders -------------------------------
(***************************************************************************)
(* send_reviewed: the list is delivered in runs, each over the first jobs of   *)
(* it, until the platform counts as sent.  The round is written when the       *)
(* browser is locked and when the run ends; the audit log after each attempt.  *)
(***************************************************************************)
EXTENDS BossSender, LiepinSender, ZhilianSender, Job51Sender

Init ==
    /\ platform \in Platforms
    /\ received = [j \in Jobs |-> [p \in Parts |-> 0]]
    /\ contacted = {} /\ gone = {} /\ drafts = [j \in Jobs |-> "none"]
    /\ need = "none" /\ page = NoPage
    /\ log = [j \in Jobs |-> NoEntry]
    /\ round = "reviewed"
    /\ pc = "idle" /\ run = NoRun /\ att = NoAttempt
    /\ confused = {} /\ trouble = 0

Stays == UNCHANGED <<platform, site, need, page, confused, trouble>>
Idles == pc' = "idle" /\ run' = NoRun /\ att' = NoAttempt

Begin(upto, dry, stop) ==
    /\ pc = "idle"
    /\ run' = [NoRun EXCEPT !.upto = upto, !.dry = dry, !.stop = stop]
    /\ round' = "active"
    /\ pc' = "login"
    /\ UNCHANGED <<att, log>> /\ Stays

\* The login is looked at before the first job: on Boss by its service, on Zhilian and
\* 51job on a search, on Liepin not at all.
Delivered == {j \in Jobs : log[j].outcome = "delivered"}
Unasked == run.dry \/ platform = "liepin" \/ (platform = "boss" /\ 1..run.upto \subseteq Delivered)

Login ==
    /\ pc = "login"
    /\ \/ /\ (Unasked \/ need = "none" \/ (platform = "boss" /\ need = "user")) /\ Calm
          /\ pc' = "next" /\ UNCHANGED <<run, att, round>>
       \/ ~Unasked /\ need # "none" /\ Calm /\ Idles /\ round' = "blocked"
       \/ ~Unasked /\ Trouble /\ Idles /\ round' = "blocked"
    /\ page' = IF Unasked \/ platform = "boss" THEN page ELSE NoPage
    /\ UNCHANGED <<platform, site, need, log, confused>>

\* What the log says of a job decides what is done with it.
Skipped(j) ==
    CASE log[j].outcome = "delivered" -> "already"
      [] platform = "51job" /\ log[j].outcome = "unavailable" -> "unavailable"
      [] platform = "51job" /\ log[j].outcome = "unresolved" -> "unresolved"
      [] OTHER -> "none"
Opened == CASE platform = "boss" -> "openB" [] platform = "liepin" -> "openL"
            [] platform = "zhilian" -> "openZ" [] OTHER -> "open51"

NextJob ==
    /\ pc = "next" /\ Job <= run.upto
    /\ \/ Skipped(Job) # "none" /\ EndsWith(NoAttempt, Skipped(Job), FALSE)
       \/ Skipped(Job) = "none" /\ run.dry /\ EndsWith(NoAttempt, "dry", FALSE)
       \/ /\ Skipped(Job) = "none" /\ ~run.dry
          /\ att' = NoAttempt
          /\ pc' = IF platform = "51job" /\ log[Job].outcome = "pending" THEN "bound51" ELSE Opened
    /\ UNCHANGED <<run, round, log>> /\ Stays

\* Mutation: the last outcome of a job replaces what was known of a click.
OutcomeOfLast(s, a, click) ==
    IF a.out \in {"delivered", "already"} \/ s.outcome = "delivered" THEN "delivered"
    ELSE IF a.out = "unresolved" \/ s.outcome = "unresolved" THEN "unresolved"
    ELSE IF a.out = "indeterminate" THEN "pending" ELSE "failed"

\* The audit log after one more attempt: delivery and the end of reconciliation stay, and a
\* click is not forgotten (Job51AuditLog.apply_send_outcomes); the other logs only tell
\* what was delivered, Liepin's also the resume.
Outcome(s, a, click) ==
    IF a.out \in {"delivered", "already"} \/ s.outcome = "delivered" THEN "delivered"
    ELSE IF a.out = "unresolved" \/ s.outcome = "unresolved" THEN "unresolved"
    ELSE IF a.out = "indeterminate" \/ click THEN "pending"
    ELSE IF a.out = "unavailable" THEN "unavailable"
    ELSE IF a.out = "dry" THEN "planned" ELSE "failed"
Reduced(s, a) ==
    [outcome |-> Outcome(s, a, s.click \/ a.clicked),
     resume |-> s.resume \/ a.resumed,
     click |-> s.click \/ a.clicked, moved |-> s.moved \/ a.moved,
     tries |-> IF a.recon > s.tries THEN a.recon ELSE s.tries]

Breaks ==
    \/ run.stop /\ ~run.dry /\ att.out = "failed"
    \/ platform = "boss" /\ att.defaulted /\ att.out = "failed"

Append ==
    /\ pc = "append"
    /\ log' = IF platform = "boss" /\ att.out \in {"already", "dry"} THEN log
              ELSE [log EXCEPT ![Job] = Reduced(@, att)]
    /\ run' = [run EXCEPT !.res[Job] = att.out, !.job = @ + 1, !.asked = @ \/ att.asked]
    /\ pc' = IF Breaks THEN "finish" ELSE "next"
    /\ att' = NoAttempt
    /\ UNCHANGED round /\ Stays

\* The platform is sent when the whole list was gone through and every job has ended: by the
\* results of this run, on 51job by the whole log.
Ended == {"delivered", "already", "unavailable", "unresolved"}
\* Mutation: a click that is not decided yet counts as an end.
AllAnswered == \A j \in Jobs : run.res[j] \in Ended \cup {"indeterminate"}
AllEnded ==
    IF platform = "51job" /\ ~run.dry
    THEN \A j \in Jobs : log[j].outcome \in {"delivered", "unavailable", "unresolved"}
    ELSE \A j \in Jobs : run.res[j] \in Ended
Complete == run.upto = LastJob /\ run.job > LastJob /\ AllEnded

Finish ==
    /\ pc = "finish" \/ (pc = "next" /\ Job > run.upto)
    /\ round' = IF run.asked /\ ~run.dry /\ platform # "boss" THEN "blocked"
                ELSE IF Complete THEN "sent" ELSE "reviewed"
    /\ Idles
    /\ UNCHANGED log /\ Stays

\* The process is killed: what the round, the log and the site have got stays.
Die ==
    /\ pc # "idle" /\ Trouble /\ Idles
    /\ UNCHANGED <<platform, site, need, page, log, round, confused>>

\* The site interrupts, the person helps, an offer ends, a late page catches up.
Interrupt ==
    /\ need = "none" /\ Trouble /\ need' \in {"login", "user"}
    /\ UNCHANGED <<platform, site, page, log, round, pc, run, att, confused>>
Attend ==
    /\ need # "none" /\ need' = "none"
    /\ UNCHANGED <<platform, site, page, log, round, pc, run, att, confused, trouble>>
Withdraw(j) ==
    /\ platform = "51job" /\ j \notin gone /\ Trouble
    /\ gone' = gone \cup {j}
    /\ UNCHANGED <<platform, received, contacted, drafts, need, page, log, round, pc, run, att, confused>>
Render ==
    /\ page.job # 0 /\ page.card # "other" /\ ~(MarksOf(page.job) \subseteq page.shows)
    /\ page.card = "own"
    /\ page' = [page EXCEPT !.shows = @ \cup MarksOf(page.job)]
    /\ UNCHANGED <<platform, site, need, log, round, pc, run, att, confused, trouble>>

Step == BossStep \/ LiepinStep \/ ZhilianStep \/ Job51Step \/ Login \/ NextJob \/ Append \/ Finish

Next ==
    \/ \E upto \in Jobs, dry \in BOOLEAN, stop \in BOOLEAN : Begin(upto, dry, stop)
    \/ Step
    \/ Die \/ Interrupt \/ Attend \/ Render \/ \E j \in Jobs : Withdraw(j)

Spec == Init /\ [][Next]_vars

\* A command goes on while it lives, a person helps, a page catches up, and the whole list is
\* sent again and again (the command that send_reviewed suggests).
FairSpec ==
    /\ Spec
    /\ WF_vars(Step) /\ WF_vars(Attend) /\ WF_vars(Render)
    /\ \A stop \in BOOLEAN : SF_vars(Begin(LastJob, FALSE, stop))
-----------------------------------------------------------------------------
TypeOK ==
    /\ platform \in Platforms
    /\ received \in [Jobs -> [Parts -> 0..2]]
    /\ contacted \subseteq Jobs /\ gone \subseteq Jobs
    /\ drafts \in [Jobs -> {"none", "fresh", "misled"}]
    /\ need \in {"none", "login", "user"} /\ page \in PageTypes
    /\ log \in [Jobs -> Entries] /\ round \in {"reviewed", "active", "blocked", "sent"}
    /\ run \in Runs /\ att \in Attempts
    /\ confused \subseteq Jobs /\ trouble \in 0..MaxTrouble

\* What a platform's delivery consists of.
Wanted == CASE platform = "boss" -> {"greeting"} [] platform = "liepin" -> Parts [] OTHER -> {"resume"}
Got(j) ==
    \/ \A p \in Wanted : Has(j, p)
    \/ platform = "zhilian" /\ j \in contacted

\* The log says "delivered" only of jobs that have got everything, and of the resume only
\* when it arrived, whatever was late, lost or interrupted: on 51job except for evidence that
\* was another card's, on Zhilian up to a conversation that counts as a delivery.
LogIsTrue ==
    \A j \in Jobs \ confused :
        /\ log[j].outcome = "delivered" => Got(j)
        /\ log[j].resume => Has(j, "resume")

\* A click on 51job that the log has seen is the last one of the job's own card, whatever the
\* later attempts ended with.
ClickEvidenceKept ==
    [][platform = "51job" /\ Job \in Jobs \ confused /\ log[Job].click
       => received'[Job] = received[Job]]_vars

\* Nothing arrives twice unless a page of the attempt hid what had arrived, or of the attempt
\* that left the greeting in the editor (recover_draft_delivery sends what stands there): not
\* after a death before the log, nor by a retry, nor because a look was kept too long.
TwiceOnlyIfMisled ==
    [][\A j \in Jobs, p \in Parts :
        Has(j, p) /\ received'[j][p] > received[j][p]
            => att.blind \/ (p = "greeting" /\ drafts[j] = "misled")]_vars

\* A platform that is sent owes nothing: every job got its delivery, or was withdrawn, or
\* its bounded reconciliation ended.
SentIsTrue ==
    round = "sent" =>
        \A j \in Jobs \ confused :
            Got(j) \/ (platform = "51job" /\ log[j].outcome \in {"unavailable", "unresolved"})

\* After a finite number of failures the list is sent: no outcome is retried for ever.
EventuallySent == <>(round = "sent")
=============================================================================
