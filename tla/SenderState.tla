----------------------------- MODULE SenderState -----------------------------
(***************************************************************************)
(* What the direct senders of the four platforms share: a reviewed list is    *)
(* delivered job by job through one tab of the dedicated browser, every       *)
(* attempt is judged by what the pages show and appended to an audit log, and *)
(* the log is all that the next run knows.  application/delivery.py,          *)
(* send_reviewed, and platforms/<platform>/apply.py, send_flow.py, audit.py.  *)
(*                                                                          *)
(* A page shows what its job has received, unless it is late (trouble).  The   *)
(* site may ask for a login or for the person, lose a click or its answer, and *)
(* the command may die between any two steps.                                *)
(***************************************************************************)
EXTENDS Naturals, FiniteSets

CONSTANTS
    Platforms,      \* the platforms an instance looks at
    LastJob,        \* the jobs of the list are 1..LastJob
    MaxTrouble      \* bound: how often the site, the browser or the process fails

Jobs == 1..LastJob
Parts == {"resume", "greeting"}

ASSUME SenderAssumption ==
    /\ Platforms \subseteq {"boss", "liepin", "zhilian", "51job"}
    /\ LastJob \in Nat \ {0} /\ MaxTrouble \in Nat

VARIABLES
    platform,
    received,   \* what the employer of a job has got from the user, and how often (up to 2)
    contacted,  \* jobs with a conversation
    gone,       \* jobs that are no longer offered
    drafts,     \* what stands unsent in the editor of a job's conversation: "none", the
                \* greeting ("fresh"), or one filled in by an attempt that a page had misled
    need,       \* what the site asks the person for: "none", "login" or "user"
    page,       \* the page in the tab
    log,        \* the audit log, as its reducer sees each job
    round,      \* the platform's status in the round
    pc, run,    \* the run under way, and where it is
    att,        \* the attempt under way
    confused,   \* ghost: jobs whose evidence was not their own
    trouble

site == <<received, contacted, gone, drafts>>
vars == <<platform, received, contacted, gone, drafts, need, page, log, round, pc, run, att,
          confused, trouble>>

\* A page of a job: what it shows, whether a dialog is open, and on a list of 51job
\* whether the card of the job is there, or no card, or a single one of another job.
Marks == {"resume", "greeting", "taken", "contacted", "another"}
NoPage == [job |-> 0, at |-> "none", shows |-> {}, dialog |-> FALSE, card |-> "none"]
PageTypes == [job : 0..LastJob, at : {"none", "detail", "recovery", "chat"}, shows : SUBSET Marks,
              dialog : BOOLEAN, card : {"own", "other", "none"}]

Outcomes == {"none", "delivered", "failed", "already", "dry", "unavailable", "indeterminate",
             "unresolved"}
NoAttempt == [out |-> "none", asked |-> FALSE, second |-> FALSE, tries |-> 0, ready |-> FALSE,
              clicked |-> FALSE, moved |-> FALSE, recon |-> 0, resumed |-> FALSE,
              greeted |-> FALSE, defaulted |-> FALSE, blind |-> FALSE]
Attempts == [out : Outcomes, asked : BOOLEAN, second : BOOLEAN, tries : 0..6, ready : BOOLEAN,
             clicked : BOOLEAN, moved : BOOLEAN, recon : 0..3, resumed : BOOLEAN,
             greeted : BOOLEAN, defaulted : BOOLEAN, blind : BOOLEAN]
NoRun == [job |-> 1, upto |-> 1, dry |-> FALSE, stop |-> FALSE, res |-> [j \in Jobs |-> "none"],
          asked |-> FALSE]
Runs == [job : 1..LastJob + 1, upto : Jobs, dry : BOOLEAN, stop : BOOLEAN,
         res : [Jobs -> Outcomes], asked : BOOLEAN]

\* One job of the audit log: its outcome, whether the resume was ever shown (Liepin),
\* and the evidence of a click that 51job keeps.
NoEntry == [outcome |-> "none", resume |-> FALSE, click |-> FALSE, moved |-> FALSE, tries |-> 0]
Entries == [outcome : {"none", "failed", "delivered", "unavailable", "unresolved", "pending", "planned"},
            resume : BOOLEAN, click : BOOLEAN, moved : BOOLEAN, tries : 0..3]

\* Something goes wrong, or nothing does.
Trouble == trouble < MaxTrouble /\ trouble' = trouble + 1
Calm == UNCHANGED trouble

Job == run.job
Has(j, part) == received[j][part] > 0
More(j, part) == [received EXCEPT ![j][part] = IF @ < 2 THEN @ + 1 ELSE @]

\* What a page of the job shows when it is not late.
MarksOf(j) ==
    {p \in Parts : Has(j, p)}
    \cup (IF platform = "51job" /\ Has(j, "resume") THEN {"taken"} ELSE {})
    \cup (IF j \in contacted THEN {"contacted"} ELSE {})
PageOf(j, at) ==
    [job |-> j, at |-> at, shows |-> MarksOf(j), dialog |-> FALSE,
     card |-> IF j \in gone THEN "none" ELSE "own"]

\* A list of 51job may carry the card of another job that has the resume.
Lists(p) ==
    {p} \cup (IF platform = "51job" /\ \E k \in Jobs \ {p.job} : Has(k, "resume")
              THEN {[p EXCEPT !.shows = @ \cup {"another"}]} ELSE {})
        \cup (IF p.job \in gone THEN {[p EXCEPT !.card = "other", !.shows = {}]} ELSE {})
Poor(p) ==
    {[p EXCEPT !.shows = {}]}
    \cup (IF platform = "51job"
          THEN {[p EXCEPT !.shows = {}, !.card = c] : c \in {"none", "other"}}
               \cup {[p EXCEPT !.shows = @ \cap {"taken"}]}
          ELSE {})
Load(j, at) ==
    \/ page' \in Lists(PageOf(j, at)) /\ Calm
    \/ page' \in Poor(PageOf(j, at)) /\ Trouble

\* A click hands a part over: the page shows it, or shows it late, or the click is lost.
\* Nothing is handed over while the site asks the person for something.
Handed(j, part) ==
    \/ need # "none" /\ Calm /\ UNCHANGED <<received, page>>
    \/ /\ need = "none" /\ Calm
       /\ received' = More(j, part)
       /\ page' = [page EXCEPT !.dialog = FALSE, !.shows = @ \cup {part}
                               \cup (IF platform = "51job" THEN {"taken"} ELSE {})]
    \/ /\ need = "none" /\ Trouble
       /\ received' = More(j, part) /\ page' = [page EXCEPT !.dialog = FALSE]
    \/ need = "none" /\ Trouble /\ UNCHANGED <<received, page>>

\* The page hides what the job has received already.
Hidden(part) == Has(Job, part) /\ page.shows \cap {part, "taken"} = {}
Read(part) == [att EXCEPT !.blind = @ \/ Hidden(part)]

Goto(next) == pc' = next
\* The attempt ends; `asks` when a state that wants the person is among its steps.
EndsWith(a, out, asks) == pc' = "append" /\ att' = [a EXCEPT !.out = out, !.asked = asks]
Fails(a) == EndsWith(a, "failed", FALSE)
Asks(a) == EndsWith(a, "failed", TRUE)

Kept == <<platform, gone, need, log, round, run>>
=============================================================================
