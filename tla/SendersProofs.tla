---------------------------- MODULE SendersProofs ----------------------------
(***************************************************************************)
(* The direct senders, for every set of the four platforms, every list and     *)
(* any number of failures: what the log and the round say has arrived, nothing *)
(* arrives twice unless a page misled the attempt, and a job of 51job whose    *)
(* click the log has seen is not clicked again.                              *)
(*                                                                          *)
(* The inductive invariant follows an attempt through its steps: where it is   *)
(* (Placed), what its page may show (PageTrue), what it may claim (AttTrue),   *)
(* and that where it can hand a part over it has either seen that the part is  *)
(* not there or been misled (Looked).  The log, the run and the round rest on  *)
(* it (LogTrue, RunTrue, SentTrue).                                          *)
(***************************************************************************)
EXTENDS Senders, TLAPS

BossAt == {"openB", "entryB", "editorB", "preB", "fillB", "sendB", "verifyB", "draftB"}
LiepinAt == {"openL", "lookL", "entryL", "chatL", "resumeL", "pollL", "confirmL", "confirmedL",
             "greetL", "sentL", "endL"}
ZhilianAt == {"openZ", "lookZ", "entryZ", "dialogZ", "confirmZ", "afterZ"}
Clicking51 == {"open51", "look51", "reload51", "click51", "recover51", "after51"}
Looking51 == {"bound51", "reopen51", "relook51"}
Working == BossAt \cup LiepinAt \cup ZhilianAt \cup Clicking51 \cup Looking51
Opening == {"openB", "openL", "openZ", "open51", "bound51", "reopen51"}

\* The steps of an attempt are those of its platform, on the page of its job.
Placed ==
    /\ pc \in Working \cup {"idle", "login", "next", "append", "finish"}
    /\ pc \in BossAt => platform = "boss"
    /\ pc \in LiepinAt => platform = "liepin"
    /\ pc \in ZhilianAt => platform = "zhilian"
    /\ pc \in Clicking51 \cup Looking51 => platform = "51job"
    /\ pc \in Working \cup {"append"} => run.job <= run.upto
    /\ pc \in Working => ~run.dry
    /\ pc \in Working \ Opening => page.job = run.job

\* The loops of an attempt are bounded.
Counted ==
    /\ pc \in BossAt => att.tries <= 1
    /\ pc \in {"openL", "lookL", "entryL", "chatL", "resumeL", "confirmL"} => att.tries <= 3
    /\ pc \in {"pollL", "confirmedL"} => att.tries <= 4
    /\ pc \in ZhilianAt => att.tries <= 5
    /\ pc \in Clicking51 => att.tries <= 2
    /\ pc = "reload51" => att.tries <= 1

\* A page shows nothing that its job has not received, but for the card of another job.
PageTrue ==
    page.job # 0 => \A m \in page.shows :
        /\ m \in Parts => received[page.job][m] > 0
        /\ m = "taken" => platform = "51job" /\ received[page.job]["resume"] > 0
        /\ m = "contacted" => page.job \in contacted

\* What an attempt claims: only a click on 51job is left undecided, only evidence of another
\* card is false.
AttTrue ==
    /\ pc \in Working => att.out = "none"
    /\ pc \notin Working \cup {"append"} => att = NoAttempt
    /\ att.out = "delivered" => Got(run.job) \/ run.job \in confused
    /\ att.out = "already" => log[run.job].outcome = "delivered"
    /\ att.out \in {"unavailable", "unresolved", "indeterminate"} => platform = "51job"
    /\ run.dry /\ att.out \in {"unavailable", "unresolved"} => log[run.job].outcome = att.out
    /\ run.dry => att.out \notin {"delivered", "failed", "indeterminate"}
    /\ att.resumed => Has(run.job, "resume")
    /\ att.greeted => Has(run.job, "greeting")
    /\ att.clicked => platform = "51job" /\ ~run.dry
    /\ att.recon <= ReconcileLimit \/ att.out = "unresolved"

\* Only 51job takes the evidence of another card, and only Boss fills in drafts.
Confined ==
    /\ confused # {} => platform = "51job"
    /\ \A j \in Jobs : drafts[j] # "none" => platform = "boss"

\* The log of a job: what it says has arrived; a click is not forgotten; the looks at a
\* clicked job are bounded.
LogTrue ==
    \A j \in Jobs :
        /\ j \notin confused /\ log[j].outcome = "delivered" => Got(j)
        /\ j \notin confused /\ log[j].resume => Has(j, "resume")
        /\ log[j].outcome \in {"unavailable", "unresolved", "pending"} => platform = "51job"
        /\ log[j].click => platform = "51job" /\ log[j].outcome \in {"delivered", "unresolved", "pending"}
        /\ log[j].tries <= ReconcileLimit \/ log[j].outcome \in {"delivered", "unresolved"}

\* What the log knew of the job when the attempt began.
Entered ==
    /\ pc \in Clicking51 => log[run.job].outcome \notin {"delivered", "unresolved", "pending"}
    /\ pc \in Looking51 => log[run.job].outcome = "pending"

\* The results of the run are in the log.
RunTrue ==
    \A j \in Jobs :
        /\ run.res[j] \in {"delivered", "already"} => log[j].outcome = "delivered"
        /\ run.res[j] \in {"unavailable", "unresolved"} =>
              /\ platform = "51job"
              /\ run.dry => log[j].outcome = run.res[j]
        /\ run.res[j] # "none" => j < run.job

\* A platform is sent only between the runs, and by what the log says.
SentTrue ==
    round = "sent" =>
        /\ pc = "idle"
        /\ \A j \in Jobs :
              \/ log[j].outcome = "delivered"
              \/ platform = "51job" /\ log[j].outcome \in {"unavailable", "unresolved"}

\* Where a part can be handed over that has arrived, a page has misled the attempt, or the
\* one that filled in the draft.
Looked ==
    /\ pc \in {"fillB", "sendB"} /\ Has(run.job, "greeting") => att.blind
    /\ \A j \in Jobs : drafts[j] = "fresh" => ~Has(j, "greeting")
    /\ pc \in {"resumeL", "confirmL"} /\ Has(run.job, "resume") => att.blind
    /\ pc \in {"resumeL", "pollL", "confirmL", "confirmedL", "greetL"}
          /\ ~att.greeted /\ Has(run.job, "greeting") => att.blind
    /\ pc \in {"entryZ", "confirmZ"} /\ Has(run.job, "resume") => att.blind
    /\ pc \in {"click51", "reload51"} /\ Has(run.job, "resume") /\ "taken" \notin page.shows
          => att.blind

SenderInv ==
    /\ TypeOK /\ Placed /\ Counted /\ PageTrue /\ AttTrue /\ Confined /\ LogTrue /\ Entered
    /\ RunTrue /\ SentTrue /\ Looked
-----------------------------------------------------------------------------
\* What every step of an attempt keeps: the log, the round and the run are not its own, and
\* what has arrived stays.
Onward ==
    /\ UNCHANGED <<platform, gone, need, log, round, run>>
    /\ \A j \in Jobs, p \in Parts : received[j][p] > 0 => received'[j][p] > 0
    /\ contacted \subseteq contacted' /\ confused \subseteq confused'

LEMMA JobIsJob == ASSUME TypeOK, Placed, pc \in Working \cup {"append"} PROVE run.job \in Jobs
BY SenderAssumption DEF TypeOK, Placed, Runs, Jobs

LEMMA GotStays ==
    ASSUME Onward
    PROVE  \A j \in Jobs : Got(j) => Got(j)'
<1>1. \A p \in Wanted : p \in Parts
  BY DEF Wanted, Parts
<1>. QED
  BY <1>1 DEF Got, Onward, Wanted, Has

\* A page that stays is as true as before.
LEMMA PageStays ==
    ASSUME TypeOK, PageTrue, Onward, page' = page
    PROVE  PageTrue'
<1>1. page.job # 0 => page.job \in Jobs
  BY SenderAssumption DEF TypeOK, PageTypes, Jobs
<1>. QED
  BY <1>1 DEF PageTrue, Onward, Parts

\* The lists and the poor pages that stand for a page are pages of the same job that show no
\* more than it, but for the card of another job.
LEMMA PageVariants ==
    ASSUME NEW p \in PageTypes, NEW q \in Lists(p) \cup Poor(p)
    PROVE  q \in PageTypes /\ q.job = p.job /\ q.shows \subseteq p.shows \cup {"another"}
<1>1. CASE q = p
  BY <1>1
<1>2. CASE q = [p EXCEPT !.shows = p.shows \cup {"another"}]
  BY <1>2 DEF PageTypes, Marks
<1>3. CASE q = [p EXCEPT !.card = "other", !.shows = {}]
  BY <1>3 DEF PageTypes, Marks
<1>4. CASE q = [p EXCEPT !.shows = {}]
  BY <1>4 DEF PageTypes, Marks
<1>5. ASSUME NEW c \in {"none", "other"}, q = [p EXCEPT !.shows = {}, !.card = c]
      PROVE  q \in PageTypes /\ q.job = p.job /\ q.shows \subseteq p.shows \cup {"another"}
  BY <1>5 DEF PageTypes, Marks
<1>6. CASE q = [p EXCEPT !.shows = p.shows \cap {"taken"}]
  BY <1>6 DEF PageTypes, Marks
<1>. QED
  BY <1>1, <1>2, <1>3, <1>4, <1>5, <1>6 DEF Lists, Poor

\* A page that is loaded is the job's, and shows no more than it has received.
LEMMA LoadedPage ==
    ASSUME TypeOK, NEW j \in Jobs, NEW at \in {"none", "detail", "recovery", "chat"},
           Load(j, at), Onward
    PROVE  /\ page' \in PageTypes /\ page'.job = j /\ PageTrue'
           /\ trouble' \in 0..MaxTrouble
<1>. DEFINE p == PageOf(j, at)
<1>1. MarksOf(j) \subseteq Marks \ {"another"}
  BY DEF MarksOf, Marks, Parts
<1>2. /\ p \in PageTypes /\ p.job = j /\ p.shows = MarksOf(j)
  BY <1>1 DEF PageOf, PageTypes, Jobs
<1>3. page' \in Lists(p) \cup Poor(p)
  BY DEF Load, p
<1>. HIDE DEF p
<1>4. /\ page' \in PageTypes /\ page'.job = j /\ page'.shows \subseteq MarksOf(j) \cup {"another"}
  BY <1>2, <1>3, PageVariants
<1>5. PageTrue'
  BY <1>4 DEF PageTrue, MarksOf, Onward, Parts, Has
<1>6. trouble' \in 0..MaxTrouble
  BY SenderAssumption DEF Load, Trouble, Calm, TypeOK
<1>. QED
  BY <1>4, <1>5, <1>6

\* One part more of a job.
LEMMA MoreOfOne ==
    ASSUME received \in [Jobs -> [Parts -> 0..2]], NEW j \in Jobs, NEW part \in Parts,
           received' = More(j, part)
    PROVE  /\ received' \in [Jobs -> [Parts -> 0..2]]
           /\ \A k \in Jobs, p \in Parts : received[k][p] > 0 => received'[k][p] > 0
           /\ \A k \in Jobs, p \in Parts : k # j \/ p # part => received'[k][p] = received[k][p]
           /\ received'[j][part] > 0
<1>1. received[j][part] \in 0..2 /\ received[j] \in [Parts -> 0..2]
  OBVIOUS
<1>. DEFINE n == IF received[j][part] < 2 THEN received[j][part] + 1 ELSE received[j][part]
<1>2. n \in 0..2 /\ n > 0 /\ n >= received[j][part]
  BY <1>1
<1>3. received' = [received EXCEPT ![j] = [received[j] EXCEPT ![part] = n]]
  BY <1>1 DEF More
<1>. HIDE DEF n
<1>4. /\ received'[j] = [received[j] EXCEPT ![part] = n]
      /\ \A k \in Jobs : k # j => received'[k] = received[k]
      /\ received' \in [Jobs -> [Parts -> 0..2]]
  BY <1>1, <1>2, <1>3
<1>5. received'[j][part] = n /\ \A p \in Parts : p # part => received'[j][p] = received[j][p]
  BY <1>1, <1>4
<1>. QED
  BY <1>1, <1>2, <1>4, <1>5

\* A click on the page of a job hands over that part of that job, or nothing, and the page
\* shows what arrived.
LEMMA HandedPart ==
    ASSUME TypeOK, PageTrue, NEW part \in Parts, run.job \in Jobs, page.job = run.job,
           platform = "51job" => part = "resume",
           Handed(run.job, part), UNCHANGED <<Kept, contacted, confused>>
    PROVE  /\ Onward
           /\ received' \in [Jobs -> [Parts -> 0..2]]
           /\ \A k \in Jobs, p \in Parts : k # run.job \/ p # part => received'[k][p] = received[k][p]
           /\ received' # received => received'[run.job][part] > 0
           /\ page' \in PageTypes /\ page'.job = run.job /\ PageTrue'
           /\ trouble' \in 0..MaxTrouble
<1>1. trouble' \in 0..MaxTrouble
  BY SenderAssumption DEF Handed, Trouble, Calm, TypeOK
<1>2. received \in [Jobs -> [Parts -> 0..2]] /\ page \in PageTypes
  BY DEF TypeOK
<1>3. CASE UNCHANGED <<received, page>>
  <2>1. Onward
    BY <1>3 DEF Onward, Kept
  <2>. QED
    BY <1>1, <1>2, <1>3, <2>1, PageStays
<1>4. ASSUME received' = More(run.job, part)
      PROVE  /\ Onward
             /\ received' \in [Jobs -> [Parts -> 0..2]]
             /\ \A k \in Jobs, p \in Parts : k # run.job \/ p # part => received'[k][p] = received[k][p]
             /\ received'[run.job][part] > 0
  <2>. DEFINE j == run.job
  <2>1. j \in Jobs /\ received' = More(j, part)
    BY <1>4
  <2>. HIDE DEF j
  <2>2. /\ received' \in [Jobs -> [Parts -> 0..2]]
        /\ \A k \in Jobs, p \in Parts : received[k][p] > 0 => received'[k][p] > 0
        /\ \A k \in Jobs, p \in Parts : k # j \/ p # part => received'[k][p] = received[k][p]
        /\ received'[j][part] > 0
    BY <1>2, <2>1, MoreOfOne
  <2>. QED
    BY <2>2 DEF j, Onward, Kept
<1>5. CASE received' = More(run.job, part) /\ page' = [page EXCEPT !.dialog = FALSE]
  <2>1. page' \in PageTypes /\ page'.job = page.job /\ page'.shows = page.shows
    BY <1>2, <1>5 DEF PageTypes
  <2>2. PageTrue'
    BY <1>4, <1>5, <2>1 DEF PageTrue, Onward, Parts
  <2>. QED
    BY <1>1, <1>4, <1>5, <2>1, <2>2
<1>6. CASE /\ received' = More(run.job, part)
           /\ page' = [page EXCEPT !.dialog = FALSE, !.shows = @ \cup {part}
                                   \cup (IF platform = "51job" THEN {"taken"} ELSE {})]
  <2>. DEFINE shown == page.shows \cup {part} \cup (IF platform = "51job" THEN {"taken"} ELSE {})
  <2>1. shown \in SUBSET Marks
    BY <1>2 DEF PageTypes, Marks, Parts
  <2>2. page' = [page EXCEPT !.dialog = FALSE, !.shows = shown]
    BY <1>6
  <2>3. \A m \in shown : m \in page.shows \/ m = part \/ (m = "taken" /\ platform = "51job")
    OBVIOUS
  <2>. HIDE DEF shown
  <2>4. page' \in PageTypes /\ page'.job = page.job /\ page'.shows = shown
    BY <1>2, <2>1, <2>2 DEF PageTypes
  <2>5. PageTrue'
    BY <1>4, <1>6, <2>3, <2>4 DEF PageTrue, Onward, Parts
  <2>. QED
    BY <1>1, <1>4, <1>6, <2>4, <2>5
<1>. QED
  BY <1>3, <1>5, <1>6 DEF Handed
-----------------------------------------------------------------------------
\* A step leads on among the steps of the same kind, or to the log.
Leads ==
    \/ pc \in Working /\ pc' = "append"
    \/ pc \in BossAt /\ pc' \in BossAt
    \/ pc \in LiepinAt /\ pc' \in LiepinAt
    \/ pc \in ZhilianAt /\ pc' \in ZhilianAt
    \/ pc \in Clicking51 /\ pc' \in Clicking51
    \/ pc \in Looking51 /\ pc' \in Looking51

\* What a step adds to the claims of the attempt is so.
Honest ==
    /\ pc' \in Working => att'.out = "none"
    /\ att'.out \in {"none", "failed", "delivered"}
          \cup (IF platform = "51job" THEN {"unavailable", "unresolved", "indeterminate"} ELSE {})
    /\ att'.out = "delivered" => Got(run.job)' \/ run.job \in confused'
    /\ att'.resumed => att.resumed \/ received'[run.job]["resume"] > 0
    /\ att'.greeted => att.greeted \/ received'[run.job]["greeting"] > 0
    /\ att'.clicked => att.clicked \/ platform = "51job"
    /\ att'.recon <= ReconcileLimit \/ att'.out = "unresolved"

LEMMA Places ==
    /\ \A p \in {"append", "idle", "login", "next", "finish"} : p \notin Working
    /\ BossAt \subseteq Working /\ LiepinAt \subseteq Working /\ ZhilianAt \subseteq Working
    /\ Clicking51 \subseteq Working /\ Looking51 \subseteq Working
BY DEF Working, BossAt, LiepinAt, ZhilianAt, Clicking51, Looking51

LEMMA WorkingWhere ==
    ASSUME SenderInv, pc \in Working
    PROVE  /\ run.job \in Jobs /\ att.out = "none" /\ ~run.dry /\ att \in Attempts
           /\ pc \notin Opening => page.job = run.job
           /\ att.recon <= ReconcileLimit
BY JobIsJob DEF SenderInv, Placed, AttTrue, TypeOK

\* A step of an attempt that keeps what is not its own, and is true of its page and its
\* attempt, keeps the log, the run and the round true.
LEMMA AttemptGoesOn ==
    ASSUME SenderInv, Onward, Leads, Honest, TypeOK', Counted', PageTrue', Looked',
           pc' \in Working \ Opening => page'.job = run.job,
           confused' # confused => platform = "51job",
           drafts' # drafts => platform = "boss"
    PROVE  SenderInv'
<1>0. pc \in Working /\ pc' \in Working \cup {"append"}
  BY DEF Leads, Working
<1>1. Placed'
  BY <1>0 DEF Leads, SenderInv, Onward, Placed, Working, BossAt, LiepinAt, ZhilianAt, Clicking51, Looking51
<1>2. Confined'
  <2>1. confused' # {} => platform' = "51job"
    BY DEF SenderInv, Onward, Confined
  <2>2. \A j \in Jobs : drafts'[j] # "none" => platform' = "boss"
    BY DEF SenderInv, Onward, Confined
  <2>. QED
    BY <2>1, <2>2 DEF Confined
<1>3. LogTrue'
  <2>. SUFFICES ASSUME NEW j \in Jobs
       PROVE  (/\ j \notin confused /\ log[j].outcome = "delivered" => Got(j)
               /\ j \notin confused /\ log[j].resume => Has(j, "resume")
               /\ log[j].outcome \in {"unavailable", "unresolved", "pending"} => platform = "51job"
               /\ log[j].click => platform = "51job"
                                  /\ log[j].outcome \in {"delivered", "unresolved", "pending"}
               /\ log[j].tries <= ReconcileLimit \/ log[j].outcome \in {"delivered", "unresolved"})'
    BY DEF LogTrue
  <2>1. (j \notin confused /\ log[j].outcome = "delivered" => Got(j))'
    BY GotStays DEF SenderInv, LogTrue, Onward
  <2>2. (j \notin confused /\ log[j].resume => Has(j, "resume"))'
    BY DEF SenderInv, LogTrue, Onward, Has, Parts
  <2>. QED
    BY <2>1, <2>2 DEF SenderInv, LogTrue, Onward
<1>4. Entered'
  BY DEF Leads, SenderInv, Entered, Onward, BossAt, LiepinAt, ZhilianAt, Clicking51, Looking51
<1>5. RunTrue'
  BY DEF SenderInv, RunTrue, Onward
<1>6. SentTrue'
  BY <1>0 DEF SenderInv, SentTrue, Onward, Working, BossAt, LiepinAt, ZhilianAt, Clicking51, Looking51
<1>7. AttTrue'
  <2>1. att'.out = "delivered" => Got(run.job)' \/ run'.job \in confused'
    BY DEF Honest, Onward
  <2>2. run' = run /\ platform' = platform /\ log' = log /\ ~run.dry /\ run.job \in Jobs
    BY <1>0, WorkingWhere DEF Onward
  <2>3. /\ att'.resumed => received'[run.job]["resume"] > 0
        /\ att'.greeted => received'[run.job]["greeting"] > 0
    BY <2>2 DEF Honest, SenderInv, AttTrue, Onward, Has, Parts
  <2>4. /\ att'.out \in {"unavailable", "unresolved", "indeterminate"} => platform = "51job"
        /\ att'.clicked => platform = "51job"
        /\ att'.out # "already"
    BY DEF Honest, SenderInv, AttTrue
  <2>. QED
    BY <1>0, <2>1, <2>2, <2>3, <2>4 DEF Honest, AttTrue, Has
<1>. QED
  BY <1>1, <1>2, <1>3, <1>4, <1>5, <1>6, <1>7 DEF SenderInv

-----------------------------------------------------------------------------
\* Boss.
LEMMA OpenBossStep == ASSUME SenderInv, OpenBoss PROVE SenderInv'
<1>1. pc = "openB" /\ pc \in Working
  BY DEF OpenBoss, Working, BossAt
<1>2. Onward /\ UNCHANGED <<confused, drafts, received, contacted>>
  BY DEF OpenBoss, RestBoss, Kept, Onward
<1>3. /\ page' \in PageTypes /\ PageTrue' /\ trouble' \in 0..MaxTrouble
      /\ \/ pc' = "append" /\ att' = [att EXCEPT !.out = "failed", !.asked = FALSE]
         \/ pc' = "entryB" /\ page'.job = run.job /\ att' = att
  <2>1. CASE Load(Job, "detail") /\ Goto("entryB") /\ UNCHANGED att
    BY <1>1, <1>2, <2>1, LoadedPage, WorkingWhere DEF Job, Goto, SenderInv
  <2>2. CASE UNCHANGED page /\ Fails(att) /\ (Calm \/ Trouble)
    BY <1>2, <2>2, PageStays, SenderAssumption DEF Fails, EndsWith, SenderInv, TypeOK, Calm, Trouble
  <2>. QED
    BY <2>1, <2>2 DEF OpenBoss
<1>4. att' \in Attempts /\ Honest
  BY <1>1, <1>3, WorkingWhere, Places DEF Attempts, Outcomes, Honest
<1>5. TypeOK'
  BY <1>2, <1>3, <1>4 DEF SenderInv, TypeOK, Onward
<1>6. Leads /\ Counted'
  BY <1>1, <1>3 DEF SenderInv, Leads, Counted, Working, BossAt, LiepinAt, ZhilianAt, Clicking51
<1>7. Looked'
  BY <1>2, <1>3 DEF Looked, SenderInv, Has
<1>. QED
  BY <1>2, <1>3, <1>4, <1>5, <1>6, <1>7, AttemptGoesOn, Places

\* The page of an attempt shows what its job has got.
LEMMA ShownHasCome ==
    ASSUME SenderInv, pc \in Working \ Opening
    PROVE  /\ \A m \in Parts : m \in page.shows => received[run.job][m] > 0
           /\ "taken" \in page.shows => platform = "51job" /\ received[run.job]["resume"] > 0
           /\ "contacted" \in page.shows => run.job \in contacted
<1>1. page.job = run.job /\ run.job # 0
  BY WorkingWhere DEF Jobs
<1>. QED
  BY <1>1 DEF SenderInv, PageTrue

\* A page of the job, as it stands.
LEMMA OwnPage ==
    ASSUME TypeOK, NEW j \in Jobs, NEW at \in {"none", "detail", "recovery", "chat"},
           page' = PageOf(j, at), Onward
    PROVE  page' \in PageTypes /\ page'.job = j /\ PageTrue'
<1>1. MarksOf(j) \subseteq Marks \ {"another"}
  BY DEF MarksOf, Marks, Parts
<1>2. /\ page' \in PageTypes /\ page'.job = j /\ page'.shows = MarksOf(j)
  BY <1>1 DEF PageOf, PageTypes, Jobs
<1>3. PageTrue'
  BY <1>2 DEF PageTrue, MarksOf, Onward, Parts, Has
<1>. QED
  BY <1>2, <1>3

\* A look at the page leaves a mark on the attempt when the page hides what has come.
LEMMA ReadIs ==
    ASSUME att \in Attempts, NEW part \in Parts
    PROVE  /\ Read(part) \in Attempts
           /\ Read(part) = [att EXCEPT !.blind = Read(part).blind]
           /\ att.blind => Read(part).blind
           /\ received[run.job][part] > 0 /\ part \notin page.shows /\ "taken" \notin page.shows
                 => Read(part).blind
<1>. DEFINE b == att.blind \/ Hidden(part)
<1>1. b \in BOOLEAN
  OBVIOUS
<1>2. received[run.job][part] > 0 /\ part \notin page.shows /\ "taken" \notin page.shows => b
  BY DEF Hidden, Has, Job
<1>3. Read(part) = [att EXCEPT !.blind = b]
  BY DEF Read
<1>4. att.blind => b
  OBVIOUS
<1>. HIDE DEF b
<1>. QED
  BY <1>1, <1>2, <1>3, <1>4 DEF Attempts

LEMMA TroubleBound == ASSUME TypeOK, Calm \/ Trouble PROVE trouble' \in 0..MaxTrouble
BY SenderAssumption DEF TypeOK, Calm, Trouble

Claims(a) == <<a.resumed, a.greeted, a.clicked, a.recon>>

LEMMA Ending ==
    ASSUME NEW a \in Attempts, NEW out \in Outcomes, NEW asks \in BOOLEAN, EndsWith(a, out, asks)
    PROVE  pc' = "append" /\ att' \in Attempts /\ att'.out = out /\ Claims(att') = Claims(a)
BY DEF EndsWith, Attempts, Claims

\* A step that claims nothing new is honest when the end of the attempt is.
LEMMA ClaimsNoMore ==
    ASSUME SenderInv, pc \in Working, Claims(att') = Claims(att),
           \/ pc' \in Working /\ att'.out = "none"
           \/ /\ pc' = "append"
              /\ \/ att'.out = "failed"
                 \/ att'.out = "delivered" /\ (Got(run.job)' \/ run.job \in confused')
                 \/ platform = "51job" /\ att'.out \in {"unavailable", "unresolved", "indeterminate"}
    PROVE  Honest
BY WorkingWhere, Places DEF Honest, Claims

LEMMA EntryBossStep == ASSUME SenderInv, EntryBoss PROVE SenderInv'
<1>1. /\ pc = "entryB" /\ pc \in Working \ Opening /\ run.job \in Jobs /\ page.job = run.job
      /\ att \in Attempts /\ att.out = "none"
  BY WorkingWhere DEF EntryBoss, Working, BossAt, Opening
<1>2. UNCHANGED <<platform, gone, need, log, round, run, received, drafts, confused>>
  BY DEF EntryBoss, RestBoss, Kept
<1>3. contacted \subseteq contacted' /\ contacted' \subseteq Jobs
  BY <1>1 DEF EntryBoss, EntryOpens, Job, SenderInv, TypeOK
<1>4. Onward
  BY <1>2, <1>3 DEF Onward
<1>5. /\ page' \in PageTypes /\ page'.job = run.job /\ PageTrue'
      /\ trouble' \in 0..MaxTrouble
      /\ att' \in Attempts /\ att'.tries = att.tries
      /\ Claims(att') = Claims(att)
      /\ \/ pc' = "append" /\ att'.out = "failed"
         \/ pc' = "editorB" /\ att'.out = "none"
  <2>1. trouble' \in 0..MaxTrouble
    <3>1. Calm \/ Trouble
      BY DEF EntryBoss, EntryOpens
    <3>. QED
      BY <3>1, TroubleBound DEF SenderInv
  <2>2. CASE EntryOpens
    <3>1. page' \in PageTypes /\ page'.job = run.job /\ PageTrue'
      BY <1>1, <1>4, <2>2, OwnPage DEF EntryOpens, Job, SenderInv
    <3>2. PICK d \in BOOLEAN : att' = [att EXCEPT !.defaulted = d]
      BY <2>2 DEF EntryOpens
    <3>. QED
      BY <1>1, <2>1, <2>2, <3>1, <3>2 DEF EntryOpens, Goto, Attempts, Claims
  <2>3. CASE UNCHANGED page /\ UNCHANGED att /\ Goto("editorB")
    BY <1>1, <1>4, <2>1, <2>3, PageStays DEF Goto, SenderInv, TypeOK
  <2>4. CASE UNCHANGED page /\ Fails(att)
    BY <1>1, <1>4, <2>1, <2>4, PageStays DEF Fails, EndsWith, SenderInv, TypeOK, Attempts, Outcomes, Claims
  <2>. QED
    BY <2>2, <2>3, <2>4 DEF EntryBoss
<1>6. Honest
  BY <1>1, <1>5, ClaimsNoMore DEF Working, BossAt
<1>7. TypeOK'
  BY <1>2, <1>3, <1>5 DEF SenderInv, TypeOK
<1>8. Leads /\ Counted'
  BY <1>1, <1>5 DEF SenderInv, Leads, Counted, Working, BossAt, LiepinAt, ZhilianAt, Clicking51
<1>9. Looked'
  BY <1>2, <1>5 DEF Looked, SenderInv, Has
<1>. QED
  BY <1>2, <1>4, <1>5, <1>6, <1>7, <1>8, <1>9, AttemptGoesOn

LEMMA EditorBossStep == ASSUME SenderInv, EditorBoss PROVE SenderInv'
<1>1. /\ pc = "editorB" /\ pc \in Working \ Opening /\ run.job \in Jobs /\ page.job = run.job
      /\ att \in Attempts /\ att.out = "none"
  BY WorkingWhere DEF EditorBoss, Working, BossAt, Opening
<1>2. UNCHANGED <<platform, gone, need, log, round, run, received, contacted, drafts, page, confused>>
  BY DEF EditorBoss, RestBoss, Kept
<1>3. Onward
  BY <1>2 DEF Onward
<1>4. PageTrue' /\ trouble' \in 0..MaxTrouble
  <2>1. Calm \/ Trouble
    BY DEF EditorBoss
  <2>. QED
    BY <1>2, <1>3, <2>1, PageStays, TroubleBound DEF SenderInv
<1>5. /\ att' \in Attempts /\ att'.tries = att.tries /\ Claims(att') = Claims(att)
      /\ att'.out = "none" /\ pc' \in {"preB", "draftB"}
  <2>1. att' = att \/ att' = [att EXCEPT !.ready = (need = "none")]
    BY DEF EditorBoss
  <2>. QED
    BY <1>1, <2>1 DEF EditorBoss, Goto, Attempts, Claims
<1>6. Honest
  BY <1>1, <1>5, ClaimsNoMore DEF Working, BossAt
<1>7. TypeOK'
  BY <1>2, <1>4, <1>5 DEF SenderInv, TypeOK
<1>8. Leads /\ Counted'
  BY <1>1, <1>5 DEF SenderInv, Leads, Counted, Working, BossAt, LiepinAt, ZhilianAt, Clicking51
<1>9. Looked'
  BY <1>2, <1>5 DEF Looked, SenderInv, Has
<1>. QED
  BY <1>1, <1>2, <1>3, <1>4, <1>6, <1>7, <1>8, <1>9, AttemptGoesOn

\* A greeting that the page shows is the delivery of Boss.
LEMMA GreetedIsDelivered ==
    ASSUME SenderInv, pc \in BossAt \ Opening, Greeted, UNCHANGED <<platform, run, received>>
    PROVE  Got(run.job)'
<1>1. received[run.job]["greeting"] > 0 /\ platform = "boss"
  BY ShownHasCome, Places DEF Greeted, SenderInv, Placed, Parts
<1>. QED
  BY <1>1 DEF Got, Wanted, Has

LEMMA PreverifyBossStep == ASSUME SenderInv, PreverifyBoss PROVE SenderInv'
<1>1. /\ pc = "preB" /\ pc \in Working \ Opening /\ run.job \in Jobs /\ page.job = run.job
      /\ att \in Attempts /\ att.out = "none" /\ platform = "boss"
  BY WorkingWhere DEF PreverifyBoss, Working, BossAt, Opening, SenderInv, Placed
<1>2. UNCHANGED <<platform, gone, need, log, round, run, received, contacted, drafts, page, confused,
                  trouble>>
  BY DEF PreverifyBoss, RestBoss, Kept
<1>3. Onward
  BY <1>2 DEF Onward
<1>4. PageTrue'
  BY <1>2, <1>3, PageStays DEF SenderInv
<1>. DEFINE a == Read("greeting")
<1>5. /\ a \in Attempts /\ a = [att EXCEPT !.blind = a.blind]
      /\ received[run.job]["greeting"] > 0 /\ ~Greeted => a.blind
  <2>1. "taken" \notin page.shows
    BY <1>1, ShownHasCome
  <2>. QED
    BY <1>1, <2>1, ReadIs DEF Greeted, Parts
<1>6. \/ Greeted /\ EndsWith(a, "delivered", FALSE)
      \/ ~Greeted /\ ~att.ready /\ Fails(a)
      \/ ~Greeted /\ att.ready /\ att' = a /\ Goto("fillB")
  BY DEF PreverifyBoss
<1>. HIDE DEF a
<1>7. a.tries = att.tries /\ a.out = "none" /\ Claims(a) = Claims(att)
  BY <1>1, <1>5 DEF Attempts, Claims
<1>8. /\ att' \in Attempts /\ Claims(att') = Claims(att)
      /\ \/ pc' = "append" /\ att'.out = "delivered" /\ Greeted
         \/ pc' = "append" /\ att'.out = "failed"
         \/ pc' = "fillB" /\ att' = a /\ ~Greeted
  BY <1>5, <1>6, <1>7, Ending DEF Fails, Goto, Outcomes
<1>9. Honest
  BY <1>1, <1>2, <1>7, <1>8, ClaimsNoMore, GreetedIsDelivered DEF Working, BossAt
<1>10. TypeOK'
  BY <1>2, <1>8 DEF SenderInv, TypeOK
<1>11. Leads /\ Counted'
  BY <1>1, <1>7, <1>8 DEF SenderInv, Leads, Counted, Working, BossAt, LiepinAt, ZhilianAt, Clicking51
<1>12. Looked'
  BY <1>2, <1>5, <1>8 DEF Looked, SenderInv, Has
<1>. QED
  BY <1>1, <1>2, <1>3, <1>4, <1>9, <1>10, <1>11, <1>12, AttemptGoesOn

LEMMA FillBossStep == ASSUME SenderInv, FillBoss PROVE SenderInv'
<1>1. /\ pc = "fillB" /\ pc \in Working \ Opening /\ run.job \in Jobs /\ page.job = run.job
      /\ att \in Attempts /\ att.out = "none" /\ platform = "boss"
  BY WorkingWhere DEF FillBoss, Working, BossAt, Opening, SenderInv, Placed
<1>2. UNCHANGED <<platform, gone, need, log, round, run, received, contacted, page, confused>>
  BY DEF FillBoss, RestBoss, Kept
<1>3. Onward
  BY <1>2 DEF Onward
<1>4. PageTrue' /\ trouble' \in 0..MaxTrouble
  <2>1. Calm \/ Trouble
    BY DEF FillBoss
  <2>. QED
    BY <1>2, <1>3, <2>1, PageStays, TroubleBound DEF SenderInv
<1>5. \/ drafts' = drafts /\ Fails(att)
      \/ /\ drafts' = [drafts EXCEPT ![run.job] = IF att.blind THEN "misled" ELSE "fresh"]
         /\ att' = att /\ pc' = "sendB"
  BY DEF FillBoss, Job, Goto
<1>6. /\ att' \in Attempts /\ Claims(att') = Claims(att)
      /\ \/ pc' = "append" /\ att'.out = "failed"
         \/ pc' = "sendB" /\ att' = att
  BY <1>1, <1>5, Ending DEF Fails, Outcomes
<1>7. Honest
  BY <1>1, <1>6, ClaimsNoMore DEF Working, BossAt
<1>8. TypeOK'
  BY <1>1, <1>2, <1>4, <1>5, <1>6 DEF SenderInv, TypeOK
<1>9. Leads /\ Counted'
  BY <1>1, <1>6 DEF SenderInv, Leads, Counted, Working, BossAt, LiepinAt, ZhilianAt, Clicking51
<1>10. received[run.job]["greeting"] > 0 => att.blind
  BY <1>1 DEF SenderInv, Looked, Has
<1>11. \A j \in Jobs : drafts'[j] = "fresh" => ~(received[j]["greeting"] > 0)
  BY <1>1, <1>5, <1>10 DEF SenderInv, TypeOK, Looked, Has
<1>12. Looked'
  BY <1>1, <1>2, <1>6, <1>10, <1>11 DEF Looked, Has
<1>. QED
  BY <1>1, <1>2, <1>3, <1>4, <1>7, <1>8, <1>9, <1>12, AttemptGoesOn

\* A draft that goes is the greeting of its job; one that stays is as fresh as it was.
LEMMA SendsDraft ==
    ASSUME SenderInv, pc \in BossAt \ Opening, Sends, UNCHANGED <<Kept, contacted, confused>>
    PROVE  /\ Onward
           /\ received' \in [Jobs -> [Parts -> 0..2]]
           /\ page' \in PageTypes /\ page'.job = run.job /\ PageTrue'
           /\ trouble' \in 0..MaxTrouble
           /\ drafts' \in [Jobs -> {"none", "fresh", "misled"}]
           /\ \A j \in Jobs : drafts'[j] = "fresh" => ~(received'[j]["greeting"] > 0)
<1>1. run.job \in Jobs /\ page.job = run.job /\ "greeting" \in Parts /\ platform = "boss"
  BY WorkingWhere, Places DEF SenderInv, Placed, Parts
<1>2. /\ Onward
      /\ received' \in [Jobs -> [Parts -> 0..2]]
      /\ \A k \in Jobs, p \in Parts : k # run.job \/ p # "greeting" => received'[k][p] = received[k][p]
      /\ page' \in PageTypes /\ page'.job = run.job /\ PageTrue'
      /\ trouble' \in 0..MaxTrouble
  BY <1>1, HandedPart DEF Sends, Job, SenderInv
<1>3. drafts' = IF received' = received THEN drafts ELSE [drafts EXCEPT ![run.job] = "none"]
  BY DEF Sends, Unfilled, Job
<1>4. drafts \in [Jobs -> {"none", "fresh", "misled"}]
  BY DEF SenderInv, TypeOK
<1>5. \A j \in Jobs : drafts'[j] = "fresh" => ~(received'[j]["greeting"] > 0)
  BY <1>1, <1>2, <1>3, <1>4 DEF SenderInv, Looked, Has
<1>. QED
  BY <1>1, <1>2, <1>3, <1>4, <1>5

LEMMA SendBossStep == ASSUME SenderInv, SendBoss PROVE SenderInv'
<1>1. /\ pc = "sendB" /\ pc \in Working \ Opening /\ pc \in BossAt \ Opening
      /\ run.job \in Jobs /\ page.job = run.job
      /\ att \in Attempts /\ att.out = "none" /\ platform = "boss"
  BY WorkingWhere DEF SendBoss, Working, BossAt, Opening, SenderInv, Placed
<1>2. UNCHANGED <<platform, gone, need, log, round, run, contacted, confused>>
  BY DEF SendBoss, RestBoss, Kept
<1>3. /\ Onward
      /\ received' \in [Jobs -> [Parts -> 0..2]]
      /\ page' \in PageTypes /\ page'.job = run.job /\ PageTrue'
      /\ trouble' \in 0..MaxTrouble
      /\ drafts' \in [Jobs -> {"none", "fresh", "misled"}]
      /\ \A j \in Jobs : drafts'[j] = "fresh" => ~(received'[j]["greeting"] > 0)
  <2>1. CASE Sends
    BY <1>1, <1>2, <2>1, SendsDraft DEF Kept
  <2>2. CASE Calm /\ UNCHANGED <<received, drafts, page>>
    <3>1. Onward
      BY <1>2, <2>2 DEF Onward
    <3>. QED
      BY <1>1, <2>2, <3>1, PageStays, TroubleBound DEF SenderInv, TypeOK, Looked, Has
  <2>3. CASE Trouble /\ received' = More(Job, "greeting") /\ drafts' = Unfilled /\ UNCHANGED page
    <3>. DEFINE j == run.job
    <3>1. j \in Jobs /\ received' = More(j, "greeting") /\ drafts' = [drafts EXCEPT ![j] = "none"]
      BY <1>1, <2>3 DEF Job, Unfilled
    <3>2. /\ received \in [Jobs -> [Parts -> 0..2]] /\ "greeting" \in Parts
          /\ drafts \in [Jobs -> {"none", "fresh", "misled"}]
      BY DEF SenderInv, TypeOK, Parts
    <3>. HIDE DEF j
    <3>3. /\ received' \in [Jobs -> [Parts -> 0..2]]
          /\ \A k \in Jobs, p \in Parts : received[k][p] > 0 => received'[k][p] > 0
          /\ \A k \in Jobs, p \in Parts : k # j \/ p # "greeting" => received'[k][p] = received[k][p]
      BY <3>1, <3>2, MoreOfOne
    <3>4. Onward
      BY <1>2, <3>3 DEF Onward
    <3>5. \A k \in Jobs : drafts'[k] = "fresh" => ~(received'[k]["greeting"] > 0)
      BY <3>1, <3>2, <3>3 DEF SenderInv, Looked, Has
    <3>. QED
      BY <1>1, <2>3, <3>1, <3>2, <3>3, <3>4, <3>5, PageStays, TroubleBound DEF SenderInv, TypeOK
  <2>. QED
    BY <2>1, <2>2, <2>3 DEF SendBoss
<1>4. /\ att' \in Attempts /\ Claims(att') = Claims(att)
      /\ \/ pc' = "append" /\ att'.out = "failed"
         \/ pc' = "verifyB" /\ att' = att
  BY <1>1, Ending DEF SendBoss, Fails, Goto, Outcomes
<1>5. Honest
  BY <1>1, <1>4, ClaimsNoMore DEF Working, BossAt
<1>6. TypeOK'
  BY <1>2, <1>3, <1>4 DEF SenderInv, TypeOK
<1>7. Leads /\ Counted'
  BY <1>1, <1>4 DEF SenderInv, Leads, Counted, Working, BossAt, LiepinAt, ZhilianAt, Clicking51
<1>8. Looked'
  BY <1>3, <1>4 DEF Looked, Has
<1>. QED
  BY <1>1, <1>2, <1>3, <1>5, <1>6, <1>7, <1>8, AttemptGoesOn

LEMMA VerifyBossStep == ASSUME SenderInv, VerifyBoss PROVE SenderInv'
<1>1. /\ pc = "verifyB" /\ pc \in Working \ Opening /\ run.job \in Jobs /\ page.job = run.job
      /\ att \in Attempts /\ att.out = "none" /\ platform = "boss"
  BY WorkingWhere DEF VerifyBoss, Working, BossAt, Opening, SenderInv, Placed
<1>2. UNCHANGED <<platform, gone, need, log, round, run, received, contacted, drafts, page, confused,
                  trouble>>
  BY DEF VerifyBoss, RestBoss, Kept
<1>3. Onward
  BY <1>2 DEF Onward
<1>4. PageTrue'
  BY <1>2, <1>3, PageStays DEF SenderInv
<1>. DEFINE a == Read("greeting")
<1>5. /\ a \in Attempts /\ a = [att EXCEPT !.blind = a.blind]
      /\ received[run.job]["greeting"] > 0 /\ ~Greeted => a.blind
  <2>1. "taken" \notin page.shows
    BY <1>1, ShownHasCome
  <2>. QED
    BY <1>1, <2>1, ReadIs DEF Greeted, Parts
<1>6. \/ Greeted /\ EndsWith(a, "delivered", FALSE)
      \/ ~Greeted /\ Fails(a)
      \/ ~Greeted /\ att' = [a EXCEPT !.tries = 1] /\ pc' = "draftB"
      \/ ~Greeted /\ att.tries = 1 /\ att' = [a EXCEPT !.second = TRUE] /\ pc' = "fillB"
  BY DEF VerifyBoss, Goto
<1>. HIDE DEF a
<1>7. a.out = "none" /\ Claims(a) = Claims(att)
  BY <1>1, <1>5 DEF Attempts, Claims
<1>8. /\ att' \in Attempts /\ Claims(att') = Claims(att)
      /\ \/ pc' = "append" /\ att'.out = "delivered" /\ Greeted
         \/ pc' = "append" /\ att'.out = "failed"
         \/ /\ pc' \in {"draftB", "fillB"} /\ att'.out = "none" /\ att'.tries = 1
            /\ att'.blind = a.blind /\ ~Greeted
  <2>1. CASE Greeted /\ EndsWith(a, "delivered", FALSE)
    BY <1>5, <1>7, <2>1, Ending DEF Outcomes
  <2>2. CASE Fails(a)
    BY <1>5, <1>7, <2>2, Ending DEF Outcomes, Fails
  <2>3. CASE ~Greeted /\ att' = [a EXCEPT !.tries = 1] /\ pc' = "draftB"
    BY <1>5, <1>7, <2>3 DEF Attempts, Claims
  <2>4. CASE ~Greeted /\ att.tries = 1 /\ att' = [a EXCEPT !.second = TRUE] /\ pc' = "fillB"
    <3>1. a.tries = 1
      BY <1>1, <1>5, <2>4 DEF Attempts
    <3>. QED
      BY <1>5, <1>7, <2>4, <3>1 DEF Attempts, Claims
  <2>. QED
    BY <1>6, <2>1, <2>2, <2>3, <2>4
<1>9. Honest
  BY <1>1, <1>2, <1>8, ClaimsNoMore, GreetedIsDelivered DEF Working, BossAt
<1>10. TypeOK'
  BY <1>2, <1>8 DEF SenderInv, TypeOK
<1>11. Leads /\ Counted'
  BY <1>1, <1>8 DEF SenderInv, Leads, Counted, Working, BossAt, LiepinAt, ZhilianAt, Clicking51
<1>12. Looked'
  BY <1>2, <1>5, <1>8 DEF Looked, SenderInv, Has
<1>. QED
  BY <1>1, <1>2, <1>3, <1>4, <1>9, <1>10, <1>11, <1>12, AttemptGoesOn

LEMMA DraftBossStep == ASSUME SenderInv, DraftBoss PROVE SenderInv'
<1>1. /\ pc = "draftB" /\ pc \in Working \ Opening /\ pc \in BossAt \ Opening
      /\ run.job \in Jobs /\ page.job = run.job
      /\ att \in Attempts /\ att.out = "none" /\ platform = "boss"
  BY WorkingWhere DEF DraftBoss, Working, BossAt, Opening, SenderInv, Placed
<1>2. UNCHANGED <<platform, gone, need, log, round, run, contacted, confused>>
  BY DEF DraftBoss, RestBoss, Kept
<1>3. /\ Onward
      /\ received' \in [Jobs -> [Parts -> 0..2]]
      /\ page' \in PageTypes /\ page'.job = run.job /\ PageTrue'
      /\ trouble' \in 0..MaxTrouble
      /\ drafts' \in [Jobs -> {"none", "fresh", "misled"}]
      /\ \A j \in Jobs : drafts'[j] = "fresh" => ~(received'[j]["greeting"] > 0)
  <2>1. CASE Sends
    BY <1>1, <1>2, <2>1, SendsDraft DEF Kept
  <2>2. CASE Calm /\ UNCHANGED <<received, drafts, page>>
    <3>1. Onward
      BY <1>2, <2>2 DEF Onward
    <3>. QED
      BY <1>1, <2>2, <3>1, PageStays, TroubleBound DEF SenderInv, TypeOK, Looked, Has
  <2>. QED
    BY <2>1, <2>2 DEF DraftBoss
<1>4. /\ att' \in Attempts /\ Claims(att') = Claims(att)
      /\ \/ pc' = "append" /\ att'.out = "failed"
         \/ pc' = "verifyB" /\ att'.out = "none" /\ att'.tries = att.tries
  <2>1. \/ att' = att /\ pc' = "verifyB"
        \/ att' = [att EXCEPT !.second = TRUE] /\ pc' = "verifyB"
        \/ Fails(att)
    BY DEF DraftBoss, Afterwards, Goto
  <2>2. CASE Fails(att)
    BY <1>1, <2>2, Ending DEF Fails, Outcomes
  <2>. QED
    BY <1>1, <2>1, <2>2 DEF Attempts, Claims
<1>5. Honest
  BY <1>1, <1>4, ClaimsNoMore DEF Working, BossAt
<1>6. TypeOK'
  BY <1>2, <1>3, <1>4 DEF SenderInv, TypeOK
<1>7. Leads /\ Counted'
  BY <1>1, <1>4 DEF SenderInv, Leads, Counted, Working, BossAt, LiepinAt, ZhilianAt, Clicking51
<1>8. Looked'
  BY <1>3, <1>4 DEF Looked, Has
<1>. QED
  BY <1>1, <1>2, <1>3, <1>5, <1>6, <1>7, <1>8, AttemptGoesOn

LEMMA BossSteps == ASSUME SenderInv, BossStep PROVE SenderInv'
BY OpenBossStep, EntryBossStep, EditorBossStep, PreverifyBossStep, FillBossStep, SendBossStep,
   VerifyBossStep, DraftBossStep DEF BossStep

-----------------------------------------------------------------------------
\* Liepin.
LEMMA LiepinWhere ==
    ASSUME SenderInv, pc \in LiepinAt \ Opening
    PROVE  /\ pc \in Working \ Opening /\ run.job \in Jobs /\ page.job = run.job
           /\ att \in Attempts /\ att.out = "none" /\ platform = "liepin"
           /\ page \in PageTypes /\ "taken" \notin page.shows
           /\ \A m \in Parts : m \in page.shows => received[run.job][m] > 0
<1>1. pc \in Working \ Opening /\ platform = "liepin"
  BY Places DEF SenderInv, Placed
<1>. QED
  BY <1>1, WorkingWhere, ShownHasCome DEF SenderInv, TypeOK

\* A step that claims what its job has got is honest when the end of the attempt is.
LEMMA ClaimsSeen ==
    ASSUME SenderInv, pc \in Working,
           att'.clicked = att.clicked, att'.recon = att.recon,
           att'.resumed => att.resumed \/ received'[run.job]["resume"] > 0,
           att'.greeted => att.greeted \/ received'[run.job]["greeting"] > 0,
           \/ pc' \in Working /\ att'.out = "none"
           \/ /\ pc' = "append"
              /\ \/ att'.out = "failed"
                 \/ att'.out = "delivered" /\ Got(run.job)'
    PROVE  Honest
BY WorkingWhere, Places DEF Honest

LEMMA OpenLiepinStep == ASSUME SenderInv, OpenLiepin PROVE SenderInv'
<1>1. pc = "openL" /\ pc \in Working /\ att \in Attempts /\ att.out = "none" /\ run.job \in Jobs
  BY WorkingWhere DEF OpenLiepin, Working, LiepinAt
<1>2. UNCHANGED <<platform, gone, need, log, round, run, received, contacted, drafts, confused>>
  BY DEF OpenLiepin, RestLiepin, Kept
<1>3. Onward
  BY <1>2 DEF Onward
<1>4. /\ page' \in PageTypes /\ PageTrue' /\ trouble' \in 0..MaxTrouble
      /\ att' \in Attempts /\ Claims(att') = Claims(att)
      /\ \/ pc' = "append" /\ att'.out = "failed"
         \/ pc' = "lookL" /\ page'.job = run.job /\ att' = att
  <2>1. ASSUME NEW at \in {"detail", "chat"}, Load(Job, at), Goto("lookL"), att' = att
        PROVE  /\ page' \in PageTypes /\ page'.job = run.job /\ PageTrue' /\ trouble' \in 0..MaxTrouble
               /\ pc' = "lookL"
    BY <1>1, <1>3, <2>1, LoadedPage DEF Job, Goto, SenderInv
  <2>2. CASE Trouble /\ UNCHANGED page /\ Fails(att)
    BY <1>1, <1>3, <2>2, PageStays, TroubleBound, Ending DEF Fails, SenderInv, TypeOK, Outcomes
  <2>. QED
    BY <1>1, <2>1, <2>2 DEF OpenLiepin, Claims
<1>5. Honest
  BY <1>1, <1>4, ClaimsNoMore DEF Working, LiepinAt
<1>6. TypeOK'
  BY <1>2, <1>4 DEF SenderInv, TypeOK
<1>7. Leads /\ Counted'
  BY <1>1, <1>4 DEF SenderInv, Leads, Counted, Working, BossAt, LiepinAt, ZhilianAt, Clicking51
<1>8. Looked'
  BY <1>2, <1>4 DEF Looked, SenderInv, Has
<1>. QED
  BY <1>1, <1>2, <1>3, <1>4, <1>5, <1>6, <1>7, <1>8, AttemptGoesOn, Places

LEMMA InspectLiepinStep == ASSUME SenderInv, InspectLiepin PROVE SenderInv'
<1>1. /\ pc = "lookL" /\ pc \in LiepinAt \ Opening
      /\ pc \in Working /\ page.job = run.job /\ att \in Attempts /\ att.out = "none"
  BY LiepinWhere DEF InspectLiepin, LiepinAt, Opening
<1>2. UNCHANGED <<platform, gone, need, log, round, run, received, contacted, drafts, confused, page, trouble>>
  BY DEF InspectLiepin, RestLiepin, Kept, Untouched
<1>3. Onward
  BY <1>2 DEF Onward
<1>4. PageTrue'
  BY <1>2, <1>3, PageStays DEF SenderInv
<1>5. /\ att' \in Attempts /\ Claims(att') = Claims(att)
      /\ \/ pc' = "append" /\ att'.out = "failed"
         \/ pc' \in {"chatL", "entryL"} /\ att' = att
  <2>1. CASE Asks(att)
    BY <1>1, <2>1, Ending DEF Asks, Outcomes
  <2>. QED
    BY <1>1, <2>1 DEF InspectLiepin, Goto
<1>6. Honest
  BY <1>1, <1>5, ClaimsNoMore DEF Working, LiepinAt
<1>7. TypeOK'
  BY <1>2, <1>5 DEF SenderInv, TypeOK
<1>8. Leads /\ Counted'
  BY <1>1, <1>5 DEF SenderInv, Leads, Counted, Working, BossAt, LiepinAt, ZhilianAt, Clicking51
<1>9. Looked'
  BY <1>2, <1>5 DEF Looked, SenderInv, Has
<1>. QED
  BY <1>1, <1>2, <1>3, <1>4, <1>6, <1>7, <1>8, <1>9, AttemptGoesOn, Places

LEMMA EntryLiepinStep == ASSUME SenderInv, EntryLiepin PROVE SenderInv'
<1>1. /\ pc = "entryL" /\ pc \in LiepinAt \ Opening /\ run.job \in Jobs
      /\ pc \in Working /\ page.job = run.job /\ att \in Attempts /\ att.out = "none"
  BY LiepinWhere DEF EntryLiepin, LiepinAt, Opening
<1>2. UNCHANGED <<platform, gone, need, log, round, run, received, drafts, confused>>
  BY DEF EntryLiepin, RestLiepin, Kept
<1>3. contacted \subseteq contacted' /\ contacted' \subseteq Jobs
  BY <1>1 DEF EntryLiepin, Job, SenderInv, TypeOK
<1>4. Onward
  BY <1>2, <1>3 DEF Onward
<1>5. trouble' \in 0..MaxTrouble
  <2>1. Calm \/ Trouble
    BY DEF EntryLiepin
  <2>. QED
    BY <2>1, TroubleBound DEF SenderInv
<1>6. /\ page' \in PageTypes /\ page'.job = run.job /\ PageTrue'
      /\ att' \in Attempts /\ Claims(att') = Claims(att)
      /\ \/ pc' = "append" /\ att'.out = "failed"
         \/ pc' \in {"chatL", "entryL"} /\ att'.out = "none" /\ att'.tries = att.tries
  <2>1. CASE UNCHANGED page /\ Fails(att)
    BY <1>1, <1>4, <2>1, PageStays, Ending DEF Fails, SenderInv, TypeOK, Outcomes
  <2>2. CASE page' = PageOf(Job, "chat") /\ Goto("chatL") /\ UNCHANGED att
    BY <1>1, <1>4, <2>2, OwnPage DEF Job, Goto, SenderInv
  <2>3. CASE /\ UNCHANGED page
             /\ Goto(IF att.second THEN "chatL" ELSE "entryL") /\ att' = [att EXCEPT !.second = TRUE]
    BY <1>1, <1>4, <2>3, PageStays DEF Goto, Attempts, Claims, SenderInv, TypeOK
  <2>. QED
    BY <2>1, <2>2, <2>3 DEF EntryLiepin
<1>7. Honest
  BY <1>1, <1>6, ClaimsNoMore DEF Working, LiepinAt
<1>8. TypeOK'
  BY <1>2, <1>3, <1>5, <1>6 DEF SenderInv, TypeOK
<1>9. Leads /\ Counted'
  BY <1>1, <1>6 DEF SenderInv, Leads, Counted, Working, BossAt, LiepinAt, ZhilianAt, Clicking51
<1>10. Looked'
  BY <1>2, <1>6 DEF Looked, SenderInv, Has
<1>. QED
  BY <1>1, <1>2, <1>4, <1>6, <1>7, <1>8, <1>9, <1>10, AttemptGoesOn, Places

LEMMA ChatLiepinStep == ASSUME SenderInv, ChatLiepin PROVE SenderInv'
<1>1. /\ pc = "chatL" /\ pc \in LiepinAt \ Opening /\ run.job \in Jobs
      /\ pc \in Working /\ page.job = run.job /\ att \in Attempts /\ att.out = "none"
      /\ platform = "liepin" /\ "taken" \notin page.shows
      /\ \A m \in Parts : m \in page.shows => received[run.job][m] > 0
  BY LiepinWhere DEF ChatLiepin, LiepinAt, Opening
<1>2. UNCHANGED <<platform, gone, need, log, round, run, received, contacted, drafts, confused, page, trouble>>
  BY DEF ChatLiepin, RestLiepin, Kept, Untouched
<1>3. Onward
  BY <1>2 DEF Onward
<1>4. PageTrue'
  BY <1>2, <1>3, PageStays DEF SenderInv
<1>5. log[run.job].resume \in BOOLEAN /\ (log[run.job].resume => received[run.job]["resume"] > 0)
  <2>1. confused = {}
    BY <1>1 DEF SenderInv, Confined
  <2>. QED
    BY <1>1, <2>1 DEF SenderInv, LogTrue, Has, TypeOK, Entries
<1>. DEFINE r == log[Job].resume \/ Shown("resume")
            g == Shown("greeting")
            b == att.blind \/ Hidden("resume") \/ Hidden("greeting")
            a == [att EXCEPT !.resumed = r, !.greeted = g, !.blind = b]
<1>6. r \in BOOLEAN /\ g \in BOOLEAN /\ b \in BOOLEAN
  BY <1>5 DEF Job, Shown
<1>7. /\ r => received[run.job]["resume"] > 0
      /\ g => received[run.job]["greeting"] > 0
      /\ received[run.job]["resume"] > 0 => r \/ b
      /\ received[run.job]["greeting"] > 0 => g \/ b
  BY <1>1, <1>5 DEF Job, Shown, Hidden, Has, Parts
<1>8. \/ Asks(a) \/ Fails(a)
      \/ att' = a /\ Goto(IF a.resumed THEN "greetL" ELSE "resumeL")
  BY DEF ChatLiepin
<1>. HIDE DEF r, g, b
<1>9. /\ a \in Attempts /\ a.resumed = r /\ a.greeted = g /\ a.blind = b /\ a.out = "none"
      /\ a.clicked = att.clicked /\ a.recon = att.recon /\ a.tries = att.tries
  BY <1>1, <1>6 DEF Attempts
<1>. HIDE DEF a
<1>10. /\ att' \in Attempts /\ Claims(att') = Claims(a)
       /\ \/ pc' = "append" /\ att'.out = "failed"
          \/ att' = a /\ pc' = (IF a.resumed THEN "greetL" ELSE "resumeL")
  <2>1. CASE Asks(a) \/ Fails(a)
    BY <1>9, <2>1, Ending DEF Asks, Fails, Outcomes
  <2>. QED
    BY <1>8, <1>9, <2>1 DEF Goto
<1>11. Honest
  <2>1. /\ att'.clicked = att.clicked /\ att'.recon = att.recon
        /\ att'.resumed => received'[run.job]["resume"] > 0
        /\ att'.greeted => received'[run.job]["greeting"] > 0
    BY <1>2, <1>7, <1>9, <1>10 DEF Claims
  <2>. QED
    BY <1>1, <1>9, <1>10, <2>1, ClaimsSeen DEF Working, LiepinAt
<1>12. TypeOK'
  BY <1>2, <1>10 DEF SenderInv, TypeOK
<1>13. Leads /\ Counted'
  BY <1>1, <1>9, <1>10 DEF SenderInv, Leads, Counted, Working, BossAt, LiepinAt, ZhilianAt, Clicking51
<1>14. Looked'
  BY <1>2, <1>7, <1>9, <1>10 DEF Looked, SenderInv, Has
<1>. QED
  BY <1>1, <1>2, <1>3, <1>4, <1>11, <1>12, <1>13, <1>14, AttemptGoesOn, Places

LEMMA ResumeLiepinStep == ASSUME SenderInv, ResumeLiepin PROVE SenderInv'
<1>1. /\ pc = "resumeL" /\ pc \in LiepinAt \ Opening /\ run.job \in Jobs
      /\ pc \in Working /\ page.job = run.job /\ att \in Attempts /\ att.out = "none"
      /\ platform = "liepin" /\ page \in PageTypes
  BY LiepinWhere DEF ResumeLiepin, LiepinAt, Opening
<1>2. UNCHANGED <<platform, gone, need, log, round, run, contacted, drafts, confused>>
  BY DEF ResumeLiepin, RestLiepin, Kept
<1>3. /\ Onward
      /\ received' \in [Jobs -> [Parts -> 0..2]]
      /\ \A k \in Jobs, p \in Parts : k # run.job \/ p # "resume" => received'[k][p] = received[k][p]
      /\ page' \in PageTypes /\ page'.job = run.job /\ PageTrue'
      /\ trouble' \in 0..MaxTrouble
  <2>1. CASE Handed(Job, "resume")
    BY <1>1, <1>2, <2>1, HandedPart DEF Job, Kept, Parts, SenderInv
  <2>2. CASE UNCHANGED <<received, page>> /\ Trouble
    <3>1. Onward
      BY <1>2, <2>2 DEF Onward
    <3>. QED
      BY <1>1, <2>2, <3>1, PageStays, TroubleBound DEF SenderInv, TypeOK
  <2>3. CASE page' = [page EXCEPT !.dialog = TRUE] /\ Calm /\ UNCHANGED received
    <3>1. Onward
      BY <1>2, <2>3 DEF Onward
    <3>2. page' \in PageTypes /\ page'.job = page.job /\ page'.shows = page.shows
      BY <1>1, <2>3 DEF PageTypes
    <3>3. PageTrue'
      BY <1>1, <1>2, <2>3, <3>2 DEF SenderInv, PageTrue
    <3>. QED
      BY <1>1, <2>3, <3>1, <3>2, <3>3, TroubleBound DEF SenderInv, TypeOK
  <2>. QED
    BY <2>1, <2>2, <2>3 DEF ResumeLiepin
<1>4. att.tries \in 0..3
  BY <1>1 DEF SenderInv, Counted, Attempts
<1>5. /\ att' \in Attempts /\ Claims(att') = Claims(att) /\ att'.out = "none"
      /\ att'.blind = att.blind
      /\ pc' = "greetL" \/ (pc' = "pollL" /\ att'.tries <= 4)
  BY <1>1, <1>4 DEF ResumeLiepin, Goto, Again, Attempts, Claims
<1>6. Honest
  BY <1>1, <1>5, ClaimsNoMore DEF Working, LiepinAt
<1>7. TypeOK'
  BY <1>2, <1>3, <1>5 DEF SenderInv, TypeOK
<1>8. Leads /\ Counted'
  BY <1>1, <1>5 DEF Leads, Counted, BossAt, LiepinAt, ZhilianAt, Clicking51
<1>9. Looked'
  <2>1. \A j \in Jobs : drafts'[j] = "fresh" => ~(received'[j]["greeting"] > 0)
    BY <1>2, <1>3 DEF SenderInv, Looked, Has, Parts
  <2>2. ~att'.greeted /\ received'[run.job]["greeting"] > 0 => att'.blind
    BY <1>1, <1>3, <1>5 DEF SenderInv, Looked, Has, Parts, Claims
  <2>. QED
    BY <1>2, <1>5, <2>1, <2>2 DEF Looked, Has
<1>. QED
  BY <1>1, <1>2, <1>3, <1>6, <1>7, <1>8, <1>9, AttemptGoesOn, Places

\* A look after the resume: where it is tried again it was not there to see.
LEMMA PollOn ==
    ASSUME SenderInv, pc \in {"pollL", "confirmedL"}, NEW next, NEW done, Poll(next, done),
           next.pc \in {"confirmL", "resumeL"}, next.tries \in 0..4, ~done => next.tries <= 3,
           UNCHANGED <<RestLiepin, contacted>>, Untouched
    PROVE  SenderInv'
<1>1. /\ pc \in LiepinAt \ Opening /\ run.job \in Jobs
      /\ pc \in Working /\ page.job = run.job /\ att \in Attempts /\ att.out = "none"
      /\ platform = "liepin" /\ "taken" \notin page.shows
      /\ \A m \in Parts : m \in page.shows => received[run.job][m] > 0
  <2>1. pc \in LiepinAt \ Opening
    BY DEF LiepinAt, Opening
  <2>. QED
    BY <2>1, LiepinWhere
<1>2. UNCHANGED <<platform, gone, need, log, round, run, received, contacted, drafts, confused, page, trouble>>
  BY DEF RestLiepin, Kept, Untouched
<1>3. Onward
  BY <1>2 DEF Onward
<1>4. PageTrue'
  BY <1>2, <1>3, PageStays DEF SenderInv
<1>. DEFINE e == Read("resume")
            s == Shown("resume")
            a == [e EXCEPT !.resumed = s]
<1>5. /\ e \in Attempts /\ e = [att EXCEPT !.blind = e.blind] /\ (att.blind => e.blind)
      /\ received[run.job]["resume"] > 0 /\ ~s => e.blind
  BY <1>1, ReadIs DEF Shown, Parts
<1>6. s \in BOOLEAN /\ (s => received[run.job]["resume"] > 0)
  BY <1>1 DEF Shown, Parts
<1>7. \/ Fails(e)
      \/ (s \/ done) /\ att' = a /\ pc' = "greetL"
      \/ ~s /\ ~done /\ att' = [a EXCEPT !.tries = next.tries] /\ pc' = next.pc
  BY DEF Poll, Goto
<1>. HIDE DEF e, s
<1>8. /\ e.out = "none" /\ Claims(e) = Claims(att) /\ e.tries = att.tries
      /\ a \in Attempts /\ a.out = "none" /\ a.resumed = s /\ a.greeted = att.greeted
      /\ a.clicked = att.clicked /\ a.recon = att.recon /\ a.blind = e.blind
  BY <1>1, <1>5, <1>6 DEF Attempts, Claims
<1>. HIDE DEF a
<1>9. /\ att' \in Attempts /\ att'.clicked = att.clicked /\ att'.recon = att.recon
      /\ att'.greeted = att.greeted
      /\ att'.resumed => att.resumed \/ received[run.job]["resume"] > 0
      /\ \/ pc' = "append" /\ att'.out = "failed"
         \/ /\ pc' = "greetL" /\ att'.out = "none" /\ att'.blind = e.blind
         \/ /\ pc' \in {"confirmL", "resumeL"} /\ att'.out = "none" /\ att'.blind = e.blind /\ ~s
            /\ att'.tries <= 3
  <2>1. CASE Fails(e)
    BY <1>5, <1>8, <2>1, Ending DEF Fails, Outcomes, Claims
  <2>2. CASE att' = a /\ pc' = "greetL"
    BY <1>6, <1>8, <2>2
  <2>3. CASE ~s /\ ~done /\ att' = [a EXCEPT !.tries = next.tries] /\ pc' = next.pc
    BY <1>6, <1>8, <2>3 DEF Attempts
  <2>. QED
    BY <1>7, <2>1, <2>2, <2>3
<1>10. Honest
  BY <1>1, <1>2, <1>9, ClaimsSeen DEF Working, LiepinAt
<1>11. TypeOK'
  BY <1>2, <1>9 DEF SenderInv, TypeOK
<1>12. Leads /\ Counted'
  BY <1>1, <1>9 DEF Leads, Counted, Working, BossAt, LiepinAt, ZhilianAt, Clicking51
<1>13. Looked'
  BY <1>1, <1>2, <1>5, <1>9 DEF Looked, SenderInv, Has
<1>. QED
  BY <1>1, <1>2, <1>3, <1>4, <1>10, <1>11, <1>12, <1>13, AttemptGoesOn, Places

LEMMA PollLiepinStep == ASSUME SenderInv, PollLiepin PROVE SenderInv'
<1>. DEFINE next == IF page.dialog THEN [pc |-> "confirmL", tries |-> 0]
                    ELSE [pc |-> "resumeL", tries |-> att.tries]
            done == need = "login" \/ (att.tries = 4 /\ ~page.dialog)
<1>1. pc = "pollL" /\ Poll(next, done) /\ UNCHANGED <<RestLiepin, contacted>> /\ Untouched
  BY DEF PollLiepin
<1>2. att.tries \in 0..4
  BY <1>1 DEF SenderInv, Counted, TypeOK, Attempts
<1>3. next.pc \in {"confirmL", "resumeL"} /\ next.tries \in 0..4 /\ (~done => next.tries <= 3)
  BY <1>2
<1>. HIDE DEF next, done
<1>. QED
  BY <1>1, <1>3, PollOn

LEMMA ConfirmedLiepinStep == ASSUME SenderInv, ConfirmedLiepin PROVE SenderInv'
<1>. DEFINE next == [pc |-> "confirmL", tries |-> att.tries]
            done == need = "login" \/ ~page.dialog \/ att.tries = 4
<1>1. pc = "confirmedL" /\ Poll(next, done) /\ UNCHANGED <<RestLiepin, contacted>> /\ Untouched
  BY DEF ConfirmedLiepin
<1>2. att.tries \in 0..4
  BY <1>1 DEF SenderInv, Counted, TypeOK, Attempts
<1>3. next.pc \in {"confirmL", "resumeL"} /\ next.tries \in 0..4 /\ (~done => next.tries <= 3)
  BY <1>2
<1>. HIDE DEF next, done
<1>. QED
  BY <1>1, <1>3, PollOn

LEMMA ConfirmLiepinStep == ASSUME SenderInv, ConfirmLiepin PROVE SenderInv'
<1>1. /\ pc = "confirmL" /\ pc \in LiepinAt \ Opening /\ run.job \in Jobs
      /\ pc \in Working /\ page.job = run.job /\ att \in Attempts /\ att.out = "none"
      /\ platform = "liepin" /\ page \in PageTypes
  BY LiepinWhere DEF ConfirmLiepin, LiepinAt, Opening
<1>2. UNCHANGED <<platform, gone, need, log, round, run, contacted, drafts, confused>>
  BY DEF ConfirmLiepin, RestLiepin, Kept
<1>3. /\ Onward
      /\ received' \in [Jobs -> [Parts -> 0..2]]
      /\ \A k \in Jobs, p \in Parts : k # run.job \/ p # "resume" => received'[k][p] = received[k][p]
      /\ page' \in PageTypes /\ page'.job = run.job /\ PageTrue'
      /\ trouble' \in 0..MaxTrouble
  <2>1. CASE Handed(Job, "resume")
    BY <1>1, <1>2, <2>1, HandedPart DEF Job, Kept, Parts, SenderInv
  <2>2. CASE UNCHANGED <<received, page>> /\ Trouble
    <3>1. Onward
      BY <1>2, <2>2 DEF Onward
    <3>. QED
      BY <1>1, <2>2, <3>1, PageStays, TroubleBound DEF SenderInv, TypeOK
  <2>. QED
    BY <2>1, <2>2 DEF ConfirmLiepin
<1>4. att.tries \in 0..3
  BY <1>1 DEF SenderInv, Counted, Attempts
<1>5. /\ att' \in Attempts /\ Claims(att') = Claims(att) /\ att'.out = "none"
      /\ att'.blind = att.blind
      /\ pc' = "greetL" \/ (pc' = "confirmedL" /\ att'.tries <= 4)
  BY <1>1, <1>4 DEF ConfirmLiepin, Goto, Again, Attempts, Claims
<1>6. Honest
  BY <1>1, <1>5, ClaimsNoMore DEF Working, LiepinAt
<1>7. TypeOK'
  BY <1>2, <1>3, <1>5 DEF SenderInv, TypeOK
<1>8. Leads /\ Counted'
  BY <1>1, <1>5 DEF Leads, Counted, BossAt, LiepinAt, ZhilianAt, Clicking51
<1>9. Looked'
  <2>1. \A j \in Jobs : drafts'[j] = "fresh" => ~(received'[j]["greeting"] > 0)
    BY <1>2, <1>3 DEF SenderInv, Looked, Has, Parts
  <2>2. ~att'.greeted /\ received'[run.job]["greeting"] > 0 => att'.blind
    BY <1>1, <1>3, <1>5 DEF SenderInv, Looked, Has, Parts, Claims
  <2>. QED
    BY <1>2, <1>5, <2>1, <2>2 DEF Looked, Has
<1>. QED
  BY <1>1, <1>2, <1>3, <1>6, <1>7, <1>8, <1>9, AttemptGoesOn, Places

LEMMA GreetLiepinStep == ASSUME SenderInv, GreetLiepin PROVE SenderInv'
<1>1. /\ pc = "greetL" /\ pc \in LiepinAt \ Opening /\ run.job \in Jobs
      /\ pc \in Working /\ page.job = run.job /\ att \in Attempts /\ att.out = "none"
      /\ platform = "liepin"
  BY LiepinWhere DEF GreetLiepin, LiepinAt, Opening
<1>2. UNCHANGED <<platform, gone, need, log, round, run, contacted, drafts, confused, att>>
  BY DEF GreetLiepin, RestLiepin, Kept
<1>3. /\ Onward
      /\ received' \in [Jobs -> [Parts -> 0..2]]
      /\ page' \in PageTypes /\ page'.job = run.job /\ PageTrue'
      /\ trouble' \in 0..MaxTrouble
  <2>1. CASE Handed(Job, "greeting")
    BY <1>1, <1>2, <2>1, HandedPart DEF Job, Kept, Parts, SenderInv
  <2>2. CASE UNCHANGED <<received, page>> /\ (Calm \/ Trouble)
    <3>1. Onward
      BY <1>2, <2>2 DEF Onward
    <3>. QED
      BY <1>1, <2>2, <3>1, PageStays, TroubleBound DEF SenderInv, TypeOK
  <2>. QED
    BY <2>1, <2>2 DEF GreetLiepin
<1>4. pc' \in {"endL", "sentL"}
  BY DEF GreetLiepin, Goto
<1>5. Honest
  BY <1>1, <1>2, <1>4, ClaimsNoMore DEF Working, LiepinAt
<1>6. TypeOK'
  BY <1>2, <1>3 DEF SenderInv, TypeOK
<1>7. Leads /\ Counted'
  BY <1>1, <1>4 DEF Leads, Counted, BossAt, LiepinAt, ZhilianAt, Clicking51
<1>8. Looked'
  <2>1. \A j \in Jobs : drafts[j] = "none"
    BY <1>1 DEF SenderInv, Confined
  <2>. QED
    BY <1>2, <1>4, <2>1 DEF Looked
<1>. QED
  BY <1>1, <1>2, <1>3, <1>5, <1>6, <1>7, <1>8, AttemptGoesOn, Places

\* What is read of both parts is what has come.
LEMMA ReadBothIs ==
    ASSUME SenderInv, pc \in LiepinAt \ Opening
    PROVE  /\ ReadBoth \in Attempts /\ ReadBoth.out = "none"
           /\ ReadBoth.clicked = att.clicked /\ ReadBoth.recon = att.recon
           /\ ReadBoth.resumed => att.resumed \/ received[run.job]["resume"] > 0
           /\ ReadBoth.greeted => att.greeted \/ received[run.job]["greeting"] > 0
<1>. DEFINE g == att.greeted \/ Shown("greeting")
            r == att.resumed \/ Shown("resume")
            b == att.blind \/ Hidden("resume") \/ Hidden("greeting")
<1>1. /\ g \in BOOLEAN /\ r \in BOOLEAN /\ b \in BOOLEAN
      /\ r => att.resumed \/ received[run.job]["resume"] > 0
      /\ g => att.greeted \/ received[run.job]["greeting"] > 0
  BY LiepinWhere DEF Shown, Parts
<1>2. ReadBoth = [att EXCEPT !.greeted = g, !.resumed = r, !.blind = b]
  BY DEF ReadBoth
<1>. HIDE DEF g, r, b
<1>. QED
  BY <1>1, <1>2, LiepinWhere DEF Attempts

LEMMA SentLiepinStep == ASSUME SenderInv, SentLiepin PROVE SenderInv'
<1>1. /\ pc = "sentL" /\ pc \in LiepinAt \ Opening
      /\ pc \in Working /\ page.job = run.job /\ att \in Attempts /\ att.out = "none"
  BY LiepinWhere DEF SentLiepin, LiepinAt, Opening
<1>2. UNCHANGED <<platform, gone, need, log, round, run, received, contacted, drafts, confused, page, trouble>>
  BY DEF SentLiepin, RestLiepin, Kept, Untouched
<1>3. Onward
  BY <1>2 DEF Onward
<1>4. PageTrue'
  BY <1>2, <1>3, PageStays DEF SenderInv
<1>5. /\ att' \in Attempts /\ Claims(att') = Claims(ReadBoth)
      /\ \/ pc' = "append" /\ att'.out = "failed"
         \/ pc' = "endL" /\ att'.out = "none"
  <2>1. CASE Asks(ReadBoth)
    BY <1>1, <2>1, ReadBothIs, Ending DEF Asks, Outcomes
  <2>. QED
    BY <1>1, <2>1, ReadBothIs DEF SentLiepin, Goto
<1>6. Honest
  BY <1>1, <1>2, <1>5, ReadBothIs, ClaimsSeen DEF Claims, Working, LiepinAt
<1>7. TypeOK'
  BY <1>2, <1>5 DEF SenderInv, TypeOK
<1>8. Leads /\ Counted'
  BY <1>1, <1>5 DEF Leads, Counted, Working, BossAt, LiepinAt, ZhilianAt, Clicking51
<1>9. Looked'
  BY <1>2, <1>5 DEF Looked, SenderInv, Has
<1>. QED
  BY <1>1, <1>2, <1>3, <1>4, <1>6, <1>7, <1>8, <1>9, AttemptGoesOn, Places

LEMMA EndLiepinStep == ASSUME SenderInv, EndLiepin PROVE SenderInv'
<1>1. /\ pc = "endL" /\ pc \in LiepinAt \ Opening /\ run.job \in Jobs
      /\ pc \in Working /\ page.job = run.job /\ att \in Attempts /\ att.out = "none"
      /\ platform = "liepin"
  BY LiepinWhere DEF EndLiepin, LiepinAt, Opening
<1>2. UNCHANGED <<platform, gone, need, log, round, run, received, contacted, drafts, confused, page, trouble>>
  BY DEF EndLiepin, RestLiepin, Kept, Untouched
<1>3. Onward
  BY <1>2 DEF Onward
<1>4. PageTrue'
  BY <1>2, <1>3, PageStays DEF SenderInv
<1>. DEFINE a == IF att.greeted /\ ~att.resumed THEN ReadBoth ELSE att
            asks == (need = "user" /\ att.greeted /\ ~att.resumed)
<1>5. /\ a \in Attempts /\ a.clicked = att.clicked /\ a.recon = att.recon
      /\ a.resumed => received[run.job]["resume"] > 0
      /\ a.greeted => received[run.job]["greeting"] > 0
  BY <1>1, ReadBothIs DEF SenderInv, AttTrue, Has
<1>6. \/ a.resumed /\ a.greeted /\ EndsWith(a, "delivered", FALSE)
      \/ EndsWith(a, "failed", asks)
  BY DEF EndLiepin
<1>7. asks \in BOOLEAN
  OBVIOUS
<1>. HIDE DEF a, asks
<1>8. /\ att' \in Attempts /\ Claims(att') = Claims(a) /\ pc' = "append"
      /\ att'.out = "failed" \/ (att'.out = "delivered" /\ a.resumed /\ a.greeted)
  BY <1>5, <1>6, <1>7, Ending DEF Outcomes
<1>9. a.resumed /\ a.greeted => Got(run.job)'
  BY <1>1, <1>2, <1>5 DEF Got, Wanted, Has, Parts
<1>10. Honest
  BY <1>1, <1>2, <1>5, <1>8, <1>9, ClaimsSeen DEF Claims
<1>11. TypeOK'
  BY <1>2, <1>8 DEF SenderInv, TypeOK
<1>12. Leads /\ Counted'
  BY <1>1, <1>8 DEF Leads, Counted, Working, BossAt, LiepinAt, ZhilianAt, Clicking51
<1>13. Looked'
  BY <1>2, <1>8 DEF Looked, SenderInv, Has
<1>. QED
  BY <1>1, <1>2, <1>3, <1>4, <1>10, <1>11, <1>12, <1>13, AttemptGoesOn, Places

LEMMA LiepinSteps == ASSUME SenderInv, LiepinStep PROVE SenderInv'
BY OpenLiepinStep, InspectLiepinStep, EntryLiepinStep, ChatLiepinStep, ResumeLiepinStep,
   PollLiepinStep, ConfirmLiepinStep, ConfirmedLiepinStep, GreetLiepinStep, SentLiepinStep,
   EndLiepinStep DEF LiepinStep

-----------------------------------------------------------------------------
\* Zhilian.
LEMMA ZhilianWhere ==
    ASSUME SenderInv, pc \in ZhilianAt \ Opening
    PROVE  /\ pc \in Working \ Opening /\ run.job \in Jobs /\ page.job = run.job
           /\ att \in Attempts /\ att.out = "none" /\ platform = "zhilian"
           /\ page \in PageTypes /\ att.tries <= 5
           /\ \A j \in Jobs : drafts[j] = "none"
<1>1. pc \in Working \ Opening /\ platform = "zhilian"
  BY Places DEF SenderInv, Placed
<1>. QED
  BY <1>1, WorkingWhere DEF SenderInv, TypeOK, Counted, Confined

\* A resume or a conversation that the page shows is the delivery of Zhilian.
LEMMA DetectedIsDelivered ==
    ASSUME SenderInv, pc \in ZhilianAt \ Opening, DetectedZhilian,
           UNCHANGED <<platform, run, received, contacted>>
    PROVE  Got(run.job)'
<1>1. received[run.job]["resume"] > 0 \/ run.job \in contacted
  BY ZhilianWhere, ShownHasCome DEF DetectedZhilian, Parts
<1>. QED
  BY <1>1, ZhilianWhere DEF Got, Wanted, Has

\* A look at the page of Zhilian that shows nothing.
LEMMA ReadZhilian ==
    ASSUME SenderInv, pc \in ZhilianAt \ Opening
    PROVE  /\ Read("resume") \in Attempts /\ Claims(Read("resume")) = Claims(att)
           /\ Read("resume").out = "none" /\ Read("resume").tries = att.tries
           /\ received[run.job]["resume"] > 0 /\ ~DetectedZhilian => Read("resume").blind
<1>. DEFINE a == Read("resume")
<1>1. "taken" \notin page.shows
  BY ZhilianWhere, ShownHasCome
<1>2. /\ a \in Attempts /\ a = [att EXCEPT !.blind = a.blind]
      /\ received[run.job]["resume"] > 0 /\ ~DetectedZhilian => a.blind
  BY <1>1, ZhilianWhere, ReadIs DEF DetectedZhilian, Parts
<1>. HIDE DEF a
<1>3. Claims(a) = Claims(att) /\ a.out = "none" /\ a.tries = att.tries
  BY <1>2, ZhilianWhere DEF Attempts, Claims
<1>. QED
  BY <1>2, <1>3 DEF a

LEMMA OpenZhilianStep == ASSUME SenderInv, OpenZhilian PROVE SenderInv'
<1>1. pc = "openZ" /\ pc \in Working /\ att \in Attempts /\ att.out = "none" /\ run.job \in Jobs
  BY WorkingWhere DEF OpenZhilian, Working, ZhilianAt
<1>2. UNCHANGED <<platform, gone, need, log, round, run, received, contacted, drafts, confused>>
  BY DEF OpenZhilian, RestZhilian, Kept
<1>3. Onward
  BY <1>2 DEF Onward
<1>4. /\ page' \in PageTypes /\ PageTrue' /\ trouble' \in 0..MaxTrouble
      /\ att' \in Attempts /\ Claims(att') = Claims(att) /\ att'.tries = att.tries
      /\ \/ pc' = "append" /\ att'.out = "failed"
         \/ pc' = "lookZ" /\ page'.job = run.job /\ att'.out = "none"
  <2>1. CASE Load(Job, "detail") /\ Goto("lookZ") /\ UNCHANGED att
    BY <1>1, <1>3, <2>1, LoadedPage DEF Job, Goto, SenderInv
  <2>2. CASE Trouble /\ UNCHANGED page /\ Fails(att)
    BY <1>1, <1>3, <2>2, PageStays, TroubleBound DEF Fails, EndsWith, SenderInv, TypeOK, Outcomes,
      Attempts, Claims
  <2>. QED
    BY <2>1, <2>2 DEF OpenZhilian
<1>5. Honest
  BY <1>1, <1>4, ClaimsNoMore DEF Working, ZhilianAt
<1>6. TypeOK'
  BY <1>2, <1>4 DEF SenderInv, TypeOK
<1>7. Leads /\ Counted'
  BY <1>1, <1>4 DEF SenderInv, Leads, Counted, Working, BossAt, LiepinAt, ZhilianAt, Clicking51
<1>8. Looked'
  BY <1>2, <1>4 DEF Looked, SenderInv, Has
<1>. QED
  BY <1>1, <1>2, <1>3, <1>4, <1>5, <1>6, <1>7, <1>8, AttemptGoesOn, Places

\* A step of Zhilian that only looks: it ends with what the page shows, or goes on.
LEMMA LooksOn ==
    ASSUME SenderInv, pc \in ZhilianAt \ Opening,
           UNCHANGED <<RestZhilian, received, contacted, page, trouble>>,
           att' \in Attempts, Claims(att') = Claims(att),
           \/ /\ pc' = "append"
              /\ att'.out = "failed" \/ (att'.out = "delivered" /\ DetectedZhilian)
           \/ /\ pc' = "dialogZ" /\ att'.out = "none" /\ att'.tries <= 5
           \/ /\ pc' \in {"entryZ", "confirmZ"} /\ att'.out = "none" /\ att'.tries <= 5
              /\ ~DetectedZhilian /\ att'.blind = Read("resume").blind
    PROVE  SenderInv'
<1>2. UNCHANGED <<platform, gone, need, log, round, run, received, contacted, drafts, confused, page, trouble>>
  BY DEF RestZhilian, Kept
<1>3. Onward
  BY <1>2 DEF Onward
<1>4. PageTrue'
  BY <1>2, <1>3, PageStays DEF SenderInv
<1>5. Honest
  BY <1>2, ZhilianWhere, ClaimsNoMore, DetectedIsDelivered DEF Working, ZhilianAt
<1>6. TypeOK'
  BY <1>2 DEF SenderInv, TypeOK
<1>7. Leads /\ Counted'
  BY Places DEF Leads, Counted, BossAt, LiepinAt, ZhilianAt, Clicking51
<1>8. Looked'
  BY <1>2, ReadZhilian, ZhilianWhere DEF Looked, Has
<1>. QED
  BY <1>2, <1>3, <1>4, <1>5, <1>6, <1>7, <1>8, ZhilianWhere, AttemptGoesOn, Places

LEMMA InspectZhilianStep == ASSUME SenderInv, InspectZhilian PROVE SenderInv'
<1>. DEFINE a == Read("resume")
<1>1. pc = "lookZ" /\ pc \in ZhilianAt \ Opening
  BY DEF InspectZhilian, ZhilianAt, Opening
<1>2. /\ a \in Attempts /\ Claims(a) = Claims(att) /\ a.out = "none" /\ a.tries <= 5
  BY <1>1, ReadZhilian, ZhilianWhere
<1>3. \/ Fails(a) \/ Asks(a)
      \/ DetectedZhilian /\ EndsWith(a, "delivered", FALSE)
      \/ ~DetectedZhilian /\ att' = a /\ pc' = "entryZ"
  BY DEF InspectZhilian, Goto
<1>. HIDE DEF a
<1>4. /\ att' \in Attempts /\ Claims(att') = Claims(att)
      /\ \/ /\ pc' = "append"
            /\ att'.out = "failed" \/ (att'.out = "delivered" /\ DetectedZhilian)
         \/ pc' = "entryZ" /\ ~DetectedZhilian /\ att' = a
  BY <1>2, <1>3, Ending DEF Fails, Asks, Outcomes
<1>5. UNCHANGED <<RestZhilian, received, contacted, page, trouble>>
  BY DEF InspectZhilian
<1>. QED
  BY <1>1, <1>2, <1>4, <1>5, LooksOn DEF a

LEMMA DialogZhilianStep == ASSUME SenderInv, DialogZhilian PROVE SenderInv'
<1>. DEFINE a == Read("resume")
<1>1. pc = "dialogZ" /\ pc \in ZhilianAt \ Opening
  BY DEF DialogZhilian, ZhilianAt, Opening
<1>2. /\ a \in Attempts /\ Claims(a) = Claims(att) /\ a.out = "none" /\ a.tries <= 5
  BY <1>1, ReadZhilian, ZhilianWhere
<1>3. \/ Fails(a) \/ Asks(a)
      \/ DetectedZhilian /\ EndsWith(a, "delivered", FALSE)
      \/ ~DetectedZhilian /\ att' = a /\ pc' = "confirmZ"
  BY DEF DialogZhilian, Goto
<1>. HIDE DEF a
<1>4. /\ att' \in Attempts /\ Claims(att') = Claims(att)
      /\ \/ /\ pc' = "append"
            /\ att'.out = "failed" \/ (att'.out = "delivered" /\ DetectedZhilian)
         \/ pc' = "confirmZ" /\ ~DetectedZhilian /\ att' = a
  BY <1>2, <1>3, Ending DEF Fails, Asks, Outcomes
<1>5. UNCHANGED <<RestZhilian, received, contacted, page, trouble>>
  BY DEF DialogZhilian
<1>. QED
  BY <1>1, <1>2, <1>4, <1>5, LooksOn DEF a

\* Another look at the dialog, six in all.
LEMMA AgainZhilian ==
    ASSUME SenderInv, pc \in ZhilianAt \ Opening, LookAgain
    PROVE  /\ att' \in Attempts /\ Claims(att') = Claims(att)
           /\ \/ pc' = "append" /\ att'.out = "failed"
              \/ pc' = "dialogZ" /\ att'.out = "none" /\ att'.tries <= 5
<1>. DEFINE a == Read("resume")
<1>1. /\ a \in Attempts /\ Claims(a) = Claims(att) /\ a.out = "none" /\ a.tries = att.tries
      /\ att.tries <= 5
  BY ReadZhilian, ZhilianWhere
<1>2. \/ Fails(a)
      \/ att.tries # 5 /\ pc' = "dialogZ" /\ att' = [a EXCEPT !.tries = @ + 1]
  BY DEF LookAgain, Goto
<1>. HIDE DEF a
<1>3. CASE Fails(a)
  BY <1>1, <1>3, Ending DEF Fails, Outcomes
<1>4. CASE att.tries # 5 /\ pc' = "dialogZ" /\ att' = [a EXCEPT !.tries = @ + 1]
  BY <1>1, <1>4 DEF Attempts, Claims
<1>. QED
  BY <1>2, <1>3, <1>4

LEMMA AfterZhilianStep == ASSUME SenderInv, AfterZhilian PROVE SenderInv'
<1>. DEFINE a == Read("resume")
<1>1. pc = "afterZ" /\ pc \in ZhilianAt \ Opening
  BY DEF AfterZhilian, ZhilianAt, Opening
<1>2. /\ a \in Attempts /\ Claims(a) = Claims(att) /\ a.out = "none"
  BY <1>1, ReadZhilian
<1>3. \/ DetectedZhilian /\ EndsWith(a, "delivered", FALSE)
      \/ Asks(a) \/ LookAgain
  BY DEF AfterZhilian
<1>. HIDE DEF a
<1>4. /\ att' \in Attempts /\ Claims(att') = Claims(att)
      /\ \/ /\ pc' = "append"
            /\ att'.out = "failed" \/ (att'.out = "delivered" /\ DetectedZhilian)
         \/ pc' = "dialogZ" /\ att'.out = "none" /\ att'.tries <= 5
  BY <1>1, <1>2, <1>3, Ending, AgainZhilian DEF Fails, Asks, Outcomes
<1>5. UNCHANGED <<RestZhilian, received, contacted, page, trouble>>
  BY DEF AfterZhilian
<1>. QED
  BY <1>1, <1>4, <1>5, LooksOn

\* The control of the page of Zhilian hands the resume over, or only starts a conversation.
LEMMA Pressed ==
    ASSUME SenderInv, pc \in ZhilianAt \ Opening, UNCHANGED RestZhilian,
           \/ Press
           \/ Handed(Job, "resume") /\ UNCHANGED contacted
           \/ Idle
    PROVE  /\ Onward
           /\ received' \in [Jobs -> [Parts -> 0..2]] /\ contacted' \subseteq Jobs
           /\ page' \in PageTypes /\ page'.job = run.job /\ PageTrue'
           /\ trouble' \in 0..MaxTrouble
<1>1. UNCHANGED <<platform, gone, need, log, round, run, drafts, confused>>
  BY DEF RestZhilian, Kept
<1>2. /\ run.job \in Jobs /\ page.job = run.job /\ platform = "zhilian" /\ page \in PageTypes
      /\ TypeOK /\ PageTrue
  BY ZhilianWhere DEF SenderInv
<1>3. CASE Handed(Job, "resume") /\ UNCHANGED contacted
  BY <1>1, <1>2, <1>3, HandedPart DEF Job, Kept, Parts, TypeOK
<1>4. CASE page' = [page EXCEPT !.dialog = TRUE] /\ Calm /\ UNCHANGED <<received, contacted>>
  <2>1. Onward
    BY <1>1, <1>4 DEF Onward
  <2>2. page' \in PageTypes /\ page'.job = page.job /\ page'.shows = page.shows
    BY <1>2, <1>4 DEF PageTypes
  <2>3. PageTrue'
    BY <1>1, <1>2, <1>4, <2>2 DEF PageTrue
  <2>. QED
    BY <1>2, <1>4, <2>1, <2>2, <2>3, TroubleBound DEF TypeOK
<1>5. CASE /\ Trouble /\ contacted' = contacted \cup {Job}
           /\ page' = [page EXCEPT !.shows = @ \cup {"contacted"}] /\ UNCHANGED received
  <2>1. Onward
    BY <1>1, <1>5 DEF Onward
  <2>2. page' \in PageTypes /\ page'.job = page.job /\ page'.shows = page.shows \cup {"contacted"}
    BY <1>2, <1>5 DEF PageTypes, Marks
  <2>3. PageTrue'
    BY <1>1, <1>2, <1>5, <2>2 DEF PageTrue, Job, Parts
  <2>. QED
    BY <1>2, <1>5, <2>1, <2>2, <2>3, TroubleBound DEF TypeOK, Job
<1>6. CASE Idle
  <2>1. Onward /\ page' = page
    BY <1>1, <1>6 DEF Onward, Idle
  <2>. QED
    BY <1>2, <1>6, <2>1, PageStays, TroubleBound DEF TypeOK, Idle
<1>. QED
  BY <1>3, <1>4, <1>5, <1>6 DEF Press

LEMMA EntryZhilianStep == ASSUME SenderInv, EntryZhilian PROVE SenderInv'
<1>1. /\ pc = "entryZ" /\ pc \in ZhilianAt \ Opening
      /\ UNCHANGED RestZhilian
  BY DEF EntryZhilian, ZhilianAt, Opening
<1>2. UNCHANGED <<platform, gone, need, log, round, run, drafts, confused>>
  BY <1>1 DEF RestZhilian, Kept
<1>3. /\ Onward
      /\ received' \in [Jobs -> [Parts -> 0..2]] /\ contacted' \subseteq Jobs
      /\ page' \in PageTypes /\ page'.job = run.job /\ PageTrue'
      /\ trouble' \in 0..MaxTrouble
  BY <1>1, Pressed DEF EntryZhilian
<1>4. /\ att' \in Attempts /\ Claims(att') = Claims(att)
      /\ \/ pc' = "append" /\ att'.out = "failed"
         \/ pc' = "dialogZ" /\ att' = att
  BY <1>1, ZhilianWhere, Ending DEF EntryZhilian, Fails, Goto, Outcomes
<1>5. Honest
  BY <1>1, <1>4, ZhilianWhere, ClaimsNoMore DEF Working, ZhilianAt
<1>6. TypeOK'
  BY <1>2, <1>3, <1>4 DEF SenderInv, TypeOK
<1>7. Leads /\ Counted'
  BY <1>1, <1>4, ZhilianWhere DEF Leads, Counted, BossAt, LiepinAt, ZhilianAt, Clicking51
<1>8. Looked'
  BY <1>1, <1>2, <1>4, ZhilianWhere DEF Looked
<1>. QED
  BY <1>2, <1>3, <1>5, <1>6, <1>7, <1>8, AttemptGoesOn

LEMMA ConfirmZhilianStep == ASSUME SenderInv, ConfirmZhilian PROVE SenderInv'
<1>1. /\ pc = "confirmZ" /\ pc \in ZhilianAt \ Opening
      /\ UNCHANGED RestZhilian
  BY DEF ConfirmZhilian, ZhilianAt, Opening
<1>2. UNCHANGED <<platform, gone, need, log, round, run, drafts, confused>>
  BY <1>1 DEF RestZhilian, Kept
<1>3. /\ Onward
      /\ received' \in [Jobs -> [Parts -> 0..2]] /\ contacted' \subseteq Jobs
      /\ page' \in PageTypes /\ page'.job = run.job /\ PageTrue'
      /\ trouble' \in 0..MaxTrouble
  BY <1>1, Pressed DEF ConfirmZhilian
<1>4. /\ att' \in Attempts /\ Claims(att') = Claims(att)
      /\ \/ pc' = "append" /\ att'.out = "failed"
         \/ pc' \in {"afterZ", "dialogZ"} /\ att'.out = "none" /\ att'.tries <= 5
  BY <1>1, ZhilianWhere, AgainZhilian DEF ConfirmZhilian, Goto
<1>5. Honest
  BY <1>1, <1>4, ZhilianWhere, ClaimsNoMore DEF Working, ZhilianAt
<1>6. TypeOK'
  BY <1>2, <1>3, <1>4 DEF SenderInv, TypeOK
<1>7. Leads /\ Counted'
  BY <1>1, <1>4, ZhilianWhere DEF Leads, Counted, BossAt, LiepinAt, ZhilianAt, Clicking51
<1>8. Looked'
  BY <1>1, <1>2, <1>4, ZhilianWhere DEF Looked
<1>. QED
  BY <1>2, <1>3, <1>5, <1>6, <1>7, <1>8, AttemptGoesOn

LEMMA ZhilianSteps == ASSUME SenderInv, ZhilianStep PROVE SenderInv'
BY OpenZhilianStep, InspectZhilianStep, EntryZhilianStep, DialogZhilianStep, ConfirmZhilianStep,
   AfterZhilianStep DEF ZhilianStep

-----------------------------------------------------------------------------
\* 51job.
At51 == (Clicking51 \cup Looking51) \ Opening

LEMMA Where51 ==
    ASSUME SenderInv, pc \in Clicking51 \cup Looking51
    PROVE  /\ pc \in Working /\ run.job \in Jobs /\ (pc \notin Opening => page.job = run.job)
           /\ att \in Attempts /\ att.out = "none" /\ att.recon <= ReconcileLimit
           /\ platform = "51job" /\ page \in PageTypes
           /\ \A j \in Jobs : drafts[j] = "none"
<1>1. pc \in Working /\ platform = "51job"
  BY Places DEF SenderInv, Placed
<1>. QED
  BY <1>1, WorkingWhere DEF SenderInv, TypeOK, Confined

\* The end of an attempt on 51job is honest when it claims nothing, or names a delivery that
\* the page shows or that is known to be confused.
LEMMA Claims51 ==
    ASSUME SenderInv, pc \in Clicking51 \cup Looking51,
           att'.resumed = att.resumed, att'.greeted = att.greeted,
           att'.recon <= ReconcileLimit \/ att'.out = "unresolved",
           \/ pc' \in Working /\ att'.out = "none"
           \/ /\ pc' = "append"
              /\ \/ att'.out \in {"failed", "unavailable", "unresolved", "indeterminate"}
                 \/ att'.out = "delivered" /\ (Got(run.job)' \/ run.job \in confused')
    PROVE  Honest
BY Where51, Places DEF Honest

\* A delivery that is read from a page.
LEMMA Delivered51 ==
    ASSUME SenderInv, pc \in At51, NEW a \in Attempts, Deliver51(a),
           UNCHANGED <<platform, run, received>>
    PROVE  /\ pc' = "append" /\ att' \in Attempts /\ att'.out = "delivered"
           /\ Claims(att') = Claims(a)
           /\ Got(run.job)' \/ run.job \in confused'
           /\ confused \subseteq confused' /\ confused' \subseteq Jobs
<1>1. pc \in Working \ Opening /\ run.job \in Jobs /\ platform = "51job" /\ confused \subseteq Jobs
  BY Where51 DEF At51, SenderInv, TypeOK
<1>2. /\ EndsWith(a, "delivered", FALSE)
      /\ confused' = IF "resume" \in page.shows \/ "taken" \in page.shows THEN confused
                     ELSE confused \cup {run.job}
  BY DEF Deliver51, Job
<1>3. "resume" \in page.shows \/ "taken" \in page.shows => received[run.job]["resume"] > 0
  BY <1>1, ShownHasCome DEF Parts
<1>4. received[run.job]["resume"] > 0 => Got(run.job)'
  BY <1>1 DEF Got, Wanted, Has
<1>. QED
  BY <1>1, <1>2, <1>3, <1>4, Ending DEF Outcomes

LEMMA Open51Step == ASSUME SenderInv, Open51 PROVE SenderInv'
<1>1. pc = "open51" /\ pc \in Clicking51
  BY DEF Open51, Clicking51
<1>2. UNCHANGED <<platform, gone, need, log, round, run, received, contacted, drafts, confused>>
  BY DEF Open51, Rest51, Kept
<1>3. Onward
  BY <1>2 DEF Onward
<1>4. /\ page' \in PageTypes /\ PageTrue' /\ trouble' \in 0..MaxTrouble
      /\ att' \in Attempts /\ Claims(att') = Claims(att) /\ att'.tries = att.tries
      /\ \/ pc' = "append" /\ att'.out = "failed"
         \/ pc' = "look51" /\ page'.job = run.job /\ att'.out = "none"
  <2>1. CASE Load(Job, "detail") /\ Goto("look51") /\ UNCHANGED att
    BY <1>1, <1>3, <2>1, Where51, LoadedPage DEF Job, Goto, SenderInv
  <2>2. CASE Trouble /\ UNCHANGED page /\ Fails(att)
    BY <1>1, <1>3, <2>2, Where51, PageStays, TroubleBound DEF Fails, EndsWith, SenderInv, TypeOK,
      Outcomes, Attempts, Claims
  <2>. QED
    BY <2>1, <2>2 DEF Open51, Reopen51
<1>5. Honest
  BY <1>1, <1>4, Where51, Claims51 DEF Claims, Working, Clicking51
<1>6. TypeOK'
  BY <1>2, <1>4 DEF SenderInv, TypeOK
<1>7. Leads /\ Counted'
  BY <1>1, <1>4, Where51 DEF SenderInv, Leads, Counted, BossAt, LiepinAt, ZhilianAt, Clicking51
<1>8. Looked'
  BY <1>1, <1>2, <1>4, Where51 DEF Looked
<1>. QED
  BY <1>1, <1>2, <1>3, <1>4, <1>5, <1>6, <1>7, <1>8, AttemptGoesOn, Places

LEMMA Recover51Step == ASSUME SenderInv, Recover51 PROVE SenderInv'
<1>1. pc = "recover51" /\ pc \in Clicking51
  BY DEF Recover51, Clicking51
<1>2. UNCHANGED <<platform, gone, need, log, round, run, received, contacted, drafts, confused>>
  BY DEF Recover51, Rest51, Kept
<1>3. Onward
  BY <1>2 DEF Onward
<1>4. /\ page' \in PageTypes /\ PageTrue' /\ trouble' \in 0..MaxTrouble
      /\ att' \in Attempts /\ Claims(att') = Claims(att) /\ att'.tries = att.tries
      /\ \/ pc' = "append" /\ att'.out = "failed"
         \/ pc' = "look51" /\ page'.job = run.job /\ att'.out = "none"
  <2>1. CASE Load(Job, "recovery") /\ Goto("look51") /\ UNCHANGED att
    BY <1>1, <1>3, <2>1, Where51, LoadedPage DEF Job, Goto, SenderInv
  <2>2. CASE Trouble /\ UNCHANGED page /\ Fails(att)
    BY <1>1, <1>3, <2>2, Where51, PageStays, TroubleBound DEF Fails, EndsWith, SenderInv, TypeOK,
      Outcomes, Attempts, Claims
  <2>. QED
    BY <2>1, <2>2 DEF Recover51, Reopen51
<1>5. Honest
  BY <1>1, <1>4, Where51, Claims51 DEF Claims, Working, Clicking51
<1>6. TypeOK'
  BY <1>2, <1>4 DEF SenderInv, TypeOK
<1>7. Leads /\ Counted'
  BY <1>1, <1>4, Where51 DEF SenderInv, Leads, Counted, BossAt, LiepinAt, ZhilianAt, Clicking51
<1>8. Looked'
  BY <1>1, <1>2, <1>4, Where51 DEF Looked
<1>. QED
  BY <1>1, <1>2, <1>3, <1>4, <1>5, <1>6, <1>7, <1>8, AttemptGoesOn, Places

\* A step on a page of 51job that only looks and changes neither the page nor what has come.
LEMMA LooksOn51 ==
    ASSUME SenderInv, pc \in Clicking51 \cup Looking51, UNCHANGED <<Rest51, received, page>>,
           trouble' \in 0..MaxTrouble, att' \in Attempts,
           confused \subseteq confused', confused' \subseteq Jobs,
           Honest, Leads, Counted', Looked', pc' \in Working \ Opening => page.job = run.job
    PROVE  SenderInv'
<1>1. UNCHANGED <<platform, gone, need, log, round, run, received, contacted, drafts, page>>
  BY DEF Rest51, Kept
<1>2. Onward
  BY <1>1 DEF Onward
<1>3. PageTrue'
  BY <1>1, <1>2, PageStays DEF SenderInv
<1>4. TypeOK'
  BY <1>1 DEF SenderInv, TypeOK
<1>. QED
  BY <1>1, <1>2, <1>3, <1>4, Where51, AttemptGoesOn

LEMMA Look51Step == ASSUME SenderInv, Look51 PROVE SenderInv'
<1>1. pc = "look51" /\ pc \in Clicking51 /\ pc \in At51
  BY DEF Look51, Clicking51, At51, Opening
<1>2. /\ att \in Attempts /\ att.out = "none" /\ att.recon <= ReconcileLimit
      /\ page.job = run.job /\ \A j \in Jobs : drafts[j] = "none"
  BY <1>1, Where51 DEF At51
<1>. DEFINE e == Read("resume")
            r == (page.card = "own" /\ ~Taken)
            a == [e EXCEPT !.ready = r]
<1>3. /\ e \in Attempts /\ e = [att EXCEPT !.blind = e.blind]
      /\ received[run.job]["resume"] > 0 /\ ~Detected51 /\ "taken" \notin page.shows => e.blind
  BY <1>2, ReadIs DEF Detected51, Parts
<1>4. r \in BOOLEAN
  OBVIOUS
<1>5. \/ (Fails(a) \/ Asks(a)) /\ UNCHANGED confused
      \/ Deliver51(a)
      \/ /\ ~Detected51 /\ UNCHANGED confused /\ att' = a
         /\ pc' = IF page.card = "own" \/ att.tries = 2 THEN "click51" ELSE "reload51"
  BY DEF Look51, Goto
<1>6. UNCHANGED <<Rest51, received, page>> /\ trouble' \in 0..MaxTrouble /\ UNCHANGED <<platform, run>>
  BY DEF Look51, SenderInv, TypeOK, Rest51, Kept
<1>. HIDE DEF e, r
<1>7. /\ a \in Attempts /\ Claims(a) = Claims(att) /\ a.out = "none" /\ a.tries = att.tries
      /\ a.blind = e.blind
  BY <1>2, <1>3, <1>4 DEF Attempts, Claims
<1>. HIDE DEF a
<1>8. /\ att' \in Attempts /\ Claims(att') = Claims(att)
      /\ confused \subseteq confused' /\ confused' \subseteq Jobs
      /\ \/ /\ pc' = "append"
            /\ \/ att'.out = "failed"
               \/ att'.out = "delivered" /\ (Got(run.job)' \/ run.job \in confused')
         \/ ~Detected51 /\ att' = a /\ pc' = "click51"
         \/ ~Detected51 /\ att' = a /\ pc' = "reload51" /\ att.tries # 2
  <2>1. CASE (Fails(a) \/ Asks(a)) /\ UNCHANGED confused
    BY <1>7, <2>1, Ending DEF Fails, Asks, Outcomes, SenderInv, TypeOK
  <2>2. CASE Deliver51(a)
    BY <1>1, <1>6, <1>7, <2>2, Delivered51
  <2>. QED
    BY <1>5, <1>7, <2>1, <2>2 DEF SenderInv, TypeOK
<1>9. Honest
  BY <1>1, <1>2, <1>7, <1>8, Claims51 DEF Claims, Working, Clicking51
<1>10. att.tries \in 0..2
  BY <1>1, <1>2 DEF SenderInv, Counted, Attempts
<1>11. Leads /\ Counted'
  BY <1>1, <1>7, <1>8, <1>10, Places DEF Leads, Counted, BossAt, LiepinAt, ZhilianAt, Clicking51
<1>12. Looked'
  BY <1>2, <1>3, <1>6, <1>7, <1>8 DEF Looked, Has, Rest51
<1>. QED
  BY <1>1, <1>2, <1>6, <1>8, <1>9, <1>11, <1>12, LooksOn51

LEMMA Reload51Step == ASSUME SenderInv, Reload51 PROVE SenderInv'
<1>1. pc = "reload51" /\ pc \in Clicking51 /\ pc \notin Opening
  BY DEF Reload51, Clicking51, Opening
<1>2. UNCHANGED <<platform, gone, need, log, round, run, received, contacted, drafts, confused>>
  BY DEF Reload51, Rest51, Kept
<1>3. Onward
  BY <1>2 DEF Onward
<1>4. /\ att \in Attempts /\ att.out = "none" /\ att.tries \in 0..1 /\ att.recon <= ReconcileLimit
      /\ page.job = run.job /\ \A j \in Jobs : drafts[j] = "none"
      /\ page \in PageTypes /\ run.job \in Jobs
  BY <1>1, Where51 DEF SenderInv, Counted, Attempts
<1>5. /\ att' \in Attempts /\ Claims(att') = Claims(att) /\ att'.out = "none"
      /\ att'.tries = att.tries + 1 /\ att'.blind = att.blind
  BY <1>4 DEF Reload51, Attempts, Claims
<1>6. /\ page' \in PageTypes /\ page'.job = run.job /\ PageTrue' /\ trouble' \in 0..MaxTrouble
      /\ \/ pc' = "look51"
         \/ pc' = "click51" /\ page' = page
         \/ pc' = "reload51" /\ page' = page /\ att.tries # 1
  <2>1. CASE Load(Job, page.at) /\ Goto("look51")
    <3>1. page.at \in {"none", "detail", "recovery", "chat"}
      BY <1>4 DEF PageTypes
    <3>. QED
      BY <1>3, <1>4, <2>1, <3>1, LoadedPage DEF Job, Goto, SenderInv
  <2>2. CASE Trouble /\ UNCHANGED page /\ Goto(IF att.tries = 1 THEN "click51" ELSE "reload51")
    BY <1>3, <1>4, <2>2, PageStays, TroubleBound DEF Goto, SenderInv
  <2>. QED
    BY <2>1, <2>2 DEF Reload51
<1>7. Honest
  BY <1>1, <1>4, <1>5, <1>6, Claims51 DEF Claims, Working, Clicking51
<1>8. TypeOK'
  BY <1>2, <1>5, <1>6 DEF SenderInv, TypeOK
<1>9. Leads /\ Counted'
  BY <1>1, <1>4, <1>5, <1>6 DEF Leads, Counted, BossAt, LiepinAt, ZhilianAt, Clicking51
<1>10. Looked'
  BY <1>1, <1>2, <1>4, <1>5, <1>6 DEF SenderInv, Looked, Has
<1>. QED
  BY <1>2, <1>3, <1>6, <1>7, <1>8, <1>9, <1>10, AttemptGoesOn

LEMMA Click51Step == ASSUME SenderInv, Click51 PROVE SenderInv'
<1>1. pc = "click51" /\ pc \in Clicking51 /\ pc \notin Opening
  BY DEF Click51, Clicking51, Opening
<1>2. UNCHANGED <<platform, gone, need, log, round, run, contacted, drafts>>
  BY DEF Click51, Rest51, Kept
<1>3. /\ att \in Attempts /\ att.out = "none" /\ att.tries \in 0..2 /\ att.recon <= ReconcileLimit
      /\ page.job = run.job /\ \A j \in Jobs : drafts[j] = "none"
      /\ page \in PageTypes /\ run.job \in Jobs /\ platform = "51job"
      /\ confused \subseteq Jobs
  BY <1>1, Where51 DEF SenderInv, Counted, Attempts, TypeOK
<1>4. /\ att' \in Attempts /\ att'.resumed = att.resumed /\ att'.greeted = att.greeted
      /\ att'.recon = att.recon
      /\ \/ pc' = "append" /\ att'.out \in {"failed", "unavailable"}
         \/ pc' \in {"after51", "recover51"} /\ att'.out = "none" /\ att'.tries <= 2
  <2>0. att \in Attempts /\ att.out = "none" /\ att.tries \in 0..2
    BY <1>3
  <2>1. CASE Clicked
    <3>1. att' = [att EXCEPT !.clicked = TRUE] /\ pc' = "after51"
      BY <2>1 DEF Clicked, Goto
    <3>2. att' \in Attempts /\ att'.out = att.out /\ att'.tries = att.tries
      BY <2>0, <3>1 DEF Attempts
    <3>3. att'.resumed = att.resumed /\ att'.greeted = att.greeted /\ att'.recon = att.recon
      BY <2>0, <3>1 DEF Attempts
    <3>. QED
      BY <2>0, <3>1, <3>2, <3>3
  <2>2. CASE Fails(att) \/ EndsWith(att, "unavailable", FALSE)
    BY <2>0, <2>2, Ending DEF Fails, Outcomes, Claims
  <2>3. CASE Goto("recover51") /\ att' = [att EXCEPT !.second = TRUE, !.tries = 0]
    <3>. DEFINE b == [att EXCEPT !.second = TRUE]
    <3>1. att' = [b EXCEPT !.tries = 0] /\ pc' = "recover51"
      BY <2>3 DEF Goto
    <3>2. /\ b \in Attempts /\ b.out = att.out /\ b.resumed = att.resumed
          /\ b.greeted = att.greeted /\ b.recon = att.recon
      BY <2>0 DEF Attempts
    <3>. HIDE DEF b
    <3>4. att' \in Attempts
      BY <3>1, <3>2 DEF Attempts
    <3>5. att'.out = att.out /\ att'.tries = 0
      BY <3>1, <3>2 DEF Attempts
    <3>3. att'.resumed = att.resumed /\ att'.greeted = att.greeted /\ att'.recon = att.recon
      BY <3>1, <3>2 DEF Attempts
    <3>. QED
      BY <2>0, <3>1, <3>2, <3>3, <3>4, <3>5
  <2>. QED
    BY <2>1, <2>2, <2>3 DEF Click51, ClickOwn, ClickTaken, ClickOther, ClickNone
<1>5. /\ Onward /\ confused' \subseteq Jobs
      /\ received' \in [Jobs -> [Parts -> 0..2]]
      /\ page' \in PageTypes /\ page'.job = run.job /\ PageTrue'
      /\ trouble' \in 0..MaxTrouble
  <2>1. CASE Handed(Job, "resume") /\ UNCHANGED confused
    BY <1>2, <1>3, <2>1, HandedPart DEF Job, Kept, Parts, SenderInv
  <2>2. CASE Calm /\ UNCHANGED <<received, page>> /\ confused' \in {confused, confused \cup {Job}}
    <3>1. Onward
      BY <1>2, <2>2 DEF Onward
    <3>. QED
      BY <1>3, <2>2, <3>1, PageStays, TroubleBound DEF SenderInv, TypeOK, Job
  <2>3. ASSUME NEW k \in Jobs, Calm, UNCHANGED page, confused' = confused \cup {Job},
               received' = More(k, "resume")
        PROVE  /\ Onward /\ confused' \subseteq Jobs
               /\ received' \in [Jobs -> [Parts -> 0..2]]
               /\ page' \in PageTypes /\ page'.job = run.job /\ PageTrue'
               /\ trouble' \in 0..MaxTrouble
    <3>1. received \in [Jobs -> [Parts -> 0..2]] /\ "resume" \in Parts
      BY DEF SenderInv, TypeOK, Parts
    <3>2. /\ received' \in [Jobs -> [Parts -> 0..2]]
          /\ \A i \in Jobs, p \in Parts : received[i][p] > 0 => received'[i][p] > 0
      BY <2>3, <3>1, MoreOfOne
    <3>3. Onward
      BY <1>2, <2>3, <3>2 DEF Onward
    <3>. QED
      BY <1>3, <2>3, <3>2, <3>3, PageStays, TroubleBound DEF SenderInv, Job
  <2>. QED
    BY <2>1, <2>2, <2>3 DEF Click51, ClickOwn, ClickTaken, ClickOther, ClickNone
<1>6. Honest
  BY <1>1, <1>3, <1>4, Claims51 DEF Working, Clicking51
<1>7. TypeOK'
  BY <1>2, <1>4, <1>5 DEF SenderInv, TypeOK
<1>8. Leads /\ Counted'
  BY <1>1, <1>4, Places DEF Leads, Counted, BossAt, LiepinAt, ZhilianAt, Clicking51
<1>9. Looked'
  BY <1>2, <1>3, <1>4 DEF Looked
<1>. QED
  BY <1>2, <1>3, <1>5, <1>6, <1>7, <1>8, <1>9, AttemptGoesOn

LEMMA After51Step == ASSUME SenderInv, After51 PROVE SenderInv'
<1>1. pc = "after51" /\ pc \in Clicking51 /\ pc \in At51
  BY DEF After51, Clicking51, At51, Opening
<1>2. /\ att \in Attempts /\ att.recon <= ReconcileLimit
      /\ page.job = run.job /\ \A j \in Jobs : drafts[j] = "none"
  BY <1>1, Where51 DEF At51
<1>. DEFINE t == Taken
            a == [att EXCEPT !.moved = t]
<1>3. t \in BOOLEAN
  BY DEF Taken
<1>4. \/ Deliver51(a)
      \/ (Fails(a) \/ Asks(a) \/ EndsWith(a, "indeterminate", FALSE)) /\ UNCHANGED confused
  BY DEF After51
<1>5. UNCHANGED <<Rest51, received, page>> /\ trouble' \in 0..MaxTrouble /\ UNCHANGED <<platform, run>>
  BY DEF After51, SenderInv, TypeOK, Rest51, Kept
<1>. HIDE DEF t
<1>6. a \in Attempts /\ Claims(a) = Claims(att)
  BY <1>2, <1>3 DEF Attempts, Claims
<1>. HIDE DEF a
<1>7. /\ att' \in Attempts /\ Claims(att') = Claims(att) /\ pc' = "append"
      /\ confused \subseteq confused' /\ confused' \subseteq Jobs
      /\ \/ att'.out \in {"failed", "indeterminate"}
         \/ att'.out = "delivered" /\ (Got(run.job)' \/ run.job \in confused')
  <2>1. CASE (Fails(a) \/ Asks(a) \/ EndsWith(a, "indeterminate", FALSE)) /\ UNCHANGED confused
    BY <1>6, <2>1, Ending DEF Fails, Asks, Outcomes, SenderInv, TypeOK
  <2>2. CASE Deliver51(a)
    BY <1>1, <1>5, <1>6, <2>2, Delivered51
  <2>. QED
    BY <1>4, <2>1, <2>2
<1>8. Honest
  BY <1>1, <1>2, <1>7, Claims51 DEF Claims
<1>9. Leads /\ Counted'
  BY <1>1, <1>7, Places DEF Leads, Counted, BossAt, LiepinAt, ZhilianAt, Clicking51
<1>10. Looked'
  BY <1>2, <1>5, <1>7 DEF Looked, Rest51
<1>. QED
  BY <1>1, <1>2, <1>5, <1>7, <1>8, <1>9, <1>10, LooksOn51

LEMMA Bound51Step == ASSUME SenderInv, Bound51 PROVE SenderInv'
<1>1. pc = "bound51" /\ pc \in Looking51 /\ pc \in Working
  BY DEF Bound51, Looking51, Working
<1>2. /\ att \in Attempts /\ att.out = "none" /\ run.job \in Jobs
      /\ \A j \in Jobs : drafts[j] = "none"
  BY <1>1, Where51
<1>. DEFINE n == log[Job].tries + 1
            a == [att EXCEPT !.recon = n]
<1>3. n \in 1..3 /\ log[Job].tries \in 0..2
  <2>1. log[run.job].outcome = "pending" /\ log[run.job].tries \in 0..3
    BY <1>1, <1>2 DEF SenderInv, Entered, TypeOK, Entries
  <2>2. log[run.job].tries <= 2
    BY <1>2, <2>1 DEF SenderInv, LogTrue, ReconcileLimit
  <2>. QED
    BY <2>1, <2>2 DEF Job
<1>4. \/ EndsWith(a, "unresolved", FALSE)
      \/ n <= ReconcileLimit /\ att' = a /\ pc' = "reopen51"
  <2>1. \/ EndsWith(a, "unresolved", FALSE)
        \/ log[Job].tries < ReconcileLimit /\ att' = a /\ pc' = "reopen51"
    BY DEF Bound51, Goto
  <2>2. log[Job].tries < ReconcileLimit => n <= ReconcileLimit
    BY <1>3 DEF ReconcileLimit
  <2>. QED
    BY <2>1, <2>2
<1>5. UNCHANGED <<Rest51, received, page>> /\ UNCHANGED <<trouble, confused>>
  BY DEF Bound51
<1>. HIDE DEF n
<1>6. /\ a \in Attempts /\ a.resumed = att.resumed /\ a.greeted = att.greeted /\ a.out = "none"
      /\ a.recon = n
  BY <1>2, <1>3 DEF Attempts
<1>. HIDE DEF a
<1>7. /\ att' \in Attempts /\ att'.resumed = att.resumed /\ att'.greeted = att.greeted
      /\ \/ pc' = "append" /\ att'.out = "unresolved"
         \/ pc' = "reopen51" /\ att'.out = "none" /\ att'.recon <= ReconcileLimit
  BY <1>4, <1>6, Ending DEF Outcomes, Claims
<1>8. Honest
  BY <1>1, <1>7, Claims51 DEF Working, Looking51
<1>9. Leads /\ Counted' /\ pc' \notin Working \ Opening
  BY <1>1, <1>7, Places DEF Leads, Counted, BossAt, LiepinAt, ZhilianAt, Clicking51, Looking51, Opening
<1>10. Looked'
  BY <1>2, <1>5, <1>7 DEF Looked, Rest51
<1>. QED
  BY <1>1, <1>5, <1>7, <1>8, <1>9, <1>10, LooksOn51 DEF SenderInv, TypeOK

\* The next look at a clicked job, or the end of the looks.
LEMMA Candidate51 ==
    ASSUME SenderInv, pc \in Looking51, NextCandidate
    PROVE  /\ att' \in Attempts /\ Claims(att') = Claims(att)
           /\ \/ pc' = "append" /\ att'.out \in {"unresolved", "indeterminate"}
              \/ pc' = "reopen51" /\ att'.out = "none"
<1>1. att \in Attempts /\ att.out = "none"
  BY Where51
<1>2. \/ EndsWith(att, "unresolved", FALSE) \/ EndsWith(att, "indeterminate", FALSE)
      \/ pc' = "reopen51" /\ att' = [att EXCEPT !.second = TRUE]
  BY DEF NextCandidate, Undecided, Goto
<1>3. CASE EndsWith(att, "unresolved", FALSE) \/ EndsWith(att, "indeterminate", FALSE)
  BY <1>1, <1>3, Ending DEF Outcomes
<1>. QED
  BY <1>1, <1>2, <1>3 DEF Attempts, Claims

LEMMA Reconcile51Step == ASSUME SenderInv, Reconcile51 PROVE SenderInv'
<1>1. pc = "reopen51" /\ pc \in Looking51
  BY DEF Reconcile51, Looking51
<1>2. UNCHANGED <<platform, gone, need, log, round, run, received, contacted, drafts, confused>>
  BY DEF Reconcile51, Rest51, Kept
<1>3. Onward
  BY <1>2 DEF Onward
<1>4. /\ page' \in PageTypes /\ PageTrue' /\ trouble' \in 0..MaxTrouble
      /\ att' \in Attempts /\ Claims(att') = Claims(att)
      /\ \/ pc' = "append" /\ att'.out \in {"unresolved", "indeterminate"}
         \/ pc' = "reopen51" /\ att'.out = "none"
         \/ pc' = "relook51" /\ page'.job = run.job /\ att'.out = "none"
  <2>1. ASSUME NEW at \in {"recovery", "detail"}, Load(Job, at), Goto("relook51"), UNCHANGED att
        PROVE  /\ page' \in PageTypes /\ PageTrue' /\ trouble' \in 0..MaxTrouble
               /\ att' \in Attempts /\ Claims(att') = Claims(att)
               /\ pc' = "relook51" /\ page'.job = run.job /\ att'.out = "none"
    BY <1>1, <1>3, <2>1, Where51, LoadedPage DEF Job, Goto, SenderInv
  <2>2. CASE Trouble /\ UNCHANGED page /\ NextCandidate
    BY <1>1, <1>3, <2>2, Where51, PageStays, TroubleBound, Candidate51 DEF SenderInv
  <2>. QED
    BY <2>1, <2>2 DEF Reconcile51
<1>5. Honest
  BY <1>1, <1>4, Where51, Claims51 DEF Claims, Working, Looking51
<1>6. TypeOK'
  BY <1>2, <1>4 DEF SenderInv, TypeOK
<1>7. Leads /\ Counted'
  BY <1>1, <1>4, Places DEF Leads, Counted, BossAt, LiepinAt, ZhilianAt, Clicking51, Looking51
<1>8. Looked'
  BY <1>1, <1>2, <1>4, Where51 DEF Looked
<1>. QED
  BY <1>1, <1>2, <1>3, <1>4, <1>5, <1>6, <1>7, <1>8, AttemptGoesOn, Places DEF Opening

LEMMA Relook51Step == ASSUME SenderInv, Relook51 PROVE SenderInv'
<1>1. pc = "relook51" /\ pc \in Looking51 /\ pc \in At51
  BY DEF Relook51, Looking51, At51, Opening
<1>2. /\ att \in Attempts /\ att.recon <= ReconcileLimit /\ att.out = "none"
      /\ page.job = run.job /\ \A j \in Jobs : drafts[j] = "none"
  BY <1>1, Where51 DEF At51
<1>3. \/ (Fails(att) \/ Asks(att)) /\ UNCHANGED confused
      \/ Deliver51(att)
      \/ NextCandidate /\ UNCHANGED confused
  BY DEF Relook51
<1>4. UNCHANGED <<Rest51, received, page>> /\ trouble' \in 0..MaxTrouble /\ UNCHANGED <<platform, run>>
  BY DEF Relook51, SenderInv, TypeOK, Rest51, Kept
<1>5. /\ att' \in Attempts /\ Claims(att') = Claims(att)
      /\ confused \subseteq confused' /\ confused' \subseteq Jobs
      /\ \/ /\ pc' = "append"
            /\ \/ att'.out \in {"failed", "unresolved", "indeterminate"}
               \/ att'.out = "delivered" /\ (Got(run.job)' \/ run.job \in confused')
         \/ pc' = "reopen51" /\ att'.out = "none"
  <2>1. CASE (Fails(att) \/ Asks(att)) /\ UNCHANGED confused
    BY <1>2, <2>1, Ending DEF Fails, Asks, Outcomes, SenderInv, TypeOK
  <2>2. CASE Deliver51(att)
    BY <1>1, <1>2, <1>4, <2>2, Delivered51
  <2>3. CASE NextCandidate /\ UNCHANGED confused
    BY <1>1, <2>3, Candidate51 DEF SenderInv, TypeOK
  <2>. QED
    BY <1>3, <2>1, <2>2, <2>3
<1>6. Honest
  BY <1>1, <1>2, <1>5, Claims51 DEF Claims, Working, Looking51
<1>7. Leads /\ Counted'
  BY <1>1, <1>5, Places DEF Leads, Counted, BossAt, LiepinAt, ZhilianAt, Clicking51, Looking51
<1>8. Looked'
  BY <1>2, <1>4, <1>5 DEF Looked, Rest51
<1>. QED
  BY <1>1, <1>2, <1>4, <1>5, <1>6, <1>7, <1>8, LooksOn51

LEMMA Job51Steps == ASSUME SenderInv, Job51Step PROVE SenderInv'
BY Open51Step, Look51Step, Reload51Step, Click51Step, Recover51Step, After51Step, Bound51Step,
   Reconcile51Step, Relook51Step DEF Job51Step

-----------------------------------------------------------------------------
\* The runs.
LEMMA PagesOf == NoPage \in PageTypes /\ NoAttempt \in Attempts
<1>1. NoPage \in PageTypes
  BY SenderAssumption DEF NoPage, PageTypes, Marks
<1>2. NoAttempt \in Attempts
  BY DEF NoAttempt, Attempts, Outcomes
<1>. QED
  BY <1>1, <1>2

LEMMA NoRunIs ==
    /\ NoRun \in Runs /\ \A j \in Jobs : NoRun.res[j] = "none"
    /\ NoRun.job = 1 /\ NoRun.dry = FALSE
<1>1. [j \in Jobs |-> "none"] \in [Jobs -> Outcomes]
  BY DEF Outcomes
<1>. QED
  BY <1>1, SenderAssumption DEF NoRun, Runs, Jobs

\* Nothing of what the invariant says of an attempt or of a run is left when neither is under way.
LEMMA NothingUnderWay ==
    ASSUME SenderInv, TypeOK', pc' \in {"idle", "login", "next", "finish"}, att' = NoAttempt,
           UNCHANGED <<platform, site, confused>>
    PROVE  Placed' /\ Counted' /\ AttTrue' /\ Confined' /\ Entered' /\ Looked'
<1>1. pc' \notin Working \cup {"append"}
  BY Places
<1>2. Placed'
  BY <1>1, Places DEF Placed
<1>3. Counted'
  BY <1>1, Places DEF Counted, NoAttempt, BossAt, LiepinAt, ZhilianAt, Clicking51
<1>4. AttTrue'
  BY <1>1 DEF AttTrue, NoAttempt, ReconcileLimit
<1>5. Confined'
  BY DEF SenderInv, Confined, site
<1>6. Entered'
  BY <1>1, Places DEF Entered
<1>7. Looked'
  BY <1>1, Places DEF SenderInv, Looked, Has, site, BossAt, LiepinAt, ZhilianAt, Clicking51
<1>. QED
  BY <1>2, <1>3, <1>4, <1>5, <1>6, <1>7

\* What has arrived is the same, and so is what the log says of it.
LEMMA LogStays ==
    ASSUME SenderInv, UNCHANGED <<platform, received, contacted, confused, log>>
    PROVE  LogTrue'
BY DEF SenderInv, LogTrue, Got, Wanted, Has

LEMMA SamePage ==
    ASSUME SenderInv, UNCHANGED <<platform, received, contacted>>, page' \in {page, NoPage}
    PROVE  PageTrue'
BY DEF SenderInv, PageTrue, NoPage

LEMMA BeginStep ==
    ASSUME SenderInv, NEW upto \in Jobs, NEW dry \in BOOLEAN, NEW stop \in BOOLEAN,
           Begin(upto, dry, stop)
    PROVE  SenderInv'
<1>1. pc' = "login" /\ pc = "idle" /\ att' = att /\ att = NoAttempt
  BY Places DEF Begin, SenderInv, AttTrue
<1>2. UNCHANGED <<platform, site, need, page, confused, trouble, log>>
  BY DEF Begin, Stays
<1>3. /\ run' \in Runs /\ \A j \in Jobs : run'.res[j] = "none"
  <2>1. run' = [NoRun EXCEPT !.upto = upto, !.dry = dry, !.stop = stop]
    BY DEF Begin
  <2>2. run' \in Runs /\ run'.res = NoRun.res
    BY <2>1, NoRunIs DEF Runs
  <2>. QED
    BY <2>2, NoRunIs
<1>4. TypeOK'
  BY <1>1, <1>2, <1>3, PagesOf DEF SenderInv, TypeOK, Begin, site
<1>5. Placed' /\ Counted' /\ AttTrue' /\ Confined' /\ Entered' /\ Looked'
  BY <1>1, <1>2, <1>4, NothingUnderWay
<1>6. LogTrue' /\ PageTrue'
  BY <1>2, LogStays, SamePage DEF site
<1>7. RunTrue' /\ SentTrue'
  BY <1>3 DEF RunTrue, SentTrue, Begin
<1>. QED
  BY <1>4, <1>5, <1>6, <1>7 DEF SenderInv

LEMMA LoginStep == ASSUME SenderInv, Login PROVE SenderInv'
<1>1. /\ pc = "login" /\ att = NoAttempt
      /\ \/ pc' = "next" /\ UNCHANGED <<run, att, round>>
         \/ pc' = "idle" /\ run' = NoRun /\ att' = NoAttempt /\ round' = "blocked"
      /\ UNCHANGED <<platform, site, need, log, confused>> /\ page' \in {page, NoPage}
      /\ Calm \/ Trouble
  BY Places DEF Login, Idles, SenderInv, AttTrue
<1>2. TypeOK'
  BY <1>1, PagesOf, NoRunIs, TroubleBound DEF SenderInv, TypeOK, site
<1>3. Placed' /\ Counted' /\ AttTrue' /\ Confined' /\ Entered' /\ Looked'
  BY <1>1, <1>2, NothingUnderWay
<1>4. LogTrue' /\ PageTrue'
  BY <1>1, LogStays, SamePage DEF site
<1>5. RunTrue'
  BY <1>1, NoRunIs DEF SenderInv, RunTrue
<1>6. SentTrue'
  BY <1>1 DEF SenderInv, SentTrue
<1>. QED
  BY <1>2, <1>3, <1>4, <1>5, <1>6 DEF SenderInv

LEMMA DieStep == ASSUME SenderInv, Die PROVE SenderInv'
<1>1. /\ pc # "idle" /\ pc' = "idle" /\ run' = NoRun /\ att' = NoAttempt
      /\ UNCHANGED <<platform, site, need, page, log, round, confused>>
      /\ Calm \/ Trouble
  BY DEF Die, Idles
<1>2. TypeOK'
  BY <1>1, PagesOf, NoRunIs, TroubleBound DEF SenderInv, TypeOK, site
<1>3. Placed' /\ Counted' /\ AttTrue' /\ Confined' /\ Entered' /\ Looked'
  BY <1>1, <1>2, NothingUnderWay
<1>4. LogTrue' /\ PageTrue'
  BY <1>1, LogStays, SamePage DEF site
<1>5. RunTrue' /\ SentTrue'
  BY <1>1, NoRunIs DEF SenderInv, RunTrue, SentTrue
<1>. QED
  BY <1>2, <1>3, <1>4, <1>5 DEF SenderInv

\* A platform counts as sent by the results of a run that went through the whole list, and
\* those are in the log.
LEMMA FinishStep == ASSUME SenderInv, Finish PROVE SenderInv'
<1>1. /\ pc' = "idle" /\ run' = NoRun /\ att' = NoAttempt
      /\ UNCHANGED <<platform, site, need, page, confused, trouble, log>>
      /\ round' \in {"blocked", "sent", "reviewed"} /\ (round' = "sent" => Complete)
  BY DEF Finish, Idles, Stays
<1>2. TypeOK'
  BY <1>1, PagesOf, NoRunIs DEF SenderInv, TypeOK, site
<1>3. Placed' /\ Counted' /\ AttTrue' /\ Confined' /\ Entered' /\ Looked'
  BY <1>1, <1>2, NothingUnderWay
<1>4. LogTrue' /\ PageTrue'
  BY <1>1, LogStays, SamePage DEF site
<1>5. RunTrue'
  BY <1>1, NoRunIs DEF RunTrue
<1>6. ASSUME Complete, NEW j \in Jobs
      PROVE  \/ log[j].outcome = "delivered"
             \/ platform = "51job" /\ log[j].outcome \in {"unavailable", "unresolved"}
  <2>1. CASE platform = "51job" /\ ~run.dry
    BY <1>6, <2>1 DEF Complete, AllEnded
  <2>2. CASE ~(platform = "51job" /\ ~run.dry)
    <3>1. run.res[j] \in Ended
      BY <1>6, <2>2 DEF Complete, AllEnded
    <3>2. run.dry \in BOOLEAN
      BY DEF SenderInv, TypeOK, Runs
    <3>. QED
      BY <2>2, <3>1, <3>2 DEF SenderInv, RunTrue, Ended
  <2>. QED
    BY <2>1, <2>2
<1>7. SentTrue'
  BY <1>1, <1>6 DEF SentTrue
<1>. QED
  BY <1>2, <1>3, <1>4, <1>5, <1>7 DEF SenderInv

\* A job is begun by what the log says of it.
LEMMA NextJobStep == ASSUME SenderInv, NextJob PROVE SenderInv'
<1>1. /\ pc = "next" /\ run.job <= run.upto /\ run.job \in Jobs
      /\ UNCHANGED <<platform, site, need, page, confused, trouble, run, round, log>>
  BY SenderAssumption DEF NextJob, Stays, Job, SenderInv, TypeOK, Runs, Jobs
<1>2. platform \in {"boss", "liepin", "zhilian", "51job"} /\ run.dry \in BOOLEAN
  BY SenderAssumption DEF SenderInv, TypeOK, Runs
<1>. DEFINE s == Skipped(run.job)
<1>3. /\ s \in {"none", "already", "unavailable", "unresolved"}
      /\ s = "already" => log[run.job].outcome = "delivered"
      /\ s \in {"unavailable", "unresolved"} => platform = "51job" /\ log[run.job].outcome = s
      /\ s = "none" /\ platform = "51job" =>
            log[run.job].outcome \notin {"delivered", "unresolved", "unavailable"}
  BY <1>2 DEF Skipped
<1>4. \/ s # "none" /\ EndsWith(NoAttempt, s, FALSE)
      \/ s = "none" /\ run.dry /\ EndsWith(NoAttempt, "dry", FALSE)
      \/ /\ s = "none" /\ ~run.dry /\ att' = NoAttempt
         /\ pc' = IF platform = "51job" /\ log[run.job].outcome = "pending" THEN "bound51" ELSE Opened
  BY DEF NextJob, Job
<1>. HIDE DEF s
<1>5. /\ att' \in Attempts /\ ~att'.resumed /\ ~att'.greeted /\ ~att'.clicked
      /\ att'.recon = 0
      /\ \/ pc' = "append" /\ att'.out = s /\ s # "none"
         \/ pc' = "append" /\ att'.out = "dry"
         \/ /\ att'.out = "none" /\ att'.tries = 0 /\ s = "none" /\ ~run.dry
            /\ pc' = IF platform = "51job" /\ log[run.job].outcome = "pending" THEN "bound51" ELSE Opened
  <2>1. ASSUME NEW o \in {"dry", "already", "unavailable", "unresolved"}, EndsWith(NoAttempt, o, FALSE)
        PROVE  /\ att' \in Attempts /\ ~att'.resumed /\ ~att'.greeted /\ ~att'.clicked
               /\ att'.recon = 0 /\ pc' = "append" /\ att'.out = o
    <3>1. NoAttempt \in Attempts /\ o \in Outcomes /\ Claims(NoAttempt) = <<FALSE, FALSE, FALSE, 0>>
      BY PagesOf DEF Outcomes, NoAttempt, Claims
    <3>. QED
      BY <2>1, <3>1, Ending DEF Claims
  <2>2. CASE s # "none" /\ EndsWith(NoAttempt, s, FALSE)
    BY <1>3, <2>1, <2>2
  <2>3. CASE EndsWith(NoAttempt, "dry", FALSE)
    BY <2>1, <2>3
  <2>4. CASE /\ s = "none" /\ ~run.dry /\ att' = NoAttempt
             /\ pc' = IF platform = "51job" /\ log[run.job].outcome = "pending" THEN "bound51"
                      ELSE Opened
    <3>1. /\ NoAttempt.out = "none" /\ NoAttempt.tries = 0 /\ ~NoAttempt.resumed
          /\ ~NoAttempt.greeted /\ ~NoAttempt.clicked /\ NoAttempt.recon = 0
      BY DEF NoAttempt
    <3>. QED
      BY <2>4, <3>1, PagesOf
  <2>. QED
    BY <1>4, <2>2, <2>3, <2>4
<1>6. \/ pc' = "append"
      \/ pc' = "openB" /\ platform = "boss"
      \/ pc' = "openL" /\ platform = "liepin"
      \/ pc' = "openZ" /\ platform = "zhilian"
      \/ pc' = "open51" /\ platform = "51job" /\ log[run.job].outcome # "pending"
      \/ pc' = "bound51" /\ platform = "51job" /\ log[run.job].outcome = "pending"
  BY <1>2, <1>5 DEF Opened
<1>7. TypeOK'
  BY <1>1, <1>5 DEF SenderInv, TypeOK, site
<1>8. Placed'
  BY <1>1, <1>5, <1>6, Places DEF Placed, Opening, Working, BossAt, LiepinAt, ZhilianAt, Clicking51, Looking51
<1>9. Counted'
  <2>1. CASE pc' = "append"
    BY <2>1, Places DEF Counted, BossAt, ZhilianAt, Clicking51
  <2>2. CASE att'.tries = 0
    BY <2>2 DEF Counted
  <2>. QED
    BY <1>5, <2>1, <2>2
<1>10. AttTrue'
  <2>1. pc' \in Working \cup {"append"} /\ (pc' \in Working => att'.out = "none")
    BY <1>5, <1>6, Places DEF BossAt, LiepinAt, ZhilianAt, Clicking51, Looking51
  <2>2. att'.out # "delivered" /\ att'.out \notin {"failed", "indeterminate"}
    BY <1>3, <1>5
  <2>3. /\ att'.out = "already" => log[run.job].outcome = "delivered"
        /\ att'.out \in {"unavailable", "unresolved"} => platform = "51job" /\ log[run.job].outcome = att'.out
    BY <1>3, <1>5
  <2>. QED
    BY <1>1, <1>5, <2>1, <2>2, <2>3 DEF AttTrue, ReconcileLimit
<1>11. Confined' /\ LogTrue' /\ PageTrue'
  BY <1>1, LogStays, SamePage DEF SenderInv, Confined, site
<1>12. Entered'
  BY <1>1, <1>3, <1>5, <1>6, Places DEF Entered, Clicking51, Looking51
<1>13. RunTrue' /\ SentTrue'
  BY <1>1 DEF SenderInv, RunTrue, SentTrue
<1>14. Looked'
  BY <1>1, <1>6 DEF SenderInv, Looked, Has, site
<1>. QED
  BY <1>7, <1>8, <1>9, <1>10, <1>11, <1>12, <1>13, <1>14 DEF SenderInv

\* What the log makes of an attempt.
LEMMA ReducedIs ==
    ASSUME NEW s \in Entries, NEW a \in Attempts
    PROVE  /\ Reduced(s, a) \in Entries
           /\ Reduced(s, a).outcome = Outcome(s, a, s.click \/ a.clicked)
           /\ Reduced(s, a).resume = (s.resume \/ a.resumed)
           /\ Reduced(s, a).click = (s.click \/ a.clicked)
           /\ Reduced(s, a).tries \in {s.tries, a.recon}
<1>. DEFINE o == Outcome(s, a, s.click \/ a.clicked)
            r == s.resume \/ a.resumed
            c == s.click \/ a.clicked
            m == s.moved \/ a.moved
            n == IF a.recon > s.tries THEN a.recon ELSE s.tries
<1>1. o \in {"failed", "delivered", "unavailable", "unresolved", "pending", "planned"}
  BY DEF Outcome
<1>2. r \in BOOLEAN /\ c \in BOOLEAN /\ m \in BOOLEAN
  OBVIOUS
<1>3. n \in 0..3 /\ n \in {s.tries, a.recon}
  BY DEF Entries, Attempts
<1>4. Reduced(s, a) = [outcome |-> o, resume |-> r, click |-> c, moved |-> m, tries |-> n]
  BY DEF Reduced
<1>. HIDE DEF r, m, n
<1>. QED
  BY <1>1, <1>2, <1>3, <1>4 DEF Entries, r

LEMMA AppendStep == ASSUME SenderInv, Append PROVE SenderInv'
<1>. DEFINE j == run.job
            s == log[j]
            e == Reduced(s, att)
<1>1. /\ pc = "append" /\ pc' \in {"next", "finish"} /\ att' = NoAttempt
      /\ UNCHANGED <<platform, site, need, page, confused, trouble, round>>
  BY DEF Append, Stays
<1>2. /\ j \in Jobs /\ run \in Runs /\ log \in [Jobs -> Entries] /\ s \in Entries
      /\ att \in Attempts /\ run.job <= run.upto
  BY <1>1, JobIsJob DEF SenderInv, TypeOK, Placed
<1>3. /\ e \in Entries
      /\ e.outcome = Outcome(s, att, s.click \/ att.clicked)
      /\ e.resume = (s.resume \/ att.resumed)
      /\ e.click = (s.click \/ att.clicked)
      /\ e.tries \in {s.tries, att.recon}
  BY <1>2, ReducedIs
<1>4. \/ platform = "boss" /\ att.out \in {"already", "dry"} /\ log' = log
      \/ ~(platform = "boss" /\ att.out \in {"already", "dry"}) /\ log' = [log EXCEPT ![j] = e]
  BY DEF Append, Job
<1>5. run' = [run EXCEPT !.res[j] = att.out, !.job = @ + 1, !.asked = @ \/ att.asked]
  BY DEF Append, Job
<1>6. /\ run' \in Runs /\ run'.job = run.job + 1 /\ run'.dry = run.dry
      /\ run'.res[j] = att.out /\ \A k \in Jobs : k # j => run'.res[k] = run.res[k]
  <2>. DEFINE res == [run.res EXCEPT ![j] = att.out]
              asked == run.asked \/ att.asked
  <2>1. res \in [Jobs -> Outcomes] /\ asked \in BOOLEAN
    BY <1>2 DEF Runs, Attempts
  <2>2. res[j] = att.out /\ \A k \in Jobs : k # j => res[k] = run.res[k]
    BY <1>2 DEF Runs
  <2>3. run.job + 1 \in 1..LastJob + 1
    BY <1>2, SenderAssumption DEF Runs, Jobs
  <2>4. run' = [run EXCEPT !.res = res, !.job = run.job + 1, !.asked = asked]
    BY <1>5
  <2>. HIDE DEF res, asked
  <2>. QED
    BY <1>2, <2>1, <2>2, <2>3, <2>4 DEF Runs
<1>. HIDE DEF j, s, e
<1>7. TypeOK'
  BY <1>1, <1>2, <1>3, <1>4, <1>6, PagesOf DEF SenderInv, TypeOK, site
<1>8. Placed' /\ Counted' /\ AttTrue' /\ Confined' /\ Entered' /\ Looked'
  BY <1>1, <1>7, NothingUnderWay
<1>9. PageTrue'
  BY <1>1, SamePage DEF site
<1>10. \A k \in Jobs : k # j => log'[k] = log[k]
  BY <1>2, <1>4
<1>11. log'[j] = s \/ log'[j] = e
  BY <1>2, <1>4 DEF s
<1>12. /\ att.out = "delivered" => Got(j) \/ j \in confused
       /\ att.out = "already" => s.outcome = "delivered"
       /\ att.resumed => Has(j, "resume")
       /\ att.clicked => platform = "51job" /\ ~run.dry
       /\ att.out \in {"unavailable", "unresolved", "indeterminate"} => platform = "51job"
       /\ run.dry /\ att.out \in {"unavailable", "unresolved"} => s.outcome = att.out
       /\ att.recon <= ReconcileLimit \/ att.out = "unresolved"
  BY DEF SenderInv, AttTrue, j, s
<1>13. /\ j \notin confused /\ s.outcome = "delivered" => Got(j)
       /\ j \notin confused /\ s.resume => Has(j, "resume")
       /\ s.outcome \in {"unavailable", "unresolved", "pending"} => platform = "51job"
       /\ s.click => platform = "51job" /\ s.outcome \in {"delivered", "unresolved", "pending"}
       /\ s.tries <= ReconcileLimit \/ s.outcome \in {"delivered", "unresolved"}
  BY <1>2 DEF SenderInv, LogTrue, s
<1>14. /\ j \notin confused /\ e.outcome = "delivered" => Got(j)
       /\ j \notin confused /\ e.resume => Has(j, "resume")
       /\ e.outcome \in {"unavailable", "unresolved", "pending"} => platform = "51job"
       /\ e.click => platform = "51job" /\ e.outcome \in {"delivered", "unresolved", "pending"}
       /\ e.tries <= ReconcileLimit \/ e.outcome \in {"delivered", "unresolved"}
  BY <1>3, <1>12, <1>13 DEF Outcome
<1>15. \A k \in Jobs : Got(k)' = Got(k) /\ Has(k, "resume")' = Has(k, "resume")
  BY <1>1 DEF Got, Wanted, Has, site
<1>16. LogTrue'
  <2>. SUFFICES ASSUME NEW k \in Jobs
       PROVE  (/\ k \notin confused /\ log[k].outcome = "delivered" => Got(k)
               /\ k \notin confused /\ log[k].resume => Has(k, "resume")
               /\ log[k].outcome \in {"unavailable", "unresolved", "pending"} => platform = "51job"
               /\ log[k].click => platform = "51job"
                                  /\ log[k].outcome \in {"delivered", "unresolved", "pending"}
               /\ log[k].tries <= ReconcileLimit \/ log[k].outcome \in {"delivered", "unresolved"})'
    BY DEF LogTrue
  <2>1. UNCHANGED <<platform, confused, received, contacted>>
    BY <1>1 DEF site
  <2>2. CASE k = j
    BY <1>11, <1>13, <1>14, <2>1, <2>2 DEF Got, Wanted, Has
  <2>3. CASE k # j
    BY <1>10, <2>1, <2>3 DEF SenderInv, LogTrue, Got, Wanted, Has
  <2>. QED
    BY <2>2, <2>3
<1>17. RunTrue'
  <2>. SUFFICES ASSUME NEW k \in Jobs
       PROVE  (/\ run.res[k] \in {"delivered", "already"} => log[k].outcome = "delivered"
               /\ run.res[k] \in {"unavailable", "unresolved"} =>
                     /\ platform = "51job"
                     /\ run.dry => log[k].outcome = run.res[k]
               /\ run.res[k] # "none" => k < run.job)'
    BY DEF RunTrue
  <2>1. platform' = platform
    BY <1>1
  <2>2. k \in Nat /\ run.job \in Nat
    BY <1>2 DEF Jobs, Runs
  <2>3. CASE k = j
    <3>1. att.out \in {"delivered", "already"} => log'[j].outcome = "delivered"
      BY <1>2, <1>3, <1>4, <1>12 DEF Outcome, s
    <3>2. run.dry /\ att.out \in {"unavailable", "unresolved"} => log'[j].outcome = att.out
      BY <1>2, <1>3, <1>4, <1>12, <1>13 DEF Outcome
    <3>3. k < run'.job
      BY <1>6, <2>2, <2>3 DEF j
    <3>. QED
      BY <1>6, <1>12, <2>1, <2>3, <3>1, <3>2, <3>3
  <2>4. CASE k # j
    <3>1. run'.res[k] = run.res[k] /\ log'[k] = log[k] /\ run'.dry = run.dry /\ run'.job = run.job + 1
      BY <1>6, <1>10, <2>4
    <3>. QED
      BY <2>1, <2>2, <3>1 DEF SenderInv, RunTrue
  <2>. QED
    BY <2>3, <2>4
<1>18. SentTrue'
  BY <1>1 DEF SenderInv, SentTrue
<1>. QED
  BY <1>7, <1>8, <1>9, <1>16, <1>17, <1>18 DEF SenderInv

-----------------------------------------------------------------------------
\* The site and the person.
LEMMA AttendStep ==
    ASSUME SenderInv, need' \in {"none", "login", "user"}, trouble' \in 0..MaxTrouble,
           UNCHANGED <<platform, site, page, log, round, pc, run, att, confused>>
    PROVE  SenderInv'
<1>1. TypeOK'
  BY DEF SenderInv, TypeOK, site
<1>2. Placed' /\ Counted' /\ PageTrue' /\ Confined' /\ Entered' /\ RunTrue' /\ SentTrue'
  BY DEF SenderInv, Placed, Counted, PageTrue, Confined, Entered, RunTrue, SentTrue, site
<1>3. AttTrue' /\ Looked' /\ LogTrue'
  BY DEF SenderInv, AttTrue, Looked, LogTrue, Got, Wanted, Has, site
<1>. QED
  BY <1>1, <1>2, <1>3 DEF SenderInv

LEMMA WithdrawStep == ASSUME SenderInv, NEW j \in Jobs, Withdraw(j) PROVE SenderInv'
<1>1. /\ UNCHANGED <<platform, received, contacted, drafts, need, page, log, round, pc, run, att, confused>>
      /\ gone' \subseteq Jobs /\ trouble' \in 0..MaxTrouble
  BY TroubleBound DEF Withdraw, SenderInv, TypeOK
<1>2. TypeOK'
  BY <1>1 DEF SenderInv, TypeOK
<1>3. Placed' /\ Counted' /\ PageTrue' /\ Confined' /\ Entered' /\ RunTrue' /\ SentTrue'
  BY <1>1 DEF SenderInv, Placed, Counted, PageTrue, Confined, Entered, RunTrue, SentTrue
<1>4. AttTrue' /\ Looked' /\ LogTrue'
  BY <1>1 DEF SenderInv, AttTrue, Looked, LogTrue, Got, Wanted, Has
<1>. QED
  BY <1>2, <1>3, <1>4 DEF SenderInv

LEMMA RenderStep == ASSUME SenderInv, Render PROVE SenderInv'
<1>1. /\ UNCHANGED <<platform, site, need, log, round, pc, run, att, confused, trouble>>
      /\ page' = [page EXCEPT !.shows = page.shows \cup MarksOf(page.job)]
      /\ page \in PageTypes /\ page.job \in Jobs
  BY DEF Render, SenderInv, TypeOK, PageTypes, Jobs
<1>2. MarksOf(page.job) \subseteq Marks
  BY DEF MarksOf, Marks, Parts
<1>3. /\ page' \in PageTypes /\ page'.job = page.job
      /\ page'.shows = page.shows \cup MarksOf(page.job)
  BY <1>1, <1>2 DEF PageTypes
<1>4. PageTrue'
  BY <1>1, <1>3 DEF SenderInv, PageTrue, MarksOf, Parts, Has, site
<1>5. TypeOK'
  BY <1>1, <1>3 DEF SenderInv, TypeOK, site
<1>6. Placed' /\ Counted' /\ Confined' /\ Entered' /\ RunTrue' /\ SentTrue'
  BY <1>1, <1>3 DEF SenderInv, Placed, Counted, Confined, Entered, RunTrue, SentTrue, site
<1>7. AttTrue' /\ LogTrue'
  BY <1>1 DEF SenderInv, AttTrue, LogTrue, Got, Wanted, Has, site
<1>8. Looked'
  BY <1>1, <1>3 DEF SenderInv, Looked, Has, site
<1>. QED
  BY <1>4, <1>5, <1>6, <1>7, <1>8 DEF SenderInv

LEMMA SenderInit == Init => SenderInv
<1>. SUFFICES ASSUME Init PROVE SenderInv
  OBVIOUS
<1>1. [j \in Jobs |-> NoEntry] \in [Jobs -> Entries]
  BY DEF NoEntry, Entries
<1>2. [j \in Jobs |-> [p \in Parts |-> 0]] \in [Jobs -> [Parts -> 0..2]]
  OBVIOUS
<1>3. TypeOK
  BY <1>1, <1>2, PagesOf, NoRunIs, SenderAssumption DEF Init, TypeOK
<1>4. pc = "idle" /\ pc \notin Working
  BY Places DEF Init
<1>5. Placed /\ Counted /\ Entered
  BY <1>4, Places DEF Placed, Counted, Entered, BossAt, LiepinAt, ZhilianAt, Clicking51
<1>6. PageTrue /\ Confined /\ SentTrue
  BY DEF Init, PageTrue, Confined, SentTrue, NoPage
<1>7. AttTrue
  BY <1>4 DEF Init, AttTrue, NoAttempt, ReconcileLimit
<1>8. LogTrue
  BY DEF Init, LogTrue, NoEntry, ReconcileLimit
<1>9. RunTrue
  BY NoRunIs DEF Init, RunTrue
<1>10. Looked
  BY DEF Init, Looked, Has
<1>. QED
  BY <1>3, <1>5, <1>6, <1>7, <1>8, <1>9, <1>10 DEF SenderInv

LEMMA SenderNext == SenderInv /\ [Next]_vars => SenderInv'
<1>. SUFFICES ASSUME SenderInv, [Next]_vars PROVE SenderInv'
  OBVIOUS
<1>1. CASE Step
  BY <1>1, BossSteps, LiepinSteps, ZhilianSteps, Job51Steps, LoginStep, NextJobStep, AppendStep,
     FinishStep DEF Step
<1>2. ASSUME NEW upto \in Jobs, NEW dry \in BOOLEAN, NEW stop \in BOOLEAN, Begin(upto, dry, stop)
      PROVE  SenderInv'
  BY <1>2, BeginStep
<1>3. CASE Die
  BY <1>3, DieStep
<1>4. CASE Interrupt \/ Attend
  <2>1. /\ need' \in {"none", "login", "user"} /\ trouble' \in 0..MaxTrouble
        /\ UNCHANGED <<platform, site, page, log, round, pc, run, att, confused>>
    BY <1>4, TroubleBound DEF Interrupt, Attend, SenderInv, TypeOK
  <2>. QED
    BY <2>1, AttendStep
<1>5. CASE Render
  BY <1>5, RenderStep
<1>6. ASSUME NEW j \in Jobs, Withdraw(j) PROVE SenderInv'
  BY <1>6, WithdrawStep
<1>7. CASE UNCHANGED vars
  <2>1. /\ need' \in {"none", "login", "user"} /\ trouble' \in 0..MaxTrouble
        /\ UNCHANGED <<platform, site, page, log, round, pc, run, att, confused>>
    BY <1>7 DEF vars, site, SenderInv, TypeOK
  <2>. QED
    BY <2>1, AttendStep
<1>. QED
  BY <1>1, <1>2, <1>3, <1>4, <1>5, <1>6, <1>7 DEF Next

\* The invariant of the senders: the conjunction of the parts above is kept by every step.
THEOREM SendersKeepInv == Spec => []SenderInv
BY SenderInit, SenderNext, PTL DEF Spec

\* The senders keep their types.
THEOREM SendersTyped == Spec => []TypeOK
<1>1. SenderInv => TypeOK
  BY DEF SenderInv
<1>. QED
  BY <1>1, SendersKeepInv, PTL

\* What the log says was delivered has arrived, and the resume it speaks of, whatever was late,
\* lost or interrupted (the invariant LogIsTrue).
THEOREM LogAlwaysTrue == Spec => []LogIsTrue
<1>1. SenderInv => LogIsTrue
  BY DEF SenderInv, LogTrue, LogIsTrue
<1>. QED
  BY <1>1, SendersKeepInv, PTL

\* A platform that is sent owes nothing (the invariant SentIsTrue): the round rests on the
\* results of the run, these on the log, and the log on what has arrived.
THEOREM SentOwesNothing == Spec => []SentIsTrue
<1>1. SenderInv => SentIsTrue
  BY DEF SenderInv, SentTrue, LogTrue, SentIsTrue
<1>. QED
  BY <1>1, SendersKeepInv, PTL

-----------------------------------------------------------------------------
\* What a step hands over: a part of the job in hand, which the attempt has looked for before
\* or been misled about and whose click the log does not know; or, where another card is
\* clicked, the resume of a job that did not have it.
OwnHand ==
    \E part \in Parts :
        /\ run.job \in Jobs /\ received' = More(run.job, part)
        /\ Has(run.job, part) => att.blind \/ (part = "greeting" /\ drafts[run.job] = "misled")
        /\ platform = "51job" => ~log[run.job].click
OtherHand ==
    \E k \in Jobs \ {run.job} : ~Has(k, "resume") /\ received' = More(k, "resume")
Hands == received' = received \/ OwnHand \/ OtherHand

LEMMA HandedHands == ASSUME NEW j, NEW part, Handed(j, part)
                     PROVE  received' = received \/ received' = More(j, part)
BY DEF Handed

LEMMA BossHands == ASSUME SenderInv, BossStep PROVE Hands
<1>1. ASSUME SendBoss PROVE Hands
  <2>1. pc = "sendB" /\ run.job \in Jobs /\ platform = "boss" /\ "greeting" \in Parts
    BY <1>1, JobIsJob DEF SendBoss, SenderInv, Placed, Working, BossAt, Parts
  <2>2. received' = received \/ received' = More(run.job, "greeting")
    BY <1>1, HandedHands DEF SendBoss, Sends, Job
  <2>3. Has(run.job, "greeting") => att.blind
    BY <2>1 DEF SenderInv, Looked
  <2>. QED
    BY <2>1, <2>2, <2>3 DEF Hands, OwnHand
<1>2. ASSUME DraftBoss PROVE Hands
  <2>1. pc = "draftB" /\ run.job \in Jobs /\ platform = "boss" /\ "greeting" \in Parts
    BY <1>2, JobIsJob DEF DraftBoss, SenderInv, Placed, Working, BossAt, Parts
  <2>2. \/ received' = received
        \/ drafts[run.job] # "none" /\ received' = More(run.job, "greeting")
    BY <1>2, HandedHands DEF DraftBoss, Sends, Job
  <2>3. drafts[run.job] \in {"none", "fresh", "misled"}
    BY <2>1 DEF SenderInv, TypeOK
  <2>4. drafts[run.job] = "fresh" => ~Has(run.job, "greeting")
    BY <2>1 DEF SenderInv, Looked
  <2>. QED
    BY <2>1, <2>2, <2>3, <2>4 DEF Hands, OwnHand
<1>3. CASE OpenBoss \/ EntryBoss \/ EditorBoss \/ PreverifyBoss \/ FillBoss \/ VerifyBoss
  BY <1>3 DEF OpenBoss, EntryBoss, EditorBoss, PreverifyBoss, FillBoss, VerifyBoss, Hands
<1>. QED
  BY <1>1, <1>2, <1>3 DEF BossStep

LEMMA LiepinHands == ASSUME SenderInv, LiepinStep PROVE Hands
<1>1. ASSUME ResumeLiepin \/ ConfirmLiepin PROVE Hands
  <2>1. /\ pc \in {"resumeL", "confirmL"} /\ run.job \in Jobs /\ platform = "liepin"
        /\ "resume" \in Parts
    BY <1>1, JobIsJob DEF ResumeLiepin, ConfirmLiepin, SenderInv, Placed, Working, LiepinAt, Parts
  <2>2. received' = received \/ received' = More(run.job, "resume")
    BY <1>1, HandedHands DEF ResumeLiepin, ConfirmLiepin, Job
  <2>3. Has(run.job, "resume") => att.blind
    BY <2>1 DEF SenderInv, Looked
  <2>. QED
    BY <2>1, <2>2, <2>3 DEF Hands, OwnHand
<1>2. ASSUME GreetLiepin PROVE Hands
  <2>1. pc = "greetL" /\ run.job \in Jobs /\ platform = "liepin" /\ "greeting" \in Parts
    BY <1>2, JobIsJob DEF GreetLiepin, SenderInv, Placed, Working, LiepinAt, Parts
  <2>2. received' = received \/ (~att.greeted /\ received' = More(run.job, "greeting"))
    BY <1>2, HandedHands DEF GreetLiepin, Job
  <2>3. ~att.greeted /\ Has(run.job, "greeting") => att.blind
    BY <2>1 DEF SenderInv, Looked
  <2>. QED
    BY <2>1, <2>2, <2>3 DEF Hands, OwnHand
<1>3. CASE \/ OpenLiepin \/ InspectLiepin \/ EntryLiepin \/ ChatLiepin \/ PollLiepin
           \/ ConfirmedLiepin \/ SentLiepin \/ EndLiepin
  BY <1>3 DEF OpenLiepin, InspectLiepin, EntryLiepin, ChatLiepin, PollLiepin, ConfirmedLiepin,
              SentLiepin, EndLiepin, RestLiepin, Untouched, Hands
<1>. QED
  BY <1>1, <1>2, <1>3 DEF LiepinStep

LEMMA ZhilianHands == ASSUME SenderInv, ZhilianStep PROVE Hands
<1>1. ASSUME EntryZhilian \/ ConfirmZhilian PROVE Hands
  <2>1. /\ pc \in {"entryZ", "confirmZ"} /\ run.job \in Jobs /\ platform = "zhilian"
        /\ "resume" \in Parts
    BY <1>1, JobIsJob DEF EntryZhilian, ConfirmZhilian, SenderInv, Placed, Working, ZhilianAt, Parts
  <2>2. received' = received \/ received' = More(run.job, "resume")
    BY <1>1, HandedHands DEF EntryZhilian, ConfirmZhilian, Press, Idle, Job
  <2>3. Has(run.job, "resume") => att.blind
    BY <2>1 DEF SenderInv, Looked
  <2>. QED
    BY <2>1, <2>2, <2>3 DEF Hands, OwnHand
<1>2. CASE OpenZhilian \/ InspectZhilian \/ DialogZhilian \/ AfterZhilian
  BY <1>2 DEF OpenZhilian, InspectZhilian, DialogZhilian, AfterZhilian, Hands
<1>. QED
  BY <1>1, <1>2 DEF ZhilianStep

\* The click on the job's own card follows a look at it, and only the log of a click that is
\* not known sends an attempt there.
LEMMA Job51Hands == ASSUME SenderInv, Job51Step PROVE Hands
<1>1. ASSUME Click51 PROVE Hands
  <2>1. /\ pc = "click51" /\ pc \in Clicking51 /\ run.job \in Jobs /\ platform = "51job"
        /\ "resume" \in Parts
    BY <1>1, JobIsJob DEF Click51, SenderInv, Placed, Working, Clicking51, Parts
  <2>2. ~log[run.job].click
    BY <2>1 DEF SenderInv, Entered, LogTrue
  <2>3. CASE ClickOwn
    <3>1. received' = received \/ received' = More(run.job, "resume")
      BY <2>3, HandedHands DEF ClickOwn, Job
    <3>2. "taken" \notin page.shows
      BY <2>3 DEF ClickOwn, Taken
    <3>3. Has(run.job, "resume") => att.blind
      BY <2>1, <3>2 DEF SenderInv, Looked
    <3>. QED
      BY <2>1, <2>2, <3>1, <3>3 DEF Hands, OwnHand
  <2>4. CASE ClickOther
    BY <2>4 DEF ClickOther, Job, Hands, OtherHand
  <2>5. CASE ClickTaken \/ ClickNone
    BY <2>5 DEF ClickTaken, ClickNone, Hands
  <2>. QED
    BY <1>1, <2>3, <2>4, <2>5 DEF Click51
<1>2. CASE \/ Open51 \/ Look51 \/ Reload51 \/ Recover51 \/ After51 \/ Bound51 \/ Reconcile51
           \/ Relook51
  BY <1>2 DEF Open51, Look51, Reload51, Recover51, After51, Bound51, Reconcile51, Relook51, Hands
<1>. QED
  BY <1>1, <1>2 DEF Job51Step

LEMMA NextHands == SenderInv /\ [Next]_vars => Hands
<1>. SUFFICES ASSUME SenderInv, [Next]_vars PROVE Hands
  OBVIOUS
<1>1. CASE BossStep \/ LiepinStep \/ ZhilianStep \/ Job51Step
  BY <1>1, BossHands, LiepinHands, ZhilianHands, Job51Hands
<1>2. CASE Login \/ NextJob \/ Append \/ Finish
  BY <1>2 DEF Login, NextJob, Append, Finish, Stays, site, Hands
<1>3. CASE Die \/ Interrupt \/ Attend \/ Render
  BY <1>3 DEF Die, Interrupt, Attend, Render, site, Hands
<1>4. ASSUME NEW j \in Jobs, Withdraw(j) PROVE Hands
  BY <1>4 DEF Withdraw, Hands
<1>5. ASSUME NEW upto \in Jobs, NEW dry \in BOOLEAN, NEW stop \in BOOLEAN, Begin(upto, dry, stop)
      PROVE  Hands
  BY <1>5 DEF Begin, Stays, site, Hands
<1>6. CASE UNCHANGED vars
  BY <1>6 DEF vars, Hands
<1>. QED
  BY <1>1, <1>2, <1>3, <1>4, <1>5, <1>6 DEF Next, Step

\* A job of 51job whose click the log has seen is not clicked again, whatever its later
\* attempts end with (the action property ClickEvidenceKept).
THEOREM ClickIsNotForgotten == Spec => ClickEvidenceKept
<1>1. ASSUME SenderInv, [Next]_vars, platform = "51job", run.job \in Jobs \ confused, log[run.job].click
      PROVE  received'[run.job] = received[run.job]
  <2>1. CASE received' = received
    BY <2>1
  <2>2. CASE OwnHand
    BY <1>1, <2>2 DEF OwnHand
  <2>3. ASSUME NEW k \in Jobs \ {run.job}, received' = More(k, "resume")
        PROVE  received'[run.job] = received[run.job]
    BY <1>1, <2>3 DEF More, SenderInv, TypeOK
  <2>. QED
    BY <1>1, <2>1, <2>2, <2>3, NextHands DEF Hands, OtherHand
<1>2. SenderInv /\ [Next]_vars =>
          [platform = "51job" /\ run.job \in Jobs \ confused /\ log[run.job].click
             => received'[run.job] = received[run.job]]_vars
  BY <1>1
<1>. QED
  BY <1>2, SendersKeepInv, PTL DEF Spec, ClickEvidenceKept, Job

\* Nothing arrives twice unless a page hid what had arrived (the action property
\* TwiceOnlyIfMisled): where an attempt hands a part over it has looked for it before,
\* over every retry, death and lost answer.
THEOREM NothingTwiceUnmisled == Spec => TwiceOnlyIfMisled
<1>1. ASSUME SenderInv, [Next]_vars, NEW j \in Jobs, NEW p \in Parts,
             received[j][p] > 0, received'[j][p] > received[j][p]
      PROVE  att.blind \/ (p = "greeting" /\ drafts[j] = "misled")
  <2>1. received \in [Jobs -> [Parts -> 0..2]] /\ "resume" \in Parts
    BY <1>1 DEF SenderInv, TypeOK, Parts
  <2>2. received' # received
    BY <1>1, <2>1
  <2>3. CASE OwnHand
    <3>1. PICK part \in Parts :
             /\ run.job \in Jobs /\ received' = More(run.job, part)
             /\ Has(run.job, part) => att.blind \/ (part = "greeting" /\ drafts[run.job] = "misled")
      BY <2>3 DEF OwnHand
    <3>. DEFINE i == run.job
    <3>2. i \in Jobs /\ received' = More(i, part)
      BY <3>1
    <3>. HIDE DEF i
    <3>3. \A k \in Jobs, q \in Parts : k # i \/ q # part => received'[k][q] = received[k][q]
      BY <2>1, <3>2, MoreOfOne
    <3>4. received[j][p] \in 0..2
      BY <2>1
    <3>5. j = i /\ p = part
      BY <1>1, <3>3, <3>4
    <3>. QED
      BY <1>1, <3>1, <3>5 DEF Has, i
  <2>4. ASSUME NEW k \in Jobs \ {run.job}, ~Has(k, "resume"), received' = More(k, "resume")
        PROVE  FALSE
    <3>1. \A l \in Jobs, q \in Parts : l # k \/ q # "resume" => received'[l][q] = received[l][q]
      BY <2>1, <2>4, MoreOfOne
    <3>2. received[j][p] \in 0..2
      BY <2>1
    <3>3. j = k /\ p = "resume"
      BY <1>1, <3>1, <3>2
    <3>. QED
      BY <1>1, <2>4, <3>3 DEF Has
  <2>. QED
    BY <1>1, <2>2, <2>3, <2>4, NextHands DEF Hands, OtherHand
<1>2. SenderInv /\ [Next]_vars =>
          [\A j \in Jobs, p \in Parts :
              Has(j, p) /\ received'[j][p] > received[j][p]
                  => att.blind \/ (p = "greeting" /\ drafts[j] = "misled")]_vars
  BY <1>1 DEF Has
<1>. QED
  BY <1>2, SendersKeepInv, PTL DEF Spec, TwiceOnlyIfMisled
=============================================================================
