------------------------------ MODULE Discovery ------------------------------
(***************************************************************************)
(* The billed search of one platform, from the request id to the decision:   *)
(* application/discover.py, hybrid_discovery.py, native_discovery.py,        *)
(* bulk_decision.py, infra/discovery_state.py and platforms/discovery.py.    *)
(*                                                                          *)
(* Two executors collect the pages of a signed plan.  "bulk" reads them      *)
(* itself within one command and uploads the candidates in blocks; "native"  *)
(* issues one work of the ledger for each page and accepts it when the host  *)
(* has submitted it.  Both leave three files that a later command continues  *)
(* from: the start (request id, then the checkpoint of the collection), the  *)
(* pending decision, and the round.  A command writes them one after the     *)
(* other and can die in between, or lose the answer of the service.          *)
(*                                                                          *)
(* The service gives a request id one plan and charges a plan once, however  *)
(* often it is asked; the plan and its discover_id are the request.  Renewal *)
(* of an expired plan changes neither and is left out.                       *)
(***************************************************************************)
EXTENDS Integers, Sequences, FiniteSets

CONSTANTS
    Executors,      \* the executors an instance looks at
    Jobs,
    Queries,        \* of the signed plan: 1..n
    PageLimit,
    CandidateLimit,
    PageBudget,
    BlockSize,      \* BATCH_SIZE of bulk_decision.py
    Intents,        \* target roles and profile of a round
    MaxRequests, MaxRounds, MaxSearches, MaxGeneration, MaxFaults    \* bounds

Requests == 1..MaxRequests
Pages == Queries \X (1..PageLimit)
MaxPool == CandidateLimit

ASSUME DiscoveryAssumption ==
    /\ Executors \subseteq {"bulk", "native"}
    /\ Queries \subseteq Nat /\ IsFiniteSet(Jobs)
    /\ {PageLimit, CandidateLimit, PageBudget, BlockSize, MaxRequests, MaxRounds,
        MaxSearches} \subseteq Nat \ {0}
    /\ {MaxGeneration, MaxFaults} \subseteq Nat

VARIABLES
    exec,
    round,      \* the platform's part of the round file
    start,      \* pending-start.json
    decision,   \* pending-decision.json
    manifests,  \* requests whose decision is on disk
    sent,       \* blocks the local upload record acknowledges, by request
    rows,       \* the ledger's works of the current request, by page
    unrecorded, \* a cancelled work of this round that the round does not know of
    service,    \* what the service has: blocks and the frozen pool, by request
    charged,    \* requests that were charged
    cmd,        \* the command under way
    askOf,      \* ghost: the search the user asked for, by request
    ask,        \* ghost: searches the user has asked for
    taken,      \* ghost: how often a page was taken into the pool, by request
    partial,    \* ghost: requests whose partial pool was accepted
    faults

ledger == <<rows, unrecorded>>
files == <<round, start, decision, manifests, sent, ledger>>
ghosts == <<askOf, ask, taken, partial>>
vars == <<exec, files, service, charged, cmd, ghosts, faults>>

\* late: the time budget is spent; stop: the last command left a stop_reason.
NoProgress == [kept |-> FALSE, pages |-> {}, pool |-> <<>>, out |-> {}, seen |-> {},
               late |-> FALSE, stop |-> FALSE]
NoStart == [req |-> 0, round |-> 0, intent |-> CHOOSE i \in Intents : TRUE, col |-> NoProgress]
NoDecision == [req |-> 0, intent |-> CHOOSE i \in Intents : TRUE, pool |-> <<>>]
NoPage == <<0, 0>>
Idle == [at |-> "idle", req |-> 0, pool |-> <<>>, page |-> NoPage]
NoRow == [state |-> "none", req |-> 0, round |-> 0, gen |-> 0, jobs |-> {}, last |-> FALSE, processed |-> FALSE]
NoRows == [p \in Pages |-> NoRow]

Init ==
    /\ exec \in Executors
    /\ round \in [no : {1}, intent : Intents, status : {"login_verified"}, req : {0}, gate : {FALSE}]
    /\ start = NoStart /\ decision = NoDecision /\ manifests = {} /\ rows = NoRows
    /\ unrecorded = FALSE
    /\ sent = [r \in Requests |-> <<>>]
    /\ service = [r \in Requests |-> [blocks |-> <<>>, final |-> FALSE, pool |-> <<>>]]
    /\ charged = {} /\ cmd = Idle /\ faults = 0
    /\ askOf = [r \in Requests |-> 0] /\ ask = 1
    /\ taken = [r \in Requests |-> [p \in Pages |-> 0]] /\ partial = {}

-----------------------------------------------------------------------------
\* The request ids handed out so far are those with a search.
Used == {r \in Requests : askOf[r] # 0}

\* Pages are read page by page, each for every query that goes on.
Before(p, q) == p[2] < q[2] \/ (p[2] = q[2] /\ p[1] < q[1])

Unread(col) == {p \in Pages : p[1] \notin col.out /\ p \notin col.pages}
Full(col) == Len(col.pool) >= CandidateLimit

IsNext(col, p) == p \in Unread(col) /\ ~Full(col) /\ \A q \in Unread(col) \ {p} : Before(p, q)
Exhausted(col) == Full(col) \/ Unread(col) = {}

\* New jobs of a page, in some order, as many as the limit leaves room for.
Additions(pool, jobs) ==
    LET fresh == jobs \ {pool[i] : i \in 1..Len(pool)}
        room == CandidateLimit - Len(pool)
        k == IF Cardinality(fresh) < room THEN Cardinality(fresh) ELSE room
    IN  {s \in [1..k -> fresh] : \A i, j \in 1..k : s[i] = s[j] => i = j}

WithPage(col, p, added, last) ==
    [col EXCEPT !.kept = TRUE, !.pages = @ \cup {p}, !.pool = @ \o added,
                !.out = IF last THEN @ \cup {p[1]} ELSE @]

ContextMatches == start.round = round.no /\ start.intent = round.intent

OpenRow(p) == rows[p].state = "open"
NoneOpen == \A p \in Pages : ~OpenRow(p)
OfThisRound(p) == rows[p].round = round.no
CancelPending == round.gate \/ unrecorded

Block(pool, k) == SubSeq(pool, (k - 1) * BlockSize + 1,
                         IF k * BlockSize < Len(pool) THEN k * BlockSize ELSE Len(pool))
WholeBlocks(pool) == Len(pool) \div BlockSize
AllBlocks(pool) == (Len(pool) + BlockSize - 1) \div BlockSize

-----------------------------------------------------------------------------
(* The command "discover" *)

MyTurn == round.status = "login_verified"
Begin(at, r, pool) == cmd' = [at |-> at, req |-> r, pool |-> pool, page |-> NoPage]
Step(at) == cmd' = [cmd EXCEPT !.at = at]

\* Mutation: the gate of the round is asked, the ledger is not.
ReadyByRoundOnly == cmd = Idle /\ MyTurn /\ (exec = "native" => ~round.gate)

Ready ==
    /\ cmd = Idle /\ MyTurn
    /\ exec = "native" => ~CancelPending

\* The signed plan of a saved decision must be one of this profile and intent,
\* for the native executor the start must still be that of this round, too.
Resumable ==
    IF exec = "native" /\ start.col.kept
    THEN ContextMatches /\ start.req = decision.req /\ start.col.pool = decision.pool
    ELSE decision.intent = round.intent

\* _resume_pending_decision, _resume_decision: before anything else
ResumeDecision ==
    /\ Ready /\ decision.req # 0 /\ Resumable
    /\ Begin("decide", decision.req, decision.pool)
    /\ UNCHANGED <<exec, files, service, charged, ghosts, faults>>

\* _preserved_request_id: the start of this round and profile goes on; any other
\* is archived or dropped for a new request.
KeepRequest ==
    /\ Ready /\ decision.req = 0 /\ start.req # 0 /\ ContextMatches
    /\ Begin(IF start.col.kept THEN "collect" ELSE "plan", start.req, <<>>)
    /\ UNCHANGED <<exec, files, service, charged, ghosts, faults>>

NewRequest ==
    /\ Ready /\ decision.req = 0 /\ ~(start.req # 0 /\ ContextMatches) /\ NoneOpen
    /\ start.col.kept => start.round # round.no
    /\ \E r \in Requests \ Used :
        /\ \A q \in Requests : q < r => q \in Used
        /\ start' = [req |-> r, round |-> round.no, intent |-> round.intent, col |-> NoProgress]
        /\ askOf' = [askOf EXCEPT ![r] = ask]
        /\ Begin("plan", r, <<>>)
    /\ rows' = NoRows
    /\ UNCHANGED <<exec, round, decision, manifests, sent, unrecorded, service, charged, ask, taken, partial, faults>>

\* cloud_client.discovery_start.  The native executor saves the plan at once, with
\* no progress, the bulk one with its first page.
Plan ==
    /\ cmd.at = "plan"
    /\ start' = IF exec = "native" THEN [start EXCEPT !.col = [NoProgress EXCEPT !.kept = TRUE]] ELSE start
    /\ Step("collect")
    /\ UNCHANGED <<exec, round, decision, manifests, sent, ledger, service, charged, ghosts, faults>>

-----------------------------------------------------------------------------
(* Bulk collection: collect_from_search_plan and its checkpoint callback *)

Collecting == cmd.at = "collect" /\ exec = "bulk"
Fingerprint(p, jobs) == <<p[1], jobs>>
WithinBudget == Cardinality(start.col.pages) < PageBudget /\ ~start.col.late

\* A page is read, its new jobs join the pool, the checkpoint is saved.
CollectPage ==
    /\ Collecting /\ WithinBudget
    /\ \E p \in Pages, jobs \in SUBSET Jobs, last \in BOOLEAN :
        /\ IsNext(start.col, p)
        /\ Fingerprint(p, jobs) \notin start.col.seen
        /\ \E added \in Additions(start.col.pool, jobs) :
            start' = [start EXCEPT !.col =
                        [WithPage(start.col, p, added, last \/ jobs = {}) EXCEPT
                            !.seen = IF jobs = {} THEN @ ELSE @ \cup {Fingerprint(p, jobs)},
                            !.stop = FALSE]]
        /\ taken' = [taken EXCEPT ![cmd.req][p] = @ + 1]
    /\ Step("upload")
    /\ UNCHANGED <<exec, round, decision, manifests, sent, ledger, service, charged, askOf, ask, partial, faults>>

\* "This query returned an earlier page": the page is not taken, but a query that
\* the page showed to be exhausted is already retired in the saved progress.
PageNotAdvancing ==
    /\ Collecting /\ WithinBudget
    /\ \E p \in Pages, last \in BOOLEAN :
        /\ IsNext(start.col, p)
        /\ \E f \in start.col.seen : f[1] = p[1]
        /\ start' = [start EXCEPT !.col.stop = TRUE, !.col.out = IF last THEN @ \cup {p[1]} ELSE @]
    /\ cmd' = Idle
    /\ UNCHANGED <<exec, round, decision, manifests, sent, ledger, service, charged, ghosts, faults>>

\* The pages of the plan or of the budget are read and the pool is neither full
\* nor all there is: the user has to accept it.  No candidate at all: the user has
\* to skip the platform.
NotEnough ==
    /\ start.col.kept
    /\ IF Exhausted(start.col)
       THEN \/ start.col.pool = <<>>
            \/ exec = "bulk" /\ ~Full(start.col) /\ start.col.out # Queries
       ELSE exec = "bulk" /\ ~WithinBudget

\* The last answer was such a stop, or a page that did not advance: no command is
\* suggested but for the user to accept the partial pool, or to look.
AwaitsUser == NotEnough \/ start.col.stop

\* Stopped at what has been read, or because the time of the plan is spent; with
\* no candidate the checkpoint is not written again.
StopCollecting ==
    /\ Collecting /\ start.col.kept
    /\ NotEnough \/ ~Exhausted(start.col)
    /\ start' = IF start.col.pool = <<>> /\ Exhausted(start.col) THEN start
                ELSE [start EXCEPT !.col.stop = TRUE, !.col.late = @ \/ ~NotEnough]
    /\ cmd' = Idle
    /\ UNCHANGED <<exec, round, decision, manifests, sent, ledger, service, charged, ghosts, faults>>

\* Mutation: what has been read is frozen without asking.
CollectedSoFar ==
    /\ Collecting /\ start.col.pool # <<>>
    /\ cmd' = [cmd EXCEPT !.at = "freeze", !.pool = start.col.pool]
    /\ UNCHANGED <<exec, files, service, charged, ghosts, faults>>

Collected ==
    /\ Collecting /\ Exhausted(start.col) /\ ~NotEnough
    /\ cmd' = [cmd EXCEPT !.at = "freeze", !.pool = start.col.pool]
    /\ UNCHANGED <<exec, files, service, charged, ghosts, faults>>

\* discover --accept-partial
AcceptPartial ==
    /\ Ready /\ exec = "bulk" /\ decision.req = 0 /\ ContextMatches /\ start.col.pool # <<>>
    /\ Begin("freeze", start.req, start.col.pool)
    /\ partial' = partial \cup {start.req}
    /\ UNCHANGED <<exec, files, service, charged, askOf, ask, taken, faults>>

\* Mutation: a block is appended whether or not the service has it already.
PutBlockAgain(pool, count) ==
    /\ LET k == Len(sent[cmd.req]) + 1
       IN  /\ k <= count
           /\ service' = [service EXCEPT ![cmd.req].blocks = Append(@, Block(pool, k))]
           /\ sent' = [sent EXCEPT ![cmd.req] = Append(@, Block(pool, k))]
    /\ UNCHANGED <<exec, round, start, decision, manifests, ledger, charged, cmd, ghosts, faults>>

\* upload_candidates: a block that the local record does not acknowledge is sent
\* (again); one that it does must be the same.
PutBlock(pool, count) ==
    /\ LET k == Len(sent[cmd.req]) + 1
       IN  /\ k <= count
           /\ service' = [service EXCEPT ![cmd.req].blocks =
                            IF k <= Len(@) THEN [@ EXCEPT ![k] = Block(pool, k)] ELSE Append(@, Block(pool, k))]
           /\ sent' = [sent EXCEPT ![cmd.req] = Append(@, Block(pool, k))]
    /\ UNCHANGED <<exec, round, start, decision, manifests, ledger, charged, cmd, ghosts, faults>>

Acknowledged(pool, count) ==
    /\ Len(sent[cmd.req]) >= count
    /\ \A k \in 1..count : sent[cmd.req][k] = Block(pool, k)

UploadPrefix == cmd.at = "upload" /\ PutBlock(start.col.pool, WholeBlocks(start.col.pool))

PrefixUploaded ==
    /\ cmd.at = "upload" /\ Acknowledged(start.col.pool, WholeBlocks(start.col.pool))
    /\ Step("collect")
    /\ UNCHANGED <<exec, files, service, charged, ghosts, faults>>

SaveDecision ==
    /\ cmd.at = "freeze"
    /\ decision' = [req |-> cmd.req, intent |-> start.intent, pool |-> cmd.pool]
    /\ Step(IF exec = "native" THEN "decide" ELSE "unstart")
    /\ UNCHANGED <<exec, round, start, manifests, sent, ledger, service, charged, ghosts, faults>>

\* clear_pending_start, by its request: after saving the decision for the bulk
\* executor, at the very end for the native one
ClearStart ==
    /\ cmd.at = "unstart"
    /\ start' = IF start.req = cmd.req THEN NoStart ELSE start
    /\ IF exec = "native" THEN Step("mark") ELSE Step("decide")
    /\ UNCHANGED <<exec, round, decision, manifests, sent, ledger, service, charged, ghosts, faults>>

UploadRest == cmd.at = "decide" /\ exec = "bulk" /\ PutBlock(cmd.pool, AllBlocks(cmd.pool))

\* complete_decision or discovery_decide: the service freezes the pool and charges
\* the request, or answers once more what it has decided.
Decide ==
    /\ cmd.at = "decide"
    /\ exec = "bulk" => Acknowledged(cmd.pool, AllBlocks(cmd.pool))
    /\ service' = [service EXCEPT ![cmd.req].final = TRUE,
                                 ![cmd.req].pool = IF service[cmd.req].final THEN @ ELSE cmd.pool]
    /\ charged' = charged \cup {cmd.req}
    /\ Step("manifest")
    /\ UNCHANGED <<exec, files, ghosts, faults>>

\* Mutation: the start is cleared with the decision, before the round knows.
ClearBoth ==
    /\ cmd.at = "drop" /\ decision' = NoDecision /\ start' = NoStart
    /\ Step("status")
    /\ UNCHANGED <<exec, round, manifests, sent, ledger, service, charged, ghosts, faults>>

SaveManifest ==
    /\ cmd.at = "manifest"
    /\ manifests' = manifests \cup {cmd.req}
    /\ Step("drop")
    /\ UNCHANGED <<exec, round, start, decision, sent, ledger, service, charged, ghosts, faults>>

ClearDecision ==
    /\ cmd.at = "drop"
    /\ decision' = IF decision.req = cmd.req THEN NoDecision ELSE decision
    /\ Step("status")
    /\ UNCHANGED <<exec, round, start, manifests, sent, ledger, service, charged, ghosts, faults>>

SetDiscovered ==
    /\ cmd.at = "status"
    /\ round' = [round EXCEPT !.status = "discovered", !.req = cmd.req]
    /\ IF exec = "native" THEN Step("unstart") ELSE cmd' = Idle
    /\ UNCHANGED <<exec, start, decision, manifests, sent, ledger, service, charged, ghosts, faults>>

-----------------------------------------------------------------------------
(* Native collection: one work of the ledger for each page *)

Marked == IF cmd.page = NoPage THEN Idle ELSE [cmd EXCEPT !.at = "mark"]
ClosedUnaccepted == {p \in Pages : OfThisRound(p) /\ rows[p].state = "collected" /\ p \notin start.col.pages}

\* start_discovery accepts a page that was submitted and not checkpointed, or goes on
\* as accept_page does, which looks for no such page.
Advancing ==
    /\ exec = "native"
    /\ cmd.at = "advance" \/ (cmd.at = "collect" /\ ClosedUnaccepted = {})

ReplayPage ==
    /\ exec = "native" /\ cmd.at = "collect"
    /\ \E p \in ClosedUnaccepted : cmd' = [cmd EXCEPT !.at = "replay", !.pool = <<>>, !.page = p]
    /\ UNCHANGED <<exec, files, service, charged, ghosts, faults>>

\* Mutation: the key of a page does not count its cancelled works.
IssuePageOneKey ==
    /\ Advancing
    /\ \E p \in Pages :
        /\ IsNext(start.col, p)
        /\ rows' = IF rows[p].state # "none" THEN rows
                   ELSE [rows EXCEPT ![p] = [NoRow EXCEPT !.state = "open", !.req = start.req, !.round = round.no]]
    /\ cmd' = Marked
    /\ UNCHANGED <<exec, round, start, decision, manifests, sent, unrecorded, service, charged, ghosts, faults>>

\* _advance: the work of the next page, under a key that counts the cancelled
\* works of that page; one that is open, or submitted, is found by its key.
IssuePage ==
    /\ Advancing
    /\ \E p \in Pages :
        /\ IsNext(start.col, p)
        /\ rows' = IF rows[p].state \in {"open", "collected"} THEN rows
                   ELSE [rows EXCEPT ![p] = [NoRow EXCEPT !.state = "open", !.req = start.req, !.round = round.no,
                            !.gen = IF rows[p].state = "cancelled" THEN rows[p].gen + 1 ELSE 0]]
    /\ cmd' = Marked
    /\ UNCHANGED <<exec, round, start, decision, manifests, sent, unrecorded, service, charged, ghosts, faults>>

NoCandidates ==
    /\ Advancing /\ NotEnough
    /\ cmd' = Marked
    /\ UNCHANGED <<exec, files, service, charged, ghosts, faults>>

FreezePool ==
    /\ Advancing /\ Exhausted(start.col) /\ ~NotEnough
    /\ cmd' = [cmd EXCEPT !.at = "freeze", !.pool = start.col.pool]
    /\ UNCHANGED <<exec, files, service, charged, ghosts, faults>>

\* work submit: validate_page, then the ledger.  A page is the next one of the
\* signed plan and leaves the limit alone; an empty one ends its query.
SubmitPage ==
    /\ cmd = Idle /\ MyTurn /\ exec = "native" /\ ContextMatches
    /\ \E p \in Pages, jobs \in SUBSET Jobs, last \in BOOLEAN :
        /\ OpenRow(p) /\ OfThisRound(p) /\ IsNext(start.col, p)
        /\ Cardinality(jobs) <= CandidateLimit - Len(start.col.pool)
        /\ jobs = {} => last
        /\ rows' = [rows EXCEPT ![p].state = "collected", ![p].jobs = jobs, ![p].last = last]
        /\ cmd' = [at |-> "accept", req |-> start.req, pool |-> <<>>, page |-> p]
    /\ UNCHANGED <<exec, round, start, decision, manifests, sent, unrecorded, service, charged, ghosts, faults>>

\* The same receipt submitted again, or "work next" finding a closed work that is
\* not processed.  Only the latter asks for the cancel gate.
ContinuePage(p, submitted) ==
    /\ cmd = Idle /\ exec = "native" /\ round.status \in {"login_verified", "discovered"}
    /\ OfThisRound(p) /\ rows[p].state = "collected" /\ ~rows[p].processed
    /\ submitted \/ (~CancelPending /\ NoneOpen)
    /\ cmd' = [at |-> "accept", req |-> rows[p].req, pool |-> <<>>, page |-> p]
    /\ UNCHANGED <<exec, files, service, charged, ghosts, faults>>

Accepting == cmd.at \in {"accept", "replay"}
AfterReplay == IF cmd.at = "replay" THEN NoPage ELSE cmd.page

\* accept_page after the decision: nothing to do for a page of that request.
AcceptCompleted ==
    /\ Accepting /\ round.status = "discovered"
    /\ cmd' = IF round.req = cmd.req THEN [cmd EXCEPT !.at = "mark"] ELSE Idle
    /\ UNCHANGED <<exec, files, service, charged, ghosts, faults>>

\* accept_page when the pool is frozen already: the pending decision goes on.
AcceptFrozen ==
    /\ Accepting /\ MyTurn /\ decision.req # 0
    /\ IF decision.req = cmd.req /\ Resumable
       THEN cmd' = [cmd EXCEPT !.at = "decide", !.pool = decision.pool, !.page = AfterReplay]
       ELSE cmd' = Idle
    /\ UNCHANGED <<exec, files, service, charged, ghosts, faults>>

\* accept_page: the checkpoint takes the page, once; then _advance.
AcceptPage ==
    /\ Accepting /\ MyTurn /\ decision.req = 0
    /\ IF ~(ContextMatches /\ start.req = cmd.req)
       THEN cmd' = Idle /\ UNCHANGED <<start, taken>>
       ELSE /\ cmd' = [cmd EXCEPT !.at = "advance", !.page = AfterReplay]
            /\ IF cmd.page \in start.col.pages
               THEN UNCHANGED <<start, taken>>
               ELSE /\ IsNext(start.col, cmd.page)
                    /\ \E added \in Additions(start.col.pool, rows[cmd.page].jobs) :
                        start' = [start EXCEPT !.col =
                            WithPage(start.col, cmd.page, added, rows[cmd.page].last)]
                    /\ taken' = [taken EXCEPT ![cmd.req][cmd.page] = @ + 1]
    /\ UNCHANGED <<exec, round, decision, manifests, sent, ledger, service, charged, askOf, ask, partial, faults>>

\* native_processed_work, at the very end of the submission; the receipt of a work
\* listed there is not read again, and the model forgets it.
MarkProcessed ==
    /\ cmd.at = "mark"
    /\ rows' = IF cmd.page = NoPage THEN rows ELSE [rows EXCEPT ![cmd.page] = [@ EXCEPT !.processed = TRUE, !.jobs = {}]]
    /\ cmd' = Idle
    /\ UNCHANGED <<exec, round, start, decision, manifests, sent, unrecorded, service, charged, ghosts, faults>>

\* work cancel: the ledger first, the gate of the round second
CancelPage ==
    /\ cmd = Idle /\ exec = "native"
    /\ \E p \in Pages :
        /\ OpenRow(p) /\ OfThisRound(p) /\ rows[p].gen < MaxGeneration
        /\ rows' = [rows EXCEPT ![p].state = "cancelled"]
        /\ cmd' = [at |-> "gate", req |-> start.req, pool |-> <<>>, page |-> p]
    /\ unrecorded' = TRUE
    /\ UNCHANGED <<exec, round, start, decision, manifests, sent, service, charged, ghosts, faults>>

RaiseGate ==
    /\ round' = [round EXCEPT !.gate = TRUE]
    /\ unrecorded' = FALSE
    /\ UNCHANGED <<exec, start, decision, manifests, sent, rows, service, charged, ghosts, faults>>

SaveGate == cmd.at = "gate" /\ RaiseGate /\ cmd' = Idle

\* _recover_collection_cancellations, before anything discover, login or next do
RecoverGate == cmd = Idle /\ MyTurn /\ exec = "native" /\ unrecorded /\ RaiseGate /\ UNCHANGED cmd

\* A verified login, which the user asked for, clears the gate.
Relogin ==
    /\ cmd = Idle /\ MyTurn /\ exec = "native" /\ round.gate /\ ~unrecorded /\ NoneOpen
    /\ round' = [round EXCEPT !.gate = FALSE]
    /\ UNCHANGED <<exec, start, decision, manifests, sent, ledger, service, charged, cmd, ghosts, faults>>

-----------------------------------------------------------------------------
(* Around the search *)

NewSearch == ask < MaxSearches /\ ask' = ask + 1

\* The after-cancel card of the discovered list, answered with search_again:
\* refused while any file of a search is left (delivery_followup_inflight).
SearchAgain ==
    /\ cmd = Idle /\ round.status = "discovered" /\ NewSearch
    /\ start.req = 0 /\ decision.req = 0 /\ NoneOpen
    /\ round' = [round EXCEPT !.status = "login_verified"]
    /\ UNCHANGED <<exec, start, decision, manifests, sent, ledger, service, charged, cmd, askOf, taken, partial, faults>>

\* round skip; delivery and audit; both end the platform.
EndPlatform ==
    /\ cmd = Idle /\ NoneOpen
    /\ \E end \in {"skipped", "completed"} :
        /\ round.status \in (IF end = "skipped" THEN {"login_verified", "discovered"} ELSE {"discovered"})
        /\ round' = [round EXCEPT !.status = end]
    /\ UNCHANGED <<exec, start, decision, manifests, sent, ledger, service, charged, cmd, ghosts, faults>>

NewRound ==
    /\ cmd = Idle /\ NoneOpen /\ round.status \in {"skipped", "completed"}
    /\ round.no < MaxRounds /\ NewSearch
    /\ \E i \in Intents :
        round' = [no |-> round.no + 1, intent |-> i, status |-> "login_verified", req |-> 0, gate |-> FALSE]
    /\ unrecorded' = FALSE
    /\ UNCHANGED <<exec, start, decision, manifests, sent, rows, service, charged, cmd, askOf, taken, partial, faults>>

\* A command dies, or gives up because a call failed; a block or a decision may
\* have reached the service without its answer having reached the files.
Die ==
    /\ cmd # Idle /\ faults < MaxFaults
    /\ cmd' = Idle /\ faults' = faults + 1
    /\ UNCHANGED <<exec, files, charged, ghosts>>
    /\ \/ UNCHANGED service
       \/ /\ exec = "bulk" /\ cmd.at \in {"upload", "decide"}
          /\ LET pool == IF cmd.at = "upload" THEN start.col.pool ELSE cmd.pool
                 k == Len(sent[cmd.req]) + 1
             IN  /\ k <= (IF cmd.at = "upload" THEN WholeBlocks(pool) ELSE AllBlocks(pool))
                 /\ k > Len(service[cmd.req].blocks)
                 /\ service' = [service EXCEPT ![cmd.req].blocks = Append(@, Block(pool, k))]

Discover == ResumeDecision \/ KeepRequest \/ NewRequest
Bulk == CollectPage \/ PageNotAdvancing \/ StopCollecting \/ Collected \/ UploadPrefix \/ PrefixUploaded
Native == ReplayPage \/ IssuePage \/ NoCandidates \/ FreezePool \/ AcceptCompleted \/ AcceptFrozen \/ AcceptPage
          \/ MarkProcessed \/ SaveGate
Deciding == SaveDecision \/ ClearStart \/ UploadRest \/ Decide \/ SaveManifest \/ ClearDecision
            \/ SetDiscovered
Command == Plan \/ Bulk \/ Native \/ Deciding
Host == SubmitPage \/ \E p \in Pages, submitted \in BOOLEAN : ContinuePage(p, submitted)
User == AcceptPartial \/ CancelPage \/ RecoverGate \/ Relogin \/ SearchAgain \/ EndPlatform \/ NewRound

Next == Discover \/ Command \/ Host \/ User \/ Die

Spec == Init /\ [][Next]_vars

\* A command goes on until it ends or dies.  The host repeats "discover" until the
\* platform is discovered or the client wants the user, and submits the works it is
\* given.  That a page advances when it is read once more is not assumed.
Fairness ==
    /\ WF_vars(Command)
    /\ SF_vars(Discover /\ ~AwaitsUser) /\ SF_vars(SubmitPage)

FairSpec == Spec /\ Fairness

-----------------------------------------------------------------------------
(* Properties *)

Pools == UNION {[1..n -> Jobs] : n \in 0..MaxPool}
CommandSteps == {"idle", "plan", "collect", "advance", "upload", "freeze", "unstart", "decide", "manifest",
                 "drop", "status", "accept", "replay", "mark", "gate"}
Statuses == {"login_verified", "discovered", "skipped", "completed"}

ProgressType == [kept : BOOLEAN, pages : SUBSET Pages, pool : Pools, out : SUBSET Queries,
                 seen : SUBSET (Queries \X SUBSET Jobs), late : BOOLEAN, stop : BOOLEAN]
RowType == [state : {"none", "open", "collected", "cancelled"}, req : Requests \cup {0}, round : 0..MaxRounds,
            gen : 0..MaxGeneration, jobs : SUBSET Jobs, last : BOOLEAN, processed : BOOLEAN]

\* Types of the round, the start, the decision, the works and the command; a
\* collection or a decision never outgrows the limit the user set.
TypeOK ==
    /\ exec \in Executors
    /\ round \in [no : 1..MaxRounds, intent : Intents, status : Statuses, req : Requests \cup {0}, gate : BOOLEAN]
    /\ start \in [req : Requests \cup {0}, round : 0..MaxRounds, intent : Intents, col : ProgressType]
    /\ decision \in [req : Requests \cup {0}, intent : Intents, pool : Pools]
    /\ manifests \subseteq Requests /\ charged \subseteq Requests
    /\ rows \in [Pages -> RowType]
    /\ cmd \in [at : CommandSteps, req : Requests \cup {0}, pool : Pools, page : Pages \cup {NoPage}]
    /\ askOf \in [Requests -> 0..MaxSearches] /\ ask \in 1..MaxSearches
    /\ taken \in [Requests -> [Pages -> Nat]] /\ partial \subseteq Requests
    /\ faults \in 0..MaxFaults /\ unrecorded \in BOOLEAN
\* A search the user asked for once is charged once: a native collection keeps its
\* start until the round knows of the decision, so whatever dies in between, the
\* command repeated finds the request that was charged.
ChargedOnce == \A r, s \in charged : askOf[r] = askOf[s] => r = s
NativeBilledOnce == exec = "native" => ChargedOnce

\* hybrid_discovery.py: "Repeating Discover after success is a continuation, never a
\* new bill."  README: "Retrying the same task does not charge twice."  The same of
\* the bulk executor, which clears its start before it is charged.
BulkBilledOnce == exec = "bulk" => ChargedOnce

\* What is charged is what was read: every page of the plan went into the pool
\* once, however often its receipt or its checkpoint was replayed, no job is in it
\* twice, and the blocks of a bulk upload, lost answers and all, are that pool.
DecidedAsCollected ==
    \A r \in charged \ partial :
        LET pool == service[r].pool
        IN  /\ \A p \in Pages : taken[r][p] <= 1
            /\ \A i, j \in 1..Len(pool) : pool[i] = pool[j] => i = j
            /\ exec = "bulk" => /\ Len(service[r].blocks) = AllBlocks(pool)
                                /\ \A k \in 1..AllBlocks(pool) : service[r].blocks[k] = Block(pool, k)

\* Once a request was decided on a pool it is never put to the service with another
\* one, whichever file the repeated command continues from.  (A pool accepted as it
\* is, is the exception here and above: two commands that die, one before the start
\* is cleared and one after the decision is, let the next one collect on.)
OnePoolPerRequest ==
    cmd.at = "decide" /\ cmd.req \notin partial /\ service[cmd.req].final => service[cmd.req].pool = cmd.pool

\* "work cancel": until the user has logged in again, "discover" issues no page of
\* this platform, even if the command died before the round heard of it.
CancelHonoured ==
    [][cmd.page = NoPage /\ (\E p \in Pages : ~OpenRow(p) /\ rows'[p].state = "open") => ~CancelPending]_vars

\* A search under way is decided, or stops at a person: a cancelled work, nothing
\* to decide on or a partial pool to accept, a page that does not advance, a spent
\* budget of pages or time, a platform that was left, or a saved decision that no
\* longer fits the round.
InFlight == MyTurn /\ (decision.req # 0 \/ (start.req # 0 /\ ContextMatches))
Decided == \E r \in manifests : askOf[r] = ask
AtAPerson == CancelPending \/ AwaitsUser \/ (decision.req # 0 /\ ~Resumable)
EventuallyDecided == InFlight ~> (~MyTurn \/ Decided \/ AtAPerson)
=============================================================================
