--------------------------- MODULE PlaywrightWork ---------------------------
(***************************************************************************)
(* `jobagent work run` (application/playwright_work.py): the client itself  *)
(* performs one work of the ledger through its own browser, files a receipt *)
(* and submits it.  The command holds the machine-wide command lock, so one *)
(* run is active at a time and no other command interleaves with its steps; *)
(* it can die after each of them.  Only the ledger, the receipt file and    *)
(* the pre-click checkpoint survive.                                        *)
(*                                                                          *)
(* What an adapter does at the page is reduced to what decides between a    *)
(* click, a verified receipt and an open question; `world` is the           *)
(* platform's own record of the action (message or application).            *)
(***************************************************************************)
EXTENDS BrowserWork

CONSTANTS
    Adapters,       \* the adapters exercised, see AllAdapters
    MaxMishaps      \* bound on crashes and rejected receipts together

AllAdapters == {"boss_greeting", "zhilian_resume", "job51_resume",
                "liepin_greeting", "liepin_open", "inspection"}

ASSUME AdaptersAssumption == Adapters \subseteq AllAdapters
ASSUME MishapAssumption == MaxMishaps \in Nat

\* Adapters whose failed reconciliation is a terminal "unresolved".
Settling == {"job51_resume", "liepin_greeting", "liepin_open"}
\* Adapters that refuse to begin when the official history they hold has the job.
ChecksHistory == {"zhilian_resume", "job51_resume"}

VARIABLES
    adapter,        \* the adapter that executes a work (constant in a behaviour)
    run,            \* the running command: program counter and memory
    file,           \* <receipt_path>: outcome of the filed receipt
    rejected,       \* <receipt_path>.validation-block.json exists
    checkpoint,     \* <receipt_path>.preflight.json of this nonce, see Checkpoints
    history,        \* what the kept official history says of the job of a work
    clicks,         \* ghost: clicks made on the recruiting control
    world,          \* "none", "sending" or "delivered" at the platform
    mishaps         \* bounded counter of crashes and rejected receipts

execVars == <<adapter, run, file, rejected, checkpoint, history, clicks, world, mishaps>>
allVars == <<vars, execVars>>

RunOutcomes == {"success", "uncertain", "unresolved"}
ASSUME OutcomesAssumption == RunOutcomes \subseteq Outcomes
NoFile == "no_file"
\* "late": the platform's record is older than the checkpoint.
Checkpoints == {"none", "first", "late"}
Readings == {"unread", "absent", "present"}
Idle == [pc |-> "idle"]

ExecTypeOK ==
    /\ TypeOK
    /\ adapter \in [Works -> Adapters]
    /\ run \in {Idle}
           \cup [pc: {"prepare", "begin", "accept"}, work: Works]
           \cup [pc: {"act", "click", "again", "observe"}, work: Works, mayAct: BOOLEAN]
           \cup [pc: {"save"}, work: Works, outcome: RunOutcomes]
    /\ file \in [Works -> RunOutcomes \cup {NoFile}]
    /\ rejected \in [Works -> BOOLEAN]
    /\ checkpoint \in [Works -> Checkpoints]
    /\ history \in [Works -> Readings]
    /\ clicks \in [Works -> 0 .. 2]
    /\ world \in [Works -> {"none", "sending", "delivered"}]
    /\ mishaps \in 0 .. MaxMishaps

ExecInit ==
    /\ Init
    /\ adapter \in [Works -> Adapters]
    /\ run = Idle
    /\ file = [w \in Works |-> NoFile]
    /\ rejected = [w \in Works |-> FALSE]
    /\ checkpoint = [w \in Works |-> "none"]
    \* the inspection that precedes a delivery has read the history
    /\ history = [w \in Works |-> IF adapter[w] \in ChecksHistory THEN "absent" ELSE "unread"]
    /\ clicks = [w \in Works |-> 0]
    /\ world = [w \in Works |-> "none"]
    /\ mishaps = 0

Goto(next) == run' = next
At(pc) == run.pc = pc
LastOutcome(w) ==
    CASE wresult[w] = NoResult -> "none"
      [] wresult[w] = Cancelled -> "cancelled"
      [] OTHER -> wresult[w].outcome

-----------------------------------------------------------------------------
(* Other commands, between two runs.                                        *)

\* The delivery machine creates a work; inspections are the read-only ones.
Create(w, s) ==
    /\ run = Idle
    /\ s \in SideEffects <=> adapter[w] # "inspection"
    /\ EnsureWork(w, s)
    /\ UNCHANGED execVars

\* `work next` and `work status` recover the open work.
Recover(w) ==
    /\ run = Idle
    /\ PendingWork(Owner[w], w)
    /\ UNCHANGED execVars

Cancel(w) ==
    /\ run = Idle
    /\ CancelUnexecuted(Owner[w], w)
    /\ UNCHANGED execVars

-----------------------------------------------------------------------------
(* The steps of a run.                                                      *)

\* A filed receipt is replayed unless the ledger's result is still open.
Load(w) ==
    /\ run = Idle
    /\ wstate[w] # "absent"
    /\ IF file[w] # NoFile /\ LastOutcome(w) \notin {"uncertain", "unresolved"}
       THEN Goto([pc |-> "accept", work |-> w])
       ELSE wstate[w] # "closed" /\ Goto([pc |-> "prepare", work |-> w])
    /\ UNCHANGED <<vars, adapter, file, rejected, checkpoint, history, clicks, world, mishaps>>

\* read_history(refresh=True): every category and page, kept for the session.
Reread(w) ==
    [x \in Works |->
        IF Owner[x] # Owner[w] \/ adapter[x] # adapter[w] THEN history[x]
        ELSE IF world[x] = "delivered" THEN "present" ELSE "absent"]

\* read_history: what is kept serves while it is young enough, see Ages.
ReadHistory(w) == history' = IF history[w] = "unread" THEN Reread(w) ELSE history

ReadsHistory(w) == wstate[w] = "ready" /\ adapter[w] \in ChecksHistory

\* Mutation: the official history is not read before the intent is recorded.
PrepareUnchecked(w) == UNCHANGED history

\* Authorisation, profile, page identity and preconditions are read-only.
MayPrepare(w) ==
    \/ ReadsHistory(w) /\ ReadHistory(w) /\ history'[w] = "absent"
    \/ /\ ~ReadsHistory(w)
       /\ wstate[w] = "ready" /\ adapter[w] \in {"boss_greeting", "liepin_greeting"} => world[w] # "sending"
       /\ UNCHANGED history

Prepared ==
    /\ At("prepare")
    /\ MayPrepare(run.work)
    /\ Goto([pc |-> "begin", work |-> run.work])
    /\ UNCHANGED <<vars, adapter, file, rejected, checkpoint, clicks, world, mishaps>>

PrepareRaises ==
    /\ At("prepare")
    /\ \/ UNCHANGED history
       \/ ReadsHistory(run.work) /\ ReadHistory(run.work)
    /\ Goto(Idle)
    /\ UNCHANGED <<vars, adapter, file, rejected, checkpoint, clicks, world, mishaps>>

\* pending_work for the issued work, with the nonce it recorded.
Reconcile(w, n) ==
    /\ wnonce[w] = n
    /\ \/ PendingWork(Owner[w], w)
       \/ wstate[w] = "reconcile_only" /\ UNCHANGED vars

\* Mutation: reconciliation of an issued work may act again.
BeginAlwaysActs(w, n) ==
    /\ At("begin")
    /\ run.work = w
    /\ Goto([pc |-> "act", work |-> w, mayAct |-> TRUE])
    /\ \/ BeginEffect(Owner[w], w, n)
       \/ BeginObservation(Owner[w], w, n)
       \/ Reconcile(w, n)
    /\ UNCHANGED <<adapter, file, rejected, checkpoint, history, clicks, world, mishaps>>

\* begin_work for a ready or read-only work, pending_work for everything else
\* and for an observation whose budget is spent.
Begin(w, n) ==
    /\ At("begin")
    /\ run.work = w
    /\ \/ /\ BeginEffect(Owner[w], w, n) \/ BeginObservation(Owner[w], w, n)
          /\ Goto([pc |-> "act", work |-> w, mayAct |-> TRUE])
       \/ /\ SideEffect(w) => wstate[w] # "ready"
          /\ ~SideEffect(w) => wattempts[w] >= MaxObservationAttempts
          /\ Reconcile(w, n)
          /\ Goto([pc |-> "act", work |-> w, mayAct |-> FALSE])
    /\ UNCHANGED <<adapter, file, rejected, checkpoint, history, clicks, world, mishaps>>

Finish(w, o) == Goto([pc |-> "save", work |-> w, outcome |-> o])

\* Mutation: no reconciliation is ever given up.
RaisedOpen(w, mayAct) == "uncertain"

\* An exception inside the adapter: an open question, except where the adapter
\* settles a reconciliation that cannot verify anything.
Raised(w, mayAct) ==
    IF ~mayAct /\ adapter[w] \in Settling THEN "unresolved" ELSE "uncertain"

\* The checkpoint (state.save_json) is written before the only click.  A record
\* that is there already is older than it by more than the tolerance, or not.
SaveCheckpoint(w) ==
    /\ \E c \in Checkpoints :
        /\ c = "none" <=> adapter[w] = "liepin_open"
        /\ c = "late" => world[w] = "delivered"
        /\ checkpoint' = [checkpoint EXCEPT ![w] = c]
    /\ UNCHANGED <<clicks, world>>

\* adapter.execute with may_act: read the page again, then prepare the click.
Act(w) ==
    /\ At("act")
    /\ run.work = w
    /\ run.mayAct
    /\ SideEffect(w)
    /\ \/ /\ adapter[w] = "boss_greeting"
          /\ world[w] = "delivered"
          /\ Finish(w, "success")
          /\ UNCHANGED <<checkpoint, clicks, world>>
       \/ /\ Finish(w, "uncertain")
          /\ UNCHANGED <<checkpoint, clicks, world>>
       \/ /\ adapter[w] = "liepin_open"
          /\ world[w] = "delivered"
          /\ Goto([pc |-> "observe", work |-> w, mayAct |-> TRUE])
          /\ UNCHANGED <<checkpoint, clicks, world>>
       \/ /\ adapter[w] = "boss_greeting" => world[w] = "none"
          /\ SaveCheckpoint(w)
          /\ Goto([pc |-> "click", work |-> w, mayAct |-> TRUE])
    /\ UNCHANGED <<vars, adapter, file, rejected, history, mishaps>>

\* The click reaches the platform or is lost; it may raise either way, and
\* only _open_chat of Liepin then clicks a second time.
Click(w) ==
    /\ At("click") \/ At("again")
    /\ run.work = w
    /\ clicks' = [clicks EXCEPT ![w] = @ + 1]
    /\ world' \in {world, [world EXCEPT ![w] = IF @ = "none" THEN "sending" ELSE @]}
    /\ \/ Goto([run EXCEPT !.pc = "observe"])
       \/ Finish(w, "uncertain")
       \/ adapter[w] = "liepin_open" /\ At("click") /\ Goto([run EXCEPT !.pc = "again"])
    /\ UNCHANGED <<vars, adapter, file, rejected, checkpoint, history, mishaps>>

\* The control is gone, disabled or covered: raised without a click.
ClickRaises(w) ==
    /\ At("click") \/ At("again")
    /\ run.work = w
    /\ \/ Finish(w, "uncertain")
       \/ adapter[w] = "liepin_open" /\ At("click") /\ Goto([run EXCEPT !.pc = "again"])
    /\ UNCHANGED <<vars, adapter, file, rejected, checkpoint, history, clicks, world, mishaps>>

\* Reconciliation and inspections look without acting.
OnlyLook(w) ==
    /\ At("act")
    /\ run.work = w
    /\ ~run.mayAct \/ ~SideEffect(w)
    /\ Goto([run EXCEPT !.pc = "observe"])
    /\ UNCHANGED <<vars, adapter, file, rejected, checkpoint, history, clicks, world, mishaps>>

Verified(w) ==
    CASE adapter[w] = "inspection" -> TRUE
      [] adapter[w] = "liepin_open" -> world[w] = "delivered"
      [] adapter[w] \in ChecksHistory -> checkpoint[w] = "first" /\ world[w] = "delivered"
      [] OTHER -> checkpoint[w] # "none" /\ world[w] = "delivered"

\* Boss settles an attempt that left no checkpoint and no message.
NeverAttempted(w) == adapter[w] = "boss_greeting" /\ checkpoint[w] = "none" /\ world[w] = "none"

Observe(w, o) ==
    /\ At("observe")
    /\ run.work = w
    /\ \/ o = "success" /\ Verified(w)
       \/ o = "unresolved" /\ (NeverAttempted(w) \/ adapter[w] = "inspection")
       \/ o = Raised(w, run.mayAct)
    /\ Finish(w, o)
    \* a receipt is looked for in a history that is read anew
    /\ \/ /\ adapter[w] \in ChecksHistory /\ checkpoint[w] # "none"
          /\ history' = Reread(w)
       \/ /\ adapter[w] \in ChecksHistory => o # "success"
          /\ UNCHANGED history
    /\ UNCHANGED <<vars, adapter, file, rejected, checkpoint, clicks, world, mishaps>>

FreshReceipts == {r \in ReceiptIds : receipts[r] = NoReceipt}

\* Bound: the last receipt id is kept for a receipt that decides the work; an
\* open question that finds no other id ends the run without a receipt.
OutOfReceipts == run.outcome = "uncertain" /\ Cardinality(FreshReceipts) < 2

Save ==
    /\ At("save")
    /\ ~OutOfReceipts
    /\ file' = [file EXCEPT ![run.work] = run.outcome]
    /\ Goto([pc |-> "accept", work |-> run.work])
    /\ UNCHANGED <<vars, adapter, rejected, checkpoint, history, clicks, world, mishaps>>

Unfiled ==
    /\ At("save")
    /\ OutOfReceipts
    /\ Goto(Idle)
    /\ UNCHANGED <<vars, adapter, file, rejected, checkpoint, history, clicks, world, mishaps>>

\* native_work.submit validates the evidence and records the receipt; a
\* settled work only replays the receipt it was closed with.
Accept(r, b) ==
    /\ At("accept")
    /\ \/ SubmitWork(Owner[run.work], run.work, r, wnonce[run.work], file[run.work], b)
       \/ wstate[run.work] = "closed" /\ wresult[run.work] # Cancelled /\ UNCHANGED vars
    /\ rejected' = [rejected EXCEPT ![run.work] = FALSE]
    /\ Goto(Idle)
    /\ UNCHANGED <<adapter, file, checkpoint, history, clicks, world, mishaps>>

\* Evidence that is refused (expired, or for a cancelled work) is archived and
\* noted; a next run would observe again, but none is suggested any more.
RejectReceipt ==
    /\ At("accept")
    /\ wstate[run.work] = "closed" => wresult[run.work] = Cancelled
    /\ mishaps < MaxMishaps
    /\ mishaps' = mishaps + 1
    /\ file' = [file EXCEPT ![run.work] = NoFile]
    /\ rejected' = [rejected EXCEPT ![run.work] = TRUE]
    /\ Goto(Idle)
    /\ UNCHANGED <<vars, adapter, checkpoint, history, clicks, world>>

\* The process dies: its memory is lost, the files and the ledger stay.
Crash ==
    /\ run # Idle
    /\ mishaps < MaxMishaps
    /\ mishaps' = mishaps + 1
    /\ Goto(Idle)
    /\ UNCHANGED <<vars, adapter, file, rejected, checkpoint, history, clicks, world>>

-----------------------------------------------------------------------------
(* The platform and the user.                                               *)

PlatformRecords(w) ==
    /\ world[w] = "sending"
    /\ world' = [world EXCEPT ![w] = "delivered"]
    /\ UNCHANGED <<vars, adapter, run, file, rejected, checkpoint, history, clicks, mishaps>>

\* The user performs the action by hand, between two runs.
ByHand(w) ==
    /\ run = Idle
    /\ wstate[w] # "absent"
    /\ world[w] = "none"
    /\ world' = [world EXCEPT ![w] = "delivered"]
    /\ UNCHANGED <<vars, adapter, run, file, rejected, checkpoint, history, clicks, mishaps>>

\* Five minutes pass: the kept history is too old to be used.
Ages(w) ==
    /\ run = Idle
    /\ history[w] # "unread"
    /\ history' = [x \in Works |->
        IF Owner[x] = Owner[w] /\ adapter[x] = adapter[w] THEN "unread" ELSE history[x]]
    /\ UNCHANGED <<vars, adapter, run, file, rejected, checkpoint, clicks, world, mishaps>>

RunStep(w) ==
    \/ Load(w)
    \/ Act(w)
    \/ Click(w)
    \/ ClickRaises(w)
    \/ OnlyLook(w)
    \/ \E n \in Nonces : Begin(w, n)
    \/ \E o \in RunOutcomes : Observe(w, o)

ExecNext ==
    \/ \E w \in Works :
        \/ \E s \in Specs : Create(w, s)
        \/ Recover(w)
        \/ Cancel(w)
        \/ RunStep(w)
        \/ PlatformRecords(w)
        \/ ByHand(w)
        \/ Ages(w)
    \/ Prepared
    \/ PrepareRaises
    \/ Save
    \/ Unfiled
    \/ \E r \in ReceiptIds, b \in Bodies : Accept(r, b)
    \/ RejectReceipt
    \/ Crash

ExecSpec == ExecInit /\ [][ExecNext]_allVars

\* The user or host calls `work run` as long as it is what the client suggests
\* (present: the work is open and no receipt of it was refused), pages load and
\* verify now and then, and the platform records what it received.
Fairness ==
    /\ \A w \in Works :
        /\ WF_allVars(Load(w) /\ wstate[w] # "closed" /\ ~rejected[w])
        /\ WF_allVars(\E n \in Nonces : Begin(w, n))
        /\ WF_allVars(OnlyLook(w))
        /\ WF_allVars(Act(w) \/ Click(w) \/ ClickRaises(w))
        /\ SF_allVars(Observe(w, "success"))
        /\ WF_allVars(\E o \in RunOutcomes : Observe(w, o))
        /\ WF_allVars(PlatformRecords(w))
    /\ SF_allVars(Prepared)
    /\ WF_allVars(Save \/ Unfiled)
    /\ WF_allVars(\E r \in ReceiptIds, b \in Bodies : Accept(r, b))

FairExecSpec == ExecSpec /\ Fairness

-----------------------------------------------------------------------------
\* One permission, one click: no history of crashes, uncertain receipts,
\* replays and repeated runs clicks the control that sends a message or an
\* application of a work twice.
AtMostOneClick == \A w \in Works : adapter[w] # "liepin_open" => clicks[w] <= 1

\* "performs at most one recruiting action", "Never retry a click after any
\* exception": what the run's comments say of every adapter.
OneActionPerWork == \A w \in Works : clicks[w] <= 1

\* A click happens under the recorded intent of this work and never against
\* what its adapter knows of the platform: the official history it holds, which
\* may be minutes old, does not have the job, and Boss's conversation is empty.
ClickUnderIntent ==
    [][\A w \in Works : clicks'[w] # clicks[w] =>
        /\ wstate[w] = "intent_recorded"
        /\ adapter[w] \in ChecksHistory => history[w] = "absent"
        /\ adapter[w] = "boss_greeting" => world[w] = "none"]_allVars

\* What the checkpoint of Zhilian and 51job states of the platform itself,
\* "prior_application_absent".  It does not hold: the history that was read may
\* be five minutes old.
PriorApplicationAbsent ==
    [][\A w \in Works : checkpoint'[w] # checkpoint[w] /\ adapter[w] \in ChecksHistory =>
        world[w] = "none"]_allVars

\* "No durable checkpoint means this client never clicked send" (Boss): a
\* greeting settled as never attempted was never clicked.
UnresolvedWasNotClicked ==
    \A w \in Works : adapter[w] = "boss_greeting" /\ LastOutcome(w) = "unresolved" => clicks[w] = 0

\* A click is never forgotten: the work stays issued until evidence closes it,
\* whatever is cancelled, rejected or lost on the way.
ClickedIsAccountable ==
    \A w \in Works : clicks[w] > 0 =>
        /\ wstate[w] \in {"intent_recorded", "reconcile_only", "closed"}
        /\ wstate[w] = "closed" => LastOutcome(w) \in {"success", "unresolved"}

\* A permitted work does not hold the lease for ever: it is settled once the
\* platform's record can be verified, and always where the adapter settles,
\* unless a receipt is refused, after which the client suggests no run.
EventuallySettled ==
    \A w \in Works :
        (/\ wstate[w] \in {"intent_recorded", "reconcile_only"}
         /\ \/ adapter[w] \in Settling \cup {"inspection"}
            \/ checkpoint[w] = "first" /\ world[w] = "delivered")
        ~> wstate[w] = "closed" \/ rejected[w]
=============================================================================
