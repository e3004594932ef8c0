------------------------------- MODULE HostLoop -------------------------------
(***************************************************************************)
(* The loop in which a host calls the client: application/workflow.py.        *)
(* "workflow next" suggests one command and notes it as an operation in the    *)
(* journal workflow.json; "workflow advance" claims the operation, dispatches  *)
(* its command and keeps the result; a command called directly leaves its      *)
(* result in the journal, too, and makes the operations in suspense stale.     *)
(*                                                                          *)
(* The journal is one account's; the commands act on the ledger of browser     *)
(* work, which the other accounts of the machine use as well.  Commands hold   *)
(* the command lock; one may be killed between the claim, its business, the    *)
(* journal and the output.                                                   *)
(*                                                                          *)
(* Of the business files the journal keeps a digest only.  What was noted     *)
(* under another digest is never used, so a change of these files drops it     *)
(* here.  Of a result it matters whether it carries the permission for an      *)
(* external action: `grant` is the work permitted.                            *)
(***************************************************************************)
EXTENDS BrowserWork

CONSTANTS
    Me,         \* the account of the journal
    NoWork,
    Ops         \* action ids; one of no further use stands for a new one

ASSUME LoopAssumption == Me \in Accounts /\ NoWork \notin Works \cup Ops

VARIABLES
    ops,        \* operations of the journal
    last,       \* last_result
    cmd,        \* the command under way
    shown,      \* ghost: how often the host was shown the permission for a work
    runs        \* ghost: how often the command of an operation was dispatched

loopVars == <<vars, ops, last, cmd, shown, runs>>

Mine == {w \in Works : Owner[w] = Me}
MineOpen == {w \in Mine : Open(w)}

\* What a command is, as far as the journal tells commands apart: "page" stands for
\* those of a platform, "read" for doctor and every status, "other" for those that change
\* the round, the profile or a card.
Names == {"begin", "next", "submit", "cancel", "page", "other", "read"}
Commands == {[name |-> "begin", work |-> w] : w \in Mine}
            \cup {[name |-> n, work |-> NoWork] : n \in Names \ {"begin"}}

Read == [name |-> "read", work |-> NoWork]
NoOp == [st |-> "none", does |-> Read, grant |-> NoWork]
NoCommand == [at |-> "idle", does |-> Read, op |-> NoWork, grant |-> NoWork]

LoopInit ==
    /\ Init
    /\ ops = [o \in Ops |-> NoOp] /\ last = NoWork
    /\ cmd = NoCommand
    /\ shown = [w \in Works |-> 0] /\ runs = [o \in Ops |-> 0]

-----------------------------------------------------------------------------
(* The business of a command *)

Same == UNCHANGED vars

\* A work is begun, and the permission for an external action is in the result.
BeginsWith(w, g) ==
    \/ g = w /\ \E n \in Nonces : BeginEffect(Me, w, n)
    \/ g = NoWork /\ \E n \in Nonces : BeginObservation(Me, w, n)
    \/ g = NoWork /\ (BeginIssued(Me, w) \/ Same)

Makes == \E w \in Mine, s \in Specs : EnsureWork(w, s)
Recovers == \E w \in Mine : PendingWork(Me, w)
Submits ==
    \E w \in Mine, r \in ReceiptIds, n \in Nonces, o \in Outcomes, b \in Bodies :
        SubmitWork(Me, w, r, n, o, b)

\* One transaction of a command; what some do further in the same call is a next command.
OnLedger(does, g) ==
    \/ does.name = "begin" /\ BeginsWith(does.work, g)
    \/ does.name \in {"next", "page"} /\ g = NoWork /\ (Makes \/ Recovers \/ Same)
    \/ does.name = "submit" /\ g = NoWork /\ (Submits \/ Makes \/ Same)
    \/ does.name = "cancel" /\ g = NoWork /\ \E w \in Mine : CancelUnexecuted(Me, w)
    \/ does.name \in {"other", "read"} /\ g = NoWork /\ Same

\* The operations a change of the business files, or of the revision, makes stale.
Stale == [o \in Ops |-> IF ops[o].st = "ready" THEN NoOp ELSE ops[o]]

\* The round, the profile and the card may change, but not by a begin or a read, and while a
\* work is open not by what changes its context.
Business(does, g) ==
    /\ OnLedger(does, g)
    /\ \/ UNCHANGED <<ops, last>>
       \/ /\ does.name \notin {"begin", "read"}
          /\ does.name = "other" => \A w \in Works : ~Open(w)
          /\ ops' = Stale /\ last' = NoWork

-----------------------------------------------------------------------------
(* The journal *)

\* Mutation: a result is repeated as it was.
SafeAsIs(g) == g

\* An old result is never a new permission (_safe_result).
Safe(g) == NoWork

Shows(g) == shown' = IF g = NoWork THEN shown ELSE [shown EXCEPT ![g] = @ + 1]

\* next_action and _source: an open work comes first, then the last result, then what the
\* round is at.
Suggested(does) ==
    IF MineOpen # {} THEN does.name = "next" \/ does.work \in MineOpen
                     ELSE does.name \in {"next", "page", "other", "read"}

\* An operation whose result is missing comes before everything.  The id of an action is
\* the digest of revision, snapshot and command: the same suggestion is the same operation.
Offer(o, does) ==
    /\ cmd = NoCommand
    /\ \A p \in Ops : ops[p].st # "claimed"
    /\ ops[o].st = "none" /\ Suggested(does)
    /\ ~\E p \in Ops : ops[p].st = "ready" /\ ops[p].does = does
    /\ ops' = [ops EXCEPT ![o] = [NoOp EXCEPT !.st = "ready", !.does = does]]
    /\ runs' = [runs EXCEPT ![o] = 0]
    /\ Shows(IF MineOpen = {} THEN Safe(last) ELSE NoWork)
    /\ UNCHANGED <<vars, last, cmd>>

\* Mutation: the operation is noted only with its result.
ClaimInMemory(o) ==
    /\ cmd = NoCommand
    /\ ops[o].st = "ready"
    /\ cmd' = [NoCommand EXCEPT !.at = "dispatch", !.does = ops[o].does, !.op = o]
    /\ UNCHANGED <<vars, ops, last, shown, runs>>

\* advance: the claim is on disk before the command is dispatched.
Claim(o) ==
    /\ cmd = NoCommand
    /\ ops[o].st = "ready"
    /\ ops' = [ops EXCEPT ![o].st = "claimed"]
    /\ cmd' = [NoCommand EXCEPT !.at = "dispatch", !.does = ops[o].does, !.op = o]
    /\ UNCHANGED <<vars, last, shown, runs>>

\* A completed operation is answered with its result.
Replay(o) ==
    /\ cmd = NoCommand
    /\ ops[o].st = "completed"
    /\ cmd' = [NoCommand EXCEPT !.at = "output", !.grant = Safe(ops[o].grant)]
    /\ UNCHANGED <<vars, ops, last, shown, runs>>

\* A command that raises ends as a killed one does: nothing is recorded.
Dispatch ==
    /\ cmd.at = "dispatch"
    /\ \E g \in Works \cup {NoWork} :
          /\ Business(cmd.does, g)
          /\ cmd' = [cmd EXCEPT !.at = "record", !.grant = g]
    /\ runs' = [runs EXCEPT ![cmd.op] = @ + 1]
    /\ UNCHANGED shown

Direct(does) ==
    /\ cmd = NoCommand
    /\ \E g \in Works \cup {NoWork} :
          /\ Business(does, g)
          /\ cmd' = [NoCommand EXCEPT !.at = "record", !.does = does, !.grant = g]
    /\ UNCHANGED <<shown, runs>>

\* What closes a claim whose command died: a read of its own group, a command that finds a
\* work in the ledger or, for a search that no work came of, the status of an empty ledger.
\* Which of the reads it is, and whether the search has left a request with the service, is
\* not modelled: `closes` decides.
FindsWork(closes) ==
    \/ cmd.does.name = "next" /\ MineOpen # {}
    \/ cmd.does.name = "read" /\ closes /\ \E w \in Mine : wstate[w] # "absent"
    \/ cmd.does.name = "submit"
Settled(o, closes) ==
    LET of == ops[o].does.name IN
    \/ of \in {"begin", "next", "page"} /\ FindsWork(closes)
    \/ of = "read" /\ closes /\ cmd.does.name \notin {"page", "other"}
    \/ of = "page" /\ closes /\ cmd.does.name = "read" /\ \A w \in Mine : wstate[w] = "absent"

\* _record_result, and for an operation its result.  Of a completed operation only a
\* permission is worth a replay here.
Record ==
    /\ cmd.at = "record"
    /\ \E closes \in BOOLEAN :
          ops' = [o \in Ops |->
              IF o = cmd.op
              THEN IF cmd.grant = NoWork THEN NoOp
                   ELSE [NoOp EXCEPT !.st = "completed", !.grant = cmd.grant]
              ELSE IF ops[o].st = "claimed" /\ Settled(o, closes) THEN NoOp ELSE Stale[o]]
    /\ last' = cmd.grant
    /\ cmd' = [NoCommand EXCEPT !.at = "output", !.grant = cmd.grant]
    /\ UNCHANGED <<vars, shown, runs>>

Output ==
    /\ cmd.at = "output"
    /\ Shows(cmd.grant)
    /\ cmd' = NoCommand
    /\ UNCHANGED <<vars, ops, last, runs>>

\* workflow submit: a new intent makes a new revision, and the last result is forgotten.
SubmitIntent ==
    /\ cmd = NoCommand
    /\ \A w \in Works : ~Open(w)
    /\ ops' = Stale /\ last' = NoWork
    /\ UNCHANGED <<vars, cmd, shown, runs>>

Die ==
    /\ cmd # NoCommand
    /\ cmd' = NoCommand
    /\ UNCHANGED <<vars, ops, last, shown, runs>>

\* A command of another account, whose journal is another.
Elsewhere(a) ==
    /\ cmd = NoCommand /\ a # Me
    /\ \E w \in Works :
          \/ \E s \in Specs : Owner[w] = a /\ EnsureWork(w, s)
          \/ PendingWork(a, w)
          \/ \E n \in Nonces : BeginEffect(a, w, n) \/ BeginObservation(a, w, n)
          \/ BeginIssued(a, w)
          \/ \E r \in ReceiptIds, n \in Nonces, o \in Outcomes, b \in Bodies : SubmitWork(a, w, r, n, o, b)
          \/ CancelUnexecuted(a, w)
    /\ UNCHANGED <<ops, last, cmd, shown, runs>>

LoopNext ==
    \/ \E o \in Ops : (\E does \in Commands : Offer(o, does)) \/ Claim(o) \/ Replay(o)
    \/ Dispatch \/ (\E does \in Commands : Direct(does)) \/ Record \/ Output
    \/ SubmitIntent \/ Die \/ \E a \in Accounts : Elsewhere(a)

LoopSpec == LoopInit /\ [][LoopNext]_loopVars
-----------------------------------------------------------------------------
LoopTypeOK ==
    /\ TypeOK
    /\ ops \in [Ops -> [st : {"none", "ready", "claimed", "completed"},
                        does : Commands, grant : Works \cup {NoWork}]]
    /\ last \in Works \cup {NoWork}
    /\ cmd \in [at : {"idle", "dispatch", "record", "output"}, does : Commands,
                op : Ops \cup {NoWork}, grant : Works \cup {NoWork}]
    /\ shown \in [Works -> Nat] /\ runs \in [Ops -> Nat]

\* The host sees the permission for an external action once: not again in the replay of an
\* operation, nor as the last result of a loop whose later command died before it was
\* recorded, nor from a second begin ("An old output containing a nonce must never be
\* presented as a new grant").
GrantShownOnce == \A w \in Works : SideEffect(w) => shown[w] <= 1

\* The command of an operation is dispatched once, whoever advances it again, and after
\* whatever death ("test_interruption_never_reexecutes_claimed_action").
DispatchedOnce == \A o \in Ops : runs[o] <= 1
===============================================================================
