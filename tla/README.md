# Formal models of the Job Agent client

The repository is a command-line client (`src/src/jobagent`) that takes one
recruiting *round* through four platforms in a fixed order (BOSS, Liepin,
Zhilian, 51job): log in, discover vacancies through a billed cloud service,
review them, preview and authorise a delivery list, send greetings and resumes
through a browser, audit the result. Every command is a short process. What it
knows lies in JSON files (replaced atomically by `infra/state.py`) and in one
SQLite file, the ledger of browser work. The browser is driven by a host agent
that clicks between two commands (`codex_native`), by the client itself
(`playwright`), or, for reading, through the debugging port of a dedicated
Chrome (`cdp_readonly`). The hard question is always the same: a command, the
host or the machine can stop at any point, the external world cannot be rolled
back, and nothing irrevocable (a greeting, a resume, a charged analysis) may
happen twice, unapproved, or unrecorded.

## Inventory

| part | state | operations | what makes it correct | modelled in |
|---|---|---|---|---|
| browser-work ledger, `infra/browser_work.py` | tables `works`, `receipts` | ensure, begin, pending, submit, cancel | one open work; an external action permitted once; a receipt decides once and stays | `BrowserWork` |
| workflow journal, `application/workflow.py` | `workflow.json`: operations, last result | next, advance, submit, record of a direct command | an operation is dispatched once; an old result is never a new permission | `HostLoop` |
| Playwright execution, `application/playwright_work.py` | receipt file of a work, pacing file, round | `work run`, accept, migrate | at most one click for a permission; a crash loses neither the intent nor the evidence | `PlaywrightWork` |
| delivery machine, `application/native_work.py`, `native_delivery_*` | `native_delivery`, `native_processed_work` in the round; ledger | start, next, begin, submit, cancel, audit | each approved job gets each action at most once, in order, inside the approved prefix; totals match the ledger | `NativeDelivery` |
| preview and authorisation, `application/delivery_confirmation.py`, `review.py`, `workflow_delivery.py`, `delivery_followup.py`, `round_criteria.py` | review file, round, card, the service's record | preview, authorise, exclude, cancel, follow up | only what the user saw last is sent, never a cancelled list | `DeliveryConfirmation` |
| discovery, `application/discover.py`, `hybrid_discovery.py`, `native_discovery.py`, `bulk_decision.py`, `infra/discovery_state.py` | start, checkpoint, decision, upload record, manifest | discover, collect, submit a page, decide, cancel | one charge for one set of pages; a resumed search continues the same request | `Discovery` |
| rounds and resume freshness, `infra/rounds.py`, `application/resume_freshness.py`, `round_direction.py`, `round_resume_binding.py` | round file, baseline, the one slot for a card | start, skip, complete, hold, answer, change of direction | nothing is delivered under a resume the user has not attested; every hold can be ended | `Rounds` |
| account, upgrade, update: `infra/account_state.py`, `client_upgrade.py`, `release_update.py`, `credentials.py` | owner file, snapshots of accounts, upgrade marker, checkout, API key | bind, switch, log out, migrate, update | no state of one account is read under another; a marker tells the truth; no file is lost but what a migration drops or archives by design | `ClientState` |
| read guard, `infra/collection_guard.py` | a file beside the browser profile | assert, begin, finish, reject, confirm, suspend | no read after trouble before the user has answered; a bounded load | `ReadGuard` |
| page collectors, `platforms/{liepin,zhilian,job51}/collect.py`, city resolvers, `drivers/boss/cdp_driver.py` | the tab, the kept city codes | collect a page of a query | what is handed on is of the asked city, keyword and page | `*Collector`, `Collectors` |
| direct senders, `application/delivery.py`, `platforms/*/apply.py`, `boss/send_flow.py`, audits | audit log, status of the platform | send a list over its first jobs | nothing arrives twice, the log is true, "sent" owes nothing | `*Sender`, `Senders` |
| locks, `infra/native_command_lock.py`, `platform_lock.py`, `activity.py` | flock, pid files | acquire, release | commands and browser actions are serial | in `ClientState`, `Senders` |
| cloud client and outboxes, `infra/cloud_client.py`, `application/delivery_receipts.py`, `infra/analytics.py` | outbox files | call with retries, flush | a repeated call carries the same identity | the calls in `Discovery`, `DeliveryConfirmation` |
| installation, diagnostics, texts | | | | not modelled |

## How the parts interact

A user talks to a host agent; the host calls one command at a time, often the
one that `workflow next` suggests. The command line takes a kernel lock for the
whole of every business command (`cli.main`, `infra/native_command_lock.py`), so
two commands never interleave: what interleaves is *between* commands (the
user, the host's clicks, the platform, the service, a browser shared by several
accounts), and what makes a command dangerous is that it can die between any two
of its writes. The models take commands that way.

    every command:  lock -> update -> migrate -> owner of the state -> business -> journal
                            '----------- ClientState -----------'                 HostLoop

    round, freshness        discovery             preview / confirmation    delivery
    ----------------        -----------------     ----------------------    --------------------
    Rounds: whose turn,     Discovery: request,   DeliveryConfirmation:     NativeDelivery (host) or
    may it search or        pages, pool, charge   review file, card, gate   PlaywrightWork (client)
    deliver now? --------->      |        ------->            ------------>     |  ensure, begin, submit
                            pages|                                              v
                            Collectors, ReadGuard                         ledger: BrowserWork
                            (dedicated Chrome)                            implements OneShotPermission

    older path, beside the ledger:  Senders (the audit log instead of the ledger)

Hard behaviours, in the order in which the models take them up:

* a permission for an irrevocable click whose reply, click, receipt or process is
  lost: the click must be neither repeated nor forgotten;
* durable stores written one after the other (ledger and round file; review
  file, service, card and round; start, decision, manifest and status; the files
  of two accounts) with a command that dies in between;
* a list, limit, policy, criterion or resume that changes while work made under
  the old one is still open;
* one slot for the pending card, shared by every kind of card;
* a service that has moved on when its answer is lost;
* a page that shows something else than what was asked, or shows it late;
* a clock that is set back, a person who uses the same tab;
* something that must eventually happen: a settled work, a decided search, an
  answer for the user, a released guard.

`PROJECT.json` lists the hazards line by line, with the properties that watch them.

## Modules

| module | models | extends / instantiates |
|---|---|---|
| `OneShotPermission` | what the ledger promises: a lease, a permission once, a final fate | |
| `BrowserWork` | `infra/browser_work.py` | implements `OneShotPermission` |
| `HostLoop` | `application/workflow.py` over the ledger of several accounts | extends `BrowserWork`, implements it |
| `PlaywrightWork` | `work run`: `application/playwright_work.py`, `platforms/*/playwright_delivery.py` | extends `BrowserWork`, implements it |
| `DeliveryPromise` | what delivery promises to the user | |
| `NativeDelivery` | `application/native_work.py` (delivery part), `native_delivery_followup.py`, `native_resume_choice.py`, `round skip`, `audit` | implements `DeliveryPromise` |
| `DeliveryConfirmation` | `review.py`, `delivery_confirmation.py`, `delivery_followup.py`, `workflow_delivery.py`, `round_criteria.py`, the gate of `delivery.py` | |
| `Discovery` | the billed search with both executors | |
| `Rounds` | the round, its order, freshness, holds, change of direction | |
| `ClientState` | what every command does before its business | |
| `ReadGuard` | the guard file of the read-only browser and its callers | |
| `CollectorState`, `LiepinCollector`, `ZhilianCollector`, `Job51Collector`, `Collectors` | collecting a page of a query on the dedicated tab | `Collectors` extends the three, they extend `CollectorState` |
| `SenderState`, `BossSender`, `LiepinSender`, `ZhilianSender`, `Job51Sender`, `Senders` | `send_reviewed` and the four direct senders | `Senders` extends the four, they extend `SenderState` |
| `LedgerProofs` | theorems about `BrowserWork` and its two users, `HostLoop` and `PlaywrightWork` | TLAPS |
| `NativeDeliveryProofs`, `DeliveryConfirmationProofs`, `DiscoveryProofs`, `RoundsProofs`, `SendersProofs`, `ClientStateProofs` | theorems about the module they are named after | TLAPS |
| `ReadingProofs` | theorems about `ReadGuard` and `Collectors` | TLAPS |
| `MC...` | constants and symmetry for TLC | |

Definitions whose comment begins with "Mutation:" are wrong on purpose: each is
the form a definition would take under a plausible bug, kept to show that a
property notices it. No specification uses them.

### BrowserWork

A row of table `works` is spread over `wspec`, `wstate`, `wnonce`, `wattempts`
and `wresult`; `receipts` is the other table; `permits` is a ghost that counts
the permissions handed out. One action for each transaction: `EnsureWork`,
`PendingWork` (the recovery every `work next` does), `BeginEffect`,
`BeginObservation`, `BeginIssued` (begin called again), `SubmitWork`,
`CancelUnexecuted`. A transaction is atomic because SQLite's `BEGIN IMMEDIATE`
makes it so. A specification's JSON, a nonce and a receipt are identities:
equality is all that the code asks of them.

### HostLoop

The journal of one account (`ops`, `last`) over the ledger of all. `Offer` is
`workflow next` when it notes an operation, `Claim`, `Dispatch`, `Record` and
`Output` are the steps of `workflow advance` in the order of its writes, `Direct`
is a command called without the journal (its result is recorded all the same),
`Replay` the answer for a completed operation, `SubmitIntent` `workflow submit`.
`Die` may follow each. A command acts on the ledger by one of the ledger's own
transactions (`OnLedger`); one that makes several is several commands. The
digest of the business files is not kept: what was noted under another digest is
never used by the code, so a change of the files drops it (`Stale`). `shown`
counts how often the host was shown the permission for a work, `runs` how often
the command of an operation was dispatched. What closes an unresolved claim
(`Settled`) is `_record_result`'s condition, with the arguments of the two
commands reduced to their kind.

### PlaywrightWork

The run is a program counter with its memory (`run`); what survives a crash is
the ledger, the receipt file (`file`) and the pre-click `checkpoint`. `adapter`
says which of the six adapters performs a work, `world` is the platform's own
record of it and `clicks` counts the clicks on the sending control. `Load`,
`Prepared`, `Begin`, `Act`/`Click`/`ClickRaises`/`OnlyLook`, `Observe`, `Save`,
`Accept` or `RejectReceipt` are the steps in the order of `run()`; `Crash` can
come after each. Between runs: `Create`, `Recover`, `Cancel`, and the user who
acts by hand. `history` is what the adapters of Zhilian and 51job hold of the
official record: `ReadHistory` reads it when there is none (`Reread`) and uses what
is there otherwise, `Ages` is the end of the five minutes it is good for, so
that an application made by hand in between can be missed. `rejected` marks a work
whose receipt was refused: the client then suggests `work status` and no further
run, and the fairness assumes none.

### NativeDelivery

`review`, `delivery`, `status`, `card`, `followups`, `asked`, `answered`,
`preparedFor` and `processed` are fields of the round, review and card files;
`wstate`, `outcome` and `seen` are the ledger as this code reads it (the
intermediate states of an issued work do not matter here: `issued` stands for
`intent_recorded` and `reconcile_only`). `pc` is the command under way. A
command that writes more than once is split at its writes: `Submit` commits the
receipt, `Continue` saves the round, `Advance` (the whole of `_delivery_next`)
makes the next work or ends in a card, a pause or "sent"; `Cancel` and
`SaveCancel` likewise; `Crash` returns to idle in between. What a job needs next
(`Needs`, `Asks`, `Refused`, `Problem`) is stated as conditions over the
evidence instead of the nested tests of the loop.

### DeliveryConfirmation

`files` are the review files, `round` the platform's part of the round, `card`
the pending interaction, `service` the record the service keeps, `cmd` the
command with the review it holds in memory. Here every single write and service
call is an action (`Save`, `Register`, `SaveTicket`, `ShowCard`, `SetStatus`,
`SaveAuth`, ...), since the question is what a half-done command leaves behind;
`Die` may also leave the review file truncated, as `save_review` does not
replace it atomically. `Gate` is `_load_reviewed`; delivery is `Start`,
`MakeWork`, `Begin`, `EndWork`, each asking the gate where the code does.
`served` distinguishes rounds the service keeps its own record of from the
others. `agreed` is a ghost: the list the last accepted answer confirms.

### Discovery

One platform's search by one of two executors. `start`, `decision`, `manifests`
and `sent` are the files pending-start, pending-decision, the manifests and the
local upload record; `rows` are the ledger's works of the native executor, by
page; `service` and `charged` are what the service has. `cmd` is the command
under way with the pool it holds. Each write and each call is an action: for the
bulk executor `Plan`, `CollectPage` (with its checkpoint), `PutBlock`,
`SaveDecision`, `ClearStart`, `Decide`, `SaveManifest`, `ClearDecision`,
`SetDiscovered`; for the native one `IssuePage`, `SubmitPage`, `AcceptPage`,
`MarkProcessed`, `FreezePool`, and the cancellation in its two writes
(`CancelPage`, `SaveGate`). A bulk collection stops for the user, and says so in
its checkpoint, when a page does not advance, and when the pages or the time of its
plan are spent (`WithinBudget`, `col.late`, `col.stop`); then no command is suggested
but for the user to look, or to accept the partial pool (`AwaitsUser`). The service
gives a request id one plan and charges it once; an answer may be lost after the
service has acted. `askOf`, `ask`, `taken`, `partial` are ghosts.

### Rounds

`round` is the round file (status, resume bound, hold, and for each platform its
status, freshness record and pending choice), `slot` the pending interaction,
`baseline` the attested revisions. A command decides everything at once and then
has writes to make: `todo` holds them in the order of the code, `Write` makes the
next one, `Die` forgets the rest. That gives every half-written command without
an action for each place in each command. `attested` is the ghost of what the
user has said. `Executor` says in which order a found list is written
(`FoundWrites`): the bulk executor clears its start first and says "discovered"
last, the native one says "discovered" and clears its start after it, so that a
death leaves a start (`started`) beside the list.

### ClientState

A command goes through the phases update, upgrade, owner and dispatch, each of
which queues its writes in `todo`, as in `Rounds`. `files` says for each item and
each place (active, or the snapshot of an account) whose file is there and in
which version; `owner`, `key`, `marker`, `code` are the owner file, the saved
key, the marker of the upgrade and the version checked out. A switch goes
through the phases `out` (`PutAside`) and `in` (`BringBack`, then `Rebind`), one
file at a step, with `journal` in memory; when a move or the binding fails it
goes to `undo` and takes the journal back move by move (`UndoMove`), each only if
the file is where it was put and its former place is free, as the code does
(`Undoable`). `older` is a process of an earlier release with its lock file. A
migration does one of three things to a file of the former version
(`MigrateFile`): rewrites it in place, drops it (`Cleared`: the card and the request
of a search), or moves it to the archive (`Shelved`: the collections of a former
protocol, an unreadable round). Which one depends on what the file holds, and is a
choice. The `Archive` is itself a file of the account.

### ReadGuard

Several commands share the guard file of a browser profile; `lock` is the file's
lock, `at` and `data` where each command is and what it has loaded. All times are
relative to the present: `Tick` ages them, `ClockSetBack` moves those on file
into the future and leaves the true `ages` (ghost) alone. `Call`, `GiveUp`,
`Count`, `Send`, `Answered`, `Rejected`, `Confirm`, `Ready`, `NotReady`, `Block`,
`Suspend` and `Kill` are the operations and the moments between them.

### The collectors

A page in the tab is what its evidence says (url, control, visible city,
keyword, page number) and what its list really is; the collector sees only the
former. One collection is a program counter (`pc`) with what it has in hand
(`call`); the tab, the kept codes and the site survive it. `LiepinCollector`
searches by the code of the city, or by the route the site links, and forgets a
code that a page refutes; `ZhilianCollector` types and sends the keyword on the
entry page and takes the page's own way to the city; `Job51Collector` moves a
pager whose cards are drawn later. `Disturb` is the site or a person at the tab.
Several reads of one page by script are one step, and so are the driver's look at
the url and the navigation that follows.

### The senders

`log` is the audit log as its reducer sees a job, `round` the platform's status,
`run` and `att` the run and the attempt under way, `received` what the employer
of a job has really got. Each platform's module is the sequence of its sender:
filling and sending on Boss, the resume and the greeting in a Liepin
conversation, the application page of Zhilian, the card of the search on 51job
with the click kept in the log and its bounded reconciliation. `Render` is the
page that catches up, `Interrupt`/`Attend` a login or verification and the person
who answers it. No command reaches this code today: `_native_dispatch` answers
every `send` before `cli.py` gets to `send_reviewed` (cli.py:2239), which the
tests call. It is modelled as the code stands.

## Runs

All pass. With two workers each takes between 10 seconds and two and a half minutes.

| run | instance | states | what it shows |
|---|---|---|---|
| `ledger` | 3 works of 2 accounts, 3 nonces, 2 receipts, an external and a reading specification, one journal with one operation at a time, any number of deaths | 1,964,904 | `OneShotPermission` is implemented by every transaction of the loop; the host is shown a permission once; an operation is dispatched once |
| `work_run` | 1 work, each of 6 adapters, 4 receipts, 3 mishaps, a history that may be old | 89,133 | one click, under the recorded intent and not against the history the adapter holds; settled in the end unless a receipt was refused |
| `native_batch` | Zhilian, a list of 2 jobs, sent with limit 1 and continued to 2, 1 crash | 68,163 | permissions follow the list and its policy; "sent" never skips a job; the rest of the list comes to an answer, too, unless its card is spent |
| `native_liepin` | Liepin, 1 job, 2 lists | 211,431 | nothing already on the platform is permitted; `DeliveryPromise` is implemented |
| `confirmation` | 2 jobs, 2 lists, 2 changes of the criteria, 1 fault | 788,977 | only what the user confirmed last, within the criteria, never a cancelled list; a cancellation comes back to the user |
| `discovery` | both executors, 2 jobs, 1 query of 2 pages, 2 requests, 2 rounds, 2 searches, 2 faults | 443,402 | one charge for a native search, for exactly what was read; one pool for a request; a cancelled page stays cancelled; the search is decided or stops at a person |
| `rounds` | 1 platform, native executor, 2 resume revisions, questions of both policies, a binding that goes, a change of direction, 1 fault | 1,421,625 | nothing is delivered under an unattested resume; a hold can be ended; a user can skip to the end |
| `rounds_two` | 2 platforms, bulk executor, 1 resume revision, 1 fault | 299,926 | a question that another card displaced, the other platform's too, is in the slot again |
| `client_state` | 2 accounts, a file that migrations rewrite, drop or archive, and the archive, 2 versions, 1 death | 4,755,708 | business runs on the files of its own account; a marked migration is complete; nothing is lost but what migrations drop; an action that may have happened keeps its state |
| `read_guard` | 2 commands, window 6, 3 reads, clock set back twice | 131,612 | no read after trouble; the load is bounded in true time; the guard is released in the end |
| `collection` | 3 platforms, 2 codes, 3 pages, 1 disturbance | 300,674 | only the asked list is handed on; an end is the end of that list; cards are of the asked page; page one is collected again and again |
| `senders` | 4 platforms, 2 jobs, 2 troubles | 517,355 | the log is true, a click stays on record, nothing arrives twice unless a page hid it, "sent" owes nothing, and comes in the end |

*Why these bounds are enough to be interesting.* The ledger needs two works of
one account to contend for the lease and for the journal's last result, a third
of another account to come between them, and two receipts for an uncertain
answer and a decisive one. `work_run` has one work because the executor never
looks at a second (the lease makes sure); three mishaps let a crash, a rejected
receipt and another crash fall on one work. A batch of two jobs is the smallest
with a "job before" and a remainder behind the limit; "continue" raises the limit to 2, and sending again sets it back
to 1. Two lists are the smallest
history in which a job can come back; `native_liepin`, where every kind of work
occurs, has them, and no crash, which with two lists takes TLC beyond a
few minutes. What it checks is proved for any number of crashes, on every
platform. One crash per behaviour at *every* point
of *every* command shows each single half-done state; two faults in `discovery`
let the second hit the recovery of the first. Two pages are the smallest search
with a page to come, two requests the smallest with a request to confuse.
`rounds` has one platform and everything that can happen to its question;
`rounds_two` has the second platform, whose card is the one that displaces a
question of the first. The safety properties are proved for any number.
Two accounts and two files are the smallest switch with a middle; one of them
stands for whatever a migration may touch, the other is the archive. The files that
no migration drops or archives behave as those do when it rewrites them. In
`read_guard` the window is six units with three reads: long enough for a read to
leave it while others stay. Beyond jobs, lists, works and platforms of these
numbers lie the proofs, where there are any.

*Counters that are bounds and not code*: `MaxMishaps`, `MaxCrashes`,
`MaxFaults`, `MaxDeaths`, `MaxTrouble` (commands that die, answers lost, sites
that disturb), `MaxLists`, `MaxSearches`, `MaxRequests`, `MaxRounds`,
`MaxDirections`, `MaxGone`, `MaxGeneration`, `MaxRevision`, `MaxSetbacks`, `Setback`.
`MaxObservationAttempts` (3; 2 in `ledger`), `Batch` (100), `PageBudget`,
`BlockSize`, `CandidateLimit`, `MaxReads` and `Window` are the code's own
constants, made small.

In `collection` the site is wrong in at most one source of a list's city at a
time, and there is one disturbance. Of Liepin and 51job the theorems hold for any
number of disturbances. Zhilian's collector keeps the code that an earlier look
found and is then content with one source for the city: with two disturbances TLC
finds a list of the whole country that names the city in its title at the first
look and in its control at the second, and that is handed on as the city's.

Deadlock is checked in `client_state`, `read_guard`, `collection` and `senders`,
where there is always something to do. In the others a ledger whose works are
all closed, a completed platform, an exhausted bound and a host that calls
nothing more are legal ends.

### Fairness

* `FairExecSpec`: the host or user keeps calling `work run` as long as the client
  suggests it: the work is open and no receipt of it was refused. A refused
  receipt suggests `work status` and forbids an automatic retry
  (`playwright_work.py:137-139`), so `EventuallySettled` ends there. A step of a
  running command is followed by the next unless it dies, preparing and
  observing succeed now and then if they can (strong fairness), the platform
  records what it received. Without the platform's record, Boss and Zhilian have
  no way to settle an attempt, and `EventuallySettled` does not claim it.
* `NativeDelivery!FairSpec`: commands end or die, the host repeats `work next`,
  performs and submits. The user need not do anything, hence the conclusion is
  an answer *for* the user. `EventuallyAnswered` exempts `CardSpent`, the loop of
  disagreement 3.
* `DeliveryConfirmation!FairSpec`: commands end or die, the host repeats the
  review of the latest list and a criteria update whose answer was lost, and
  `assert_current` catches up when a list is loaded.
* `Discovery!Fairness`: commands end or die (`WF(Command)`); the host repeats
  `discover` while the client does not want the user (`SF(Discover /\ ~AwaitsUser)`)
  and submits the works it is given. Nothing is assumed of pages: one that does not
  advance, a spent budget of pages or time and a pool that is not full are stops
  for the user in the code, and "stops at a person" is part of the conclusion.
* `Rounds!FairSpec`: commands end or die. That the host goes on with what is due
  and the user confirms the lists shown (`Host`), and that the user insists on
  skipping (`Insists`), are hypotheses inside `AskedAgain` and `SkippedOut`, since
  the code cannot make them do so.
* `ReadGuard!FairSpec`: time passes, a command goes on while it is not killed,
  and a user who is asked to confirm does so again and again, on a page that is
  ready at times.
* `CollectFairSpec`, `Senders!FairSpec`: a command goes on while it lives,
  pages catch up, the person helps, and the first page (the whole list) is asked
  for again and again.

Liveness is only ever claimed with a finite number of faults. `HostLoop` and
`ClientState` have safety properties only.

## What is proved

All theorems hold for every value of the constants allowed by the named
assumptions of the modules (any number of works, accounts, receipts, jobs,
lists, platforms, crashes); they assume no fairness.

**LedgerProofs**, the ledger (`LedgerInv` = `Lifecycle` /\ `Accounting` /\
`NoncesUnique`, with the safety invariants). Those are not inductive alone: that
a cancelled action was never permitted needs that a ready work has no nonce and
no permission (`Lifecycle`), and that observations stay within their budget needs
that the attempt counter is the number of permissions (`Accounting`). From it
follow
`LedgerTypeCorrect`, `LeaseIsExclusive`, `PermissionIsOneUse`, `CancelIsSafe`,
`OneDecisiveReceipt`, `EvidenceNeedsPermission`, the action properties
`CommittedEvidenceStays` and `NonceIsStable`, and the refinement
`LedgerImplementsOneShot`.

**LedgerProofs**, the loop of the host (`LoopInv` = `LedgerInv`, `LoopTypeOK`, `ShownWasPermitted`,
`DispatchedOnce`, `ClaimedFirst`). `LoopIsLedger`: every step of the loop is a
transaction of the ledger or leaves it alone, so the ledger's theorems hold of
it, `LoopImplementsOneShot` among them. `GrantIsShownOnce` rests on
`ShownWasPermitted`: the permissions shown for a work, and the one the command
under way carries, were all issued by the ledger, which issues one.
`OperationRunsOnce` rests on `ClaimedFirst`: what is still to be dispatched is
claimed on disk and was never dispatched.

**LedgerProofs**, `work run` (`ExecInv` = `LedgerInv` /\ `RunInv` /\ `ClickInv` /\
`FreshInv`). `ExecutorUsesTheLedger` shows every step of a run to be a ledger
step or a stutter, so all ledger theorems hold under it. `OneClickPerWork` rests
on: a run that may still act holds the first permission of the work and has not
clicked, and whoever lost that memory in a crash can only look. `ClicksAreIntended`
adds that a click is made while the intent is recorded, and not for a job that the
official history the adapter holds has already (`FreshInv` carries that through a
run); how old that history is it does not say, see disagreement 12.

**NativeDeliveryProofs** (`DeliveryInv` = `Types`, `Placed`, `Current`, `Asking`,
`Under`, `OneList`, `Spent`). `PermittedOnce`: at most one permission for an
action on a job. The heart is `OneList`: a work for an external action exists in
one list only, because the machine looks for works of other lists before it
makes one and works are never deleted. `DeliveryKeepsItsPromise` is the
refinement of `DeliveryPromise`.

Three more invariants stand on it, each for a question of its own.
`OrderInv` (`Evidenced`, `OneOpen`, `Ours`, `InspectFirst`, `PreparedKnown`,
`Distinct`, `InOrder`) is about the order of the list: while a work is ready,
every job before its own is `Passed`, and stays so because nothing but the open
work changes, and a change of limit or policy is refused while it is open. It
gives `PermissionsInOrder` and `SentWasVisited`. The latter also has to count:
when the totals say that nothing is pending, as many jobs have works as the list
is long, so every job of the list has, if no other list does.
`ReadInv` (`WorldTyped`, `Sees`, `NoResume`, `ReadFirst`, `TrueGreeting`) says
what the evidence of a work shows of the platform, and `WorldInv` (`Known`,
`OpenDone`, `OpenEarly`, `OpenNeeded`, `ReadyIsNew`) which work accounts for
what the evidence does *not* show. With `OneList` the work that would account
for a second greeting is the very work that is to be permitted, which is still
ready: hence `NothingTwiceWhereSeen`. Its hypothesis `PagesLag = FALSE` is the
one of the property: a page that does not show a greeting the employer has
misleads any client, and TLC finds the second greeting at once where pages may
lag. `GreetingAfterReading` (`ReadBeforeGreeting`) needs no such hypothesis on
Boss, where the last reading of the conversation decides; on Liepin a greeting
that this reading shows can be missing from the next page, which decides there,
and with lagging pages TLC refutes the property.

**DeliveryConfirmationProofs** (`ConfirmInv` = `TypeOK`, `Gated`, `Carried`,
`RevOrder`, `NeverServed`, `Filtered`, `Started`). `Gated`: whenever the gate
would let a list through, the ghost `agreed` is that very list; `Carried` says
what a command in the middle of its writes carries; `RevOrder` that the service
is never behind the round; `NeverServed` that an unserved round without criteria
has no record there; `Filtered` that saved candidates pass the criteria of their
revision. Theorems: `ConfirmationTyped`, `PermittedAsConfirmed`,
`CancelledStaysUnsent`, `PermittedWithinCriteria`.

**DiscoveryProofs** (`DiscoveryInv` = `Typed`, `CommandInv`, `CancelInv`,
`KnownInv`, `AskInv`, `PoolInv`, `TakenInv`, `BlockInv`) says how the files a
command may continue from agree. `AskInv`: the native executor keeps its start as
long as the round waits for its request, so no second request is ever made for
one search (`NativeChargesOnce`). `PoolInv`: a saved decision, the collection it
was cut from and the pool the service froze are the same (`DecidedOnOnePool`).
`TakenInv`: a page that was taken is in the checkpoint of its request, so it is
not taken again. `BlockInv`: what the upload record acknowledges the service has
in that form, and the service never has more blocks than the growing pool makes,
which is where the prefix that is uploaded early has to agree with the pool that is
frozen later; with `TakenInv` that is `ChargedIsCollected`. `CancelInv`: whoever
issues a page without having submitted one has looked for a cancellation, and
nothing can be cancelled while its command runs (`CancelIsHonoured`). The
attempt to prove the last one corrected the model: a page that was submitted and
not accepted is looked for by `start_discovery` only, not by the advance that
follows an accepted page; with the search in both places a third death led to a
page issued under a gate. `DiscoveryTyped` is the type invariant. Of the jobs
the proofs assume that there are finitely many, since the limit counts them.

**RoundsProofs** (`RoundInv` = `RoundsTypeOK`, `Attested`, `HoldIsKept`,
`WritesInOrder`, `ChoiceInv`). `WritesInOrder` says what may stand in `todo` and behind what:
the hold of the round comes right after the record of its platform, a new
question is not that of the platform that holds the round, a delivery is the
first write of its command, and a baseline is written only when the user attested it. That is what makes `HoldHasAnEnd` and
`DeliveryIsAttested` survive a death before any write. `HoldHasAnEnd`
(`HoldCanBeEnded`) shows a way out of every hold of the round: its record is still
there (`HoldIsKept`), so the platform can be skipped, unless a choice after a
cancelled list is open beside it, which only a change of direction can bring about
(`ChoiceInv`). `RoundsTyped` is the type
invariant.

**ReadingProofs**, the guard (`GuardInv` = `Placed`, `HoldersHoldIt`,
`ReadersFoundItOpen`, `TroubleIsOnFile`). `NothingReadInTrouble` and
`SuspensionIsFinal` rest on: a command between its look at the file and its read
holds the lock, so what it saw is still on file. `GuardAlways` is the invariant
itself. `LoadIsBounded` needs `LoadInv` beside it (`Timed`, `Spaced`, `Covers`,
`Loaded`): the ghost of the true ages and the times on file are compared from
their ends, and the file has each read of the window with a time that is not
older than the true one (`Covers`), since a clock that is set back can only make
reads look younger; whoever holds the lock has loaded exactly what is on file
(`Loaded`). `FilesStayReadable` (`NeverLockedOut`) follows from `Timed`. Here the
model was changed to be reasoned about: what is recent of the requests is taken as
a suffix of them (`Within`), which for the times in order that `_load` accepts is
what the code's filter returns, and TLC would stop at a file where it is not.

**ReadingProofs**, the collectors (`CollectInv` = `CollectTypeOK`, `WebDrawn`,
`CityAsked`, `KeywordSearched`, `Safe`). What Liepin's collector says of a page
rests on `Drawn`, which bounds how wrong a list may be: its cards are of the place
and keyword of its url, and of the two sources that name the place one is right;
that survives whatever the site or a person does to the tab, so a page whose
sources both name the city (`BothSources`) is the city's (`AskedListHandedOn`),
its code is the city's (`CodeOfTheCity`), and its end is that of the asked list
(`EndIsTheEnd`). A typed keyword is the exception: the box may hold one that the
site has not searched for, and `KeywordSearched` says that the collector then knows
(`unproved`). Of 51job the search is by the code of the release (`CityAsked`), and the
pager, the cards and the page asked for are compared in one look (`CardsOfThePage`).
`VerificationLeftAlone` needs no invariant. `CollectorsTyped` covers all three
platforms; the other theorems say nothing of Zhilian, of which they are false
when the site misstates one source at one look and the other at the next (TLC
refutes `AskedListOnly` and `ExhaustedIsTrue` with two disturbances, `KeptCodeIsTrue`
with three): its properties stay with TLC, with one disturbance.

**SendersProofs** (`SenderInv`) follows an attempt through the steps of its
platform: on which page it stands (`Placed`), how often it may still try
(`Counted`), what its page may show (`PageTrue`), what it may claim (`AttTrue`),
and that wherever it can hand a part over it has seen that the part is not
there, or a page misled it (`Looked`). The audit log, the results of the run and
the status of the round rest on that in turn (`LogTrue`, `RunTrue`, `SentTrue`).
The theorems `LogAlwaysTrue`, `SentOwesNothing`, `ClickIsNotForgotten` and
`NothingTwiceUnmisled` hold for every set of the four platforms, every length of
the list and every number of failures; the run has two of each. The proof of the
last one changed the model: a greeting that a misled attempt leaves in the
editor is sent by whichever attempt comes next, so a draft carries whether its
attempt was misled, and the property names it.

**ClientStateProofs** (`ClientInv` = `Typed`, `VersionInv`, `OwnerInv`, `TodoInv`,
`CommandInv`, `JournalInv`, and, unless a switch was killed half way,
`FilesInv` and `MissedInv`) rests on two descriptions. `MayWrite` says of each
write that a command still has to make what must hold when it is made, so that
the command may be killed before any of them: the owner is written over nobody or
himself, a file is migrated only while no action may be under way in the browser,
and the marker comes last, when every file of an earlier version is about to be
migrated or left in a conflict. `JournalInv` says of each move of a switch that
the file is where it was put, and that its former place is free as soon as the
moves after it are undone; so every undo finds what `Undoable` asks for
(`SwitchUndone`), and `FilesInv` holds of all three phases. `MissedInv` needs one
more case than the property shows: a file that was stored away, and that its
account has written anew since, stays behind (`Shadowed`). From these follow
`CommandsOwnState`, `MarkedIsMigrated`, `FilesKept` (a move to a free place
leaves the number of copies as it was; a migration takes a file out only if it may
drop or archive it, of the former version, before the marker and with no action
open, and the archive it goes to is its account's), `EffectFindsState`, `WorkStaysWithOwner`,
`StateNotAhead` and the type invariant `ClientTyped`, for any number of accounts,
files and deaths. Assumed is that there are finitely many accounts and that
`Owned` lists each file once. The attempt changed the model: the switch used to
be planned as one list of moves with its rollback, and is now made step by step
with the journal as state, so that what it can undo is a property (`UndoneWhole`)
and not part of the plan.

**Only model-checked**: every liveness property, since neither fairness nor
ENABLED is supported by the prover; and what Zhilian's collector says of a page. No module declares a RECURSIVE
operator, and nothing is proved by induction over data, which the installed
provers cannot do.

Some properties are stated in the modules and checked by no run, to keep each
run to what it is about. Proved, and therefore not run: the type invariants of
ledger, loop, executor, confirmation, discovery, rounds, client state, senders and collectors,
`UndoneWhole`, `WorkOfOwner`, `MigratedByInstalled`, `ReadBeforeGreeting`, `OneOpenWork`,
`PermissionBudget`, `CancelledNeverIssued`, `NeverLockedOut`, `SettledByOneReceipt`,
`NoReceiptWithoutPermission`, `SettledForever`, `NonceKept`, `OnePermission`,
`SuspensionHolds`, `VerificationIsLeft`. They can be added to the configuration of their module, as can
the type invariants of the other modules, `UnresolvedWasNotClicked`,
`ClickedIsAccountable`, `CompletedMeansClosed`, `WaitingMeansIdle` and `KeptCodeIsTrue`
(proved without Zhilian), which TLC found to hold.

## Disagreements

Found while modelling; a property named in parentheses is stated in the module,
does not hold of the code there, and is checked by no run, except where the text
says how a checked property is restricted.

1. *A click may be repeated.* `_open_chat` of
   `platforms/liepin/playwright_delivery.py` (line 44) clicks the communication control
   again after any exception of the first click; `application/playwright_work.py`
   says "performs at most one recruiting action" (line 4) and "Never retry a click
   after any exception" (line 305). (`PlaywrightWork!OneActionPerWork`;
   `AtMostOneClick` counts the click of an attempt, and this pair as one.)
2. *A cancelled mark can be overwritten.* A cancelled delivery asks for a new
   complete preview, but sending the same list again overwrites the mark and
   goes on. (`NativeDelivery!CancelIsFinal`)
3. *A follow-up card can be lost.* It is due "whenever the original authorized
   list has unattempted jobs" (`docs/workflow-host-loop.md:119`), but sending the
   list again with its first limit after "continue" ends the batch without one,
   and `work next` comes back to the same point. (`NativeDelivery!CardWhileJobsLeft`;
   `EventuallyAnswered` exempts a batch whose card is spent, `CardSpent`.)
4. *A skipped platform can come back.* `round skip` drops two cards because a
   stale one "could resurrect the skipped platform" (`cli.py:2168`), but not the
   delivery confirmation, whose answer does that.
   (`DeliveryConfirmation!SkippedStaysSkipped`)
5. *A cancellation can miss its card.* Cancelling a list leads "to a second card
   with exactly `search_again` or `skip_platform`"
   (`docs/workflow-host-loop.md:232`); when delivery has begun, the service accepts
   the cancellation and the round refuses it: the list is dead without a card.
   (`DeliveryConfirmation!CancelLeadsToCard`; `CancellationAnswered` is about a
   delivery that has not begun.)
6. *A bulk search can be billed again.* "Repeating Discover after success is a
   continuation, never a new bill" (`hybrid_discovery.py:101`; README.md:49:
   "retrying the same task does not charge twice"). What makes it a continuation
   is the status, which is written last; the bulk executor clears its start before
   the charge and its decision before the status. A command that dies between
   leaves nothing, and the repeated one asks under a new request id.
   (`Discovery!BulkBilledOnce`; the native executor keeps its start,
   `NativeBilledOnce` holds.)
7. *A round can refuse the escape hatch.* "`jobagent round skip` remains the
   escape hatch" (`CHANGELOG.md:217`), but in two cases it is refused without end.
   While a change of direction is awaited, a hold of the round refuses it and the
   question that was displaced does not come back. And the native executor clears its
   start after the status says "discovered" (`native_discovery.py:598-600`): a command
   that dies in between leaves a start beside the list, and when that list is then
   reviewed and cancelled, both the choice after it (`delivery_followup.py:97-99`) and
   `round skip`, which answers that choice (`cli.py:2176-2178`), say
   `delivery_followup_inflight` and suggest `work status`.
   (`SkippedOut` is about rounds without a change of direction, and exempts a platform
   with a kept start and that choice open; `HoldCanBeEnded` exempts the first.)
8. *A new search can be undone.* A freshness question asked between "search
   again" and the search notes the status "reviewed"; answering "synced" restores it
   and the search is not made. (`Rounds!SearchAgainStands`)
9. *Another card's evidence.* On 51job "已投递" anywhere in the first 1400
   characters of the list counts for the job at hand, although jobs of one search
   share the list's url; `CHANGELOG.md:583` says "an explicit success notice or a
   stable, exact-card apply-button transition". (`LogIsTrue` and `SentIsTrue`
   exempt such jobs, ghost `confused`.)
10. *A typed keyword.* The `CollectionReader` refuses `Input.insertText`, with which
    `platforms/liepin/collect.py` types a keyword: a bulk collection that has to
    type one empties the box and ends. Without bulk, a keyword typed that the site
    did not search for counts as evidence (exempt in `AskedListOnly`, `unproved`).
11. *"sent" with jobs that nobody attempted.* "If all authorized jobs are already
    terminal, audit may complete normally" (`native_work.py:1386`), but what is
    compared at line 1393 is the number of jobs of the whole round with the length of
    the current list: a list that is paused at its first of two jobs becomes
    "sent" when an earlier list of one job was settled. (`NativeDelivery!SentMeansAttempted`, which
    takes lists of one and of two jobs; `SentMeansVisited` is about lists without
    works of other lists beside them, or a list whose jobs were all looked at.)
12. *A prior application can be missed.* The checkpoint that Zhilian and 51job save
    before the click states `prior_application_absent`
    (`zhilian/playwright_delivery.py:108`, `job51/playwright_delivery.py:233`). The
    history it rests on is read with `refresh=False` and is used for 300 seconds
    (`zhilian/playwright_history.py:74-78`, `job51/playwright_delivery.py:40-44`): an
    application made by hand in between is not in it, and the job is clicked once more.
    Zhilian then finds a record older than its checkpoint and answers
    `zhilian_submission_old_history` at every further run
    (`zhilian/playwright_delivery.py:121-127`). (`PlaywrightWork!PriorApplicationAbsent`;
    `ClickUnderIntent` is about the history the adapter holds.)
13. *"synced" can be refused for good.* A question of the present client that holds the
    round keeps its binding; when the service no longer serves that, "synced" is
    answered with `resume_freshness_recheck_unavailable` and suggests the same answer
    again (`resume_freshness.py:467-474`), whereas a question of a former client
    unwinds the hold. Only `round skip` ends it, and nothing suggests that.
    (`HoldCanBeEnded` names the two ways, `SyncedEnds` and `SkipEnds`.)

Observed, without a text that promises the contrary:

* *journal*: the claim of a command that died after `round start`, `round update`
  or another command of the round is settled by nothing: `workflow next` answers
  `workflow_result_unresolved` and recommends `work status`, which settles claims
  of work and platform commands only; the host can go on with direct commands.
  `advance` of a ready operation does not look at other claims. A `begin` killed
  before its output has spent its permission.
* *delivery*: a job is refused as attempted before when
  its work in an earlier list was cancelled unexecuted.
* *discovery*: the start of disagreement 7 blocks `round update` as well; a
  decision of a skipped platform is stuck in a later round; a killed bulk
  collection keeps the native executor out until the next collection; the receipt
  of page one, submitted again after its command died, issues a cancelled page two
  again (`CancelHonoured` is about pages issued by `discover`); with
  `--accept-partial` and two deaths another pool can reach the service for a charged request (ghost `partial`).
* *rounds*: a death while a hold is released can leave the status
  `resume_freshness_hold` without its record, which only `round skip` ends;
  a hold blocks the change of direction; `keep_round` brings a stale card back; an
  unbound round passes the gate silently; `search_attempt` is written and never
  read.
* *client state*: a switch killed between its moves mixes the files of two
  accounts (ghost `torn`; an interrupt by the user counts, since `except Exception`
  does not catch it), and a later switch then meets `account_state_snapshot_conflict`
  for good; files stored away during an upgrade are never migrated (ghost
  `missed`); a postponed migration is reported once, after which the marker lets
  commands pass.
* *guard*: a clock set forward empties the window; a read killed in flight has no
  `not_before` and can be released at once; `block` and `suspend` have no caller
  outside the tests.
* *collectors*: 51job returns a page without results before it compares the
  keyword; Liepin does not compare the page number; Zhilian accepts an end reached
  by scrolling without the proof of a snapshot, and a numbered page without seeing
  that it changed; with the bulk limit of 40 rows a growing list hands on its
  first rows again.
* *senders*: Zhilian counts "continue the conversation" as a delivery; 51job's
  click takes the only card even if it is another job's, and takes a control that
  was unavailable before the click as a transition; Liepin's states that want the
  person during the resume raise no intervention; a run over the first job after
  "sent" sets the platform back to "reviewed".

## What is not modelled, and why

* *Data*: texts, JSON layouts, digests and identifiers. Where the code compares
  digests, the models compare what is digested.
* *In `HostLoop`*: which command `workflow next` picks among those of a kind, the
  cards it repeats, the criteria of an intent. A permission that `work run` uses
  itself never reaches the host and is `PlaywrightWork`'s.
* *In `PlaywrightWork`*: the transport migration, the resume preference, pacing,
  and reading the pages. What a page yields is a choice of the environment.
* *In `NativeDelivery`*: the legacy audit log and the continuation of
  `not_attempted` jobs, prior applications recorded before the round, recovery of
  an inspection's window, Liepin's online-only dialog and saved attachment
  preference, the freshness gate (`Rounds`), login works, pacing; uncertain
  receipts, which leave a work open as it was. Pages may lag behind what was done
  (`PagesLag`), and opening a Liepin conversation may submit the resume.
* *In `DeliveryConfirmation`*: promotions, prepared greetings, the repair of a
  Zhilian decision, jobs delivered earlier, expiry of a proof, a change of account
  or round under a card. The service is external and answers as the client
  expects an honest one to.
* *In `Discovery`*: renewal of an expired plan, the repair of a frozen collection
  or decision, details read between upload and decision, releases whose searches
  had no checkpoint.
* *In `Rounds`*: platform accounts, the intake of roles and cities,
  reconciliation of the profile, log-in, schema migrations, the archived copy of a
  round.
* *In `ClientState`*: unmanaged installations and a required update that ends the
  command, session markers and ephemeral files, which field of a file a migration rewrites, files
  that go bad by themselves;
  `bind --confirm-legacy` is answered truthfully, and the owner was bound with the
  saved key.
* *In `ReadGuard`*: links and unreadable files.
* *In the collectors*: what a card says, details, several pages in one call;
  cities outside 51job's table (it then searches the country); Boss, whose guarded
  reading is `ReadGuard`; codes do not change their meaning during a behaviour;
  the session of Zhilian was verified recently.
* *In the senders*: the AppleScript driver, the openers, the checks of a message's
  form, analytics, a person who switches Boss's conversation, what Zhilian's page
  says of other jobs; a day may pass at any time; Boss's two ways to send are one
  hand-over.
* *Locks*: since every command holds the command lock, the races of
  `platform_lock` (a lock file created and not yet written reads as dead), of the
  activity marker and of the updater cannot happen between commands of this
  release.
* *Cloud client*: retries within a call repeat the same request, and the outboxes
  are read by nothing else. The analytics audit log is not written atomically.
* *External*: the recruiting platforms, the browser, the service.
* *Never*: scripts of the build and release, parsing and output of the command
  line, snapshots and diagnostics of pages, installation, static data: pure I/O or
  without state that a property is about.

## Plan

Done: the ledger with its host loop and the executor, delivery, confirmation,
discovery, rounds with freshness, the client's own state, the read guard, the
collectors, the direct senders; proofs about all of these parts, of the collectors
without Zhilian's.

Left:

1. the composition of `DeliveryConfirmation` and `NativeDelivery`, with the gate
   as their only interface;
2. a proof of `AskedListOnly` and `ExhaustedIsTrue` for Zhilian with one
   disturbance, whose invariant would have to follow from which look each source
   is at each `pc`;
3. the sender and collector of Boss beyond one conversation and one page;
4. the repair of a frozen collection or decision.
