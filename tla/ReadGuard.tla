------------------------------- MODULE ReadGuard -------------------------------
(***************************************************************************)
(* The reads of Boss that the read-only collector makes in the dedicated     *)
(* browser, and the file beside the browser profile that paces them:         *)
(* infra/collection_guard.py with its callers drivers/collection_reader.py,  *)
(* drivers/boss/page_reader.py, platforms/boss/collect.py and the command    *)
(* "browser resume-collection" of application/hybrid_discovery.py.           *)
(*                                                                          *)
(* Commands of different account directories share the profile, so they      *)
(* share the file; each of them may be killed at any step.  All times are    *)
(* kept relative to the present: a positive one lies ahead, and Tick moves    *)
(* every time one unit into the past.  The wall clock may be set back, which *)
(* moves the times of the file ahead and the true ages not.                  *)
(***************************************************************************)
EXTENDS Integers, Sequences

CONSTANTS
    Procs,          \* commands
    Nobody,         \* holds a free lock
    Intervals,      \* READ_INTERVAL_SECONDS
    Window,         \* WINDOW_SECONDS
    MaxReads,       \* MAX_REQUESTS_PER_WINDOW
    Recovery,       \* RECOVERY_DELAY_SECONDS
    Setback,        \* how far the clock is set back at a time
    MaxSetbacks,    \* bound: how often it is
    MinInterval     \* the least of the intervals

ASSUME GuardAssumption ==
    /\ Nobody \notin Procs
    /\ Intervals \subseteq Nat \ {0}
    /\ MinInterval \in Intervals /\ \A d \in Intervals : MinInterval <= d
    /\ {Window, MaxReads, Recovery} \subseteq Nat \ {0} /\ {Setback, MaxSetbacks} \subseteq Nat
    /\ MinInterval < Window

VARIABLES
    file,       \* <profile>.boss-read-state.json
    lock,       \* who holds <profile>.boss-read-state.lock
    at,         \* where each command is
    data,       \* what each command has loaded of the file
    trouble,    \* ghost: a read was rejected or cut off and no user has answered since
    ages,       \* ghost: the true ages of the reads, up to Window
    setbacks

vars == <<file, lock, at, data, trouble, ages, setbacks>>

Never == -(Window + 1)      \* a time that is not in the file

Empty == [requests |-> <<>>, next |-> Never, inflight |-> FALSE,
          blocked |-> FALSE, notBefore |-> Never, suspended |-> FALSE]

\* A file of the release that did not yet note the time of the next read.
Legacy == [Empty EXCEPT !.requests = <<0>>]

Init ==
    /\ file \in {Empty, Legacy}
    /\ lock = Nobody
    /\ at = [p \in Procs |-> "idle"]
    /\ data = [p \in Procs |-> Empty]
    /\ trouble = FALSE
    /\ ages = file.requests
    /\ setbacks = 0

-----------------------------------------------------------------------------
(* Time *)

\* What is within the window: the times are in order, so these are the last ones.
Within(times) ==
    LET first == CHOOSE i \in 1..(Len(times) + 1) :
                    \A j \in 1..Len(times) : -times[j] < Window <=> i <= j
    IN  SubSeq(times, first, Len(times))

\* Older times than the window are told apart by nothing.
Later(t, d, least) == IF t = Never THEN t ELSE IF t + d < least THEN least ELSE t + d

Shifted(f, d) ==
    [f EXCEPT !.requests = [i \in DOMAIN @ |-> Later(@[i], d, -Window)],
              !.next = Later(@, d, MinInterval - Window),
              !.notBefore = Later(@, d, -Window)]

ShiftTimes(d) ==
    /\ file' = Shifted(file, d)
    /\ data' = [p \in Procs |-> Shifted(data[p], d)]

Tick ==
    /\ ShiftTimes(-1)
    /\ ages' = Within([i \in DOMAIN ages |-> ages[i] - 1])
    /\ UNCHANGED <<lock, at, trouble, setbacks>>

ClockSetBack ==
    /\ setbacks < MaxSetbacks
    /\ setbacks' = setbacks + 1
    /\ ShiftTimes(Setback)
    /\ UNCHANGED <<lock, at, trouble, ages>>

-----------------------------------------------------------------------------
(* The file *)

Closed(f) == f.suspended \/ f.blocked \/ f.inflight

\* What _load accepts; a file it refuses is left for technical recovery.
Readable(f) ==
    LET last == f.requests[Len(f.requests)]
    IN  /\ \A i, j \in DOMAIN f.requests : i <= j => f.requests[i] <= f.requests[j]
        /\ f.next # Never /\ f.requests # <<>> => f.next >= last + MinInterval

\* Mutation: the budget of a profile is drawn anew from the present.
UpgradedFromNow(f, d) == IF f.next = Never /\ f.requests # <<>> THEN [f EXCEPT !.next = d] ELSE f

\* A budget without a time for the next read gets one, from its last read.
Upgraded(f, d) ==
    IF f.next = Never /\ f.requests # <<>>
    THEN [f EXCEPT !.next = f.requests[Len(f.requests)] + d] ELSE f

Recent(f) == Within(f.requests)
ClockWentBack(f) == Recent(f) # <<>> /\ Recent(f)[Len(Recent(f))] > 0

Due(f) ==
    /\ f.next <= 0
    /\ Len(Recent(f)) >= MaxReads => Recent(f)[Len(Recent(f)) - MaxReads + 1] + Window <= 0

\* Mutation: the read is counted, but not marked as under way.
CountedOnly(f, d) == [f EXCEPT !.requests = Append(Recent(f), 0), !.next = d]

Counted(f, d) == [f EXCEPT !.requests = Append(Recent(f), 0), !.next = d, !.inflight = TRUE]

Blocked(f) == [f EXCEPT !.blocked = TRUE, !.notBefore = Recovery, !.inflight = FALSE]
Settled(f) == [f EXCEPT !.inflight = FALSE]

\* Mutation: the release begins a new budget.
ReleasedAnew(f) == [f EXCEPT !.blocked = FALSE, !.notBefore = Never, !.inflight = FALSE,
                             !.requests = <<>>, !.next = Never]

\* The release keeps the budget of reads.
Released(f) == [f EXCEPT !.blocked = FALSE, !.notBefore = Never, !.inflight = FALSE]

-----------------------------------------------------------------------------
(* Who holds the file *)

Goto(p, where) == at' = [at EXCEPT ![p] = where]
Load(p) == data' = [data EXCEPT ![p] = file]
Forget(p) == data' = [data EXCEPT ![p] = Empty]
Save(f) == file' = f

\* The lock is tried once: a command that finds it taken stops.
Take(p) == lock = Nobody /\ lock' = p
Leave(p, where) == lock' = Nobody /\ Goto(p, where) /\ Forget(p)

-----------------------------------------------------------------------------
(* A command that collects *)

\* The reader is made only while the file is open; it connects, reads page
\* after page, and is given up when anything fails.
Collect(p) ==
    /\ at[p] = "idle"
    /\ ~Closed(file) /\ Readable(file)
    /\ Goto(p, "collecting")
    /\ UNCHANGED <<file, lock, data, trouble, ages, setbacks>>

Finish(p) ==
    /\ at[p] = "collecting"
    /\ Goto(p, "idle")
    /\ UNCHANGED <<file, lock, data, trouble, ages, setbacks>>

\* A read begins: the file may have been closed since the reader was made.
Call(p) ==
    /\ at[p] = "collecting"
    /\ Take(p)
    /\ Readable(file) /\ ~Closed(file)
    /\ \E d \in Intervals : Save(Upgraded(file, d)) /\ data' = [data EXCEPT ![p] = Upgraded(file, d)]
    /\ Goto(p, "throttled")
    /\ UNCHANGED <<trouble, ages, setbacks>>

\* The command gives up when the clock is behind the last read.
GiveUp(p) ==
    /\ at[p] = "throttled"
    /\ ClockWentBack(data[p])
    /\ Leave(p, "idle")
    /\ UNCHANGED <<file, trouble, ages, setbacks>>

\* The read is on the file before it is made.
Count(p) ==
    /\ at[p] = "throttled"
    /\ ~ClockWentBack(data[p]) /\ Due(data[p])
    /\ \E d \in Intervals :
         /\ Save(Counted(data[p], d))
         /\ data' = [data EXCEPT ![p] = Counted(data[p], d)]
    /\ ages' = Append(ages, 0)
    /\ Goto(p, "counted")
    /\ UNCHANGED <<lock, trouble, setbacks>>

Send(p) ==
    /\ at[p] = "counted"
    /\ Goto(p, "reading")
    /\ UNCHANGED <<file, lock, data, trouble, ages, setbacks>>

Answered(p) ==
    /\ at[p] = "reading"
    /\ Save(Settled(data[p]))
    /\ Leave(p, "collecting")
    /\ UNCHANGED <<trouble, ages, setbacks>>

\* Rejected, timed out, or interrupted by the user: the block is recorded.
Rejected(p) ==
    /\ at[p] = "reading"
    /\ Save(Blocked(data[p]))
    /\ Leave(p, "idle")
    /\ trouble' = TRUE
    /\ UNCHANGED <<ages, setbacks>>

\* A command that is killed records nothing; the system frees its lock.
Kill(p) ==
    /\ at[p] # "idle"
    /\ Goto(p, "idle") /\ Forget(p)
    /\ lock' = IF lock = p THEN Nobody ELSE lock
    /\ trouble' = (trouble \/ at[p] \in {"counted", "reading"})
    /\ UNCHANGED <<file, ages, setbacks>>

-----------------------------------------------------------------------------
(* The user and the engineer *)

\* Mutation: only a recorded rejection can be released.
ConfirmRejection(p) ==
    /\ at[p] = "idle"
    /\ Take(p)
    /\ Readable(file) /\ ~file.suspended
    /\ file.blocked /\ file.notBefore <= 0
    /\ Load(p)
    /\ Goto(p, "checking")
    /\ UNCHANGED <<file, trouble, ages, setbacks>>

\* "browser resume-collection --confirm": the page is looked at under the lock.
Confirm(p) ==
    /\ at[p] = "idle"
    /\ Take(p)
    /\ Readable(file) /\ ~file.suspended
    /\ file.blocked \/ file.inflight
    /\ file.blocked => file.notBefore <= 0
    /\ Load(p)
    /\ Goto(p, "checking")
    /\ UNCHANGED <<file, trouble, ages, setbacks>>

Ready(p) ==
    /\ at[p] = "checking"
    /\ Save(Released(data[p]))
    /\ Leave(p, "idle")
    /\ trouble' = FALSE
    /\ UNCHANGED <<ages, setbacks>>

NotReady(p) ==
    /\ at[p] = "checking"
    /\ Leave(p, "idle")
    /\ UNCHANGED <<file, trouble, ages, setbacks>>

\* block: a rejection that was seen elsewhere is put on the file.
Block ==
    /\ lock = Nobody /\ Readable(file)
    /\ Save(Blocked(file))
    /\ trouble' = TRUE
    /\ UNCHANGED <<lock, at, data, ages, setbacks>>

Suspend ==
    /\ lock = Nobody /\ Readable(file)
    /\ Save([file EXCEPT !.suspended = TRUE])
    /\ UNCHANGED <<lock, at, data, trouble, ages, setbacks>>

-----------------------------------------------------------------------------
Command(p) ==
    \/ Collect(p) \/ Finish(p) \/ Call(p) \/ GiveUp(p) \/ Count(p) \/ Send(p)
    \/ Answered(p) \/ Rejected(p) \/ Confirm(p) \/ Ready(p) \/ NotReady(p)

Next ==
    \/ \E p \in Procs : Command(p) \/ Kill(p)
    \/ Block \/ Suspend \/ Tick \/ ClockSetBack

Spec == Init /\ [][Next]_vars

\* Time passes, a command goes on while it is not killed, and a user who is
\* asked to confirm does so again and again, on a page that is ready at times.
FairSpec ==
    /\ Spec
    /\ WF_vars(Tick)
    /\ \A p \in Procs : /\ WF_vars(Call(p) \/ Finish(p)) /\ WF_vars(GiveUp(p) \/ Count(p))
                        /\ WF_vars(Send(p))
                        /\ WF_vars(Answered(p) \/ Rejected(p)) /\ WF_vars(Ready(p) \/ NotReady(p))
                        /\ SF_vars(Confirm(p)) /\ SF_vars(Ready(p))

-----------------------------------------------------------------------------
(* What has to hold *)

Files == [requests : Seq(Int), next : Int, inflight : BOOLEAN,
          blocked : BOOLEAN, notBefore : Int, suspended : BOOLEAN]

Places == {"idle", "collecting", "throttled", "counted", "reading", "checking"}
Holding == {"throttled", "counted", "reading", "checking"}

TypeOK ==
    /\ file \in Files
    /\ lock \in Procs \cup {Nobody}
    /\ at \in [Procs -> Places]
    /\ data \in [Procs -> Files]
    /\ trouble \in BOOLEAN
    /\ ages \in Seq(Int)
    /\ setbacks \in 0..MaxSetbacks

\* Once a read was rejected or cut off, no command is on its way to another
\* read before the user has confirmed that the page has recovered: the promise of
\* call and of the comment "A killed process must not erase an attempted
\* request" (infra/collection_guard.py).
StoppedByTrouble ==
    trouble => \A p \in Procs : at[p] \notin {"throttled", "counted", "reading"}

\* The platform meets at most MaxReads reads in any window of true time, and two
\* reads are never closer than the least interval: across commands, kills,
\* releases of the file and a clock that is set back.
LoadBounded ==
    /\ Len(ages) <= MaxReads
    /\ \A i \in 1..(Len(ages) - 1) : ages[i + 1] - ages[i] >= MinInterval

\* The program never writes a file that it would then refuse to load, which only a
\* technical recovery could release (_load).
NeverLockedOut == Readable(file) /\ \A p \in Procs : Readable(data[p])

\* A suspension is not lifted by any command, confirmation or rejection, and no
\* read is made under it (suspend, resume).
SuspensionHolds ==
    [][file.suspended =>
         /\ file'.suspended
         /\ \A p \in Procs : at[p] = "throttled" => at'[p] # "counted"]_vars

\* A file that a killed or rejected read has closed is released in the end when
\* the user keeps confirming, unless it is suspended, or rejections go on being
\* put on it from elsewhere.
ReleasedInTheEnd ==
    <>[][~Block]_vars => (Closed(file) ~> (~Closed(file) \/ file.suspended))

=============================================================================
