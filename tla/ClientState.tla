------------------------------ MODULE ClientState ------------------------------
(***************************************************************************)
(* What one command of the client does before and around its business: the  *)
(* update of the installation (infra/release_update.py), the migration of    *)
(* the state on disk (infra/client_upgrade.py) and the account that owns the *)
(* state (infra/account_state.py, credentials.py), in the order in which     *)
(* main() of cli.py calls them under the command lock.                       *)
(*                                                                          *)
(* A command that gets the lock goes through the phases update, upgrade,     *)
(* owner and dispatch; a command that finds it taken fails without a trace,  *)
(* so there is one at a time.  `todo` holds what it still has to write; it   *)
(* may be killed before any write, and the lock is then free again.          *)
(***************************************************************************)
EXTENDS Naturals, Sequences, FiniteSets

CONSTANTS
    Accounts,       \* the accounts whose keys the user has
    Nobody,         \* no account, no key
    Owned,          \* the files an account owns, in the order they are moved
    Bound,          \* the one of them whose migration may meet a conflict
    Cleared,        \* those a migration may drop: a card, a request of a search
    Shelved,        \* those it may move to the archive: collections, an unreadable round
    Archive,        \* the directory of what was moved there, itself owned
    MaxDeaths       \* bound on killed commands

Items == {Owned[n] : n \in 1..Len(Owned)}
Here == "here"
Places == {Here} \cup Accounts      \* the active state and the snapshots

ASSUME ClientAssumption ==
    /\ Nobody \notin Accounts /\ Here \notin Accounts /\ Bound \in Items
    /\ IsFiniteSet(Accounts) /\ Owned \in Seq(Items)
    /\ \A m, n \in 1..Len(Owned) : Owned[m] = Owned[n] => m = n
    /\ {Cleared, Shelved} \subseteq SUBSET (Items \ {Archive})
    /\ Shelved # {} => Archive \in Items
    /\ MaxDeaths \in Nat

VARIABLES
    key,        \* the account of the saved API key
    untouched,  \* the credentials file is older than the binding of the owner
    owner,      \* state_owner.json
    files,      \* whose file an item is in each place, and written by what version
    ledger,     \* a browser work of the ledger, which stays when accounts change
    marker,     \* client_upgrade_state.json
    code,       \* the version that is checked out; 2 is the latest release
    older,      \* a process of an earlier release lives, with its lock file
    cmd, at,    \* the command under way and its phase
    me,         \* the version of its process
    todo,       \* its writes to come
    journal,    \* the moves that a switch under way has made, the last one first
    torn,       \* ghost: a switch was killed with the files of two accounts active
    missed,     \* ghost: files no migration reached, stored away or in conflict
    deaths

state == <<key, untouched, owner, files, ledger, marker, code>>
vars == <<state, older, cmd, at, me, todo, journal, torn, missed, deaths>>

None == [of |-> Nobody, v |-> 2]
NoWork == [st |-> "closed", of |-> Nobody]
NoCmd == [name |-> "none", env |-> Nobody]

\* A client of the earlier release with an account and its files, bound with the
\* proof of a key, without one (schema 1), or not bound at all.
Init ==
    \E a \in Accounts, i \in SUBSET Items, r \in {Nobody} \cup Accounts, p \in BOOLEAN :
        /\ r \in {a, Nobody}
        /\ key \in {a, Nobody} /\ untouched \in BOOLEAN
        /\ owner = [ref |-> r, proof |-> IF p THEN r ELSE Nobody]
        /\ files = [pl \in Places |-> [j \in Items |->
                        IF pl = Here /\ j \in i THEN [of |-> a, v |-> 1] ELSE None]]
        /\ ledger = NoWork /\ marker = [v |-> 1, pending |-> FALSE] /\ code = 1
        /\ older \in BOOLEAN
        /\ cmd = NoCmd /\ at = "idle" /\ me = 1 /\ todo = <<>> /\ journal = <<>>
        /\ torn = FALSE /\ missed = {} /\ deaths = 0

-----------------------------------------------------------------------------
(* The writes *)

Key(a) == [w |-> "key", a |-> a]
Owner(r, p, new) == [w |-> "owner", r |-> r, p |-> p, new |-> new]
File(i) == [w |-> "file", i |-> i]
Work(s) == [w |-> "work", s |-> s]
Migrate(i) == [w |-> "migrate", i |-> i]
Marker(v, p, left) == [w |-> "marker", v |-> v, p |-> p, left |-> left]
Checkout(v) == [w |-> "checkout", v |-> v]

Next1(w) ==
    /\ todo # <<>> /\ Head(todo).w = w /\ todo' = Tail(todo)
    /\ UNCHANGED <<older, cmd, at, me, journal, torn, deaths>>

SaveKey ==
    /\ Next1("key") /\ key' = Head(todo).a /\ untouched' = FALSE
    /\ UNCHANGED <<owner, files, ledger, marker, code, missed>>

\* _bind stamps bound_at; _refresh_online_proof and the offline upgrade of a
\* schema-1 owner leave it.
SaveOwner ==
    /\ Next1("owner")
    /\ owner' = [ref |-> Head(todo).r, proof |-> Head(todo).p]
    /\ untouched' = (untouched \/ Head(todo).new)
    /\ UNCHANGED <<key, files, ledger, marker, code, missed>>

SaveFile ==
    /\ Next1("file")
    /\ files' = [files EXCEPT ![Here][Head(todo).i] = [of |-> owner.ref, v |-> me]]
    /\ missed' = missed \ {<<owner.ref, Head(todo).i>>}
    /\ UNCHANGED <<key, untouched, owner, ledger, marker, code>>

SaveWork ==
    /\ Next1("work")
    /\ ledger' = IF Head(todo).s = "closed" THEN NoWork
                 ELSE [st |-> Head(todo).s, of |-> owner.ref]
    /\ UNCHANGED <<key, untouched, owner, files, marker, code, missed>>

\* Moved into the archive, which is made when there is none.
Archived(i) ==
    [files EXCEPT ![Here][i] = None,
                  ![Here][Archive] = IF files[Here][Archive] # None THEN @
                                     ELSE [of |-> files[Here][i].of, v |-> me]]

\* Rewritten in place, dropped, or moved to the archive: what the file holds, and
\* whether the protocol has changed, decides.
MigrateFile ==
    /\ Next1("migrate")
    /\ LET i == Head(todo).i IN
       \/ files' = [files EXCEPT ![Here][i].v = me]
       \/ i \in Cleared /\ files' = [files EXCEPT ![Here][i] = None]
       \/ i \in Shelved /\ files' = Archived(i)
    /\ UNCHANGED <<key, untouched, owner, ledger, marker, code, missed>>

\* Files stored away keep their form for good: the marker is the machine's.
Stored == {<<files[a][i].of, i>> : a \in Accounts, i \in Items}

SaveMarker ==
    /\ Next1("marker")
    /\ LET h == Head(todo) IN
       /\ marker' = [v |-> h.v, pending |-> h.p]
       /\ missed' = IF h.v > marker.v
                    THEN {s \in Stored :
                            \E a \in Accounts : files[a][s[2]] = [of |-> s[1], v |-> 1]}
                         \cup {<<files[Here][i].of, i>> : i \in h.left}
                    ELSE missed
    /\ UNCHANGED <<key, untouched, owner, files, ledger, code>>

SaveCheckout ==
    /\ Next1("checkout") /\ code' = Head(todo).v
    /\ UNCHANGED <<key, untouched, owner, files, ledger, marker, missed>>

Write ==
    \/ SaveKey \/ SaveOwner \/ SaveFile \/ SaveWork \/ MigrateFile
    \/ SaveMarker \/ SaveCheckout

\* Killed, or interrupted by the user, or a move of a rollback fails: what was left
\* of the rollback is not made.
Switching == {"out", "in", "undo"}
Mixed == \E i \in Items : files[Here][i].of \notin {Nobody, owner.ref}

Die ==
    /\ deaths < MaxDeaths /\ (at # "idle" \/ todo # <<>>)
    /\ deaths' = deaths + 1 /\ todo' = <<>> /\ journal' = <<>> /\ at' = "idle" /\ cmd' = NoCmd
    /\ torn' = (torn \/ (at \in Switching /\ Mixed))
    /\ UNCHANGED <<state, older, me, missed>>

-----------------------------------------------------------------------------
(* The phases *)

Go(phase, writes) ==
    /\ at' = phase /\ todo' = writes /\ cmd' = IF phase = "idle" THEN NoCmd ELSE cmd
    /\ UNCHANGED <<state, older, me, journal, torn, missed, deaths>>
Refuse == Go("idle", <<>>)
In(phase) == at = phase /\ todo = <<>>

Recovery == {"init", "bind", "switch"}      \* and others that write nothing here
NativeRecovery == {"work"}
Names == Recovery \cup NativeRecovery \cup {"platform", "skip"}

\* The key of the command: the environment's, else the saved one.
Mine == IF cmd.env # Nobody THEN cmd.env ELSE key

HasKey == Mine # Nobody
Inflight == ledger.st \in {"reading", "effect"}
Open == ledger.st # "closed"
Effect == ledger.st = "effect"

Start ==
    /\ In("idle")
    /\ \E n \in Names, e \in {Nobody} \cup Accounts : cmd' = [name |-> n, env |-> e]
    /\ me' = code /\ at' = "update"
    /\ UNCHANGED <<state, older, todo, journal, torn, missed, deaths>>

\* A work that may be under way in the browser defers the update.
DeferUpdate == In("update") /\ Inflight /\ Go("upgrade", <<>>)
NoUpdate == In("update") /\ ~Inflight /\ Go("upgrade", <<>>)

\* Fetch and verification come before the checkout; the smoke test after it
\* may fail, and then the former commit is checked out again.  After the
\* update the process is replaced, which frees the lock: the same command
\* starts anew, if no other was faster.
UpdateWrites == {<<Checkout(2)>>, <<Checkout(2), Checkout(1)>>}

Update ==
    /\ In("update") /\ ~Inflight /\ me < 2
    /\ \/ ~older /\ \E ws \in UpdateWrites : Go("idle", ws)
       \/ Refuse

\* The official installer asks nobody.
Installer ==
    /\ In("idle") /\ code' = 2
    /\ UNCHANGED <<key, untouched, owner, files, ledger, marker, older, cmd, at, me, todo,
                    journal, torn, missed, deaths>>

Detected == marker.v # me \/ marker.pending
Old == {i \in Items : files[Here][i] # None /\ files[Here][i].v < me}

\* The migrations are of several kinds, one after the other.
Migrations(is) ==
    {ms \in [1..Cardinality(is) -> {Migrate(i) : i \in is}] :
        /\ \A i \in is : \E n \in 1..Cardinality(is) : ms[n] = Migrate(i)
        /\ \A m, n \in 1..Cardinality(is) : ms[m] = ms[n] => m = n}

\* enforce_upgrade_for_command
AfterReport(ok, native) ==
    IF ok \/ cmd.name \in Recovery \/ (native /\ cmd.name \in NativeRecovery)
    THEN "owner" ELSE "idle"

\* An action of the browser that may have happened keeps the state as it is.
Preserve == In("upgrade") /\ Effect /\ Go(AfterReport(FALSE, TRUE), <<>>)

\* Mutation: the ledger is not looked at.
MayMigrateAnyway == Detected /\ ~older

MayMigrate == ~Effect /\ Detected /\ ~older

\* Mutation: the marker is written before the files are migrated.
MarkFirst ==
    /\ In("upgrade") /\ MayMigrate
    /\ \E ms \in Migrations(Old) : Go("owner", <<Marker(me, FALSE, {})>> \o ms)

\* A profile or a key that is out of date is a conflict (ok FALSE) and does not
\* keep the rest from being migrated; a decision of the round that is preserved
\* keeps the round's file as it is.
MigrateAll ==
    /\ In("upgrade") /\ MayMigrate
    /\ \E ok \in BOOLEAN, left \in SUBSET (Old \cap {Bound}) : \E ms \in Migrations(Old \ left) :
        Go(AfterReport(ok /\ left = {}, FALSE), ms \o <<Marker(me, FALSE, left)>>)

Postpone ==
    /\ In("upgrade") /\ ~Effect /\ Detected /\ older
    /\ Go(AfterReport(FALSE, FALSE), <<Marker(marker.v, TRUE, {})>>)

NothingToMigrate ==
    /\ In("upgrade") /\ ~Effect /\ ~Detected
    /\ \E ok \in BOOLEAN : Go(AfterReport(ok, FALSE), <<Marker(me, FALSE, {})>>)

-----------------------------------------------------------------------------
(* The owner of the state *)

Occupied == \E i \in Items : files[Here][i] # None
OwnerStatus(a) ==
    CASE owner.ref = a -> "ready"
      [] owner.ref = Nobody -> IF Occupied THEN "legacy_unbound" ELSE "empty_unbound"
      [] OTHER -> "account_mismatch"

\* ensure_account_state with the answer of the service
Ensured(a) == OwnerStatus(a) \in {"ready", "empty_unbound"}
EnsureWrites(a) ==
    IF Ensured(a) THEN <<Owner(a, a, OwnerStatus(a) = "empty_unbound")>> ELSE <<>>

NoKey ==
    /\ \/ In("owner") /\ cmd.name \notin Recovery
       \/ In("dispatch") /\ cmd.name \in {"bind", "switch"}
    /\ ~HasKey /\ Refuse

Exempt == In("owner") /\ cmd.name \in Recovery /\ Go("dispatch", <<>>)

Online ==
    /\ In("owner") /\ cmd.name \notin Recovery /\ HasKey
    /\ IF Ensured(Mine) THEN Go("dispatch", EnsureWrites(Mine)) ELSE Refuse

\* The credentials of a schema-1 owner must be as old as the binding.
LegacyProof == owner.proof = Nobody /\ cmd.env = Nobody /\ untouched

\* Mutation: the age of the credentials file is not compared.
ProvedAnyAge == owner.ref # Nobody /\ (owner.proof = Mine \/ owner.proof = Nobody)

Proved == owner.ref # Nobody /\ (owner.proof = Mine \/ LegacyProof)

Offline ==
    /\ In("owner") /\ cmd.name \notin Recovery /\ HasKey
    /\ IF cmd.name = "skip" /\ Proved
       THEN Go("dispatch", IF owner.proof = Nobody THEN <<Owner(owner.ref, Mine, FALSE)>> ELSE <<>>)
       ELSE Refuse

-----------------------------------------------------------------------------
(* The business of the command *)

Dispatch(n) == In("dispatch") /\ cmd.name = n

\* Account, profile and round are not changed while a work is open.
ContextLocked == In("dispatch") /\ cmd.name \in Recovery \cup {"skip"} /\ Open /\ Refuse

Free == ~Open
Unlocked(n) == Dispatch(n) /\ Free

SaveNewKey ==
    /\ Unlocked("init")
    /\ \E a \in Accounts, verified \in BOOLEAN :
        Go("idle", <<Key(a)>> \o IF verified THEN EnsureWrites(a) ELSE <<>>)

\* The user confirms what is so: the files are those of this account.
BindLegacy ==
    /\ Unlocked("bind") /\ HasKey
    /\ IF owner.ref = Nobody /\ \A i \in Items : files[Here][i].of \in {Nobody, Mine}
       THEN Go("idle", <<Owner(Mine, Mine, TRUE)>>) ELSE Refuse

SwitchAccount ==
    /\ Unlocked("switch") /\ HasKey
    /\ CASE OwnerStatus(Mine) \in {"ready", "empty_unbound"} -> Go("idle", EnsureWrites(Mine))
         [] OwnerStatus(Mine) = "legacy_unbound" -> Refuse
         [] OTHER -> Go("out", <<>>)

\* _move_paths goes through the files in order: the next one is the first that
\* has not been moved.
IsNextFile(s, i) ==
    /\ files[s][i] # None
    /\ \E n \in 1..Len(Owned) : Owned[n] = i /\ \A m \in 1..(n - 1) : files[s][Owned[m]] = None
NoFiles(s) == \A i \in Items : files[s][i] = None

Moved(s, d, i) == [files EXCEPT ![d][i] = files[s][i], ![s][i] = None]

\* Mutation: a file that is in the way is written over.
NeverTaken(d, i) == FALSE

Taken(d, i) == files[d][i] # None

Switch ==
    /\ todo = <<>>
    /\ UNCHANGED <<key, ledger, marker, code, older, me, todo, torn, missed, deaths>>

Journaled(m) == <<m>> \o journal

MoveFiles(s, d) ==
    /\ \E i \in Items :
        /\ IsNextFile(s, i)
        /\ IF Taken(d, i)
           THEN at' = "undo" /\ UNCHANGED <<files, journal>>
           ELSE /\ files' = Moved(s, d, i)
                /\ journal' = Journaled([s |-> s, d |-> d, i |-> i])
                /\ UNCHANGED at
    /\ Switch /\ UNCHANGED <<cmd, owner, untouched>>

\* The files of the owner go to its snapshot, those of the new account come back.
PutAside == at = "out" /\ MoveFiles(Here, owner.ref)
BringBack == at = "in" /\ MoveFiles(Mine, Here)

TurnRound ==
    /\ at = "out" /\ NoFiles(Here) /\ at' = "in"
    /\ Switch /\ UNCHANGED <<cmd, owner, untouched, files, journal>>

Rebind ==
    /\ at = "in" /\ NoFiles(Mine)
    /\ owner' = [ref |-> Mine, proof |-> Mine] /\ untouched' = TRUE
    /\ at' = "idle" /\ cmd' = NoCmd /\ journal' = <<>>
    /\ Switch /\ UNCHANGED files

\* A move, or the binding, fails.
SwitchFails ==
    /\ at \in {"out", "in"} /\ at' = "undo"
    /\ Switch /\ UNCHANGED <<cmd, owner, untouched, files, journal>>

\* Mutation: the moves into the active state are not undone.
UndoableOut(m) == m.s = Here /\ files[m.d][m.i] # None /\ files[m.s][m.i] = None

Undoable(m) == files[m.d][m.i] # None /\ files[m.s][m.i] = None

UndoMove ==
    /\ at = "undo" /\ journal # <<>> /\ journal' = Tail(journal)
    /\ LET m == Head(journal)
       IN  files' = IF Undoable(m) THEN Moved(m.d, m.s, m.i) ELSE files
    /\ Switch /\ UNCHANGED <<at, cmd, owner, untouched>>

Undone == at = "undo" /\ journal = <<>> /\ todo = <<>> /\ Refuse

Moving == PutAside \/ BringBack \/ TurnRound \/ Rebind \/ SwitchFails \/ UndoMove \/ Undone

\* A platform's command writes a file of the state and may ask for a work.
RunPlatform ==
    /\ Dispatch("platform")
    /\ \/ \E i \in Items : Go("idle", <<File(i)>>)
       \/ ~Open /\ Go("idle", <<Work("ready")>>)

SkipPlatform == Unlocked("skip") /\ Go("idle", <<File(Bound)>>)

\* The works of the account are begun, answered and cancelled.
RunWork ==
    /\ Dispatch("work")
    /\ \/ ledger = [st |-> "ready", of |-> owner.ref]
          /\ \E s \in {"reading", "effect", "closed"} : Go("idle", <<Work(s)>>)
       \/ Inflight /\ ledger.of = owner.ref
          /\ \E ws \in {<<Work("closed")>>} \cup {<<Work("closed"), File(i)>> : i \in Items} :
                Go("idle", ws)
       \/ ~Open /\ Refuse

OlderEnds ==
    /\ older /\ older' = FALSE
    /\ UNCHANGED <<state, cmd, at, me, todo, journal, torn, missed, deaths>>

Next ==
    \/ Write \/ Die \/ Start \/ DeferUpdate \/ NoUpdate \/ Update \/ Installer
    \/ Preserve \/ MigrateAll \/ Postpone \/ NothingToMigrate
    \/ NoKey \/ Exempt \/ Online \/ Offline
    \/ ContextLocked \/ SaveNewKey \/ BindLegacy \/ SwitchAccount \/ Moving
    \/ RunPlatform \/ SkipPlatform \/ RunWork \/ OlderEnds

Spec == Init /\ [][Next]_vars

-----------------------------------------------------------------------------
(* Properties *)

FileOf == [of : Accounts \cup {Nobody}, v : {1, 2}]
Writes ==
    [w : {"key"}, a : Accounts]
    \cup [w : {"owner"}, r : Accounts, p : Accounts, new : BOOLEAN]
    \cup [w : {"file", "migrate"}, i : Items]
    \cup [w : {"work"}, s : {"ready", "reading", "effect", "closed"}]
    \cup [w : {"marker"}, v : {1, 2}, p : BOOLEAN, left : SUBSET Items]
    \cup [w : {"checkout"}, v : {1, 2}]

\* The state is of its kinds, and an owner with a proof was verified online.
ClientTypeOK ==
    /\ key \in Accounts \cup {Nobody} /\ untouched \in BOOLEAN
    /\ owner \in [ref : Accounts \cup {Nobody}, proof : Accounts \cup {Nobody}]
    /\ files \in [Places -> [Items -> FileOf]]
    /\ ledger \in [st : {"closed", "ready", "reading", "effect"}, of : Accounts \cup {Nobody}]
    /\ marker \in [v : {1, 2}, pending : BOOLEAN] /\ code \in {1, 2}
    /\ older \in BOOLEAN /\ cmd.env \in Accounts \cup {Nobody}
    /\ cmd.name \in Names \cup {"none"} /\ me \in {1, 2}
    /\ at \in {"idle", "update", "upgrade", "owner", "dispatch"} \cup Switching
    /\ journal \in Seq([s : Places, d : Places, i : Items])
    /\ todo \in Seq(Writes) /\ torn \in BOOLEAN
    /\ missed \subseteq (Accounts \cup {Nobody}) \X Items /\ deaths \in Nat

\* A command that reads or changes the business state works on files of the
\* account whose key it uses, and snapshots hold the files of their accounts,
\* whatever keys were set, switches failed or commands were killed; only a
\* switch killed between its moves into the active state can mix two accounts.
OwnStateOnly ==
    torn \/ /\ at = "dispatch" /\ cmd.name \notin Recovery
                => \A i \in Items : files[Here][i].of \in {Nobody, Mine}
            /\ \A a \in Accounts, i \in Items : files[a][i].of \in {Nobody, a}

\* A switch that fails is undone as a whole: whatever it has moved is where it was
\* put, and its former place is free, when its turn comes.
UndoneWhole == at = "undo" /\ journal # <<>> => Undoable(Head(journal))

\* No file of an account is lost or written over by an update, a migration or a
\* switch, even by one that fails or is killed: only the account's own business
\* writes its files.  A migration takes files out of the active state, a card or a
\* request that is dropped, and what goes to the archive; but only what the former
\* version wrote, before the state is marked as migrated and with no action open
\* that may have happened, and what it archives stays with its account.
Copies(a, i) == Cardinality({p \in Places : files[p][i].of = a})
TakenOut(a, i) ==
    /\ todo # <<>> /\ Head(todo) = Migrate(i) /\ i \in Cleared \cup Shelved
    /\ files[Here][i] = [of |-> a, v |-> 1] /\ marker.v = 1 /\ ~Effect
    /\ Copies(a, i)' = Copies(a, i) - 1
    /\ i \in Cleared \/ torn \/ files'[Here][Archive].of = a
ArchiveGrows(a, i) == i = Archive /\ Copies(a, i)' = Copies(a, i) + 1

NothingLost ==
    [][todo = <<>> \/ Head(todo).w # "file"
        => \A a \in Accounts, i \in Items :
              Copies(a, i)' = Copies(a, i) \/ TakenOut(a, i) \/ ArchiveGrows(a, i)]_vars

\* An open work of the browser and the account that owns the state go together:
\* the work can be answered.
WorkOfOwner == Open => owner.ref = ledger.of

\* A state that is marked as migrated is migrated, in all of its files that were
\* active when it was marked; a killed migration is taken up again.
MigratedMeansAll ==
    torn \/ \A i \in Items :
        files[Here][i] # None /\ files[Here][i].v < marker.v
            => <<files[Here][i].of, i>> \in missed

\* The state is never of a later version than the installation that reads it:
\* an update that is rolled back has not migrated anything.
MigratedByInstalled ==
    /\ marker.v <= code
    /\ \A i \in Items : files[Here][i] # None => files[Here][i].v <= code

\* An action that may have happened in the browser is reconciled with the state
\* it was taken on: no migration or change of account before.
EffectKeepsState ==
    [][Effect /\ Effect' =>
        /\ marker'.v = marker.v /\ owner'.ref = owner.ref
        /\ \A i \in Items : files'[Here][i] # files[Here][i] =>
            todo # <<>> /\ Head(todo).w = "file"]_vars
=============================================================================
