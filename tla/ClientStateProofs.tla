--------------------------- MODULE ClientStateProofs ---------------------------
(***************************************************************************)
(* The state of the client keeps to its account and its version, for any     *)
(* accounts, any files and any number of commands that are killed.  The       *)
(* invariant says when each write that a command still has to make may be     *)
(* made (MayWrite), and what a switch that is under way has moved and can     *)
(* put back (JournalInv).                                                     *)
(***************************************************************************)
EXTENDS ClientState, FiniteSetTheorems, SequenceTheorems, TLAPS

Moves == [s : Places, d : Places, i : Items]
CommandsOf == [name : Names \cup {"none"}, env : Accounts \cup {Nobody}]

Typed == ClientTypeOK /\ cmd \in CommandsOf

\* Versions only go up, whatever fails.
VersionInv ==
    /\ marker.v <= me /\ me <= code /\ (marker.pending => marker.v = 1)
    /\ \A pl \in Places, i \in Items :
          /\ files[pl][i].v <= me \/ files[pl][i] = None
          /\ files[pl][i].of = Nobody => files[pl][i] = None

OwnerInv ==
    /\ owner.proof \in {Nobody, owner.ref}
    /\ owner.ref # Nobody /\ owner.proof = Nobody /\ untouched => key \in {Nobody, owner.ref}
    /\ Open => owner.ref = ledger.of /\ ledger.of # Nobody

HereOf(a) == \A i \in Items : files[Here][i].of \in {Nobody, a}

Binds(h) ==
    /\ h.r = h.p
    /\ owner.ref = h.r \/ (owner.ref = Nobody /\ HereOf(h.r))

\* When the k-th of the writes to come may be made.
MayWrite(k) ==
    LET h == todo[k] IN
    /\ h.w = "key" => k = 1 /\ at = "idle"
    /\ h.w = "owner" => Binds(h) /\ k = Len(todo) /\ at \in {"idle", "dispatch"}
    /\ h.w = "file" => owner.ref # Nobody /\ k = Len(todo) /\ at = "idle"
    /\ h.w = "work" =>
          /\ owner.ref # Nobody /\ k = 1 /\ at = "idle"
          /\ Len(todo) = 1 \/ (Len(todo) = 2 /\ todo[2].w = "file")
    /\ h.w = "migrate" =>
          /\ ~Effect /\ me = 2 /\ marker.v = 1 /\ at \in {"owner", "idle"}
          /\ files[Here][h.i].v = 1 /\ \A j \in 1..(k - 1) : todo[j] # Migrate(h.i)
    /\ h.w = "marker" =>
          /\ k = Len(todo) /\ at \in {"owner", "idle"} /\ (h.p => h.v = 1)
          /\ \/ h.v = marker.v
             \/ /\ ~Effect /\ h.v = me
                /\ \A i \in Items : files[Here][i] # None /\ files[Here][i].v < h.v =>
                      i \in h.left \/ \E j \in 1..(k - 1) : todo[j] = Migrate(i)
    /\ h.w = "checkout" => at = "idle" /\ (h.v = 1 => me = 1)

TodoInv == \A k \in 1..Len(todo) : MayWrite(k)

CommandInv ==
    /\ at = "dispatch" /\ cmd.name \notin Recovery =>
          /\ Mine # Nobody
          /\ \/ owner.ref = Mine
             \/ todo # <<>> /\ todo[1].w = "owner" /\ todo[1].r = Mine
    /\ at \in Switching =>
          todo = <<>> /\ ~Open /\ owner.ref # Nobody /\ Mine # Nobody /\ Mine # owner.ref
    /\ at \notin Switching => journal = <<>>

\* The moves of a switch, the last one first: those back into the active state are
\* the later ones, and each can be undone when those before it are.
JournalInv ==
    \A k \in 1..Len(journal) :
        LET m == journal[k] IN
        /\ IF m.d = Here
           THEN /\ m.s = Mine /\ at # "out"
                /\ files[Here][m.i] # None /\ files[Mine][m.i] = None
           ELSE /\ m.s = Here /\ m.d = owner.ref
                /\ files[owner.ref][m.i] # None
                /\ files[Here][m.i] = None
                   \/ \E j \in 1..(k - 1) : journal[j] = [s |-> Mine, d |-> Here, i |-> m.i]
        /\ \A j \in 1..(k - 1) : journal[j].i # m.i \/ (journal[j].d = Here /\ m.d # Here)

CameBack(i) == \E k \in 1..Len(journal) : journal[k] = [s |-> Mine, d |-> Here, i |-> i]

FilesInv ==
    /\ \A a \in Accounts, i \in Items : files[a][i].of \in {Nobody, a}
    /\ owner.ref # Nobody /\ at \notin {"in", "undo"} => HereOf(owner.ref)
    /\ at \in {"in", "undo"} =>
          \A i \in Items :
             IF CameBack(i) THEN files[Here][i].of = Mine
             ELSE files[Here][i].of \in {Nobody, IF at = "in" THEN Nobody ELSE owner.ref}

\* An old file that was moved away while its account had a new one stays behind.
Shadowed(a, i) == a = owner.ref /\ files[Here][i] # None /\ files[Here][i].of = owner.ref

MissedInv ==
    \A pl \in Places, i \in Items :
        files[pl][i] # None /\ files[pl][i].v < marker.v
            => <<files[pl][i].of, i>> \in missed \/ Shadowed(pl, i)

ClientInv ==
    /\ Typed /\ VersionInv /\ OwnerInv /\ TodoInv /\ CommandInv /\ JournalInv
    /\ torn \/ (FilesInv /\ MissedInv)

-----------------------------------------------------------------------------
(* The constants and the parts of the state.                                 *)

LEMMA Basics ==
    /\ Here \notin Accounts /\ Nobody \notin Accounts /\ Bound \in Items
    /\ Here \in Places /\ Accounts \subseteq Places
    /\ None \in FileOf /\ None.of = Nobody /\ None.v = 2
    /\ NoCmd \in CommandsOf /\ NoCmd.name = "none" /\ NoCmd.env = Nobody
  BY ClientAssumption DEF Places, None, FileOf, NoCmd, CommandsOf

LEMMA WriteParts ==
    ASSUME NEW h \in Writes
    PROVE  /\ h.w \in {"key", "owner", "file", "migrate", "work", "marker", "checkout"}
           /\ h.w = "key" => h.a \in Accounts
           /\ h.w = "owner" => h.r \in Accounts /\ h.p \in Accounts /\ h.new \in BOOLEAN
           /\ h.w \in {"file", "migrate"} => h.i \in Items
           /\ h.w = "work" => h.s \in {"ready", "reading", "effect", "closed"}
           /\ h.w = "marker" => h.v \in {1, 2} /\ h.p \in BOOLEAN /\ h.left \in SUBSET Items
           /\ h.w = "checkout" => h.v \in {1, 2}
  BY DEF Writes

LEMMA WritesAre ==
    /\ \A a \in Accounts : Key(a) \in Writes /\ Key(a).w = "key" /\ Key(a).a = a
    /\ \A r \in Accounts, p \in Accounts, new \in BOOLEAN :
          Owner(r, p, new) \in Writes /\ Owner(r, p, new).w = "owner"
          /\ Owner(r, p, new).r = r /\ Owner(r, p, new).p = p
    /\ \A i \in Items : File(i) \in Writes /\ File(i).w = "file" /\ File(i).i = i
    /\ \A i \in Items : Migrate(i) \in Writes /\ Migrate(i).w = "migrate" /\ Migrate(i).i = i
    /\ \A s \in {"ready", "reading", "effect", "closed"} :
          Work(s) \in Writes /\ Work(s).w = "work" /\ Work(s).s = s
    /\ \A v \in {1, 2}, p \in BOOLEAN, left \in SUBSET Items :
          Marker(v, p, left) \in Writes /\ Marker(v, p, left).w = "marker"
          /\ Marker(v, p, left).v = v /\ Marker(v, p, left).left = left
    /\ \A v \in {1, 2} : Checkout(v) \in Writes /\ Checkout(v).w = "checkout" /\ Checkout(v).v = v
  BY DEF Writes, Key, Owner, File, Migrate, Work, Marker, Checkout

LEMMA TypedParts ==
    ASSUME Typed
    PROVE  /\ \A pl \in Places, i \in Items : files[pl][i] \in FileOf
           /\ owner.ref \in Accounts \cup {Nobody} /\ owner.proof \in Accounts \cup {Nobody}
           /\ key \in Accounts \cup {Nobody} /\ Mine \in Accounts \cup {Nobody}
           /\ marker.v \in {1, 2} /\ me \in {1, 2} /\ code \in {1, 2}
           /\ todo \in Seq(Writes) /\ journal \in Seq(Moves)
  BY DEF Typed, ClientTypeOK, Mine, Moves

\* What a step leaves as it is keeps its kind.
LEMMA StillTyped ==
    ASSUME Typed, UNCHANGED <<cmd, at, me, journal, torn, deaths>>,
           older' \in BOOLEAN, todo' \in Seq(Writes),
           key' \in Accounts \cup {Nobody}, untouched' \in BOOLEAN,
           owner' \in [ref : Accounts \cup {Nobody}, proof : Accounts \cup {Nobody}],
           files' \in [Places -> [Items -> FileOf]],
           ledger' \in [st : {"closed", "ready", "reading", "effect"}, of : Accounts \cup {Nobody}],
           marker' \in [v : {1, 2}, pending : BOOLEAN], code' \in {1, 2},
           missed' \subseteq (Accounts \cup {Nobody}) \X Items
    PROVE  Typed'
<1>1. cmd' \in CommandsOf
  BY DEF Typed
<1> QED BY <1>1 DEF Typed, ClientTypeOK, CommandsOf

\* The kinds of what a step leaves as it is.
LEMMA Kinds ==
    ASSUME Typed
    PROVE  /\ older \in BOOLEAN /\ todo \in Seq(Writes)
           /\ key \in Accounts \cup {Nobody} /\ untouched \in BOOLEAN
           /\ owner \in [ref : Accounts \cup {Nobody}, proof : Accounts \cup {Nobody}]
           /\ files \in [Places -> [Items -> FileOf]]
           /\ ledger \in [st : {"closed", "ready", "reading", "effect"}, of : Accounts \cup {Nobody}]
           /\ marker \in [v : {1, 2}, pending : BOOLEAN] /\ code \in {1, 2}
           /\ missed \subseteq (Accounts \cup {Nobody}) \X Items
           /\ journal \in Seq(Moves) /\ cmd \in CommandsOf
  BY DEF Typed, ClientTypeOK, Moves

LEMMA OneWrite ==
    ASSUME NEW w \in Writes
    PROVE  <<w>> \in Seq(Writes) /\ Len(<<w>>) = 1 /\ <<w>>[1] = w
  OBVIOUS

LEMMA TwoWrites ==
    ASSUME NEW v \in Writes, NEW w \in Writes
    PROVE  <<v, w>> \in Seq(Writes) /\ Len(<<v, w>>) = 2 /\ <<v, w>>[1] = v /\ <<v, w>>[2] = w
  OBVIOUS

LEMMA Joined ==
    ASSUME NEW v \in Writes, NEW w \in Writes
    PROVE  <<v>> \o <<w>> = <<v, w>>
<1>1. /\ <<v>> \in Seq(Writes) /\ Len(<<v>>) = 1 /\ <<v>>[1] = v
      /\ <<w>> \in Seq(Writes) /\ Len(<<w>>) = 1 /\ <<w>>[1] = w
  BY OneWrite
<1>2. <<v, w>> \in Seq(Writes) /\ Len(<<v, w>>) = 2 /\ <<v, w>>[1] = v /\ <<v, w>>[2] = w
  BY TwoWrites
<1> DEFINE s == <<v>>
           t == <<w>>
           u == <<v, w>>
<1> HIDE DEF s, t, u
<1>3. /\ s \in Seq(Writes) /\ Len(s) = 1 /\ s[1] = v /\ t \in Seq(Writes) /\ Len(t) = 1 /\ t[1] = w
      /\ u \in Seq(Writes) /\ Len(u) = 2 /\ u[1] = v /\ u[2] = w
  BY <1>1, <1>2 DEF s, t, u
<1>4. s \o t \in Seq(Writes) /\ Len(s \o t) = 2 /\ (s \o t)[1] = v /\ (s \o t)[2] = w
  <2>1. Len(s) + Len(t) = 2 /\ 1 \in 1..2 /\ 2 \in 1..2 /\ 1 <= Len(s) /\ ~(2 <= Len(s)) /\ 2 - Len(s) = 1
    BY <1>3
  <2>2. s \o t \in Seq(Writes) /\ Len(s \o t) = 2
    BY <1>3, <2>1, ConcatProperties
  <2>3. (s \o t)[1] = v
    BY <1>3, <2>1, ConcatProperties
  <2>4. (s \o t)[2] = w
    BY <1>3, <2>1, ConcatProperties
  <2> QED BY <2>2, <2>3, <2>4
<1>5. \A k \in 1..2 : (s \o t)[k] = u[k]
  <2>1. \A k \in 1..2 : k = 1 \/ k = 2
    OBVIOUS
  <2> QED BY <1>3, <1>4, <2>1
<1>6. s \o t = u
  BY <1>3, <1>4, <1>5, SeqEqual
<1> QED BY <1>6 DEF s, t, u

LEMMA IsLast ==
    ASSUME NEW k \in Nat, NEW n \in Nat, NEW l, l = n - 1, k + 1 = n
    PROVE  k = l
  OBVIOUS

LEMMA Earlier ==
    ASSUME NEW n \in Nat, NEW k \in 1..n, NEW j \in 1..(k - 1)
    PROVE  j \in 1..n
  OBVIOUS

LEMMA NoWrites == <<>> \in Seq(Writes) /\ Len(<<>>) = 0
  OBVIOUS

\* The first of the writes to come is made: each of the others is one nearer.
LEMMA Nearer ==
    ASSUME Typed, todo # <<>>, todo' = Tail(todo)
    PROVE  /\ Head(todo) = todo[1] /\ Head(todo) \in Writes /\ Len(todo) \in Nat /\ Len(todo) > 0
           /\ todo' \in Seq(Writes) /\ Len(todo') = Len(todo) - 1
           /\ \A k \in 1..Len(todo') : todo'[k] = todo[k + 1] /\ k + 1 \in 1..Len(todo) /\ k # 0
<1>1. todo \in Seq(Writes)
  BY TypedParts
<1> QED BY <1>1, HeadTailProperties

\* While there is something to write no switch is under way.
LEMMA Writing ==
    ASSUME ClientInv, todo # <<>>
    PROVE  at \notin Switching /\ journal = <<>>
  BY DEF ClientInv, CommandInv

-----------------------------------------------------------------------------
(* A phase ends: only the command, its phase and its writes change.          *)

LEMMA GoStep ==
    ASSUME ClientInv, journal = <<>>, at \notin Switching \/ at = "undo",
           NEW phase \in {"idle", "upgrade", "owner", "dispatch"}, NEW ws \in Seq(Writes),
           Go(phase, ws), TodoInv',
           phase = "dispatch" /\ cmd.name \notin Recovery =>
              /\ Mine # Nobody
              /\ owner.ref = Mine \/ (ws # <<>> /\ ws[1].w = "owner" /\ ws[1].r = Mine)
    PROVE  ClientInv'
<1>1. /\ UNCHANGED <<state, older, me, journal, torn, missed, deaths>>
      /\ at' = phase /\ todo' = ws /\ cmd' = IF phase = "idle" THEN NoCmd ELSE cmd
  BY DEF Go
<1>2. UNCHANGED <<key, untouched, owner, files, ledger, marker, code>>
  BY <1>1 DEF state
<1>3. cmd' \in CommandsOf /\ (phase # "idle" => cmd' = cmd) /\ at' \notin Switching
  BY <1>1, Basics DEF ClientInv, Typed, Switching
<1>4. Typed'
  BY <1>1, <1>2, <1>3 DEF ClientInv, Typed, ClientTypeOK, CommandsOf
<1>5. VersionInv' /\ OwnerInv'
  BY <1>1, <1>2 DEF ClientInv, VersionInv, OwnerInv, Open
<1>6. CommandInv'
  BY <1>1, <1>2, <1>3 DEF CommandInv, Mine
<1>7. JournalInv' /\ Len(journal) = 0
  BY <1>1 DEF JournalInv
<1>8. ASSUME FilesInv PROVE FilesInv'
  <2>1. owner.ref # Nobody => HereOf(owner.ref)
    BY <1>7, <1>8 DEF FilesInv, HereOf, CameBack, Switching
  <2> QED BY <1>2, <1>3, <1>8, <2>1 DEF FilesInv, HereOf, Switching
<1>9. MissedInv => MissedInv'
  BY <1>1, <1>2 DEF MissedInv, Shadowed
<1> QED BY <1>1, <1>4, <1>5, <1>6, <1>7, <1>8, <1>9 DEF ClientInv

\* A command that is refused, or goes on without writing anything.
LEMMA GoNothing ==
    ASSUME ClientInv, journal = <<>>, at \notin Switching \/ at = "undo",
           NEW phase \in {"idle", "upgrade", "owner", "dispatch"}, Go(phase, <<>>),
           phase = "dispatch" => cmd.name \in Recovery
    PROVE  ClientInv'
<1>1. todo' = <<>>
  BY DEF Go
<1>2. TodoInv'
  BY <1>1 DEF TodoInv
<1> QED BY <1>2, NoWrites, GoStep

LEMMA Between ==
    ASSUME ClientInv, NEW phase, In(phase), phase \notin Switching
    PROVE  at \notin Switching /\ journal = <<>>
  BY DEF ClientInv, CommandInv, In

LEMMA RefuseStep ==
    ASSUME ClientInv, at \notin Switching, Refuse
    PROVE  ClientInv'
  BY GoNothing DEF Refuse, ClientInv, CommandInv

-----------------------------------------------------------------------------
(* The phases of a command.                                                  *)

\* One write to come.
LEMMA OneToCome ==
    ASSUME NEW phase, NEW w \in Writes, Go(phase, <<w>>),
           w.w = "key" => phase = "idle",
           w.w = "owner" => Binds(w) /\ phase \in {"idle", "dispatch"},
           w.w \in {"file", "work"} => owner.ref # Nobody /\ phase = "idle",
           w.w # "migrate",
           w.w = "marker" => w.v = marker.v /\ (w.p => w.v = 1) /\ phase \in {"owner", "idle"},
           w.w = "checkout" => phase = "idle" /\ (w.v = 1 => me = 1)
    PROVE  TodoInv' /\ <<w>> \in Seq(Writes) /\ <<w>> # <<>> /\ <<w>>[1] = w
<1>1. todo' = <<w>> /\ at' = phase /\ UNCHANGED <<owner, files, ledger, marker, me>>
  BY DEF Go, state
<1>2. <<w>> \in Seq(Writes) /\ Len(<<w>>) = 1 /\ <<w>>[1] = w /\ <<w>> # <<>>
  BY OneWrite
<1>3. Binds(w) => Binds(w)'
  BY <1>1 DEF Binds, HereOf
<1>4. MayWrite(1)'
  BY <1>1, <1>2, <1>3, WriteParts DEF MayWrite
<1>5. \A k \in 1..Len(todo') : k = 1
  BY <1>1, <1>2
<1> QED BY <1>2, <1>4, <1>5 DEF TodoInv

LEMMA StatusIs ==
    ASSUME NEW a \in Accounts
    PROVE  /\ OwnerStatus(a) = "ready" <=> owner.ref = a
           /\ OwnerStatus(a) = "legacy_unbound" <=> owner.ref = Nobody /\ Occupied
           /\ OwnerStatus(a) = "empty_unbound" <=> owner.ref = Nobody /\ ~Occupied
  BY Basics DEF OwnerStatus

\* What ensure_account_state writes binds the state to whom it belongs.
LEMMA EnsuredBinds ==
    ASSUME ClientInv, NEW a \in Accounts
    PROVE  EnsureWrites(a) = <<>>
           \/ \E new \in BOOLEAN :
                 /\ EnsureWrites(a) = <<Owner(a, a, new)>> /\ Ensured(a)
                 /\ Owner(a, a, new) \in Writes /\ Owner(a, a, new).w = "owner"
                 /\ Owner(a, a, new).r = a /\ Binds(Owner(a, a, new))
<1>1. CASE ~Ensured(a)
  BY <1>1 DEF EnsureWrites
<1>2. CASE Ensured(a)
  <2>1. PICK new \in BOOLEAN : EnsureWrites(a) = <<Owner(a, a, new)>>
    BY <1>2 DEF EnsureWrites
  <2>2. /\ Owner(a, a, new) \in Writes /\ Owner(a, a, new).w = "owner"
        /\ Owner(a, a, new).r = a /\ Owner(a, a, new).p = a
    BY WritesAre
  <2>3. owner.ref = a \/ (owner.ref = Nobody /\ ~Occupied)
    BY <1>2, StatusIs DEF Ensured
  <2>4. ~Occupied => HereOf(a)
    BY Basics DEF Occupied, HereOf
  <2> QED BY <1>2, <2>1, <2>2, <2>3, <2>4 DEF Binds
<1> QED BY <1>1, <1>2

LEMMA StartStep == ASSUME ClientInv, Start PROVE ClientInv'
<1>1. /\ at = "idle" /\ todo = <<>> /\ me' = code /\ at' = "update"
      /\ \E n \in Names, e \in {Nobody} \cup Accounts : cmd' = [name |-> n, env |-> e]
      /\ UNCHANGED <<key, untouched, owner, files, ledger, marker, code, older, todo, journal, torn, missed, deaths>>
  BY DEF Start, In, state
<1>2. cmd' \in CommandsOf
  BY <1>1 DEF CommandsOf
<1>3. Typed'
  BY <1>1, <1>2 DEF ClientInv, Typed, ClientTypeOK, CommandsOf, Switching
<1>4. VersionInv'
  BY <1>1, TypedParts, Basics DEF ClientInv, VersionInv, FileOf
<1>5. OwnerInv'
  BY <1>1 DEF ClientInv, OwnerInv, Open
<1>6. TodoInv'
  BY <1>1 DEF TodoInv
<1>7. CommandInv' /\ journal = <<>>
  BY <1>1 DEF ClientInv, CommandInv, Switching
<1>8. JournalInv'
  BY <1>1, <1>7 DEF JournalInv
<1>9. FilesInv => FilesInv'
  BY <1>1 DEF FilesInv, HereOf
<1>10. MissedInv => MissedInv'
  BY <1>1 DEF MissedInv, Shadowed
<1> QED BY <1>1, <1>3, <1>4, <1>5, <1>6, <1>7, <1>8, <1>9, <1>10 DEF ClientInv

LEMMA InstallerStep == ASSUME ClientInv, Installer PROVE ClientInv'
<1>1. /\ code' = 2
      /\ UNCHANGED <<key, untouched, owner, files, ledger, marker, older, cmd, at, me, todo, journal, torn, missed, deaths>>
  BY DEF Installer
<1>2. Typed' /\ VersionInv'
  BY <1>1 DEF ClientInv, Typed, ClientTypeOK, VersionInv, CommandsOf
<1>3. OwnerInv' /\ CommandInv'
  BY <1>1 DEF ClientInv, OwnerInv, Open, CommandInv, Mine
<1>4. TodoInv'
  BY <1>1 DEF ClientInv, TodoInv, MayWrite, Binds, HereOf, Effect
<1>5. JournalInv'
  BY <1>1 DEF ClientInv, JournalInv, Mine
<1>6. (FilesInv => FilesInv') /\ (MissedInv => MissedInv')
  BY <1>1 DEF FilesInv, HereOf, CameBack, Mine, MissedInv, Shadowed
<1> QED BY <1>1, <1>2, <1>3, <1>4, <1>5, <1>6 DEF ClientInv

LEMMA OlderEndsStep == ASSUME ClientInv, OlderEnds PROVE ClientInv'
<1>1. /\ older' = FALSE
      /\ UNCHANGED <<key, untouched, owner, files, ledger, marker, code, cmd, at, me, todo, journal, torn, missed, deaths>>
  BY DEF OlderEnds, state
<1>2. Typed'
  BY <1>1, Kinds, StillTyped DEF ClientInv
<1>7. VersionInv'
  BY <1>1 DEF ClientInv, VersionInv
<1>3. OwnerInv' /\ CommandInv'
  BY <1>1 DEF ClientInv, OwnerInv, Open, CommandInv, Mine
<1>4. TodoInv'
  BY <1>1 DEF ClientInv, TodoInv, MayWrite, Binds, HereOf, Effect
<1>5. JournalInv'
  BY <1>1 DEF ClientInv, JournalInv, Mine
<1>6. (FilesInv => FilesInv') /\ (MissedInv => MissedInv')
  BY <1>1 DEF FilesInv, HereOf, CameBack, Mine, MissedInv, Shadowed
<1> QED BY <1>1, <1>2, <1>3, <1>4, <1>5, <1>6, <1>7 DEF ClientInv

LEMMA DieStep == ASSUME ClientInv, Die PROVE ClientInv'
<1>1. /\ deaths' = deaths + 1 /\ todo' = <<>> /\ journal' = <<>> /\ at' = "idle" /\ cmd' = NoCmd
      /\ torn' = (torn \/ (at \in Switching /\ Mixed))
      /\ UNCHANGED <<key, untouched, owner, files, ledger, marker, code, older, me, missed>>
  BY DEF Die, state
<1>2. Typed'
  BY <1>1, Basics DEF ClientInv, Typed, ClientTypeOK, CommandsOf
<1>3. VersionInv' /\ OwnerInv'
  BY <1>1 DEF ClientInv, VersionInv, OwnerInv, Open
<1>4. TodoInv' /\ CommandInv' /\ JournalInv'
  BY <1>1 DEF TodoInv, CommandInv, JournalInv, Switching
<1>5. ASSUME ~torn', FilesInv PROVE FilesInv'
  <2>1. owner.ref # Nobody => HereOf(owner.ref)
    BY <1>1, <1>5 DEF FilesInv, HereOf, Mixed, Switching
  <2> QED BY <1>1, <1>5, <2>1 DEF FilesInv, HereOf
<1>6. MissedInv => MissedInv'
  BY <1>1 DEF MissedInv, Shadowed
<1> QED BY <1>1, <1>2, <1>3, <1>4, <1>5, <1>6 DEF ClientInv

LEMMA UpdateStep == ASSUME ClientInv, DeferUpdate \/ NoUpdate \/ Update PROVE ClientInv'
<1>1. at = "update" /\ todo = <<>> /\ at \notin Switching /\ journal = <<>>
  BY Between DEF DeferUpdate, NoUpdate, Update, In, Switching
<1>2. CASE Go("upgrade", <<>>)
  BY <1>1, <1>2, GoNothing
<1>3. CASE Refuse
  BY <1>1, <1>3, RefuseStep
<1>4. ASSUME NEW ws \in UpdateWrites, Go("idle", ws), me < 2 PROVE ClientInv'
  <2>1. /\ Checkout(2) \in Writes /\ Checkout(2).w = "checkout" /\ Checkout(2).v = 2
        /\ Checkout(1) \in Writes /\ Checkout(1).w = "checkout" /\ Checkout(1).v = 1 /\ me = 1
    BY <1>4, WritesAre, TypedParts DEF ClientInv
  <2>2. CASE ws = <<Checkout(2)>>
    <3>1. TodoInv' /\ <<Checkout(2)>> \in Seq(Writes)
      BY <1>4, <2>1, <2>2, OneToCome
    <3> QED BY <1>1, <1>4, <2>2, <3>1, GoStep
  <2>3. CASE ws = <<Checkout(2), Checkout(1)>>
    <3>1. ws \in Seq(Writes) /\ Len(ws) = 2 /\ ws[1] = Checkout(2) /\ ws[2] = Checkout(1)
      BY <2>1, <2>3, TwoWrites
    <3>2. todo' = ws /\ at' = "idle" /\ me' = me
      BY <1>4 DEF Go
    <3>3. Len(todo') = 2 /\ todo'[1] = Checkout(2) /\ todo'[2] = Checkout(1)
      BY <3>1, <3>2
    <3>4. \A k \in 1..Len(todo') : k = 1 \/ k = 2
      BY <3>3
    <3>5. MayWrite(1)' /\ MayWrite(2)'
      BY <2>1, <3>2, <3>3 DEF MayWrite
    <3>6. TodoInv'
      BY <3>4, <3>5 DEF TodoInv
    <3> QED BY <1>1, <1>4, <3>1, <3>6, GoStep
  <2> QED BY <1>4, <2>2, <2>3 DEF UpdateWrites
<1> QED BY <1>2, <1>3, <1>4 DEF DeferUpdate, NoUpdate, Update

LEMMA ItemsFinite == IsFiniteSet(Items)
<1>1. Owned \in Seq(Items) /\ \A m, n \in 1..Len(Owned) : Owned[m] = Owned[n] => m = n
  BY ClientAssumption
<1>2. Len(Owned) \in Nat /\ Owned \in [1..Len(Owned) -> Items]
  BY <1>1, LenProperties
<1>3. Owned \in Bijection(1..Len(Owned), Items)
  <2>1. Owned \in Injection(1..Len(Owned), Items)
    BY <1>1, <1>2 DEF Injection, IsInjective
  <2>2. Owned \in Surjection(1..Len(Owned), Items)
    BY <1>2 DEF Surjection, Items
  <2> QED BY <2>1, <2>2 DEF Bijection
<1>4. IsFiniteSet(1..Len(Owned))
  BY <1>2, FS_Interval
<1> QED BY <1>3, <1>4, FS_Bijection DEF ExistsBijection

LEMMA MigrationsAre ==
    ASSUME NEW is \in SUBSET Items, NEW ms \in Migrations(is)
    PROVE  /\ ms \in Seq(Writes)
           /\ \A k \in 1..Len(ms) : \E i \in is : ms[k] = Migrate(i)
           /\ \A i \in is : \E k \in 1..Len(ms) : ms[k] = Migrate(i)
           /\ \A j, k \in 1..Len(ms) : ms[j] = ms[k] => j = k
<1>1. Cardinality(is) \in Nat
  BY ItemsFinite, FS_Subset, FS_CardinalityType
<1>2. /\ ms \in [1..Cardinality(is) -> {Migrate(i) : i \in is}]
      /\ \A i \in is : \E k \in 1..Cardinality(is) : ms[k] = Migrate(i)
      /\ \A j, k \in 1..Cardinality(is) : ms[j] = ms[k] => j = k
  BY DEF Migrations
<1>3. \A i \in is : Migrate(i) \in Writes
  BY WritesAre
<1>4. ms \in [1..Cardinality(is) -> Writes]
  BY <1>2, <1>3
<1>5. ms \in Seq(Writes) /\ Len(ms) = Cardinality(is)
  BY <1>1, <1>4
<1> QED BY <1>2, <1>5

LEMMA MigrateAllStep == ASSUME ClientInv, MigrateAll PROVE ClientInv'
<1>1. PICK ok \in BOOLEAN, left \in SUBSET (Old \cap {Bound}) : \E ms \in Migrations(Old \ left) :
         Go(AfterReport(ok /\ left = {}, FALSE), ms \o <<Marker(me, FALSE, left)>>)
  BY DEF MigrateAll
<1>2. PICK ms \in Migrations(Old \ left) :
         Go(AfterReport(ok /\ left = {}, FALSE), ms \o <<Marker(me, FALSE, left)>>)
  BY <1>1
<1>3. at \notin Switching /\ journal = <<>> /\ ~Effect /\ Detected
  BY Between DEF MigrateAll, MayMigrate, Switching
<1>4. Old \in SUBSET Items /\ left \in SUBSET Items /\ Old \ left \in SUBSET Items
  BY DEF Old
<1> DEFINE phase == AfterReport(ok /\ left = {}, FALSE)
           last == Marker(me, FALSE, left)
           ws == ms \o <<last>>
<1>5. phase \in {"owner", "idle"}
  BY DEF AfterReport
<1>6. /\ last \in Writes /\ last.w = "marker" /\ last.v = me /\ last.left = left /\ ~last.p
  <2>1. me \in {1, 2}
    BY TypedParts DEF ClientInv
  <2>2. ~last.p
    BY DEF Marker
  <2>3. /\ last \in Writes /\ last.w = "marker" /\ last.v = me /\ last.left = left
    BY <1>4, <2>1, WritesAre
  <2> QED BY <2>2, <2>3
<1>7. /\ ms \in Seq(Writes)
      /\ \A k \in 1..Len(ms) : \E i \in Old \ left : ms[k] = Migrate(i)
      /\ \A i \in Old \ left : \E k \in 1..Len(ms) : ms[k] = Migrate(i)
      /\ \A j, k \in 1..Len(ms) : ms[j] = ms[k] => j = k
  BY <1>4, MigrationsAre
<1>8. <<last>> \in Seq(Writes) /\ Len(<<last>>) = 1 /\ <<last>>[1] = last
  BY <1>6, OneWrite
<1>9. Len(ms) \in Nat
  BY <1>7, LenProperties
<1> HIDE DEF last
<1>10. /\ ws \in Seq(Writes) /\ Len(ws) = Len(ms) + 1
       /\ \A k \in 1..Len(ms) : ws[k] = ms[k]
       /\ ws[Len(ms) + 1] = last
  BY <1>7, <1>8, <1>9, ConcatProperties
<1>11. /\ todo' = ws /\ at' = phase /\ UNCHANGED <<owner, files, ledger, marker, me>>
  BY <1>2 DEF Go, state, last
<1> HIDE DEF ws, phase
<1>12. ASSUME NEW k \in 1..Len(ms) PROVE MayWrite(k)'
  <2>1. PICK i \in Old \ left : todo'[k] = Migrate(i)
    BY <1>7, <1>10, <1>11
  <2>2. i \in Items /\ Migrate(i).w = "migrate" /\ Migrate(i).i = i
    BY <1>4, WritesAre
  <2>3. files[Here][i] # None /\ files[Here][i].v < me
    BY DEF Old
  <2>4. files[Here][i].v \in {1, 2} /\ me \in {1, 2}
    BY <2>2, TypedParts, Basics DEF ClientInv, FileOf
  <2>5. me = 2 /\ files[Here][i].v = 1
    BY <2>3, <2>4
  <2>6. marker.v = 1
    BY <1>3, <2>5, TypedParts DEF ClientInv, VersionInv, Detected
  <2>7. ASSUME NEW j \in 1..(k - 1) PROVE todo'[j] # Migrate(i)
    <3>1. k \in Nat /\ k <= Len(ms)
      BY <1>9
    <3>2. j \in 1..Len(ms) /\ j # k
      BY <1>9, <3>1
    <3> QED BY <1>7, <1>10, <1>11, <2>1, <3>2
  <2> QED BY <1>3, <1>5, <1>11, <2>1, <2>2, <2>5, <2>6, <2>7 DEF MayWrite, Effect
<1>13. MayWrite(Len(ms) + 1)'
  <2>1. \A i \in Items : files[Here][i] # None /\ files[Here][i].v < me =>
           i \in left \/ \E j \in 1..((Len(ms) + 1) - 1) : ws[j] = Migrate(i)
    <3> SUFFICES ASSUME NEW i \in Old, i \notin left
                 PROVE  \E j \in 1..((Len(ms) + 1) - 1) : ws[j] = Migrate(i)
      BY DEF Old
    <3>1. PICK k \in 1..Len(ms) : ms[k] = Migrate(i)
      BY <1>7
    <3>2. k \in 1..((Len(ms) + 1) - 1) /\ ws[k] = Migrate(i)
      BY <1>9, <1>10, <3>1
    <3> QED BY <3>2
  <2>2. todo'[Len(ms) + 1] = last /\ Len(todo') = Len(ms) + 1
    BY <1>10, <1>11
  <2> QED BY <1>3, <1>5, <1>6, <1>11, <2>1, <2>2 DEF MayWrite, Effect
<1>14. TodoInv'
  <2>1. \A k \in 1..Len(todo') : k \in 1..Len(ms) \/ k = Len(ms) + 1
    BY <1>9, <1>10, <1>11
  <2> QED BY <1>12, <1>13, <2>1 DEF TodoInv
<1>15. Go(phase, ws)
  BY <1>2 DEF phase, ws, last
<1> QED BY <1>3, <1>5, <1>10, <1>14, <1>15, GoStep

LEMMA UpgradeStep == ASSUME ClientInv, Preserve \/ Postpone \/ NothingToMigrate PROVE ClientInv'
<1>1. at \notin Switching /\ journal = <<>>
  BY Between DEF Preserve, Postpone, NothingToMigrate, Switching
<1>2. \A ok \in BOOLEAN, native \in BOOLEAN : AfterReport(ok, native) \in {"owner", "idle"}
  BY DEF AfterReport
<1>3. CASE Preserve
  <2>1. AfterReport(FALSE, TRUE) \in {"owner", "idle"}
    BY <1>2
  <2> QED BY <1>1, <1>3, <2>1, GoNothing DEF Preserve
<1>4. marker.v \in {1, 2} /\ me \in {1, 2} /\ {} \in SUBSET Items
  BY TypedParts DEF ClientInv
<1>5. ASSUME NEW phase \in {"owner", "idle"}, NEW p \in BOOLEAN, p => marker.v = 1,
             Go(phase, <<Marker(marker.v, p, {})>>)
      PROVE  ClientInv'
  <2>1. /\ Marker(marker.v, p, {}) \in Writes /\ Marker(marker.v, p, {}).w = "marker"
        /\ Marker(marker.v, p, {}).v = marker.v /\ (Marker(marker.v, p, {}).p => p)
    <3>1. Marker(marker.v, p, {}).p => p
      BY Zenon DEF Marker
    <3>2. /\ Marker(marker.v, p, {}) \in Writes /\ Marker(marker.v, p, {}).w = "marker"
          /\ Marker(marker.v, p, {}).v = marker.v
      BY <1>4, <1>5, WritesAre
    <3> QED BY <3>1, <3>2
  <2>2. TodoInv' /\ <<Marker(marker.v, p, {})>> \in Seq(Writes)
    BY <1>5, <2>1, OneToCome
  <2> QED BY <1>1, <1>5, <2>2, GoStep
<1>6. CASE Postpone
  <2>1. marker.v = 1
    BY <1>4, <1>6 DEF Postpone, Detected, ClientInv, VersionInv
  <2> QED BY <1>2, <1>5, <1>6, <2>1 DEF Postpone
<1>7. CASE NothingToMigrate
  <2>1. me = marker.v
    BY <1>7 DEF NothingToMigrate, Detected
  <2> QED BY <1>2, <1>5, <1>7, <2>1 DEF NothingToMigrate
<1> QED BY <1>3, <1>6, <1>7

LEMMA OnlineStep == ASSUME ClientInv, Online PROVE ClientInv'
<1>1. /\ at \notin Switching /\ journal = <<>> /\ cmd.name \notin Recovery
      /\ Mine \in Accounts
      /\ IF Ensured(Mine) THEN Go("dispatch", EnsureWrites(Mine)) ELSE Refuse
  BY Between, TypedParts DEF Online, Switching, HasKey, ClientInv
<1>2. CASE ~Ensured(Mine)
  BY <1>1, <1>2, RefuseStep
<1>3. CASE Ensured(Mine)
  <2>1. EnsureWrites(Mine) # <<>>
    BY <1>3 DEF EnsureWrites
  <2>2. PICK new \in BOOLEAN :
           /\ EnsureWrites(Mine) = <<Owner(Mine, Mine, new)>>
           /\ Owner(Mine, Mine, new) \in Writes /\ Owner(Mine, Mine, new).w = "owner"
           /\ Owner(Mine, Mine, new).r = Mine /\ Binds(Owner(Mine, Mine, new))
    BY <1>1, <2>1, EnsuredBinds
  <2> DEFINE w == Owner(Mine, Mine, new)
  <2>3. Go("dispatch", <<w>>) /\ w \in Writes /\ w.w = "owner" /\ w.r = Mine /\ Binds(w)
    BY <1>1, <1>3, <2>2
  <2> HIDE DEF w
  <2>4. TodoInv' /\ <<w>> \in Seq(Writes) /\ <<w>> # <<>> /\ <<w>>[1] = w
    BY <2>3, OneToCome
  <2>5. Mine # Nobody
    BY <1>1, Basics
  <2> QED BY <1>1, <2>3, <2>4, <2>5, GoStep
<1> QED BY <1>2, <1>3

LEMMA ProvedIsMine ==
    ASSUME ClientInv, HasKey, Proved
    PROVE  owner.ref = Mine /\ Mine \in Accounts
<1>1. Mine \in Accounts /\ Mine # Nobody
  BY TypedParts DEF HasKey, ClientInv
<1>2. CASE owner.proof = Mine
  BY <1>1, <1>2 DEF ClientInv, OwnerInv
<1>3. CASE LegacyProof
  BY <1>1, <1>3 DEF ClientInv, OwnerInv, LegacyProof, Mine, Proved
<1> QED BY <1>1, <1>2, <1>3 DEF Proved

LEMMA OfflineStep == ASSUME ClientInv, Offline PROVE ClientInv'
<1>1. /\ at \notin Switching /\ journal = <<>> /\ HasKey
      /\ IF cmd.name = "skip" /\ Proved
         THEN Go("dispatch", IF owner.proof = Nobody THEN <<Owner(owner.ref, Mine, FALSE)>> ELSE <<>>)
         ELSE Refuse
  BY Between DEF Offline, Switching
<1>2. CASE ~(cmd.name = "skip" /\ Proved)
  BY <1>1, <1>2, RefuseStep
<1>3. CASE cmd.name = "skip" /\ Proved
  <2>1. owner.ref = Mine /\ Mine \in Accounts /\ Mine # Nobody
    BY <1>1, <1>3, ProvedIsMine DEF HasKey
  <2>2. CASE owner.proof = Nobody
    <3> DEFINE w == Owner(owner.ref, Mine, FALSE)
    <3>1. w \in Writes /\ w.w = "owner" /\ w.r = Mine /\ w.p = Mine
      <4>1. w = Owner(Mine, Mine, FALSE)
        BY <2>1
      <4>2. /\ Owner(Mine, Mine, FALSE) \in Writes /\ Owner(Mine, Mine, FALSE).w = "owner"
            /\ Owner(Mine, Mine, FALSE).r = Mine /\ Owner(Mine, Mine, FALSE).p = Mine
        BY <2>1 DEF Owner, Writes
      <4> HIDE DEF w
      <4> QED BY <4>1, <4>2
    <3>2. Binds(w) /\ Go("dispatch", <<w>>)
      BY <1>1, <1>3, <2>1, <2>2, <3>1 DEF Binds
    <3> HIDE DEF w
    <3>3. TodoInv' /\ <<w>> \in Seq(Writes)
      BY <3>1, <3>2, OneToCome
    <3> QED BY <1>1, <2>1, <3>2, <3>3, GoStep
  <2>3. CASE owner.proof # Nobody
    <3>1. Go("dispatch", <<>>)
      BY <1>1, <1>3, <2>3
    <3>2. TodoInv'
      BY <3>1 DEF Go, TodoInv
    <3> QED BY <1>1, <2>1, <3>1, <3>2, NoWrites, GoStep
  <2> QED BY <2>2, <2>3
<1> QED BY <1>2, <1>3

LEMMA OwnerPhaseStep == ASSUME ClientInv, NoKey \/ Exempt \/ ContextLocked PROVE ClientInv'
<1>1. at \notin Switching /\ journal = <<>>
  BY Between DEF NoKey, Exempt, ContextLocked, Switching
<1>2. CASE NoKey \/ ContextLocked
  BY <1>1, <1>2, RefuseStep DEF NoKey, ContextLocked
<1>3. CASE Exempt
  BY <1>1, <1>3, GoNothing DEF Exempt
<1> QED BY <1>2, <1>3

-----------------------------------------------------------------------------
(* The business of a command.                                                *)

LEMMA SaveNewKeyStep == ASSUME ClientInv, SaveNewKey PROVE ClientInv'
<1>1. at \notin Switching /\ journal = <<>>
  BY Between DEF SaveNewKey, Unlocked, Dispatch, Switching
<1>2. PICK a \in Accounts, verified \in BOOLEAN :
         Go("idle", <<Key(a)>> \o IF verified THEN EnsureWrites(a) ELSE <<>>)
  BY DEF SaveNewKey
<1>3. Key(a) \in Writes /\ Key(a).w = "key"
  BY WritesAre
<1>4. <<Key(a)>> \in Seq(Writes) /\ Len(<<Key(a)>>) = 1
  BY <1>3, OneWrite
<1>5. CASE Go("idle", <<Key(a)>>)
  <2>1. TodoInv'
    BY <1>3, <1>5, OneToCome
  <2> QED BY <1>1, <1>4, <1>5, <2>1, GoStep
<1>6. ASSUME NEW w \in Writes, w.w = "owner", Binds(w), Go("idle", <<Key(a)>> \o <<w>>) PROVE ClientInv'
  <2>1. <<Key(a)>> \o <<w>> = <<Key(a), w>>
    BY <1>3, <1>6, Joined
  <2>2. Go("idle", <<Key(a), w>>)
    BY <1>6, <2>1
  <2>3. <<Key(a), w>> \in Seq(Writes) /\ Len(<<Key(a), w>>) = 2 /\ <<Key(a), w>>[1] = Key(a) /\ <<Key(a), w>>[2] = w
    BY <1>3, TwoWrites
  <2>4. todo' = <<Key(a), w>> /\ at' = "idle" /\ UNCHANGED <<owner, files>>
    BY <2>2 DEF Go, state
  <2>5. Binds(w)'
    BY <1>6, <2>4 DEF Binds, HereOf
  <2>6. MayWrite(1)'
    BY <1>3, <2>3, <2>4 DEF MayWrite
  <2>7. MayWrite(2)'
    BY <1>6, <2>3, <2>4, <2>5 DEF MayWrite
  <2>8. \A k \in 1..Len(todo') : k = 1 \/ k = 2
    BY <2>3, <2>4
  <2>9. TodoInv'
    BY <2>6, <2>7, <2>8 DEF TodoInv
  <2> QED BY <1>1, <2>2, <2>3, <2>9, GoStep
<1>7. CASE verified
  <2>1. CASE EnsureWrites(a) = <<>>
    <3>1. <<Key(a)>> \o <<>> = <<Key(a)>>
      BY <1>4, ConcatEmptySeq
    <3> QED BY <1>2, <1>5, <1>7, <2>1, <3>1
  <2>2. CASE EnsureWrites(a) # <<>>
    BY <1>2, <1>6, <1>7, <2>2, EnsuredBinds
  <2> QED BY <2>1, <2>2
<1>8. CASE ~verified
  <2>1. <<Key(a)>> \o <<>> = <<Key(a)>>
    BY <1>4, ConcatEmptySeq
  <2> QED BY <1>2, <1>5, <1>8, <2>1
<1> QED BY <1>7, <1>8

LEMMA BindLegacyStep == ASSUME ClientInv, BindLegacy PROVE ClientInv'
<1>1. /\ at \notin Switching /\ journal = <<>> /\ Mine \in Accounts
      /\ IF owner.ref = Nobody /\ \A i \in Items : files[Here][i].of \in {Nobody, Mine}
         THEN Go("idle", <<Owner(Mine, Mine, TRUE)>>) ELSE Refuse
  BY Between, TypedParts DEF BindLegacy, Unlocked, Dispatch, Switching, HasKey, ClientInv
<1>2. CASE Refuse
  BY <1>1, <1>2, RefuseStep
<1>3. CASE owner.ref = Nobody /\ HereOf(Mine) /\ Go("idle", <<Owner(Mine, Mine, TRUE)>>)
  <2> DEFINE w == Owner(Mine, Mine, TRUE)
  <2>1. w \in Writes /\ w.w = "owner" /\ w.r = Mine /\ w.p = Mine
    BY <1>1, WritesAre
  <2>2. Binds(w) /\ Go("idle", <<w>>)
    BY <1>3, <2>1 DEF Binds
  <2> HIDE DEF w
  <2>3. TodoInv' /\ <<w>> \in Seq(Writes)
    BY <2>1, <2>2, OneToCome
  <2> QED BY <1>1, <2>2, <2>3, GoStep
<1> QED BY <1>1, <1>2, <1>3 DEF HereOf

LEMMA SwitchAccountStep == ASSUME ClientInv, SwitchAccount PROVE ClientInv'
<1>1. /\ at \notin Switching /\ journal = <<>> /\ todo = <<>> /\ ~Open /\ Mine \in Accounts
      /\ at = "dispatch" /\ cmd.name = "switch"
  BY Between, TypedParts DEF SwitchAccount, Unlocked, Dispatch, Switching, HasKey, Free, ClientInv, In
<1>2. CASE Refuse
  BY <1>1, <1>2, RefuseStep
<1>3. CASE Go("idle", EnsureWrites(Mine))
  <2>1. CASE EnsureWrites(Mine) = <<>>
    BY <1>1, <1>3, <2>1, GoNothing
  <2>2. CASE EnsureWrites(Mine) # <<>>
    <3>1. PICK new \in BOOLEAN :
             /\ EnsureWrites(Mine) = <<Owner(Mine, Mine, new)>>
             /\ Owner(Mine, Mine, new) \in Writes /\ Owner(Mine, Mine, new).w = "owner"
             /\ Binds(Owner(Mine, Mine, new))
      BY <1>1, <2>2, EnsuredBinds
    <3> DEFINE w == Owner(Mine, Mine, new)
    <3>2. Go("idle", <<w>>) /\ w \in Writes /\ w.w = "owner" /\ Binds(w)
      BY <1>3, <3>1
    <3> HIDE DEF w
    <3>3. TodoInv' /\ <<w>> \in Seq(Writes)
      BY <3>2, OneToCome
    <3> QED BY <1>1, <3>2, <3>3, GoStep
  <2> QED BY <2>1, <2>2
<1>4. CASE OwnerStatus(Mine) = "account_mismatch" /\ Go("out", <<>>)
  <2>1. /\ at' = "out" /\ todo' = <<>> /\ cmd' = cmd
        /\ UNCHANGED <<key, untouched, owner, files, ledger, marker, code, older, me, journal, torn, missed, deaths>>
    BY <1>4 DEF Go, state
  <2>2. owner.ref # Nobody /\ owner.ref # Mine /\ Mine # Nobody
    BY <1>1, <1>4, Basics DEF OwnerStatus
  <2>3. Typed'
    BY <1>1, <2>1 DEF ClientInv, Typed, ClientTypeOK, Switching, CommandsOf
  <2>4. VersionInv' /\ OwnerInv'
    BY <2>1 DEF ClientInv, VersionInv, OwnerInv, Open
  <2>5. TodoInv' /\ JournalInv'
    BY <1>1, <2>1 DEF TodoInv, JournalInv
  <2>6. CommandInv'
    BY <1>1, <2>1, <2>2 DEF CommandInv, Switching, Open, Mine
  <2>7. FilesInv => FilesInv'
    BY <1>1, <2>1 DEF FilesInv, HereOf
  <2>8. MissedInv => MissedInv'
    BY <2>1 DEF MissedInv, Shadowed
  <2> QED BY <2>1, <2>3, <2>4, <2>5, <2>6, <2>7, <2>8 DEF ClientInv
<1> QED BY <1>2, <1>3, <1>4 DEF SwitchAccount, OwnerStatus

\* The business of a command that is not a recovery is that of the owner.
LEMMA BusinessIsOwners ==
    ASSUME ClientInv, In("dispatch"), cmd.name \notin Recovery
    PROVE  owner.ref = Mine /\ owner.ref # Nobody
  BY DEF ClientInv, CommandInv, In

LEMMA BusinessWrites ==
    ASSUME ClientInv, In("dispatch"), cmd.name \notin Recovery,
           NEW w \in Writes, w.w \in {"file", "work"}, Go("idle", <<w>>)
    PROVE  ClientInv'
<1>1. at \notin Switching /\ journal = <<>>
  BY Between DEF Switching
<1>2. TodoInv' /\ <<w>> \in Seq(Writes)
  BY BusinessIsOwners, OneToCome
<1> QED BY <1>1, <1>2, GoStep

LEMMA RunPlatformStep == ASSUME ClientInv, RunPlatform PROVE ClientInv'
<1>1. In("dispatch") /\ cmd.name \notin Recovery
  BY DEF RunPlatform, Dispatch, Recovery
<1>2. ASSUME NEW i \in Items, Go("idle", <<File(i)>>) PROVE ClientInv'
  <2>1. File(i) \in Writes /\ File(i).w = "file"
    BY WritesAre
  <2> QED BY <1>1, <1>2, <2>1, BusinessWrites
<1>3. CASE Go("idle", <<Work("ready")>>)
  <2>1. Work("ready") \in Writes /\ Work("ready").w = "work"
    BY WritesAre
  <2> QED BY <1>1, <1>3, <2>1, BusinessWrites
<1> QED BY <1>2, <1>3 DEF RunPlatform

LEMMA SkipPlatformStep == ASSUME ClientInv, SkipPlatform PROVE ClientInv'
<1>1. In("dispatch") /\ cmd.name \notin Recovery /\ Go("idle", <<File(Bound)>>)
  BY DEF SkipPlatform, Unlocked, Dispatch, Recovery
<1>2. File(Bound) \in Writes /\ File(Bound).w = "file"
  BY WritesAre, Basics
<1> QED BY <1>1, <1>2, BusinessWrites

LEMMA RunWorkStep == ASSUME ClientInv, RunWork PROVE ClientInv'
<1>1. In("dispatch") /\ cmd.name \notin Recovery /\ at \notin Switching /\ journal = <<>>
  BY Between DEF RunWork, Dispatch, Recovery, Switching
<1>2. ASSUME NEW s \in {"reading", "effect", "closed"}, Go("idle", <<Work(s)>>) PROVE ClientInv'
  <2>1. Work(s) \in Writes /\ Work(s).w = "work"
    BY WritesAre
  <2> QED BY <1>1, <1>2, <2>1, BusinessWrites
<1>3. ASSUME NEW i \in Items, Go("idle", <<Work("closed"), File(i)>>) PROVE ClientInv'
  <2> DEFINE v == Work("closed")
             w == File(i)
  <2>1. v \in Writes /\ v.w = "work" /\ w \in Writes /\ w.w = "file"
    BY WritesAre
  <2>2. Go("idle", <<v, w>>)
    BY <1>3
  <2> HIDE DEF v, w
  <2>3. <<v, w>> \in Seq(Writes) /\ Len(<<v, w>>) = 2 /\ <<v, w>>[1] = v /\ <<v, w>>[2] = w
    BY <2>1, TwoWrites
  <2>4. todo' = <<v, w>> /\ at' = "idle" /\ owner' = owner /\ owner.ref # Nobody
    BY <1>1, <2>2, BusinessIsOwners DEF Go, state
  <2>5. MayWrite(1)'
    BY <2>1, <2>3, <2>4 DEF MayWrite
  <2>6. MayWrite(2)'
    BY <2>1, <2>3, <2>4 DEF MayWrite
  <2>7. \A k \in 1..Len(todo') : k = 1 \/ k = 2
    BY <2>3, <2>4
  <2>8. TodoInv'
    BY <2>5, <2>6, <2>7 DEF TodoInv
  <2> QED BY <1>1, <2>2, <2>3, <2>8, GoStep
<1>4. CASE Refuse
  BY <1>1, <1>4, RefuseStep
<1> QED BY <1>2, <1>3, <1>4 DEF RunWork

-----------------------------------------------------------------------------
(* The writes.                                                               *)

\* What every write has in common.
LEMMA Written ==
    ASSUME ClientInv, NEW w, Next1(w)
    PROVE  /\ todo # <<>> /\ todo' = Tail(todo) /\ Head(todo) = todo[1]
           /\ Head(todo) \in Writes /\ Head(todo).w = w
           /\ UNCHANGED <<older, cmd, at, me, journal, torn, deaths>>
           /\ journal = <<>> /\ at \notin Switching /\ JournalInv'
           /\ Len(todo) \in Nat /\ 1 \in 1..Len(todo) /\ MayWrite(1)
           /\ todo' \in Seq(Writes) /\ Len(todo') = Len(todo) - 1
<1>1. /\ todo # <<>> /\ todo' = Tail(todo) /\ Head(todo).w = w
      /\ UNCHANGED <<older, cmd, at, me, journal, torn, deaths>>
  BY DEF Next1
<1>2. /\ Head(todo) = todo[1] /\ Head(todo) \in Writes /\ Len(todo) \in Nat /\ Len(todo) > 0
      /\ todo' \in Seq(Writes) /\ Len(todo') = Len(todo) - 1
  BY <1>1, Nearer DEF ClientInv
<1>3. journal = <<>> /\ at \notin Switching
  BY <1>1, Writing
<1>4. JournalInv'
  BY <1>1, <1>3 DEF JournalInv
<1>5. 1 \in 1..Len(todo)
  BY <1>2
<1>6. MayWrite(1)
  BY <1>5 DEF ClientInv, TodoInv
<1> QED BY <1>1, <1>2, <1>3, <1>4, <1>5, <1>6

\* The writes after one that touches neither owner nor works nor marker.
LEMMA StillToCome ==
    ASSUME ClientInv, todo # <<>>, todo' = Tail(todo), UNCHANGED <<owner, marker, ledger, me, at>>,
           \A a \in Accounts : HereOf(a) => HereOf(a)',
           \A i \in Items : files[Here][i].v = 1 /\ Head(todo) # Migrate(i) => files'[Here][i].v = 1,
           \A i \in Items : files'[Here][i] # None /\ files'[Here][i].v < me =>
               files[Here][i] # None /\ files[Here][i].v < me /\ Head(todo) # Migrate(i)
    PROVE  TodoInv'
<1> SUFFICES ASSUME NEW k \in 1..Len(todo') PROVE MayWrite(k)'
  BY DEF TodoInv
<1>1. /\ Head(todo) = todo[1] /\ Len(todo) \in Nat /\ Len(todo') = Len(todo) - 1
      /\ \A j \in 1..Len(todo') : todo'[j] = todo[j + 1] /\ j + 1 \in 1..Len(todo) /\ j # 0
  BY Nearer DEF ClientInv
<1>2. PICK h \in Writes : h = todo[k + 1]
  BY <1>1, TypedParts, ElementOfSeq DEF ClientInv
<1>3. k + 1 = Len(todo) => k = Len(todo')
  <2>1. k \in Nat /\ Len(todo) \in Nat /\ Len(todo') = Len(todo) - 1
    BY <1>1
  <2> QED BY <2>1, IsLast
<1>4. MayWrite(k + 1) /\ todo'[k] = h /\ todo[k + 1] = h /\ k \in Nat /\ k + 1 # 1 /\ k # 0
  BY <1>1, <1>2 DEF ClientInv, TodoInv
<1>5. h.w # "key" /\ h.w # "work"
  BY <1>4 DEF MayWrite
<1>6. h.w = "owner" => Binds(h)' /\ k = Len(todo') /\ at' \in {"idle", "dispatch"}
  <2>1. h.w = "owner" => Binds(h) /\ k + 1 = Len(todo) /\ at \in {"idle", "dispatch"}
    BY <1>4 DEF MayWrite
  <2>2. h.w = "owner" => (HereOf(h.r) => HereOf(h.r)')
    <3> DEFINE a == h.r
    <3>1. h.w = "owner" => a \in Accounts
      BY WriteParts
    <3> HIDE DEF a
    <3>2. a \in Accounts => (HereOf(a) => HereOf(a)')
      OBVIOUS
    <3> QED BY <3>1, <3>2 DEF a
  <2>3. h.w = "owner" => (Binds(h) => Binds(h)')
    BY <2>2 DEF Binds
  <2> QED BY <1>3, <2>1, <2>3
<1>7. h.w = "file" => owner'.ref # Nobody /\ k = Len(todo') /\ at' = "idle"
  BY <1>3, <1>4 DEF MayWrite
<1>8. ASSUME h.w = "migrate"
      PROVE  /\ ~Effect' /\ me' = 2 /\ marker'.v = 1 /\ at' \in {"owner", "idle"}
             /\ files'[Here][h.i].v = 1 /\ \A j \in 1..(k - 1) : todo'[j] # Migrate(h.i)
  <2>1. /\ ~Effect /\ me = 2 /\ marker.v = 1 /\ at \in {"owner", "idle"} /\ files[Here][h.i].v = 1
        /\ \A j \in 1..((k + 1) - 1) : todo[j] # Migrate(h.i)
    BY <1>4, <1>8 DEF MayWrite
  <2>2. 1 \in 1..((k + 1) - 1) /\ h.i \in Items
    BY <1>4, <1>8, WriteParts
  <2>3. Head(todo) # Migrate(h.i)
    BY <1>1, <2>1, <2>2
  <2>4. ASSUME NEW j \in 1..(k - 1) PROVE todo'[j] # Migrate(h.i)
    <3>1. j \in 1..Len(todo') /\ j + 1 \in 1..((k + 1) - 1)
      BY <1>1, <1>4
    <3> QED BY <1>1, <2>1, <3>1
  <2> QED BY <2>1, <2>2, <2>3, <2>4 DEF Effect
<1>9. h.w = "checkout" => at' = "idle" /\ (h.v = 1 => me' = 1)
  BY <1>4 DEF MayWrite
<1>10. h.w = "marker" => k = Len(todo') /\ at' \in {"owner", "idle"} /\ (h.p => h.v = 1)
  BY <1>3, <1>4 DEF MayWrite
<1>11. ASSUME h.w = "marker", h.v # marker.v
       PROVE  /\ ~Effect' /\ h.v = me'
              /\ \A i \in Items : files'[Here][i] # None /\ files'[Here][i].v < h.v =>
                    i \in h.left \/ \E j \in 1..(k - 1) : todo'[j] = Migrate(i)
  <2>1. /\ ~Effect /\ h.v = me
        /\ \A i \in Items : files[Here][i] # None /\ files[Here][i].v < h.v =>
              i \in h.left \/ \E j \in 1..((k + 1) - 1) : todo[j] = Migrate(i)
    BY <1>4, <1>11 DEF MayWrite
  <2>2. ASSUME NEW i \in Items, files'[Here][i] # None, files'[Here][i].v < h.v, i \notin h.left
        PROVE  \E j \in 1..(k - 1) : todo'[j] = Migrate(i)
    <3>1. files[Here][i] # None /\ files[Here][i].v < h.v /\ todo[1] # Migrate(i)
      BY <1>1, <2>1, <2>2
    <3>2. PICK j \in 1..((k + 1) - 1) : todo[j] = Migrate(i)
      BY <2>1, <2>2, <3>1
    <3>3. j \in Nat /\ j # 1 /\ j - 1 \in 1..(k - 1)
      BY <1>4, <3>1, <3>2
    <3>4. j - 1 \in 1..Len(todo') /\ (j - 1) + 1 = j
      BY <1>1, <1>4, <3>3
    <3>5. todo'[j - 1] = Migrate(i)
      BY <1>1, <3>2, <3>4
    <3> QED BY <3>3, <3>5
  <2>3. ~Effect'
    BY <2>1 DEF Effect
  <2> QED BY <2>1, <2>2, <2>3
<1> QED BY <1>4, <1>5, <1>6, <1>7, <1>8, <1>9, <1>10, <1>11 DEF MayWrite

LEMMA LastWrite ==
    ASSUME Len(todo') = Len(todo) - 1, Len(todo) = 1
    PROVE  TodoInv'
  BY DEF TodoInv

LEMMA SaveKeyStep == ASSUME ClientInv, SaveKey PROVE ClientInv'
<1>1. /\ todo # <<>> /\ todo' = Tail(todo) /\ Head(todo) = todo[1]
      /\ Head(todo) \in Writes /\ Head(todo).w = "key"
      /\ UNCHANGED <<older, cmd, at, me, journal, torn, deaths>>
      /\ journal = <<>> /\ at \notin Switching /\ JournalInv' /\ MayWrite(1) /\ todo' \in Seq(Writes)
  BY Written DEF SaveKey
<1>2. key' = Head(todo).a /\ untouched' = FALSE /\ UNCHANGED <<owner, files, ledger, marker, code, missed>>
  BY DEF SaveKey
<1>3. key' \in Accounts /\ at = "idle"
  BY <1>1, <1>2, WriteParts DEF MayWrite
<1>4. Typed'
  BY <1>1, <1>2, <1>3, Kinds, StillTyped DEF ClientInv
<1>5. VersionInv' /\ OwnerInv'
  BY <1>1, <1>2 DEF ClientInv, VersionInv, OwnerInv, Open
<1>6. TodoInv'
  <2>1. \A i \in Items : Head(todo) # Migrate(i)
    BY <1>1 DEF Migrate
  <2>2. \A a \in Accounts : HereOf(a) => HereOf(a)'
    BY <1>2 DEF HereOf
  <2> QED BY <1>1, <1>2, <2>1, <2>2, StillToCome
<1>7. CommandInv'
  BY <1>1, <1>3 DEF CommandInv, Switching
<1>8. (FilesInv => FilesInv') /\ (MissedInv => MissedInv')
  BY <1>1, <1>2, <1>3 DEF FilesInv, HereOf, MissedInv, Shadowed
<1> QED BY <1>1, <1>4, <1>5, <1>6, <1>7, <1>8 DEF ClientInv

LEMMA SaveOwnerStep == ASSUME ClientInv, SaveOwner PROVE ClientInv'
<1>1. /\ todo # <<>> /\ todo' = Tail(todo) /\ Head(todo) = todo[1]
      /\ Head(todo) \in Writes /\ Head(todo).w = "owner"
      /\ UNCHANGED <<older, cmd, at, me, journal, torn, deaths>>
      /\ journal = <<>> /\ at \notin Switching /\ JournalInv' /\ MayWrite(1) /\ todo' \in Seq(Writes)
      /\ Len(todo') = Len(todo) - 1
  BY Written DEF SaveOwner
<1> DEFINE h == Head(todo)
<1>2. /\ owner' = [ref |-> h.r, proof |-> h.p] /\ untouched' = (untouched \/ h.new)
      /\ UNCHANGED <<key, files, ledger, marker, code, missed>>
  BY DEF SaveOwner
<1>3. h.r \in Accounts /\ h.r # Nobody /\ h.p = h.r /\ h.new \in BOOLEAN /\ Binds(h) /\ Len(todo) = 1
  BY <1>1, WriteParts, Basics DEF MayWrite, Binds
<1>4. owner'.ref = h.r /\ owner'.proof = h.r
  BY <1>2, <1>3
<1>5. untouched' \in BOOLEAN
  BY <1>2
<1>6. Typed'
  BY <1>1, <1>2, <1>3, <1>5 DEF ClientInv, Typed, ClientTypeOK, CommandsOf
<1>7. VersionInv'
  BY <1>1, <1>2 DEF ClientInv, VersionInv
<1>8. OwnerInv'
  BY <1>2, <1>3, <1>4 DEF ClientInv, OwnerInv, Open, Binds
<1>9. TodoInv'
  BY <1>1, <1>3, LastWrite
<1>10. CommandInv'
  <2>1. ASSUME at = "dispatch", cmd.name \notin Recovery PROVE Mine # Nobody /\ owner'.ref = Mine
    BY <1>1, <1>3, <1>4, <2>1 DEF ClientInv, CommandInv, Binds
  <2> QED BY <1>1, <1>2, <2>1 DEF CommandInv, Mine
<1>11. FilesInv => FilesInv'
  BY <1>1, <1>2, <1>3, <1>4 DEF FilesInv, HereOf, Binds, Switching
<1>12. MissedInv => MissedInv'
  BY <1>2, <1>3, <1>4 DEF ClientInv, MissedInv, Shadowed, VersionInv, Binds, Places
<1> QED BY <1>1, <1>6, <1>7, <1>8, <1>9, <1>10, <1>11, <1>12 DEF ClientInv

\* One file of the active state is written.
LEMMA Placed ==
    ASSUME Typed, NEW i \in Items, NEW f \in FileOf, files' = [files EXCEPT ![Here][i] = f]
    PROVE  /\ files' \in [Places -> [Items -> FileOf]] /\ files'[Here][i] = f
           /\ \A pl \in Places, j \in Items :
                 pl # Here \/ j # i => files'[pl][j] = files[pl][j]
<1>1. files \in [Places -> [Items -> FileOf]]
  BY DEF Typed, ClientTypeOK
<1> QED BY <1>1, Basics

LEMMA SaveFileStep == ASSUME ClientInv, SaveFile PROVE ClientInv'
<1>1. /\ todo # <<>> /\ todo' = Tail(todo) /\ Head(todo) = todo[1]
      /\ Head(todo) \in Writes /\ Head(todo).w = "file"
      /\ UNCHANGED <<older, cmd, at, me, journal, torn, deaths>>
      /\ journal = <<>> /\ at \notin Switching /\ JournalInv' /\ MayWrite(1) /\ todo' \in Seq(Writes)
      /\ Len(todo') = Len(todo) - 1
  BY Written DEF SaveFile
<1> DEFINE i == Head(todo).i
           f == [of |-> owner.ref, v |-> me]
<1>2. /\ files' = [files EXCEPT ![Here][i] = f] /\ missed' = missed \ {<<owner.ref, i>>}
      /\ UNCHANGED <<key, untouched, owner, ledger, marker, code>>
  BY DEF SaveFile
<1>3. i \in Items /\ owner.ref \in Accounts /\ owner.ref # Nobody /\ Len(todo) = 1 /\ at = "idle"
  BY <1>1, WriteParts, TypedParts DEF MayWrite, ClientInv
<1>4. f \in FileOf /\ f.of = owner.ref /\ f.v = me /\ f # None /\ me \in {1, 2} /\ marker.v \in {1, 2} /\ marker.v <= me
  BY <1>3, TypedParts, Basics DEF FileOf, ClientInv, VersionInv
<1> HIDE DEF f, i
<1>5. /\ files' \in [Places -> [Items -> FileOf]] /\ files'[Here][i] = f
      /\ \A pl \in Places, j \in Items : pl # Here \/ j # i => files'[pl][j] = files[pl][j]
  BY <1>2, <1>3, <1>4, Placed DEF ClientInv
<1>6. Typed'
  BY <1>1, <1>2, <1>5 DEF ClientInv, Typed, ClientTypeOK, CommandsOf
<1>7. VersionInv'
  <2> SUFFICES ASSUME NEW pl \in Places, NEW j \in Items
               PROVE  /\ files'[pl][j].v <= me \/ files'[pl][j] = None
                      /\ files'[pl][j].of = Nobody => files'[pl][j] = None
    BY <1>1, <1>2 DEF ClientInv, VersionInv
  <2> QED BY <1>3, <1>4, <1>5 DEF ClientInv, VersionInv
<1>8. OwnerInv'
  <2>1. owner'.ref # Nobody => owner'.ref = owner.ref
    BY <1>2
  <2> QED BY <1>2, <2>1 DEF ClientInv, OwnerInv, Open
<1>9. TodoInv'
  BY <1>1, <1>3, LastWrite
<1>10. CommandInv'
  BY <1>1, <1>3 DEF CommandInv, Switching
<1>11. FilesInv => FilesInv'
  BY <1>1, <1>2, <1>3, <1>4, <1>5, Basics DEF FilesInv, HereOf
<1>12. ASSUME FilesInv, MissedInv PROVE MissedInv'
  <2> SUFFICES ASSUME NEW pl \in Places, NEW j \in Items,
                      files'[pl][j] # None, files'[pl][j].v < marker.v
               PROVE  <<files'[pl][j].of, j>> \in missed' \/ Shadowed(pl, j)'
    BY <1>2 DEF MissedInv
  <2>1. ~(pl = Here /\ j = i)
    BY <1>4, <1>5
  <2>2. files'[pl][j] = files[pl][j]
    BY <1>5, <2>1
  <2>3. CASE Shadowed(pl, j)
    <3>1. files'[Here][j] # None /\ files'[Here][j].of = owner.ref
      BY <1>4, <1>5, <2>3, Basics DEF Shadowed
    <3> QED BY <1>2, <2>3, <3>1 DEF Shadowed
  <2>4. CASE <<files[pl][j].of, j>> \in missed
    <3>1. CASE <<files[pl][j].of, j>> = <<owner.ref, i>>
      <4>1. j = i /\ pl \in Accounts /\ files[pl][j].of = owner.ref
        BY <2>1, <3>1 DEF Places
      <4>2. pl = owner.ref
        BY <1>3, <1>12, <4>1 DEF FilesInv
      <4> QED BY <1>2, <1>4, <1>5, <4>1, <4>2 DEF Shadowed
    <3>2. CASE <<files[pl][j].of, j>> # <<owner.ref, i>>
      BY <1>2, <2>2, <2>4, <3>2
    <3> QED BY <3>1, <3>2
  <2> QED BY <1>12, <2>2, <2>3, <2>4 DEF MissedInv
<1> QED BY <1>1, <1>6, <1>7, <1>8, <1>9, <1>10, <1>11, <1>12 DEF ClientInv

LEMMA SaveWorkStep == ASSUME ClientInv, SaveWork PROVE ClientInv'
<1>1. /\ todo # <<>> /\ todo' = Tail(todo) /\ Head(todo) = todo[1]
      /\ Head(todo) \in Writes /\ Head(todo).w = "work"
      /\ UNCHANGED <<older, cmd, at, me, journal, torn, deaths>>
      /\ journal = <<>> /\ at \notin Switching /\ JournalInv' /\ MayWrite(1) /\ todo' \in Seq(Writes)
      /\ Len(todo') = Len(todo) - 1
  BY Written DEF SaveWork
<1> DEFINE s == Head(todo).s
<1>2. /\ ledger' = IF s = "closed" THEN NoWork ELSE [st |-> s, of |-> owner.ref]
      /\ UNCHANGED <<key, untouched, owner, files, marker, code, missed>>
  BY DEF SaveWork
<1>3. /\ s \in {"closed", "ready", "reading", "effect"} /\ at = "idle"
      /\ owner.ref \in Accounts /\ owner.ref # Nobody
      /\ Len(todo) = 1 \/ (Len(todo) = 2 /\ todo[2].w = "file")
  BY <1>1, WriteParts, TypedParts DEF MayWrite, ClientInv
<1>4. ledger' \in [st : {"closed", "ready", "reading", "effect"}, of : Accounts \cup {Nobody}]
  BY <1>2, <1>3 DEF NoWork
<1>5. ledger'.st # "closed" => ledger'.of = owner.ref
  BY <1>2 DEF NoWork
<1> HIDE DEF s
<1>6. Typed'
  BY <1>1, <1>2, <1>4 DEF ClientInv, Typed, ClientTypeOK, CommandsOf
<1>7. VersionInv' /\ OwnerInv'
  BY <1>1, <1>2, <1>3, <1>5 DEF ClientInv, VersionInv, OwnerInv, Open
<1>8. TodoInv'
  <2>1. CASE Len(todo) = 1
    BY <1>1, <2>1, LastWrite
  <2>2. CASE Len(todo) = 2 /\ todo[2].w = "file"
    <3>1. Len(todo') = 1 /\ todo'[1] = todo[2]
      <4>1. Len(todo') = 1
        BY <1>1, <2>2
      <4>2. 1 \in 1..Len(todo') /\ 1 + 1 = 2
        BY <4>1
      <4>3. todo'[1] = todo[1 + 1]
        BY <1>1, <4>2, Nearer DEF ClientInv
      <4> QED BY <4>1, <4>2, <4>3
    <3>2. MayWrite(1)'
      BY <1>1, <1>2, <1>3, <2>2, <3>1 DEF MayWrite
    <3> QED BY <3>1, <3>2 DEF TodoInv
  <2> QED BY <1>3, <2>1, <2>2
<1>9. CommandInv'
  BY <1>1, <1>3 DEF CommandInv, Switching
<1>10. (FilesInv => FilesInv') /\ (MissedInv => MissedInv')
  BY <1>1, <1>2, <1>3 DEF FilesInv, HereOf, MissedInv, Shadowed
<1> QED BY <1>1, <1>6, <1>7, <1>8, <1>9, <1>10 DEF ClientInv

\* A migration of one file: what becomes of it, and of the archive.
Rewritten(i) ==
    /\ files'[Here][i] = [of |-> files[Here][i].of, v |-> 2]
    /\ \A j \in Items \ {i} : files'[Here][j] = files[Here][j]
Dropped(i) ==
    /\ files'[Here][i] = None /\ i \in Cleared
    /\ \A j \in Items \ {i} : files'[Here][j] = files[Here][j]
PutAway(i) ==
    /\ files'[Here][i] = None /\ i \in Shelved /\ Archive \in Items /\ i # Archive
    /\ files'[Here][Archive] = IF files[Here][Archive] # None THEN files[Here][Archive]
                               ELSE [of |-> files[Here][i].of, v |-> 2]

Migrates(i) ==
    /\ Head(todo) = Migrate(i) /\ me = 2 /\ marker.v = 1 /\ ~Effect
    /\ at \in {"owner", "idle"}
    /\ files[Here][i] = [of |-> files[Here][i].of, v |-> 1] /\ files[Here][i] # None
    /\ files[Here][i].of \in Accounts
    /\ files' \in [Places -> [Items -> FileOf]]
    /\ \A pl \in Places, j \in Items :
          pl # Here \/ j \notin {i, Archive} => files'[pl][j] = files[pl][j]
    /\ Rewritten(i) \/ Dropped(i) \/ PutAway(i)

LEMMA MigrateDoes ==
    ASSUME ClientInv, MigrateFile
    PROVE  \E i \in Items : Migrates(i)
<1>1. /\ Head(todo) = todo[1] /\ Head(todo) \in Writes /\ Head(todo).w = "migrate" /\ MayWrite(1)
  BY Written DEF MigrateFile
<1>2. PICK i \in Items : i = Head(todo).i /\ Head(todo) = Migrate(i)
  BY <1>1 DEF Writes, Migrate
<1>3. /\ ~Effect /\ me = 2 /\ marker.v = 1 /\ at \in {"owner", "idle"} /\ files[Here][i].v = 1
  BY <1>1, <1>2 DEF MayWrite
<1>4. files \in [Places -> [Items -> FileOf]] /\ files[Here][i] \in FileOf /\ files[Here] \in [Items -> FileOf]
  BY Kinds, TypedParts, Basics DEF ClientInv
<1>5. files[Here][i] # None /\ files[Here][i] = [of |-> files[Here][i].of, v |-> 1]
  BY <1>3, <1>4, Basics DEF FileOf
<1>6. files[Here][i].of \in Accounts
  BY <1>4, <1>5, Basics DEF FileOf, ClientInv, VersionInv
<1> DEFINE w == [of |-> files[Here][i].of, v |-> 2]
<1>7. w \in FileOf
  BY <1>6 DEF FileOf
<1>8. \/ files' = [files EXCEPT ![Here][i].v = me]
      \/ i \in Cleared /\ files' = [files EXCEPT ![Here][i] = None]
      \/ i \in Shelved /\ files' = Archived(i)
  BY <1>2 DEF MigrateFile
<1>9. CASE files' = [files EXCEPT ![Here][i].v = me]
  <2>1. files' = [files EXCEPT ![Here][i] = w]
    <3>1. [files[Here][i] EXCEPT !.v = me] = w
      BY <1>3, <1>4 DEF FileOf
    <3> QED BY <1>9, <3>1
  <2> HIDE DEF w
  <2>2. /\ files' \in [Places -> [Items -> FileOf]] /\ files'[Here][i] = w
        /\ \A pl \in Places, j \in Items : pl # Here \/ j # i => files'[pl][j] = files[pl][j]
    BY <1>7, <2>1, Placed DEF ClientInv
  <2>3. Rewritten(i)
    BY <2>2, Basics DEF w, Rewritten
  <2> QED BY <1>2, <1>3, <1>5, <1>6, <2>2, <2>3 DEF Migrates
<1>10. CASE i \in Cleared /\ files' = [files EXCEPT ![Here][i] = None]
  <2>1. None \in FileOf /\ Typed
    BY Basics DEF ClientInv
  <2>2. /\ files' \in [Places -> [Items -> FileOf]] /\ files'[Here][i] = None
        /\ \A pl \in Places, j \in Items : pl # Here \/ j # i => files'[pl][j] = files[pl][j]
    BY <1>4, <1>10, <2>1, Basics
  <2>3. Dropped(i)
    BY <1>10, <2>2, Basics DEF Dropped
  <2> QED BY <1>2, <1>3, <1>5, <1>6, <2>2, <2>3 DEF Migrates
<1>11. CASE i \in Shelved /\ files' = Archived(i)
  <2> DEFINE x == IF files[Here][Archive] # None THEN files[Here][Archive] ELSE w
             mid == [files EXCEPT ![Here][i] = None]
  <2>1. Archive \in Items /\ i # Archive
    BY <1>11, ClientAssumption
  <2>2. x \in FileOf
    BY <1>4, <1>7, <2>1
  <2>3. /\ mid \in [Places -> [Items -> FileOf]] /\ mid[Here][i] = None
        /\ \A pl \in Places, j \in Items : pl # Here \/ j # i => mid[pl][j] = files[pl][j]
    BY <1>4, Basics
  <2>4. files' = [mid EXCEPT ![Here][Archive] = x]
    BY <1>3, <1>11, <2>1, <2>3, Basics DEF Archived
  <2> HIDE DEF mid, x, w
  <2>5. /\ files' \in [Places -> [Items -> FileOf]] /\ files'[Here][Archive] = x
        /\ \A pl \in Places, j \in Items : pl # Here \/ j # Archive => files'[pl][j] = mid[pl][j]
    BY <2>1, <2>2, <2>3, <2>4, Basics
  <2>6. /\ files'[Here][i] = None
        /\ \A pl \in Places, j \in Items :
              pl # Here \/ j \notin {i, Archive} => files'[pl][j] = files[pl][j]
    BY <2>1, <2>3, <2>5, Basics
  <2>7. PutAway(i)
    BY <1>11, <2>1, <2>5, <2>6 DEF x, w, PutAway
  <2> QED BY <1>2, <1>3, <1>5, <1>6, <2>5, <2>6, <2>7 DEF Migrates
<1> QED BY <1>8, <1>9, <1>10, <1>11

LEMMA MigrateFileStep == ASSUME ClientInv, MigrateFile PROVE ClientInv'
<1>1. /\ todo # <<>> /\ todo' = Tail(todo) /\ Head(todo) = todo[1]
      /\ UNCHANGED <<older, cmd, at, me, journal, torn, deaths>>
      /\ journal = <<>> /\ at \notin Switching /\ JournalInv' /\ todo' \in Seq(Writes)
  BY Written DEF MigrateFile
<1>2. UNCHANGED <<key, untouched, owner, ledger, marker, code, missed>>
  BY DEF MigrateFile
<1>3. PICK i \in Items : Migrates(i)
  BY MigrateDoes
<1>4. ASSUME NEW pl \in Places, NEW j \in Items
      PROVE  \/ files'[pl][j] = files[pl][j]
             \/ /\ pl = Here /\ files'[pl][j].v = 2 /\ (j = i \/ files[Here][j] = None)
                /\ files'[pl][j] = None \/ files'[pl][j].of = files[Here][i].of
  <2>1. CASE Rewritten(i) \/ Dropped(i)
    BY <1>3, <2>1, Basics DEF Migrates, Rewritten, Dropped
  <2>2. CASE PutAway(i)
    BY <1>3, <2>2, Basics DEF Migrates, PutAway
  <2> QED BY <1>3, <2>1, <2>2 DEF Migrates
<1>5. /\ Head(todo) = Migrate(i) /\ me = 2 /\ marker.v = 1 /\ ~Effect /\ at \in {"owner", "idle"}
      /\ files' \in [Places -> [Items -> FileOf]] /\ files'[Here][i].v = 2 /\ files[Here][i] # None
      /\ \A pl \in Places, j \in Items :
            \/ files'[pl][j] = files[pl][j]
            \/ /\ pl = Here /\ files'[pl][j].v = 2 /\ (j = i \/ files[Here][j] = None)
               /\ files'[pl][j] = None \/ files'[pl][j].of = files[Here][i].of
  BY <1>3, <1>4, Basics DEF Migrates, Rewritten, Dropped, PutAway
<1>6. \A j \in Items : files'[Here][j] # files[Here][j] => files'[Here][j].v = 2
  BY <1>5, Basics
<1>7. files[Here][i].of # Nobody \/ files[Here][i] = None
  BY <1>5, Basics DEF ClientInv, VersionInv
<1>8. \A pl \in Places, j \in Items : files'[pl][j] \in FileOf
  BY <1>5
<1>9. Typed'
  BY <1>1, <1>2, <1>5 DEF ClientInv, Typed, ClientTypeOK, CommandsOf
<1>10. VersionInv'
  <2> SUFFICES ASSUME NEW pl \in Places, NEW j \in Items
               PROVE  /\ files'[pl][j].v <= me \/ files'[pl][j] = None
                      /\ files'[pl][j].of = Nobody => files'[pl][j] = None
    BY <1>1, <1>2 DEF ClientInv, VersionInv
  <2>1. CASE files'[pl][j] = files[pl][j]
    BY <2>1 DEF ClientInv, VersionInv
  <2>2. CASE files'[pl][j] # files[pl][j]
    <3>1. files'[pl][j].v = 2 /\ (files'[pl][j] = None \/ files'[pl][j].of = files[Here][i].of)
      BY <1>5, <2>2
    <3>2. files'[pl][j].of = Nobody => files'[pl][j] = None
      BY <1>5, <1>7, <3>1
    <3> QED BY <1>5, <3>1, <3>2
  <2> QED BY <2>1, <2>2
<1>11. OwnerInv'
  BY <1>2 DEF ClientInv, OwnerInv, Open
<1>12. \A a \in Accounts : HereOf(a) => HereOf(a)'
  BY <1>5, Basics DEF HereOf
<1>13. TodoInv'
  <2>1. ASSUME NEW j \in Items, files'[Here][j] # None, files'[Here][j].v < me
        PROVE  files[Here][j] # None /\ files[Here][j].v < me /\ Head(todo) # Migrate(j)
    <3>1. j # i /\ files'[Here][j] = files[Here][j]
      BY <1>5, <1>6, <2>1
    <3>2. Migrate(i).i = i /\ Migrate(j).i = j
      BY WritesAre
    <3> QED BY <1>5, <2>1, <3>1, <3>2
  <2>2. ASSUME NEW j \in Items, files[Here][j].v = 1, Head(todo) # Migrate(j)
        PROVE  files'[Here][j].v = 1
    BY <1>5, <2>2, Basics
  <2> QED BY <1>1, <1>2, <1>12, <2>1, <2>2, StillToCome
<1>14. CommandInv'
  BY <1>1, <1>5 DEF CommandInv, Switching
<1>15. FilesInv => FilesInv'
  <2> SUFFICES ASSUME FilesInv PROVE FilesInv'
    OBVIOUS
  <2>1. \A a \in Accounts, j \in Items : files'[a][j] = files[a][j]
    BY <1>5, Basics
  <2>2. owner.ref # Nobody => HereOf(owner.ref)'
    <3>1. at \notin {"in", "undo"}
      BY <1>5
    <3>2. ASSUME owner.ref # Nobody PROVE HereOf(owner.ref) /\ owner.ref \in Accounts
      BY <3>1, <3>2, TypedParts DEF FilesInv, ClientInv
    <3>3. PICK o \in Accounts \cup {Nobody} : o = owner.ref
      BY TypedParts DEF ClientInv
    <3>4. o # Nobody => HereOf(o)'
      BY <1>12, <3>2, <3>3
    <3> QED BY <1>2, <3>3, <3>4 DEF HereOf
  <2> QED BY <1>1, <1>2, <1>5, <2>1, <2>2 DEF FilesInv, HereOf
<1>16. MissedInv'
  BY <1>2, <1>5, <1>8 DEF MissedInv, FileOf
<1> QED BY <1>1, <1>9, <1>10, <1>11, <1>13, <1>14, <1>15, <1>16 DEF ClientInv

LEMMA SaveMarkerStep == ASSUME ClientInv, SaveMarker PROVE ClientInv'
<1>1. /\ todo # <<>> /\ todo' = Tail(todo) /\ Head(todo) = todo[1]
      /\ Head(todo) \in Writes /\ Head(todo).w = "marker"
      /\ UNCHANGED <<older, cmd, at, me, journal, torn, deaths>>
      /\ journal = <<>> /\ at \notin Switching /\ JournalInv' /\ MayWrite(1) /\ todo' \in Seq(Writes)
      /\ Len(todo') = Len(todo) - 1
  BY Written DEF SaveMarker
<1> DEFINE h == Head(todo)
<1>2. /\ marker' = [v |-> h.v, pending |-> h.p]
      /\ missed' = IF h.v > marker.v
                   THEN {s \in Stored :
                           \E a \in Accounts : files[a][s[2]] = [of |-> s[1], v |-> 1]}
                        \cup {<<files[Here][i].of, i>> : i \in h.left}
                   ELSE missed
      /\ UNCHANGED <<key, untouched, owner, files, ledger, code>>
  BY DEF SaveMarker
<1>3. /\ h.v \in {1, 2} /\ h.p \in BOOLEAN /\ h.left \in SUBSET Items
      /\ Len(todo) = 1 /\ at \in {"owner", "idle"} /\ marker.v \in {1, 2} /\ me \in {1, 2}
  BY <1>1, WriteParts, TypedParts DEF MayWrite, ClientInv
<1>4. h.v = marker.v \/ /\ h.v = me
                        /\ \A i \in Items : files[Here][i] # None /\ files[Here][i].v < h.v => i \in h.left
  <2>1. \A i, j : j \in 1..(1 - 1) => FALSE
    OBVIOUS
  <2> QED BY <1>1, <2>1 DEF MayWrite
<1>5. \A pl \in Places, i \in Items : files[pl][i] \in FileOf
  BY TypedParts DEF ClientInv
<1>6. missed' \subseteq (Accounts \cup {Nobody}) \X Items
  <2>1. Stored \subseteq (Accounts \cup {Nobody}) \X Items
    BY <1>5, Basics DEF Stored, FileOf
  <2>2. {<<files[Here][i].of, i>> : i \in h.left} \subseteq (Accounts \cup {Nobody}) \X Items
    BY <1>3, <1>5, Basics DEF FileOf
  <2>3. missed \subseteq (Accounts \cup {Nobody}) \X Items
    BY DEF ClientInv, Typed, ClientTypeOK
  <2> QED BY <1>2, <2>1, <2>2, <2>3
<1>7. marker'.v = h.v /\ marker' \in [v : {1, 2}, pending : BOOLEAN]
  BY <1>2, <1>3
<1>8. Typed'
  BY <1>1, <1>2, <1>6, <1>7 DEF ClientInv, Typed, ClientTypeOK, CommandsOf
<1>9. VersionInv'
  <2>1. marker'.pending => marker'.v = 1
    BY <1>1, <1>2 DEF MayWrite
  <2> QED BY <1>1, <1>2, <1>4, <1>7, <2>1 DEF ClientInv, VersionInv
<1>10. OwnerInv'
  BY <1>2 DEF ClientInv, OwnerInv, Open
<1>11. TodoInv'
  BY <1>1, <1>3, LastWrite
<1>12. CommandInv'
  BY <1>1, <1>3 DEF CommandInv, Switching
<1>13. FilesInv => FilesInv'
  BY <1>1, <1>2, <1>3 DEF FilesInv, HereOf
<1>14. ASSUME MissedInv PROVE MissedInv'
  <2> SUFFICES ASSUME NEW pl \in Places, NEW j \in Items,
                      files[pl][j] # None, files[pl][j].v < h.v
               PROVE  <<files[pl][j].of, j>> \in missed' \/ Shadowed(pl, j)
    BY <1>2, <1>7 DEF MissedInv, Shadowed
  <2>1. CASE h.v = marker.v
    <3>1. ~(h.v > marker.v)
      BY <1>3, <2>1
    <3> QED BY <1>2, <1>14, <2>1, <3>1 DEF MissedInv
  <2>2. CASE h.v # marker.v
    <3>1. h.v = 2 /\ marker.v = 1
      BY <1>3, <1>4, <2>2 DEF ClientInv, VersionInv
    <3>2. files[pl][j].v = 1
      BY <1>5, <3>1 DEF FileOf
    <3>3. CASE pl = Here
      <4>1. j \in h.left /\ h.v > marker.v
        BY <1>4, <2>2, <3>1, <3>3
      <4> QED BY <1>2, <3>3, <4>1
    <3>4. CASE pl \in Accounts
      <4>1. files[pl][j] = [of |-> files[pl][j].of, v |-> 1]
        BY <1>5, <3>2 DEF FileOf
      <4>2. <<files[pl][j].of, j>> \in Stored
        BY <3>4 DEF Stored
      <4> QED BY <1>2, <3>1, <3>4, <4>1, <4>2
    <3> QED BY <3>3, <3>4 DEF Places
  <2> QED BY <2>1, <2>2
<1> QED BY <1>1, <1>8, <1>9, <1>10, <1>11, <1>12, <1>13, <1>14 DEF ClientInv

LEMMA SaveCheckoutStep == ASSUME ClientInv, SaveCheckout PROVE ClientInv'
<1>1. /\ todo # <<>> /\ todo' = Tail(todo) /\ Head(todo) = todo[1]
      /\ Head(todo) \in Writes /\ Head(todo).w = "checkout"
      /\ UNCHANGED <<older, cmd, at, me, journal, torn, deaths>>
      /\ journal = <<>> /\ at \notin Switching /\ JournalInv' /\ MayWrite(1) /\ todo' \in Seq(Writes)
  BY Written DEF SaveCheckout
<1>2. code' = Head(todo).v /\ UNCHANGED <<key, untouched, owner, files, ledger, marker, missed>>
  BY DEF SaveCheckout
<1>3. code' \in {1, 2} /\ me <= code' /\ at = "idle"
  BY <1>1, <1>2, WriteParts, TypedParts DEF MayWrite, ClientInv
<1>4. Typed'
  BY <1>1, <1>2, <1>3 DEF ClientInv, Typed, ClientTypeOK, CommandsOf
<1>5. VersionInv' /\ OwnerInv'
  BY <1>1, <1>2, <1>3 DEF ClientInv, VersionInv, OwnerInv, Open
<1>6. TodoInv'
  <2>1. \A i \in Items : Head(todo) # Migrate(i)
    BY <1>1 DEF Migrate
  <2>2. \A a \in Accounts : HereOf(a) => HereOf(a)'
    BY <1>2 DEF HereOf
  <2> QED BY <1>1, <1>2, <2>1, <2>2, StillToCome
<1>7. CommandInv'
  BY <1>1, <1>3 DEF CommandInv, Switching
<1>8. (FilesInv => FilesInv') /\ (MissedInv => MissedInv')
  BY <1>1, <1>2, <1>3 DEF FilesInv, HereOf, MissedInv, Shadowed
<1> QED BY <1>1, <1>4, <1>5, <1>6, <1>7, <1>8 DEF ClientInv

-----------------------------------------------------------------------------
(* A switch.                                                                 *)

LEMMA SwitchingParts ==
    ASSUME ClientInv, at \in Switching
    PROVE  /\ todo = <<>> /\ ~Open /\ owner.ref \in Accounts /\ Mine \in Accounts
           /\ owner.ref # Nobody /\ Mine # Nobody /\ Mine # owner.ref
           /\ owner.ref # Here /\ Mine # Here
  BY TypedParts, Basics DEF ClientInv, CommandInv

\* A step of a switch moves a file or changes the direction.
LEMMA SwitchStep ==
    ASSUME ClientInv, at \in Switching, at' \in Switching, Switch, UNCHANGED <<cmd, owner, untouched>>,
           files' \in [Places -> [Items -> FileOf]], journal' \in Seq(Moves),
           VersionInv', JournalInv',
           FilesInv => FilesInv', FilesInv /\ MissedInv => MissedInv'
    PROVE  ClientInv'
<1>1. /\ todo = <<>>
      /\ UNCHANGED <<key, ledger, marker, code, older, me, todo, torn, missed, deaths, cmd, owner, untouched>>
  BY DEF Switch
<1>2. cmd' \in CommandsOf
  BY <1>1 DEF ClientInv, Typed
<1>3. ClientTypeOK'
  BY <1>1 DEF ClientInv, Typed, ClientTypeOK, Moves
<1>4. OwnerInv'
  BY <1>1 DEF ClientInv, OwnerInv, Open
<1>5. TodoInv'
  BY <1>1 DEF TodoInv
<1>6. CommandInv'
  BY <1>1, SwitchingParts DEF CommandInv, Switching, Mine, Open
<1> QED BY <1>1, <1>2, <1>3, <1>4, <1>5, <1>6 DEF ClientInv, Typed

\* One file is moved.
LEMMA MovedFile ==
    ASSUME ClientInv, NEW s \in Places, NEW d \in Places, s # d, NEW i \in Items,
           files' = Moved(s, d, i), UNCHANGED <<marker, me, code>>
    PROVE  /\ files' \in [Places -> [Items -> FileOf]] /\ VersionInv'
           /\ files'[d][i] = files[s][i] /\ files'[s][i] = None
           /\ \A pl \in Places, j \in Items :
                 j # i \/ (pl # s /\ pl # d) => files'[pl][j] = files[pl][j]
<1>1. files \in [Places -> [Items -> FileOf]]
  BY Kinds DEF ClientInv
<1>2. files' = [files EXCEPT ![d][i] = files[s][i], ![s][i] = None]
  BY DEF Moved
<1>3. /\ files'[d][i] = files[s][i] /\ files'[s][i] = None
      /\ \A pl \in Places, j \in Items :
            j # i \/ (pl # s /\ pl # d) => files'[pl][j] = files[pl][j]
  <2>1. /\ files'[d] = [files[d] EXCEPT ![i] = files[s][i]] /\ files'[s] = [files[s] EXCEPT ![i] = None]
        /\ \A pl \in Places : pl # s /\ pl # d => files'[pl] = files[pl]
    BY <1>1, <1>2
  <2>2. \A pl \in Places : files[pl] \in [Items -> FileOf]
    BY <1>1
  <2>3. files'[d][i] = files[s][i] /\ files'[s][i] = None
    BY <2>1, <2>2
  <2>4. ASSUME NEW pl \in Places, NEW j \in Items, j # i \/ (pl # s /\ pl # d)
        PROVE  files'[pl][j] = files[pl][j]
    <3>1. CASE pl # s /\ pl # d
      BY <2>1, <3>1
    <3>2. ASSUME pl = s, j # i PROVE files'[s][j] = files[s][j]
      BY <2>1, <2>2, <3>2
    <3>3. ASSUME pl = d, j # i PROVE files'[d][j] = files[d][j]
      BY <2>1, <2>2, <3>3
    <3> QED BY <2>4, <3>1, <3>2, <3>3
  <2> QED BY <2>3, <2>4
<1>4. files' \in [Places -> [Items -> FileOf]]
  <2> DEFINE g == [files EXCEPT ![d][i] = files[s][i]]
  <2>1. files[s][i] \in FileOf /\ None \in FileOf
    BY <1>1, Basics
  <2>2. g \in [Places -> [Items -> FileOf]]
    BY <1>1, <2>1
  <2>3. files' = [g EXCEPT ![s][i] = None]
    BY <1>2
  <2> HIDE DEF g
  <2> QED BY <2>1, <2>2, <2>3
<1>5. VersionInv'
  <2> SUFFICES ASSUME NEW pl \in Places, NEW j \in Items
               PROVE  /\ files'[pl][j].v <= me \/ files'[pl][j] = None
                      /\ files'[pl][j].of = Nobody => files'[pl][j] = None
    BY DEF ClientInv, VersionInv
  <2>1. CASE j = i /\ pl = d
    BY <1>3, <2>1 DEF ClientInv, VersionInv
  <2>2. CASE j = i /\ pl = s
    BY <1>3, <2>2
  <2>3. CASE j # i \/ (pl # s /\ pl # d)
    BY <1>3, <2>3 DEF ClientInv, VersionInv
  <2> QED BY <2>1, <2>2, <2>3
<1> QED BY <1>3, <1>4, <1>5

LEMMA MovesAre ==
    ASSUME ClientInv, NEW k \in 1..Len(journal)
    PROVE  journal[k] \in Moves /\ journal[k].i \in Items
<1>1. journal \in Seq(Moves)
  BY Kinds DEF ClientInv
<1>2. journal[k] \in Moves
  BY <1>1, ElementOfSeq
<1> QED BY <1>2 DEF Moves

LEMMA Pushed ==
    ASSUME ClientInv, NEW m \in Moves, journal' = Journaled(m)
    PROVE  /\ journal' \in Seq(Moves) /\ journal'[1] = m /\ Len(journal) \in Nat
           /\ Len(journal') = Len(journal) + 1
           /\ \A k \in 1..Len(journal') : k = 1 \/ (k - 1 \in 1..Len(journal) /\ journal'[k] = journal[k - 1])
           /\ \A k \in 1..Len(journal) : k + 1 \in 1..Len(journal') /\ journal'[k + 1] = journal[k]
<1>1. journal \in Seq(Moves)
  BY Kinds DEF ClientInv
<1> DEFINE s == <<m>>
<1>2. s \in Seq(Moves) /\ Len(s) = 1 /\ s[1] = m /\ journal' = s \o journal
  BY DEF Journaled
<1> HIDE DEF s
<1>3. /\ journal' \in Seq(Moves) /\ Len(journal') = Len(s) + Len(journal)
      /\ \A k \in 1..(Len(s) + Len(journal)) :
            journal'[k] = IF k <= Len(s) THEN s[k] ELSE journal[k - Len(s)]
  BY <1>1, <1>2, ConcatProperties
<1>4. Len(journal) \in Nat
  BY <1>1, LenProperties
<1>5. journal'[1] = m
  BY <1>2, <1>3, <1>4
<1>6. ASSUME NEW k \in 1..Len(journal'), k # 1
      PROVE  k - 1 \in 1..Len(journal) /\ journal'[k] = journal[k - 1]
  BY <1>2, <1>3, <1>4, <1>6
<1>7. ASSUME NEW k \in 1..Len(journal)
      PROVE  k + 1 \in 1..Len(journal') /\ journal'[k + 1] = journal[k]
  <2>1. /\ k \in Nat /\ k + 1 \in 1..(Len(s) + Len(journal)) /\ ~(k + 1 <= Len(s))
        /\ (k + 1) - Len(s) = k
    BY <1>2, <1>4
  <2> QED BY <1>3, <2>1
<1> QED BY <1>2, <1>3, <1>4, <1>5, <1>6, <1>7

LEMMA Popped ==
    ASSUME ClientInv, journal # <<>>, journal' = Tail(journal)
    PROVE  /\ Head(journal) = journal[1] /\ journal[1] \in Moves /\ 1 \in 1..Len(journal)
           /\ journal' \in Seq(Moves) /\ Len(journal) \in Nat /\ Len(journal') = Len(journal) - 1
           /\ \A k \in 1..Len(journal') : journal'[k] = journal[k + 1] /\ k + 1 \in 1..Len(journal)
           /\ \A k \in 1..Len(journal) : k = 1 \/ (k - 1 \in 1..Len(journal') /\ journal'[k - 1] = journal[k])
<1>1. journal \in Seq(Moves)
  BY Kinds DEF ClientInv
<1>2. /\ Head(journal) = journal[1] /\ journal[1] \in Moves
      /\ journal' \in Seq(Moves) /\ Len(journal') = Len(journal) - 1
      /\ \A k \in 1..Len(journal') : journal'[k] = journal[k + 1]
  BY <1>1, HeadTailProperties, ElementOfSeq
<1>3. Len(journal) \in Nat /\ Len(journal) # 0
  BY <1>1, LenProperties, EmptySeq
<1>4. 1 \in 1..Len(journal)
  BY <1>3
<1>5. ASSUME NEW k \in 1..Len(journal') PROVE k + 1 \in 1..Len(journal)
  BY <1>2, <1>3
<1>6. ASSUME NEW k \in 1..Len(journal), k # 1
      PROVE  k - 1 \in 1..Len(journal') /\ journal'[k - 1] = journal[k]
  <2>1. k - 1 \in 1..Len(journal') /\ (k - 1) + 1 = k
    BY <1>2, <1>3, <1>6
  <2> QED BY <1>2, <2>1
<1> QED BY <1>2, <1>3, <1>4, <1>5, <1>6

\* Nothing has come back before the files have been put aside.
LEMMA NothingBackYet ==
    ASSUME ClientInv, at = "out"
    PROVE  \A k \in 1..Len(journal) : journal[k].d # Here
  BY DEF ClientInv, JournalInv

\* The direction of a switch changes and nothing is moved.
LEMMA TurnStep ==
    ASSUME ClientInv, at \in {"out", "in"}, at' \in {"in", "undo"},
           at' = "in" => at = "out" /\ NoFiles(Here),
           Switch, UNCHANGED <<cmd, owner, untouched, files, journal>>
    PROVE  ClientInv'
<1>1. at \in Switching /\ at' \in Switching
  BY DEF Switching
<1>2. UNCHANGED <<key, marker, me, code, missed>> /\ Mine' = Mine
  BY DEF Switch, Mine
<1>3. files' \in [Places -> [Items -> FileOf]] /\ journal' \in Seq(Moves)
  BY Kinds DEF ClientInv
<1>4. VersionInv'
  BY <1>2 DEF ClientInv, VersionInv
<1>5. JournalInv'
  BY <1>2 DEF ClientInv, JournalInv
<1>6. ASSUME FilesInv PROVE FilesInv'
  <2>1. at = "out" => \A i \in Items : ~CameBack(i)
    BY NothingBackYet DEF CameBack
  <2>2. ASSUME NEW i \in Items
        PROVE  IF CameBack(i)' THEN files'[Here][i].of = Mine'
               ELSE files'[Here][i].of \in {Nobody, IF at' = "in" THEN Nobody ELSE owner'.ref}
    <3>1. CameBack(i)' = CameBack(i)
      BY <1>2 DEF CameBack
    <3>2. CASE at = "out"
      <4>1. ~CameBack(i) /\ files[Here][i].of \in {Nobody, owner.ref}
        BY <1>1, <1>6, <2>1, <3>2, SwitchingParts DEF FilesInv, HereOf
      <4>2. at' = "in" => files[Here][i].of = Nobody
        BY Basics DEF NoFiles
      <4> QED BY <1>2, <3>1, <4>1, <4>2
    <3>3. CASE at = "in"
      BY <1>2, <1>6, <3>1, <3>3 DEF FilesInv
    <3> QED BY <3>2, <3>3
  <2>3. \A a \in Accounts, i \in Items : files'[a][i].of \in {Nobody, a}
    BY <1>6 DEF FilesInv
  <2> QED BY <2>2, <2>3 DEF FilesInv
<1>7. MissedInv => MissedInv'
  BY <1>2 DEF MissedInv, Shadowed
<1> QED BY <1>1, <1>3, <1>4, <1>5, <1>6, <1>7, SwitchStep

LEMMA SwitchFailsStep == ASSUME ClientInv, SwitchFails \/ TurnRound PROVE ClientInv'
<1>1. CASE SwitchFails
  BY <1>1, TurnStep DEF SwitchFails
<1>2. CASE TurnRound
  BY <1>2, TurnStep DEF TurnRound
<1> QED BY <1>1, <1>2

LEMMA PutAsideStep == ASSUME ClientInv, PutAside PROVE ClientInv'
<1>1. at = "out" /\ at \in Switching /\ Switch /\ UNCHANGED <<cmd, owner, untouched>>
  BY DEF PutAside, MoveFiles, Switching
<1>2. UNCHANGED <<key, marker, me, code, missed>> /\ Mine' = Mine
  BY <1>1 DEF Switch, Mine
<1>3. PICK i \in Items :
         /\ files[Here][i] # None
         /\ IF Taken(owner.ref, i)
            THEN at' = "undo" /\ UNCHANGED <<files, journal>>
            ELSE /\ files' = Moved(Here, owner.ref, i)
                 /\ journal' = Journaled([s |-> Here, d |-> owner.ref, i |-> i])
                 /\ UNCHANGED at
  BY DEF PutAside, MoveFiles, IsNextFile
<1>4. CASE Taken(owner.ref, i)
  BY <1>1, <1>3, <1>4, TurnStep
<1>5. CASE ~Taken(owner.ref, i)
  <2>1. PICK o \in Accounts : o = owner.ref /\ o # Nobody /\ o # Here
    BY <1>1, SwitchingParts
  <2>2. PICK m \in Moves : m = [s |-> Here, d |-> o, i |-> i]
    BY <2>1, Basics DEF Moves
  <2>3. m.s = Here /\ m.d = o /\ m.i = i /\ Here \in Places /\ o \in Places /\ Here # o
    BY <2>1, <2>2, Basics
  <2>4. files[o][i] = None /\ files' = Moved(Here, o, i) /\ journal' = Journaled(m) /\ at' = "out" /\ owner'.ref = o
    BY <1>1, <1>3, <1>5, <2>1, <2>2 DEF Taken
  <2>5. /\ files' \in [Places -> [Items -> FileOf]] /\ VersionInv'
        /\ files'[o][i] = files[Here][i] /\ files'[Here][i] = None
        /\ \A pl \in Places, j \in Items :
              j # i \/ (pl # Here /\ pl # o) => files'[pl][j] = files[pl][j]
    BY <1>2, <2>3, <2>4, MovedFile
  <2>6. /\ journal' \in Seq(Moves) /\ journal'[1] = m /\ Len(journal) \in Nat
        /\ Len(journal') = Len(journal) + 1
        /\ \A k \in 1..Len(journal') : k = 1 \/ (k - 1 \in 1..Len(journal) /\ journal'[k] = journal[k - 1])
        /\ \A k \in 1..Len(journal) : k + 1 \in 1..Len(journal') /\ journal'[k + 1] = journal[k]
    BY <2>4, Pushed
  \* So far every move is one to the snapshot, of another file.
  <2>7. ASSUME NEW k \in 1..Len(journal)
        PROVE  /\ journal[k].d # Here /\ journal[k].s = Here /\ journal[k].d = o /\ journal[k].i \in Items
               /\ journal[k].i # i /\ files[o][journal[k].i] # None /\ files[Here][journal[k].i] = None
               /\ \A j \in 1..(k - 1) : journal[j].i # journal[k].i
    <3>1. journal[k].i \in Items
      BY MovesAre
    <3>2. \A j \in 1..(k - 1) : j \in 1..Len(journal) /\ journal[j].d # Here
      <4>1. Len(journal) \in Nat
        BY <2>6
      <4>2. \A j \in 1..(k - 1) : j \in 1..Len(journal)
        BY <4>1, Earlier
      <4> QED BY <1>1, <4>2, NothingBackYet
    <3>3. \A j \in 1..(k - 1) : journal[j] # [s |-> Mine, d |-> Here, i |-> journal[k].i]
      BY <3>2
    <3>4. journal[k].d # Here
      BY <1>1, NothingBackYet
    <3> QED BY <2>1, <2>4, <3>1, <3>2, <3>3, <3>4 DEF ClientInv, JournalInv
  <2>8. JournalInv'
    <3> SUFFICES ASSUME NEW k \in 1..Len(journal')
                 PROVE  /\ journal'[k].d # Here /\ journal'[k].s = Here /\ journal'[k].d = o
                        /\ files'[o][journal'[k].i] # None /\ files'[Here][journal'[k].i] = None
                        /\ \A j \in 1..(k - 1) : journal'[j].i # journal'[k].i
      BY <2>4 DEF JournalInv
    <3>1. CASE k = 1
      <4>1. \A j \in 1..(k - 1) : FALSE
        BY <3>1
      <4> QED BY <1>3, <2>3, <2>5, <2>6, <3>1, <4>1
    <3>2. CASE k # 1
      <4>1. PICK l \in 1..Len(journal) : l = k - 1 /\ journal'[k] = journal[l]
        BY <2>6, <3>2
      <4>2. \A j \in 1..(k - 1) : journal'[j].i # journal[l].i
        <5> SUFFICES ASSUME NEW j \in 1..(k - 1) PROVE journal'[j].i # journal[l].i
          OBVIOUS
        <5>1. CASE j = 1
          BY <2>3, <2>6, <2>7, <5>1
        <5>2. CASE j # 1
          <6>1. j \in 1..Len(journal') /\ j - 1 \in 1..(l - 1)
            BY <2>6, <4>1, <5>2
          <6>2. journal'[j] = journal[j - 1]
            BY <2>6, <5>2, <6>1
          <6> QED BY <2>7, <6>1, <6>2
        <5> QED BY <5>1, <5>2
      <4>3. files'[o][journal[l].i] = files[o][journal[l].i] /\ files'[Here][journal[l].i] = files[Here][journal[l].i]
        BY <2>3, <2>5, <2>7
      <4> QED BY <2>7, <4>1, <4>2, <4>3
    <3> QED BY <3>1, <3>2
  <2>9. ASSUME FilesInv PROVE FilesInv'
    <3>1. HereOf(o)
      BY <1>1, <2>1, <2>9 DEF FilesInv
    <3>2. \A j \in Items : files'[Here][j].of \in {Nobody, o}
      BY <2>3, <2>5, <3>1, Basics DEF HereOf
    <3>3. ASSUME NEW a \in Accounts, NEW j \in Items PROVE files'[a][j].of \in {Nobody, a}
      <4>1. CASE j = i /\ a = o
        BY <2>5, <3>1, <4>1 DEF HereOf
      <4>2. CASE ~(j = i /\ a = o)
        <5>1. files'[a][j] = files[a][j]
          BY <2>5, <4>2, Basics
        <5> QED BY <2>9, <5>1 DEF FilesInv
      <4> QED BY <4>1, <4>2
    <3> QED BY <2>4, <3>2, <3>3 DEF FilesInv, HereOf
  <2>10. ASSUME MissedInv PROVE MissedInv'
    <3> SUFFICES ASSUME NEW pl \in Places, NEW j \in Items,
                        files'[pl][j] # None, files'[pl][j].v < marker.v
                 PROVE  <<files'[pl][j].of, j>> \in missed \/ Shadowed(pl, j)'
      BY <1>2 DEF MissedInv
    <3>1. CASE j = i
      <4>1. pl # Here
        BY <2>5, <3>1
      <4>2. CASE pl = o
        <5>1. ~Shadowed(Here, i)
          BY <2>1 DEF Shadowed
        <5> QED BY <2>3, <2>5, <2>10, <3>1, <4>2, <5>1 DEF MissedInv
      <4>3. CASE pl # o
        <5>1. ~Shadowed(pl, j) /\ files'[pl][j] = files[pl][j]
          BY <2>1, <2>5, <4>1, <4>3 DEF Shadowed
        <5> QED BY <2>10, <5>1 DEF MissedInv
      <4> QED BY <4>2, <4>3
    <3>2. CASE j # i
      <4>1. files'[pl][j] = files[pl][j] /\ files'[Here][j] = files[Here][j]
        BY <2>3, <2>5, <3>2
      <4> QED BY <1>1, <2>10, <4>1 DEF MissedInv, Shadowed
    <3> QED BY <3>1, <3>2
  <2>11. at' \in Switching
    BY <2>4 DEF Switching
  <2> QED BY <1>1, <2>5, <2>6, <2>8, <2>9, <2>10, <2>11, SwitchStep
<1> QED BY <1>4, <1>5

LEMMA BringBackStep == ASSUME ClientInv, BringBack PROVE ClientInv'
<1>1. at = "in" /\ at \in Switching /\ Switch /\ UNCHANGED <<cmd, owner, untouched>>
  BY DEF BringBack, MoveFiles, Switching
<1>2. UNCHANGED <<key, marker, me, code, missed>> /\ Mine' = Mine
  BY <1>1 DEF Switch, Mine
<1>3. PICK i \in Items :
         /\ files[Mine][i] # None
         /\ IF Taken(Here, i)
            THEN at' = "undo" /\ UNCHANGED <<files, journal>>
            ELSE /\ files' = Moved(Mine, Here, i)
                 /\ journal' = Journaled([s |-> Mine, d |-> Here, i |-> i])
                 /\ UNCHANGED at
  BY DEF BringBack, MoveFiles, IsNextFile
<1>4. CASE Taken(Here, i)
  BY <1>1, <1>3, <1>4, TurnStep
<1>5. CASE ~Taken(Here, i)
  <2>1. PICK o \in Accounts, a \in Accounts : o = owner.ref /\ a = Mine /\ o # a /\ o # Here /\ a # Here
    BY <1>1, SwitchingParts
  <2>2. PICK m \in Moves : m = [s |-> a, d |-> Here, i |-> i]
    BY <2>1, Basics DEF Moves
  <2>3. /\ m.s = a /\ m.d = Here /\ m.i = i
        /\ Here \in Places /\ a \in Places /\ o \in Places /\ a # Here /\ o # Here /\ o # a
    BY <2>1, <2>2, Basics
  <2>4. /\ files[Here][i] = None /\ files[a][i] # None
        /\ files' = Moved(a, Here, i) /\ journal' = Journaled(m)
        /\ at' = "in" /\ owner'.ref = o /\ Mine' = a
    BY <1>1, <1>2, <1>3, <1>5, <2>1, <2>2 DEF Taken
  <2>5. /\ files' \in [Places -> [Items -> FileOf]] /\ VersionInv'
        /\ files'[Here][i] = files[a][i] /\ files'[a][i] = None
        /\ \A pl \in Places, j \in Items :
              j # i \/ (pl # a /\ pl # Here) => files'[pl][j] = files[pl][j]
    BY <1>2, <2>3, <2>4, MovedFile
  <2>6. /\ journal' \in Seq(Moves) /\ journal'[1] = m /\ Len(journal) \in Nat
        /\ Len(journal') = Len(journal) + 1
        /\ \A k \in 1..Len(journal') : k = 1 \/ (k - 1 \in 1..Len(journal) /\ journal'[k] = journal[k - 1])
        /\ \A k \in 1..Len(journal) : k + 1 \in 1..Len(journal') /\ journal'[k + 1] = journal[k]
    BY <2>4, Pushed
  <2>7. JournalInv'
    <3> SUFFICES ASSUME NEW k \in 1..Len(journal')
                 PROVE  /\ IF journal'[k].d = Here
                           THEN /\ journal'[k].s = a
                                /\ files'[Here][journal'[k].i] # None /\ files'[a][journal'[k].i] = None
                           ELSE /\ journal'[k].s = Here /\ journal'[k].d = o
                                /\ files'[o][journal'[k].i] # None
                                /\ files'[Here][journal'[k].i] = None
                                   \/ \E j \in 1..(k - 1) :
                                         journal'[j] = [s |-> a, d |-> Here, i |-> journal'[k].i]
                        /\ \A j \in 1..(k - 1) : journal'[j].i # journal'[k].i
                                                 \/ (journal'[j].d = Here /\ journal'[k].d # Here)
      BY <2>4 DEF JournalInv
    <3>1. CASE k = 1
      <4>1. \A j \in 1..(k - 1) : FALSE
        BY <3>1
      <4> QED BY <2>3, <2>4, <2>5, <2>6, <3>1, <4>1
    <3>2. CASE k # 1
      <4>1. PICK l \in 1..Len(journal) : l = k - 1 /\ journal'[k] = journal[l]
        BY <2>6, <3>2
      <4>2. PICK n \in Moves : n = journal[l] /\ n.i \in Items
        BY MovesAre
      <4>3. /\ IF n.d = Here
               THEN n.s = a /\ files[Here][n.i] # None /\ files[a][n.i] = None
               ELSE /\ n.s = Here /\ n.d = o /\ files[o][n.i] # None
                    /\ files[Here][n.i] = None
                       \/ \E j \in 1..(l - 1) : journal[j] = [s |-> a, d |-> Here, i |-> n.i]
            /\ \A j \in 1..(l - 1) : journal[j].i # n.i \/ (journal[j].d = Here /\ n.d # Here)
        BY <2>1, <4>2 DEF ClientInv, JournalInv
      <4>4. n.d = Here => n.i # i
        BY <2>4, <4>3
      <4>5. files'[o][n.i] = files[o][n.i]
        BY <2>3, <2>5, <4>2
      <4>6. n.i # i => files'[Here][n.i] = files[Here][n.i] /\ files'[a][n.i] = files[a][n.i]
        BY <2>3, <2>5, <4>2
      <4>7. ASSUME NEW j \in 1..(l - 1)
            PROVE  j + 1 \in 1..(k - 1) /\ journal'[j + 1] = journal[j]
        BY <2>6, <4>1
      <4>8. 1 \in 1..(k - 1)
        BY <2>6, <4>1
      <4>9. n.d # Here => files'[Here][n.i] = None
                          \/ \E j \in 1..(k - 1) : journal'[j] = [s |-> a, d |-> Here, i |-> n.i]
        <5> SUFFICES ASSUME n.d # Here
                     PROVE  files'[Here][n.i] = None
                            \/ \E j \in 1..(k - 1) : journal'[j] = [s |-> a, d |-> Here, i |-> n.i]
          OBVIOUS
        <5>1. CASE n.i = i
          BY <2>2, <2>6, <4>8, <5>1
        <5>2. CASE n.i # i /\ files[Here][n.i] = None
          BY <4>6, <5>2
        <5>3. CASE \E j \in 1..(l - 1) : journal[j] = [s |-> a, d |-> Here, i |-> n.i]
          <6>1. PICK j \in 1..(l - 1) : journal[j] = [s |-> a, d |-> Here, i |-> n.i]
            BY <5>3
          <6> QED BY <4>7, <6>1
        <5> QED BY <4>3, <5>1, <5>2, <5>3
      <4>10. \A j \in 1..(k - 1) : journal'[j].i # n.i \/ (journal'[j].d = Here /\ n.d # Here)
        <5> SUFFICES ASSUME NEW j \in 1..(k - 1)
                     PROVE  journal'[j].i # n.i \/ (journal'[j].d = Here /\ n.d # Here)
          OBVIOUS
        <5>1. CASE j = 1
          BY <2>3, <2>6, <4>4, <5>1
        <5>2. CASE j # 1
          <6>1. j \in 1..Len(journal') /\ j - 1 \in 1..(l - 1)
            BY <2>6, <4>1, <5>2
          <6>2. journal'[j] = journal[j - 1]
            BY <2>6, <5>2, <6>1
          <6> QED BY <4>3, <6>1, <6>2
        <5> QED BY <5>1, <5>2
      <4>11. n.d = Here => files'[Here][n.i] # None /\ files'[a][n.i] = None
        BY <4>3, <4>4, <4>6
      <4>12. n.d # Here => files'[o][n.i] # None
        BY <4>3, <4>5
      <4>13. journal'[k] = n
        BY <4>1, <4>2
      <4> QED BY <4>3, <4>9, <4>10, <4>11, <4>12, <4>13
    <3> QED BY <3>1, <3>2
  <2>8. ASSUME FilesInv PROVE FilesInv'
    <3>1. files[a][i].of = a
      <4>1. files[a][i].of # Nobody
        BY <2>3, <2>4 DEF ClientInv, VersionInv
      <4> QED BY <2>8, <4>1 DEF FilesInv
    <3>2. CameBack(i)'
      <4>1. 1 \in 1..Len(journal')
        BY <2>6
      <4> QED BY <2>2, <2>4, <2>6, <4>1 DEF CameBack
    <3>3. ASSUME NEW j \in Items, j # i PROVE CameBack(j)' <=> CameBack(j)
      <4>1. ASSUME CameBack(j)' PROVE CameBack(j)
        <5>1. PICK k \in 1..Len(journal') : journal'[k] = [s |-> a, d |-> Here, i |-> j]
          BY <2>4, <4>1 DEF CameBack
        <5>2. k # 1
          BY <2>3, <2>6, <3>3, <5>1
        <5>3. k - 1 \in 1..Len(journal) /\ journal[k - 1] = [s |-> a, d |-> Here, i |-> j]
          BY <2>6, <5>1, <5>2
        <5> QED BY <2>1, <5>3 DEF CameBack
      <4>2. ASSUME CameBack(j) PROVE CameBack(j)'
        <5>1. PICK k \in 1..Len(journal) : journal[k] = [s |-> a, d |-> Here, i |-> j]
          BY <2>1, <4>2 DEF CameBack
        <5>2. k + 1 \in 1..Len(journal') /\ journal'[k + 1] = [s |-> a, d |-> Here, i |-> j]
          BY <2>6, <5>1
        <5> QED BY <2>4, <5>2 DEF CameBack
      <4> QED BY <4>1, <4>2
    <3>4. ASSUME NEW j \in Items
          PROVE  IF CameBack(j)' THEN files'[Here][j].of = a ELSE files'[Here][j].of = Nobody
      <4>1. CASE j = i
        BY <2>5, <3>1, <3>2, <4>1
      <4>2. CASE j # i
        <5>1. files'[Here][j] = files[Here][j]
          BY <2>3, <2>5, <4>2
        <5> QED BY <1>1, <2>1, <2>8, <3>3, <4>2, <5>1 DEF FilesInv
      <4> QED BY <4>1, <4>2
    <3>5. ASSUME NEW b \in Accounts, NEW j \in Items PROVE files'[b][j].of \in {Nobody, b}
      <4>1. CASE j = i /\ b = a
        BY <2>5, <4>1, Basics
      <4>2. CASE ~(j = i /\ b = a)
        <5>1. files'[b][j] = files[b][j]
          BY <2>5, <4>2, Basics
        <5> QED BY <2>8, <5>1 DEF FilesInv
      <4> QED BY <4>1, <4>2
    <3> QED BY <2>4, <3>4, <3>5 DEF FilesInv
  <2>9. ASSUME MissedInv PROVE MissedInv'
    <3> SUFFICES ASSUME NEW pl \in Places, NEW j \in Items,
                        files'[pl][j] # None, files'[pl][j].v < marker.v
                 PROVE  <<files'[pl][j].of, j>> \in missed \/ Shadowed(pl, j)'
      BY <1>2 DEF MissedInv
    <3>1. CASE j = i /\ pl = Here
      <4>1. ~Shadowed(a, i)
        BY <2>1 DEF Shadowed
      <4> QED BY <2>3, <2>5, <2>9, <3>1, <4>1 DEF MissedInv
    <3>2. CASE ~(j = i /\ pl = Here)
      <4>1. ~(j = i /\ pl = a)
        BY <2>5
      <4>2. files'[pl][j] = files[pl][j]
        BY <2>5, <3>2, <4>1
      <4>3. CASE Shadowed(pl, j)
        <5>1. j # i
          BY <2>4, <4>3 DEF Shadowed
        <5>2. files'[Here][j] = files[Here][j]
          BY <2>3, <2>5, <5>1
        <5> QED BY <1>1, <4>3, <5>2 DEF Shadowed
      <4> QED BY <2>9, <4>2, <4>3 DEF MissedInv
    <3> QED BY <3>1, <3>2
  <2>10. at' \in Switching
    BY <2>4 DEF Switching
  <2> QED BY <1>1, <2>5, <2>6, <2>7, <2>8, <2>9, <2>10, SwitchStep
<1> QED BY <1>4, <1>5

LEMMA RebindStep == ASSUME ClientInv, Rebind PROVE ClientInv'
<1>1. /\ at = "in" /\ at \in Switching /\ todo = <<>>
      /\ owner' = [ref |-> Mine, proof |-> Mine] /\ untouched' = TRUE
      /\ at' = "idle" /\ cmd' = NoCmd /\ journal' = <<>>
      /\ UNCHANGED <<key, ledger, marker, code, older, me, todo, torn, missed, deaths, files>>
  BY DEF Rebind, Switch, Switching
<1>2. Mine \in Accounts /\ Mine # Nobody /\ ~Open
  BY <1>1, SwitchingParts
<1>3. owner'.ref = Mine /\ owner'.proof = Mine
  BY <1>1
<1>4. owner' \in [ref : Accounts \cup {Nobody}, proof : Accounts \cup {Nobody}] /\ cmd' \in CommandsOf
  BY <1>1, <1>2, Basics
<1>5. ClientTypeOK'
  BY <1>1, <1>4 DEF ClientInv, Typed, ClientTypeOK, CommandsOf
<1>6. VersionInv'
  BY <1>1 DEF ClientInv, VersionInv
<1>7. OwnerInv'
  BY <1>1, <1>2, <1>3 DEF OwnerInv, Open
<1>8. TodoInv' /\ CommandInv' /\ JournalInv'
  BY <1>1 DEF TodoInv, CommandInv, JournalInv, Switching
<1>9. ASSUME FilesInv PROVE FilesInv'
  <2>1. HereOf(Mine)
    BY <1>1, <1>9 DEF FilesInv, HereOf
  <2>2. \A i \in Items : files'[Here][i].of \in {Nobody, owner'.ref}
    BY <1>1, <1>3, <2>1 DEF HereOf
  <2>3. \A a \in Accounts, i \in Items : files'[a][i].of \in {Nobody, a}
    BY <1>1, <1>9 DEF FilesInv
  <2> QED BY <1>1, <2>2, <2>3 DEF FilesInv, HereOf
<1>10. ASSUME FilesInv, MissedInv PROVE MissedInv'
  <2>1. \A i \in Items : files[Here][i].of \in {Nobody, Mine}
    BY <1>1, <1>10 DEF FilesInv
  <2>2. \A pl \in Places, i \in Items : ~Shadowed(pl, i)
    BY <1>1, <2>1, SwitchingParts DEF Shadowed
  <2> QED BY <1>1, <1>10, <2>2 DEF MissedInv
<1> QED BY <1>1, <1>4, <1>5, <1>6, <1>7, <1>8, <1>9, <1>10 DEF ClientInv, Typed

\* The move that is undone next can be undone.
LEMMA NextUndoable ==
    ASSUME ClientInv, at = "undo", journal # <<>>
    PROVE  Undoable(Head(journal))
<1>1. journal \in Seq(Moves)
  BY Kinds DEF ClientInv
<1>2. Head(journal) = journal[1] /\ Len(journal) \in Nat /\ Len(journal) # 0
  BY <1>1, HeadTailProperties, EmptySeq, LenProperties
<1>3. 1 \in 1..Len(journal)
  BY <1>2
<1>4. \A j \in 1..(1 - 1) : FALSE
  OBVIOUS
<1>5. /\ IF journal[1].d = Here
         THEN /\ journal[1].s = Mine
              /\ files[Here][journal[1].i] # None /\ files[Mine][journal[1].i] = None
         ELSE /\ journal[1].s = Here /\ journal[1].d = owner.ref
              /\ files[owner.ref][journal[1].i] # None /\ files[Here][journal[1].i] = None
  BY <1>3, <1>4 DEF ClientInv, JournalInv
<1> QED BY <1>2, <1>5 DEF Undoable

\* What is left of the journal when its last move is undone.
LEMMA UndoMoveStep == ASSUME ClientInv, UndoMove PROVE ClientInv'
<1>1. /\ at = "undo" /\ at \in Switching /\ journal # <<>> /\ journal' = Tail(journal)
      /\ Switch /\ UNCHANGED <<at, cmd, owner, untouched>>
      /\ files' = IF Undoable(Head(journal))
                  THEN Moved(Head(journal).d, Head(journal).s, Head(journal).i) ELSE files
  BY DEF UndoMove, Switching
<1>2. UNCHANGED <<key, marker, me, code, missed>> /\ Mine' = Mine
  BY <1>1 DEF Switch, Mine
<1>3. PICK o \in Accounts, a \in Accounts :
         /\ o = owner.ref /\ a = Mine /\ o # a /\ o # Here /\ a # Here /\ o # Nobody /\ a # Nobody
         /\ owner'.ref = o /\ Mine' = a
  BY <1>1, <1>2, SwitchingParts
<1>4. /\ Head(journal) = journal[1] /\ journal[1] \in Moves /\ 1 \in 1..Len(journal)
      /\ journal' \in Seq(Moves) /\ Len(journal) \in Nat /\ Len(journal') = Len(journal) - 1
      /\ \A k \in 1..Len(journal') : journal'[k] = journal[k + 1] /\ k + 1 \in 1..Len(journal)
      /\ \A k \in 1..Len(journal) : k = 1 \/ (k - 1 \in 1..Len(journal') /\ journal'[k - 1] = journal[k])
  BY <1>1, Popped
<1>5. PICK m \in Moves : m = journal[1] /\ m.i \in Items
  BY <1>4, MovesAre
<1>6. PICK i \in Items : i = m.i
  BY <1>5
<1>7. Here \in Places /\ a \in Places /\ o \in Places
  BY <1>3, Basics
\* The moves that are left.
<1>8. ASSUME NEW k \in 1..Len(journal'), NEW n, n = journal'[k]
      PROVE  /\ n.i \in Items
             /\ IF n.d = Here
                THEN n.s = a /\ files[Here][n.i] # None /\ files[a][n.i] = None
                ELSE /\ n.s = Here /\ n.d = o /\ files[o][n.i] # None
                     /\ files[Here][n.i] = None
                        \/ (m.d = Here /\ n.i = i)
                        \/ \E j \in 1..(k - 1) : journal'[j] = [s |-> a, d |-> Here, i |-> n.i]
             /\ n.i # i \/ (m.d = Here /\ n.d # Here)
             /\ \A j \in 1..(k - 1) : journal'[j].i # n.i \/ (journal'[j].d = Here /\ n.d # Here)
  <2>1. n = journal[k + 1] /\ k + 1 \in 1..Len(journal) /\ n.i \in Items
    BY <1>4, <1>8, MovesAre
  <2>2. /\ IF n.d = Here
           THEN n.s = a /\ files[Here][n.i] # None /\ files[a][n.i] = None
           ELSE /\ n.s = Here /\ n.d = o /\ files[o][n.i] # None
                /\ files[Here][n.i] = None
                   \/ \E j \in 1..((k + 1) - 1) : journal[j] = [s |-> a, d |-> Here, i |-> n.i]
        /\ \A j \in 1..((k + 1) - 1) : journal[j].i # n.i \/ (journal[j].d = Here /\ n.d # Here)
    BY <1>3, <2>1 DEF ClientInv, JournalInv
  <2>3. k \in Nat /\ 1 \in 1..((k + 1) - 1)
    BY <1>4
  <2>4. n.i # i \/ (m.d = Here /\ n.d # Here)
    BY <1>5, <1>6, <2>2, <2>3
  <2>5. ASSUME NEW j \in 1..(k - 1)
        PROVE  j + 1 \in 1..((k + 1) - 1) /\ journal'[j] = journal[j + 1]
    <3>1. j \in 1..Len(journal') /\ j + 1 \in 1..((k + 1) - 1)
      BY <1>4
    <3> QED BY <1>4, <3>1
  <2>6. \A j \in 1..(k - 1) : journal'[j].i # n.i \/ (journal'[j].d = Here /\ n.d # Here)
    BY <2>2, <2>5
  <2>7. ASSUME NEW j \in 1..((k + 1) - 1), journal[j] = [s |-> a, d |-> Here, i |-> n.i]
        PROVE  (m.d = Here /\ n.i = i)
               \/ \E l \in 1..(k - 1) : journal'[l] = [s |-> a, d |-> Here, i |-> n.i]
    <3>1. CASE j = 1
      BY <1>5, <1>6, <2>7, <3>1
    <3>2. CASE j # 1
      <4>1. j \in 1..Len(journal) /\ j - 1 \in 1..(k - 1)
        BY <1>4, <2>1, <2>3, <3>2
      <4>2. journal'[j - 1] = journal[j]
        BY <1>4, <3>2, <4>1
      <4> QED BY <2>7, <4>1, <4>2
    <3> QED BY <3>1, <3>2
  <2> QED BY <2>1, <2>2, <2>4, <2>6, <2>7
<1>9. at' \in Switching /\ at' = "undo"
  BY <1>1
<1>10. ASSUME NEW j \in Items, j # i PROVE CameBack(j)' <=> CameBack(j)
  <2>1. ASSUME CameBack(j)' PROVE CameBack(j)
    <3>1. PICK k \in 1..Len(journal') : journal'[k] = [s |-> a, d |-> Here, i |-> j]
      BY <1>3, <2>1 DEF CameBack
    <3>2. k + 1 \in 1..Len(journal) /\ journal[k + 1] = [s |-> a, d |-> Here, i |-> j]
      BY <1>4, <3>1
    <3> QED BY <1>3, <3>2 DEF CameBack
  <2>2. ASSUME CameBack(j) PROVE CameBack(j)'
    <3>1. PICK k \in 1..Len(journal) : journal[k] = [s |-> a, d |-> Here, i |-> j]
      BY <1>3, <2>2 DEF CameBack
    <3>2. k # 1
      BY <1>5, <1>6, <1>10, <3>1
    <3>3. k - 1 \in 1..Len(journal') /\ journal'[k - 1] = [s |-> a, d |-> Here, i |-> j]
      BY <1>4, <3>1, <3>2
    <3> QED BY <1>3, <3>3 DEF CameBack
  <2> QED BY <2>1, <2>2
<1>11. ~CameBack(i)'
  <2>1. SUFFICES ASSUME NEW k \in 1..Len(journal'), journal'[k] = [s |-> a, d |-> Here, i |-> i]
                 PROVE  FALSE
    BY <1>3 DEF CameBack
  <2>2. journal'[k].i = i /\ journal'[k].d = Here
    BY <2>1
  <2> QED BY <1>8, <2>2
<1>12. /\ files' = Moved(m.d, m.s, i)
       /\ IF m.d = Here
          THEN m.s = a /\ files[Here][i] # None /\ files[a][i] = None
          ELSE m.s = Here /\ m.d = o /\ files[o][i] # None /\ files[Here][i] = None
  <2>1. Undoable(m)
    BY <1>1, <1>4, <1>5, NextUndoable
  <2>2. IF m.d = Here THEN m.s = a ELSE m.s = Here /\ m.d = o
    BY <1>3, <1>4, <1>5 DEF ClientInv, JournalInv
  <2> QED BY <1>1, <1>4, <1>5, <1>6, <2>1, <2>2 DEF Undoable
\* A file that came back goes to its snapshot again.
<1>13. CASE m.d = Here
  <2>1. /\ files' \in [Places -> [Items -> FileOf]] /\ VersionInv'
        /\ files'[a][i] = files[Here][i] /\ files'[Here][i] = None
        /\ \A pl \in Places, j \in Items :
              j # i \/ (pl # Here /\ pl # a) => files'[pl][j] = files[pl][j]
    BY <1>2, <1>3, <1>7, <1>12, <1>13, MovedFile
  <2>2. JournalInv'
    <3> SUFFICES ASSUME NEW k \in 1..Len(journal'), NEW n, n = journal'[k]
                 PROVE  /\ IF n.d = Here
                           THEN n.s = a /\ files'[Here][n.i] # None /\ files'[a][n.i] = None
                           ELSE /\ n.s = Here /\ n.d = o /\ files'[o][n.i] # None
                                /\ files'[Here][n.i] = None
                                   \/ \E j \in 1..(k - 1) : journal'[j] = [s |-> a, d |-> Here, i |-> n.i]
                        /\ \A j \in 1..(k - 1) : journal'[j].i # n.i \/ (journal'[j].d = Here /\ n.d # Here)
      BY <1>3, <1>9 DEF JournalInv
    <3>1. n.i \in Items
      BY <1>8
    <3>2. CASE n.i = i
      BY <1>3, <1>7, <1>8, <2>1, <3>1, <3>2
    <3>3. CASE n.i # i
      <4>1. \A pl \in Places : files'[pl][n.i] = files[pl][n.i]
        BY <2>1, <3>1, <3>3
      <4> QED BY <1>7, <1>8, <3>3, <4>1
    <3> QED BY <3>2, <3>3
  <2>3. ASSUME FilesInv PROVE FilesInv'
    <3>1. CameBack(i)
      <4>1. journal[1] = [s |-> a, d |-> Here, i |-> i]
        BY <1>5, <1>6, <1>12, <1>13 DEF Moves
      <4> QED BY <1>3, <1>4, <4>1 DEF CameBack
    <3>2. files[Here][i].of = a
      BY <1>1, <1>3, <2>3, <3>1 DEF FilesInv
    <3>3. ASSUME NEW j \in Items
          PROVE  IF CameBack(j)' THEN files'[Here][j].of = a ELSE files'[Here][j].of \in {Nobody, o}
      <4>1. CASE j = i
        BY <1>11, <2>1, <4>1, Basics
      <4>2. CASE j # i
        <5>1. files'[Here][j] = files[Here][j]
          BY <1>7, <2>1, <4>2
        <5> QED BY <1>1, <1>3, <1>10, <2>3, <4>2, <5>1 DEF FilesInv
      <4> QED BY <4>1, <4>2
    <3>4. ASSUME NEW b \in Accounts, NEW j \in Items PROVE files'[b][j].of \in {Nobody, b}
      <4>1. CASE j = i /\ b = a
        BY <2>1, <3>2, <4>1
      <4>2. CASE ~(j = i /\ b = a)
        <5>1. files'[b][j] = files[b][j]
          BY <2>1, <4>2, Basics
        <5> QED BY <2>3, <5>1 DEF FilesInv
      <4> QED BY <4>1, <4>2
    <3> QED BY <1>3, <1>9, <3>3, <3>4 DEF FilesInv
  <2>4. ASSUME FilesInv, MissedInv PROVE MissedInv'
    <3>1. files[Here][i].of = a
      <4>1. journal[1] = [s |-> a, d |-> Here, i |-> i]
        BY <1>5, <1>6, <1>12, <1>13 DEF Moves
      <4>2. CameBack(i)
        BY <1>3, <1>4, <4>1 DEF CameBack
      <4> QED BY <1>1, <1>3, <2>4, <4>2 DEF FilesInv
    <3> SUFFICES ASSUME NEW pl \in Places, NEW j \in Items,
                        files'[pl][j] # None, files'[pl][j].v < marker.v
                 PROVE  <<files'[pl][j].of, j>> \in missed \/ Shadowed(pl, j)'
      BY <1>2 DEF MissedInv
    <3>2. CASE j = i /\ pl = a
      <4>1. ~Shadowed(Here, i)
        BY <1>3 DEF Shadowed
      <4> QED BY <1>7, <2>1, <2>4, <3>2, <4>1 DEF MissedInv
    <3>3. CASE ~(j = i /\ pl = a)
      <4>1. ~(j = i /\ pl = Here)
        BY <2>1
      <4>2. files'[pl][j] = files[pl][j]
        BY <2>1, <3>3, <4>1
      <4>3. CASE Shadowed(pl, j)
        <5>1. j # i
          BY <1>3, <3>1, <4>3 DEF Shadowed
        <5>2. files'[Here][j] = files[Here][j]
          BY <1>7, <2>1, <5>1
        <5> QED BY <1>1, <4>3, <5>2 DEF Shadowed
      <4> QED BY <2>4, <4>2, <4>3 DEF MissedInv
    <3> QED BY <3>2, <3>3
  <2> QED BY <1>1, <1>4, <1>9, <2>1, <2>2, <2>3, <2>4, SwitchStep
\* A file that was put aside is active again.
<1>14. CASE m.d # Here
  <2>1. /\ files' \in [Places -> [Items -> FileOf]] /\ VersionInv'
        /\ files'[Here][i] = files[o][i] /\ files'[o][i] = None /\ files[Here][i] = None
        /\ \A pl \in Places, j \in Items :
              j # i \/ (pl # o /\ pl # Here) => files'[pl][j] = files[pl][j]
    BY <1>2, <1>3, <1>7, <1>12, <1>14, MovedFile
  <2>2. JournalInv'
    <3> SUFFICES ASSUME NEW k \in 1..Len(journal'), NEW n, n = journal'[k]
                 PROVE  /\ IF n.d = Here
                           THEN n.s = a /\ files'[Here][n.i] # None /\ files'[a][n.i] = None
                           ELSE /\ n.s = Here /\ n.d = o /\ files'[o][n.i] # None
                                /\ files'[Here][n.i] = None
                                   \/ \E j \in 1..(k - 1) : journal'[j] = [s |-> a, d |-> Here, i |-> n.i]
                        /\ \A j \in 1..(k - 1) : journal'[j].i # n.i \/ (journal'[j].d = Here /\ n.d # Here)
      BY <1>3, <1>9 DEF JournalInv
    <3>1. n.i \in Items /\ n.i # i
      BY <1>8, <1>14
    <3>2. \A pl \in Places : files'[pl][n.i] = files[pl][n.i]
      BY <2>1, <3>1
    <3> QED BY <1>7, <1>8, <1>14, <3>2
  <2>3. ASSUME FilesInv PROVE FilesInv'
    <3>1. files[o][i].of \in {Nobody, o}
      BY <2>3 DEF FilesInv
    <3>2. ASSUME NEW j \in Items
          PROVE  IF CameBack(j)' THEN files'[Here][j].of = a ELSE files'[Here][j].of \in {Nobody, o}
      <4>1. CASE j = i
        BY <1>11, <2>1, <3>1, <4>1
      <4>2. CASE j # i
        <5>1. files'[Here][j] = files[Here][j]
          BY <1>7, <2>1, <4>2
        <5> QED BY <1>1, <1>3, <1>10, <2>3, <4>2, <5>1 DEF FilesInv
      <4> QED BY <4>1, <4>2
    <3>3. ASSUME NEW b \in Accounts, NEW j \in Items PROVE files'[b][j].of \in {Nobody, b}
      <4>1. CASE j = i /\ b = o
        BY <2>1, <4>1, Basics
      <4>2. CASE ~(j = i /\ b = o)
        <5>1. files'[b][j] = files[b][j]
          BY <2>1, <4>2, Basics
        <5> QED BY <2>3, <5>1 DEF FilesInv
      <4> QED BY <4>1, <4>2
    <3> QED BY <1>3, <1>9, <3>2, <3>3 DEF FilesInv
  <2>4. ASSUME MissedInv PROVE MissedInv'
    <3> SUFFICES ASSUME NEW pl \in Places, NEW j \in Items,
                        files'[pl][j] # None, files'[pl][j].v < marker.v
                 PROVE  <<files'[pl][j].of, j>> \in missed \/ Shadowed(pl, j)'
      BY <1>2 DEF MissedInv
    <3>1. CASE j = i /\ pl = Here
      <4>1. ~Shadowed(o, i)
        BY <2>1 DEF Shadowed
      <4> QED BY <1>7, <2>1, <2>4, <3>1, <4>1 DEF MissedInv
    <3>2. CASE ~(j = i /\ pl = Here)
      <4>1. ~(j = i /\ pl = o)
        BY <2>1
      <4>2. files'[pl][j] = files[pl][j]
        BY <2>1, <3>2, <4>1
      <4>3. CASE Shadowed(pl, j)
        <5>1. j # i
          BY <2>1, <4>3 DEF Shadowed
        <5>2. files'[Here][j] = files[Here][j]
          BY <1>7, <2>1, <5>1
        <5> QED BY <1>1, <4>3, <5>2 DEF Shadowed
      <4> QED BY <2>4, <4>2, <4>3 DEF MissedInv
    <3> QED BY <3>1, <3>2
  <2> QED BY <1>1, <1>4, <1>9, <2>1, <2>2, <2>3, <2>4, SwitchStep
<1> QED BY <1>13, <1>14

LEMMA UndoneStep == ASSUME ClientInv, Undone PROVE ClientInv'
  BY GoNothing DEF Undone, Refuse

-----------------------------------------------------------------------------
(* The invariant.                                                            *)

LEMMA InitInv == Init => ClientInv
<1> SUFFICES ASSUME Init PROVE ClientInv
  OBVIOUS
<1>1. PICK a \in Accounts, is \in SUBSET Items, r \in {Nobody} \cup Accounts, p \in BOOLEAN :
        /\ r \in {a, Nobody}
        /\ key \in {a, Nobody} /\ untouched \in BOOLEAN
        /\ owner = [ref |-> r, proof |-> IF p THEN r ELSE Nobody]
        /\ files = [pl \in Places |-> [j \in Items |->
                        IF pl = Here /\ j \in is THEN [of |-> a, v |-> 1] ELSE None]]
        /\ ledger = NoWork /\ marker = [v |-> 1, pending |-> FALSE] /\ code = 1
        /\ older \in BOOLEAN
        /\ cmd = NoCmd /\ at = "idle" /\ me = 1 /\ todo = <<>> /\ journal = <<>>
        /\ torn = FALSE /\ missed = {} /\ deaths = 0
  BY DEF Init
<1>2. /\ owner.ref = r /\ owner.proof \in {Nobody, r}
      /\ owner \in [ref : Accounts \cup {Nobody}, proof : Accounts \cup {Nobody}]
      /\ marker.v = 1 /\ marker \in [v : {1, 2}, pending : BOOLEAN]
      /\ ledger \in [st : {"closed", "ready", "reading", "effect"}, of : Accounts \cup {Nobody}] /\ ~Open
  BY <1>1 DEF NoWork, Open
<1> DEFINE f == [of |-> a, v |-> 1]
<1>3. f \in FileOf /\ f.of = a /\ f.v = 1 /\ a # Nobody /\ a # Here /\ f # None
  BY Basics DEF FileOf, None
<1>4. \A pl \in Places, j \in Items :
         files[pl][j] = IF pl = Here /\ j \in is THEN f ELSE None
  BY <1>1
<1> HIDE DEF f
<1>5. files \in [Places -> [Items -> FileOf]]
  BY <1>1, <1>3, Basics DEF f
<1>6. ClientTypeOK
  <2>1. /\ key \in Accounts \cup {Nobody} /\ code \in {1, 2} /\ me \in {1, 2}
        /\ cmd.env \in Accounts \cup {Nobody} /\ cmd.name \in Names \cup {"none"}
    BY <1>1, Basics
  <2>2. todo \in Seq(Writes) /\ journal \in Seq([s : Places, d : Places, i : Items])
    BY <1>1
  <2>3. missed \subseteq (Accounts \cup {Nobody}) \X Items /\ deaths \in Nat /\ torn \in BOOLEAN
    BY <1>1
  <2> QED BY <1>1, <1>2, <1>5, <2>1, <2>2, <2>3 DEF ClientTypeOK
<1>7. VersionInv
  BY <1>1, <1>2, <1>3, <1>4, Basics DEF VersionInv
<1>8. OwnerInv
  BY <1>1, <1>2 DEF OwnerInv
<1>9. TodoInv /\ CommandInv /\ JournalInv
  BY <1>1 DEF TodoInv, CommandInv, JournalInv, Switching
<1>10. FilesInv
  BY <1>1, <1>2, <1>3, <1>4, Basics DEF FilesInv, HereOf
<1>11. MissedInv
  BY <1>2, <1>3, <1>4, Basics DEF MissedInv
<1> QED BY <1>1, <1>6, <1>7, <1>8, <1>9, <1>10, <1>11, Basics DEF ClientInv, Typed

LEMMA StutterStep == ASSUME ClientInv, UNCHANGED vars PROVE ClientInv'
<1>1. /\ UNCHANGED <<key, untouched, owner, files, ledger, marker, code, older, cmd, at, me>>
      /\ UNCHANGED <<todo, journal, torn, missed, deaths>>
  BY DEF vars, state
<1>2. Typed' /\ VersionInv'
  BY <1>1, Kinds, StillTyped DEF ClientInv, VersionInv
<1>3. OwnerInv' /\ CommandInv'
  BY <1>1 DEF ClientInv, OwnerInv, Open, CommandInv, Mine
<1>4. TodoInv'
  BY <1>1 DEF ClientInv, TodoInv, MayWrite, Binds, HereOf, Effect
<1>5. JournalInv'
  BY <1>1 DEF ClientInv, JournalInv, Mine
<1>6. (FilesInv => FilesInv') /\ (MissedInv => MissedInv')
  BY <1>1 DEF FilesInv, HereOf, CameBack, Mine, MissedInv, Shadowed
<1> QED BY <1>1, <1>2, <1>3, <1>4, <1>5, <1>6 DEF ClientInv

LEMMA NextInv == ASSUME ClientInv, [Next]_vars PROVE ClientInv'
<1>1. CASE Write
  BY <1>1, SaveKeyStep, SaveOwnerStep, SaveFileStep, SaveWorkStep, MigrateFileStep,
     SaveMarkerStep, SaveCheckoutStep DEF Write
<1>2. CASE Die \/ Start \/ Installer \/ OlderEnds
  BY <1>2, DieStep, StartStep, InstallerStep, OlderEndsStep
<1>3. CASE DeferUpdate \/ NoUpdate \/ Update
  BY <1>3, UpdateStep
<1>4. CASE Preserve \/ MigrateAll \/ Postpone \/ NothingToMigrate
  BY <1>4, UpgradeStep, MigrateAllStep
<1>5. CASE NoKey \/ Exempt \/ Online \/ Offline \/ ContextLocked
  BY <1>5, OwnerPhaseStep, OnlineStep, OfflineStep
<1>6. CASE SaveNewKey \/ BindLegacy \/ SwitchAccount
  BY <1>6, SaveNewKeyStep, BindLegacyStep, SwitchAccountStep
<1>7. CASE Moving
  BY <1>7, PutAsideStep, BringBackStep, SwitchFailsStep, RebindStep, UndoMoveStep, UndoneStep DEF Moving
<1>8. CASE RunPlatform \/ SkipPlatform \/ RunWork
  BY <1>8, RunPlatformStep, SkipPlatformStep, RunWorkStep
<1>9. CASE UNCHANGED vars
  BY <1>9, StutterStep
<1> QED BY <1>1, <1>2, <1>3, <1>4, <1>5, <1>6, <1>7, <1>8, <1>9 DEF Next

LEMMA Always == Spec => []ClientInv
  BY InitInv, NextInv, PTL DEF Spec

-----------------------------------------------------------------------------
(* What it gives.                                                            *)

\* The state keeps its kinds, whatever commands are killed and switches fail.
THEOREM ClientTyped == Spec => []ClientTypeOK
<1>1. ClientInv => ClientTypeOK
  BY DEF ClientInv, Typed
<1> QED BY <1>1, Always, PTL

\* A command that reads or changes the business state works on files of the account
\* whose key it uses: it is the owner, or the write that makes it the owner is the
\* first to come and the files are none or its own.  Snapshots hold the files of
\* their accounts.
THEOREM CommandsOwnState == Spec => []OwnStateOnly
<1>1. ClientInv => OwnStateOnly
  <2> SUFFICES ASSUME ClientInv, FilesInv PROVE OwnStateOnly
    BY DEF ClientInv, OwnStateOnly
  <2>1. ASSUME at = "dispatch", cmd.name \notin Recovery PROVE HereOf(Mine)
    <3>1. /\ Mine # Nobody
          /\ owner.ref = Mine \/ (todo # <<>> /\ todo[1].w = "owner" /\ todo[1].r = Mine)
      BY <2>1 DEF ClientInv, CommandInv
    <3>2. owner.ref = Mine => HereOf(Mine)
      BY <2>1, <3>1 DEF FilesInv
    <3>3. ASSUME todo # <<>>, todo[1].w = "owner", todo[1].r = Mine PROVE HereOf(Mine)
      <4>1. 1 \in 1..Len(todo)
        BY <3>3, Kinds, EmptySeq, LenProperties DEF ClientInv
      <4>2. Binds(todo[1])
        BY <3>3, <4>1 DEF ClientInv, TodoInv, MayWrite
      <4> QED BY <3>2, <3>3, <4>2 DEF Binds
    <3> QED BY <3>1, <3>2, <3>3
  <2> QED BY <2>1 DEF OwnStateOnly, HereOf, FilesInv
<1> QED BY <1>1, Always, PTL

\* A state that is marked as migrated is migrated: the files that are not were
\* stored away or in a conflict when it was marked.
THEOREM MarkedIsMigrated == Spec => []MigratedMeansAll
<1>1. ClientInv => MigratedMeansAll
  <2> SUFFICES ASSUME ClientInv, MissedInv PROVE MigratedMeansAll
    BY DEF ClientInv, MigratedMeansAll
  <2>1. ASSUME NEW i \in Items, Shadowed(Here, i) PROVE FALSE
    <3>1. owner.ref = Here /\ files[Here][i].of = owner.ref /\ files[Here][i] # None
      BY <2>1 DEF Shadowed
    <3>2. owner.ref = Nobody
      BY <3>1, TypedParts, Basics DEF ClientInv
    <3> QED BY <3>1, <3>2, Basics DEF ClientInv, VersionInv
  <2> QED BY <2>1, Basics DEF MissedInv, MigratedMeansAll
<1> QED BY <1>1, Always, PTL

\* A switch that fails can undo each of its moves when its turn comes: the file is
\* where it was put and its former place is free.
THEOREM SwitchUndone == Spec => []UndoneWhole
<1>1. ClientInv => UndoneWhole
  BY NextUndoable DEF UndoneWhole
<1> QED BY <1>1, Always, PTL

\* An open work of the browser belongs to the account that owns the state.
THEOREM WorkStaysWithOwner == Spec => []WorkOfOwner
<1>1. ClientInv => WorkOfOwner
  BY DEF ClientInv, OwnerInv, WorkOfOwner
<1> QED BY <1>1, Always, PTL

\* The state is never of a later version than the installation: a rolled back
\* update has migrated nothing.
THEOREM StateNotAhead == Spec => []MigratedByInstalled
<1>1. ASSUME ClientInv PROVE MigratedByInstalled
  <2>1. marker.v \in {1, 2} /\ me \in {1, 2} /\ code \in {1, 2} /\ marker.v <= me /\ me <= code
    BY <1>1, TypedParts DEF ClientInv, VersionInv
  <2>2. ASSUME NEW i \in Items, files[Here][i] # None PROVE files[Here][i].v <= code
    <3>1. files[Here][i].v <= me /\ files[Here][i].v \in {1, 2}
      BY <1>1, <2>2, TypedParts, Basics DEF ClientInv, VersionInv, FileOf
    <3> QED BY <2>1, <3>1
  <2>3. marker.v <= code
    BY <2>1
  <2> QED BY <2>2, <2>3 DEF MigratedByInstalled
<1> QED BY <1>1, Always, PTL

-----------------------------------------------------------------------------
(* What a step may never do.                                                 *)

\* Only writes and moves touch what is on disk.
LEMMA OtherSteps ==
    ASSUME [Next]_vars, ~Write, ~Moving
    PROVE  UNCHANGED <<owner, files, marker, ledger>>
<1>1. \A phase, ws : Go(phase, ws) => UNCHANGED <<owner, files, marker, ledger>>
  BY DEF Go, state
<1>2. CASE Die \/ Start \/ Installer \/ OlderEnds \/ UNCHANGED vars
  BY <1>2 DEF Die, Start, Installer, OlderEnds, vars, state
<1>3. CASE DeferUpdate \/ NoUpdate \/ Update
  BY <1>1, <1>3 DEF DeferUpdate, NoUpdate, Update, Refuse
<1>4. CASE Preserve \/ MigrateAll \/ Postpone \/ NothingToMigrate
  BY <1>1, <1>4 DEF Preserve, MigrateAll, Postpone, NothingToMigrate
<1>5. CASE NoKey \/ Exempt \/ Online \/ Offline \/ ContextLocked
  BY <1>1, <1>5 DEF NoKey, Exempt, Online, Offline, ContextLocked, Refuse
<1>6. CASE SaveNewKey \/ BindLegacy \/ SwitchAccount
  BY <1>1, <1>6 DEF SaveNewKey, BindLegacy, SwitchAccount, Refuse
<1>7. CASE RunPlatform \/ SkipPlatform \/ RunWork
  BY <1>1, <1>7 DEF RunPlatform, SkipPlatform, RunWork, Refuse
<1> QED BY <1>2, <1>3, <1>4, <1>5, <1>6, <1>7 DEF Next

\* A step of a switch leaves the files or moves one to a place that is free.
LEMMA FilesMove ==
    ASSUME ClientInv, Moving
    PROVE  \/ files' = files
           \/ \E s \in Places, d \in Places, i \in Items :
                 s # d /\ files' = Moved(s, d, i) /\ files[d][i] = None
<1>1. at \in Switching
  BY DEF Moving, PutAside, BringBack, TurnRound, Rebind, SwitchFails, UndoMove, Undone, Switching
<1>2. /\ owner.ref \in Places /\ Mine \in Places /\ Here \in Places
      /\ owner.ref # Here /\ Mine # Here
  BY <1>1, SwitchingParts, Basics
<1>3. CASE PutAside \/ BringBack
  BY <1>2, <1>3 DEF PutAside, BringBack, MoveFiles, Taken
<1>4. CASE TurnRound \/ Rebind \/ SwitchFails
  BY <1>4 DEF TurnRound, Rebind, SwitchFails
<1>5. CASE Undone
  BY <1>5 DEF Undone, Refuse, Go, state
<1>6. CASE UndoMove
  <2>1. /\ at = "undo" /\ journal # <<>> /\ journal' = Tail(journal)
        /\ files' = IF Undoable(Head(journal))
                    THEN Moved(Head(journal).d, Head(journal).s, Head(journal).i) ELSE files
    BY <1>6 DEF UndoMove
  <2>2. PICK m \in Moves : m = Head(journal) /\ m.i \in Items /\ m = journal[1] /\ 1 \in 1..Len(journal)
    BY <2>1, Popped, MovesAre
  <2>3. Undoable(m) /\ files' = Moved(m.d, m.s, m.i)
    BY <2>1, <2>2, NextUndoable
  <2>4. m.s \in Places /\ m.d \in Places
    BY <2>2 DEF Moves
  <2>5. IF m.d = Here THEN m.s = Mine ELSE m.s = Here
    BY <2>2 DEF ClientInv, JournalInv
  <2> QED BY <1>2, <2>2, <2>3, <2>4, <2>5 DEF Undoable
<1> QED BY <1>3, <1>4, <1>5, <1>6 DEF Moving

\* A file that moves to a free place is in as many places as before.
LEMMA AsManyCopies ==
    ASSUME ClientInv, Moving, NEW a \in Accounts, NEW i \in Items
    PROVE  Copies(a, i)' = Copies(a, i)
<1>1. CASE files' = files
  BY <1>1 DEF Copies
<1>2. ASSUME NEW s \in Places, NEW d \in Places, NEW j \in Items,
             s # d, files' = Moved(s, d, j), files[d][j] = None
      PROVE  Copies(a, i)' = Copies(a, i)
  <2>1. files \in [Places -> [Items -> FileOf]]
    BY Kinds DEF ClientInv
  <2>2. files' = [files EXCEPT ![d][j] = files[s][j], ![s][j] = None]
    BY <1>2 DEF Moved
  <2>3. /\ files'[d] = [files[d] EXCEPT ![j] = files[s][j]] /\ files'[s] = [files[s] EXCEPT ![j] = None]
        /\ \A pl \in Places : pl # s /\ pl # d => files'[pl] = files[pl]
    BY <1>2, <2>1, <2>2
  <2>4. /\ files'[d][j] = files[s][j] /\ files'[s][j] = None
        /\ \A pl \in Places, n \in Items :
              n # j \/ (pl # s /\ pl # d) => files'[pl][n] = files[pl][n]
    BY <2>1, <2>3
  <2> DEFINE before == {p \in Places : files[p][i].of = a}
             after == {p \in Places : files'[p][i].of = a}
  <2>5. CASE i # j
    <3>1. before = after
      BY <2>4, <2>5
    <3> QED BY <3>1 DEF Copies
  <2>6. CASE i = j /\ files[s][j].of # a
    <3>1. before = after
      BY <1>2, <2>4, <2>6, Basics
    <3> QED BY <3>1 DEF Copies
  <2>7. CASE i = j /\ files[s][j].of = a
    <3>1. s \in before /\ d \notin before /\ after = (before \ {s}) \cup {d}
      BY <1>2, <2>4, <2>7, Basics
    <3>2. IsFiniteSet(before)
      <4>1. IsFiniteSet(Places)
        BY ClientAssumption, FS_Singleton, FS_Union DEF Places
      <4> QED BY <4>1, FS_Subset
    <3> HIDE DEF before, after
    <3>3. /\ IsFiniteSet(before \ {s}) /\ Cardinality(before \ {s}) = Cardinality(before) - 1
          /\ Cardinality(before) \in Nat
      BY <3>1, <3>2, FS_RemoveElement, FS_CardinalityType
    <3>4. d \notin before \ {s}
      BY <3>1
    <3>5. Cardinality(after) = Cardinality(before \ {s}) + 1
      BY <3>1, <3>3, <3>4, FS_AddElement
    <3>6. Cardinality(after) = Cardinality(before)
      BY <3>3, <3>5
    <3> QED BY <3>6 DEF Copies, before, after
  <2> QED BY <2>5, <2>6, <2>7
<1> QED BY <1>1, <1>2, FilesMove

\* An active state without an owner is that of one account.
OneAccount == owner.ref = Nobody => \E a \in Accounts : HereOf(a)

LEMMA OneAccountStays == ASSUME ClientInv, OneAccount, [Next]_vars PROVE OneAccount'
<1>1. CASE SaveFile
  <2>1. Head(todo) = todo[1] /\ Head(todo).w = "file" /\ MayWrite(1) /\ UNCHANGED owner
    BY <1>1, Written DEF SaveFile
  <2> QED BY <2>1 DEF MayWrite, OneAccount
<1>2. CASE MigrateFile
  <2>1. PICK i \in Items :
           \A j \in Items : \/ files'[Here][j] = files[Here][j] \/ files'[Here][j] = None
                            \/ files'[Here][j].of = files[Here][i].of
    <3>1. PICK i \in Items : Migrates(i)
      BY <1>2, MigrateDoes
    <3>2. \A j \in Items : \/ files'[Here][j] = files[Here][j] \/ files'[Here][j] = None
                           \/ files'[Here][j].of = files[Here][i].of
      BY <3>1, Basics DEF Migrates, Rewritten, Dropped, PutAway
    <3> QED BY <3>2
  <2>2. ASSUME NEW a \in Accounts, HereOf(a) PROVE HereOf(a)'
    BY <2>1, <2>2, Basics DEF HereOf
  <2> QED BY <1>2, <2>2 DEF MigrateFile, OneAccount
<1>3. CASE Moving
  <2>1. owner.ref # Nobody /\ Mine # Nobody
    BY <1>3, SwitchingParts DEF Moving, PutAside, BringBack, TurnRound, Rebind, SwitchFails, UndoMove, Undone, Switching
  <2>2. owner' = owner \/ owner'.ref = Mine
    BY <1>3 DEF Moving, PutAside, BringBack, MoveFiles, TurnRound, Rebind, SwitchFails, UndoMove, Undone, Refuse, Go, state
  <2> QED BY <2>1, <2>2 DEF OneAccount
<1>4. CASE SaveOwner
  <2>1. Head(todo) \in Writes /\ Head(todo).w = "owner" /\ owner'.ref = Head(todo).r
    BY <1>4, Written DEF SaveOwner
  <2> QED BY <2>1, WriteParts, Basics DEF OneAccount
<1>5. CASE SaveKey \/ SaveWork \/ SaveMarker \/ SaveCheckout
  BY <1>5 DEF SaveKey, SaveWork, SaveMarker, SaveCheckout, OneAccount, HereOf
<1>6. CASE ~Write /\ ~Moving
  BY <1>6, OtherSteps DEF OneAccount, HereOf
<1> QED BY <1>1, <1>2, <1>3, <1>4, <1>5, <1>6 DEF Write

LEMMA OneAlways == Spec => [](ClientInv /\ OneAccount)
<1>1. ASSUME Init PROVE OneAccount
  <2>1. PICK a \in Accounts, is \in SUBSET Items :
           files = [pl \in Places |-> [j \in Items |->
                      IF pl = Here /\ j \in is THEN [of |-> a, v |-> 1] ELSE None]]
    BY <1>1 DEF Init
  <2>2. HereOf(a)
    BY <2>1, Basics DEF HereOf
  <2> QED BY <2>2 DEF OneAccount
<1> QED BY <1>1, InitInv, NextInv, OneAccountStays, PTL DEF Spec

\* A place more, or one less.
LEMMA OneMore ==
    ASSUME NEW S \in SUBSET Places, NEW p \in Places, p \notin S
    PROVE  Cardinality(S \cup {p}) = Cardinality(S) + 1 /\ Cardinality(S) = Cardinality(S \cup {p}) - 1
<1>1. IsFiniteSet(Places)
  BY ClientAssumption, FS_Singleton, FS_Union DEF Places
<1>2. IsFiniteSet(S) /\ Cardinality(S) \in Nat
  BY <1>1, FS_Subset, FS_CardinalityType
<1>3. Cardinality(S \cup {p}) = Cardinality(S) + 1
  BY <1>2, FS_AddElement
<1> QED BY <1>2, <1>3

\* A migration takes out a file of the former version, and nothing of another account.
LEMMA MigrateCopies ==
    ASSUME ClientInv, OneAccount, MigrateFile, NEW a \in Accounts, NEW n \in Items
    PROVE  Copies(a, n)' = Copies(a, n) \/ TakenOut(a, n) \/ ArchiveGrows(a, n)
<1>0. PICK i \in Items : Migrates(i)
  BY MigrateDoes
<1>1. /\ Head(todo) = Migrate(i) /\ me = 2 /\ marker.v = 1 /\ ~Effect /\ at \in {"owner", "idle"}
      /\ files[Here][i] = [of |-> files[Here][i].of, v |-> 1] /\ files[Here][i] # None
      /\ files[Here][i].of \in Accounts
      /\ \A pl \in Places, j \in Items :
            pl # Here \/ j \notin {i, Archive} => files'[pl][j] = files[pl][j]
      /\ Rewritten(i) \/ Dropped(i) \/ PutAway(i)
  BY <1>0 DEF Migrates
<1>2. todo # <<>> /\ todo' = Tail(todo) /\ UNCHANGED <<torn, owner>>
  BY Written DEF MigrateFile
<1> DEFINE before == {p \in Places : files[p][n].of = a}
           after == {p \in Places : files'[p][n].of = a}
<1>3. Copies(a, n) = Cardinality(before) /\ Copies(a, n)' = Cardinality(after)
  BY DEF Copies
<1>4. \A pl \in Places : pl # Here => files'[pl][n] = files[pl][n]
  BY <1>1
<1>5. before \in SUBSET Places /\ after \in SUBSET Places /\ Here \in Places
  BY Basics
<1>6. CASE files'[Here][n].of = files[Here][n].of
  <2>1. before = after
    BY <1>4, <1>6
  <2> QED BY <1>3, <2>1
<1>7. CASE files'[Here][n].of # files[Here][n].of /\ n = i
  <2>1. files'[Here][i] = None /\ (Dropped(i) \/ PutAway(i)) /\ i \in Cleared \cup Shelved
    BY <1>1, <1>7 DEF Rewritten, Dropped, PutAway
  <2>2. CASE files[Here][i].of # a
    <3>1. before = after
      BY <1>4, <1>7, <2>1, <2>2, Basics
    <3> QED BY <1>3, <3>1
  <2>3. CASE files[Here][i].of = a
    <3>1. Here \notin after /\ before = after \cup {Here}
      BY <1>4, <1>5, <1>7, <2>1, <2>3, Basics
    <3> HIDE DEF before, after
    <3>2. Copies(a, n)' = Copies(a, n) - 1
      BY <1>3, <1>5, <3>1, OneMore
    <3>3. i \in Cleared \/ torn \/ files'[Here][Archive].of = a
      <4>1. SUFFICES ASSUME i \notin Cleared, ~torn PROVE files'[Here][Archive].of = a
        OBVIOUS
      <4>2. /\ Archive \in Items
            /\ files'[Here][Archive] = IF files[Here][Archive] # None THEN files[Here][Archive]
                                       ELSE [of |-> files[Here][i].of, v |-> 2]
        BY <2>1, <4>1 DEF Dropped, PutAway
      <4>3. CASE files[Here][Archive] = None
        BY <2>3, <4>2, <4>3
      <4>4. CASE files[Here][Archive] # None
        <5>1. \E b \in Accounts : HereOf(b)
          BY <1>1, <4>1, TypedParts DEF OneAccount, ClientInv, FilesInv
        <5>2. PICK b \in Accounts : HereOf(b)
          BY <5>1
        <5>3. files[Here][Archive].of = b /\ files[Here][i].of = b
          BY <1>1, <4>2, <4>4, <5>2, Basics DEF HereOf, ClientInv, VersionInv
        <5> QED BY <2>3, <4>2, <4>4, <5>3
      <4> QED BY <4>3, <4>4
    <3> QED BY <1>1, <1>2, <1>7, <2>1, <2>3, <3>2, <3>3 DEF TakenOut
  <2> QED BY <2>2, <2>3
<1>8. CASE files'[Here][n].of # files[Here][n].of /\ n # i
  <2>1. n = Archive /\ files[Here][n] = None /\ files'[Here][n] = [of |-> files[Here][i].of, v |-> 2]
    BY <1>1, <1>8, Basics DEF Rewritten, Dropped, PutAway
  <2>2. CASE files[Here][i].of # a
    <3>1. before = after
      BY <1>4, <2>1, <2>2, Basics
    <3> QED BY <1>3, <3>1
  <2>3. CASE files[Here][i].of = a
    <3>1. Here \notin before /\ after = before \cup {Here}
      BY <1>4, <1>5, <2>1, <2>3, Basics
    <3> HIDE DEF before, after
    <3> QED BY <1>3, <1>5, <2>1, <3>1, OneMore DEF ArchiveGrows
  <2> QED BY <2>2, <2>3
<1> QED BY <1>6, <1>7, <1>8

\* No file of an account is lost or written over but by the account's own business
\* and by the migrations that say so: a switch moves a file to a place that is free;
\* a migration rewrites a file, or takes out one of the former version, before the
\* state is marked as migrated, and what goes to the archive stays with its account.
THEOREM FilesKept == Spec => NothingLost
<1>1. ASSUME ClientInv, OneAccount, [Next]_vars, todo = <<>> \/ Head(todo).w # "file",
             NEW a \in Accounts, NEW i \in Items
      PROVE  Copies(a, i)' = Copies(a, i) \/ TakenOut(a, i) \/ ArchiveGrows(a, i)
  <2>1. CASE Moving
    BY <1>1, <2>1, AsManyCopies
  <2>2. CASE files' = files
    BY <2>2 DEF Copies
  <2>3. CASE ~Write /\ ~Moving
    <3>1. files' = files
      BY <1>1, <2>3, OtherSteps
    <3> QED BY <2>2, <3>1
  <2>4. CASE SaveFile
    BY <1>1, <2>4 DEF SaveFile, Next1
  <2>5. CASE MigrateFile
    BY <1>1, <2>5, MigrateCopies
  <2>6. CASE SaveKey \/ SaveOwner \/ SaveWork \/ SaveMarker \/ SaveCheckout
    <3>1. files' = files
      BY <2>6 DEF SaveKey, SaveOwner, SaveWork, SaveMarker, SaveCheckout
    <3> QED BY <2>2, <3>1
  <2>7. Write => \/ SaveFile \/ MigrateFile
                 \/ SaveKey \/ SaveOwner \/ SaveWork \/ SaveMarker \/ SaveCheckout
    BY DEF Write
  <2> QED BY <2>1, <2>3, <2>4, <2>5, <2>6, <2>7
<1>2. ASSUME ClientInv, OneAccount, [Next]_vars
      PROVE  [todo = <<>> \/ Head(todo).w # "file"
                => \A a \in Accounts, i \in Items :
                      Copies(a, i)' = Copies(a, i) \/ TakenOut(a, i) \/ ArchiveGrows(a, i)]_vars
  BY <1>1, <1>2
<1> QED BY <1>2, OneAlways, PTL DEF Spec, NothingLost

\* An action that may have happened in the browser finds the state it was taken on:
\* neither the version nor the owner changes, and no file but by the business.
THEOREM EffectFindsState == Spec => EffectKeepsState
<1>1. ASSUME ClientInv, [Next]_vars, Effect
      PROVE  /\ marker'.v = marker.v /\ owner'.ref = owner.ref
             /\ \A i \in Items : files'[Here][i] # files[Here][i] =>
                   todo # <<>> /\ Head(todo).w = "file"
  <2>1. Open
    BY <1>1 DEF Effect, Open
  <2>2. ~Moving
    <3>1. Moving => at \in Switching
      BY DEF Moving, PutAside, BringBack, TurnRound, Rebind, SwitchFails, UndoMove, Undone, Switching
    <3> QED BY <1>1, <2>1, <3>1, SwitchingParts
  <2>3. CASE ~Write
    <3>1. UNCHANGED <<owner, files, marker, ledger>>
      BY <1>1, <2>2, <2>3, OtherSteps
    <3> QED BY <3>1
  <2>4. CASE SaveKey \/ SaveWork \/ SaveCheckout
    BY <2>4 DEF SaveKey, SaveWork, SaveCheckout
  <2>5. CASE SaveFile
    BY <2>5 DEF SaveFile, Next1
  <2>6. CASE SaveOwner
    <3>1. /\ owner' = [ref |-> Head(todo).r, proof |-> Head(todo).p]
          /\ UNCHANGED <<files, marker>>
      BY <2>6 DEF SaveOwner
    <3>2. Head(todo).w = "owner" /\ Head(todo) = todo[1] /\ MayWrite(1)
      BY <1>1, <2>6, Written DEF SaveOwner
    <3>3. Binds(Head(todo)) /\ owner.ref # Nobody
      BY <1>1, <2>1, <3>2 DEF MayWrite, ClientInv, OwnerInv
    <3> QED BY <3>1, <3>3 DEF Binds
  <2>7. CASE MigrateFile
    <3>1. Head(todo).w = "migrate" /\ Head(todo) = todo[1] /\ MayWrite(1)
      BY <1>1, <2>7, Written DEF MigrateFile
    <3> QED BY <1>1, <3>1 DEF MayWrite
  <2>8. CASE SaveMarker
    <3>1. marker' = [v |-> Head(todo).v, pending |-> Head(todo).p] /\ UNCHANGED <<owner, files>>
      BY <2>8 DEF SaveMarker
    <3>2. Head(todo).w = "marker" /\ Head(todo) = todo[1] /\ MayWrite(1)
      BY <1>1, <2>8, Written DEF SaveMarker
    <3>3. Head(todo).v = marker.v
      BY <1>1, <3>2 DEF MayWrite
    <3> QED BY <3>1, <3>3
  <2> QED BY <2>3, <2>4, <2>5, <2>6, <2>7, <2>8 DEF Write
<1> QED BY <1>1, Always, PTL DEF Spec, EffectKeepsState
=============================================================================
