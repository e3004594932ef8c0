---------------------------- MODULE ReadingProofs -----------------------------
(***************************************************************************)
(* Proofs about how pages are read: the guard of the reads (ReadGuard) and    *)
(* the collectors (Collectors).                                             *)
(*                                                                          *)
(* The guard, for every set of commands, every budget and any setting of the  *)
(* clock: after a read that was rejected or cut off nothing is read before a  *)
(* user's answer, and a suspension is never lifted.  Both rest on one fact    *)
(* about the lock: whoever is on the way to a read holds it, and the file was *)
(* open when it was taken.  The load is bounded in true time, and no command  *)
(* writes a file that the next one would refuse: the file knows every read of *)
(* the window, and none as older than it is, whatever the clock does (Covers,  *)
(* Timed).                                                                  *)
(*                                                                          *)
(* The collectors, for any codes, any length of a list and any number of      *)
(* disturbances: what Liepin's and 51job's say of a page is true of the list   *)
(* on it, and Liepin's keeps no code but the city's.  A list whose city one    *)
(* source may misstate is told by two (Drawn, BothSources).                  *)
(***************************************************************************)
EXTENDS ReadGuard, Collectors, FiniteSetTheorems, SequenceTheorems, WellFoundedInduction, TLAPS

Reading == {"throttled", "counted", "reading"}

\* The fields of the file that close it are there, whatever its times are.
Shaped(f) ==
    f \in [requests : {f.requests}, next : {f.next}, inflight : BOOLEAN,
           blocked : BOOLEAN, notBefore : {f.notBefore}, suspended : BOOLEAN]

Placed ==
    /\ lock \in Procs \cup {Nobody}
    /\ at \in [Procs -> Places]
    /\ trouble \in BOOLEAN
    /\ DOMAIN data = Procs
    /\ Shaped(file) /\ \A p \in Procs : Shaped(data[p])

HoldersHoldIt == \A p \in Procs : at[p] \in Holding => lock = p

\* A command on its way to a read works on a file that was open.
ReadersFoundItOpen ==
    \A p \in Procs :
       /\ at[p] \in Reading => ~trouble /\ ~file.suspended /\ ~data[p].suspended
       /\ at[p] = "checking" => ~file.suspended /\ ~data[p].suspended

\* A read that is under way, or cut off, is on the file.
TroubleIsOnFile ==
    /\ trouble => Closed(file)
    /\ \A p \in Procs : at[p] \in {"counted", "reading"} => file.inflight

GuardInv == Placed /\ HoldersHoldIt /\ ReadersFoundItOpen /\ TroubleIsOnFile

USE GuardAssumption

-----------------------------------------------------------------------------
(* What the operators on the file keep *)

\* Moving the times leaves the rest of the file as it is.
LEMMA ShiftedKeeps ==
    ASSUME NEW f, Shaped(f), NEW d
    PROVE  /\ Shaped(Shifted(f, d))
           /\ Shifted(f, d).inflight = f.inflight /\ Shifted(f, d).blocked = f.blocked
           /\ Shifted(f, d).suspended = f.suspended
  BY DEF Shaped, Shifted

LEMMA UpgradedKeeps ==
    ASSUME NEW f, Shaped(f), NEW d
    PROVE  /\ Shaped(Upgraded(f, d))
           /\ Upgraded(f, d).inflight = f.inflight /\ Upgraded(f, d).blocked = f.blocked
           /\ Upgraded(f, d).suspended = f.suspended
  BY DEF Shaped, Upgraded

LEMMA CountedMarks ==
    ASSUME NEW f, Shaped(f), NEW d
    PROVE  /\ Shaped(Counted(f, d))
           /\ Counted(f, d).inflight = TRUE
           /\ Counted(f, d).suspended = f.suspended
  BY DEF Shaped, Counted

LEMMA BlockedCloses ==
    ASSUME NEW f, Shaped(f)
    PROVE  /\ Shaped(Blocked(f)) /\ Closed(Blocked(f))
           /\ Blocked(f).suspended = f.suspended
  BY DEF Shaped, Blocked, Closed

LEMMA SettledKeeps ==
    ASSUME NEW f, Shaped(f)
    PROVE  Shaped(Settled(f)) /\ Settled(f).suspended = f.suspended
  BY DEF Shaped, Settled

LEMMA ReleasedKeeps ==
    ASSUME NEW f, Shaped(f)
    PROVE  Shaped(Released(f)) /\ Released(f).suspended = f.suspended
  BY DEF Shaped, Released

LEMMA SuspendedKeeps ==
    ASSUME NEW f, Shaped(f)
    PROVE  LET g == [f EXCEPT !.suspended = TRUE]
           IN  Shaped(g) /\ g.suspended /\ Closed(g)
  BY DEF Shaped, Closed

LEMMA EmptyShaped == Shaped(Empty) /\ ~Empty.suspended /\ Shaped(Legacy)
  BY DEF Shaped, Empty, Legacy

-----------------------------------------------------------------------------
(* The invariant *)

LEMMA GuardInit == Init => GuardInv
  BY EmptyShaped DEF Init, GuardInv, Placed, HoldersHoldIt, ReadersFoundItOpen, TroubleIsOnFile,
     Places, Holding, Reading

LEMMA TimesKeepInv ==
    ASSUME GuardInv, NEW d \in Int, ShiftTimes(d), UNCHANGED <<lock, at, trouble>>
    PROVE  GuardInv'
  <1>1. /\ Shaped(file') /\ file'.inflight = file.inflight /\ file'.blocked = file.blocked
        /\ file'.suspended = file.suspended
    BY ShiftedKeeps DEF GuardInv, Placed, ShiftTimes
  <1>2. \A p \in Procs : Shaped(data'[p]) /\ data'[p].suspended = data[p].suspended
    BY ShiftedKeeps DEF GuardInv, Placed, ShiftTimes
  <1>3. Placed'
    BY <1>1, <1>2 DEF GuardInv, Placed, ShiftTimes
  <1>4. HoldersHoldIt' /\ ReadersFoundItOpen' /\ TroubleIsOnFile'
    BY <1>1, <1>2 DEF GuardInv, HoldersHoldIt, ReadersFoundItOpen, TroubleIsOnFile, Closed
  <1> QED BY <1>3, <1>4 DEF GuardInv

\* Only one command can be past the lock.
LEMMA OneHolder ==
    ASSUME GuardInv
    PROVE  /\ lock = Nobody => \A p \in Procs : at[p] \notin Holding
           /\ \A p, q \in Procs : at[p] \in Holding /\ at[q] \in Holding => p = q
  BY DEF GuardInv, HoldersHoldIt

\* A command steps to a place, takes or leaves the lock, and saves a file.
LEMMA StepKeepsInv ==
    ASSUME GuardInv, NEW p \in Procs, NEW where \in Places, NEW f, NEW g,
           Shaped(f), Shaped(g),
           at' = [at EXCEPT ![p] = where], file' = f,
           DOMAIN data' = Procs, data'[p] = g, \A q \in Procs \ {p} : data'[q] = data[q],
           lock' \in Procs \cup {Nobody}, trouble' \in BOOLEAN,
           where \in Holding => lock' = p,
           \A q \in Procs \ {p} : at[q] \notin Holding \/ (lock' = q /\ f = file /\ trouble' = trouble),
           trouble' => Closed(f),
           where \in Reading => ~trouble' /\ ~f.suspended /\ ~g.suspended,
           where = "checking" => ~f.suspended /\ ~g.suspended,
           where \in {"counted", "reading"} => f.inflight
    PROVE  GuardInv'
  <1>1. at' \in [Procs -> Places] /\ at'[p] = where /\ \A q \in Procs \ {p} : at'[q] = at[q]
    BY DEF GuardInv, Placed
  <1>3. Placed'
    BY <1>1 DEF GuardInv, Placed
  <1>4. HoldersHoldIt'
    BY <1>1 DEF GuardInv, HoldersHoldIt
  <1>5. ReadersFoundItOpen'
    BY <1>1 DEF GuardInv, ReadersFoundItOpen, Reading, Holding
  <1>6. TroubleIsOnFile'
    BY <1>1 DEF GuardInv, TroubleIsOnFile, Holding
  <1> QED BY <1>3, <1>4, <1>5, <1>6 DEF GuardInv

LEMMA CommandKeepsInv ==
    ASSUME GuardInv, NEW p \in Procs, Command(p) \/ Kill(p)
    PROVE  GuardInv'
  <1>a. /\ Shaped(file) /\ Shaped(data[p]) /\ Shaped(Empty) /\ ~Empty.suspended
        /\ lock \in Procs \cup {Nobody} /\ trouble \in BOOLEAN /\ DOMAIN data = Procs
        /\ at \in [Procs -> Places] /\ (trouble => Closed(file))
    BY EmptyShaped DEF GuardInv, Placed, TroubleIsOnFile
  <1>b. /\ lock = Nobody => \A q \in Procs : at[q] \notin Holding
        /\ at[p] \in Holding => lock = p /\ \A q \in Procs \ {p} : at[q] \notin Holding
        /\ \A q \in Procs : at[q] \in Holding => lock = q
    BY OneHolder DEF GuardInv, HoldersHoldIt
  <1>c. /\ at[p] \in Reading => ~trouble /\ ~file.suspended /\ ~data[p].suspended
        /\ at[p] = "checking" => ~file.suspended /\ ~data[p].suspended
        /\ at[p] \in {"counted", "reading"} => file.inflight
    BY DEF GuardInv, ReadersFoundItOpen, TroubleIsOnFile
  <1>1. CASE Collect(p)
    <2> DEFINE f == file
               g == data[p]
    <2>2. Shaped(f) /\ Shaped(g)
      BY <1>a, <1>1 DEF Collect
    <2>3. at' = [at EXCEPT ![p] = "collecting"] /\ file' = f /\ DOMAIN data' = Procs /\ data'[p] = g
          /\ \A q \in Procs \ {p} : data'[q] = data[q]
      BY <1>a, <1>1 DEF Collect, Goto, Save, Load, Forget, Leave
    <2>4. lock' \in Procs \cup {Nobody} /\ trouble' \in BOOLEAN /\ ("collecting" \in Holding => lock' = p)
      BY <1>a, <1>b, <1>1 DEF Collect, Take, Leave, Holding
    <2>5. \A q \in Procs \ {p} : at[q] \notin Holding \/ (lock' = q /\ f = file /\ trouble' = trouble)
      BY <1>a, <1>b, <1>1 DEF Collect, Take, Leave, Holding
    <2>6. trouble' => Closed(f)
      BY <1>a, <1>c, <1>1 DEF Collect, Reading, Closed
    <2>7. /\ "collecting" \in Reading => ~trouble' /\ ~f.suspended /\ ~g.suspended
          /\ "collecting" = "checking" => ~f.suspended /\ ~g.suspended
          /\ "collecting" \in {"counted", "reading"} => f.inflight
      BY <1>a, <1>c, <1>1 DEF Collect, Reading, Closed
    <2> HIDE DEF f, g
    <2> QED BY <2>2, <2>3, <2>4, <2>5, <2>6, <2>7, StepKeepsInv DEF Places
  <1>2. CASE Finish(p)
    <2> DEFINE f == file
               g == data[p]
    <2>2. Shaped(f) /\ Shaped(g)
      BY <1>a, <1>2 DEF Finish
    <2>3. at' = [at EXCEPT ![p] = "idle"] /\ file' = f /\ DOMAIN data' = Procs /\ data'[p] = g
          /\ \A q \in Procs \ {p} : data'[q] = data[q]
      BY <1>a, <1>2 DEF Finish, Goto, Save, Load, Forget, Leave
    <2>4. lock' \in Procs \cup {Nobody} /\ trouble' \in BOOLEAN /\ ("idle" \in Holding => lock' = p)
      BY <1>a, <1>b, <1>2 DEF Finish, Take, Leave, Holding
    <2>5. \A q \in Procs \ {p} : at[q] \notin Holding \/ (lock' = q /\ f = file /\ trouble' = trouble)
      BY <1>a, <1>b, <1>2 DEF Finish, Take, Leave, Holding
    <2>6. trouble' => Closed(f)
      BY <1>a, <1>c, <1>2 DEF Finish, Reading, Closed
    <2>7. /\ "idle" \in Reading => ~trouble' /\ ~f.suspended /\ ~g.suspended
          /\ "idle" = "checking" => ~f.suspended /\ ~g.suspended
          /\ "idle" \in {"counted", "reading"} => f.inflight
      BY <1>a, <1>c, <1>2 DEF Finish, Reading, Closed
    <2> HIDE DEF f, g
    <2> QED BY <2>2, <2>3, <2>4, <2>5, <2>6, <2>7, StepKeepsInv DEF Places
  <1>3. CASE Call(p)
    <2>1. PICK d \in Intervals : file' = Upgraded(file, d) /\ data' = [data EXCEPT ![p] = Upgraded(file, d)]
      BY <1>3 DEF Call, Save
    <2> DEFINE f == Upgraded(file, d)
               g == Upgraded(file, d)
    <2>2. Shaped(f) /\ Shaped(g)
      BY <2>1, <1>a, UpgradedKeeps, <1>3 DEF Call
    <2>3. at' = [at EXCEPT ![p] = "throttled"] /\ file' = f /\ DOMAIN data' = Procs /\ data'[p] = g
          /\ \A q \in Procs \ {p} : data'[q] = data[q]
      BY <2>1, <1>a, <1>3 DEF Call, Goto, Save, Load, Forget, Leave
    <2>4. lock' \in Procs \cup {Nobody} /\ trouble' \in BOOLEAN /\ ("throttled" \in Holding => lock' = p)
      BY <1>a, <1>b, <1>3 DEF Call, Take, Leave, Holding
    <2>5. \A q \in Procs \ {p} : at[q] \notin Holding \/ (lock' = q /\ f = file /\ trouble' = trouble)
      BY <1>a, <1>b, <1>3 DEF Call, Take, Leave, Holding
    <2>6. trouble' => Closed(f)
      BY <1>a, <1>c, UpgradedKeeps, <1>3 DEF Call, Reading, Closed
    <2>7. /\ "throttled" \in Reading => ~trouble' /\ ~f.suspended /\ ~g.suspended
          /\ "throttled" = "checking" => ~f.suspended /\ ~g.suspended
          /\ "throttled" \in {"counted", "reading"} => f.inflight
      BY <1>a, <1>c, UpgradedKeeps, <1>3 DEF Call, Reading, Closed
    <2> HIDE DEF f, g
    <2> QED BY <2>2, <2>3, <2>4, <2>5, <2>6, <2>7, StepKeepsInv DEF Places
  <1>4. CASE GiveUp(p)
    <2> DEFINE f == file
               g == Empty
    <2>2. Shaped(f) /\ Shaped(g)
      BY <1>a, <1>4 DEF GiveUp
    <2>3. at' = [at EXCEPT ![p] = "idle"] /\ file' = f /\ DOMAIN data' = Procs /\ data'[p] = g
          /\ \A q \in Procs \ {p} : data'[q] = data[q]
      BY <1>a, <1>4 DEF GiveUp, Goto, Save, Load, Forget, Leave
    <2>4. lock' \in Procs \cup {Nobody} /\ trouble' \in BOOLEAN /\ ("idle" \in Holding => lock' = p)
      BY <1>a, <1>b, <1>4 DEF GiveUp, Take, Leave, Holding
    <2>5. \A q \in Procs \ {p} : at[q] \notin Holding \/ (lock' = q /\ f = file /\ trouble' = trouble)
      BY <1>a, <1>b, <1>4 DEF GiveUp, Take, Leave, Holding
    <2>6. trouble' => Closed(f)
      BY <1>a, <1>c, <1>4 DEF GiveUp, Reading, Closed
    <2>7. /\ "idle" \in Reading => ~trouble' /\ ~f.suspended /\ ~g.suspended
          /\ "idle" = "checking" => ~f.suspended /\ ~g.suspended
          /\ "idle" \in {"counted", "reading"} => f.inflight
      BY <1>a, <1>c, <1>4 DEF GiveUp, Reading, Closed
    <2> HIDE DEF f, g
    <2> QED BY <2>2, <2>3, <2>4, <2>5, <2>6, <2>7, StepKeepsInv DEF Places
  <1>5. CASE Count(p)
    <2>1. PICK d \in Intervals : file' = Counted(data[p], d) /\ data' = [data EXCEPT ![p] = Counted(data[p], d)]
      BY <1>5 DEF Count, Save
    <2> DEFINE f == Counted(data[p], d)
               g == Counted(data[p], d)
    <2>2. Shaped(f) /\ Shaped(g)
      BY <2>1, <1>a, CountedMarks, <1>5 DEF Count
    <2>3. at' = [at EXCEPT ![p] = "counted"] /\ file' = f /\ DOMAIN data' = Procs /\ data'[p] = g
          /\ \A q \in Procs \ {p} : data'[q] = data[q]
      BY <2>1, <1>a, <1>5 DEF Count, Goto, Save, Load, Forget, Leave
    <2>4. lock' \in Procs \cup {Nobody} /\ trouble' \in BOOLEAN /\ ("counted" \in Holding => lock' = p)
      BY <1>a, <1>b, <1>5 DEF Count, Take, Leave, Holding
    <2>5. \A q \in Procs \ {p} : at[q] \notin Holding \/ (lock' = q /\ f = file /\ trouble' = trouble)
      BY <1>a, <1>b, <1>5 DEF Count, Take, Leave, Holding
    <2>6. trouble' => Closed(f)
      BY <1>a, <1>c, CountedMarks, <1>5 DEF Count, Reading, Closed
    <2>7. /\ "counted" \in Reading => ~trouble' /\ ~f.suspended /\ ~g.suspended
          /\ "counted" = "checking" => ~f.suspended /\ ~g.suspended
          /\ "counted" \in {"counted", "reading"} => f.inflight
      BY <1>a, <1>c, CountedMarks, <1>5 DEF Count, Reading, Closed
    <2> HIDE DEF f, g
    <2> QED BY <2>2, <2>3, <2>4, <2>5, <2>6, <2>7, StepKeepsInv DEF Places
  <1>6. CASE Send(p)
    <2> DEFINE f == file
               g == data[p]
    <2>2. Shaped(f) /\ Shaped(g)
      BY <1>a, <1>6 DEF Send
    <2>3. at' = [at EXCEPT ![p] = "reading"] /\ file' = f /\ DOMAIN data' = Procs /\ data'[p] = g
          /\ \A q \in Procs \ {p} : data'[q] = data[q]
      BY <1>a, <1>6 DEF Send, Goto, Save, Load, Forget, Leave
    <2>4. lock' \in Procs \cup {Nobody} /\ trouble' \in BOOLEAN /\ ("reading" \in Holding => lock' = p)
      BY <1>a, <1>b, <1>6 DEF Send, Take, Leave, Holding
    <2>5. \A q \in Procs \ {p} : at[q] \notin Holding \/ (lock' = q /\ f = file /\ trouble' = trouble)
      BY <1>a, <1>b, <1>6 DEF Send, Take, Leave, Holding
    <2>6. trouble' => Closed(f)
      BY <1>a, <1>c, <1>6 DEF Send, Reading, Closed
    <2>7. /\ "reading" \in Reading => ~trouble' /\ ~f.suspended /\ ~g.suspended
          /\ "reading" = "checking" => ~f.suspended /\ ~g.suspended
          /\ "reading" \in {"counted", "reading"} => f.inflight
      BY <1>a, <1>c, <1>6 DEF Send, Reading, Closed
    <2> HIDE DEF f, g
    <2> QED BY <2>2, <2>3, <2>4, <2>5, <2>6, <2>7, StepKeepsInv DEF Places
  <1>7. CASE Answered(p)
    <2> DEFINE f == Settled(data[p])
               g == Empty
    <2>2. Shaped(f) /\ Shaped(g)
      BY <1>a, SettledKeeps, <1>7 DEF Answered
    <2>3. at' = [at EXCEPT ![p] = "collecting"] /\ file' = f /\ DOMAIN data' = Procs /\ data'[p] = g
          /\ \A q \in Procs \ {p} : data'[q] = data[q]
      BY <1>a, <1>7 DEF Answered, Goto, Save, Load, Forget, Leave
    <2>4. lock' \in Procs \cup {Nobody} /\ trouble' \in BOOLEAN /\ ("collecting" \in Holding => lock' = p)
      BY <1>a, <1>b, <1>7 DEF Answered, Take, Leave, Holding
    <2>5. \A q \in Procs \ {p} : at[q] \notin Holding \/ (lock' = q /\ f = file /\ trouble' = trouble)
      BY <1>a, <1>b, <1>7 DEF Answered, Take, Leave, Holding
    <2>6. trouble' => Closed(f)
      BY <1>a, <1>c, SettledKeeps, <1>7 DEF Answered, Reading, Closed
    <2>7. /\ "collecting" \in Reading => ~trouble' /\ ~f.suspended /\ ~g.suspended
          /\ "collecting" = "checking" => ~f.suspended /\ ~g.suspended
          /\ "collecting" \in {"counted", "reading"} => f.inflight
      BY <1>a, <1>c, SettledKeeps, <1>7 DEF Answered, Reading, Closed
    <2> HIDE DEF f, g
    <2> QED BY <2>2, <2>3, <2>4, <2>5, <2>6, <2>7, StepKeepsInv DEF Places
  <1>8. CASE Rejected(p)
    <2> DEFINE f == Blocked(data[p])
               g == Empty
    <2>2. Shaped(f) /\ Shaped(g)
      BY <1>a, BlockedCloses, <1>8 DEF Rejected
    <2>3. at' = [at EXCEPT ![p] = "idle"] /\ file' = f /\ DOMAIN data' = Procs /\ data'[p] = g
          /\ \A q \in Procs \ {p} : data'[q] = data[q]
      BY <1>a, <1>8 DEF Rejected, Goto, Save, Load, Forget, Leave
    <2>4. lock' \in Procs \cup {Nobody} /\ trouble' \in BOOLEAN /\ ("idle" \in Holding => lock' = p)
      BY <1>a, <1>b, <1>8 DEF Rejected, Take, Leave, Holding
    <2>5. \A q \in Procs \ {p} : at[q] \notin Holding \/ (lock' = q /\ f = file /\ trouble' = trouble)
      BY <1>a, <1>b, <1>8 DEF Rejected, Take, Leave, Holding
    <2>6. trouble' => Closed(f)
      BY <1>a, <1>c, BlockedCloses, <1>8 DEF Rejected, Reading, Closed
    <2>7. /\ "idle" \in Reading => ~trouble' /\ ~f.suspended /\ ~g.suspended
          /\ "idle" = "checking" => ~f.suspended /\ ~g.suspended
          /\ "idle" \in {"counted", "reading"} => f.inflight
      BY <1>a, <1>c, BlockedCloses, <1>8 DEF Rejected, Reading, Closed
    <2> HIDE DEF f, g
    <2> QED BY <2>2, <2>3, <2>4, <2>5, <2>6, <2>7, StepKeepsInv DEF Places
  <1>9. CASE Confirm(p)
    <2> DEFINE f == file
               g == file
    <2>2. Shaped(f) /\ Shaped(g)
      BY <1>a, <1>9 DEF Confirm
    <2>3. at' = [at EXCEPT ![p] = "checking"] /\ file' = f /\ DOMAIN data' = Procs /\ data'[p] = g
          /\ \A q \in Procs \ {p} : data'[q] = data[q]
      BY <1>a, <1>9 DEF Confirm, Goto, Save, Load, Forget, Leave
    <2>4. lock' \in Procs \cup {Nobody} /\ trouble' \in BOOLEAN /\ ("checking" \in Holding => lock' = p)
      BY <1>a, <1>b, <1>9 DEF Confirm, Take, Leave, Holding
    <2>5. \A q \in Procs \ {p} : at[q] \notin Holding \/ (lock' = q /\ f = file /\ trouble' = trouble)
      BY <1>a, <1>b, <1>9 DEF Confirm, Take, Leave, Holding
    <2>6. trouble' => Closed(f)
      BY <1>a, <1>c, <1>9 DEF Confirm, Reading, Closed
    <2>7. /\ "checking" \in Reading => ~trouble' /\ ~f.suspended /\ ~g.suspended
          /\ "checking" = "checking" => ~f.suspended /\ ~g.suspended
          /\ "checking" \in {"counted", "reading"} => f.inflight
      BY <1>a, <1>c, <1>9 DEF Confirm, Reading, Closed
    <2> HIDE DEF f, g
    <2> QED BY <2>2, <2>3, <2>4, <2>5, <2>6, <2>7, StepKeepsInv DEF Places
  <1>10. CASE Ready(p)
    <2> DEFINE f == Released(data[p])
               g == Empty
    <2>2. Shaped(f) /\ Shaped(g)
      BY <1>a, ReleasedKeeps, <1>10 DEF Ready
    <2>3. at' = [at EXCEPT ![p] = "idle"] /\ file' = f /\ DOMAIN data' = Procs /\ data'[p] = g
          /\ \A q \in Procs \ {p} : data'[q] = data[q]
      BY <1>a, <1>10 DEF Ready, Goto, Save, Load, Forget, Leave
    <2>4. lock' \in Procs \cup {Nobody} /\ trouble' \in BOOLEAN /\ ("idle" \in Holding => lock' = p)
      BY <1>a, <1>b, <1>10 DEF Ready, Take, Leave, Holding
    <2>5. \A q \in Procs \ {p} : at[q] \notin Holding \/ (lock' = q /\ f = file /\ trouble' = trouble)
      BY <1>a, <1>b, <1>10 DEF Ready, Take, Leave, Holding
    <2>6. trouble' => Closed(f)
      BY <1>a, <1>c, ReleasedKeeps, <1>10 DEF Ready, Reading, Closed
    <2>7. /\ "idle" \in Reading => ~trouble' /\ ~f.suspended /\ ~g.suspended
          /\ "idle" = "checking" => ~f.suspended /\ ~g.suspended
          /\ "idle" \in {"counted", "reading"} => f.inflight
      BY <1>a, <1>c, ReleasedKeeps, <1>10 DEF Ready, Reading, Closed
    <2> HIDE DEF f, g
    <2> QED BY <2>2, <2>3, <2>4, <2>5, <2>6, <2>7, StepKeepsInv DEF Places
  <1>11. CASE NotReady(p)
    <2> DEFINE f == file
               g == Empty
    <2>2. Shaped(f) /\ Shaped(g)
      BY <1>a, <1>11 DEF NotReady
    <2>3. at' = [at EXCEPT ![p] = "idle"] /\ file' = f /\ DOMAIN data' = Procs /\ data'[p] = g
          /\ \A q \in Procs \ {p} : data'[q] = data[q]
      BY <1>a, <1>11 DEF NotReady, Goto, Save, Load, Forget, Leave
    <2>4. lock' \in Procs \cup {Nobody} /\ trouble' \in BOOLEAN /\ ("idle" \in Holding => lock' = p)
      BY <1>a, <1>b, <1>11 DEF NotReady, Take, Leave, Holding
    <2>5. \A q \in Procs \ {p} : at[q] \notin Holding \/ (lock' = q /\ f = file /\ trouble' = trouble)
      BY <1>a, <1>b, <1>11 DEF NotReady, Take, Leave, Holding
    <2>6. trouble' => Closed(f)
      BY <1>a, <1>c, <1>11 DEF NotReady, Reading, Closed
    <2>7. /\ "idle" \in Reading => ~trouble' /\ ~f.suspended /\ ~g.suspended
          /\ "idle" = "checking" => ~f.suspended /\ ~g.suspended
          /\ "idle" \in {"counted", "reading"} => f.inflight
      BY <1>a, <1>c, <1>11 DEF NotReady, Reading, Closed
    <2> HIDE DEF f, g
    <2> QED BY <2>2, <2>3, <2>4, <2>5, <2>6, <2>7, StepKeepsInv DEF Places
  <1>12. CASE Kill(p)
    <2> DEFINE f == file
               g == Empty
    <2>2. Shaped(f) /\ Shaped(g)
      BY <1>a, <1>12 DEF Kill
    <2>3. at' = [at EXCEPT ![p] = "idle"] /\ file' = f /\ DOMAIN data' = Procs /\ data'[p] = g
          /\ \A q \in Procs \ {p} : data'[q] = data[q]
      BY <1>a, <1>12 DEF Kill, Goto, Save, Load, Forget, Leave
    <2>4. lock' \in Procs \cup {Nobody} /\ trouble' \in BOOLEAN /\ ("idle" \in Holding => lock' = p)
      BY <1>a, <1>b, <1>12 DEF Kill, Take, Leave, Holding
    <2>5. \A q \in Procs \ {p} : at[q] \notin Holding \/ (lock' = q /\ f = file /\ trouble' = trouble)
      BY <1>a, <1>b, <1>12 DEF Kill, Take, Leave, Holding
    <2>6. trouble' => Closed(f)
      BY <1>a, <1>c, <1>12 DEF Kill, Reading, Closed
    <2>7. /\ "idle" \in Reading => ~trouble' /\ ~f.suspended /\ ~g.suspended
          /\ "idle" = "checking" => ~f.suspended /\ ~g.suspended
          /\ "idle" \in {"counted", "reading"} => f.inflight
      BY <1>a, <1>c, <1>12 DEF Kill, Reading, Closed
    <2> HIDE DEF f, g
    <2> QED BY <2>2, <2>3, <2>4, <2>5, <2>6, <2>7, StepKeepsInv DEF Places
  <1> QED BY <1>1, <1>2, <1>3, <1>4, <1>5, <1>6, <1>7, <1>8, <1>9, <1>10, <1>11, <1>12 DEF Command

\* What the user and the engineer do from outside takes a free lock.
LEMMA OutsideKeepsInv ==
    ASSUME GuardInv, Block \/ Suspend
    PROVE  GuardInv'
  <1>1. /\ Shaped(file) /\ lock = Nobody /\ \A q \in Procs : at[q] \notin Holding
        /\ UNCHANGED <<lock, at, data>>
    BY OneHolder DEF GuardInv, Placed, Block, Suspend
  <1>2. Shaped(file') /\ Closed(file') /\ trouble' \in BOOLEAN
    <2>1. CASE Block
      BY <2>1, <1>1, BlockedCloses DEF Block, Save
    <2>2. CASE Suspend
      BY <2>2, <1>1, SuspendedKeeps DEF Suspend, Save, GuardInv, Placed
    <2> QED BY <2>1, <2>2
  <1>3. Placed' /\ HoldersHoldIt'
    BY <1>1, <1>2 DEF GuardInv, Placed, HoldersHoldIt
  <1>4. ReadersFoundItOpen' /\ TroubleIsOnFile'
    BY <1>1, <1>2 DEF ReadersFoundItOpen, TroubleIsOnFile, Reading, Holding
  <1> QED BY <1>3, <1>4 DEF GuardInv

LEMMA GuardStep == GuardInv /\ [Next]_vars => GuardInv'
  <1> SUFFICES ASSUME GuardInv, [Next]_vars PROVE GuardInv'
    OBVIOUS
  <1>1. CASE \E p \in Procs : Command(p) \/ Kill(p)
    BY <1>1, CommandKeepsInv
  <1>2. CASE Block \/ Suspend
    BY <1>2, OutsideKeepsInv
  <1>3. CASE Tick
    BY <1>3, TimesKeepInv DEF Tick
  <1>4. CASE ClockSetBack
    BY <1>4, TimesKeepInv DEF ClockSetBack
  <1>5. CASE UNCHANGED vars
    BY <1>5 DEF vars, GuardInv, Placed, HoldersHoldIt, ReadersFoundItOpen, TroubleIsOnFile, Closed
  <1> QED BY <1>1, <1>2, <1>3, <1>4, <1>5 DEF Next

THEOREM GuardAlways == Spec => []GuardInv
  BY GuardInit, GuardStep, PTL DEF Spec

\* Between a rejected or killed read and the user's answer no command, of
\* however many on the profile, is on its way to another read.
THEOREM NothingReadInTrouble == Spec => []StoppedByTrouble
  <1>1. GuardInv => StoppedByTrouble
    BY DEF GuardInv, ReadersFoundItOpen, StoppedByTrouble, Reading
  <1> QED BY <1>1, GuardAlways, PTL

-----------------------------------------------------------------------------
(* Suspension *)

\* A command saves what it loaded under the lock, so it takes no suspension away.
LEMMA CommandKeepsSuspension ==
    ASSUME GuardInv, file.suspended, NEW p \in Procs, Command(p) \/ Kill(p)
    PROVE  /\ file' = file
           /\ \A q \in Procs : at[q] = "throttled" => at'[q] # "counted"
  <1>1. at[p] \notin Reading \cup {"checking"} /\ \A q \in Procs : at[q] \notin Reading
    BY DEF GuardInv, ReadersFoundItOpen
  <1>2. Closed(file)
    BY DEF Closed
  <1>3. file' = file
    BY <1>1, <1>2 DEF Command, Kill, Collect, Finish, Call, GiveUp, Count, Send, Answered, Rejected,
       Confirm, Ready, NotReady, Reading
  <1> QED BY <1>1, <1>3 DEF Reading

\* No step of any command, user or clock lifts a suspension or reads under it.
THEOREM SuspensionIsFinal == Spec => SuspensionHolds
  <1> DEFINE Held == file.suspended =>
               /\ file'.suspended
               /\ \A p \in Procs : at[p] = "throttled" => at'[p] # "counted"
  <1>1. ASSUME GuardInv, [Next]_vars, file.suspended
        PROVE  /\ file'.suspended
               /\ \A p \in Procs : at[p] = "throttled" => at'[p] # "counted"
    <2>0. Shaped(file) /\ file.suspended = TRUE
      BY <1>1 DEF GuardInv, Placed, Shaped
    <2>1. CASE \E p \in Procs : Command(p) \/ Kill(p)
      BY <1>1, <2>1, CommandKeepsSuspension
    <2>2. CASE Block
      BY <1>1, <2>0, <2>2, BlockedCloses DEF Block, Save
    <2>3. CASE Suspend
      BY <1>1, <2>0, <2>3, SuspendedKeeps DEF Suspend, Save
    <2>4. CASE Tick \/ ClockSetBack
      BY <1>1, <2>0, <2>4, ShiftedKeeps DEF Tick, ClockSetBack, ShiftTimes
    <2>5. CASE UNCHANGED vars
      BY <1>1, <2>5 DEF vars
    <2> QED BY <1>1, <2>1, <2>2, <2>3, <2>4, <2>5 DEF Next
  <1>2. GuardInv /\ [Next]_vars => [Held]_vars
    BY <1>1
  <1> QED BY <1>2, GuardAlways, PTL DEF Spec, SuspensionHolds

-----------------------------------------------------------------------------
(* The load *)

InOrder(times) ==
    /\ times \in Seq(Int)
    /\ \A i \in 1..Len(times) : -Window <= times[i]
    /\ \A i, j \in 1..Len(times) : i <= j => times[i] <= times[j]

\* The times of a file: none is older than is told apart, the reads are in
\* order, and the next one is noted to be no sooner than the least interval
\* after the last.
Timed(f) ==
    /\ InOrder(f.requests)
    /\ f.next \in Int
    /\ f.next = Never \/ f.next >= MinInterval - Window
    /\ f.next # Never /\ f.requests # <<>> => f.next >= f.requests[Len(f.requests)] + MinInterval

\* The reads the platform met, as they are bounded.
Spaced(s) ==
    /\ s \in Seq(Int)
    /\ \A i \in 1..Len(s) : -Window < s[i] /\ s[i] <= 0
    /\ \A i, j \in 1..Len(s) : i < j => s[j] - s[i] >= MinInterval

\* The file knows them all, and none of them as older than it is.
Covers(f, s) ==
    /\ Len(s) <= Len(f.requests)
    /\ \A i \in 1..Len(s) : s[i] <= f.requests[Len(f.requests) - Len(s) + i]
    /\ s # <<>> => f.next = Never \/ f.next >= s[Len(s)] + MinInterval

\* A command that holds the lock has what is on file, and the others nothing.
Loaded ==
    /\ \A p \in Procs : IF at[p] \in Holding THEN data[p] = file ELSE data[p].requests = <<>>
    /\ \A p \in Procs : at[p] = "throttled" /\ file.requests # <<>> => file.next # Never

LoadInv == Timed(file) /\ Spaced(ages) /\ Len(ages) <= MaxReads /\ Covers(file, ages) /\ Loaded

\* Times in order have a first one in the window.
LEMMA WithinIsSuffix ==
    ASSUME NEW times, InOrder(times)
    PROVE  \E k \in 0..Len(times) :
             /\ Within(times) \in Seq(Int)
             /\ Len(Within(times)) = Len(times) - k
             /\ \A i \in 1..(Len(times) - k) : Within(times)[i] = times[k + i]
             /\ \A i \in 1..Len(times) : -Window < times[i] <=> k < i
<1> DEFINE n == Len(times)
           T == {i \in 1..n : -times[i] < Window}
           First(i) == \A j \in 1..n : -times[j] < Window <=> i <= j
<1>1. n \in Nat /\ times \in Seq(Int) /\ Window \in Int
  BY DEF InOrder
<1>2. \E i \in 1..(n + 1) : First(i)
  <2>1. CASE T = {}
    <3>1. \A j \in 1..n : ~(-times[j] < Window)
      BY <2>1
    <3>2. n + 1 \in 1..(n + 1) /\ \A j \in 1..n : ~(n + 1 <= j)
      BY <1>1
    <3> QED BY <3>1, <3>2
  <2>2. CASE T # {}
    <3> DEFINE R == {ss \in Nat \X Nat : ss[1] < ss[2]}
    <3>0. T \subseteq Nat
      BY <1>1
    <3>1. IsWellFoundedOn(R, Nat)
      BY NatLessThanWellFounded DEF OpToRel
    <3>2. PICK x \in T : \A y \in T : ~(<<y, x>> \in R)
      <4> HIDE DEF R, T
      <4> QED BY <2>2, <3>0, <3>1, WFMin
    <3>3. ASSUME NEW y \in T PROVE x <= y
      <4> HIDE DEF T
      <4>1. x \in Nat /\ y \in Nat /\ <<y, x>> \notin R
        BY <3>0, <3>2
      <4>2. ~(y < x)
        BY <4>1
      <4> QED BY <4>1, <4>2
    <3>4. \A j \in 1..n : x <= j => -times[j] < Window
      BY SMTT(40), <1>1, <3>3 DEF InOrder
    <3>5. First(x) /\ x \in 1..(n + 1)
      BY SMTT(40), <1>1, <3>3, <3>4
    <3> QED BY <3>5
  <2> QED BY <2>1, <2>2
<1>3. PICK first \in 1..(n + 1) : First(first) /\ Within(times) = SubSeq(times, first, n)
  <2>1. First(CHOOSE i \in 1..(n + 1) : First(i)) /\ (CHOOSE i \in 1..(n + 1) : First(i)) \in 1..(n + 1)
    BY <1>2
  <2>2. Within(times) = SubSeq(times, CHOOSE i \in 1..(n + 1) : First(i), n)
    BY DEF Within
  <2> QED BY <2>1, <2>2
<1>4. \A i \in first..n : times[i] \in Int
  BY <1>1
<1>5. /\ SubSeq(times, first, n) \in Seq(Int)
      /\ Len(SubSeq(times, first, n)) = IF first <= n THEN n - first + 1 ELSE 0
      /\ \A i \in 1..(n - first + 1) : SubSeq(times, first, n)[i] = times[first + i - 1]
  BY <1>1, <1>4, SubSeqProperties
<1>6. first - 1 \in 0..n
  BY <1>1
<1> HIDE DEF First, T
<1>a. First(first)
  BY <1>3
<1>b. \A i \in 1..n : -times[i] < Window <=> first <= i
  BY <1>a DEF First
<1>7. \A i \in 1..n : -Window < times[i] <=> first - 1 < i
  <2> TAKE i \in 1..n
  <2>1. times[i] \in Int /\ i \in Int /\ first \in Int /\ Window \in Int
    BY <1>1, GuardAssumption
  <2>2. (-times[i] < Window) <=> (-Window < times[i])
    BY <2>1
  <2>3. (first <= i) <=> (first - 1 < i)
    BY <2>1
  <2> QED BY <1>b, <2>2, <2>3
<1>8. /\ Within(times) \in Seq(Int)
      /\ Len(Within(times)) = n - (first - 1)
      /\ \A i \in 1..(n - (first - 1)) : Within(times)[i] = times[(first - 1) + i]
  <2>1. n - (first - 1) = n - first + 1 /\ \A i \in Int : first + i - 1 = (first - 1) + i
    BY <1>1
  <2>2. first <= n \/ n - first + 1 = 0
    BY <1>1
  <2> QED BY SMTT(40), <1>1, <1>3, <1>5, <2>1, <2>2
<1> QED BY <1>6, <1>7, <1>8

LEMMA TimesAreIntegers ==
    /\ Window \in Nat /\ MaxReads \in Nat /\ MinInterval \in Nat /\ Setback \in Nat
    /\ 0 < MinInterval /\ MinInterval < Window /\ 0 < MaxReads
    /\ Never \in Int /\ Never < -Window /\ Never < MinInterval - Window
  BY DEF Never

\* Moving the times keeps their order, and moves none further back than asked.
LEMMA ShiftedTimes ==
    ASSUME NEW f, Shaped(f), Timed(f), NEW d \in Int
    PROVE  /\ Timed(Shifted(f, d))
           /\ Len(Shifted(f, d).requests) = Len(f.requests)
           /\ \A i \in 1..Len(f.requests) : f.requests[i] + d <= Shifted(f, d).requests[i]
           /\ Shifted(f, d).next = Never <=> f.next = Never
           /\ f.next # Never => f.next + d <= Shifted(f, d).next
<1> DEFINE r == f.requests
           q == [i \in DOMAIN r |-> Later(r[i], d, -Window)]
           x == Later(f.next, d, MinInterval - Window)
<1>1. Shifted(f, d).requests = q /\ Shifted(f, d).next = x
  BY DEF Shaped, Shifted
<1>2. /\ r \in Seq(Int) /\ Len(r) \in Nat /\ DOMAIN r = 1..Len(r)
      /\ \A i \in 1..Len(r) : r[i] \in Int /\ -Window <= r[i] /\ r[i] # Never
      /\ \A i, j \in 1..Len(r) : i <= j => r[i] <= r[j]
  BY TimesAreIntegers DEF Timed, InOrder
<1>3. \A i \in 1..Len(r) : q[i] = IF r[i] + d < -Window THEN -Window ELSE r[i] + d
  BY <1>2 DEF Later
<1>4. ASSUME NEW i \in 1..Len(r)
      PROVE  q[i] \in Int /\ -Window <= q[i] /\ r[i] + d <= q[i]
  <2>1. r[i] \in Int /\ q[i] = IF r[i] + d < -Window THEN -Window ELSE r[i] + d
    BY <1>2, <1>3
  <2> HIDE DEF q, r
  <2> QED BY <2>1, TimesAreIntegers
<1>5. q \in Seq(Int) /\ Len(q) = Len(r)
  <2>1. \A i \in 1..Len(r) : Later(r[i], d, -Window) \in Int
    BY <1>4, <1>2
  <2>2. q = [i \in 1..Len(r) |-> Later(r[i], d, -Window)]
    BY <1>2
  <2> QED BY SMTT(40), <1>2, <2>1, <2>2
<1>6. ASSUME NEW i \in 1..Len(r), NEW j \in 1..Len(r), i <= j
      PROVE  q[i] <= q[j]
  <2>1. /\ r[i] \in Int /\ q[i] = IF r[i] + d < -Window THEN -Window ELSE r[i] + d
        /\ r[j] \in Int /\ q[j] = IF r[j] + d < -Window THEN -Window ELSE r[j] + d
        /\ r[i] <= r[j]
    BY <1>2, <1>3, <1>6
  <2> HIDE DEF q, r
  <2> QED BY <2>1, TimesAreIntegers
<1>7. InOrder(q)
  BY <1>4, <1>5, <1>6 DEF InOrder
<1>8. /\ f.next \in Int /\ (f.next = Never \/ f.next >= MinInterval - Window)
      /\ f.next # Never /\ r # <<>> => f.next >= r[Len(r)] + MinInterval
  BY DEF Timed
<1>9. /\ x \in Int /\ (x = Never <=> f.next = Never) /\ (x = Never \/ x >= MinInterval - Window)
      /\ f.next # Never => f.next + d <= x
      /\ x # Never => x = IF f.next + d < MinInterval - Window THEN MinInterval - Window
                                                               ELSE f.next + d
  BY <1>8, TimesAreIntegers DEF Later
<1>10. ASSUME x # Never, q # <<>> PROVE x >= q[Len(q)] + MinInterval
  <2>1. r # <<>> /\ Len(r) \in 1..Len(r)
    BY SMTT(40), <1>2, <1>5, <1>10
  <2>2. q[Len(q)] = IF r[Len(r)] + d < -Window THEN -Window ELSE r[Len(r)] + d
    BY <1>3, <1>5, <2>1
  <2>3. f.next >= r[Len(r)] + MinInterval /\ r[Len(r)] \in Int
    BY <1>2, <1>8, <1>9, <1>10, <2>1
  <2>4. PICK last \in Int, next \in Int : last = r[Len(r)] /\ next = f.next
    BY <1>8, <2>3
  <2>5. /\ x = IF next + d < MinInterval - Window THEN MinInterval - Window ELSE next + d
        /\ q[Len(q)] = IF last + d < -Window THEN -Window ELSE last + d
        /\ next >= last + MinInterval
    BY <1>9, <1>10, <2>2, <2>3, <2>4
  <2> HIDE DEF q, x, r
  <2>6. CASE next + d < MinInterval - Window
    <3>1. x = MinInterval - Window /\ q[Len(q)] = -Window
      BY <2>5, <2>6, TimesAreIntegers
    <3> QED BY <3>1, TimesAreIntegers
  <2>7. CASE ~(next + d < MinInterval - Window)
    <3>1. x = next + d /\ next + d >= MinInterval - Window /\ next + d >= (last + d) + MinInterval
      BY <2>5, <2>7, TimesAreIntegers
    <3>2. CASE last + d < -Window
      <4>1. q[Len(q)] = -Window
        BY <2>5, <3>2
      <4> QED BY <3>1, <4>1, TimesAreIntegers
    <3>3. CASE ~(last + d < -Window)
      <4>1. q[Len(q)] = last + d
        BY <2>5, <3>3
      <4> QED BY <3>1, <4>1
    <3> QED BY <3>2, <3>3
  <2> QED BY <2>6, <2>7
<1> HIDE DEF q, x
<1>11. Timed(Shifted(f, d))
  BY <1>1, <1>7, <1>9, <1>10 DEF Timed
<1> QED BY <1>1, <1>4, <1>5, <1>9, <1>11

\* The reads, and the file that knows them, a unit of time later.
LEMMA ReadsGrowOld ==
    ASSUME NEW f, NEW g, NEW s, Timed(f), Timed(g), Spaced(s), Covers(f, s),
           Len(g.requests) = Len(f.requests),
           \A i \in 1..Len(f.requests) : f.requests[i] - 1 <= g.requests[i],
           g.next = Never <=> f.next = Never, f.next # Never => f.next - 1 <= g.next
    PROVE  LET aged == Within([i \in DOMAIN s |-> s[i] - 1])
           IN  Spaced(aged) /\ Len(aged) <= Len(s) /\ Covers(g, aged)
<1> DEFINE t == [i \in DOMAIN s |-> s[i] - 1]
           aged == Within(t)
<1>1. PICK n \in Nat : n = Len(s)
  BY LenProperties DEF Spaced
<1>2. PICK m \in Nat : m = Len(f.requests)
  BY LenProperties DEF Timed, InOrder
<1>3. DOMAIN s = 1..n /\ \A i \in 1..n : s[i] \in Int /\ -Window < s[i] /\ s[i] <= 0
  <2>1. s \in Seq(Int) /\ \A i \in 1..Len(s) : -Window < s[i] /\ s[i] <= 0
    BY DEF Spaced
  <2>2. s \in [1..n -> Int]
    BY <1>1, <2>1, LenProperties
  <2> QED BY <1>1, <2>1, <2>2
<1>4. \A i, j \in 1..n : i < j => s[j] - s[i] >= MinInterval
  BY <1>1 DEF Spaced
<1>5. t \in Seq(Int) /\ Len(t) = n /\ \A i \in 1..n : t[i] = s[i] - 1
  <2>1. t = [i \in 1..n |-> s[i] - 1] /\ \A i \in 1..n : s[i] - 1 \in Int
    BY <1>3
  <2> QED BY <2>1
<1> HIDE DEF t
<1>6. InOrder(t)
  <2>1. ASSUME NEW i \in 1..n PROVE -Window <= t[i]
    <3>1. s[i] \in Int /\ -Window < s[i] /\ t[i] = s[i] - 1
      BY <1>3, <1>5
    <3> QED BY <3>1, TimesAreIntegers
  <2>2. ASSUME NEW i \in 1..n, NEW j \in 1..n, i <= j PROVE t[i] <= t[j]
    <3>1. s[i] \in Int /\ s[j] \in Int /\ t[i] = s[i] - 1 /\ t[j] = s[j] - 1
      BY <1>3, <1>5
    <3>2. i = j \/ s[j] - s[i] >= MinInterval
      BY <1>4, <2>2
    <3> QED BY <3>1, <3>2, TimesAreIntegers
  <2> QED BY <1>5, <2>1, <2>2 DEF InOrder
<1>7. PICK k \in 0..n :
             /\ aged \in Seq(Int)
             /\ Len(aged) = n - k
             /\ \A i \in 1..(n - k) : aged[i] = t[k + i]
             /\ \A i \in 1..n : -Window < t[i] <=> k < i
  BY <1>5, <1>6, WithinIsSuffix
<1> HIDE DEF aged
<1>8. ASSUME NEW i \in 1..(n - k)
      PROVE  /\ k + i \in 1..n /\ s[k + i] \in Int
             /\ aged[i] = s[k + i] - 1 /\ -Window < aged[i] /\ aged[i] <= 0
  <2>1. k + i \in 1..n /\ k < k + i
    OBVIOUS
  <2>2. s[k + i] \in Int /\ s[k + i] <= 0 /\ t[k + i] = s[k + i] - 1 /\ -Window < t[k + i]
    BY <1>3, <1>5, <1>7, <2>1
  <2>3. aged[i] = t[k + i]
    BY <1>7
  <2> QED BY <2>1, <2>2, <2>3
<1>9. Spaced(aged)
  <2>1. ASSUME NEW i \in 1..(n - k), NEW j \in 1..(n - k), i < j
        PROVE  aged[j] - aged[i] >= MinInterval
    <3>1. k + i < k + j
      BY <2>1
    <3>2. s[k + j] - s[k + i] >= MinInterval
      BY <1>4, <1>8, <3>1
    <3>3. PICK x \in Int, y \in Int : /\ x = s[k + i] /\ aged[i] = x - 1
                                    /\ y = s[k + j] /\ aged[j] = y - 1
      BY <1>8
    <3>4. y - x >= MinInterval
      BY <3>2, <3>3
    <3>5. (y - 1) - (x - 1) >= MinInterval
      BY <3>4, TimesAreIntegers
    <3> QED BY <3>3, <3>5
  <2> QED BY <1>7, <1>8, <2>1 DEF Spaced
<1>10. /\ n <= m /\ g.next \in Int /\ f.next \in Int
       /\ \A i \in 1..m : f.requests[i] \in Int /\ g.requests[i] \in Int
  <2>1. f.requests \in Seq(Int) /\ g.requests \in Seq(Int) /\ Len(g.requests) = m
    BY <1>2 DEF Timed, InOrder
  <2>2. f.requests \in [1..m -> Int] /\ g.requests \in [1..m -> Int]
    BY <1>2, <2>1, LenProperties
  <2> QED BY <1>1, <1>2, <2>2 DEF Covers, Timed
<1>11. ASSUME NEW i \in 1..(n - k)
       PROVE  aged[i] <= g.requests[m - (n - k) + i]
  <2>1. m - n + (k + i) = m - (n - k) + i /\ m - (n - k) + i \in 1..m
    BY SMTT(40), <1>10
  <2>2. s[k + i] <= f.requests[m - n + (k + i)]
    BY <1>1, <1>2, <1>8 DEF Covers
  <2>3. f.requests[m - (n - k) + i] - 1 <= g.requests[m - (n - k) + i]
    BY <1>2, <2>1
  <2>4. PICK x \in Int, y \in Int, z \in Int :
            /\ x = s[k + i] /\ aged[i] = x - 1
            /\ y = f.requests[m - (n - k) + i] /\ z = g.requests[m - (n - k) + i]
    BY <1>8, <1>10, <2>1
  <2>5. x <= y /\ y - 1 <= z
    BY <2>1, <2>2, <2>3, <2>4
  <2>6. x - 1 <= z
    BY <2>5
  <2> QED BY <2>4, <2>6
<1>12. ASSUME aged # <<>>, g.next # Never PROVE g.next >= aged[Len(aged)] + MinInterval
  <2>1. n - k \in 1..(n - k)
    BY <1>7, <1>12, EmptySeq
  <2>2. k + (n - k) = n /\ s # <<>>
    BY <1>1, <2>1, EmptySeq
  <2>3. aged[Len(aged)] = s[n] - 1 /\ s[n] \in Int
    BY <1>7, <1>8, <2>1, <2>2
  <2>4. f.next >= s[n] + MinInterval /\ f.next - 1 <= g.next
    BY <1>1, <1>12, <2>2 DEF Covers
  <2>5. PICK x \in Int, y \in Int, z \in Int : x = s[n] /\ y = f.next /\ z = g.next
    BY <1>10, <2>3
  <2>6. y >= x + MinInterval /\ y - 1 <= z
    BY <2>4, <2>5
  <2>7. z >= (x - 1) + MinInterval
    BY <2>6, TimesAreIntegers
  <2> QED BY <2>3, <2>5, <2>7
<1>13. Covers(g, aged)
  BY SMTT(40), <1>2, <1>7, <1>10, <1>11, <1>12 DEF Covers
<1> QED BY <1>1, <1>7, <1>9, <1>13 DEF t, aged

\* A budget that gets a time for its next read keeps what it knows.
LEMMA UpgradedTimes ==
    ASSUME NEW f, Shaped(f), Timed(f), NEW d \in Intervals, NEW s, Spaced(s), Covers(f, s)
    PROVE  LET g == Upgraded(f, d)
           IN  Timed(g) /\ Covers(g, s) /\ (g.requests # <<>> => g.next # Never)
<1> DEFINE g == Upgraded(f, d)
           r == f.requests
           new == r[Len(r)] + d
<1>1. d \in Nat /\ MinInterval <= d
  OBVIOUS
<1>2. CASE ~(f.next = Never /\ r # <<>>)
  <2>1. g = f
    BY <1>2 DEF Upgraded
  <2> QED BY <1>2, <2>1
<1>3. CASE f.next = Never /\ r # <<>>
  <2>1. g.requests = r /\ g.next = new
    BY <1>3 DEF Upgraded, Shaped
  <2>2. InOrder(r)
    BY DEF Timed
  <2>3. PICK m \in Nat \ {0} : m = Len(r)
    BY <1>3, <2>2, EmptySeq DEF InOrder
  <2>4. PICK last \in Int : last = r[m] /\ -Window <= last
    <3>1. r \in [1..m -> Int] /\ m \in 1..m
      BY <2>2, <2>3, LenProperties DEF InOrder
    <3> QED BY <2>2, <2>3, <3>1 DEF InOrder
  <2>5. PICK next \in Int : next = new /\ next = last + d
    BY <1>1, <2>3, <2>4
  <2> HIDE DEF new
  <2>6. /\ next >= last + MinInterval
        /\ next >= MinInterval - Window /\ next # Never
    <3>1. next >= last + MinInterval
      BY <1>1, <2>5, TimesAreIntegers
    <3> QED BY <2>4, <3>1, TimesAreIntegers
  <2>7. ASSUME s # <<>> PROVE new >= s[Len(s)] + MinInterval
    <3>1. PICK n \in Nat \ {0} : n = Len(s)
      BY <2>7, EmptySeq DEF Spaced
    <3>2. s \in [1..n -> Int] /\ n \in 1..n
      BY <3>1, LenProperties DEF Spaced
    <3>3. m - n + n = m
      BY <2>3, <3>1
    <3>4. s[n] <= r[m - n + n]
      BY <2>3, <3>1, <3>2 DEF Covers
    <3>5. PICK x \in Int : x = s[n]
      BY <3>2
    <3>6. x <= last
      BY <2>4, <3>3, <3>4, <3>5
    <3>7. next >= x + MinInterval
      BY <2>6, <3>6, TimesAreIntegers
    <3> QED BY <2>5, <3>1, <3>5, <3>7
  <2> HIDE DEF g
  <2>8. Timed(g)
    BY <2>1, <2>2, <2>3, <2>4, <2>5, <2>6 DEF Timed
  <2>9. Covers(g, s)
    BY <2>1, <2>7 DEF Covers
  <2> QED BY <2>1, <2>5, <2>6, <2>8, <2>9 DEF g
<1> QED BY <1>2, <1>3

\* A read that is due is one the budget allows: it is counted in time.
LEMMA AppendedNow ==
    ASSUME NEW s \in Seq(Int)
    PROVE  /\ Append(s, 0) \in Seq(Int) /\ Append(s, 0) # <<>> /\ Len(Append(s, 0)) = Len(s) + 1
           /\ \A i \in 1..Len(s) : Append(s, 0)[i] = s[i]
           /\ Append(s, 0)[Len(s) + 1] = 0
<1>1. 0 \in Int /\ Len(s) \in Nat
  BY LenProperties
<1>2. /\ Append(s, 0) \in Seq(Int) /\ Len(Append(s, 0)) = Len(s) + 1
      /\ \A i \in 1..Len(s) : Append(s, 0)[i] = s[i]
      /\ Append(s, 0)[Len(s) + 1] = 0
  BY <1>1, AppendProperties
<1>3. Append(s, 0) # <<>>
  BY <1>1, <1>2, EmptySeq
<1> QED
  BY <1>2, <1>3

LEMMA CountedTimes ==
    ASSUME NEW f, Shaped(f), Timed(f), NEW d \in Intervals,
           NEW s, Spaced(s), Covers(f, s), f.requests # <<>> => f.next # Never,
           Due(f), ~ClockWentBack(f)
    PROVE  /\ Timed(Counted(f, d)) /\ Covers(Counted(f, d), Append(s, 0))
           /\ Spaced(Append(s, 0)) /\ Len(Append(s, 0)) <= MaxReads
<1> DEFINE R == f.requests
           r == Recent(f)
           g == Counted(f, d)
           t == Append(s, 0)
<1>1. d \in Nat /\ MinInterval <= d
  OBVIOUS
<1>2. InOrder(R) /\ s \in Seq(Int) /\ R \in Seq(Int)
  BY DEF Timed, Spaced, InOrder
<1>3. PICK n \in Nat : n = Len(s)
  BY <1>2, LenProperties
<1>4. PICK m \in Nat : m = Len(R) /\ n <= m
  BY <1>2, <1>3, LenProperties DEF Covers
<1>5. s \in [1..n -> Int] /\ R \in [1..m -> Int]
  BY <1>2, <1>3, <1>4, LenProperties
<1>6. PICK k \in 0..m : /\ r \in Seq(Int)
                        /\ Len(r) = m - k
                        /\ \A i \in 1..(m - k) : r[i] = R[k + i]
                        /\ \A i \in 1..m : -Window < R[i] <=> k < i
  BY <1>2, <1>4, WithinIsSuffix DEF Recent
<1>7. g.requests = Append(r, 0) /\ g.next = d
  BY DEF Counted, Shaped
<1> HIDE DEF r, g
<1>8. ASSUME NEW i \in 1..(m - k)
      PROVE  /\ k + i \in 1..m /\ r[i] \in Int /\ r[i] = R[k + i]
             /\ -Window < r[i] /\ r[i] <= 0
  <2>1. k + i \in 1..m /\ k < k + i /\ m - k \in 1..(m - k) /\ k + (m - k) = m /\ m \in 1..m
    OBVIOUS
  <2>2. r[i] = R[k + i] /\ R[k + i] \in Int /\ -Window < R[k + i] /\ r[m - k] = R[m]
    BY <1>5, <1>6, <2>1
  <2>3. r # <<>>
    BY SMTT(40), <1>6, <2>1, EmptySeq
  <2>4. ~(r[m - k] > 0)
    BY <1>6, <2>3 DEF ClockWentBack, r
  <2>5. R[k + i] <= R[m]
    BY <1>2, <1>4, <2>1 DEF InOrder
  <2>6. PICK x \in Int, y \in Int : x = R[k + i] /\ y = R[m]
    BY <1>5, <2>1
  <2>7. x <= y /\ ~(y > 0)
    BY <2>2, <2>4, <2>5, <2>6
  <2>8. x <= 0
    BY <2>7
  <2> QED BY <2>1, <2>2, <2>6, <2>8
<1>9. Append(r, 0) \in Seq(Int) /\ Len(Append(r, 0)) = m - k + 1
      /\ (\A i \in 1..(m - k) : Append(r, 0)[i] = r[i]) /\ Append(r, 0)[m - k + 1] = 0
  BY <1>6, AppendedNow
<1>10. t \in Seq(Int) /\ Len(t) = n + 1 /\ (\A i \in 1..n : t[i] = s[i]) /\ t[n + 1] = 0 /\ t # <<>>
  <2>1. /\ t \in Seq(Int) /\ t # <<>> /\ Len(t) = Len(s) + 1
        /\ (\A i \in 1..Len(s) : t[i] = s[i]) /\ t[Len(s) + 1] = 0
    BY <1>2, AppendedNow
  <2> HIDE DEF t
  <2> QED BY <1>3, <2>1
<1> HIDE DEF t
<1>11. InOrder(Append(r, 0))
  <2>1. ASSUME NEW i \in 1..(m - k + 1) PROVE -Window <= Append(r, 0)[i]
    <3>1. CASE i = m - k + 1
      BY <1>9, <3>1, TimesAreIntegers
    <3>2. CASE i # m - k + 1
      <4>1. i \in 1..(m - k)
        BY <3>2
      <4> QED BY <1>8, <1>9, <4>1, TimesAreIntegers
    <3> QED BY <3>1, <3>2
  <2>2. ASSUME NEW i \in 1..(m - k + 1), NEW j \in 1..(m - k + 1), i <= j
        PROVE  Append(r, 0)[i] <= Append(r, 0)[j]
    <3>1. CASE j = m - k + 1
      <4>1. i = j \/ i \in 1..(m - k)
        BY <3>1
      <4>2. CASE i = j
        BY <1>9, <3>1, <4>2
      <4>3. CASE i \in 1..(m - k)
        BY <1>8, <1>9, <3>1, <4>3
      <4> QED BY <4>1, <4>2, <4>3
    <3>2. CASE j # m - k + 1
      <4>1. i \in 1..(m - k) /\ j \in 1..(m - k)
        BY <2>2, <3>2
      <4>2. r[i] = R[k + i] /\ r[j] = R[k + j] /\ k + i \in 1..m /\ k + j \in 1..m /\ k + i <= k + j
        BY <1>8, <2>2, <4>1
      <4>3. R[k + i] <= R[k + j]
        BY <1>2, <1>4, <4>2 DEF InOrder
      <4> QED BY <1>9, <4>1, <4>2, <4>3
    <3> QED BY <3>1, <3>2
  <2> QED BY <1>9, <2>1, <2>2 DEF InOrder
<1>12. Timed(g)
  <2>1. Append(r, 0)[Len(Append(r, 0))] = 0
    BY <1>9
  <2>2. d # Never /\ d >= MinInterval - Window /\ d >= 0 + MinInterval
    BY <1>1, TimesAreIntegers
  <2> QED BY <1>1, <1>7, <1>11, <2>1, <2>2 DEF Timed
\* The reads in the window are among the recent ones of the file.
<1>13. ASSUME NEW i \in 1..n
       PROVE  k < m - n + i /\ m - n + i \in 1..m /\ s[i] <= R[m - n + i]
  <2>1. m - n + i \in 1..m
    BY <1>4
  <2>2. s[i] <= R[m - n + i] /\ -Window < s[i]
    BY <1>3, <1>4 DEF Covers, Spaced
  <2>3. PICK x \in Int, y \in Int : x = s[i] /\ y = R[m - n + i]
    BY <1>5, <2>1
  <2>4. -Window < x /\ x <= y
    BY <2>2, <2>3
  <2>5. -Window < y
    BY <2>4, TimesAreIntegers
  <2> QED BY <1>6, <2>1, <2>2, <2>3, <2>5
<1>14. n <= m - k
  <2>1. CASE n = 0
    BY <2>1
  <2>2. CASE n # 0
    <3>1. 1 \in 1..n
      BY <2>2
    <3>2. k < m - n + 1
      BY <1>13, <3>1
    <3> QED BY <3>2
  <2> QED BY <2>1, <2>2
<1>15. Covers(g, t)
  <2>1. ASSUME NEW i \in 1..(n + 1)
        PROVE  t[i] <= g.requests[(m - k + 1) - (n + 1) + i]
    <3>1. CASE i = n + 1
      <4>1. (m - k + 1) - (n + 1) + i = m - k + 1
        BY <3>1
      <4>2. t[i] = 0 /\ g.requests[m - k + 1] = 0
        BY <1>7, <1>9, <1>10, <3>1
      <4> QED BY <4>1, <4>2
    <3>2. CASE i # n + 1
      <4>1. i \in 1..n
        BY <3>2
      <4>2. /\ (m - k + 1) - (n + 1) + i = m - k - n + i /\ m - k - n + i \in 1..(m - k)
            /\ k + (m - k - n + i) = m - n + i
        BY <1>14, <4>1
      <4>3. g.requests[m - k - n + i] = R[m - n + i]
        BY <1>7, <1>8, <1>9, <4>2
      <4> QED BY <1>10, <1>13, <4>1, <4>2, <4>3
    <3> QED BY <3>1, <3>2
  <2>2. g.next >= t[Len(t)] + MinInterval
    BY <1>1, <1>7, <1>10, TimesAreIntegers
  <2>3. Len(g.requests) = m - k + 1 /\ Len(t) = n + 1 /\ n + 1 <= m - k + 1
    BY <1>7, <1>9, <1>10, <1>14
  <2> QED BY <2>1, <2>2, <2>3 DEF Covers
<1>16. n + 1 <= MaxReads
  <2>1. SUFFICES ASSUME MaxReads <= m - k PROVE FALSE
    BY <1>14, TimesAreIntegers
  <2>2. m - k - MaxReads + 1 \in 1..(m - k)
    BY <2>1, TimesAreIntegers
  <2>3. r[m - k - MaxReads + 1] + Window <= 0
    BY <1>6, <2>1 DEF Due, r
  <2>4. PICK x \in Int : x = r[m - k - MaxReads + 1] /\ -Window < x
    BY <1>8, <2>2
  <2>5. x + Window <= 0
    BY <2>3, <2>4
  <2> QED BY <2>4, <2>5, TimesAreIntegers
<1>17. Spaced(t)
  <2>1. ASSUME NEW i \in 1..n PROVE 0 - s[i] >= MinInterval
    <3>1. n \in 1..n /\ s # <<>>
      BY <1>3, EmptySeq
    <3>2. R # <<>>
      BY <1>4, <3>1, EmptySeq
    <3>3. f.next >= s[n] + MinInterval /\ f.next <= 0 /\ f.next \in Int
      BY <1>3, <3>1, <3>2 DEF Covers, Due, Timed
    <3>4. PICK x \in Int, y \in Int, z \in Int : x = s[i] /\ y = s[n] /\ z = f.next
      BY <1>5, <3>1, <3>3
    <3>5. i = n \/ y - x >= MinInterval
      BY <1>3, <3>1, <3>4 DEF Spaced
    <3>6. z >= y + MinInterval /\ z <= 0
      BY <3>3, <3>4
    <3>7. 0 - x >= MinInterval
      <4>1. CASE i = n
        <5>1. x = y
          BY <3>4, <4>1
        <5> QED BY <3>6, <5>1, TimesAreIntegers
      <4>2. CASE i # n
        BY <3>5, <3>6, <4>2, TimesAreIntegers
      <4> QED BY <4>1, <4>2
    <3> QED BY <3>4, <3>7
  <2>2. ASSUME NEW i \in 1..(n + 1) PROVE -Window < t[i] /\ t[i] <= 0
    <3>1. CASE i = n + 1
      BY <1>10, <3>1, TimesAreIntegers
    <3>2. CASE i # n + 1
      <4>1. i \in 1..n
        BY <3>2
      <4> QED BY <1>3, <1>10, <4>1 DEF Spaced
    <3> QED BY <3>1, <3>2
  <2>3. ASSUME NEW i \in 1..(n + 1), NEW j \in 1..(n + 1), i < j
        PROVE  t[j] - t[i] >= MinInterval
    <3>1. i \in 1..n /\ t[i] = s[i]
      BY <1>10, <2>3
    <3>2. CASE j = n + 1
      BY <1>10, <2>1, <3>1, <3>2
    <3>3. CASE j # n + 1
      <4>1. j \in 1..n
        BY <3>3
      <4> QED BY <1>3, <1>10, <2>3, <3>1, <4>1 DEF Spaced
    <3> QED BY <3>2, <3>3
  <2> QED BY <1>10, <2>2, <2>3 DEF Spaced
<1> QED BY <1>10, <1>12, <1>15, <1>16, <1>17 DEF g, t

LEMMA LoadInit == Init => LoadInv
<1> SUFFICES ASSUME Init PROVE LoadInv
  OBVIOUS
<1>1. /\ file.next = Never
      /\ \/ file.requests = <<>> /\ ages = <<>>
         \/ file.requests = <<0>> /\ ages = <<0>>
  BY DEF Init, Empty, Legacy
<1>2. \A p \in Procs : at[p] = "idle" /\ data[p].requests = <<>>
  BY DEF Init, Empty
<1>3. Loaded
  BY <1>2 DEF Loaded, Holding
<1>4. CASE file.requests = <<>> /\ ages = <<>>
  <2>1. InOrder(file.requests) /\ Spaced(ages) /\ Len(ages) = 0
    BY <1>4, EmptySeq DEF InOrder, Spaced
  <2> QED BY <1>1, <1>3, <1>4, <2>1, TimesAreIntegers DEF LoadInv, Timed, Covers
<1>5. CASE file.requests = <<0>> /\ ages = <<0>>
  <2>1. <<0>> \in Seq(Int) /\ Len(<<0>>) = 1 /\ \A i \in 1..1 : <<0>>[i] = 0
    OBVIOUS
  <2>2. InOrder(file.requests) /\ Spaced(ages)
    BY <1>5, <2>1, TimesAreIntegers DEF InOrder, Spaced
  <2> QED BY <1>1, <1>3, <1>5, <2>1, <2>2, TimesAreIntegers DEF LoadInv, Timed, Covers
<1> QED BY <1>1, <1>4, <1>5

\* A command that leaves the times of the file alone.
LEMMA SameTimes ==
    ASSUME LoadInv, Loaded', file'.requests = file.requests, file'.next = file.next,
           UNCHANGED ages
    PROVE  LoadInv'
<1>1. Timed(file)' /\ Covers(file, ages)'
  BY DEF LoadInv, Timed, Covers
<1>2. Spaced(ages)' /\ (Len(ages) <= MaxReads)'
  BY DEF LoadInv
<1> QED BY <1>1, <1>2 DEF LoadInv

\* A step of one command leaves those that do not hold the lock with nothing.
LEMMA OthersHoldNothing ==
    ASSUME GuardInv, Loaded, NEW p \in Procs, NEW where \in Places,
           at[p] \in Holding \/ lock = Nobody \/ file' = file,
           at' = [at EXCEPT ![p] = where],
           DOMAIN data' = Procs, \A q \in Procs \ {p} : data'[q] = data[q],
           IF where \in Holding THEN data'[p] = file' ELSE data'[p].requests = <<>>,
           where = "throttled" /\ file'.requests # <<>> => file'.next # Never
    PROVE  Loaded'
<1>1. at'[p] = where /\ \A q \in Procs \ {p} : at'[q] = at[q]
  BY DEF GuardInv, Placed
<1>2. \A q \in Procs \ {p} : at[q] \in Holding => file' = file
  BY OneHolder DEF GuardInv, Placed
<1>3. \A q \in Procs : IF at'[q] \in Holding THEN data'[q] = file' ELSE data'[q].requests = <<>>
  BY <1>1, <1>2 DEF Loaded
<1>4. "throttled" \in Holding
  BY DEF Holding
<1>5. \A q \in Procs : at'[q] = "throttled" /\ file'.requests # <<>> => file'.next # Never
  BY <1>1, <1>2, <1>4 DEF Loaded
<1> QED BY <1>3, <1>5 DEF Loaded

LEMMA CallLoad ==
    ASSUME GuardInv, LoadInv, NEW p \in Procs, Call(p)
    PROVE  LoadInv'
<1>1. PICK d \in Intervals :
         file' = Upgraded(file, d) /\ data' = [data EXCEPT ![p] = Upgraded(file, d)]
  BY DEF Call, Save
<1>2. lock = Nobody /\ at' = [at EXCEPT ![p] = "throttled"] /\ UNCHANGED ages
  BY DEF Call, Take, Goto
<1>3. /\ Timed(file') /\ Covers(file', ages) /\ (file'.requests # <<>> => file'.next # Never)
  BY <1>1, UpgradedTimes DEF GuardInv, Placed, LoadInv
<1>4. DOMAIN data' = Procs /\ data'[p] = file' /\ \A q \in Procs \ {p} : data'[q] = data[q]
  BY <1>1 DEF GuardInv, Placed
<1>5. Loaded'
  BY <1>2, <1>3, <1>4, OthersHoldNothing DEF LoadInv, Holding, Places
<1> QED BY <1>2, <1>3, <1>5 DEF LoadInv

LEMMA CountLoad ==
    ASSUME GuardInv, LoadInv, NEW p \in Procs, Count(p)
    PROVE  LoadInv'
<1>1. at[p] = "throttled" /\ at[p] \in Holding /\ data[p] = file
  BY DEF Count, LoadInv, Loaded, Holding
<1>2. PICK d \in Intervals :
         file' = Counted(file, d) /\ data' = [data EXCEPT ![p] = Counted(file, d)]
  BY <1>1 DEF Count, Save
<1>3. /\ at' = [at EXCEPT ![p] = "counted"] /\ ages' = Append(ages, 0)
      /\ Due(file) /\ ~ClockWentBack(file)
  BY <1>1 DEF Count, Goto
<1>4. file.requests # <<>> => file.next # Never
  BY <1>1 DEF LoadInv, Loaded
<1>5. Timed(file') /\ Covers(file', ages') /\ Spaced(ages') /\ Len(ages') <= MaxReads
  BY <1>2, <1>3, <1>4, CountedTimes DEF GuardInv, Placed, LoadInv
<1>6. DOMAIN data' = Procs /\ data'[p] = file' /\ \A q \in Procs \ {p} : data'[q] = data[q]
  BY <1>2 DEF GuardInv, Placed
<1>7. Loaded'
  BY <1>1, <1>3, <1>6, OthersHoldNothing DEF LoadInv, Holding, Places
<1> QED BY <1>5, <1>7 DEF LoadInv

\* The other steps of a command write the times they have loaded.
LEMMA OtherStepsLoad ==
    ASSUME GuardInv, LoadInv, NEW p \in Procs, Command(p) \/ Kill(p), ~Call(p), ~Count(p)
    PROVE  LoadInv'
<1>1. /\ Shaped(file) /\ DOMAIN data = Procs /\ UNCHANGED ages /\ Loaded
      /\ at[p] \in Holding => data[p] = file
      /\ at[p] \notin Holding => data[p].requests = <<>>
  BY DEF GuardInv, Placed, LoadInv, Loaded, Command, Kill, Collect, Finish, GiveUp, Send,
         Answered, Rejected, Confirm, Ready, NotReady
<1>2. Empty.requests = <<>>
  BY DEF Empty
<1>3. ASSUME NEW where \in Places \ {"throttled"}, at' = [at EXCEPT ![p] = where],
             at[p] \in Holding \/ file' = file,
             file'.requests = file.requests /\ file'.next = file.next,
             \/ data' = [data EXCEPT ![p] = Empty] /\ where \notin Holding
             \/ UNCHANGED <<file, data>> /\ (where \in Holding <=> at[p] \in Holding)
             \/ data' = [data EXCEPT ![p] = file] /\ where \in Holding /\ UNCHANGED file
      PROVE  LoadInv'
  <2>1. DOMAIN data' = Procs /\ \A q \in Procs \ {p} : data'[q] = data[q]
    BY <1>1, <1>3
  <2>2. IF where \in Holding THEN data'[p] = file' ELSE data'[p].requests = <<>>
    BY <1>1, <1>2, <1>3
  <2>3. Loaded'
    BY <1>1, <1>3, <2>1, <2>2, OthersHoldNothing
  <2> QED BY <1>1, <1>3, <2>3, SameTimes
<1>4. CASE Collect(p) \/ Finish(p)
  BY <1>3, <1>4 DEF Collect, Finish, Goto, Holding, Places
<1>5. CASE GiveUp(p) \/ NotReady(p)
  BY <1>3, <1>5 DEF GiveUp, NotReady, Leave, Goto, Forget, Holding, Places
<1>6. CASE Send(p)
  BY <1>3, <1>6 DEF Send, Goto, Holding, Places
<1>7. CASE Answered(p) \/ Rejected(p) \/ Ready(p)
  <2>1. at[p] \in Holding /\ data[p] = file
    BY <1>1, <1>7 DEF Answered, Rejected, Ready, Holding
  <2>2. file' \in {Settled(file), Blocked(file), Released(file)}
    BY <1>7, <2>1 DEF Answered, Rejected, Ready, Save
  <2>3. file'.requests = file.requests /\ file'.next = file.next
    BY <1>1, <2>2 DEF Settled, Blocked, Released, Shaped
  <2>4. data' = [data EXCEPT ![p] = Empty]
    BY <1>7 DEF Answered, Rejected, Ready, Leave, Forget
  <2>5. PICK where \in {"idle", "collecting"} : at' = [at EXCEPT ![p] = where]
    BY <1>7 DEF Answered, Rejected, Ready, Leave, Goto
  <2> QED BY <1>3, <2>1, <2>3, <2>4, <2>5 DEF Holding, Places
<1>8. CASE Confirm(p)
  BY <1>3, <1>8 DEF Confirm, Load, Goto, Holding, Places
<1>9. CASE Kill(p)
  BY <1>3, <1>9 DEF Kill, Goto, Forget, Holding, Places
<1> QED BY <1>4, <1>5, <1>6, <1>7, <1>8, <1>9 DEF Command

LEMMA TimesLoad ==
    ASSUME GuardInv, LoadInv, Tick \/ ClockSetBack
    PROVE  LoadInv'
<1>1. Shaped(file) /\ Timed(file) /\ Spaced(ages) /\ Covers(file, ages) /\ Loaded
      /\ Len(ages) \in Nat /\ DOMAIN data = Procs
  BY LenProperties DEF GuardInv, Placed, LoadInv, Spaced
<1>2. PICK d \in {-1, Setback} :
         /\ file' = Shifted(file, d) /\ data' = [q \in Procs |-> Shifted(data[q], d)]
         /\ UNCHANGED at
         /\ \/ d = -1 /\ ages' = Within([i \in DOMAIN ages |-> ages[i] - 1])
            \/ d = Setback /\ ages' = ages
  BY DEF Tick, ClockSetBack, ShiftTimes
<1>3. d \in Int
  BY <1>2, TimesAreIntegers
<1>4. /\ Timed(file') /\ Len(file'.requests) = Len(file.requests)
      /\ \A i \in 1..Len(file.requests) : file.requests[i] + d <= file'.requests[i]
      /\ (file'.next = Never <=> file.next = Never)
      /\ (file.next # Never => file.next + d <= file'.next)
  BY <1>1, <1>2, <1>3, ShiftedTimes
<1>5. Loaded'
  <2>1. file.requests \in Seq(Int) /\ file'.requests \in Seq(Int)
    BY <1>1, <1>4 DEF Timed, InOrder
  <2>2. file'.requests # <<>> => file.requests # <<>>
    BY <1>4, <2>1, EmptySeq
  <2>3. ASSUME NEW q \in Procs, data[q].requests = <<>> PROVE data'[q].requests = <<>>
    <3>1. Shaped(data[q]) /\ data'[q] = Shifted(data[q], d)
      BY <1>2 DEF GuardInv, Placed
    <3>2. data'[q].requests = [i \in DOMAIN data[q].requests |-> Later(data[q].requests[i], d, -Window)]
      BY <3>1 DEF Shaped, Shifted
    <3> QED BY <2>3, <3>2
  <2>4. \A q \in Procs : data[q] = file => data'[q] = file'
    BY <1>2
  <2> QED BY <1>1, <1>2, <1>4, <2>2, <2>3, <2>4 DEF Loaded
<1>6. CASE d = -1 /\ ages' = Within([i \in DOMAIN ages |-> ages[i] - 1])
  <2>1. PICK m \in Nat : m = Len(file.requests)
    BY <1>1, LenProperties DEF Timed, InOrder
  <2>2. file.requests \in [1..m -> Int] /\ file.next \in Int
    BY <1>1, <2>1, LenProperties DEF Timed, InOrder
  <2>3. \A i \in 1..Len(file.requests) : file.requests[i] - 1 <= file'.requests[i]
    <3>1. ASSUME NEW i \in 1..m PROVE file.requests[i] - 1 <= file'.requests[i]
      <4>1. PICK x \in Int : x = file.requests[i]
        BY <2>2
      <4>2. x + (-1) <= file'.requests[i] /\ x + (-1) = x - 1
        BY <1>4, <1>6, <2>1, <4>1
      <4> QED BY <4>1, <4>2
    <3> QED BY <2>1, <3>1
  <2>4. file.next # Never => file.next - 1 <= file'.next
    <3>1. PICK x \in Int : x = file.next
      BY <2>2
    <3>2. x # Never => x + (-1) <= file'.next /\ x + (-1) = x - 1
      BY <1>4, <1>6, <3>1
    <3> QED BY <3>1, <3>2
  <2>5. Spaced(ages') /\ Len(ages') <= Len(ages) /\ Covers(file', ages')
    BY <1>1, <1>4, <1>6, <2>3, <2>4, ReadsGrowOld
  <2>6. Len(ages') \in Nat /\ Len(ages) <= MaxReads
    BY <2>5, LenProperties DEF Spaced, LoadInv
  <2>7. Len(ages') <= MaxReads
    BY <1>1, <2>5, <2>6, TimesAreIntegers
  <2> QED BY <1>4, <1>5, <2>5, <2>7 DEF LoadInv
<1>7. CASE d = Setback /\ ages' = ages
  <2>1. PICK n \in Nat : n = Len(ages)
    BY <1>1
  <2>2. PICK m \in Nat : m = Len(file.requests) /\ n <= m
    BY <1>1, <2>1, LenProperties DEF Timed, InOrder, Covers
  <2>3. /\ file.requests \in [1..m -> Int] /\ file'.requests \in [1..m -> Int]
        /\ file.next \in Int /\ file'.next \in Int /\ ages \in [1..n -> Int]
    BY <1>1, <1>4, <2>1, <2>2, LenProperties DEF Timed, InOrder, Spaced
  <2>4. ASSUME NEW i \in 1..n PROVE ages[i] <= file'.requests[m - n + i]
    <3>1. m - n + i \in 1..m
      BY <2>2
    <3>2. PICK x \in Int, y \in Int, z \in Int :
              x = ages[i] /\ y = file.requests[m - n + i] /\ z = file'.requests[m - n + i]
      BY <2>3, <3>1
    <3>3. x <= y /\ y + Setback <= z
      BY <1>1, <1>4, <1>7, <2>1, <2>2, <3>1, <3>2 DEF Covers
    <3>4. x <= z
      BY <3>3, TimesAreIntegers
    <3> QED BY <3>2, <3>4
  <2>5. ASSUME ages # <<>>, file'.next # Never PROVE file'.next >= ages[n] + MinInterval
    <3>1. n \in 1..n
      BY <2>1, <2>5, EmptySeq, <1>1 DEF Spaced
    <3>2. PICK x \in Int, y \in Int, z \in Int : x = ages[n] /\ y = file.next /\ z = file'.next
      BY <2>3, <3>1
    <3>3. y >= x + MinInterval /\ y + Setback <= z
      BY <1>1, <1>4, <1>7, <2>1, <2>5, <3>2 DEF Covers
    <3>4. z >= x + MinInterval
      BY <3>3, TimesAreIntegers
    <3> QED BY <3>2, <3>4
  <2>6. Covers(file', ages')
    BY <1>4, <1>7, <2>1, <2>2, <2>4, <2>5 DEF Covers
  <2> QED BY <1>1, <1>4, <1>5, <1>7, <2>6 DEF LoadInv
<1> QED BY <1>2, <1>6, <1>7

\* What the user and the engineer do leaves the times alone.
LEMMA OutsideLoad ==
    ASSUME GuardInv, LoadInv, Block \/ Suspend
    PROVE  LoadInv'
<1>1. Shaped(file) /\ \A q \in Procs : at[q] \notin Holding
  BY OneHolder DEF GuardInv, Placed, Block, Suspend
<1>2. file'.requests = file.requests /\ file'.next = file.next /\ UNCHANGED <<at, data, ages>>
  BY <1>1 DEF Block, Suspend, Save, Blocked, Shaped
<1>3. Loaded'
  BY <1>1, <1>2 DEF LoadInv, Loaded, Holding
<1> QED BY <1>2, <1>3, SameTimes

LEMMA LoadStep == GuardInv /\ LoadInv /\ [Next]_vars => LoadInv'
<1> SUFFICES ASSUME GuardInv, LoadInv, [Next]_vars PROVE LoadInv'
  OBVIOUS
<1>1. CASE \E p \in Procs : Command(p) \/ Kill(p)
  BY <1>1, CallLoad, CountLoad, OtherStepsLoad
<1>2. CASE Block \/ Suspend
  BY <1>2, OutsideLoad
<1>3. CASE Tick \/ ClockSetBack
  BY <1>3, TimesLoad
<1>4. CASE UNCHANGED vars
  <2>1. Loaded' /\ file' = file /\ ages' = ages
    BY <1>4 DEF LoadInv, Loaded, vars
  <2> QED BY <2>1, SameTimes
<1> QED BY <1>1, <1>2, <1>3, <1>4 DEF Next

LEMMA LoadAlways == Spec => []LoadInv
BY LoadInit, LoadStep, GuardAlways, PTL DEF Spec

\* The platform meets at most MaxReads reads in any window of true time, and no
\* two closer than the least interval: over every number of commands, kills and
\* releases, and wherever the clock is set back to (call, _throttle).
THEOREM LoadIsBounded == Spec => []LoadBounded
<1>1. LoadInv => LoadBounded
  <2> SUFFICES ASSUME LoadInv PROVE LoadBounded
    OBVIOUS
  <2>1. Len(ages) <= MaxReads /\ Len(ages) \in Nat
    BY LenProperties DEF LoadInv, Spaced
  <2>2. ASSUME NEW i \in 1..(Len(ages) - 1) PROVE ages[i + 1] - ages[i] >= MinInterval
    <3>1. i \in 1..Len(ages) /\ i + 1 \in 1..Len(ages) /\ i < i + 1
      BY <2>1
    <3> QED BY <3>1 DEF LoadInv, Spaced
  <2> QED BY <2>1, <2>2 DEF LoadBounded
<1> QED BY <1>1, LoadAlways, PTL

\* No command writes a file that the next one would refuse to load (_load), so a
\* technical recovery is never the only way out.
THEOREM FilesStayReadable == Spec => []NeverLockedOut
<1>1. GuardInv /\ LoadInv => NeverLockedOut
  <2>1. ASSUME NEW f, Timed(f) PROVE Readable(f)
    <3>1. DOMAIN f.requests = 1..Len(f.requests)
      BY <2>1, LenProperties DEF Timed, InOrder
    <3> QED BY <2>1, <3>1 DEF Timed, InOrder, Readable
  <2>2. ASSUME NEW f, f.requests = <<>> PROVE Readable(f)
    BY <2>2 DEF Readable
  <2> QED BY <2>1, <2>2 DEF LoadInv, Loaded, NeverLockedOut
<1> QED BY <1>1, GuardAlways, LoadAlways, PTL
-----------------------------------------------------------------------------
\* The collectors.

\* A list as a site shows it that is wrong in at most one source of its city: the cards are
\* of the place and keyword of the url, a typed keyword apart, one of the two sources
\* names the place, and the end of the list is told where it is.
Drawn(t) ==
    t.at = "list" =>
        /\ t.place = PlaceOf(t.url) /\ t.key = t.url.key
        /\ t.key = "asked" => t.box = "asked"
        /\ t.city = t.place \/ t.more = t.place
        /\ t.code = IF t.place = "asked" THEN CityCode ELSE t.url.code
        /\ t.surface = "empty" <=> LastOf(t.url) = 0
        /\ t.last => t.shown >= LastOf(t.url)

\* The lists of 51job are searched by the code of the asked city, and the box of their
\* page holds their keyword: nothing types into it.
ByCity(u) == u.path = "plain" /\ u.code = CityCode
DrawnByCity(t) == t.at = "list" => ByCity(t.url) /\ t.box = t.key

\* What the operators on pages and collections return.
LEMMA UrlTyped ==
    ASSUME NEW path \in Paths, NEW c \in Codes \cup {0}, NEW k \in Keywords, NEW p \in 0..MaxPage
    PROVE  Url(path, c, k, p) \in Urls
BY DEF Url, Urls

LEMMA Numbers == CityCode \in Nat /\ CityCode # 0 /\ CityCode \in Codes /\ MaxPage \in Nat /\ MaxPage >= 1
BY CollectorAssumption

LEMMA NoUrlTyped == NoUrl \in Urls
BY UrlTyped, Numbers DEF NoUrl, Paths, Keywords

LEMMA LastTyped == ASSUME site \in Sites, NEW u PROVE LastOf(u) \in 0..MaxPage
BY Numbers DEF Sites, LastOf

LEMMA PlaceTyped == ASSUME NEW u PROVE PlaceOf(u) \in Cities
BY DEF PlaceOf, Cities

LEMMA ElsewhereTyped ==
    ASSUME NEW a \in {"directory", "home", "cityhome", "login", "verify", "loading"}
    PROVE  Elsewhere(a) \in Tabs /\ Elsewhere(a).at = a
BY NoUrlTyped, Numbers DEF Elsewhere, Tabs, Cities, Keywords

LEMMA ClampTyped ==
    ASSUME NEW p \in 0..MaxPage, NEW n \in 0..MaxPage
    PROVE  Clamp(p, n) \in 0..MaxPage
BY Numbers DEF Clamp

LEMMA ShownTyped ==
    ASSUME site \in Sites, NEW u \in Urls
    PROVE  Shown(u) \in Tabs
<1> DEFINE p == Clamp(u.page, LastOf(u))
<1>1. u.page \in 0..MaxPage /\ u.code \in Codes \cup {0} /\ u.key \in Keywords
  BY DEF Urls
<1>2. p \in 0..MaxPage
  BY <1>1, LastTyped, ClampTyped
<1>3. (p >= LastOf(u)) \in BOOLEAN /\ site.links \in BOOLEAN
  BY DEF Sites
<1>4. (IF PlaceOf(u) = "asked" THEN CityCode ELSE u.code) \in Codes \cup {0}
  BY <1>1, Numbers
<1> HIDE DEF p
<1> QED
  BY <1>1, <1>2, <1>3, <1>4, PlaceTyped DEF Tabs, Shown, p

LEMMA ShownFields ==
    ASSUME NEW u
    PROVE  /\ Shown(u).at = "list" /\ Shown(u).url = u /\ Shown(u).box = u.key /\ Shown(u).key = u.key
           /\ Shown(u).city = PlaceOf(u) /\ Shown(u).more = PlaceOf(u) /\ Shown(u).place = PlaceOf(u)
BY DEF Shown

LEMMA ShownDrawn ==
    ASSUME site \in Sites, NEW u \in Urls
    PROVE  Drawn(Shown(u))
<1>1. u.page \in 0..MaxPage
  BY DEF Urls
<1>2. LastOf(u) \in 0..MaxPage
  BY LastTyped
<1> QED
  BY <1>1, <1>2 DEF Drawn, Shown

LEMMA FlawedCases ==
    ASSUME NEW u, NEW t \in Flawed(u)
    PROVE  \/ \E a \in {"verify", "login", "loading", "home"} : t = Elsewhere(a)
           \/ \E c \in Cities : t = [Shown(u) EXCEPT !.more = c]
           \/ \E c \in Cities : t = [Shown(u) EXCEPT !.city = c]
           \/ t = Shown([u EXCEPT !.key = "none"])
BY DEF Flawed

LEMMA FlawedGood ==
    ASSUME site \in Sites, NEW u \in Urls, NEW t \in Flawed(u)
    PROVE  t \in Tabs /\ Drawn(t)
<1>0. [u EXCEPT !.key = "none"] \in Urls
  BY DEF Urls, Keywords
<1>1. CASE \E a \in {"verify", "login", "loading", "home"} : t = Elsewhere(a)
  BY <1>1, ElsewhereTyped DEF Drawn
<1>2. CASE \E c \in Cities : t = [Shown(u) EXCEPT !.more = c]
  <2>1. PICK c \in Cities : t = [Shown(u) EXCEPT !.more = c]
    BY <1>2
  <2>2. t \in Tabs
    BY <2>1, ShownTyped DEF Tabs
  <2>3. Drawn(t)
    BY <2>1, ShownTyped, ShownDrawn, ShownFields DEF Drawn, Tabs
  <2> QED BY <2>2, <2>3
<1>3. CASE \E c \in Cities : t = [Shown(u) EXCEPT !.city = c]
  <2>1. PICK c \in Cities : t = [Shown(u) EXCEPT !.city = c]
    BY <1>3
  <2>2. t \in Tabs
    BY <2>1, ShownTyped DEF Tabs
  <2>3. Drawn(t)
    BY <2>1, ShownTyped, ShownDrawn, ShownFields DEF Drawn, Tabs
  <2> QED BY <2>2, <2>3
<1>4. CASE t = Shown([u EXCEPT !.key = "none"])
  BY <1>0, <1>4, ShownTyped, ShownDrawn
<1> QED
  BY <1>1, <1>2, <1>3, <1>4, FlawedCases

LEMMA FlawedByCity ==
    ASSUME site \in Sites, NEW u \in Urls, NEW t \in Flawed(u), ByCity(u)
    PROVE  DrawnByCity(t)
<1>0. ByCity([u EXCEPT !.key = "none"])
  BY DEF ByCity, Urls
<1>1. CASE \E a \in {"verify", "login", "loading", "home"} : t = Elsewhere(a)
  BY <1>1, ElsewhereTyped DEF DrawnByCity
<1>2. CASE \E c \in Cities : t = [Shown(u) EXCEPT !.more = c]
  BY <1>2, ShownTyped, ShownFields DEF DrawnByCity, Tabs
<1>3. CASE \E c \in Cities : t = [Shown(u) EXCEPT !.city = c]
  BY <1>3, ShownTyped, ShownFields DEF DrawnByCity, Tabs
<1>4. CASE t = Shown([u EXCEPT !.key = "none"])
  BY <1>0, <1>4, ShownFields DEF DrawnByCity
<1> QED
  BY <1>1, <1>2, <1>3, <1>4, FlawedCases

LEMMA FlawedKeyed ==
    ASSUME site \in Sites, NEW u \in Urls, NEW t \in Flawed(u)
    PROVE  t.at # "list" \/ t.box = t.key
<1>1. CASE \E a \in {"verify", "login", "loading", "home"} : t = Elsewhere(a)
  BY <1>1, ElsewhereTyped
<1>2. CASE \E c \in Cities : t = [Shown(u) EXCEPT !.more = c]
  BY <1>2, ShownTyped, ShownFields DEF Tabs
<1>3. CASE \E c \in Cities : t = [Shown(u) EXCEPT !.city = c]
  BY <1>3, ShownTyped, ShownFields DEF Tabs
<1>4. CASE t = Shown([u EXCEPT !.key = "none"])
  BY <1>4, ShownFields
<1> QED
  BY <1>1, <1>2, <1>3, <1>4, FlawedCases

LEMMA TurnedGood ==
    ASSUME tab \in Tabs, site \in Sites, NEW p \in 0..MaxPage
    PROVE  /\ Turned(p) \in Tabs
           /\ Drawn(tab) => Drawn(Turned(p))
           /\ DrawnByCity(tab) => DrawnByCity(Turned(p))
<1>1. LastOf(tab.url) \in 0..MaxPage
  BY LastTyped
<1>0. (p >= LastOf(tab.url)) \in BOOLEAN
  BY <1>1
<1>2. Turned(p) \in Tabs
  BY <1>0 DEF Turned, Tabs
<1>3. \A f \in {"at", "url", "city", "more", "code", "box", "place", "key", "surface"} : Turned(p)[f] = tab[f]
  BY DEF Turned, Tabs
<1>4. Turned(p).shown = p /\ Turned(p).last = (p >= LastOf(tab.url))
  BY DEF Turned, Tabs
<1> QED
  BY <1>1, <1>2, <1>3, <1>4 DEF Drawn, DrawnByCity

LEMMA OtherCards ==
    ASSUME NEW t \in Tabs
    PROVE  [t EXCEPT !.surface = "cards", !.place = "other"] \in Tabs
BY DEF Tabs, Cities

LEMMA SearchTyped ==
    ASSUME site \in Sites, NEW t \in Tabs
    PROVE  \A s \in SearchFrom(t) : s \in Tabs /\ s.url \in Urls
<1> DEFINE urls == CASE t.city = "asked" /\ t.at # "list" -> {Url("plain", CityCode, t.box, 1), Url("route", 0, t.box, 1)}
                     [] t.at = "list" -> {[t.url EXCEPT !.key = t.box, !.page = 1]}
                     [] OTHER -> {Url("plain", c, t.box, 1) : c \in Codes \cup {0}}
           some == {v \in urls : site.modern /\ LastOf(v) = 0 /\ PlaceOf(v) = "asked"}
<1>1. t.box \in Keywords /\ t.url \in Urls /\ 1 \in 0..MaxPage
  BY Numbers DEF Tabs
<1>2. urls \subseteq Urls
  <2>1. CASE t.city = "asked" /\ t.at # "list"
    BY <1>1, <2>1, UrlTyped, Numbers DEF Paths
  <2>2. CASE t.at = "list"
    BY <1>1, <2>2 DEF Urls
  <2>3. CASE t.city # "asked" /\ t.at # "list"
    BY <1>1, <2>3, UrlTyped DEF Paths
  <2> QED BY <2>1, <2>2, <2>3
<1> HIDE DEF urls
<1> SUFFICES ASSUME NEW s \in SearchFrom(t)
             PROVE  s \in Tabs /\ s.url \in Urls
  OBVIOUS
<1>3. \E u \in urls : s = Shown(u) \/ s = [Shown(u) EXCEPT !.surface = "cards", !.place = "other"]
  BY DEF SearchFrom, urls
<1>4. PICK u \in urls : s = Shown(u) \/ s = [Shown(u) EXCEPT !.surface = "cards", !.place = "other"]
  BY <1>3
<1>5. Shown(u) \in Tabs
  BY <1>2, ShownTyped
<1>6. [Shown(u) EXCEPT !.surface = "cards", !.place = "other"] \in Tabs
  BY <1>5, OtherCards
<1> QED
  BY <1>4, <1>5, <1>6 DEF Tabs

LEMMA SearchFlawedTyped ==
    ASSUME site \in Sites, NEW t \in Tabs
    PROVE  SearchFlawed(t) \subseteq Tabs
<1> DEFINE h == [Elsewhere("home") EXCEPT !.box = t.box]
<1>1. h \in Tabs
  BY ElsewhereTyped DEF Tabs
<1>2. SearchFrom(h) \subseteq Tabs
  BY <1>1, SearchTyped
<1>3. ASSUME NEW s \in SearchFrom(t) PROVE Flawed(s.url) \subseteq Tabs
  BY <1>3, SearchTyped, FlawedGood
<1> SUFFICES ASSUME NEW x \in SearchFlawed(t) PROVE x \in Tabs
  OBVIOUS
<1>4. (\E s \in SearchFrom(t) : x \in Flawed(s.url)) \/ x \in SearchFrom(h)
  BY DEF SearchFlawed
<1> HIDE DEF h
<1> QED
  BY <1>2, <1>3, <1>4

LEMMA SelectedTyped ==
    ASSUME site \in Sites, NEW t \in Tabs
    PROVE  Selected(t) \in Tabs
<1> DEFINE u == [t.url EXCEPT !.path = "plain", !.code = CityCode, !.page = 1]
<1>0. t.url \in Urls /\ 1 \in 0..MaxPage
  BY Numbers DEF Tabs
<1>1. u \in Urls
  BY <1>0, Numbers DEF Urls, Paths
<1>2. Shown(u) \in Tabs
  BY <1>1, ShownTyped
<1>3. [t EXCEPT !.city = "asked", !.more = "asked"] \in Tabs
  BY DEF Tabs, Cities
<1> QED
  BY <1>2, <1>3 DEF Selected

LEMMA BoxTyped ==
    ASSUME tab \in Tabs, NEW k \in Keywords
    PROVE  [tab EXCEPT !.box = k] \in Tabs
BY DEF Tabs

LEMMA CityHomeTyped == CityHome \in Tabs /\ [CityHome EXCEPT !.city = "other"] \in Tabs
<1>1. ASSUME NEW t \in Tabs, NEW c \in Cities
      PROVE  [t EXCEPT !.city = c, !.more = "asked", !.linked = TRUE] \in Tabs /\ [t EXCEPT !.city = c] \in Tabs
  BY DEF Tabs, Cities
<1>2. Elsewhere("cityhome") \in Tabs
  BY ElsewhereTyped
<1>3. CityHome \in Tabs
  BY <1>1, <1>2 DEF CityHome, Cities
<1> QED
  BY <1>1, <1>3 DEF Cities

LEMMA FreshTyped == Fresh \in Calls
BY NoUrlTyped, Numbers DEF Fresh, Calls, Paths

LEMMA NoOutcomeTyped == NoOutcome \in Outcomes
BY Numbers DEF NoOutcome, Outcomes, Cities, Keywords

LEMMA FailTyped ==
    ASSUME call \in Calls, Fail
    PROVE  call' \in Calls /\ out' \in Outcomes /\ ~out'.cards /\ ~out'.exhausted /\ pc' = "done"
<1>1. call.page \in 1..MaxPage
  BY DEF Calls
<1> QED
  BY <1>1, FreshTyped, NoOutcomeTyped DEF Fail, Outcomes, NoOutcome

LEMMA AcceptTyped ==
    ASSUME call \in Calls, tab \in Tabs, NEW c \in BOOLEAN, NEW p \in Cities, NEW e \in BOOLEAN,
           NEW u \in BOOLEAN, Accept(c, p, e, u)
    PROVE  call' \in Calls /\ out' \in Outcomes
<1>1. call.page \in 1..MaxPage /\ tab.key \in Keywords /\ tab.loaded \in 0..MaxPage
  BY DEF Calls, Tabs
<1> QED
  BY <1>1, FreshTyped DEF Accept, Outcomes

LEMMA AcceptPageTyped ==
    ASSUME call \in Calls, tab \in Tabs, NEW e \in BOOLEAN, AcceptPage(e)
    PROVE  /\ call' \in Calls /\ out' \in Outcomes /\ pc' = "done"
           /\ out'.cards <=> tab.surface = "cards"
           /\ out'.place = tab.place /\ out'.exhausted = e /\ out'.unproved = call.unproved
           /\ out'.key = tab.key /\ out'.page = call.page /\ out'.loaded = tab.loaded
<1>1. (tab.surface = "cards") \in BOOLEAN /\ tab.place \in Cities /\ call.unproved \in BOOLEAN
  BY DEF Calls, Tabs
<1>2. call.page \in 1..MaxPage /\ tab.key \in Keywords /\ tab.loaded \in 0..MaxPage
  BY DEF Calls, Tabs
<1>3. out' = [ok |-> TRUE, cards |-> tab.surface = "cards", place |-> tab.place, key |-> tab.key, page |-> call.page,
              loaded |-> tab.loaded, exhausted |-> e, unproved |-> call.unproved]
      /\ call' = Fresh /\ pc' = "done"
  BY DEF AcceptPage, Accept
<1> QED
  BY <1>1, <1>2, <1>3, FreshTyped DEF Outcomes

\* Where the city is asked of the page by its url or its evidence, pages are as Drawn.
WebDrawn == platform # "zhilian" => Drawn(tab)
\* 51job: the search is by the code of the asked city.
CityAsked ==
    platform = "51job" => /\ seed = CityCode
                          /\ pc = "open" => ByCity(call.target)
                          /\ DrawnByCity(tab)
\* Where Liepin's collector looks at a page whose box holds the asked keyword, the site has
\* searched for it, or the collector knows that it had to type it.
KeywordSearched ==
    platform = "liepin" /\ pc = "snapshot" /\ ~call.unproved /\ tab.at = "list" /\ tab.box = "asked"
        => tab.key = "asked"
\* What is said of the pages that were read.
Safe == platform # "zhilian" => AskedListOnly /\ ExhaustedIsTrue /\ PageAsAsked
\* The inductive invariant.
CollectInv == CollectTypeOK /\ WebDrawn /\ CityAsked /\ KeywordSearched /\ Safe

LEMMA DrawnKept ==
    ASSUME UNCHANGED site, platform' # "zhilian" => Drawn(tab')
    PROVE  WebDrawn'
BY DEF WebDrawn, Drawn, PlaceOf, LastOf

LEMMA TabKept ==
    ASSUME WebDrawn, UNCHANGED <<platform, site, tab>>
    PROVE  WebDrawn'
BY DEF WebDrawn, Drawn, PlaceOf, LastOf

LEMMA OutKept ==
    ASSUME Safe, UNCHANGED <<World, out>>
    PROVE  Safe'
BY DEF Safe, World, AskedListOnly, ExhaustedIsTrue, PageAsAsked, Unchecked, Ended

LEMMA NothingSaid ==
    ASSUME ~out'.cards, ~out'.exhausted
    PROVE  Safe'
BY DEF Safe, AskedListOnly, ExhaustedIsTrue, PageAsAsked, Ended

LEMMA WorldKept ==
    ASSUME CollectTypeOK, UNCHANGED World, saved' \in Codes \cup {0}, tab' \in Tabs, call' \in Calls, out' \in Outcomes,
           troubles' \in 0..MaxTrouble
    PROVE  CollectTypeOK'
BY DEF CollectTypeOK, World

LEMMA TypeFacts ==
    ASSUME CollectTypeOK
    PROVE  /\ site \in Sites /\ tab \in Tabs /\ call \in Calls /\ out \in Outcomes
           /\ saved \in Codes \cup {0} /\ seed \in Codes \cup {0} /\ troubles \in 0..MaxTrouble
           /\ tab.url \in Urls /\ call.target \in Urls /\ call.page \in 1..MaxPage
BY DEF CollectTypeOK, Tabs, Calls

LEMMA Once == ASSUME troubles \in 0..MaxTrouble, troubles < MaxTrouble, troubles' = troubles + 1
              PROVE  troubles' \in 0..MaxTrouble
BY CollectorAssumption

-----------------------------------------------------------------------------
\* The collector of Liepin.
LEMMA ListUrlTyped ==
    ASSUME NEW c \in Calls
    PROVE  ListUrl(c) \in Urls
<1>1. c.page \in 0..MaxPage /\ c.code \in Codes \cup {0}
  BY DEF Calls
<1> QED
  BY <1>1, UrlTyped DEF ListUrl, Paths, Keywords

LEMMA ResolvedTyped ==
    ASSUME CollectTypeOK, NEW code \in Codes \cup {0}, NEW route \in BOOLEAN, Resolved(code, route)
    PROVE  call' \in Calls /\ pc' = "open" /\ out' = out
<1> DEFINE c == [call EXCEPT !.code = code, !.route = route, !.purpose = "list"]
<1>1. c \in Calls
  BY DEF CollectTypeOK, Calls
<1>2. ListUrl(c) \in Urls
  BY <1>1, ListUrlTyped
<1>3. call' = [c EXCEPT !.target = ListUrl(c)] /\ pc' = "open" /\ out' = out
  BY DEF Resolved
<1> HIDE DEF c
<1> QED
  BY <1>1, <1>2, <1>3 DEF Calls

LEMMA VerifyRouteTyped ==
    ASSUME CollectTypeOK, VerifyRoute
    PROVE  call' \in Calls /\ pc' = "open" /\ out' = out
<1>1. Url("route", 0, "asked", 1) \in Urls
  BY Numbers, UrlTyped DEF Paths, Keywords
<1>2. tab.url \in Urls
  BY DEF CollectTypeOK, Tabs
<1> QED
  BY <1>1, <1>2 DEF VerifyRoute, CollectTypeOK, Calls

LEMMA GotoTyped ==
    ASSUME CollectTypeOK, NEW purpose \in {"plain", "directory"}, NEW u \in Urls, Navigate(purpose, u)
    PROVE  call' \in Calls /\ pc' = "open" /\ out' = out
BY DEF Navigate, CollectTypeOK, Calls

LEMMA FlawedTargetGood ==
    ASSUME CollectTypeOK
    PROVE  /\ Target \in Tabs /\ Drawn(Target)
           /\ \A t \in FlawedTarget : t \in Tabs /\ Drawn(t)
<1>1. Elsewhere("directory") \in Tabs /\ Drawn(Elsewhere("directory"))
  BY ElsewhereTyped DEF Drawn
<1>2. [Elsewhere("directory") EXCEPT !.linked = FALSE] \in Tabs /\ Drawn([Elsewhere("directory") EXCEPT !.linked = FALSE])
  BY ElsewhereTyped DEF Drawn, Tabs
<1>3. \A a \in {"verify", "login", "home"} : Elsewhere(a) \in Tabs /\ Drawn(Elsewhere(a))
  BY ElsewhereTyped DEF Drawn
<1>4. Shown(call.target) \in Tabs /\ Drawn(Shown(call.target))
  BY TypeFacts, ShownTyped, ShownDrawn
<1>5. \A t \in Flawed(call.target) : t \in Tabs /\ Drawn(t)
  BY TypeFacts, FlawedGood
<1> QED
  BY <1>1, <1>2, <1>3, <1>4, <1>5 DEF Target, FlawedTarget

\* Two sources of two.
LEMMA BothSources ==
    ASSUME NEW t, Cardinality({s \in {"city", "more"} : t[s] = "asked"}) >= 2
    PROVE  t.city = "asked" /\ t.more = "asked"
<1> DEFINE S == {s \in {"city", "more"} : t[s] = "asked"}
<1>1. ASSUME NEW x, S \subseteq {x} PROVE FALSE
  <2>1. IsFiniteSet({x}) /\ Cardinality({x}) = 1
    BY FS_Singleton
  <2>2. Cardinality(S) <= 1 /\ Cardinality(S) \in Nat
    BY <1>1, <2>1, FS_Subset, FS_CardinalityType
  <2> QED BY <2>2
<1>2. ~(S \subseteq {"more"}) /\ ~(S \subseteq {"city"})
  BY <1>1
<1> QED
  BY <1>2

LEMMA EvidenceOfCity ==
    ASSUME NEW t, NEW e, Drawn(t), Evidence(t, e)
    PROVE  /\ t.at = "list" /\ t.place = "asked" /\ t.code = CityCode /\ t.box = "asked"
           /\ e # 0 => e = CityCode
<1>1. t.city = "asked" /\ t.more = "asked"
  BY BothSources DEF Evidence
<1> QED
  BY <1>1 DEF Evidence, Drawn

LEMMA VerifiedIsCity ==
    ASSUME Drawn(tab), CityVerified(tab)
    PROVE  /\ tab.at = "list" /\ tab.place = "asked" /\ tab.box = "asked"
           /\ call.code # 0 => call.code = CityCode
<1>1. CASE call.route /\ call.code = 0
  BY <1>1 DEF CityVerified, RouteEvidence, Drawn
<1>2. CASE ~(call.route /\ call.code = 0)
  BY <1>2, EvidenceOfCity DEF CityVerified
<1> QED
  BY <1>1, <1>2

LEMMA RememberedIsCity ==
    ASSUME Drawn(tab), CityVerified(tab)
    PROVE  Remembered \in {saved, CityCode}
BY VerifiedIsCity, EvidenceOfCity DEF Remembered

\* The end of a list that is told on a page of the city is the end of the asked list.
LEMMA EndIsTrue ==
    ASSUME CollectTypeOK, Drawn(tab), tab.at = "list", tab.place = "asked", tab.url.key = "asked",
           tab.surface = "empty" \/ (tab.shown = call.page /\ tab.last)
    PROVE  call.page >= site.last
<1>1. LastOf(tab.url) = site.last
  BY DEF Drawn, LastOf
<1>2. site.last \in Nat /\ call.page \in Nat /\ tab.shown \in Nat /\ tab.surface \in {"cards", "empty"}
  <2>1. site.last \in 0..MaxPage
    BY DEF CollectTypeOK, Sites
  <2>2. call.page \in 1..MaxPage
    BY DEF CollectTypeOK, Calls
  <2>3. tab.shown \in 0..MaxPage /\ tab.surface \in {"cards", "empty"}
    BY DEF CollectTypeOK, Tabs
  <2> QED
    BY <2>1, <2>2, <2>3, Numbers
<1> QED
  BY <1>1, <1>2 DEF Drawn

LEMMA LiepinAcceptSafe ==
    ASSUME CollectTypeOK, WebDrawn, KeywordSearched, platform = "liepin", UNCHANGED World, LiepinAccept
    PROVE  CollectTypeOK' /\ Safe'
<1>1. Drawn(tab) /\ CityVerified(tab) /\ pc = "snapshot"
  BY DEF WebDrawn, LiepinAccept
<1>2. tab.at = "list" /\ tab.place = "asked" /\ tab.box = "asked"
  BY <1>1, VerifiedIsCity
<1>3. Terminated(tab) \in BOOLEAN
  BY DEF Terminated
<1>4. AcceptPage(Terminated(tab))
  BY DEF LiepinAccept
<1>5. /\ call' \in Calls /\ out' \in Outcomes /\ out'.place = tab.place
      /\ out'.exhausted = Terminated(tab) /\ out'.unproved = call.unproved
      /\ out'.key = tab.key /\ out'.page = call.page
  BY <1>3, <1>4, AcceptPageTyped, TypeFacts
<1>6. saved' \in Codes \cup {0}
  BY <1>1, RememberedIsCity, Numbers DEF LiepinAccept, CollectTypeOK
<1>7. CollectTypeOK'
  BY <1>5, <1>6, WorldKept DEF LiepinAccept, CollectTypeOK
<1>8. AskedListOnly'
  BY <1>1, <1>2, <1>5 DEF AskedListOnly, KeywordSearched
<1>9. Terminated(tab) => call.page >= site.last
  BY <1>1, <1>2, EndIsTrue DEF Terminated
<1>10. ExhaustedIsTrue' /\ PageAsAsked'
  BY <1>5, <1>9 DEF ExhaustedIsTrue, PageAsAsked, Ended, World
<1> QED
  BY <1>7, <1>8, <1>10 DEF Safe

\* A step that leaves saved codes, says nothing and leaves a page as the site draws it.
LEMMA LookingOn ==
    ASSUME CollectTypeOK, Safe, UNCHANGED <<World, saved, out>>, tab' \in Tabs, call' \in Calls,
           troubles' \in 0..MaxTrouble, platform = "zhilian" \/ Drawn(tab'), platform = "51job" => CityAsked'
    PROVE  CollectTypeOK' /\ WebDrawn' /\ CityAsked' /\ Safe'
<1>1. CollectTypeOK' /\ Safe'
  BY OutKept, WorldKept DEF CollectTypeOK
<1>2. WebDrawn'
  BY DrawnKept DEF World
<1>3. CityAsked'
  BY DEF World, CityAsked
<1> QED
  BY <1>1, <1>2, <1>3

\* A collection that ends with an error.
LEMMA Failing ==
    ASSUME CollectTypeOK, Fail, UNCHANGED World, saved' = saved, tab' \in Tabs, troubles' \in 0..MaxTrouble,
           platform = "zhilian" \/ Drawn(tab'), platform = "51job" => DrawnByCity(tab') /\ seed = CityCode
    PROVE  CollectInv'
<1>1. call' \in Calls /\ out' \in Outcomes /\ ~out'.cards /\ ~out'.exhausted /\ pc' = "done"
  BY FailTyped, TypeFacts
<1>2. CollectTypeOK' /\ Safe'
  BY <1>1, NothingSaid, WorldKept DEF CollectTypeOK
<1>3. WebDrawn' /\ CityAsked' /\ KeywordSearched'
  BY <1>1, DrawnKept DEF CityAsked, KeywordSearched, World, DrawnByCity
<1> QED
  BY <1>2, <1>3 DEF CollectInv

LEMMA LiepinQuiet ==
    ASSUME CollectInv, platform = "liepin", UNCHANGED <<World, saved, out>>, tab' \in Tabs, call' \in Calls,
           troubles' \in 0..MaxTrouble, Drawn(tab'), KeywordSearched'
    PROVE  CollectInv'
BY LookingOn DEF CollectInv

LEMMA LiepinStops ==
    ASSUME CollectInv, platform = "liepin", Stop
    PROVE  CollectInv'
BY Failing, TypeFacts DEF CollectInv, Stop, WebDrawn

LEMMA LiepinKeeps ==
    ASSUME CollectInv, platform = "liepin", LiepinStep
    PROVE  CollectInv'
<1>0. CollectTypeOK /\ Drawn(tab) /\ tab \in Tabs /\ call \in Calls /\ saved \in Codes \cup {0} /\ troubles \in 0..MaxTrouble
      /\ Safe /\ KeywordSearched
  BY TypeFacts DEF CollectInv, WebDrawn
<1>1. CASE LiepinOpenRefused
  BY <1>1, LiepinStops DEF LiepinOpenRefused
<1>2. CASE LiepinOpenReused
  BY <1>0, <1>2, LiepinQuiet DEF LiepinOpenReused, KeywordSearched
<1>3. CASE LiepinOpen
  BY <1>0, <1>3, LiepinQuiet, FlawedTargetGood DEF LiepinOpen, KeywordSearched
<1>4. CASE LiepinOpenFlawed
  BY <1>0, <1>4, LiepinQuiet, FlawedTargetGood, Once DEF LiepinOpenFlawed, KeywordSearched
<1>5. CASE LiepinArrive
  BY <1>0, <1>5, LiepinQuiet DEF LiepinArrive, KeywordSearched
<1>6. CASE LiepinNotThere
  <2>1. CASE Navigate("directory", NoUrl)
    BY <1>0, <1>6, <2>1, GotoTyped, NoUrlTyped, LiepinQuiet DEF LiepinNotThere, KeywordSearched
  <2>2. CASE Fail
    BY <1>0, <1>6, <2>2, LiepinStops DEF LiepinNotThere, Stop
  <2> QED
    BY <1>6, <2>1, <2>2 DEF LiepinNotThere
<1>7. CASE LiepinResolve
  <2>0. UNCHANGED <<World, saved, tab, troubles>>
    BY <1>7 DEF LiepinResolve
  <2>1. CASE Fail
    BY <2>0, <2>1, LiepinStops DEF Stop
  <2>2. CASE Resolved(tab.code, FALSE)
    <3>1. tab.code \in Codes \cup {0}
      BY <1>0 DEF Tabs
    <3> QED
      BY <1>0, <2>0, <2>2, <3>1, ResolvedTyped, LiepinQuiet DEF KeywordSearched
  <2>3. CASE VerifyRoute
    BY <1>0, <2>0, <2>3, VerifyRouteTyped, LiepinQuiet DEF KeywordSearched
  <2>4. CASE Navigate("plain", Url("plain", 0, "asked", 1))
    <3>1. Url("plain", 0, "asked", 1) \in Urls
      BY Numbers, UrlTyped DEF Paths, Keywords
    <3> QED
      BY <1>0, <2>0, <2>4, <3>1, GotoTyped, LiepinQuiet DEF KeywordSearched
  <2> QED
    BY <1>7, <2>1, <2>2, <2>3, <2>4 DEF LiepinResolve
<1>8. CASE LiepinLinks
  <2>0. UNCHANGED <<World, saved, tab, troubles>>
    BY <1>8 DEF LiepinLinks
  <2>1. CASE Fail
    BY <2>0, <2>1, LiepinStops DEF Stop
  <2>2. CASE VerifyRoute
    BY <1>0, <2>0, <2>2, VerifyRouteTyped, LiepinQuiet DEF KeywordSearched
  <2>3. CASE Navigate("directory", NoUrl)
    BY <1>0, <2>0, <2>3, GotoTyped, NoUrlTyped, LiepinQuiet DEF KeywordSearched
  <2> QED
    BY <1>8, <2>1, <2>2, <2>3 DEF LiepinLinks
<1>9. CASE LiepinProve
  <2>0. UNCHANGED <<World, saved, tab, troubles>>
    BY <1>9 DEF LiepinProve
  <2>1. CASE Fail
    BY <2>0, <2>1, LiepinStops DEF Stop
  <2>2. CASE Resolved(0, TRUE)
    BY <1>0, <2>0, <2>2, ResolvedTyped, LiepinQuiet DEF KeywordSearched
  <2> QED
    BY <1>9, <2>1, <2>2 DEF LiepinProve
<1>10. CASE LiepinQueryThere
  BY <1>0, <1>10, LiepinQuiet DEF LiepinQueryThere, KeywordSearched, Drawn
<1>11. CASE LiepinStateUnknown
  BY <1>11, LiepinStops DEF LiepinStateUnknown
<1>12. CASE LiepinType
  <2>1. UNCHANGED <<World, saved, troubles>> /\ tab.at = "list" /\ tab.url.key # "asked"
    BY <1>12 DEF LiepinType
  <2>2. CASE bulk
    <3>1. tab' = [tab EXCEPT !.box = "none"] /\ Fail
      BY <1>12, <2>2 DEF LiepinType
    <3>2. tab' \in Tabs
      BY <1>0, <3>1, BoxTyped DEF Keywords
    <3>3. Drawn(tab')
      BY <1>0, <2>1, <3>1 DEF Drawn, Tabs
    <3> QED
      BY <1>0, <2>1, <3>1, <3>2, <3>3, Failing
  <2>3. CASE ~bulk
    <3>1. tab' = [tab EXCEPT !.box = "asked"] /\ call' = [call EXCEPT !.path = tab.url.path]
          /\ pc' = "submit" /\ out' = out
      BY <1>12, <2>3 DEF LiepinType
    <3>2. tab' \in Tabs
      BY <1>0, <3>1, BoxTyped DEF Keywords
    <3>3. Drawn(tab')
      BY <1>0, <3>1 DEF Drawn, Tabs
    <3>4. call' \in Calls
      BY <1>0, <3>1 DEF Calls, Tabs, Urls
    <3> QED
      BY <1>0, <2>1, <3>1, <3>2, <3>3, <3>4, LiepinQuiet DEF KeywordSearched
  <2> QED
    BY <2>2, <2>3
<1>13. CASE LiepinPathChanged
  BY <1>13, LiepinStops DEF LiepinPathChanged
<1>14. CASE LiepinSubmitted
  <2>0. UNCHANGED <<World, saved, out>> /\ pc' = "snapshot" /\ tab.at = "list"
    BY <1>14 DEF LiepinSubmitted
  <2>1. CASE tab.url.key = "asked" /\ UNCHANGED <<tab, troubles, call>>
    BY <1>0, <2>0, <2>1, LiepinQuiet DEF KeywordSearched, Drawn
  <2>2. CASE tab.url.key # "asked" /\ call' = [call EXCEPT !.unproved = TRUE]
    <3>1. call' \in Calls /\ call'.unproved
      BY <1>0, <2>2 DEF Calls
    <3>2. CASE tab' = Shown([tab.url EXCEPT !.key = tab.box, !.page = 1]) /\ UNCHANGED troubles
      <4>1. tab.url \in Urls /\ tab.box \in Keywords /\ 1 \in 0..MaxPage
        BY <1>0, Numbers DEF Tabs
      <4>2. [tab.url EXCEPT !.key = tab.box, !.page = 1] \in Urls
        BY <4>1 DEF Urls
      <4>3. tab' \in Tabs /\ Drawn(tab')
        BY <1>0, <3>2, <4>2, ShownTyped, ShownDrawn DEF CollectTypeOK
      <4> QED
        BY <1>0, <2>0, <3>1, <3>2, <4>3, LiepinQuiet DEF KeywordSearched
    <3>3. CASE troubles < MaxTrouble /\ troubles' = troubles + 1 /\ UNCHANGED tab
      BY <1>0, <2>0, <3>1, <3>3, Once, LiepinQuiet DEF KeywordSearched
    <3> QED
      BY <1>14, <2>2, <3>2, <3>3 DEF LiepinSubmitted
  <2> QED
    BY <1>14, <2>1, <2>2 DEF LiepinSubmitted
<1>15. CASE LiepinAccept
  <2>1. UNCHANGED World /\ tab' = tab /\ pc' = "done"
    BY <1>15 DEF LiepinAccept, AcceptPage, Accept
  <2>2. CollectTypeOK' /\ Safe'
    BY <1>0, <1>15, <2>1, LiepinAcceptSafe DEF CollectInv
  <2> QED
    BY <1>0, <2>1, <2>2, DrawnKept DEF CollectInv, CityAsked, KeywordSearched, World
<1>16. CASE LiepinLookAgain
  <2>1. call' \in Calls
    BY <1>0, <1>16 DEF LiepinLookAgain, Calls
  <2>2. saved' \in Codes \cup {0}
    BY <1>0, <1>16 DEF LiepinLookAgain, Forgotten
  <2>3. UNCHANGED <<World, tab, out, troubles>> /\ pc' = "resolve"
    BY <1>16 DEF LiepinLookAgain
  <2>4. CollectTypeOK' /\ Safe'
    BY <1>0, <2>1, <2>2, <2>3, WorldKept, OutKept DEF CollectTypeOK
  <2> QED
    BY <1>0, <2>3, <2>4, DrawnKept DEF CollectInv, CityAsked, KeywordSearched, World
<1>17. CASE LiepinGiveUp
  BY <1>17, LiepinStops DEF LiepinGiveUp
<1> QED
  BY <1>1, <1>2, <1>3, <1>4, <1>5, <1>6, <1>7, <1>8, <1>9, <1>10, <1>11, <1>12, <1>13, <1>14, <1>15,
     <1>16, <1>17 DEF LiepinStep

-----------------------------------------------------------------------------
\* The collector of 51job.
LEMMA Job51Keeps ==
    ASSUME CollectInv, Job51Step
    PROVE  CollectInv'
<1>0. /\ CollectTypeOK /\ Drawn(tab) /\ tab \in Tabs /\ call \in Calls /\ troubles \in 0..MaxTrouble /\ Safe
      /\ platform = "51job" /\ seed = CityCode /\ DrawnByCity(tab) /\ (pc = "open" => ByCity(call.target))
      /\ call.target \in Urls /\ tab.url \in Urls /\ site \in Sites
  BY TypeFacts DEF CollectInv, WebDrawn, CityAsked, Job51Step
<1>a. ASSUME UNCHANGED <<World, saved, out>>, tab' \in Tabs, call' \in Calls, troubles' \in 0..MaxTrouble,
             Drawn(tab'), DrawnByCity(tab'), pc' # "open"
      PROVE  CollectInv'
  <2>1. CityAsked'
    BY <1>0, <1>a DEF CityAsked, World, DrawnByCity
  <2> QED
    BY <1>0, <1>a, <2>1, LookingOn DEF CollectInv, KeywordSearched, World
<1>b. ASSUME Fail, UNCHANGED <<World, saved, tab>>, troubles' \in 0..MaxTrouble
      PROVE  CollectInv'
  BY <1>0, <1>b, Failing
<1>1. CASE Job51Open
  <2>0. UNCHANGED <<World, saved, call, out>> /\ pc' = "ready" /\ ByCity(call.target)
    BY <1>0, <1>1 DEF Job51Open
  <2>1. CASE UNCHANGED <<tab, troubles>>
    BY <1>0, <1>a, <2>0, <2>1
  <2>2. CASE tab' = Shown(call.target) /\ UNCHANGED troubles
    BY <1>0, <1>a, <2>0, <2>2, ShownTyped, ShownDrawn, ShownFields DEF DrawnByCity
  <2>3. CASE troubles < MaxTrouble /\ tab' \in Flawed(call.target) /\ troubles' = troubles + 1
    BY <1>0, <1>a, <2>0, <2>3, Once, FlawedGood, FlawedByCity
  <2> QED
    BY <1>1, <2>1, <2>2, <2>3 DEF Job51Open
<1>2. CASE Job51NotReady
  BY <1>0, <1>b, <1>2, Once DEF Job51NotReady
<1>3. CASE Job51Take
  <2>1. AcceptPage(tab.last) /\ tab.last \in BOOLEAN /\ UNCHANGED <<World, saved, tab, troubles>> /\ tab.at = "list"
    BY <1>0, <1>3 DEF Job51Take, Tabs
  <2>2. /\ call' \in Calls /\ out' \in Outcomes /\ pc' = "done"
        /\ out'.cards <=> tab.surface = "cards"
        /\ out'.place = tab.place /\ out'.exhausted = tab.last /\ out'.unproved = call.unproved
        /\ out'.key = tab.key /\ out'.page = call.page /\ out'.loaded = tab.loaded
    BY <1>0, <2>1, AcceptPageTyped
  <2>3. CollectTypeOK'
    BY <1>0, <2>1, <2>2, WorldKept DEF CollectTypeOK
  <2>4. ASSUME bulk, out'.cards
        PROVE  tab.shown = tab.loaded /\ tab.shown = call.page /\ tab.key = "asked" /\ tab.surface # "empty"
    BY <1>0, <1>3, <2>1, <2>2, <2>4 DEF Job51Take, CardsReady, QueryKept, DrawnByCity
  <2>5. tab.place = "asked" /\ tab.key = tab.url.key
    BY <1>0, <2>1 DEF Drawn, DrawnByCity, ByCity, PlaceOf
  <2>6. ASSUME bulk, out'.cards, tab.last
        PROVE  call.page >= site.last
    BY <1>0, <2>1, <2>4, <2>5, <2>6, EndIsTrue
  <2>7. AskedListOnly' /\ PageAsAsked' /\ ExhaustedIsTrue'
    BY <1>0, <2>1, <2>2, <2>4, <2>6 DEF AskedListOnly, PageAsAsked, ExhaustedIsTrue, Ended, Unchecked, World
  <2>8. WebDrawn' /\ CityAsked' /\ KeywordSearched'
    BY <1>0, <2>1, <2>2, DrawnKept DEF CityAsked, KeywordSearched, World, DrawnByCity
  <2> QED
    BY <2>3, <2>7, <2>8 DEF CollectInv, Safe
<1>4. CASE Job51QueryChanged
  BY <1>0, <1>b, <1>4 DEF Job51QueryChanged, Job51Stop
<1>5. CASE Job51Page
  <2>1. call' \in Calls
    BY <1>0, <1>5 DEF Job51Page, Calls, Tabs
  <2> QED
    BY <1>0, <1>a, <1>5, <2>1 DEF Job51Page
<1>6. CASE Job51Click
  <2>1. PICK p \in {call.page, Neighbour} :
           /\ p \in 1..LastOf(tab.url)
           /\ tab' = [tab EXCEPT !.shown = p, !.last = p >= LastOf(tab.url)]
           /\ call' = [call EXCEPT !.expect = p, !.steps = @ + 1]
    BY <1>6 DEF Job51Click
  <2>2. LastOf(tab.url) \in 0..MaxPage
    BY <1>0, LastTyped
  <2>3. p \in 0..MaxPage /\ (p >= LastOf(tab.url)) \in BOOLEAN
    BY <2>1, <2>2, Numbers
  <2>4. tab' \in Tabs
    BY <1>0, <2>1, <2>3 DEF Tabs
  <2>5. call.steps <= MaxPage /\ call.steps \in 0..MaxPage + 1
    BY <1>0, <1>6 DEF Job51Click, Calls
  <2>6. call.steps + 1 \in 0..MaxPage + 1
    BY <2>5, Numbers
  <2>7. call' \in Calls
    BY <1>0, <2>1, <2>3, <2>6 DEF Calls
  <2>8. Drawn(tab') /\ DrawnByCity(tab')
    BY <1>0, <2>1, <2>2, <2>3 DEF Drawn, DrawnByCity, Tabs
  <2> QED
    BY <1>0, <1>a, <1>6, <2>4, <2>7, <2>8 DEF Job51Click
<1>7. CASE Job51NoClick
  BY <1>0, <1>b, <1>7 DEF Job51NoClick, Job51Stop
<1> QED
  BY <1>1, <1>2, <1>3, <1>4, <1>5, <1>6, <1>7 DEF Job51Step

-----------------------------------------------------------------------------
\* The collector of Zhilian, whose values keep their types.
LEMMA ZhilianTyped ==
    ASSUME CollectInv, platform = "zhilian", UNCHANGED World, saved' \in Codes \cup {0}, tab' \in Tabs,
           call' \in Calls, out' \in Outcomes, troubles' \in 0..MaxTrouble
    PROVE  CollectInv'
<1>1. CollectTypeOK'
  BY WorldKept DEF CollectInv
<1> QED
  BY <1>1 DEF CollectInv, WebDrawn, CityAsked, KeywordSearched, Safe, World

LEMMA ZhilianFails ==
    ASSUME CollectInv, platform = "zhilian", UNCHANGED <<World, saved>>, tab' \in Tabs,
           troubles' \in 0..MaxTrouble, Fail
    PROVE  CollectInv'
BY FailTyped, TypeFacts, ZhilianTyped DEF CollectInv

LEMMA ZhilianGoesOn ==
    ASSUME CollectInv, platform = "zhilian", UNCHANGED <<World, saved, out>>, tab' \in Tabs,
           call' \in Calls, troubles' \in 0..MaxTrouble
    PROVE  CollectInv'
BY TypeFacts, ZhilianTyped DEF CollectInv

LEMMA ObservedTyped ==
    ASSUME CollectTypeOK, NEW b \in BOOLEAN
    PROVE  ObservedKept(tab, b) \in Codes \cup {0} /\ CodeGiven(tab) \in Codes \cup {0}
<1>1. tab.url.code \in Codes \cup {0} /\ call.candidate \in Codes \cup {0} /\ saved \in Codes \cup {0}
  BY DEF CollectTypeOK, Tabs, Urls, Calls
<1> QED
  BY <1>1, Numbers DEF ObservedKept, Observed, CodeGiven

LEMMA KeptTyped ==
    ASSUME CollectTypeOK
    PROVE  CardsKept(tab) \in BOOLEAN /\ PlaceKept(tab) \in Cities /\ ZhilianExhausted(tab) \in BOOLEAN
<1>1. tab.place \in Cities
  BY DEF CollectTypeOK, Tabs
<1> QED
  BY <1>1 DEF CardsKept, PlaceKept, ZhilianExhausted, Cities

LEMMA ZhilianKeeps ==
    ASSUME CollectInv, ZhilianStep
    PROVE  CollectInv'
<1>0. /\ CollectTypeOK /\ tab \in Tabs /\ call \in Calls /\ out \in Outcomes /\ troubles \in 0..MaxTrouble
      /\ saved \in Codes \cup {0} /\ platform = "zhilian" /\ site \in Sites /\ tab.url \in Urls
      /\ call.page \in 1..MaxPage
  BY TypeFacts DEF CollectInv, ZhilianStep
<1>a. /\ Typed \in Tabs
      /\ \A a \in {"directory", "home", "cityhome", "login", "verify", "loading"} : Elsewhere(a) \in Tabs
      /\ Selected(tab) \in Tabs
      /\ SearchFrom(Typed) \subseteq Tabs /\ SearchFlawed(Typed) \subseteq Tabs
  <2>1. Typed \in Tabs
    BY <1>0, BoxTyped DEF Typed, Keywords
  <2> QED
    BY <1>0, <2>1, ElsewhereTyped, SelectedTyped, SearchTyped, SearchFlawedTyped
<1>b. ASSUME Goes PROVE troubles' \in 0..MaxTrouble
  BY <1>0, <1>b, Once DEF Goes
<1>c. ASSUME UNCHANGED <<World, saved, tab, troubles>>, Fail PROVE CollectInv'
  BY <1>0, <1>c, ZhilianFails
<1>1. CASE ZhilianOpen
  BY <1>0, <1>1, <1>a, <1>b, ZhilianGoesOn DEF ZhilianOpen, GoOn
<1>2. CASE ZhilianSearch
  BY <1>0, <1>2, <1>a, <1>b, ZhilianGoesOn DEF ZhilianSearch, GoOn, Adopted
<1>3. CASE ZhilianSearchFails
  BY <1>0, <1>3, <1>a, <1>b, ZhilianFails DEF ZhilianSearchFails, CleanupFailed
<1>4. CASE ZhilianNoControl
  BY <1>4, <1>c DEF ZhilianNoControl, Untouched
<1>5. CASE ZhilianArrived
  <2>1. call' = [call EXCEPT !.candidate = CodeGiven(tab)]
    BY <1>5 DEF ZhilianArrived, Arrive
  <2>2. call' \in Calls
    BY <1>0, <2>1, ObservedTyped DEF Calls
  <2> QED
    BY <1>0, <1>5, <2>2, ZhilianGoesOn DEF ZhilianArrived, Arrive, GoOn, Untouched
<1>6. CASE ZhilianSendAgain
  BY <1>0, <1>6, ZhilianGoesOn DEF ZhilianSendAgain, GoOn, Untouched
<1>7. CASE ZhilianToCity
  <2>1. call' = [call EXCEPT !.tried = TRUE] /\ UNCHANGED <<World, saved, out>>
    BY <1>7 DEF ZhilianToCity, GoOn
  <2>2. call' \in Calls
    BY <1>0, <2>1 DEF Calls
  <2>3. Shown(Url("route", 0, "none", 1)) \in Tabs
    <3>1. Url("route", 0, "none", 1) \in Urls
      BY UrlTyped, Numbers DEF Paths, Keywords
    <3> QED
      BY <1>0, <3>1, ShownTyped
  <2>4. tab' \in Tabs /\ troubles' \in 0..MaxTrouble
    BY <1>0, <1>7, <1>a, <1>b, <2>3, CityHomeTyped DEF ZhilianToCity
  <2> QED
    BY <1>0, <2>1, <2>2, <2>4, ZhilianGoesOn
<1>8. CASE ZhilianSelect
  <2>1. call' = [call EXCEPT !.tried = TRUE] /\ UNCHANGED <<World, saved, out, troubles>>
    BY <1>8 DEF ZhilianSelect, GoOn
  <2>2. call' \in Calls
    BY <1>0, <2>1 DEF Calls
  <2>3. tab' \in Tabs
    BY <1>0, <1>8, <1>a DEF ZhilianSelect
  <2> QED
    BY <1>0, <2>1, <2>2, <2>3, ZhilianGoesOn
<1>9. CASE ZhilianNoTransition
  BY <1>9, <1>c DEF ZhilianNoTransition, Untouched
<1>10. CASE ZhilianLanded
  <2>1. call' = [call EXCEPT !.route = TRUE] /\ UNCHANGED <<World, saved, tab, out, troubles>>
    BY <1>10 DEF ZhilianLanded, GoOn, Untouched
  <2>2. call' \in Calls
    BY <1>0, <2>1 DEF Calls
  <2> QED
    BY <1>0, <2>1, <2>2, ZhilianGoesOn
<1>11. CASE ZhilianAtRoot
  BY <1>0, <1>11, ZhilianGoesOn DEF ZhilianAtRoot, GoOn, Untouched
<1>12. CASE ZhilianNowhere
  BY <1>12, <1>c DEF ZhilianNowhere, Untouched
<1>13. CASE ZhilianRecover
  <2>1. call' = [call EXCEPT !.route = TRUE] /\ UNCHANGED <<World, saved, out, troubles>>
        /\ tab' \in {Selected(tab), Shown(Url("plain", CityCode, tab.box, 1))}
    BY <1>13 DEF ZhilianRecover, GoOn
  <2>2. call' \in Calls
    BY <1>0, <2>1 DEF Calls
  <2>3. Url("plain", CityCode, tab.box, 1) \in Urls
    BY <1>0, UrlTyped, Numbers DEF Paths, Tabs
  <2> QED
    BY <1>0, <1>a, <2>1, <2>2, <2>3, ShownTyped, ZhilianGoesOn
<1>14. CASE ZhilianNotRecovered
  BY <1>0, <1>14, <1>b, ZhilianFails DEF ZhilianNotRecovered
<1>15. CASE ZhilianSend
  <2>1. call' = [call EXCEPT !.sent = TRUE] /\ UNCHANGED <<World, saved, out>>
    BY <1>15 DEF ZhilianSend, GoOn
  <2>2. call' \in Calls
    BY <1>0, <2>1 DEF Calls
  <2> QED
    BY <1>0, <1>15, <1>a, <1>b, <2>1, <2>2, ZhilianGoesOn DEF ZhilianSend, Adopted
<1>16. CASE ZhilianSendFails
  BY <1>0, <1>16, <1>a, <1>b, ZhilianFails DEF ZhilianSendFails, CleanupFailed
<1>17. CASE ZhilianNothingToSend
  BY <1>17, <1>c DEF ZhilianNothingToSend, Untouched
<1>18. CASE ZhilianFilter
  <2>1. call' = [call EXCEPT !.candidate = IF tab.linked THEN CityCode ELSE @] /\ UNCHANGED <<World, saved, out, troubles>>
    BY <1>18 DEF ZhilianFilter, GoOn
  <2>2. call' \in Calls
    BY <1>0, <2>1, Numbers DEF Calls
  <2>3. tab' \in Tabs
    BY <1>0, <1>18, <1>a DEF ZhilianFilter
  <2> QED
    BY <1>0, <2>1, <2>2, <2>3, ZhilianGoesOn
<1>19. CASE ZhilianLogin
  BY <1>19, <1>c DEF ZhilianLogin, Untouched
<1>20. CASE ZhilianReached
  BY <1>0, <1>20, ZhilianGoesOn DEF ZhilianReached, GoOn, Untouched
<1>d. ASSUME Accept(FALSE, tab.place, TRUE, TRUE), Untouched PROVE CollectInv'
  <2>1. tab.place \in Cities
    BY <1>0 DEF Tabs
  <2>2. call' \in Calls /\ out' \in Outcomes
    BY <1>0, <1>d, <2>1, AcceptTyped
  <2> QED
    BY <1>0, <1>d, <2>2, ZhilianTyped DEF Untouched
<1>21. CASE ZhilianEnd
  BY <1>21, <1>d DEF ZhilianEnd
<1>22. CASE ZhilianGrow
  <2>1. UNCHANGED <<World, saved>> /\ tab.loaded < call.page
    BY <1>22 DEF ZhilianGrow
  <2>2. CASE tab' = Turned(tab.loaded + 1) /\ UNCHANGED <<call, pc, out, troubles>>
    <3>1. tab.loaded \in 0..MaxPage
      BY <1>0 DEF Tabs
    <3>2. tab.loaded + 1 \in 0..MaxPage
      BY <1>0, <2>1, <3>1, Numbers
    <3> QED
      BY <1>0, <2>1, <2>2, <3>2, TurnedGood, ZhilianGoesOn
  <2>3. CASE UNCHANGED tab /\ Goes /\ Fail
    BY <1>0, <1>b, <2>1, <2>3, ZhilianFails
  <2> QED
    BY <1>22, <2>2, <2>3 DEF ZhilianGrow
<1>23. CASE ZhilianPager
  <2>1. call.page \in 0..MaxPage
    BY <1>0, Numbers
  <2> QED
    BY <1>0, <1>23, <1>b, <2>1, TurnedGood, ZhilianGoesOn DEF ZhilianPager, GoOn
<1>24. CASE ZhilianPagerEnd
  BY <1>24, <1>d DEF ZhilianPagerEnd
<1>25. CASE ZhilianNoPage
  BY <1>25, <1>c DEF ZhilianNoPage, Untouched
<1>26. CASE ZhilianAccept
  <2>1. UNCHANGED <<World, tab, troubles>> /\ saved' = ObservedKept(tab, ~RouteContinues(tab))
        /\ Accept(CardsKept(tab), PlaceKept(tab), ZhilianExhausted(tab), FALSE)
    BY <1>26 DEF ZhilianAccept
  <2>2. call' \in Calls /\ out' \in Outcomes
    BY <1>0, <2>1, KeptTyped, AcceptTyped
  <2>3. saved' \in Codes \cup {0}
    BY <1>0, <2>1, ObservedTyped
  <2> QED
    BY <1>0, <2>1, <2>2, <2>3, ZhilianTyped
<1>27. CASE ZhilianFilterAgain
  BY <1>0, <1>27, ZhilianGoesOn DEF ZhilianFilterAgain, GoOn, Untouched
<1>28. CASE ZhilianLookAgain
  <2>1. tab' \in Tabs
    BY <1>0, <1>28, <1>a DEF ZhilianLookAgain
  <2>2. call' = [call EXCEPT !.candidate = IF tab'.linked THEN CityCode ELSE 0] /\ UNCHANGED <<World, saved, out, troubles>>
    BY <1>28 DEF ZhilianLookAgain, GoOn, CodeGiven
  <2>3. call' \in Calls
    BY <1>0, <2>2, Numbers DEF Calls
  <2> QED
    BY <1>0, <2>1, <2>2, <2>3, ZhilianGoesOn
<1>29. CASE ZhilianAcceptSecond
  <2>1. UNCHANGED <<World, tab, troubles>> /\ saved' = ObservedKept(tab, FALSE)
        /\ Accept(CardsKept(tab), PlaceKept(tab), ZhilianExhausted(tab), ~ZhilianQueryVerified(tab))
    BY <1>29 DEF ZhilianAcceptSecond
  <2>2. call' \in Calls /\ out' \in Outcomes
    <3>1. (~ZhilianQueryVerified(tab)) \in BOOLEAN
      BY DEF ZhilianQueryVerified
    <3> QED
      BY <1>0, <2>1, <3>1, KeptTyped, AcceptTyped
  <2>3. saved' \in Codes \cup {0}
    BY <1>0, <2>1, ObservedTyped
  <2> QED
    BY <1>0, <2>1, <2>2, <2>3, ZhilianTyped
<1>30. CASE ZhilianGiveUp
  BY <1>30, <1>c DEF ZhilianGiveUp, Untouched
<1> QED
  BY <1>1, <1>2, <1>3, <1>4, <1>5, <1>6, <1>7, <1>8, <1>9, <1>10, <1>11, <1>12, <1>13, <1>14, <1>15,
     <1>16, <1>17, <1>18, <1>19, <1>20, <1>21, <1>22, <1>23, <1>24, <1>25, <1>26, <1>27, <1>28, <1>29,
     <1>30 DEF ZhilianStep

-----------------------------------------------------------------------------
\* The caller, the site, the person, and the whole.
LEMMA BeginTyped ==
    ASSUME CollectTypeOK, NEW p \in 1..MaxPage, Begin(p)
    PROVE  /\ call' \in Calls /\ UNCHANGED <<World, saved, tab, out, troubles>> /\ pc = "idle"
           /\ pc' # "snapshot"
           /\ platform = "51job" => call'.target = Url("plain", seed, "asked", IF bulk THEN 1 ELSE p)
<1>1. p \in 0..MaxPage /\ 1 \in 0..MaxPage /\ saved \in Codes \cup {0} /\ seed \in Codes \cup {0}
  BY Numbers DEF CollectTypeOK
<1>2. CASE platform = "liepin" /\ LiepinBegin(p)
  <2> DEFINE c == [Fresh EXCEPT !.page = p, !.code = KnownCode]
  <2>1. KnownCode \in Codes \cup {0}
    BY <1>1 DEF KnownCode
  <2>2. c \in Calls
    BY <2>1, FreshTyped DEF Calls
  <2>3. ListUrl(c) \in Urls
    BY <2>2, ListUrlTyped
  <2>4. [c EXCEPT !.tried = TRUE] \in Calls /\ [c EXCEPT !.target = ListUrl(c)] \in Calls
    BY <2>2, <2>3 DEF Calls
  <2>5. call' \in {[c EXCEPT !.tried = TRUE], [c EXCEPT !.target = ListUrl(c)]} /\ pc' \in {"resolve", "open"}
    BY <1>2 DEF LiepinBegin
  <2> QED
    BY <1>2, <2>4, <2>5 DEF LiepinBegin
<1>3. CASE platform = "zhilian" /\ ZhilianBegin(p)
  <2>1. ZhilianKnown \in Codes \cup {0}
    BY <1>1 DEF ZhilianKnown
  <2>2. [Fresh EXCEPT !.page = p, !.code = ZhilianKnown] \in Calls
    BY <2>1, FreshTyped DEF Calls
  <2> QED
    BY <1>3, <2>2 DEF ZhilianBegin
<1>4. CASE platform = "51job" /\ Job51Begin(p)
  <2> DEFINE u == Url("plain", seed, "asked", IF bulk THEN 1 ELSE p)
  <2>1. u \in Urls
    BY <1>1, UrlTyped DEF Paths, Keywords
  <2>2. call' = [Fresh EXCEPT !.page = p, !.target = u]
    BY <1>4 DEF Job51Begin, Job51Url
  <2> HIDE DEF u
  <2>3. call' \in Calls /\ call'.target = u
    BY <2>1, <2>2, FreshTyped DEF Calls
  <2> QED
    BY <1>4, <2>3 DEF Job51Begin, u
<1> QED
  BY <1>2, <1>3, <1>4 DEF Begin

LEMMA BeginKeeps ==
    ASSUME CollectInv, NEW p \in 1..MaxPage, Begin(p)
    PROVE  CollectInv'
<1>0. /\ call' \in Calls /\ UNCHANGED <<World, saved, tab, out, troubles>> /\ pc' # "snapshot"
      /\ platform = "51job" => call'.target = Url("plain", seed, "asked", IF bulk THEN 1 ELSE p)
  BY BeginTyped DEF CollectInv
<1>1. CityAsked'
  BY <1>0 DEF CollectInv, CityAsked, World, DrawnByCity, ByCity, Url
<1> QED
  BY <1>0, <1>1, LookingOn, TypeFacts DEF CollectInv, WebDrawn, KeywordSearched

LEMMA DisturbKeeps ==
    ASSUME CollectInv, Disturb
    PROVE  CollectInv'
<1>0. /\ CollectTypeOK /\ tab \in Tabs /\ call \in Calls /\ tab.url \in Urls /\ site \in Sites /\ Safe
      /\ UNCHANGED <<World, saved, pc, call, out>> /\ troubles' \in 0..MaxTrouble
  BY TypeFacts, Once DEF CollectInv, Disturb
<1>a. ASSUME tab' \in Tabs, platform # "zhilian" => Drawn(tab'), platform = "51job" => DrawnByCity(tab'),
             KeywordSearched'
      PROVE  CollectInv'
  <2>1. CityAsked'
    BY <1>0, <1>a DEF CollectInv, CityAsked, World, DrawnByCity
  <2> QED
    BY <1>0, <1>a, <2>1, LookingOn DEF CollectInv
<1>1. CASE tab' \in {Elsewhere(a) : a \in {"verify", "login", "home"}}
  <2>1. PICK a \in {"verify", "login", "home"} : tab' = Elsewhere(a)
    BY <1>1
  <2>2. tab' \in Tabs /\ tab'.at # "list"
    BY <2>1, ElsewhereTyped
  <2> QED
    BY <1>a, <2>2 DEF Drawn, DrawnByCity, KeywordSearched
<1>2. CASE tab.at = "list" /\ tab' \in Flawed(tab.url)
  <2>1. tab' \in Tabs /\ Drawn(tab')
    BY <1>0, <1>2, FlawedGood
  <2>2. platform = "51job" => DrawnByCity(tab')
    BY <1>0, <1>2, FlawedByCity DEF CollectInv, CityAsked, DrawnByCity
  <2>3. tab'.at # "list" \/ tab'.box = tab'.key
    BY <1>0, <1>2, FlawedKeyed
  <2> QED
    BY <1>a, <2>1, <2>2, <2>3 DEF KeywordSearched
<1>3. CASE tab.at = "list" /\ tab' = Shown([tab.url EXCEPT !.key = "other", !.page = 1])
  <2> DEFINE u == [tab.url EXCEPT !.key = "other", !.page = 1]
  <2>1. 1 \in 0..MaxPage
    BY Numbers
  <2>2. u \in Urls /\ u.path = tab.url.path /\ u.code = tab.url.code
    BY <1>0, <2>1 DEF Urls, Keywords
  <2>3. tab' = Shown(u)
    BY <1>3
  <2> HIDE DEF u
  <2>4. tab' \in Tabs /\ Drawn(tab') /\ tab'.url = u /\ tab'.box = tab'.key
    BY <1>0, <2>2, <2>3, ShownTyped, ShownDrawn, ShownFields
  <2>5. platform = "51job" => DrawnByCity(tab')
    BY <1>3, <2>2, <2>4 DEF CollectInv, CityAsked, DrawnByCity, ByCity
  <2> QED
    BY <1>a, <2>4, <2>5 DEF KeywordSearched
<1>4. CASE tab.at = "list" /\ \E p \in 1..LastOf(tab.url) : p # tab.shown /\ tab' = Turned(p)
  <2>1. PICK p \in 1..LastOf(tab.url) : tab' = Turned(p)
    BY <1>4
  <2>2. LastOf(tab.url) \in 0..MaxPage
    BY <1>0, LastTyped
  <2>3. p \in 0..MaxPage
    BY <2>2, Numbers
  <2>4. tab'.at = tab.at /\ tab'.box = tab.box /\ tab'.key = tab.key
    BY <1>0, <2>1 DEF Turned, Tabs
  <2>5. tab' \in Tabs /\ (Drawn(tab) => Drawn(tab')) /\ (DrawnByCity(tab) => DrawnByCity(tab'))
    BY <1>0, <2>1, <2>3, TurnedGood
  <2> QED
    BY <1>0, <1>a, <2>4, <2>5 DEF CollectInv, WebDrawn, CityAsked, KeywordSearched, World
<1> QED
  BY <1>1, <1>2, <1>3, <1>4 DEF Disturb

LEMMA EndsKept ==
    ASSUME CollectInv, Taken \/ Die
    PROVE  CollectInv'
<1>0. /\ UNCHANGED <<World, saved, tab>> /\ pc' = "idle" /\ out' = NoOutcome /\ call' \in Calls
      /\ troubles' \in 0..MaxTrouble
  BY TypeFacts, FreshTyped, Once DEF CollectInv, Taken, Die
<1>1. CollectTypeOK' /\ Safe'
  BY <1>0, NoOutcomeTyped, NothingSaid, WorldKept, TypeFacts DEF CollectInv, NoOutcome
<1>2. WebDrawn' /\ CityAsked' /\ KeywordSearched'
  BY <1>0, TabKept DEF CollectInv, CityAsked, KeywordSearched, World, DrawnByCity
<1> QED
  BY <1>1, <1>2 DEF CollectInv

LEMMA AttendKeeps ==
    ASSUME CollectInv, Attend
    PROVE  CollectInv'
<1>1. tab' \in Tabs /\ tab'.at # "list" /\ UNCHANGED <<World, saved, pc, call, out, troubles>>
  BY ElsewhereTyped DEF Attend
<1>2. CityAsked' /\ KeywordSearched' /\ Drawn(tab')
  BY <1>1 DEF CollectInv, CityAsked, KeywordSearched, World, DrawnByCity, Drawn
<1> QED
  BY <1>1, <1>2, LookingOn, TypeFacts DEF CollectInv

LEMMA DrawKeeps ==
    ASSUME CollectInv, Job51Draw
    PROVE  CollectInv'
<1>0. /\ tab \in Tabs /\ Drawn(tab) /\ DrawnByCity(tab) /\ platform = "51job"
      /\ tab' = [tab EXCEPT !.loaded = tab.shown] /\ UNCHANGED <<World, saved, pc, call, out, troubles>>
  BY TypeFacts DEF CollectInv, WebDrawn, CityAsked, Job51Draw
<1>1. tab' \in Tabs
  BY <1>0 DEF Tabs
<1>2. Drawn(tab') /\ DrawnByCity(tab')
  BY <1>0 DEF Drawn, DrawnByCity, Tabs
<1>3. CityAsked' /\ KeywordSearched'
  BY <1>0, <1>2 DEF CollectInv, CityAsked, KeywordSearched, World, DrawnByCity
<1> QED
  BY <1>0, <1>1, <1>2, <1>3, LookingOn, TypeFacts DEF CollectInv

LEMMA CollectStarts ==
    ASSUME CollectInit
    PROVE  CollectInv
<1>0. tab \in Tabs /\ tab.at = "home" /\ call = Fresh /\ out = NoOutcome /\ pc = "idle"
  BY ElsewhereTyped DEF CollectInit
<1>1. bulk \in BOOLEAN
  <2>1. bulk \in (IF platform = "zhilian" THEN {TRUE} ELSE BOOLEAN)
    BY DEF CollectInit
  <2> QED
    BY <2>1
<1>a. saved \in Codes \cup {0} /\ troubles \in 0..MaxTrouble
  <2>1. saved \in (IF platform = "51job" THEN {0} ELSE Codes \cup {0})
    BY DEF CollectInit
  <2> QED
    BY <2>1, CollectorAssumption DEF CollectInit
<1>2. CollectTypeOK
  BY <1>0, <1>1, <1>a, FreshTyped, NoOutcomeTyped DEF CollectTypeOK, CollectInit
<1>3. WebDrawn /\ CityAsked /\ KeywordSearched
  BY <1>0 DEF CollectInit, WebDrawn, CityAsked, KeywordSearched, Drawn, DrawnByCity
<1>4. Safe
  BY <1>0 DEF Safe, AskedListOnly, ExhaustedIsTrue, PageAsAsked, Ended, NoOutcome
<1> QED
  BY <1>2, <1>3, <1>4 DEF CollectInv

LEMMA StepKeeps ==
    ASSUME CollectInv, [CollectNext]_collectVars
    PROVE  CollectInv'
<1>1. ASSUME UNCHANGED collectVars PROVE CollectInv'
  <2>1. UNCHANGED <<World, saved, tab, pc, call, out, troubles>>
    BY <1>1 DEF collectVars, World
  <2>2. CollectTypeOK' /\ Safe'
    BY <2>1, WorldKept, OutKept, TypeFacts DEF CollectInv
  <2> QED
    BY <2>1, <2>2, TabKept DEF CollectInv, CityAsked, KeywordSearched, World, DrawnByCity
<1>2. ASSUME LiepinStep PROVE CollectInv'
  BY <1>2, LiepinKeeps DEF LiepinStep
<1> QED
  BY <1>1, <1>2, ZhilianKeeps, Job51Keeps, BeginKeeps, DisturbKeeps, EndsKept, AttendKeeps, DrawKeeps
     DEF CollectNext

\* The inductive invariant of the collectors, for any set of codes, length of a list and
\* number of disturbances.
THEOREM CollectAlways == CollectSpec => []CollectInv
BY CollectStarts, StepKeeps, PTL DEF CollectSpec

\* The tab, the collection and its outcome keep their types.
THEOREM CollectorsTyped == CollectSpec => []CollectTypeOK
<1>1. CollectInv => CollectTypeOK
  BY DEF CollectInv
<1> QED
  BY <1>1, CollectAlways, PTL

\* The cards that Liepin's collector hands on are of the asked city and of the asked keyword,
\* and those of a bulk collection of 51job of the keyword, however often the site is
\* wrong about one source, loses the keyword, or a person uses the tab (_verify_snapshot_city,
\* collect_page).
THEOREM AskedListHandedOn == CollectSpec => [](platform # "zhilian" => AskedListOnly)
<1>1. CollectInv => (platform # "zhilian" => AskedListOnly)
  BY DEF CollectInv, Safe
<1> QED
  BY <1>1, CollectAlways, PTL

\* A search that Liepin's collector or a bulk collection of 51job tells to be exhausted
\* has no page after the one collected (_query_termination_reason, collect_page).
THEOREM EndIsTheEnd == CollectSpec => [](platform # "zhilian" => ExhaustedIsTrue)
<1>1. CollectInv => (platform # "zhilian" => ExhaustedIsTrue)
  BY DEF CollectInv, Safe
<1> QED
  BY <1>1, CollectAlways, PTL

\* The cards a bulk collection of 51job hands on are those of the page asked for,
\* whenever the page draws them and whoever moves the pager (collect_page, ready).
THEOREM CardsOfThePage == CollectSpec => []PageAsAsked
<1>1. CollectInv => PageAsAsked
  BY DEF CollectInv, Safe, PageAsAsked
<1> QED
  BY <1>1, CollectAlways, PTL

\* The only code that Liepin's collector keeps is the one of the city, from however many
\* pages and with whatever code it started; it may forget one (remember, forget).
THEOREM CodeOfTheCity == CollectSpec /\ [](platform # "zhilian") => KeptCodeIsTrue
<1>1. ASSUME CollectInv, [CollectNext]_collectVars, platform # "zhilian"
      PROVE  [saved' \in {saved, 0, CityCode}]_collectVars
  <2>1. ASSUME CollectNext, saved' # saved
        PROVE  saved' \in {0, CityCode}
    <3>1. LiepinStep /\ (LiepinAccept \/ LiepinLookAgain)
      BY <1>1, <2>1 DEF CollectNext, Begin, LiepinBegin, ZhilianBegin, Job51Begin, LiepinStep, ZhilianStep,
         Job51Step, Job51Open, Job51NotReady, Job51Take, Job51QueryChanged, Job51Page, Job51Click, Job51NoClick,
         Job51Stop, Job51Draw, Taken, Die, Disturb, Attend, LiepinOpenRefused, LiepinOpenReused, LiepinOpen,
         LiepinOpenFlawed, LiepinArrive, LiepinNotThere, LiepinResolve, LiepinLinks, LiepinProve,
         LiepinQueryThere, LiepinStateUnknown, LiepinType, LiepinPathChanged, LiepinSubmitted, LiepinGiveUp, Stop
    <3>2. CASE LiepinAccept
      BY <1>1, <2>1, <3>1, <3>2, RememberedIsCity DEF LiepinAccept, CollectInv, WebDrawn
    <3>3. CASE LiepinLookAgain
      BY <2>1, <3>3 DEF LiepinLookAgain, Forgotten
    <3> QED
      BY <3>1, <3>2, <3>3
  <2> QED
    BY <1>1, <2>1 DEF collectVars
<1> QED
  BY <1>1, CollectAlways, PTL DEF CollectSpec, KeptCodeIsTrue

\* No step of Liepin's collector changes a page that asks for a verification
\* (open_url_in_new_tab).
THEOREM VerificationLeftAlone == CollectSpec => VerificationIsLeft
<1>1. ASSUME [CollectNext]_collectVars
      PROVE  [LiepinStep => (tab.at = "verify" => tab' = tab)]_collectVars
  <2>1. ASSUME LiepinStep, tab.at = "verify", tab' # tab PROVE FALSE
    BY <2>1 DEF LiepinStep, LiepinOpenRefused, LiepinOpenReused, LiepinOpen, MayReplace, Interrupted,
         LiepinOpenFlawed, LiepinArrive, LiepinNotThere, LiepinResolve, LiepinLinks, LiepinProve,
         LiepinQueryThere, LiepinStateUnknown, LiepinType, LiepinPathChanged, LiepinSubmitted, LiepinGiveUp, Stop,
         LiepinAccept, LiepinLookAgain
  <2> QED
    BY <2>1
<1> QED
  BY <1>1, PTL DEF CollectSpec, VerificationIsLeft
=============================================================================
