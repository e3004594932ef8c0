-------------------------- MODULE DiscoveryProofs --------------------------
(***************************************************************************)
(* What a search charges and what it charges for, for any plan, any number  *)
(* of searches and any number of commands that die.  The invariant says of  *)
(* each of the files a command may continue from (the start, the decision,  *)
(* the works, the upload record) how it agrees with the others and with     *)
(* what the service has, and of the command under way what it has read.     *)
(***************************************************************************)
EXTENDS Discovery, FiniteSetTheorems, SequenceTheorems, TLAPS

\* A block of some pool.
BlockValues == {Block(pool, k) : pool \in Pools, k \in Nat}

Typed ==
    /\ TypeOK
    /\ sent \in [Requests -> Seq(BlockValues)]
    /\ service \in [Requests -> [blocks : Seq(BlockValues), final : BOOLEAN, pool : Pools]]

Distinct(pool) == \A i, j \in 1..Len(pool) : pool[i] = pool[j] => i = j

Final(r) == service[r].final
Whole(r) == r \notin partial

-----------------------------------------------------------------------------
(* The command under way: what its earlier steps found or wrote.             *)

Reads == {"plan", "collect", "advance", "upload"}

CommandInv ==
    /\ cmd.at # "idle" /\ cmd.at # "mark" /\ cmd.at # "gate" => cmd.req # 0
    /\ cmd.at \in Reads \cup {"freeze"} => cmd.req = start.req /\ decision.req = 0
    /\ cmd.at = "replay" => decision.req = 0
    /\ cmd.at = "plan" => ~start.col.kept
    /\ cmd.at \in {"accept", "replay"} => cmd.page \in Pages
    /\ cmd.at \in {"accept", "replay", "advance"} => exec = "native"
    /\ cmd.at = "upload" => exec = "bulk" /\ (Whole(cmd.req) => ~Final(cmd.req))
    /\ cmd.at = "freeze" =>
          cmd.pool = start.col.pool /\ (Whole(cmd.req) => Exhausted(start.col))
    /\ cmd.at \in {"decide", "manifest", "drop"} \/ (cmd.at = "unstart" /\ exec = "bulk") =>
          decision.req = cmd.req /\ decision.pool = cmd.pool
    /\ cmd.at = "unstart" /\ exec = "native" => ~MyTurn

\* Whoever issues a page without having submitted one has looked for a cancellation.
CancelInv ==
    exec = "native"
    /\ (cmd.at \in {"plan", "collect", "replay"} \/ (cmd.at = "advance" /\ cmd.page = NoPage))
        => ~CancelPending

-----------------------------------------------------------------------------
(* The files.                                                                *)

\* Every file is of a request that was handed out.
KnownInv ==
    /\ {start.req, decision.req, cmd.req} \subseteq Used \cup {0}
    /\ \A p \in Pages :
          /\ rows[p].req \in Used \cup {0}
          /\ rows[p].state # "none" => rows[p].req # 0
          /\ rows[p].state = "cancelled" => rows[p].gen < MaxGeneration
    /\ charged \subseteq Used
    /\ \A r \in Requests : Final(r) <=> r \in charged
    /\ start.req = 0 => start.round = 0
    /\ ~start.col.kept => start.col = NoProgress

\* The native executor has one request for each search of the user, and keeps its
\* start as long as the round waits for it.
AskInv ==
    /\ \A r \in Requests : askOf[r] <= ask
    /\ exec = "native" =>
          /\ \A r, s \in Used : askOf[r] = askOf[s] => r = s
          /\ \A r \in Requests : askOf[r] = ask /\ MyTurn => start.req = r /\ ContextMatches

\* Pools hold each job once, and those of one request agree.
PoolInv ==
    /\ Distinct(start.col.pool) /\ Distinct(decision.pool) /\ Distinct(cmd.pool)
    /\ \A r \in Requests : Distinct(service[r].pool)
    /\ decision.req # 0 /\ start.req = decision.req =>
          start.col.pool = decision.pool /\ (Whole(start.req) => Exhausted(start.col))
    /\ \A r \in Requests : Final(r) /\ Whole(r) =>
          /\ decision.req = r => decision.pool = service[r].pool
          /\ start.req = r => start.col.pool = service[r].pool /\ Exhausted(start.col)

\* A page is taken once, and the checkpoint knows of it.
TakenInv ==
    \A r \in Requests, p \in Pages :
        /\ taken[r][p] <= 1
        /\ r \notin Used => taken[r][p] = 0
        /\ start.req = r /\ taken[r][p] = 1 => p \in start.col.pages

\* What the upload record acknowledges the service has, and it has no more blocks
\* than the pool they were cut from.
BlockInv ==
    \A r \in Requests :
        /\ Len(sent[r]) <= Len(service[r].blocks)
        /\ \A k \in 1..Len(sent[r]) : sent[r][k] = service[r].blocks[k]
        /\ r \notin Used => service[r].blocks = <<>>
        /\ start.req = r => Len(service[r].blocks) <= AllBlocks(start.col.pool)
        /\ decision.req = r => Len(service[r].blocks) <= AllBlocks(decision.pool)
        /\ exec = "bulk" /\ Final(r) /\ Whole(r) =>
              /\ Len(sent[r]) = AllBlocks(service[r].pool)
              /\ Len(service[r].blocks) = AllBlocks(service[r].pool)
              /\ \A k \in 1..AllBlocks(service[r].pool) :
                    service[r].blocks[k] = Block(service[r].pool, k)

DiscoveryInv ==
    /\ Typed /\ CommandInv /\ CancelInv /\ KnownInv /\ AskInv /\ PoolInv /\ TakenInv /\ BlockInv

-----------------------------------------------------------------------------
(* The constants and the operators on pools, pages and blocks.               *)

LEMMA Sizes ==
    /\ PageLimit \in Nat \ {0} /\ CandidateLimit \in Nat \ {0} /\ PageBudget \in Nat \ {0}
    /\ BlockSize \in Nat \ {0} /\ MaxRequests \in Nat \ {0} /\ MaxRounds \in Nat \ {0}
    /\ MaxSearches \in Nat \ {0} /\ MaxGeneration \in Nat /\ MaxFaults \in Nat
  BY DiscoveryAssumption

LEMMA NoPageIsNone == NoPage \notin Pages
  BY DiscoveryAssumption, Sizes DEF NoPage, Pages

LEMMA PoolsAre ==
    ASSUME NEW pool
    PROVE  pool \in Pools <=> pool \in Seq(Jobs) /\ Len(pool) <= CandidateLimit
<1>1. ASSUME pool \in Pools PROVE pool \in Seq(Jobs) /\ Len(pool) <= CandidateLimit
  <2>1. PICK n \in 0..CandidateLimit : pool \in [1..n -> Jobs]
    BY <1>1 DEF Pools, MaxPool
  <2>2. n \in Nat
    BY Sizes
  <2>3. pool \in Seq(Jobs) /\ Len(pool) = n
    BY <2>1, <2>2
  <2> QED BY <2>1, <2>3
<1>2. ASSUME pool \in Seq(Jobs), Len(pool) <= CandidateLimit PROVE pool \in Pools
  <2>1. Len(pool) \in 0..CandidateLimit /\ pool \in [1..Len(pool) -> Jobs]
    BY <1>2, Sizes, LenProperties
  <2> QED BY <2>1 DEF Pools, MaxPool
<1> QED BY <1>1, <1>2

LEMMA EmptyPool == <<>> \in Pools /\ Distinct(<<>>)
<1>1. <<>> \in Seq(Jobs) /\ Len(<<>>) = 0
  OBVIOUS
<1>2. ASSUME NEW s \in Seq(Jobs), Len(s) = 0 PROVE s \in Pools
  <2>1. 0 <= CandidateLimit
    BY Sizes
  <2>2. Len(s) <= CandidateLimit
    BY <1>2, <2>1
  <2> QED BY <2>2, PoolsAre
<1>3. <<>> \in Pools
  BY <1>1, <1>2
<1>4. Distinct(<<>>)
  BY <1>1 DEF Distinct
<1> QED BY <1>3, <1>4

\* Reading a page keeps a pool within the limit and each job in it once.
LEMMA Joined ==
    ASSUME NEW pool \in Pools, NEW jobs \in SUBSET Jobs, NEW added \in Additions(pool, jobs)
    PROVE  /\ pool \o added \in Pools
           /\ Len(pool \o added) >= Len(pool)
           /\ Distinct(pool) => Distinct(pool \o added)
<1> DEFINE fresh == jobs \ {pool[i] : i \in 1..Len(pool)}
           room == CandidateLimit - Len(pool)
           k == IF Cardinality(fresh) < room THEN Cardinality(fresh) ELSE room
<1>1. pool \in Seq(Jobs) /\ Len(pool) <= CandidateLimit /\ Len(pool) \in Nat
  BY PoolsAre, LenProperties
<1>2. Cardinality(fresh) \in Nat
  <2>1. IsFiniteSet(jobs)
    BY DiscoveryAssumption, FS_Subset
  <2>2. IsFiniteSet(fresh)
    BY <2>1, FS_Subset
  <2> QED BY <2>2, FS_CardinalityType
<1>3. room \in Nat
  BY <1>1, Sizes
<1>4. k \in Nat /\ k <= room
  BY <1>2, <1>3
<1>5. added \in [1..k -> fresh] /\ \A i, j \in 1..k : added[i] = added[j] => i = j
  BY DEF Additions
<1> HIDE DEF k, room
<1>6. added \in Seq(fresh) /\ Len(added) = k
  BY <1>4, <1>5
<1>7. added \in Seq(Jobs)
  <2>1. fresh \subseteq Jobs
    OBVIOUS
  <2>2. added \in [1..k -> Jobs]
    BY <1>5, <2>1
  <2> QED BY <1>4, <2>2, SeqDef, IsASeq
<1>8. /\ pool \o added \in Seq(Jobs)
      /\ Len(pool \o added) = Len(pool) + k
      /\ \A i \in 1..(Len(pool) + k) :
            (pool \o added)[i] = IF i <= Len(pool) THEN pool[i] ELSE added[i - Len(pool)]
  BY <1>1, <1>6, <1>7, ConcatProperties
<1>9. Len(pool \o added) <= CandidateLimit
  BY <1>1, <1>4, <1>8, Sizes DEF room
<1>10. ASSUME Distinct(pool) PROVE Distinct(pool \o added)
  <2> SUFFICES ASSUME NEW i \in 1..(Len(pool) + k), NEW j \in 1..(Len(pool) + k),
                      (pool \o added)[i] = (pool \o added)[j]
               PROVE  i = j
    BY <1>8 DEF Distinct
  <2>0. Len(pool) \in Nat /\ k \in Nat
    BY <1>1, <1>4
  <2>1. CASE i <= Len(pool) /\ j <= Len(pool)
    BY <1>8, <1>10, <2>0, <2>1 DEF Distinct
  <2>2. CASE i > Len(pool) /\ j > Len(pool)
    <3>1. i - Len(pool) \in 1..k /\ j - Len(pool) \in 1..k
      BY <2>0, <2>2
    <3>2. added[i - Len(pool)] = added[j - Len(pool)]
      BY <1>8, <2>0, <2>2
    <3>3. i - Len(pool) = j - Len(pool)
      BY <1>5, <3>1, <3>2
    <3> QED BY <2>0, <3>3
  <2>3. ASSUME NEW m \in 1..Len(pool), NEW n \in 1..k PROVE pool[m] # added[n]
    BY <1>5, <2>3
  <2>4. CASE i <= Len(pool) /\ j > Len(pool)
    <3>1. i \in 1..Len(pool) /\ j - Len(pool) \in 1..k
      BY <2>0, <2>4
    <3>2. pool[i] = added[j - Len(pool)]
      BY <1>8, <2>0, <2>4
    <3> QED BY <2>3, <3>1, <3>2
  <2>5. CASE i > Len(pool) /\ j <= Len(pool)
    <3>1. j \in 1..Len(pool) /\ i - Len(pool) \in 1..k
      BY <2>0, <2>5
    <3>2. pool[j] = added[i - Len(pool)]
      BY <1>8, <2>0, <2>5
    <3> QED BY <2>3, <3>1, <3>2
  <2> QED BY <2>0, <2>1, <2>2, <2>4, <2>5
<1>11. Len(pool \o added) >= Len(pool)
  BY <1>1, <1>4, <1>8
<1>12. pool \o added \in Pools
  BY <1>8, <1>9, PoolsAre
<1> QED BY <1>10, <1>11, <1>12

\* A longer pool has as many blocks or more.
LEMMA Quotient ==
    ASSUME NEW d \in Nat \ {0}, NEW m \in Nat, NEW n \in Nat, m <= n
    PROVE  m \div d \in Nat /\ m \div d <= n \div d
  BY Z3T(30)

LEMMA BlocksGrow ==
    ASSUME NEW p \in Pools, NEW q \in Pools, Len(p) <= Len(q)
    PROVE  /\ AllBlocks(p) \in Nat /\ WholeBlocks(p) \in Nat
           /\ WholeBlocks(p) <= AllBlocks(p)
           /\ AllBlocks(p) <= AllBlocks(q)
<1>1. Len(p) \in Nat /\ Len(q) \in Nat
  BY PoolsAre, LenProperties
<1>2. /\ Len(p) + BlockSize - 1 \in Nat /\ Len(q) + BlockSize - 1 \in Nat
      /\ Len(p) <= Len(p) + BlockSize - 1
      /\ Len(p) + BlockSize - 1 <= Len(q) + BlockSize - 1
  BY <1>1, Sizes
<1> QED BY <1>1, <1>2, Sizes, Quotient DEF AllBlocks, WholeBlocks

LEMMA NextGoesOn ==
    ASSUME NEW col, NEW p, IsNext(col, p)
    PROVE  ~Exhausted(col) /\ p \notin col.pages
  BY DEF IsNext, Exhausted, Unread

-----------------------------------------------------------------------------
(* Steps that only decide what the command does next.                         *)

Commands == [at : CommandSteps, req : Requests \cup {0}, pool : Pools, page : Pages \cup {NoPage}]

Kept == UNCHANGED <<exec, round, start, decision, manifests, sent, rows, unrecorded, service, charged,
                    askOf, ask, taken, partial, faults>>

LEMMA Files ==
    UNCHANGED <<exec, files, service, charged, ghosts, faults>> <=> Kept
  BY DEF files, ledger, ghosts, Kept

LEMMA CommandOnly ==
    ASSUME DiscoveryInv, Kept, cmd' \in Commands, cmd'.req \in Used \cup {0}, Distinct(cmd'.pool),
           CommandInv', CancelInv'
    PROVE  DiscoveryInv'
<1>1. Typed'
  BY DEF DiscoveryInv, Typed, TypeOK, Kept, Commands
<1>2. KnownInv'
  BY DEF DiscoveryInv, KnownInv, Kept, Used, Final
<1>3. AskInv'
  BY DEF DiscoveryInv, AskInv, Kept, Used, MyTurn, ContextMatches
<1>4. PoolInv'
  BY DEF DiscoveryInv, PoolInv, Kept, Final, Whole
<1>5. TakenInv'
  BY DEF DiscoveryInv, TakenInv, Kept, Used
<1>6. BlockInv'
  BY DEF DiscoveryInv, BlockInv, Kept, Used, Final, Whole
<1> QED BY <1>1, <1>2, <1>3, <1>4, <1>5, <1>6 DEF DiscoveryInv

\* Back to no command, or to the mark of the page submitted.
LEMMA CommandEnds ==
    ASSUME DiscoveryInv, Kept, cmd' = Idle \/ cmd' = [cmd EXCEPT !.at = "mark"]
    PROVE  DiscoveryInv'
<1>1. CASE cmd' = Idle
  <2>1. cmd'.at = "idle" /\ cmd'.req = 0 /\ cmd'.pool = <<>> /\ cmd'.page = NoPage
    BY <1>1 DEF Idle
  <2>2. cmd' \in Commands
    BY <1>1, EmptyPool DEF Commands, Idle, CommandSteps
  <2>3. CommandInv' /\ CancelInv'
    BY <2>1 DEF CommandInv, CancelInv, Reads
  <2> QED BY <2>1, <2>2, <2>3, EmptyPool, CommandOnly
<1>2. CASE cmd' = [cmd EXCEPT !.at = "mark"]
  <2>1. cmd'.at = "mark" /\ cmd'.req = cmd.req /\ cmd'.pool = cmd.pool /\ cmd' \in Commands
    BY <1>2 DEF DiscoveryInv, Typed, TypeOK, Commands, CommandSteps
  <2>2. cmd'.req \in Used \cup {0} /\ Distinct(cmd'.pool)
    BY <2>1 DEF DiscoveryInv, KnownInv, PoolInv
  <2>3. CommandInv' /\ CancelInv'
    BY <2>1 DEF CommandInv, CancelInv, Reads
  <2> QED BY <2>1, <2>2, <2>3, CommandOnly
<1> QED BY <1>1, <1>2

LEMMA ResumeDecisionStep == ASSUME DiscoveryInv, ResumeDecision PROVE DiscoveryInv'
<1>1. Kept /\ decision.req # 0 /\ cmd' = [at |-> "decide", req |-> decision.req, pool |-> decision.pool, page |-> NoPage]
  BY Files DEF ResumeDecision, Begin
<1>2. cmd' \in Commands /\ cmd'.req \in Used \cup {0} /\ Distinct(cmd'.pool)
  BY <1>1 DEF DiscoveryInv, Typed, TypeOK, KnownInv, PoolInv, Commands, CommandSteps
<1>3. CommandInv' /\ CancelInv'
  BY <1>1 DEF CommandInv, CancelInv, Reads, Kept
<1> QED BY <1>1, <1>2, <1>3, CommandOnly

LEMMA KeepRequestStep == ASSUME DiscoveryInv, KeepRequest PROVE DiscoveryInv'
<1>1. /\ Kept /\ Ready /\ decision.req = 0 /\ start.req # 0
      /\ cmd' = [at |-> IF start.col.kept THEN "collect" ELSE "plan", req |-> start.req,
                 pool |-> <<>>, page |-> NoPage]
  BY Files DEF KeepRequest, Begin
<1>2. cmd' \in Commands /\ cmd'.req \in Used \cup {0} /\ Distinct(cmd'.pool)
  BY <1>1, EmptyPool DEF DiscoveryInv, Typed, TypeOK, KnownInv, Commands, CommandSteps
<1>3. CommandInv'
  BY <1>1 DEF CommandInv, Reads, Kept
<1>4. CancelInv'
  BY <1>1 DEF CancelInv, Kept, Ready, CancelPending
<1> QED BY <1>1, <1>2, <1>3, <1>4, CommandOnly


\* The collection is handed to the service.
LEMMA FreezeStep ==
    ASSUME DiscoveryInv, Kept, cmd.at \in {"collect", "advance"}, Exhausted(start.col),
           cmd' = [cmd EXCEPT !.at = "freeze", !.pool = start.col.pool]
    PROVE  DiscoveryInv'
<1>1. /\ cmd'.at = "freeze" /\ cmd'.req = cmd.req /\ cmd'.pool = start.col.pool /\ cmd'.page = cmd.page
      /\ cmd' \in Commands /\ cmd'.req \in Used \cup {0} /\ Distinct(cmd'.pool)
  BY DEF DiscoveryInv, Typed, TypeOK, KnownInv, PoolInv, Commands, CommandSteps, ProgressType
<1>2. CommandInv'
  BY <1>1 DEF DiscoveryInv, CommandInv, Reads, Kept, Exhausted, Full, Unread, Whole
<1>3. CancelInv'
  BY <1>1 DEF CancelInv
<1> QED BY <1>1, <1>2, <1>3, CommandOnly

LEMMA CollectedStep == ASSUME DiscoveryInv, Collected PROVE DiscoveryInv'
  BY Files, FreezeStep DEF Collected, Collecting

LEMMA FreezePoolStep == ASSUME DiscoveryInv, FreezePool PROVE DiscoveryInv'
  BY Files, FreezeStep DEF FreezePool, Advancing

LEMMA PrefixUploadedStep == ASSUME DiscoveryInv, PrefixUploaded PROVE DiscoveryInv'
<1>1. Kept /\ cmd.at = "upload" /\ cmd' = [cmd EXCEPT !.at = "collect"]
  BY Files DEF PrefixUploaded, Step
<1>2. /\ cmd'.at = "collect" /\ cmd'.req = cmd.req
      /\ cmd' \in Commands /\ cmd'.req \in Used \cup {0} /\ Distinct(cmd'.pool)
  BY <1>1 DEF DiscoveryInv, Typed, TypeOK, KnownInv, PoolInv, Commands, CommandSteps
<1>3. CommandInv' /\ CancelInv'
  BY <1>1, <1>2 DEF DiscoveryInv, CommandInv, CancelInv, Reads, Kept
<1> QED BY <1>1, <1>2, <1>3, CommandOnly

LEMMA ReplayPageStep == ASSUME DiscoveryInv, ReplayPage PROVE DiscoveryInv'
<1>1. PICK p \in Pages : cmd' = [cmd EXCEPT !.at = "replay", !.pool = <<>>, !.page = p]
  BY DEF ReplayPage, ClosedUnaccepted
<1>2. Kept /\ exec = "native" /\ cmd.at = "collect"
  BY Files DEF ReplayPage
<1>3. /\ cmd'.at = "replay" /\ cmd'.req = cmd.req /\ cmd'.page = p
      /\ cmd' \in Commands /\ cmd'.req \in Used \cup {0} /\ Distinct(cmd'.pool)
  BY <1>1, EmptyPool DEF DiscoveryInv, Typed, TypeOK, KnownInv, Commands, CommandSteps
<1>4. CommandInv'
  BY <1>2, <1>3 DEF DiscoveryInv, CommandInv, Reads, Kept
<1>5. CancelInv'
  BY <1>2, <1>3 DEF DiscoveryInv, CancelInv, Kept, CancelPending
<1> QED BY <1>2, <1>3, <1>4, <1>5, CommandOnly

LEMMA NoCandidatesStep == ASSUME DiscoveryInv, NoCandidates PROVE DiscoveryInv'
  BY Files, CommandEnds DEF NoCandidates, Marked

LEMMA ContinuePageStep ==
    ASSUME DiscoveryInv, NEW p \in Pages, NEW submitted \in BOOLEAN, ContinuePage(p, submitted)
    PROVE  DiscoveryInv'
<1>1. /\ Kept /\ exec = "native" /\ rows[p].state = "collected"
      /\ cmd' = [at |-> "accept", req |-> rows[p].req, pool |-> <<>>, page |-> p]
  BY Files DEF ContinuePage
<1>2. rows[p].req \in Requests /\ rows[p].req \in Used
  BY <1>1 DEF DiscoveryInv, KnownInv, Used
<1>3. cmd' \in Commands /\ cmd'.req \in Used \cup {0} /\ Distinct(cmd'.pool)
  BY <1>1, <1>2, EmptyPool DEF Commands, CommandSteps
<1>4. CommandInv' /\ CancelInv'
  BY <1>1, <1>2 DEF CommandInv, CancelInv, Reads, Kept, Used, Requests, DiscoveryInv, KnownInv
<1> QED BY <1>1, <1>3, <1>4, CommandOnly

LEMMA AcceptCompletedStep == ASSUME DiscoveryInv, AcceptCompleted PROVE DiscoveryInv'
  BY Files, CommandEnds DEF AcceptCompleted

LEMMA AcceptFrozenStep == ASSUME DiscoveryInv, AcceptFrozen PROVE DiscoveryInv'
<1>1. Kept
  BY Files DEF AcceptFrozen
<1>2. CASE cmd' = Idle
  BY <1>1, <1>2, CommandEnds
<1>3. CASE decision.req = cmd.req /\ cmd' = [cmd EXCEPT !.at = "decide", !.pool = decision.pool, !.page = AfterReplay]
  <2>1. decision.req # 0
    BY DEF AcceptFrozen
  <2>2. /\ cmd'.at = "decide" /\ cmd'.req = cmd.req /\ cmd'.pool = decision.pool
        /\ cmd' \in Commands /\ cmd'.req \in Used \cup {0} /\ Distinct(cmd'.pool)
    BY <1>3 DEF DiscoveryInv, Typed, TypeOK, KnownInv, PoolInv, Commands, CommandSteps, AfterReplay
  <2>3. CommandInv' /\ CancelInv'
    BY <1>1, <1>3, <2>1, <2>2 DEF CommandInv, CancelInv, Reads, Kept
  <2> QED BY <1>1, <2>2, <2>3, CommandOnly
<1> QED BY <1>2, <1>3 DEF AcceptFrozen

-----------------------------------------------------------------------------
(* Steps of the round and its gate, with no command under way.               *)

LEMMA NoCommand ==
    ASSUME cmd' = Idle
    PROVE  /\ cmd' \in Commands /\ cmd'.at = "idle" /\ cmd'.req = 0 /\ cmd'.pool = <<>>
           /\ Distinct(cmd'.pool) /\ CommandInv' /\ CancelInv'
<1>1. cmd'.at = "idle" /\ cmd'.req = 0 /\ cmd'.pool = <<>> /\ cmd'.page = NoPage
  BY DEF Idle
<1>2. cmd' \in Commands
  BY EmptyPool DEF Commands, Idle, CommandSteps
<1>3. CommandInv' /\ CancelInv'
  BY <1>1 DEF CommandInv, CancelInv, Reads
<1> QED BY <1>1, <1>2, <1>3, EmptyPool

RoundType == [no : 1..MaxRounds, intent : Intents, status : Statuses, req : Requests \cup {0}, gate : BOOLEAN]

\* Nothing but the round, its gate and the searches of the user.
RoundOnly == UNCHANGED <<exec, start, decision, manifests, sent, rows, service, charged,
                         askOf, taken, partial, faults>>

LEMMA RoundStep ==
    ASSUME DiscoveryInv, RoundOnly, cmd' \in Commands, cmd'.req \in Used \cup {0}, Distinct(cmd'.pool),
           CommandInv', CancelInv', round' \in RoundType, unrecorded' \in BOOLEAN,
           ask' \in 1..MaxSearches,
           \/ ask' = ask + 1
           \/ /\ ask' = ask /\ round'.no = round.no /\ round'.intent = round.intent
              /\ MyTurn' => MyTurn
    PROVE  DiscoveryInv'
<1>1. Typed'
  BY DEF DiscoveryInv, Typed, TypeOK, RoundOnly, Commands, RoundType
<1>2. KnownInv'
  BY DEF DiscoveryInv, KnownInv, RoundOnly, Used, Final
<1>3. AskInv'
  <2>1. askOf \in [Requests -> Nat] /\ ask \in Nat
    BY Sizes DEF DiscoveryInv, Typed, TypeOK
  <2>2. CASE ask' = ask + 1
    BY <2>1, <2>2 DEF DiscoveryInv, AskInv, RoundOnly, Used
  <2>3. CASE ask' = ask /\ round'.no = round.no /\ round'.intent = round.intent /\ (MyTurn' => MyTurn)
    BY <2>3 DEF DiscoveryInv, AskInv, RoundOnly, Used, ContextMatches
  <2> QED BY <2>2, <2>3
<1>4. PoolInv'
  BY DEF DiscoveryInv, PoolInv, RoundOnly, Final, Whole
<1>5. TakenInv'
  BY DEF DiscoveryInv, TakenInv, RoundOnly, Used
<1>6. BlockInv'
  BY DEF DiscoveryInv, BlockInv, RoundOnly, Used, Final, Whole
<1> QED BY <1>1, <1>2, <1>3, <1>4, <1>5, <1>6 DEF DiscoveryInv

LEMMA SetDiscoveredStep == ASSUME DiscoveryInv, SetDiscovered PROVE DiscoveryInv'
<1>1. /\ RoundOnly /\ ask' = ask /\ unrecorded' = unrecorded /\ cmd.at = "status"
      /\ round' = [round EXCEPT !.status = "discovered", !.req = cmd.req]
      /\ cmd' = Idle \/ (exec = "native" /\ cmd' = [cmd EXCEPT !.at = "unstart"])
  BY DEF SetDiscovered, RoundOnly, ledger, ghosts, Step
<1>2. /\ round' \in RoundType /\ round'.no = round.no /\ round'.intent = round.intent /\ ~MyTurn'
      /\ ask \in 1..MaxSearches /\ unrecorded \in BOOLEAN
  BY <1>1 DEF DiscoveryInv, Typed, TypeOK, RoundType, Statuses, MyTurn
<1>3. CASE cmd' = Idle
  BY <1>1, <1>2, <1>3, NoCommand, RoundStep
<1>4. CASE exec = "native" /\ cmd' = [cmd EXCEPT !.at = "unstart"]
  <2>1. /\ cmd'.at = "unstart" /\ cmd'.req = cmd.req /\ cmd'.pool = cmd.pool
        /\ cmd' \in Commands /\ cmd'.req \in Used \cup {0} /\ Distinct(cmd'.pool)
    BY <1>4 DEF DiscoveryInv, Typed, TypeOK, KnownInv, PoolInv, Commands, CommandSteps
  <2>2. CommandInv' /\ CancelInv'
    BY <1>1, <1>2, <1>4, <2>1 DEF DiscoveryInv, CommandInv, CancelInv, Reads, RoundOnly
  <2> QED BY <1>1, <1>2, <2>1, <2>2, RoundStep
<1> QED BY <1>1, <1>3, <1>4

LEMMA GateStep == ASSUME DiscoveryInv, SaveGate \/ RecoverGate PROVE DiscoveryInv'
<1>1. /\ RoundOnly /\ ask' = ask /\ unrecorded' = FALSE /\ cmd' = Idle
      /\ round' = [round EXCEPT !.gate = TRUE]
  BY DEF SaveGate, RecoverGate, RaiseGate, RoundOnly, ghosts
<1>2. /\ round' \in RoundType /\ round'.no = round.no /\ round'.intent = round.intent
      /\ MyTurn' = MyTurn /\ ask \in 1..MaxSearches
  BY <1>1 DEF DiscoveryInv, Typed, TypeOK, RoundType, MyTurn
<1> QED BY <1>1, <1>2, NoCommand, RoundStep

LEMMA ReloginStep == ASSUME DiscoveryInv, Relogin PROVE DiscoveryInv'
<1>1. /\ RoundOnly /\ ask' = ask /\ unrecorded' = unrecorded /\ cmd' = Idle
      /\ round' = [round EXCEPT !.gate = FALSE]
  BY DEF Relogin, RoundOnly, ledger, ghosts
<1>2. /\ round' \in RoundType /\ round'.no = round.no /\ round'.intent = round.intent
      /\ MyTurn' = MyTurn /\ ask \in 1..MaxSearches /\ unrecorded \in BOOLEAN
  BY <1>1 DEF DiscoveryInv, Typed, TypeOK, RoundType, MyTurn
<1> QED BY <1>1, <1>2, NoCommand, RoundStep

LEMMA SearchAgainStep == ASSUME DiscoveryInv, SearchAgain PROVE DiscoveryInv'
<1>1. /\ RoundOnly /\ ask < MaxSearches /\ ask' = ask + 1 /\ unrecorded' = unrecorded /\ cmd' = Idle
      /\ round' = [round EXCEPT !.status = "login_verified"]
  BY DEF SearchAgain, NewSearch, RoundOnly, ledger
<1>2. round' \in RoundType /\ unrecorded \in BOOLEAN
  BY <1>1 DEF DiscoveryInv, Typed, TypeOK, RoundType, Statuses
<1>3. ask' \in 1..MaxSearches
  <2>1. ask \in 1..MaxSearches
    BY DEF DiscoveryInv, Typed, TypeOK
  <2> QED BY <1>1, <2>1, Sizes
<1> QED BY <1>1, <1>2, <1>3, NoCommand, RoundStep

LEMMA EndPlatformStep == ASSUME DiscoveryInv, EndPlatform PROVE DiscoveryInv'
<1>1. PICK end \in {"skipped", "completed"} : round' = [round EXCEPT !.status = end]
  BY DEF EndPlatform
<1>2. RoundOnly /\ ask' = ask /\ unrecorded' = unrecorded /\ cmd' = Idle
  BY DEF EndPlatform, RoundOnly, ledger, ghosts
<1>3. /\ round' \in RoundType /\ round'.no = round.no /\ round'.intent = round.intent
      /\ ~MyTurn' /\ ask \in 1..MaxSearches /\ unrecorded \in BOOLEAN
  BY <1>1 DEF DiscoveryInv, Typed, TypeOK, RoundType, Statuses, MyTurn
<1> QED BY <1>2, <1>3, NoCommand, RoundStep

LEMMA NewRoundStep == ASSUME DiscoveryInv, NewRound PROVE DiscoveryInv'
<1>1. PICK i \in Intents :
         round' = [no |-> round.no + 1, intent |-> i, status |-> "login_verified", req |-> 0, gate |-> FALSE]
  BY DEF NewRound
<1>2. /\ RoundOnly /\ ask < MaxSearches /\ ask' = ask + 1 /\ unrecorded' = FALSE /\ cmd' = Idle
      /\ round.no < MaxRounds
  BY DEF NewRound, NewSearch, RoundOnly
<1>3. round.no + 1 \in 1..MaxRounds
  <2>1. round.no \in 1..MaxRounds
    BY DEF DiscoveryInv, Typed, TypeOK
  <2> QED BY <1>2, <2>1, Sizes
<1>4. round' \in RoundType
  BY <1>1, <1>3 DEF RoundType, Statuses
<1>5. ask' \in 1..MaxSearches
  <2>1. ask \in 1..MaxSearches
    BY DEF DiscoveryInv, Typed, TypeOK
  <2> QED BY <1>2, <2>1, Sizes
<1> QED BY <1>2, <1>4, <1>5, NoCommand, RoundStep

-----------------------------------------------------------------------------
(* Steps of the works.                                                       *)

RowsOnly == UNCHANGED <<exec, round, start, decision, manifests, sent, service, charged,
                        askOf, ask, taken, partial, faults>>

LEMMA RowStep ==
    ASSUME DiscoveryInv, RowsOnly, cmd' \in Commands, cmd'.req \in Used \cup {0}, Distinct(cmd'.pool),
           CommandInv', CancelInv', unrecorded' \in BOOLEAN, rows' \in [Pages -> RowType],
           \A p \in Pages :
              /\ rows'[p].req \in Used \cup {0}
              /\ rows'[p].state # "none" => rows'[p].req # 0
              /\ rows'[p].state = "cancelled" => rows'[p].gen < MaxGeneration
    PROVE  DiscoveryInv'
<1>1. Typed'
  BY DEF DiscoveryInv, Typed, TypeOK, RowsOnly, Commands
<1>2. KnownInv'
  BY DEF DiscoveryInv, KnownInv, RowsOnly, Used, Final
<1>3. AskInv'
  BY DEF DiscoveryInv, AskInv, RowsOnly, Used, MyTurn, ContextMatches
<1>4. PoolInv'
  BY DEF DiscoveryInv, PoolInv, RowsOnly, Final, Whole
<1>5. TakenInv'
  BY DEF DiscoveryInv, TakenInv, RowsOnly, Used
<1>6. BlockInv'
  BY DEF DiscoveryInv, BlockInv, RowsOnly, Used, Final, Whole
<1> QED BY <1>1, <1>2, <1>3, <1>4, <1>5, <1>6 DEF DiscoveryInv

LEMMA RowsKnown ==
    ASSUME DiscoveryInv
    PROVE  /\ rows \in [Pages -> RowType]
           /\ \A p \in Pages :
                 /\ rows[p].req \in Used \cup {0}
                 /\ rows[p].state # "none" => rows[p].req # 0
                 /\ rows[p].state = "cancelled" => rows[p].gen < MaxGeneration
  BY DEF DiscoveryInv, Typed, TypeOK, KnownInv

LEMMA IssuePageStep == ASSUME DiscoveryInv, IssuePage PROVE DiscoveryInv'
<1> USE RowsKnown
<1>1. /\ RowsOnly /\ unrecorded' = unrecorded /\ exec = "native" /\ cmd.at \in {"collect", "advance"}
      /\ cmd' = Idle \/ cmd' = [cmd EXCEPT !.at = "mark"]
  BY DEF IssuePage, Advancing, RowsOnly, ghosts, Marked
<1>2. unrecorded \in BOOLEAN /\ round.no \in 0..MaxRounds /\ start.req \in Used /\ start.req # 0
  <2>1. start.req # 0
    BY <1>1 DEF DiscoveryInv, CommandInv, Reads
  <2>2. round.no \in 1..MaxRounds /\ unrecorded \in BOOLEAN
    BY DEF DiscoveryInv, Typed, TypeOK
  <2>3. round.no \in 0..MaxRounds
    BY <2>2, Sizes
  <2> QED BY <2>1, <2>2, <2>3 DEF DiscoveryInv, KnownInv
<1>3. PICK p \in Pages :
        rows' = IF rows[p].state \in {"open", "collected"} THEN rows
                ELSE [rows EXCEPT ![p] = [NoRow EXCEPT !.state = "open", !.req = start.req, !.round = round.no,
                         !.gen = IF rows[p].state = "cancelled" THEN rows[p].gen + 1 ELSE 0]]
  BY DEF IssuePage
<1>4. /\ rows' \in [Pages -> RowType]
      /\ \A q \in Pages :
            /\ rows'[q].req \in Used \cup {0}
            /\ rows'[q].state # "none" => rows'[q].req # 0
            /\ rows'[q].state = "cancelled" => rows'[q].gen < MaxGeneration
  <2>1. CASE rows[p].state \in {"open", "collected"}
    BY <1>3, <2>1
  <2>2. CASE rows[p].state \notin {"open", "collected"}
    <3> DEFINE gen == IF rows[p].state = "cancelled" THEN rows[p].gen + 1 ELSE 0
               row == [NoRow EXCEPT !.state = "open", !.req = start.req, !.round = round.no, !.gen = gen]
    <3>1. gen \in 0..MaxGeneration
      <4>1. rows[p].gen \in 0..MaxGeneration
        BY DEF RowType
      <4>2. rows[p].state = "cancelled" => rows[p].gen < MaxGeneration
        OBVIOUS
      <4> QED BY <4>1, <4>2, Sizes
    <3>2. rows' = [rows EXCEPT ![p] = row]
      BY <1>3, <2>2
    <3> HIDE DEF gen
    <3>3. start.req \in Requests /\ NoRow \in RowType
      BY <1>2, Sizes DEF Used, RowType, NoRow
    <3>4. row \in RowType
      BY <1>2, <3>1, <3>3 DEF RowType
    <3>5. rows' \in [Pages -> RowType]
      BY <3>2, <3>4
    <3>6. row.req = start.req /\ row.state = "open"
      BY <3>3 DEF RowType
    <3> HIDE DEF row
    <3>7. \A q \in Pages : rows'[q] = IF q = p THEN row ELSE rows[q]
      BY <3>2
    <3> QED BY <1>2, <3>5, <3>6, <3>7
  <2> QED BY <2>1, <2>2
<1>5. CASE cmd' = Idle
  BY <1>1, <1>2, <1>4, <1>5, NoCommand, RowStep
<1>6. CASE cmd' = [cmd EXCEPT !.at = "mark"]
  <2>1. /\ cmd'.at = "mark" /\ cmd'.req = cmd.req /\ cmd'.pool = cmd.pool
        /\ cmd' \in Commands /\ cmd'.req \in Used \cup {0} /\ Distinct(cmd'.pool)
    BY <1>6 DEF DiscoveryInv, Typed, TypeOK, KnownInv, PoolInv, Commands, CommandSteps
  <2>2. CommandInv' /\ CancelInv'
    BY <2>1 DEF CommandInv, CancelInv, Reads
  <2> QED BY <1>1, <1>2, <1>4, <2>1, <2>2, RowStep
<1> QED BY <1>1, <1>5, <1>6

\* A work keeps its request when the host reports on it or the user cancels it.
LEMMA RowChanged ==
    ASSUME DiscoveryInv, NEW p \in Pages, NEW row \in RowType, rows' = [rows EXCEPT ![p] = row],
           row.req = rows[p].req, row.state # "none" => rows[p].state # "none",
           row.state = "cancelled" => row.gen < MaxGeneration
    PROVE  /\ rows' \in [Pages -> RowType]
           /\ \A q \in Pages :
                 /\ rows'[q].req \in Used \cup {0}
                 /\ rows'[q].state # "none" => rows'[q].req # 0
                 /\ rows'[q].state = "cancelled" => rows'[q].gen < MaxGeneration
<1> USE RowsKnown
<1>1. \A q \in Pages : rows'[q] = IF q = p THEN row ELSE rows[q]
  OBVIOUS
<1> QED BY <1>1

LEMMA SubmitPageStep == ASSUME DiscoveryInv, SubmitPage PROVE DiscoveryInv'
<1>1. PICK p \in Pages, jobs \in SUBSET Jobs, last \in BOOLEAN :
        /\ OpenRow(p)
        /\ rows' = [rows EXCEPT ![p].state = "collected", ![p].jobs = jobs, ![p].last = last]
        /\ cmd' = [at |-> "accept", req |-> start.req, pool |-> <<>>, page |-> p]
  BY DEF SubmitPage
<1>2. RowsOnly /\ unrecorded' = unrecorded /\ exec = "native" /\ ContextMatches
  BY DEF SubmitPage, RowsOnly, ghosts
<1> DEFINE row == [rows[p] EXCEPT !.state = "collected", !.jobs = jobs, !.last = last]
<1>3. rows[p] \in RowType
  BY RowsKnown
<1>4. /\ row \in RowType /\ row.req = rows[p].req /\ row.state = "collected"
      /\ rows' = [rows EXCEPT ![p] = row]
  BY <1>1, <1>3, RowsKnown DEF RowType
<1>5. rows[p].state = "open"
  BY <1>1 DEF OpenRow
<1> HIDE DEF row
<1>6. start.req \in Used /\ start.req \in Requests /\ start.req # 0
  <2>1. round.no \in 1..MaxRounds
    BY DEF DiscoveryInv, Typed, TypeOK
  <2>2. start.round # 0
    BY <1>2, <2>1, Sizes DEF ContextMatches
  <2> QED BY <2>2 DEF DiscoveryInv, KnownInv, Used
<1>7. cmd' \in Commands /\ cmd'.req \in Used \cup {0} /\ Distinct(cmd'.pool) /\ unrecorded \in BOOLEAN
  BY <1>1, <1>6, EmptyPool DEF Commands, CommandSteps, DiscoveryInv, Typed, TypeOK
<1>8. CommandInv' /\ CancelInv'
  BY <1>1, <1>2, <1>6 DEF CommandInv, CancelInv, Reads, RowsOnly
<1> QED BY <1>2, <1>4, <1>5, <1>7, <1>8, RowChanged, RowStep

LEMMA MarkProcessedStep == ASSUME DiscoveryInv, MarkProcessed PROVE DiscoveryInv'
<1>1. /\ RowsOnly /\ unrecorded' = unrecorded /\ cmd' = Idle /\ unrecorded \in BOOLEAN
      /\ cmd.page \in Pages \cup {NoPage}
  BY DEF MarkProcessed, RowsOnly, ghosts, DiscoveryInv, Typed, TypeOK
<1>2. CASE cmd.page = NoPage
  BY <1>1, <1>2, NoCommand, RowStep, RowsKnown DEF MarkProcessed
<1>3. CASE cmd.page \in Pages
  <2> DEFINE p == cmd.page
             row == [rows[p] EXCEPT !.processed = TRUE, !.jobs = {}]
  <2>1. rows[p] \in RowType
    BY <1>3, RowsKnown
  <2>2. /\ row \in RowType /\ row.req = rows[p].req /\ row.state = rows[p].state /\ row.gen = rows[p].gen
        /\ rows' = [rows EXCEPT ![p] = row]
    BY <1>3, <2>1, RowsKnown, NoPageIsNone DEF RowType, MarkProcessed
  <2>3. rows[p].state = "cancelled" => rows[p].gen < MaxGeneration
    BY <1>3, RowsKnown
  <2> HIDE DEF row, p
  <2>4. p \in Pages
    BY <1>3 DEF p
  <2> QED BY <1>1, <2>2, <2>3, <2>4, NoCommand, RowChanged, RowStep
<1> QED BY <1>1, <1>2, <1>3

LEMMA CancelPageStep == ASSUME DiscoveryInv, CancelPage PROVE DiscoveryInv'
<1>1. PICK p \in Pages :
        /\ OpenRow(p) /\ rows[p].gen < MaxGeneration
        /\ rows' = [rows EXCEPT ![p].state = "cancelled"]
        /\ cmd' = [at |-> "gate", req |-> start.req, pool |-> <<>>, page |-> p]
  BY DEF CancelPage
<1>2. RowsOnly /\ unrecorded' = TRUE
  BY DEF CancelPage, RowsOnly, ghosts
<1> DEFINE row == [rows[p] EXCEPT !.state = "cancelled"]
<1>3. rows[p] \in RowType
  BY RowsKnown
<1>4. /\ row \in RowType /\ row.req = rows[p].req /\ row.state = "cancelled" /\ row.gen = rows[p].gen
      /\ rows' = [rows EXCEPT ![p] = row]
  BY <1>1, <1>3, RowsKnown DEF RowType
<1>5. rows[p].state = "open"
  BY <1>1 DEF OpenRow
<1> HIDE DEF row
<1>6. cmd' \in Commands /\ cmd'.req \in Used \cup {0} /\ Distinct(cmd'.pool)
  BY <1>1, EmptyPool DEF Commands, CommandSteps, DiscoveryInv, Typed, TypeOK, KnownInv
<1>7. CommandInv' /\ CancelInv'
  BY <1>1 DEF CommandInv, CancelInv, Reads
<1> QED BY <1>1, <1>2, <1>4, <1>5, <1>6, <1>7, RowChanged, RowStep

-----------------------------------------------------------------------------
(* Steps of the start.                                                       *)

StartType == [req : Requests \cup {0}, round : 0..MaxRounds, intent : Intents, col : ProgressType]

StartOnly == UNCHANGED <<exec, round, decision, manifests, sent, rows, unrecorded, service, charged,
                         askOf, ask, partial, faults>>

\* The collection of a request goes on: pages and candidates are added, unless
\* nothing is left to read.
Advanced ==
    /\ start' \in StartType /\ start'.req = start.req /\ start'.round = start.round
    /\ start'.intent = start.intent
    /\ start'.col.pages \in SUBSET Pages /\ start.col.pages \subseteq start'.col.pages
    /\ Distinct(start'.col.pool) /\ Len(start'.col.pool) >= Len(start.col.pool)
    /\ ~start'.col.kept => start'.col = NoProgress
    /\ \/ ~Exhausted(start.col)
       \/ start'.col.pool = start.col.pool /\ (Exhausted(start'.col) <=> Exhausted(start.col))

LEMMA StartKnown ==
    ASSUME DiscoveryInv
    PROVE  /\ start \in StartType /\ start.col \in ProgressType
           /\ start.col.pool \in Pools /\ start.col.pages \in SUBSET Pages
           /\ start.col.out \in SUBSET Queries /\ start.col.kept \in BOOLEAN
           /\ Distinct(start.col.pool) /\ Exhausted(start.col) \in BOOLEAN
           /\ (~start.col.kept => start.col = NoProgress)
           /\ start.req \in Used \cup {0}
  BY DEF DiscoveryInv, Typed, TypeOK, StartType, ProgressType, PoolInv, KnownInv, Exhausted, Full

LEMMA StartStep ==
    ASSUME DiscoveryInv, StartOnly, Advanced, decision.req = 0,
           cmd' \in Commands, cmd'.req \in Used \cup {0}, Distinct(cmd'.pool), CommandInv', CancelInv',
           taken' \in [Requests -> [Pages -> Nat]], TakenInv'
    PROVE  DiscoveryInv'
<1>1. Typed'
  BY DEF DiscoveryInv, Typed, TypeOK, StartOnly, Advanced, StartType, Commands
<1>2. KnownInv'
  BY DEF DiscoveryInv, KnownInv, StartOnly, Advanced, Used, Final
<1>3. AskInv'
  BY DEF DiscoveryInv, AskInv, StartOnly, Advanced, Used, MyTurn, ContextMatches
<1>4. PoolInv'
  BY DEF DiscoveryInv, PoolInv, StartOnly, Advanced, Final, Whole
<1>5. BlockInv'
  <2>1. start.col.pool \in Pools /\ start'.col.pool \in Pools
    BY StartKnown DEF Advanced, StartType, ProgressType
  <2>2. AllBlocks(start.col.pool) \in Nat /\ AllBlocks(start.col.pool) <= AllBlocks(start'.col.pool)
    BY <2>1, BlocksGrow DEF Advanced
  <2>3. AllBlocks(start'.col.pool) \in Nat
    BY <2>1, BlocksGrow, PoolsAre, LenProperties
  <2>4. \A r \in Requests : Len(service[r].blocks) \in Nat
    BY LenProperties DEF DiscoveryInv, Typed
  <2>5. \A r \in Requests : start.req = r => Len(service[r].blocks) <= AllBlocks(start'.col.pool)
    BY <2>2, <2>3, <2>4 DEF DiscoveryInv, BlockInv
  <2>6. decision' = decision /\ sent' = sent /\ service' = service /\ exec' = exec
        /\ partial' = partial /\ askOf' = askOf /\ start'.req = start.req
    BY DEF StartOnly, Advanced
  <2> HIDE DEF Advanced, StartOnly
  <2>7. \A r \in Requests : decision'.req = r => Len(service[r].blocks) <= AllBlocks(decision'.pool)
    BY <2>6 DEF DiscoveryInv, BlockInv
  <2> QED BY <2>5, <2>6, <2>7 DEF DiscoveryInv, BlockInv, Used, Final, Whole
<1> QED BY <1>1, <1>2, <1>3, <1>4, <1>5 DEF DiscoveryInv

\* A page that is not in the checkpoint of its request was not taken.
LEMMA PageTaken ==
    ASSUME DiscoveryInv, NEW r \in Used, NEW p \in Pages, start.req = r, p \notin start.col.pages,
           UNCHANGED askOf, start'.req = r, start.col.pages \cup {p} \subseteq start'.col.pages,
           taken' = [taken EXCEPT ![r][p] = @ + 1]
    PROVE  taken' \in [Requests -> [Pages -> Nat]] /\ TakenInv'
<1>1. taken \in [Requests -> [Pages -> Nat]] /\ r \in Requests
  BY DEF DiscoveryInv, Typed, TypeOK, Used
<1>2. taken[r][p] \in Nat /\ taken[r][p] <= 1 /\ taken[r][p] # 1
  BY <1>1 DEF DiscoveryInv, TakenInv
<1>3. taken[r][p] = 0
  BY <1>2
<1>4. taken' \in [Requests -> [Pages -> Nat]]
  BY <1>1
<1>5. /\ taken'[r][p] = 1
      /\ \A q \in Requests, o \in Pages : ~(q = r /\ o = p) => taken'[q][o] = taken[q][o]
  BY <1>1, <1>3
<1>6. Used' = Used
  BY DEF Used
<1>7. TakenInv'
  <2> SUFFICES ASSUME NEW q \in Requests, NEW o \in Pages
               PROVE  /\ taken'[q][o] <= 1
                      /\ q \notin Used => taken'[q][o] = 0
                      /\ start'.req = q /\ taken'[q][o] = 1 => o \in start'.col.pages
    BY <1>6 DEF TakenInv
  <2>1. CASE q = r /\ o = p
    BY <1>5, <2>1
  <2>2. CASE ~(q = r /\ o = p)
    BY <1>5, <2>2 DEF DiscoveryInv, TakenInv
  <2> QED BY <2>1, <2>2
<1> QED BY <1>4, <1>7

LEMMA TakenKept ==
    ASSUME DiscoveryInv, UNCHANGED <<taken, askOf>>, start'.req = start.req,
           start.col.pages \subseteq start'.col.pages
    PROVE  taken' \in [Requests -> [Pages -> Nat]] /\ TakenInv'
  BY DEF DiscoveryInv, Typed, TypeOK, TakenInv, Used

\* Pages and pool with one more page.
LEMMA PageJoins ==
    ASSUME DiscoveryInv, NEW p \in Pages, NEW jobs \in SUBSET Jobs, NEW last \in BOOLEAN,
           NEW added \in Additions(start.col.pool, jobs), IsNext(start.col, p),
           NEW seen \in SUBSET (Queries \X SUBSET Jobs), NEW col,
           \/ col = WithPage(start.col, p, added, last)
           \/ col = [WithPage(start.col, p, added, last) EXCEPT !.seen = seen, !.stop = FALSE],
           start' = [start EXCEPT !.col = col]
    PROVE  Advanced /\ start'.col.pages = start.col.pages \cup {p} /\ start'.col.kept
<1> USE StartKnown
<1>1. p[1] \in Queries
  BY DEF Pages
<1>2. /\ start.col.pool \o added \in Pools /\ Distinct(start.col.pool \o added)
      /\ Len(start.col.pool \o added) >= Len(start.col.pool)
  BY Joined
<1>3. WithPage(start.col, p, added, last) \in ProgressType
  BY <1>1, <1>2 DEF ProgressType, WithPage
<1>4. col \in ProgressType
  BY <1>3 DEF ProgressType
<1>5. col.kept /\ col.pages = start.col.pages \cup {p} /\ col.pool = start.col.pool \o added
  BY DEF WithPage, ProgressType
<1>6. /\ start' \in StartType /\ start'.req = start.req /\ start'.round = start.round
      /\ start'.intent = start.intent /\ start'.col = col
  BY <1>4 DEF StartType
<1>7. ~Exhausted(start.col)
  BY NextGoesOn
<1> QED BY <1>2, <1>4, <1>5, <1>6, <1>7 DEF Advanced, ProgressType

LEMMA PlanStep == ASSUME DiscoveryInv, Plan PROVE DiscoveryInv'
<1> USE StartKnown
<1>1. /\ StartOnly /\ UNCHANGED <<taken, askOf>> /\ cmd.at = "plan" /\ cmd' = [cmd EXCEPT !.at = "collect"]
      /\ start' = IF exec = "native" THEN [start EXCEPT !.col = [NoProgress EXCEPT !.kept = TRUE]] ELSE start
  BY DEF Plan, StartOnly, Step, ledger, ghosts
<1>2. start.col = NoProgress /\ decision.req = 0 /\ cmd.req = start.req
  BY <1>1 DEF DiscoveryInv, CommandInv, Reads
<1>3. Advanced
  <2>1. CASE exec = "native"
    <3> DEFINE col == [NoProgress EXCEPT !.kept = TRUE]
    <3>1. NoProgress \in ProgressType
      BY <1>2
    <3>2. /\ col \in ProgressType /\ col.kept /\ col.pages = {} /\ col.pool = <<>> /\ col.out = {}
      BY <3>1, EmptyPool DEF ProgressType, NoProgress
    <3>3. start' = [start EXCEPT !.col = col]
      BY <1>1, <2>1
    <3>4. /\ start.col.pages = {} /\ start.col.pool = <<>> /\ start.col.out = {}
      BY <1>2 DEF NoProgress
    <3> HIDE DEF col
    <3>5. /\ start' \in StartType /\ start'.req = start.req /\ start'.round = start.round
          /\ start'.intent = start.intent /\ start'.col = col
      BY <3>2, <3>3 DEF StartType
    <3>6. Exhausted(col) <=> Exhausted(start.col)
      BY <3>2, <3>4 DEF Exhausted, Full, Unread
    <3>7. Len(col.pool) >= Len(start.col.pool)
      BY <3>2, <3>4, EmptyPool, PoolsAre, LenProperties
    <3> QED BY <3>2, <3>4, <3>5, <3>6, <3>7, EmptyPool DEF Advanced
  <2>2. CASE exec # "native"
    <3>1. start' = start
      BY <1>1, <2>2
    <3>2. Len(start.col.pool) \in Nat
      BY PoolsAre, LenProperties
    <3> QED BY <3>1, <3>2 DEF Advanced
  <2> QED BY <2>1, <2>2
<1>4. /\ cmd'.at = "collect" /\ cmd'.req = cmd.req
      /\ cmd' \in Commands /\ cmd'.req \in Used \cup {0} /\ Distinct(cmd'.pool)
  BY <1>1 DEF DiscoveryInv, Typed, TypeOK, KnownInv, PoolInv, Commands, CommandSteps
<1>5. CommandInv'
  BY <1>1, <1>2, <1>3, <1>4 DEF DiscoveryInv, CommandInv, Reads, StartOnly, Advanced
<1>6. CancelInv'
  BY <1>1, <1>4 DEF DiscoveryInv, CancelInv, StartOnly, CancelPending
<1>7. taken' \in [Requests -> [Pages -> Nat]] /\ TakenInv'
  BY <1>1, <1>3, TakenKept DEF Advanced
<1> QED BY <1>1, <1>2, <1>3, <1>4, <1>5, <1>6, <1>7, StartStep

LEMMA CollectPageStep == ASSUME DiscoveryInv, CollectPage PROVE DiscoveryInv'
<1> USE StartKnown
<1>1. /\ StartOnly /\ UNCHANGED askOf /\ cmd.at = "collect" /\ exec = "bulk"
      /\ cmd' = [cmd EXCEPT !.at = "upload"]
  BY DEF CollectPage, Collecting, StartOnly, Step, ledger
<1>2. decision.req = 0 /\ cmd.req = start.req /\ cmd.req \in Used
  BY <1>1 DEF DiscoveryInv, CommandInv, Reads
<1>3. PICK p \in Pages, jobs \in SUBSET Jobs, last \in BOOLEAN :
        /\ IsNext(start.col, p)
        /\ \E added \in Additions(start.col.pool, jobs) :
            start' = [start EXCEPT !.col =
                        [WithPage(start.col, p, added, last \/ jobs = {}) EXCEPT
                            !.seen = IF jobs = {} THEN @ ELSE @ \cup {Fingerprint(p, jobs)},
                            !.stop = FALSE]]
        /\ taken' = [taken EXCEPT ![cmd.req][p] = @ + 1]
  BY DEF CollectPage
<1>4. PICK added \in Additions(start.col.pool, jobs) :
         start' = [start EXCEPT !.col =
                     [WithPage(start.col, p, added, last \/ jobs = {}) EXCEPT
                         !.seen = IF jobs = {} THEN @ ELSE @ \cup {Fingerprint(p, jobs)},
                         !.stop = FALSE]]
  BY <1>3
<1> DEFINE was == WithPage(start.col, p, added, last \/ jobs = {}).seen
           seen == IF jobs = {} THEN was ELSE was \cup {Fingerprint(p, jobs)}
           col == [WithPage(start.col, p, added, last \/ jobs = {}) EXCEPT !.seen = seen, !.stop = FALSE]
<1>5. was = start.col.seen
  BY DEF WithPage, ProgressType
<1>6. seen \in SUBSET (Queries \X SUBSET Jobs)
  <2>1. Fingerprint(p, jobs) \in Queries \X SUBSET Jobs
    BY DEF Fingerprint, Pages
  <2>2. start.col.seen \in SUBSET (Queries \X SUBSET Jobs)
    BY DEF ProgressType
  <2> QED BY <1>5, <2>1, <2>2
<1>7. start' = [start EXCEPT !.col = col]
  BY <1>4
<1>8. (last \/ jobs = {}) \in BOOLEAN
  OBVIOUS
<1> HIDE DEF seen, was
<1>9. Advanced /\ start'.col.pages = start.col.pages \cup {p} /\ start'.col.kept
  BY <1>3, <1>6, <1>7, PageJoins
<1> HIDE DEF col
<1>10. ~Exhausted(start.col) /\ p \notin start.col.pages
  BY <1>3, NextGoesOn
<1>11. Whole(cmd.req) => ~Final(cmd.req)
  BY <1>2, <1>10 DEF DiscoveryInv, PoolInv, Used
<1>12. /\ cmd'.at = "upload" /\ cmd'.req = cmd.req
       /\ cmd' \in Commands /\ cmd'.req \in Used \cup {0} /\ Distinct(cmd'.pool)
  BY <1>1 DEF DiscoveryInv, Typed, TypeOK, KnownInv, PoolInv, Commands, CommandSteps
<1>13. CommandInv' /\ CancelInv'
  BY <1>1, <1>2, <1>9, <1>11, <1>12
     DEF DiscoveryInv, CommandInv, CancelInv, Reads, StartOnly, Advanced, Final, Whole
<1>14. taken' \in [Requests -> [Pages -> Nat]] /\ TakenInv'
  BY <1>1, <1>2, <1>3, <1>9, <1>10, PageTaken DEF Advanced
<1> QED BY <1>1, <1>2, <1>9, <1>12, <1>13, <1>14, StartStep

LEMMA PageNotAdvancingStep == ASSUME DiscoveryInv, PageNotAdvancing PROVE DiscoveryInv'
<1> USE StartKnown
<1>1. StartOnly /\ UNCHANGED <<taken, askOf>> /\ cmd.at = "collect" /\ cmd' = Idle
  BY DEF PageNotAdvancing, Collecting, StartOnly, ledger, ghosts
<1>2. decision.req = 0
  BY <1>1 DEF DiscoveryInv, CommandInv, Reads
<1>3. PICK p \in Pages, last \in BOOLEAN :
        /\ IsNext(start.col, p)
        /\ \E f \in start.col.seen : f[1] = p[1]
        /\ start' = [start EXCEPT !.col.stop = TRUE, !.col.out = IF last THEN @ \cup {p[1]} ELSE @]
  BY DEF PageNotAdvancing
<1> DEFINE out == IF last THEN start.col.out \cup {p[1]} ELSE start.col.out
           col == [start.col EXCEPT !.stop = TRUE, !.out = out]
<1>4. start' = [start EXCEPT !.col = col]
  BY <1>3 DEF StartType, ProgressType
<1>5. out \in SUBSET Queries
  BY DEF Pages, ProgressType
<1> HIDE DEF out
<1>6. /\ col \in ProgressType /\ col.pool = start.col.pool /\ col.pages = start.col.pages
      /\ col.kept = start.col.kept
  BY <1>5 DEF ProgressType
<1>7. start.col.kept
  BY <1>3 DEF NoProgress
<1>8. ~Exhausted(start.col)
  BY <1>3, NextGoesOn
<1> HIDE DEF col
<1>9. /\ start' \in StartType /\ start'.req = start.req /\ start'.round = start.round
      /\ start'.intent = start.intent /\ start'.col = col
  BY <1>4, <1>6 DEF StartType
<1>10. Len(col.pool) >= Len(start.col.pool)
  <2>1. Len(start.col.pool) \in Nat
    BY PoolsAre, LenProperties
  <2> QED BY <1>6, <2>1
<1>11. Advanced
  BY <1>6, <1>7, <1>8, <1>9, <1>10 DEF Advanced
<1>12. taken' \in [Requests -> [Pages -> Nat]] /\ TakenInv'
  BY <1>1, <1>11, TakenKept DEF Advanced
<1> QED BY <1>1, <1>2, <1>11, <1>12, NoCommand, StartStep

\* Stopping writes no more than the reason and the time spent.
LEMMA StopCollectingStep == ASSUME DiscoveryInv, StopCollecting PROVE DiscoveryInv'
<1> USE StartKnown
<1>1. /\ StartOnly /\ UNCHANGED <<taken, askOf>> /\ cmd.at = "collect" /\ cmd' = Idle
      /\ start.col.kept
  BY DEF StopCollecting, Collecting, StartOnly, ledger, ghosts
<1>2. decision.req = 0
  BY <1>1 DEF DiscoveryInv, CommandInv, Reads
<1>3. CASE start' = start
  <2>1. Kept
    BY <1>1, <1>3 DEF StartOnly, Kept, ledger
  <2> QED BY <1>1, <1>3, <2>1, CommandEnds
<1>4. CASE start' = [start EXCEPT !.col.stop = TRUE, !.col.late = @ \/ ~NotEnough]
  <2> DEFINE late == start.col.late \/ ~NotEnough
             col == [start.col EXCEPT !.stop = TRUE, !.late = late]
  <2>1. start' = [start EXCEPT !.col = col]
    BY <1>4 DEF StartType, ProgressType
  <2>2. late \in BOOLEAN
    OBVIOUS
  <2> HIDE DEF late
  <2>3. /\ col \in ProgressType /\ col.pool = start.col.pool /\ col.pages = start.col.pages
        /\ col.kept = start.col.kept /\ col.out = start.col.out
    BY <2>2 DEF ProgressType
  <2>4. Exhausted(col) <=> Exhausted(start.col)
    BY <2>3 DEF Exhausted, Full, Unread
  <2> HIDE DEF col
  <2>5. /\ start' \in StartType /\ start'.req = start.req /\ start'.round = start.round
        /\ start'.intent = start.intent /\ start'.col = col
    BY <2>1, <2>3 DEF StartType
  <2>6. Len(col.pool) >= Len(start.col.pool)
    <3>1. Len(start.col.pool) \in Nat
      BY PoolsAre, LenProperties
    <3> QED BY <2>3, <3>1
  <2>7. Advanced
    BY <1>1, <2>3, <2>4, <2>5, <2>6 DEF Advanced
  <2>8. taken' \in [Requests -> [Pages -> Nat]] /\ TakenInv'
    BY <1>1, <2>7, TakenKept DEF Advanced
  <2> QED BY <1>1, <1>2, <2>7, <2>8, NoCommand, StartStep
<1> QED BY <1>3, <1>4 DEF StopCollecting

LEMMA AcceptPageStep == ASSUME DiscoveryInv, AcceptPage PROVE DiscoveryInv'
<1> USE StartKnown
<1>1. CASE cmd' = Idle /\ UNCHANGED <<start, taken>>
  <2>1. Kept
    BY <1>1 DEF AcceptPage, Kept, ledger
  <2> QED BY <1>1, <2>1, CommandEnds
<1>2. CASE /\ cmd' = [cmd EXCEPT !.at = "advance", !.page = AfterReplay]
           /\ ContextMatches /\ start.req = cmd.req
           /\ IF cmd.page \in start.col.pages
              THEN UNCHANGED <<start, taken>>
              ELSE /\ IsNext(start.col, cmd.page)
                   /\ \E added \in Additions(start.col.pool, rows[cmd.page].jobs) :
                        start' = [start EXCEPT !.col =
                            WithPage(start.col, cmd.page, added, rows[cmd.page].last)]
                   /\ taken' = [taken EXCEPT ![cmd.req][cmd.page] = @ + 1]
  <2>1. /\ StartOnly /\ UNCHANGED askOf /\ decision.req = 0 /\ cmd.at \in {"accept", "replay"}
    BY DEF AcceptPage, StartOnly, Accepting, ledger
  <2>2. exec = "native" /\ cmd.page \in Pages /\ cmd.req # 0 /\ cmd.req \in Used
    BY <2>1 DEF DiscoveryInv, CommandInv, KnownInv
  <2>3. /\ cmd'.at = "advance" /\ cmd'.req = cmd.req /\ cmd'.page = AfterReplay
        /\ cmd' \in Commands /\ cmd'.req \in Used \cup {0} /\ Distinct(cmd'.pool)
    BY <1>2 DEF DiscoveryInv, Typed, TypeOK, KnownInv, PoolInv, Commands, CommandSteps, AfterReplay
  <2>4. cmd'.page = NoPage => cmd.at = "replay"
    BY <2>1, <2>2, <2>3, NoPageIsNone DEF AfterReplay
  <2>5. CancelInv'
    BY <2>1, <2>2, <2>3, <2>4 DEF DiscoveryInv, CancelInv, StartOnly, CancelPending
  <2>6. CASE cmd.page \in start.col.pages
    <3>1. UNCHANGED <<start, taken>>
      BY <1>2, <2>6
    <3>2. Kept
      BY <2>1, <3>1 DEF Kept, StartOnly
    <3>3. CommandInv'
      BY <1>2, <2>1, <2>2, <2>3, <3>2 DEF CommandInv, Reads, Kept
    <3> QED BY <2>3, <2>5, <3>2, <3>3, CommandOnly
  <2>7. CASE cmd.page \notin start.col.pages
    <3>1. PICK added \in Additions(start.col.pool, rows[cmd.page].jobs) :
             start' = [start EXCEPT !.col = WithPage(start.col, cmd.page, added, rows[cmd.page].last)]
      BY <1>2, <2>7
    <3>2. rows[cmd.page].jobs \in SUBSET Jobs /\ rows[cmd.page].last \in BOOLEAN
      BY <2>2, RowsKnown DEF RowType
    <3>3. IsNext(start.col, cmd.page)
      BY <1>2, <2>7
    <3>4. {} \in SUBSET (Queries \X SUBSET Jobs)
      OBVIOUS
    <3>5. Advanced /\ start'.col.pages = start.col.pages \cup {cmd.page} /\ start'.col.kept
      BY <2>2, <3>1, <3>2, <3>3, <3>4, PageJoins
    <3>6. CommandInv'
      BY <1>2, <2>1, <2>2, <2>3, <3>5 DEF CommandInv, Reads, StartOnly, Advanced
    <3>7. taken' \in [Requests -> [Pages -> Nat]] /\ TakenInv'
      BY <1>2, <2>1, <2>2, <2>7, <3>5, PageTaken DEF Advanced
    <3> QED BY <2>1, <2>3, <2>5, <3>5, <3>6, <3>7, StartStep
  <2> QED BY <2>6, <2>7
<1> QED BY <1>1, <1>2 DEF AcceptPage

-----------------------------------------------------------------------------
(* The start begins and ends.                                                *)

LEMMA NoStartIs ==
    ASSUME DiscoveryInv
    PROVE  /\ NoProgress \in ProgressType /\ NoStart \in StartType
           /\ NoStart.req = 0 /\ NoStart.round = 0 /\ NoStart.col = NoProgress
           /\ NoProgress.pool = <<>> /\ NoProgress.kept = FALSE /\ NoProgress.pages = {}
<1>1. round.intent \in Intents
  BY DEF DiscoveryInv, Typed, TypeOK
<1>2. (CHOOSE i \in Intents : TRUE) \in Intents
  BY <1>1
<1>3. NoProgress \in ProgressType
  BY EmptyPool DEF NoProgress, ProgressType
<1>4. NoStart \in StartType
  BY <1>2, <1>3, Sizes DEF NoStart, StartType
<1> QED BY <1>3, <1>4 DEF NoStart, NoProgress

LEMMA ClearStartStep == ASSUME DiscoveryInv, ClearStart PROVE DiscoveryInv'
<1>1. /\ UNCHANGED <<exec, round, decision, manifests, sent, rows, unrecorded, service, charged,
                     askOf, ask, taken, partial, faults>>
      /\ cmd.at = "unstart"
      /\ cmd' = [cmd EXCEPT !.at = IF exec = "native" THEN "mark" ELSE "decide"]
      /\ start' = IF start.req = cmd.req THEN NoStart ELSE start
  BY DEF ClearStart, Step, ledger, ghosts
<1>2. cmd.req # 0
  BY <1>1 DEF DiscoveryInv, CommandInv
<1>3. /\ cmd'.at = IF exec = "native" THEN "mark" ELSE "decide"
      /\ cmd'.req = cmd.req /\ cmd'.pool = cmd.pool
      /\ cmd' \in Commands /\ cmd'.req \in Used \cup {0} /\ Distinct(cmd'.pool)
  BY <1>1 DEF DiscoveryInv, Typed, TypeOK, KnownInv, PoolInv, Commands, CommandSteps
<1>4. /\ exec' = exec /\ exec \in {"bulk", "native"}
      /\ exec = "bulk" => decision.req = cmd.req /\ decision.pool = cmd.pool
      /\ exec = "native" => ~MyTurn
  BY <1>1, DiscoveryAssumption DEF DiscoveryInv, Typed, TypeOK, CommandInv
<1>5. CommandInv'
  BY <1>1, <1>2, <1>3, <1>4 DEF CommandInv, Reads
<1>6. CancelInv'
  BY <1>1, <1>3 DEF CancelInv
<1>7. CASE start' = start
  <2>1. Kept
    BY <1>1, <1>7 DEF Kept
  <2> QED BY <1>3, <1>5, <1>6, <2>1, CommandOnly
<1>8. CASE start.req = cmd.req
  <2>1. /\ start' \in StartType /\ start'.req = 0 /\ start'.round = 0 /\ start'.col = NoProgress
        /\ start'.col.pool = <<>> /\ Distinct(start'.col.pool)
    BY <1>1, <1>8, NoStartIs, EmptyPool
  <2>2. Typed'
    BY <1>1, <1>3, <2>1 DEF DiscoveryInv, Typed, TypeOK, Commands, StartType
  <2>3. KnownInv'
    BY <1>1, <1>3, <2>1 DEF DiscoveryInv, KnownInv, Used, Final
  <2>4. AskInv'
    BY <1>1, <1>4 DEF DiscoveryInv, AskInv, Used, MyTurn
  <2>5. \A r \in Requests : start'.req # r
    BY <2>1, Sizes DEF Requests
  <2>6. PoolInv'
    BY <1>1, <1>3, <2>1, <2>5 DEF DiscoveryInv, PoolInv, Final, Whole
  <2>7. TakenInv'
    BY <1>1, <2>5 DEF DiscoveryInv, TakenInv, Used
  <2>8. BlockInv'
    BY <1>1, <2>5 DEF DiscoveryInv, BlockInv, Used, Final, Whole
  <2> QED BY <1>5, <1>6, <2>2, <2>3, <2>4, <2>6, <2>7, <2>8 DEF DiscoveryInv
<1> QED BY <1>1, <1>7, <1>8

LEMMA NewRequestStep == ASSUME DiscoveryInv, NewRequest PROVE DiscoveryInv'
<1>1. /\ UNCHANGED <<exec, round, decision, manifests, sent, unrecorded, service, charged, ask, taken,
                     partial, faults>>
      /\ Ready /\ decision.req = 0 /\ ~(start.req # 0 /\ ContextMatches) /\ rows' = NoRows
  BY DEF NewRequest
<1>2. PICK r \in Requests \ Used :
        /\ start' = [req |-> r, round |-> round.no, intent |-> round.intent, col |-> NoProgress]
        /\ askOf' = [askOf EXCEPT ![r] = ask]
        /\ cmd' = [at |-> "plan", req |-> r, pool |-> <<>>, page |-> NoPage]
  BY DEF NewRequest, Begin
<1>3. /\ askOf \in [Requests -> 0..MaxSearches] /\ ask \in 1..MaxSearches /\ exec \in Executors
      /\ round \in RoundType
  BY DEF DiscoveryInv, Typed, TypeOK, RoundType
<1>4. ask # 0 /\ r # 0 /\ ask \in 0..MaxSearches /\ round.no \in 0..MaxRounds /\ round.intent \in Intents
  BY <1>3, Sizes DEF Requests, RoundType
<1>5. /\ Used' = Used \cup {r} /\ r \notin Used /\ askOf' \in [Requests -> 0..MaxSearches]
      /\ \A q \in Requests : askOf'[q] = IF q = r THEN ask ELSE askOf[q]
  BY <1>2, <1>3, <1>4 DEF Used
<1>6. /\ start' \in StartType /\ start'.req = r /\ start'.round = round.no /\ start'.intent = round.intent
      /\ start'.col = NoProgress /\ start'.col.pool = <<>> /\ Distinct(start'.col.pool)
      /\ start'.col.kept = FALSE
  BY <1>2, <1>4, NoStartIs, EmptyPool DEF StartType
<1>7. /\ cmd' \in Commands /\ cmd'.at = "plan" /\ cmd'.req = r /\ Distinct(cmd'.pool)
  BY <1>2, EmptyPool DEF Commands, CommandSteps
<1>8. NoRow \in RowType /\ NoRow.req = 0 /\ NoRow.state = "none"
  BY Sizes DEF NoRow, RowType
<1>9. rows' \in [Pages -> RowType] /\ \A p \in Pages : rows'[p].req = 0 /\ rows'[p].state = "none"
  BY <1>1, <1>8 DEF NoRows
<1>10. CommandInv'
  BY <1>1, <1>4, <1>6, <1>7 DEF CommandInv, Reads
<1>11. CancelInv'
  BY <1>1 DEF CancelInv, Ready, CancelPending
<1>12. Typed'
  BY <1>1, <1>5, <1>6, <1>7, <1>9 DEF DiscoveryInv, Typed, TypeOK, Commands, StartType
<1>13. ~Final(r)
  BY <1>2 DEF DiscoveryInv, KnownInv
<1>14. KnownInv'
  BY <1>1, <1>4, <1>5, <1>6, <1>7, <1>9 DEF DiscoveryInv, KnownInv, Final
<1>15. AskInv'
  <2>1. exec = "native" => \A q \in Requests : askOf[q] # ask
    BY <1>1, <1>4 DEF DiscoveryInv, AskInv, Ready, Requests
  <2>2. \A q \in Requests : askOf'[q] <= ask'
    <3>1. ask <= ask
      BY <1>3, Sizes
    <3> QED BY <1>1, <1>5, <3>1 DEF DiscoveryInv, AskInv
  <2>3. exec = "native" => \A q, s \in Used' : askOf'[q] = askOf'[s] => q = s
    BY <1>5, <2>1 DEF DiscoveryInv, AskInv, Used
  <2>4. exec = "native" => \A q \in Requests : askOf'[q] = ask => q = r
    BY <1>5, <2>1
  <2>5. ContextMatches'
    BY <1>1, <1>6 DEF ContextMatches
  <2> QED BY <1>1, <1>6, <2>2, <2>3, <2>4, <2>5 DEF AskInv
<1>16. PoolInv'
  BY <1>1, <1>2, <1>4, <1>6, <1>7, <1>13 DEF DiscoveryInv, PoolInv, Final, Whole
<1>17. TakenInv'
  <2>1. \A p \in Pages : taken[r][p] = 0
    BY <1>2 DEF DiscoveryInv, TakenInv
  <2> QED BY <1>1, <1>5, <1>6, <2>1 DEF DiscoveryInv, TakenInv
<1>18. BlockInv'
  <2>1. service[r].blocks = <<>> /\ Len(<<>>) = 0
    BY <1>2 DEF DiscoveryInv, BlockInv
  <2>2. 0 <= AllBlocks(<<>>)
    BY EmptyPool, BlocksGrow, PoolsAre, LenProperties
  <2>3. Len(service[r].blocks) <= AllBlocks(start'.col.pool)
    BY <1>6, <2>1, <2>2
  <2> QED BY <1>1, <1>5, <1>6, <2>3 DEF DiscoveryInv, BlockInv, Final, Whole
<1> QED BY <1>10, <1>11, <1>12, <1>14, <1>15, <1>16, <1>17, <1>18 DEF DiscoveryInv

-----------------------------------------------------------------------------
(* Steps of the decision.                                                    *)

LEMMA AcceptPartialStep == ASSUME DiscoveryInv, AcceptPartial PROVE DiscoveryInv'
<1>1. /\ UNCHANGED <<exec, round, start, decision, manifests, sent, rows, unrecorded, service, charged,
                     askOf, ask, taken, faults>>
      /\ decision.req = 0 /\ ContextMatches /\ partial' = partial \cup {start.req}
      /\ cmd' = [at |-> "freeze", req |-> start.req, pool |-> start.col.pool, page |-> NoPage]
  BY DEF AcceptPartial, Begin, files, ledger
<1>2. start.req \in Used /\ start.req \in Requests /\ start.req # 0
  <2>1. round.no \in 1..MaxRounds
    BY DEF DiscoveryInv, Typed, TypeOK
  <2>2. start.round # 0
    BY <1>1, <2>1, Sizes DEF ContextMatches
  <2> QED BY <2>2 DEF DiscoveryInv, KnownInv, Used
<1>3. /\ cmd' \in Commands /\ cmd'.at = "freeze" /\ cmd'.req = start.req /\ cmd'.pool = start.col.pool
      /\ Distinct(cmd'.pool)
  BY <1>1, <1>2, StartKnown DEF Commands, CommandSteps
<1>4. CommandInv' /\ CancelInv'
  BY <1>1, <1>2, <1>3 DEF CommandInv, CancelInv, Reads, Whole
<1>5. Typed'
  BY <1>1, <1>2, <1>3 DEF DiscoveryInv, Typed, TypeOK, Commands
<1>6. KnownInv'
  BY <1>1, <1>2, <1>3 DEF DiscoveryInv, KnownInv, Used, Final
<1>7. AskInv'
  BY <1>1 DEF DiscoveryInv, AskInv, Used, MyTurn, ContextMatches
<1>8. PoolInv'
  BY <1>1, <1>3 DEF DiscoveryInv, PoolInv, Final, Whole
<1>9. TakenInv'
  BY <1>1 DEF DiscoveryInv, TakenInv, Used
<1>10. BlockInv'
  BY <1>1 DEF DiscoveryInv, BlockInv, Used, Final, Whole
<1> QED BY <1>4, <1>5, <1>6, <1>7, <1>8, <1>9, <1>10 DEF DiscoveryInv

DecisionType == [req : Requests \cup {0}, intent : Intents, pool : Pools]

LEMMA DecisionStep ==
    ASSUME DiscoveryInv, UNCHANGED <<exec, round, start, manifests, sent, rows, unrecorded, service,
                                     charged, askOf, ask, taken, partial, faults>>,
           decision' \in DecisionType, decision'.req \in Used \cup {0}, Distinct(decision'.pool),
           \/ decision'.req = 0
           \/ /\ decision'.req = start.req /\ decision'.pool = start.col.pool
              /\ Whole(start.req) => Exhausted(start.col),
           cmd' \in Commands, cmd'.req \in Used \cup {0}, Distinct(cmd'.pool), CommandInv', CancelInv'
    PROVE  DiscoveryInv'
<1>1. Typed'
  BY DEF DiscoveryInv, Typed, TypeOK, Commands, DecisionType
<1>2. KnownInv'
  BY DEF DiscoveryInv, KnownInv, Used, Final
<1>3. AskInv'
  BY DEF DiscoveryInv, AskInv, Used, MyTurn, ContextMatches
<1>4. \A r \in Requests : r # 0
  BY DEF Requests
<1>5. PoolInv'
  BY <1>4 DEF DiscoveryInv, PoolInv, Final, Whole
<1>6. TakenInv'
  BY DEF DiscoveryInv, TakenInv, Used
<1>7. BlockInv'
  BY <1>4 DEF DiscoveryInv, BlockInv, Used, Final, Whole
<1> QED BY <1>1, <1>2, <1>3, <1>5, <1>6, <1>7 DEF DiscoveryInv

LEMMA SaveDecisionStep == ASSUME DiscoveryInv, SaveDecision PROVE DiscoveryInv'
<1>1. /\ UNCHANGED <<exec, round, start, manifests, sent, rows, unrecorded, service, charged, askOf, ask,
                     taken, partial, faults>>
      /\ cmd.at = "freeze" /\ decision' = [req |-> cmd.req, intent |-> start.intent, pool |-> cmd.pool]
      /\ cmd' = [cmd EXCEPT !.at = IF exec = "native" THEN "decide" ELSE "unstart"]
  BY DEF SaveDecision, Step, ledger, ghosts
<1>2. /\ cmd.req # 0 /\ cmd.req = start.req /\ cmd.pool = start.col.pool
      /\ Whole(cmd.req) => Exhausted(start.col)
  BY <1>1 DEF DiscoveryInv, CommandInv
<1>3. /\ cmd'.at = IF exec = "native" THEN "decide" ELSE "unstart"
      /\ cmd'.req = cmd.req /\ cmd'.pool = cmd.pool
      /\ cmd' \in Commands /\ cmd'.req \in Used \cup {0} /\ Distinct(cmd'.pool)
  BY <1>1 DEF DiscoveryInv, Typed, TypeOK, KnownInv, PoolInv, Commands, CommandSteps
<1>4. /\ decision' \in DecisionType /\ decision'.req = cmd.req /\ decision'.pool = cmd.pool
  BY <1>1, <1>3 DEF DiscoveryInv, Typed, TypeOK, DecisionType, Commands
<1>5. CommandInv' /\ CancelInv'
  BY <1>1, <1>2, <1>3, <1>4 DEF CommandInv, CancelInv, Reads
<1> QED BY <1>1, <1>2, <1>3, <1>4, <1>5, DecisionStep

LEMMA ClearDecisionStep == ASSUME DiscoveryInv, ClearDecision PROVE DiscoveryInv'
<1>1. /\ UNCHANGED <<exec, round, start, manifests, sent, rows, unrecorded, service, charged, askOf, ask,
                     taken, partial, faults>>
      /\ cmd.at = "drop" /\ cmd' = [cmd EXCEPT !.at = "status"]
      /\ decision' = IF decision.req = cmd.req THEN NoDecision ELSE decision
  BY DEF ClearDecision, Step, ledger, ghosts
<1>2. cmd.req # 0 /\ decision.req = cmd.req
  BY <1>1 DEF DiscoveryInv, CommandInv
<1>3. /\ cmd'.at = "status" /\ cmd'.req = cmd.req
      /\ cmd' \in Commands /\ cmd'.req \in Used \cup {0} /\ Distinct(cmd'.pool)
  BY <1>1 DEF DiscoveryInv, Typed, TypeOK, KnownInv, PoolInv, Commands, CommandSteps
<1>4. decision' \in DecisionType /\ decision'.req = 0 /\ Distinct(decision'.pool)
  <2>1. round.intent \in Intents
    BY DEF DiscoveryInv, Typed, TypeOK
  <2>2. (CHOOSE i \in Intents : TRUE) \in Intents
    BY <2>1
  <2> QED BY <1>1, <1>2, <2>2, EmptyPool DEF NoDecision, DecisionType
<1>5. CommandInv' /\ CancelInv'
  BY <1>2, <1>3 DEF CommandInv, CancelInv, Reads
<1> QED BY <1>1, <1>3, <1>4, <1>5, DecisionStep

LEMMA SaveManifestStep == ASSUME DiscoveryInv, SaveManifest PROVE DiscoveryInv'
<1>1. /\ UNCHANGED <<exec, round, start, decision, sent, rows, unrecorded, service, charged, askOf, ask,
                     taken, partial, faults>>
      /\ cmd.at = "manifest" /\ cmd' = [cmd EXCEPT !.at = "drop"]
      /\ manifests' = manifests \cup {cmd.req}
  BY DEF SaveManifest, Step, ledger, ghosts
<1>2. cmd.req # 0 /\ decision.req = cmd.req /\ decision.pool = cmd.pool
  BY <1>1 DEF DiscoveryInv, CommandInv
<1>3. /\ cmd'.at = "drop" /\ cmd'.req = cmd.req /\ cmd'.pool = cmd.pool
      /\ cmd' \in Commands /\ cmd'.req \in Used \cup {0} /\ Distinct(cmd'.pool)
  BY <1>1 DEF DiscoveryInv, Typed, TypeOK, KnownInv, PoolInv, Commands, CommandSteps
<1>4. CommandInv' /\ CancelInv'
  BY <1>1, <1>2, <1>3 DEF CommandInv, CancelInv, Reads
<1>5. cmd.req \in Requests
  BY <1>2 DEF DiscoveryInv, Typed, TypeOK
<1>6. Typed'
  BY <1>1, <1>3, <1>5 DEF DiscoveryInv, Typed, TypeOK, Commands
<1>7. KnownInv'
  BY <1>1, <1>3 DEF DiscoveryInv, KnownInv, Used, Final
<1>8. AskInv'
  BY <1>1 DEF DiscoveryInv, AskInv, Used, MyTurn, ContextMatches
<1>9. PoolInv'
  BY <1>1, <1>3 DEF DiscoveryInv, PoolInv, Final, Whole
<1>10. TakenInv' /\ BlockInv'
  BY <1>1 DEF DiscoveryInv, TakenInv, BlockInv, Used, Final, Whole
<1> QED BY <1>4, <1>6, <1>7, <1>8, <1>9, <1>10 DEF DiscoveryInv

-----------------------------------------------------------------------------
(* The service.                                                              *)

LEMMA DecideStep == ASSUME DiscoveryInv, Decide PROVE DiscoveryInv'
<1>1. /\ UNCHANGED <<exec, round, start, decision, manifests, sent, rows, unrecorded, askOf, ask,
                     taken, partial, faults>>
      /\ cmd.at = "decide" /\ cmd' = [cmd EXCEPT !.at = "manifest"]
      /\ charged' = charged \cup {cmd.req}
      /\ service' = [service EXCEPT ![cmd.req].final = TRUE,
                                    ![cmd.req].pool = IF service[cmd.req].final THEN @ ELSE cmd.pool]
  BY DEF Decide, Step, files, ledger, ghosts
<1> DEFINE r == cmd.req
           was == service[r]
           pool == IF was.final THEN was.pool ELSE cmd.pool
           now == [was EXCEPT !.final = TRUE, !.pool = pool]
<1>2. r \in Used /\ r \in Requests /\ r # 0 /\ decision.req = r /\ decision.pool = cmd.pool
  BY <1>1 DEF DiscoveryInv, CommandInv, KnownInv, Used
<1>3. /\ was \in [blocks : Seq(BlockValues), final : BOOLEAN, pool : Pools]
      /\ cmd.pool \in Pools
  BY <1>2 DEF DiscoveryInv, Typed, TypeOK
<1>4. pool \in Pools /\ Distinct(pool)
  BY <1>2, <1>3 DEF DiscoveryInv, PoolInv
<1>5. service' = [service EXCEPT ![r] = now]
  BY <1>1, <1>2, <1>3 DEF DiscoveryInv, Typed
<1> HIDE DEF pool
<1>6. /\ now \in [blocks : Seq(BlockValues), final : BOOLEAN, pool : Pools]
      /\ now.blocks = was.blocks /\ now.final = TRUE /\ now.pool = pool
  BY <1>3, <1>4
<1> HIDE DEF now, was, r
<1>7. /\ service' \in [Requests -> [blocks : Seq(BlockValues), final : BOOLEAN, pool : Pools]]
      /\ service'[r] = now
      /\ \A q \in Requests : q # r => service'[q] = service[q]
      /\ \A q \in Requests : service'[q].blocks = service[q].blocks
  BY <1>2, <1>5, <1>6 DEF DiscoveryInv, Typed, was
<1>8. /\ cmd'.at = "manifest" /\ cmd'.req = r /\ cmd'.pool = cmd.pool /\ cmd.req = r
      /\ cmd' \in Commands /\ cmd'.req \in Used \cup {0} /\ Distinct(cmd'.pool)
  BY <1>1 DEF DiscoveryInv, Typed, TypeOK, KnownInv, PoolInv, Commands, CommandSteps, r
<1>9. CommandInv' /\ CancelInv'
  BY <1>1, <1>2, <1>8 DEF CommandInv, CancelInv, Reads
<1>10. Typed'
  BY <1>1, <1>2, <1>7, <1>8 DEF DiscoveryInv, Typed, TypeOK, Commands
<1>11. KnownInv'
  BY <1>1, <1>2, <1>7, <1>8 DEF DiscoveryInv, KnownInv, Used, Final
<1>12. AskInv'
  BY <1>1 DEF DiscoveryInv, AskInv, Used, MyTurn, ContextMatches
\* The pool of a request that is whole is the one the files hold.
<1>13. Whole(r) => pool = cmd.pool
  BY <1>2 DEF DiscoveryInv, PoolInv, Final, pool, was
<1>14. PoolInv'
  <2>1. Distinct(start'.col.pool) /\ Distinct(decision'.pool) /\ Distinct(cmd'.pool)
    BY <1>1, <1>8 DEF DiscoveryInv, PoolInv
  <2>2. \A q \in Requests : Distinct(service'[q].pool)
    BY <1>4, <1>6, <1>7 DEF DiscoveryInv, PoolInv
  <2>3. decision.req # 0 /\ start.req = decision.req =>
          start.col.pool = decision.pool /\ (Whole(start.req) => Exhausted(start.col))
    BY DEF DiscoveryInv, PoolInv
  <2>4. ASSUME NEW q \in Requests, service'[q].final, Whole(q)
        PROVE  /\ decision.req = q => decision.pool = service'[q].pool
               /\ start.req = q => start.col.pool = service'[q].pool /\ Exhausted(start.col)
    <3>1. CASE q = r
      BY <1>2, <1>6, <1>7, <1>13, <2>3, <2>4, <3>1
    <3>2. CASE q # r
      BY <1>7, <2>4, <3>2 DEF DiscoveryInv, PoolInv, Final
    <3> QED BY <3>1, <3>2
  <2> QED BY <1>1, <2>1, <2>2, <2>3, <2>4 DEF PoolInv, Final, Whole
<1>15. TakenInv'
  BY <1>1 DEF DiscoveryInv, TakenInv, Used
<1>16. BlockInv'
  <2> DEFINE count == AllBlocks(pool)
  <2>1. ASSUME exec = "bulk", Whole(r)
        PROVE  /\ Len(sent[r]) = count /\ Len(service[r].blocks) = count
               /\ \A k \in 1..count : service[r].blocks[k] = Block(pool, k)
    <3>1. pool = cmd.pool
      BY <1>13, <2>1
    <3>2. Len(sent[r]) >= count /\ \A k \in 1..count : sent[r][k] = Block(pool, k)
      BY <1>8, <2>1, <3>1 DEF Decide, Acknowledged
    <3>3. /\ Len(sent[r]) <= Len(service[r].blocks)
          /\ \A k \in 1..Len(sent[r]) : sent[r][k] = service[r].blocks[k]
          /\ Len(service[r].blocks) <= count
      BY <1>2, <3>1 DEF DiscoveryInv, BlockInv
    <3>4. Len(sent[r]) \in Nat /\ Len(service[r].blocks) \in Nat
      BY <1>2, LenProperties DEF DiscoveryInv, Typed
    <3>5. count \in Nat
      <4>1. Len(pool) <= Len(pool)
        BY <1>4, PoolsAre, LenProperties
      <4> QED BY <1>4, <4>1, BlocksGrow
    <3> HIDE DEF count
    <3>6. Len(sent[r]) = count /\ Len(service[r].blocks) = count
      BY <3>2, <3>3, <3>4, <3>5
    <3> QED BY <3>2, <3>3, <3>6
  <2> SUFFICES ASSUME NEW q \in Requests
               PROVE  /\ Len(sent[q]) <= Len(service'[q].blocks)
                      /\ \A k \in 1..Len(sent[q]) : sent[q][k] = service'[q].blocks[k]
                      /\ q \notin Used => service'[q].blocks = <<>>
                      /\ start.req = q => Len(service'[q].blocks) <= AllBlocks(start.col.pool)
                      /\ decision.req = q => Len(service'[q].blocks) <= AllBlocks(decision.pool)
                      /\ exec = "bulk" /\ service'[q].final /\ Whole(q) =>
                            /\ Len(sent[q]) = AllBlocks(service'[q].pool)
                            /\ Len(service'[q].blocks) = AllBlocks(service'[q].pool)
                            /\ \A k \in 1..AllBlocks(service'[q].pool) :
                                  service'[q].blocks[k] = Block(service'[q].pool, k)
    BY <1>1 DEF BlockInv, Used, Final, Whole
  <2>2. /\ Len(sent[q]) <= Len(service'[q].blocks)
        /\ \A k \in 1..Len(sent[q]) : sent[q][k] = service'[q].blocks[k]
        /\ q \notin Used => service'[q].blocks = <<>>
        /\ start.req = q => Len(service'[q].blocks) <= AllBlocks(start.col.pool)
        /\ decision.req = q => Len(service'[q].blocks) <= AllBlocks(decision.pool)
    BY <1>7 DEF DiscoveryInv, BlockInv
  <2>3. CASE q = r
    <3>1. service'[q].pool = pool /\ service'[q].blocks = service[r].blocks
      BY <1>6, <1>7, <2>3
    <3> QED BY <2>1, <2>2, <2>3, <3>1
  <2>4. CASE q # r
    <3>1. service'[q] = service[q]
      BY <1>7, <2>4
    <3> QED BY <2>2, <3>1 DEF DiscoveryInv, BlockInv, Final
  <2> QED BY <2>3, <2>4
<1> QED BY <1>9, <1>10, <1>11, <1>12, <1>14, <1>15, <1>16 DEF DiscoveryInv

\* A block is sent, and acknowledged or not.
LEMMA BlockStep ==
    ASSUME DiscoveryInv, NEW r \in Used, NEW b \in Seq(BlockValues), NEW s \in Seq(BlockValues),
           UNCHANGED <<exec, round, start, decision, manifests, rows, unrecorded, charged, askOf, ask,
                       taken, partial>>,
           service' = [service EXCEPT ![r].blocks = b], sent' = [sent EXCEPT ![r] = s],
           Len(s) <= Len(b), \A k \in 1..Len(s) : s[k] = b[k],
           start.req = r => Len(b) <= AllBlocks(start.col.pool),
           decision.req = r => Len(b) <= AllBlocks(decision.pool),
           Whole(r) => ~Final(r),
           faults' \in 0..MaxFaults, cmd' \in Commands, cmd'.req \in Used \cup {0},
           Distinct(cmd'.pool), CommandInv', CancelInv'
    PROVE  DiscoveryInv'
<1>1. r \in Requests /\ service[r] \in [blocks : Seq(BlockValues), final : BOOLEAN, pool : Pools]
  BY DEF DiscoveryInv, Typed, Used
<1>2. /\ sent' \in [Requests -> Seq(BlockValues)]
      /\ service' \in [Requests -> [blocks : Seq(BlockValues), final : BOOLEAN, pool : Pools]]
  BY <1>1 DEF DiscoveryInv, Typed
<1>3. /\ service'[r].blocks = b /\ sent'[r] = s
      /\ \A q \in Requests : service'[q].final = service[q].final /\ service'[q].pool = service[q].pool
      /\ \A q \in Requests : q # r => service'[q] = service[q] /\ sent'[q] = sent[q]
  BY <1>1 DEF DiscoveryInv, Typed
<1>4. Typed'
  BY <1>2 DEF DiscoveryInv, Typed, TypeOK, Commands
<1>5. KnownInv'
  BY <1>3 DEF DiscoveryInv, KnownInv, Used, Final
<1>6. AskInv'
  BY DEF DiscoveryInv, AskInv, Used, MyTurn, ContextMatches
<1>7. PoolInv'
  BY <1>3 DEF DiscoveryInv, PoolInv, Final, Whole
<1>8. TakenInv'
  BY DEF DiscoveryInv, TakenInv, Used
<1>9. BlockInv'
  <2> SUFFICES ASSUME NEW q \in Requests
               PROVE  /\ Len(sent'[q]) <= Len(service'[q].blocks)
                      /\ \A k \in 1..Len(sent'[q]) : sent'[q][k] = service'[q].blocks[k]
                      /\ q \notin Used => service'[q].blocks = <<>>
                      /\ start.req = q => Len(service'[q].blocks) <= AllBlocks(start.col.pool)
                      /\ decision.req = q => Len(service'[q].blocks) <= AllBlocks(decision.pool)
                      /\ exec = "bulk" /\ Final(q) /\ Whole(q) =>
                            /\ Len(sent'[q]) = AllBlocks(service[q].pool)
                            /\ Len(service'[q].blocks) = AllBlocks(service[q].pool)
                            /\ \A k \in 1..AllBlocks(service[q].pool) :
                                  service'[q].blocks[k] = Block(service[q].pool, k)
    BY <1>3 DEF BlockInv, Used, Final, Whole
  <2>1. CASE q = r
    BY <1>3, <2>1
  <2>2. CASE q # r
    BY <1>3, <2>2 DEF DiscoveryInv, BlockInv
  <2> QED BY <2>1, <2>2
<1> QED BY <1>4, <1>5, <1>6, <1>7, <1>8, <1>9 DEF DiscoveryInv

\* The pool that is being uploaded is the one the files hold, and it was not
\* frozen before.
LEMMA Uploading ==
    ASSUME DiscoveryInv, NEW pool, NEW count, count <= AllBlocks(pool), Len(sent[cmd.req]) + 1 <= count,
           \/ cmd.at = "upload" /\ pool = start.col.pool /\ count = WholeBlocks(pool)
           \/ cmd.at = "decide" /\ exec = "bulk" /\ pool = cmd.pool /\ count = AllBlocks(pool)
    PROVE  /\ cmd.req \in Used /\ pool \in Pools /\ AllBlocks(pool) \in Nat /\ count \in Nat
           /\ start.req = cmd.req => start.col.pool = pool
           /\ decision.req = cmd.req => decision.pool = pool
           /\ Whole(cmd.req) => ~Final(cmd.req)
<1>1. cmd.req \in Used /\ cmd.req # 0 /\ cmd.req \in Requests
  BY DEF DiscoveryInv, CommandInv, KnownInv, Used
<1>2. pool \in Pools
  BY StartKnown DEF DiscoveryInv, Typed, TypeOK
<1>3. AllBlocks(pool) \in Nat /\ WholeBlocks(pool) \in Nat
  <2>1. Len(pool) <= Len(pool)
    BY <1>2, PoolsAre, LenProperties
  <2> QED BY <1>2, <2>1, BlocksGrow
<1>4. CASE cmd.at = "upload" /\ pool = start.col.pool
  BY <1>1, <1>2, <1>3, <1>4 DEF DiscoveryInv, CommandInv, Reads
<1>5. CASE cmd.at = "decide" /\ exec = "bulk" /\ pool = cmd.pool
  <2>1. decision.req = cmd.req /\ decision.pool = pool
    BY <1>5 DEF DiscoveryInv, CommandInv
  <2>2. start.req = cmd.req => start.col.pool = pool
    BY <1>1, <2>1 DEF DiscoveryInv, PoolInv
  <2>3. ASSUME Whole(cmd.req), Final(cmd.req) PROVE FALSE
    <3>1. Len(sent[cmd.req]) = AllBlocks(service[cmd.req].pool)
      BY <1>1, <1>5, <2>3 DEF DiscoveryInv, BlockInv
    <3>2. service[cmd.req].pool = pool
      BY <1>1, <2>1, <2>3 DEF DiscoveryInv, PoolInv
    <3>3. PICK n \in Nat : n = AllBlocks(pool)
      BY <1>3
    <3>4. count = n
      BY <1>5, <3>3
    <3> QED BY <3>1, <3>2, <3>3, <3>4
  <2> QED BY <1>1, <1>2, <1>3, <2>1, <2>2, <2>3
<1> QED BY <1>4, <1>5

LEMMA PutBlockStep ==
    ASSUME DiscoveryInv, NEW pool, NEW count, PutBlock(pool, count), count <= AllBlocks(pool),
           \/ cmd.at = "upload" /\ pool = start.col.pool /\ count = WholeBlocks(pool)
           \/ cmd.at = "decide" /\ exec = "bulk" /\ pool = cmd.pool /\ count = AllBlocks(pool)
    PROVE  DiscoveryInv'
<1> DEFINE r == cmd.req
           k == Len(sent[r]) + 1
           was == service[r].blocks
           x == Block(pool, k)
           b == IF k <= Len(was) THEN [was EXCEPT ![k] = x] ELSE Append(was, x)
           s == Append(sent[r], x)
<1>1. /\ UNCHANGED <<exec, round, start, decision, manifests, rows, unrecorded, charged, cmd, askOf, ask,
                     taken, partial, faults>>
      /\ k <= count /\ sent' = [sent EXCEPT ![r] = s]
      /\ service' = [service EXCEPT ![r].blocks =
                        IF k <= Len(@) THEN [@ EXCEPT ![k] = x] ELSE Append(@, x)]
  BY DEF PutBlock, ledger, ghosts
<1>2. /\ r \in Used /\ pool \in Pools /\ AllBlocks(pool) \in Nat /\ count \in Nat
      /\ start.req = r => start.col.pool = pool
      /\ decision.req = r => decision.pool = pool
      /\ Whole(r) => ~Final(r)
  BY <1>1, Uploading
<1>3. /\ r \in Requests /\ sent[r] \in Seq(BlockValues) /\ was \in Seq(BlockValues)
      /\ Len(sent[r]) \in Nat /\ Len(was) \in Nat
  BY <1>2, LenProperties DEF DiscoveryInv, Typed, Used
<1>4. x \in BlockValues /\ k \in Nat /\ k >= 1
  BY <1>2, <1>3 DEF BlockValues
<1>5. service' = [service EXCEPT ![r].blocks = b]
  BY <1>1, <1>3 DEF DiscoveryInv, Typed
<1>6. Len(sent[r]) <= Len(was) /\ \A i \in 1..Len(sent[r]) : sent[r][i] = was[i]
  BY <1>3 DEF DiscoveryInv, BlockInv
<1>7. /\ start.req = r => Len(was) <= AllBlocks(pool)
      /\ decision.req = r => Len(was) <= AllBlocks(pool)
  BY <1>2, <1>3 DEF DiscoveryInv, BlockInv
<1>8. /\ s \in Seq(BlockValues) /\ Len(s) = k /\ s[k] = x
      /\ \A i \in 1..Len(sent[r]) : s[i] = sent[r][i]
  BY <1>3, <1>4, AppendProperties
<1> HIDE DEF x, was, s, r
<1>9. PICK n \in Nat : n = AllBlocks(pool)
  BY <1>2
<1>10. /\ b \in Seq(BlockValues) /\ k <= Len(b) /\ b[k] = x
       /\ \A i \in 1..Len(sent[r]) : b[i] = was[i]
       /\ start.req = r => Len(b) <= n
       /\ decision.req = r => Len(b) <= n
  <2>1. CASE k <= Len(was)
    <3>1. k \in 1..Len(was)
      BY <1>3, <1>4, <2>1
    <3>2. /\ b \in Seq(BlockValues) /\ Len(b) = Len(was)
          /\ \A i \in 1..Len(was) : b[i] = IF i = k THEN x ELSE was[i]
      BY <1>3, <1>4, <2>1, <3>1, ExceptSeq
    <3>3. \A i \in 1..Len(sent[r]) : i \in 1..Len(was) /\ i # k
      BY <1>3, <1>6
    <3> HIDE DEF b
    <3>4. start.req = r \/ decision.req = r => Len(b) <= n
      BY <1>7, <1>9, <3>2
    <3> QED BY <2>1, <3>1, <3>2, <3>3, <3>4
  <2>2. CASE ~(k <= Len(was))
    <3>1. Len(was) = Len(sent[r])
      BY <1>3, <1>6, <2>2
    <3>2. b = Append(was, x)
      BY <2>2
    <3> HIDE DEF b
    <3>3. /\ b \in Seq(BlockValues) /\ Len(b) = k /\ b[k] = x
          /\ \A i \in 1..Len(was) : b[i] = was[i]
      BY <1>3, <1>4, <3>1, <3>2, AppendProperties
    <3>4. k <= n
      BY <1>1, <1>2, <1>4, <1>9
    <3> QED BY <1>4, <3>1, <3>3, <3>4
  <2> QED BY <2>1, <2>2
<1> HIDE DEF b
<1>11. Len(s) <= Len(b)
  BY <1>8, <1>10
<1>12. \A i \in 1..Len(s) : s[i] = b[i]
  <2> SUFFICES ASSUME NEW i \in 1..Len(s) PROVE s[i] = b[i]
    OBVIOUS
  <2>1. i = k \/ i \in 1..Len(sent[r])
    BY <1>3, <1>8
  <2> QED BY <1>6, <1>8, <1>10, <2>1
<1> HIDE DEF k
<1>13. /\ start.req = r => Len(b) <= AllBlocks(start.col.pool)
       /\ decision.req = r => Len(b) <= AllBlocks(decision.pool)
  BY <1>2, <1>9, <1>10
<1>14. /\ faults' \in 0..MaxFaults /\ cmd' \in Commands /\ cmd'.req \in Used \cup {0} /\ Distinct(cmd'.pool)
  BY <1>1 DEF DiscoveryInv, Typed, TypeOK, KnownInv, PoolInv, Commands
<1>15. CommandInv' /\ CancelInv'
  <2>1. /\ cmd' = cmd /\ start' = start /\ decision' = decision /\ exec' = exec /\ partial' = partial
        /\ round' = round /\ unrecorded' = unrecorded
    BY <1>1
  <2>2. \A q \in Requests : service'[q].final = service[q].final
    BY <1>3, <1>5 DEF DiscoveryInv, Typed
  <2>3. cmd.at = "upload" => Final(cmd.req)' = Final(cmd.req)
    BY <1>3, <2>1, <2>2 DEF Final, r
  <2>4. CancelInv'
    BY <2>1 DEF DiscoveryInv, CancelInv, CancelPending
  <2>5. CommandInv'
    BY <2>1, <2>3 DEF DiscoveryInv, CommandInv, Reads, Whole, MyTurn, Exhausted, Full, Unread
  <2> QED BY <2>4, <2>5
<1> QED BY <1>1, <1>2, <1>5, <1>8, <1>10, <1>11, <1>12, <1>13, <1>14, <1>15, BlockStep

LEMMA UploadStep == ASSUME DiscoveryInv, UploadPrefix \/ UploadRest PROVE DiscoveryInv'
<1>1. ASSUME UploadPrefix PROVE DiscoveryInv'
  <2>1. start.col.pool \in Pools
    BY StartKnown
  <2>2. Len(start.col.pool) <= Len(start.col.pool)
    BY <2>1, PoolsAre, LenProperties
  <2>3. WholeBlocks(start.col.pool) <= AllBlocks(start.col.pool)
    BY <2>1, <2>2, BlocksGrow
  <2> QED BY <1>1, <2>3, PutBlockStep DEF UploadPrefix
<1>2. ASSUME UploadRest PROVE DiscoveryInv'
  <2>1. cmd.pool \in Pools
    BY DEF DiscoveryInv, Typed, TypeOK
  <2>2. Len(cmd.pool) <= Len(cmd.pool)
    BY <2>1, PoolsAre, LenProperties
  <2>3. AllBlocks(cmd.pool) <= AllBlocks(cmd.pool)
    BY <2>1, <2>2, BlocksGrow
  <2> QED BY <1>2, <2>3, PutBlockStep DEF UploadRest
<1> QED BY <1>1, <1>2

LEMMA DieStep == ASSUME DiscoveryInv, Die PROVE DiscoveryInv'
<1>1. /\ UNCHANGED <<exec, round, start, decision, manifests, sent, rows, unrecorded, charged, askOf, ask,
                     taken, partial>>
      /\ cmd' = Idle /\ faults < MaxFaults /\ faults' = faults + 1
  BY DEF Die, files, ledger, ghosts
<1>2. faults' \in 0..MaxFaults
  <2>1. faults \in 0..MaxFaults
    BY DEF DiscoveryInv, Typed, TypeOK
  <2> QED BY <1>1, <2>1, Sizes
<1>3. CASE UNCHANGED service
  <2>1. Typed'
    BY <1>1, <1>2, <1>3, NoCommand DEF DiscoveryInv, Typed, TypeOK, Commands
  <2>2. KnownInv'
    BY <1>1, <1>3, NoCommand DEF DiscoveryInv, KnownInv, Used, Final
  <2>3. AskInv'
    BY <1>1 DEF DiscoveryInv, AskInv, Used, MyTurn, ContextMatches
  <2>4. PoolInv'
    BY <1>1, <1>3, NoCommand DEF DiscoveryInv, PoolInv, Final, Whole
  <2>5. TakenInv' /\ BlockInv'
    BY <1>1, <1>3 DEF DiscoveryInv, TakenInv, BlockInv, Used, Final, Whole
  <2> QED BY <1>1, <2>1, <2>2, <2>3, <2>4, <2>5, NoCommand DEF DiscoveryInv
<1>4. ASSUME NEW pool, NEW count, count <= AllBlocks(pool),
             \/ cmd.at = "upload" /\ pool = start.col.pool /\ count = WholeBlocks(pool)
             \/ cmd.at = "decide" /\ exec = "bulk" /\ pool = cmd.pool /\ count = AllBlocks(pool),
             Len(sent[cmd.req]) + 1 <= count, Len(sent[cmd.req]) + 1 > Len(service[cmd.req].blocks),
             service' = [service EXCEPT ![cmd.req].blocks = Append(@, Block(pool, Len(sent[cmd.req]) + 1))]
      PROVE  DiscoveryInv'
  <2> DEFINE r == cmd.req
             k == Len(sent[r]) + 1
             was == service[r].blocks
             x == Block(pool, k)
             b == Append(was, x)
  <2>1. /\ r \in Used /\ pool \in Pools /\ AllBlocks(pool) \in Nat /\ count \in Nat
        /\ start.req = r => start.col.pool = pool
        /\ decision.req = r => decision.pool = pool
        /\ Whole(r) => ~Final(r)
    BY <1>4, Uploading
  <2>2. /\ r \in Requests /\ sent[r] \in Seq(BlockValues) /\ was \in Seq(BlockValues)
        /\ Len(sent[r]) \in Nat /\ Len(was) \in Nat
    BY <2>1, LenProperties DEF DiscoveryInv, Typed, Used
  <2>3. x \in BlockValues /\ k \in Nat
    BY <2>1, <2>2 DEF BlockValues
  <2>4. service' = [service EXCEPT ![r].blocks = b] /\ sent' = [sent EXCEPT ![r] = sent[r]]
    BY <1>1, <1>4, <2>2 DEF DiscoveryInv, Typed
  <2>5. Len(sent[r]) <= Len(was) /\ \A i \in 1..Len(sent[r]) : sent[r][i] = was[i]
    BY <2>2 DEF DiscoveryInv, BlockInv
  <2>6. Len(was) = Len(sent[r])
    BY <1>4, <2>2, <2>5
  <2> HIDE DEF x, was
  <2>7. b \in Seq(BlockValues) /\ Len(b) = k /\ \A i \in 1..Len(was) : b[i] = was[i]
    BY <2>2, <2>3, <2>6, AppendProperties
  <2>8. PICK n \in Nat : n = AllBlocks(pool)
    BY <2>1
  <2>9. k <= n
    BY <1>4, <2>1, <2>3, <2>8
  <2> HIDE DEF b
  <2>10. Len(sent[r]) <= Len(b) /\ \A i \in 1..Len(sent[r]) : sent[r][i] = b[i]
    BY <2>2, <2>5, <2>6, <2>7
  <2> HIDE DEF k, r
  <2>11. /\ start.req = r => Len(b) <= AllBlocks(start.col.pool)
         /\ decision.req = r => Len(b) <= AllBlocks(decision.pool)
    BY <2>1, <2>7, <2>8, <2>9
  <2> QED BY <1>1, <1>2, <2>1, <2>2, <2>4, <2>7, <2>10, <2>11, NoCommand, BlockStep
<1>5. CASE ~UNCHANGED service
  <2>1. /\ exec = "bulk" /\ cmd.at \in {"upload", "decide"}
        /\ LET pool == IF cmd.at = "upload" THEN start.col.pool ELSE cmd.pool
               k == Len(sent[cmd.req]) + 1
           IN  /\ k <= (IF cmd.at = "upload" THEN WholeBlocks(pool) ELSE AllBlocks(pool))
               /\ k > Len(service[cmd.req].blocks)
               /\ service' = [service EXCEPT ![cmd.req].blocks = Append(@, Block(pool, k))]
    BY <1>5 DEF Die
  <2>2. start.col.pool \in Pools /\ cmd.pool \in Pools
    BY StartKnown DEF DiscoveryInv, Typed, TypeOK
  <2>3. \A pool \in Pools : WholeBlocks(pool) <= AllBlocks(pool) /\ AllBlocks(pool) <= AllBlocks(pool)
    <3> TAKE pool \in Pools
    <3>1. Len(pool) <= Len(pool)
      BY PoolsAre, LenProperties
    <3> QED BY <3>1, BlocksGrow
  <2>4. CASE cmd.at = "upload"
    BY <1>4, <2>1, <2>2, <2>3, <2>4
  <2>5. CASE cmd.at = "decide"
    BY <1>4, <2>1, <2>2, <2>3, <2>5
  <2> QED BY <2>1, <2>4, <2>5
<1> QED BY <1>3, <1>5

-----------------------------------------------------------------------------
(* The invariant.                                                            *)

LEMMA InitInv == ASSUME Init PROVE DiscoveryInv
<1>1. /\ exec \in Executors /\ start = NoStart /\ decision = NoDecision /\ manifests = {} /\ rows = NoRows
      /\ unrecorded = FALSE /\ charged = {} /\ cmd = Idle /\ faults = 0 /\ ask = 1 /\ partial = {}
      /\ sent = [r \in Requests |-> <<>>]
      /\ service = [r \in Requests |-> [blocks |-> <<>>, final |-> FALSE, pool |-> <<>>]]
      /\ askOf = [r \in Requests |-> 0] /\ taken = [r \in Requests |-> [p \in Pages |-> 0]]
  BY DEF Init
<1>2. PICK i \in Intents :
         round = [no |-> 1, intent |-> i, status |-> "login_verified", req |-> 0, gate |-> FALSE]
  <2>1. round.intent \in Intents /\ round = [no |-> 1, intent |-> round.intent, status |-> "login_verified", req |-> 0, gate |-> FALSE]
    BY DEF Init
  <2> QED BY <2>1
<1>3. round \in RoundType
  BY <1>2, Sizes DEF RoundType, Statuses
<1>4. (CHOOSE j \in Intents : TRUE) \in Intents
  BY <1>2
<1>5. NoProgress \in ProgressType /\ NoProgress.pool = <<>> /\ Distinct(NoProgress.pool)
  BY EmptyPool DEF NoProgress, ProgressType
<1>6. /\ start \in StartType /\ start.req = 0 /\ start.round = 0 /\ start.col = NoProgress
      /\ decision \in DecisionType /\ decision.req = 0 /\ Distinct(decision.pool)
  BY <1>1, <1>4, <1>5, EmptyPool, Sizes DEF NoStart, NoDecision, StartType, DecisionType
<1>7. NoRow \in RowType /\ NoRow.req = 0 /\ NoRow.state = "none"
  BY Sizes DEF NoRow, RowType
<1>8. rows \in [Pages -> RowType] /\ \A p \in Pages : rows[p].req = 0 /\ rows[p].state = "none"
  BY <1>1, <1>7 DEF NoRows
<1>9. /\ cmd \in Commands /\ cmd.at = "idle" /\ cmd.req = 0 /\ Distinct(cmd.pool)
  BY <1>1, EmptyPool DEF Idle, Commands, CommandSteps
<1>10. <<>> \in Seq(BlockValues) /\ Len(<<>>) = 0
  OBVIOUS
<1>11. \A r \in Requests : /\ ~Final(r) /\ service[r].blocks = <<>> /\ service[r].pool = <<>>
                          /\ sent[r] = <<>> /\ askOf[r] = 0
  BY <1>1 DEF Final
<1>12. Used = {} /\ \A r \in Requests : r # 0
  BY <1>11 DEF Used, Requests
<1>13. Typed
  <2>1. ask \in 1..MaxSearches /\ faults \in 0..MaxFaults /\ askOf \in [Requests -> 0..MaxSearches]
    BY <1>1, Sizes
  <2>2. TypeOK
    BY <1>1, <1>3, <1>6, <1>8, <1>9, <2>1 DEF TypeOK, RoundType, StartType, DecisionType, Commands
  <2>3. service \in [Requests -> [blocks : Seq(BlockValues), final : BOOLEAN, pool : Pools]]
    BY <1>1, <1>10, EmptyPool
  <2> QED BY <1>1, <1>10, <2>2, <2>3 DEF Typed
<1>14. CommandInv /\ CancelInv
  BY <1>9 DEF CommandInv, CancelInv, Reads
<1>15. KnownInv
  BY <1>1, <1>6, <1>8, <1>9, <1>11 DEF KnownInv
<1>16. AskInv
  BY <1>1, <1>11, <1>12 DEF AskInv
<1>17. PoolInv
  BY <1>5, <1>6, <1>9, <1>11, EmptyPool DEF PoolInv
<1>18. TakenInv
  BY <1>1, <1>6, <1>12 DEF TakenInv
<1>19. BlockInv
  BY <1>6, <1>10, <1>11, <1>12 DEF BlockInv
<1> QED BY <1>13, <1>14, <1>15, <1>16, <1>17, <1>18, <1>19 DEF DiscoveryInv

LEMMA NextInv == ASSUME DiscoveryInv, [Next]_vars PROVE DiscoveryInv'
<1>1. CASE UNCHANGED vars
  <2>1. Kept /\ cmd' = cmd
    BY <1>1 DEF vars, files, ledger, ghosts, Kept
  <2>2. cmd' \in Commands /\ cmd'.req \in Used \cup {0} /\ Distinct(cmd'.pool)
    BY <2>1 DEF DiscoveryInv, Typed, TypeOK, KnownInv, PoolInv, Commands
  <2>3. CommandInv'
    BY <2>1 DEF DiscoveryInv, CommandInv, Kept, Reads, MyTurn, Exhausted, Full, Unread, Whole, Final
  <2>4. CancelInv'
    BY <2>1 DEF DiscoveryInv, CancelInv, Kept, CancelPending
  <2> QED BY <2>1, <2>2, <2>3, <2>4, CommandOnly
<1>2. CASE Discover
  BY <1>2, ResumeDecisionStep, KeepRequestStep, NewRequestStep DEF Discover
<1>3. CASE Plan \/ Bulk
  BY <1>3, PlanStep, CollectPageStep, PageNotAdvancingStep, StopCollectingStep, CollectedStep, UploadStep,
     PrefixUploadedStep DEF Bulk
<1>4. CASE Native
  BY <1>4, ReplayPageStep, IssuePageStep, NoCandidatesStep, FreezePoolStep, AcceptCompletedStep,
     AcceptFrozenStep, AcceptPageStep, MarkProcessedStep, GateStep DEF Native
<1>5. CASE Deciding
  BY <1>5, SaveDecisionStep, ClearStartStep, UploadStep, DecideStep, SaveManifestStep, ClearDecisionStep,
     SetDiscoveredStep DEF Deciding
<1>6. CASE Host
  BY <1>6, SubmitPageStep, ContinuePageStep DEF Host
<1>7. CASE User
  BY <1>7, AcceptPartialStep, CancelPageStep, GateStep, ReloginStep, SearchAgainStep, EndPlatformStep,
     NewRoundStep DEF User
<1>8. CASE Die
  BY <1>8, DieStep
<1> QED BY <1>1, <1>2, <1>3, <1>4, <1>5, <1>6, <1>7, <1>8 DEF Next, Command

LEMMA Always == Spec => []DiscoveryInv
<1>1. Init => DiscoveryInv
  BY InitInv
<1>2. DiscoveryInv /\ [Next]_vars => DiscoveryInv'
  BY NextInv
<1> QED BY <1>1, <1>2, PTL DEF Spec

-----------------------------------------------------------------------------
(* What follows.                                                             *)

\* The files, the works and the service hold what they are meant to hold, and no
\* collection, decision or frozen pool outgrows the limit the user set.
THEOREM DiscoveryTyped == Spec => []TypeOK
<1>1. DiscoveryInv => TypeOK
  BY DEF DiscoveryInv, Typed
<1> QED BY <1>1, Always, PTL

\* A native search the user asked for once is charged once, however many commands
\* die and whichever file the next one continues from: the start keeps the request
\* until the round knows of its decision (native_discovery._resume_decision).
THEOREM NativeChargesOnce == Spec => []NativeBilledOnce
<1>1. DiscoveryInv => NativeBilledOnce
  BY DEF DiscoveryInv, AskInv, KnownInv, NativeBilledOnce, ChargedOnce
<1> QED BY <1>1, Always, PTL

\* What is charged was read page by page, each page once, holds no job twice, and
\* for the bulk executor is block for block what was uploaded, lost answers and
\* repeated commands included.
THEOREM ChargedIsCollected == Spec => []DecidedAsCollected
<1>1. ASSUME DiscoveryInv PROVE DecidedAsCollected
  <2>1. ASSUME NEW r \in charged \ partial
        PROVE  /\ \A p \in Pages : taken[r][p] <= 1
               /\ Distinct(service[r].pool)
               /\ exec = "bulk" =>
                     /\ Len(service[r].blocks) = AllBlocks(service[r].pool)
                     /\ \A k \in 1..AllBlocks(service[r].pool) :
                           service[r].blocks[k] = Block(service[r].pool, k)
    <3>1. r \in Requests /\ Final(r) /\ Whole(r)
      BY <1>1 DEF DiscoveryInv, KnownInv, Used, Whole
    <3>2. \A p \in Pages : taken[r][p] <= 1
      BY <1>1, <3>1 DEF DiscoveryInv, TakenInv
    <3>3. Distinct(service[r].pool)
      BY <1>1, <3>1 DEF DiscoveryInv, PoolInv
    <3> QED BY <1>1, <3>1, <3>2, <3>3 DEF DiscoveryInv, BlockInv
  <2> QED BY <2>1, Zenon DEF DecidedAsCollected, Distinct
<1> QED BY <1>1, Always, PTL

\* A request that was decided is never put to the service with another pool,
\* whatever commands died between freezing the pool and the answer.
THEOREM DecidedOnOnePool == Spec => []OnePoolPerRequest
<1>1. ASSUME DiscoveryInv PROVE OnePoolPerRequest
  <2> SUFFICES ASSUME cmd.at = "decide", cmd.req \notin partial, service[cmd.req].final
               PROVE  service[cmd.req].pool = cmd.pool
    BY DEF OnePoolPerRequest
  <2>1. cmd.req # 0 /\ cmd.req \in Requests /\ decision.req = cmd.req /\ decision.pool = cmd.pool
    BY <1>1 DEF DiscoveryInv, CommandInv, KnownInv, Used
  <2> QED BY <1>1, <2>1 DEF DiscoveryInv, PoolInv, Final, Whole
<1> QED BY <1>1, Always, PTL

\* After `work cancel` no page of the platform is issued by "discover" before the
\* user has logged in again, even if the command died before the round heard of it.
THEOREM CancelIsHonoured == Spec => CancelHonoured
<1>1. ASSUME DiscoveryInv, [Next]_vars
      PROVE  [cmd.page = NoPage /\ (\E p \in Pages : ~OpenRow(p) /\ rows'[p].state = "open")
                 => ~CancelPending]_vars
  <2> SUFFICES ASSUME Next, cmd.page = NoPage, NEW p \in Pages, ~OpenRow(p), rows'[p].state = "open"
               PROVE  ~CancelPending
    BY <1>1
  <2>1. ASSUME rows' = rows PROVE FALSE
    BY <2>1 DEF OpenRow
  <2>2. ASSUME rows' = NoRows PROVE FALSE
    BY <2>2 DEF NoRows, NoRow
  <2>3. CASE IssuePage
    BY <1>1, <2>3 DEF IssuePage, Advancing, DiscoveryInv, CancelInv
  <2>4. CASE SubmitPage \/ CancelPage
    <3>1. PICK q \in Pages : rows[q].state = "open"
             /\ \E row : rows' = [rows EXCEPT ![q] = row]
      BY <2>4 DEF SubmitPage, CancelPage, OpenRow
    <3>2. \A o \in Pages : o # q => rows'[o] = rows[o]
      BY <3>1
    <3> QED BY <3>1, <3>2 DEF OpenRow
  <2>5. CASE MarkProcessed
    <3>1. cmd.page = NoPage
      OBVIOUS
    <3> QED BY <2>1, <2>5, <3>1 DEF MarkProcessed
  <2>6. CASE NewRequest
    BY <2>2, <2>6 DEF NewRequest
  <2>7. rows' = rows \/ IssuePage \/ SubmitPage \/ CancelPage \/ MarkProcessed \/ NewRequest
    BY DEF Next, Discover, Command, Bulk, Native, Deciding, Host, User, files, ledger, ghosts,
       ResumeDecision, KeepRequest, Plan, CollectPage, PageNotAdvancing, StopCollecting, Collected,
       UploadPrefix, UploadRest, PutBlock, PrefixUploaded, ReplayPage, NoCandidates, FreezePool,
       AcceptCompleted, AcceptFrozen, AcceptPage, SaveGate, RecoverGate, RaiseGate, SaveDecision,
       ClearStart, Decide, SaveManifest, ClearDecision, SetDiscovered, ContinuePage, AcceptPartial,
       Relogin, SearchAgain, EndPlatform, NewRound, Die
  <2> QED BY <2>1, <2>3, <2>4, <2>5, <2>6, <2>7
<1> QED BY <1>1, Always, PTL DEF Spec, CancelHonoured
=====
