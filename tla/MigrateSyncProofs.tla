-------------------------- MODULE MigrateSyncProofs --------------------------
(***************************************************************************)
(* Proofs about MigrateSync, for any number of datasets, syncs, failures   *)
(* and snapshots of the owner's.  They are about machines whose datasets   *)
(* lie beside one another: with a delegate dataset a sync that breaks off  *)
(* may leave nothing to go on from (MCMigrateSyncNested.cfg).              *)
(***************************************************************************)
EXTENDS MigrateSync, FiniteSetTheorems, WellFoundedInduction, TLAPS

USE DEF machineVars

-----------------------------------------------------------------------------
(***************************************************************************)
(* The snapshots the sync goes by, without CHOOSE: Relevant() comes to     *)
(* these as long as an image's snapshot is the oldest one there is.        *)
(***************************************************************************)
Counts(s) == docker \/ Migration(s)
Rel(S) == {s \in S : Counts(s)}
Src(d) == Rel(src[d])
Tgt(d) == Rel(tgt[d])

IsNewest(n, S) == n \in S /\ \A r \in S : r # n => r.at < n.at
IsOldest(o, S) == o \in S /\ \A r \in S : r # o => o.at < r.at

-----------------------------------------------------------------------------
(***************************************************************************)
(* How far the sender has come.                                            *)
(***************************************************************************)
Collecting == {"list", "names", "token", "snapshot", "estimate"}
Syncing    == {"setup", "stream", "received"}
Pruning    == {"prune", "pruneTarget"}

Succeeded == stage \in {"shutdown", "done"} /\ ~ failed

\* What is to be sent of the dataset d is settled.
Settled(d) ==
  \/ stage \in Collecting /\ d < ds
  \/ stage = "estimate" /\ d = ds
  \/ stage \in Syncing \cup Pruning
  \/ Succeeded

Received(d) ==
  \/ stage \in Syncing /\ d < ds
  \/ stage = "received" /\ d = ds
  \/ stage \in Pruning
  \/ Succeeded

SourcePruned(d) ==
  \/ stage \in Pruning /\ d < ds
  \/ stage = "pruneTarget" /\ d = ds
  \/ Succeeded

-----------------------------------------------------------------------------
(***************************************************************************)
(* The inductive strengthening.                                            *)
(***************************************************************************)
Contexts == [names : SUBSET Snapshots, first : BOOLEAN, resume : BOOLEAN, wrong : BOOLEAN,
             prev : SUBSET Snapshots, snap : Int]

ZfsTypes ==
  /\ docker \in BOOLEAN /\ nested = FALSE /\ clock \in Nat /\ own \in Nat
  /\ src \in [1 .. NumDatasets -> SUBSET Snapshots]
  /\ tgt \in [1 .. NumDatasets -> SUBSET Snapshots]
  /\ token \in [1 .. NumDatasets -> SUBSET Snapshots]

SenderTypes ==
  /\ stage \in Stages /\ ds \in Datasets /\ ctx \in [1 .. NumDatasets -> Contexts]
  /\ aborted \in BOOLEAN /\ failed \in BOOLEAN

RunTypes ==
  /\ runs \in Nat /\ faults \in Nat /\ start \in 0 .. clock
  /\ disturbed \in BOOLEAN /\ lastOk \in BOOLEAN /\ strayed \in BOOLEAN
  /\ synced \subseteq Datasets
  /\ client \in {"none", "waiting", "ok", "error", "cut"}

Typed == ZfsTypes /\ SenderTypes /\ RunTypes

\* The moment a snapshot was taken tells it from all others of its dataset, on both
\* sides, and so does its name when the sync goes by it: the names grow.
Ordered ==
  \A d \in Datasets : \A r, s \in src[d] \cup tgt[d] :
    /\ r.at = s.at => r = s
    /\ Counts(r) /\ Counts(s) => (r.at < s.at <=> r.name < s.name)
    /\ docker => r = Image \/ Migration(r)

\* What a transfer that broke off left: a snapshot the target still lacks, which,
\* when the sync goes by it, is the newest; and the newest was not received.
Tokens ==
  \A d \in Datasets :
    /\ token[d] \subseteq src[d] \ tgt[d]
    /\ \A s, r \in token[d] : s = r
    /\ token[d] # {} => Src(d) # {} /\ \A n \in tgt[d] : ~ IsNewest(n, Src(d))
    /\ \A s \in token[d] : Counts(s) => IsNewest(s, Src(d))

\* From what the two sides have, the next sync can go on: the target has nothing
\* newer than the source, and of two or more on the source it has the newest or the
\* one before; and once it has received the dataset, it keeps one of them.
Bases ==
  /\ docker => ~ strayed
  /\ \A d \in Datasets :
    /\ \A t \in Tgt(d) : \E s \in Src(d) : t.at <= s.at
    /\ \A n, p \in Src(d) : IsNewest(n, Src(d)) /\ IsNewest(p, Src(d) \ {n}) =>
         n \in tgt[d] \/ p \in tgt[d]
    /\ (d \in synced /\ ~ strayed) \/ (docker /\ tgt[d] # {}) => Src(d) \cap tgt[d] # {}

\* The subject n of the sync of d, and what it goes on from.
About(d, n) ==
  LET c == ctx[d] IN
  /\ IsNewest(n, c.names) /\ n.name = c.snap
  /\ \/ c.first /\ c.prev = {} /\ c.names = {n}
     \/ ~ c.first /\ \E p \in c.names \ {n} : 
            c.prev = {p} /\ IsNewest(p, c.names \ {n}) /\ p.name # n.name

\* The subject is there already, or (a sync that begins) still to be taken: it is
\* the first one ever, or the target has all there is.
Again(d) ==
  /\ \E n \in Src(d) : About(d, n) /\ n \notin tgt[d]
  /\ ctx[d].prev \subseteq tgt[d]
  /\ docker /\ ctx[d].first => ~ ctx[d].resume

Due(d) ==
  /\ token[d] = {}
  /\ \/ /\ Src(d) = {} /\ ctx[d].snap = 1
        /\ ctx[d].first /\ ctx[d].prev = {} /\ ~ ctx[d].resume
     \/ \E n \in tgt[d] :
          /\ IsNewest(n, Src(d)) /\ ctx[d].prev = {n} /\ ~ ctx[d].first
          /\ ctx[d].snap > n.name /\ ctx[d].snap > 0

\* What is settled of the dataset d, and stays so till the sync is over.
Settlement(d) ==
  /\ Src(d) \subseteq ctx[d].names
  /\ \E n \in Src(d) :
       /\ About(d, n)
       /\ Received(d) => token[d] = {} /\ (n \in tgt[d] \/ (strayed /\ ~ docker))
       /\ SourcePruned(d) => \A s \in src[d] : Migration(s) => s = n
  /\ ~ Received(d) =>
       /\ Again(d) /\ ctx[d].names = Src(d)
       /\ ctx[d].resume => token[d] # {}

\* What is known of the dataset the sender is at, and of those it has been at.
Contextual ==
  \A d \in Datasets :
    /\ d = ds /\ stage \in {"names", "token", "snapshot"} => ctx[d].names = Src(d)
    /\ d = ds /\ stage \in {"token", "snapshot"} => Again(d) \/ Due(d)
    /\ d = ds /\ stage = "snapshot" /\ ctx[d].resume => token[d] # {}
    /\ Settled(d) => Settlement(d)

\* A sync after one that ended well takes snapshots of its own.
FreshDue == lastOk /\ ~ strayed /\ (docker => runs > 1)

UpToDate(d) == Src(d) = {} \/ \E n \in tgt[d] : IsNewest(n, Src(d))
TakesFresh(d) ==
  \E n \in ctx[d].names : IsNewest(n, ctx[d].names) /\ Migration(n) /\ n.at > start

Fresh ==
  FreshDue => \A d \in Datasets :
    /\ stage \in {"listening"} \cup Collecting /\ ~ Settled(d) => UpToDate(d)
    /\ Settled(d) => TakesFresh(d)

Replicated(d) ==
  \E n \in Src(d) :
    /\ IsNewest(n, Src(d))
    /\ n \in tgt[d] \/ strayed
    /\ FreshDue => Migration(n) /\ n.at > start
    /\ \A s \in src[d] : Migration(s) => s = n

\* What is left when the client was told of success, also when the sender is gone.
Answers ==
  /\ stage = "done" => ~ failed
  /\ stage \in {"down", "listening"} => ~ aborted /\ ~ failed /\ ds = 1
  /\ failed => stage = "shutdown" /\ disturbed
  /\ aborted => disturbed
  /\ client = "none" => stage \in {"down", "listening"}
  /\ stage = "listening" => client = "none"
  /\ stage = "down" /\ client = "none" =>
       runs = 0 /\ (~docker => \A d \in Datasets : Src(d) = {})
  /\ client = "ok" =>
       /\ stage \in {"down", "done"}
       /\ \A d \in Datasets : Replicated(d)

OnDisk == Ordered /\ Tokens /\ Bases

IInv == Typed /\ OnDisk /\ Contextual /\ Fresh /\ Answers
-----------------------------------------------------------------------------
(***************************************************************************)
(* Sets of snapshots: the newest and the oldest one, and how many there    *)
(* are.  SnapshotsTo(c) are those taken until the clock showed c.          *)
(***************************************************************************)
SnapshotsTo(c) == [name : Int, at : 0 .. c]
Unique(S) == \A r, s \in S : r.at = s.at => r = s

LEMMA HasLeast ==
  ASSUME NEW T, T \subseteq Nat, T # {}
  PROVE  \E x \in T : \A y \in T : x <= y
<1>1. IsWellFoundedOn(OpToRel(<, Nat), Nat)
  BY NatLessThanWellFounded
<1>2. PICK x \in T : \A y \in T : ~(<<y, x>> \in OpToRel(<, Nat))
  BY <1>1, WFMin
<1>3. \A y \in T : ~(y < x)
  BY <1>2 DEF OpToRel
<1> QED BY <1>3

\* Snapshots of which no two were taken at one moment have a newest one.
LEMMA HasNewest ==
  ASSUME NEW c \in Nat, NEW S, S \subseteq SnapshotsTo(c), S # {}, Unique(S)
  PROVE  \E n \in S : IsNewest(n, S)
<1> DEFINE T == {c - s.at : s \in S}
<1>0. \A s \in S : s.at \in 0 .. c
  BY DEF SnapshotsTo
<1>1. T \subseteq Nat /\ T # {}
  BY <1>0
<1>2. PICK x \in T : \A y \in T : x <= y
  <2> HIDE DEF T
  <2> QED BY <1>1, HasLeast
<1>3. PICK n \in S : x = c - n.at
  OBVIOUS
<1>4. \A s \in S : c - n.at <= c - s.at
  BY <1>2, <1>3
<1>5. \A s \in S : s.at <= n.at
  BY <1>4, <1>0
<1> QED BY <1>5, <1>0 DEF IsNewest, Unique

LEMMA HasOldest ==
  ASSUME NEW c \in Nat, NEW S, S \subseteq SnapshotsTo(c), S # {}, Unique(S)
  PROVE  \E o \in S : IsOldest(o, S)
<1> DEFINE T == {s.at : s \in S}
<1>0. \A s \in S : s.at \in 0 .. c
  BY DEF SnapshotsTo
<1>1. T \subseteq Nat /\ T # {}
  BY <1>0
<1>2. PICK x \in T : \A y \in T : x <= y
  <2> HIDE DEF T
  <2> QED BY <1>1, HasLeast
<1>3. PICK o \in S : x = o.at
  OBVIOUS
<1>5. \A s \in S : o.at <= s.at
  BY <1>2, <1>3
<1> QED BY <1>5, <1>0 DEF IsOldest, Unique

LEMMA NewestIs ==
  ASSUME NEW c \in Nat, NEW S, S \subseteq SnapshotsTo(c), NEW n, IsNewest(n, S)
  PROVE  Newest(S) = n
<1>0. \A s \in S : s.at \in 0 .. c
  BY DEF SnapshotsTo
<1>1. n \in S /\ \A r \in S : r.at <= n.at
  BY <1>0 DEF IsNewest
<1>2. ASSUME NEW m \in S, \A r \in S : r.at <= m.at PROVE m = n
  BY <1>0, <1>1, <1>2 DEF IsNewest
<1>3. Newest(S) \in S /\ \A r \in S : r.at <= Newest(S).at
  BY <1>1 DEF Newest
<1> QED BY <1>2, <1>3

LEMMA OldestIs ==
  ASSUME NEW c \in Nat, NEW S, S \subseteq SnapshotsTo(c), NEW o, IsOldest(o, S)
  PROVE  Oldest(S) = o
<1>0. \A s \in S : s.at \in 0 .. c
  BY DEF SnapshotsTo
<1>1. o \in S /\ \A r \in S : o.at <= r.at
  BY <1>0 DEF IsOldest
<1>2. ASSUME NEW m \in S, \A r \in S : m.at <= r.at PROVE m = o
  BY <1>0, <1>1, <1>2 DEF IsOldest
<1>3. Oldest(S) \in S /\ \A r \in S : Oldest(S).at <= r.at
  BY <1>1 DEF Oldest
<1> QED BY <1>2, <1>3

LEMMA FinitelyMany ==
  ASSUME NEW c \in Nat, NEW S, S \subseteq SnapshotsTo(c), Unique(S)
  PROVE  IsFiniteSet(S)
<1> DEFINE f == [s \in S |-> s.at]
<1>0. \A s \in S : s.at \in 0 .. c
  BY DEF SnapshotsTo
<1>1. f \in Injection(S, 0 .. c)
  BY <1>0 DEF Injection, IsInjective, Unique
<1>2. IsFiniteSet(0 .. c)
  BY FS_Interval
<1> QED BY <1>1, <1>2, FS_Injection

\* Whether there is another one than the newest.
LEMMA OneOrMore ==
  ASSUME NEW c \in Nat, NEW S, S \subseteq SnapshotsTo(c), Unique(S), NEW n \in S
  PROVE  /\ Cardinality(S) \in Nat
         /\ Cardinality(S) = 1 <=> S = {n}
         /\ Cardinality(S) > 1 <=> S \ {n} # {}
<1>1. IsFiniteSet(S)
  BY FinitelyMany
<1>2. Cardinality(S) \in Nat /\ Cardinality(S) # 0
  BY <1>1, FS_CardinalityType, FS_EmptySet
<1>3. Cardinality(S) = 1 <=> S = {n}
  BY <1>1, FS_Singleton
<1> QED BY <1>2, <1>3

LEMMA AtMostOne ==
  ASSUME NEW S, \A x, y \in S : x = y
  PROVE  Cardinality(S) <= 1
<1>1. CASE S = {}
  BY <1>1, FS_EmptySet
<1>2. CASE S # {}
  <2>1. PICK x \in S : TRUE
    BY <1>2
  <2>2. S = {x}
    BY <2>1
  <2> QED BY <2>2, FS_Singleton
<1> QED BY <1>1, <1>2

-----------------------------------------------------------------------------
(***************************************************************************)
(* What the invariant says about the snapshots of one dataset.             *)
(***************************************************************************)
LEMMA DatasetsAre ==
  ASSUME docker \in BOOLEAN
  PROVE  /\ Datasets \subseteq 1 .. NumDatasets /\ 1 \in Datasets
         /\ \A d \in Datasets : d \in Int /\ d >= 1
         /\ \A d \in Datasets, e \in 1 .. NumDatasets : e <= d => e \in Datasets
BY MigrateSyncAssumption DEF Datasets

\* What recursive commands come to when no dataset lies within another.
LEMMA PlainWithin ==
  ASSUME nested = FALSE
  PROVE  (\A d : Within(d) = {d}) /\ Carried = {ds} /\ Share(ds) = Stream(ds)
BY DEF Within, Carried, Share

LEMMA PlainReceives ==
  ASSUME nested = FALSE, Receives, NEW d, d = ds,
         tgt \in [1 .. NumDatasets -> SUBSET Snapshots],
         token \in [1 .. NumDatasets -> SUBSET Snapshots]
  PROVE  /\ \E dropped \in SUBSET (tgt[d] \ src[d]) :
              /\ tgt' = [tgt EXCEPT ![d] = (@ \ dropped) \cup Stream(d)]
              /\ ctx[d].resume => dropped = {}
         /\ token' = [token EXCEPT ![d] = {}]
<1>1. Carried = {d} /\ Share(d) = Stream(d)
  BY PlainWithin
<1>2. PICK drop \in BOOLEAN :
        /\ ctx[d].resume => drop = FALSE
        /\ tgt' = [e \in DOMAIN tgt |->
             IF e \in Carried THEN (IF drop THEN tgt[e] \cap src[e] ELSE tgt[e]) \cup Share(e)
             ELSE tgt[e]]
  BY DEF Receives, MayDrop
<1>3. PICK dropped : dropped = IF drop THEN tgt[d] \ src[d] ELSE {}
  OBVIOUS
<1>4. tgt' = [tgt EXCEPT ![d] = (@ \ dropped) \cup Stream(d)]
  BY <1>1, <1>2, <1>3
<1>5. token' = [token EXCEPT ![d] = {}]
  BY <1>1 DEF Receives
<1> QED BY <1>2, <1>3, <1>4, <1>5

\* What a broken stream of dataset d alone leaves: part of it, and what is missing is
\* younger than what came.
PartCame(d, part) ==
  /\ Stream(d) \ (tgt[d] \cup part) # {}
  /\ \A s \in part, r \in Stream(d) \ (tgt[d] \cup part) : s.at < r.at
  /\ tgt' = [tgt EXCEPT ![d] = @ \cup part]
  /\ \/ token' = [token EXCEPT ![d] = {Oldest(Stream(d) \ (tgt[d] \cup part))}]
     \/ part # {} /\ token' = [token EXCEPT ![d] = {}]
     \/ part = {} /\ UNCHANGED token
  /\ UNCHANGED <<synced, strayed>>

LEMMA PlainReceivesPart ==
  ASSUME nested = FALSE, ReceivesPart, NEW d, d = ds,
         tgt \in [1 .. NumDatasets -> SUBSET Snapshots]
  PROVE  \E part \in SUBSET (Stream(d) \ tgt[d]) : PartCame(d, part)
<1>1. Carried = {d} /\ Share(d) = Stream(d)
  BY PlainWithin
<1> DEFINE Rest(part) == Stream(d) \ (tgt[d] \cup part)
<1> DEFINE Part(c, part) ==
             LET rest == Share(c) \ (tgt[c] \cup part) IN
             /\ rest # {}
             /\ \A s \in part, r \in rest : s.at < r.at
             /\ tgt' = [e \in DOMAIN tgt |->
                  CASE e = c                   -> tgt[e] \cup part
                    [] e \in Carried /\ e < c  -> tgt[e] \cup Share(e)
                    [] OTHER                   -> tgt[e]]
             /\ \/ token' = [token EXCEPT ![c] = {Oldest(rest)}]
                \/ part # {} /\ token' = [token EXCEPT ![c] = {}]
                \/ part = {} /\ UNCHANGED token
             /\ UNCHANGED <<synced, strayed>>
<1>2. \E c \in Carried : \E part \in SUBSET (Share(c) \ tgt[c]) : Part(c, part)
  BY Zenon DEF ReceivesPart
<1>3. PICK part \in SUBSET (Share(d) \ tgt[d]) : Part(d, part)
  <2> HIDE DEF Part
  <2> QED BY <1>1, <1>2
<1>4. /\ Rest(part) # {}
      /\ \A s \in part, r \in Rest(part) : s.at < r.at
      /\ \/ token' = [token EXCEPT ![d] = {Oldest(Rest(part))}]
         \/ part # {} /\ token' = [token EXCEPT ![d] = {}]
         \/ part = {} /\ UNCHANGED token
      /\ UNCHANGED <<synced, strayed>>
  BY <1>1, <1>3
<1>5. tgt' = [tgt EXCEPT ![d] = @ \cup part]
  <2>1. tgt' = [e \in DOMAIN tgt |->
          CASE e = d                   -> tgt[e] \cup part
            [] e \in Carried /\ e < d  -> tgt[e] \cup Share(e)
            [] OTHER                   -> tgt[e]]
    BY <1>3
  <2>2. \A e \in 1 .. NumDatasets : e # d => e \notin Carried
    BY <1>1
  <2>3. \A e \in 1 .. NumDatasets : tgt'[e] = IF e = d THEN tgt[e] \cup part ELSE tgt[e]
    BY <2>1, <2>2
  <2>4. tgt' = [e \in 1 .. NumDatasets |-> tgt'[e]]
    BY <2>1
  <2> QED BY <2>3, <2>4
<1>6. part \in SUBSET (Stream(d) \ tgt[d])
  BY <1>1, <1>3
<1> QED BY <1>4, <1>5, <1>6 DEF PartCame

LEMMA SnapshotTypes ==
  ASSUME Typed
  PROVE  /\ Snapshots = SnapshotsTo(clock) /\ clock \in Nat
         /\ \A d \in Datasets :
              /\ src[d] \subseteq SnapshotsTo(clock)
              /\ tgt[d] \subseteq SnapshotsTo(clock)
              /\ token[d] \subseteq SnapshotsTo(clock)
              /\ ctx[d] \in Contexts
              /\ ctx[d].names \subseteq SnapshotsTo(clock)
              /\ ctx[d].prev \subseteq SnapshotsTo(clock)
              /\ ctx[d].first \in BOOLEAN /\ ctx[d].resume \in BOOLEAN
              /\ ctx[d].wrong \in BOOLEAN /\ ctx[d].snap \in Int
<1>1. docker \in BOOLEAN /\ clock \in Nat
  BY DEF Typed, ZfsTypes
<1>2. Datasets \subseteq 1 .. NumDatasets
  BY <1>1, DatasetsAre
<1>3. Snapshots = SnapshotsTo(clock)
  BY DEF Snapshots, SnapshotsTo
<1>4. ASSUME NEW d \in Datasets
      PROVE  /\ src[d] \subseteq Snapshots /\ tgt[d] \subseteq Snapshots
             /\ token[d] \subseteq Snapshots /\ ctx[d] \in Contexts
  BY <1>2 DEF Typed, ZfsTypes, SenderTypes
<1>5. ASSUME NEW d \in Datasets
      PROVE  /\ ctx[d].names \subseteq Snapshots /\ ctx[d].prev \subseteq Snapshots
             /\ ctx[d].first \in BOOLEAN /\ ctx[d].resume \in BOOLEAN
             /\ ctx[d].wrong \in BOOLEAN /\ ctx[d].snap \in Int
  BY <1>4 DEF Contexts
<1> QED BY <1>1, <1>3, <1>4, <1>5

LEMMA SnapshotFields ==
  ASSUME NEW c, NEW s \in SnapshotsTo(c)
  PROVE  s.name \in Int /\ s.at \in 0 .. c
BY DEF SnapshotsTo

\* What the sync goes by is what Relevant() finds.
LEMMA RelevantIs ==
  ASSUME Typed, Ordered, NEW d \in Datasets, NEW S, S \subseteq src[d] \cup tgt[d]
  PROVE  Relevant(S) = Rel(S)
<1>1. /\ S \subseteq SnapshotsTo(clock) /\ clock \in Nat /\ docker \in BOOLEAN
  BY SnapshotTypes DEF Typed, ZfsTypes
<1>2. ASSUME NEW s \in S, docker, ~ Migration(s) PROVE s = Oldest(S)
  <2>1. s = Image /\ s.at = 0
    BY <1>2 DEF Ordered, Image
  <2>2. \A r \in S : r # s => s.at < r.at
    BY <1>1, <2>1, SnapshotFields DEF Ordered
  <2>3. IsOldest(s, S)
    BY <2>2 DEF IsOldest
  <2> QED BY <1>1, <2>3, OldestIs
<1> QED BY <1>1, <1>2 DEF Relevant, Rel, Counts

LEMMA SomeNewest ==
  ASSUME Typed, Ordered, NEW d \in Datasets, NEW S, S \subseteq src[d] \cup tgt[d], S # {}
  PROVE  \E n \in S : IsNewest(n, S)
<1>1. S \subseteq SnapshotsTo(clock) /\ clock \in Nat
  BY SnapshotTypes
<1>2. Unique(S)
  BY DEF Ordered, Unique
<1>3. \E n \in S : IsNewest(n, S)
  BY <1>1, <1>2, HasNewest
<1> QED BY <1>3

LEMMA SomeOldest ==
  ASSUME Typed, Ordered, NEW d \in Datasets, NEW S, S \subseteq src[d] \cup tgt[d], S # {}
  PROVE  \E o \in S : IsOldest(o, S)
<1>1. S \subseteq SnapshotsTo(clock) /\ clock \in Nat
  BY SnapshotTypes
<1>2. Unique(S)
  BY DEF Ordered, Unique
<1>3. \E o \in S : IsOldest(o, S)
  BY <1>1, <1>2, HasOldest
<1> QED BY <1>3

-----------------------------------------------------------------------------
(***************************************************************************)
(* What most steps have in common.                                         *)
(***************************************************************************)
\* A step that leaves the snapshots alone.
LEMMA DiskKept ==
  ASSUME OnDisk, UNCHANGED <<docker, nested, src, tgt, token, synced, strayed>>
  PROVE  OnDisk'
<1>1. Datasets' = Datasets /\ \A d : Src(d)' = Src(d) /\ Tgt(d)' = Tgt(d)
  BY DEF Datasets, Src, Tgt, Rel, Counts, Migration
<1>2. Ordered'
  BY <1>1 DEF OnDisk, Ordered, Counts, Migration
<1>3. Tokens'
  BY <1>1 DEF OnDisk, Tokens, Counts, Migration
<1>4. Bases'
  BY <1>1 DEF OnDisk, Bases
<1> QED BY <1>2, <1>3, <1>4 DEF OnDisk

\* A step that leaves what the sender found out alone, and the snapshots it knows.
LEMMA ZfsTypesKept ==
  ASSUME ZfsTypes, UNCHANGED <<docker, nested, clock, own, src, tgt, token>>
  PROVE  ZfsTypes' /\ Datasets' = Datasets /\ Contexts' = Contexts /\ Snapshots' = Snapshots
BY DEF ZfsTypes, Datasets, Contexts, Snapshots

\* A sync that has failed, or is over and forgotten, has nothing to go on with.
LEMMA NothingSettled ==
  ASSUME stage \in {"down", "listening"} \/ (stage = "shutdown" /\ failed)
  PROVE  \A d : ~ Settled(d)
BY DEF Settled, Collecting, Syncing, Pruning, Succeeded

LEMMA FailedFine ==
  ASSUME stage' = "shutdown", failed' = TRUE
  PROVE  Contextual' /\ Fresh'
<1>1. \A d : ~ Settled(d)'
  BY DEF Settled, Collecting, Syncing, Pruning, Succeeded
<1>2. stage' \notin {"listening"} \cup Collecting
  BY DEF Collecting
<1> QED BY <1>1, <1>2 DEF Contextual, Fresh, Collecting

LEMMA DownFine ==
  ASSUME stage' = "down"
  PROVE  Contextual' /\ Fresh'
<1>1. \A d : ~ Settled(d)'
  BY DEF Settled, Collecting, Syncing, Pruning, Succeeded
<1>2. stage' \notin {"listening"} \cup Collecting
  BY DEF Collecting
<1> QED BY <1>1, <1>2 DEF Contextual, Fresh, Collecting

\* The subject of a dataset depends on what the sender found out, and that alone.
LEMMA AboutKept ==
  ASSUME NEW d, NEW n, ctx'[d] = ctx[d]
  PROVE  About(d, n)' = About(d, n)
BY Zenon DEF About, IsNewest

\* What is settled of a dataset stays so while nothing about it changes.
LEMMA SettlementKept ==
  ASSUME NEW d \in Datasets, Settlement(d), UNCHANGED <<docker, nested, strayed>>,
         src'[d] = src[d], tgt'[d] = tgt[d], token'[d] = token[d], ctx'[d] = ctx[d],
         Received(d)' <=> Received(d), SourcePruned(d)' <=> SourcePruned(d)
  PROVE  Settlement(d)'
<1>1. Src(d)' = Src(d)
  BY DEF Src, Rel, Counts, Migration
<1>2. \A n : About(d, n)' = About(d, n)
  BY AboutKept
<1>3. Again(d)' = Again(d)
  BY Zenon, <1>1, <1>2 DEF Again
<1> QED BY <1>1, <1>2, <1>3 DEF Settlement, Migration

LEMMA UpToDateKept ==
  ASSUME NEW d \in Datasets, UpToDate(d), UNCHANGED <<docker, nested>>, src'[d] = src[d], tgt'[d] = tgt[d]
  PROVE  UpToDate(d)'
<1>1. Src(d)' = Src(d)
  BY DEF Src, Rel, Counts, Migration
<1> QED BY <1>1 DEF UpToDate, IsNewest

LEMMA TakesFreshKept ==
  ASSUME NEW d \in Datasets, TakesFresh(d), ctx'[d] = ctx[d], start' = start
  PROVE  TakesFresh(d)'
BY DEF TakesFresh, IsNewest, Migration

LEMMA ReplicatedKept ==
  ASSUME NEW d \in Datasets, Replicated(d), UNCHANGED <<docker, nested, strayed, lastOk, runs, start>>,
         src'[d] = src[d], tgt'[d] = tgt[d]
  PROVE  Replicated(d)'
<1>1. Src(d)' = Src(d)
  BY DEF Src, Rel, Counts, Migration
<1>2. FreshDue' = FreshDue
  BY DEF FreshDue
<1>3. \A n : IsNewest(n, Src(d))' = IsNewest(n, Src(d)) /\ Migration(n)' = Migration(n)
  BY <1>1 DEF IsNewest, Migration
<1> QED BY Zenon, <1>1, <1>2, <1>3 DEF Replicated

\* A step that leaves the sender where it is, and the snapshots.
LEMMA PlaceKept ==
  ASSUME Contextual, UNCHANGED <<docker, nested, src, tgt, token, strayed, stage, ds, ctx, failed>>
  PROVE  Contextual'
<1>1. Datasets' = Datasets /\ \A d : Src(d)' = Src(d)
  BY DEF Datasets, Src, Rel, Counts, Migration
<1>2. \A d : /\ Settled(d)' <=> Settled(d)
             /\ Received(d)' <=> Received(d)
             /\ SourcePruned(d)' <=> SourcePruned(d)
  BY DEF Settled, Received, SourcePruned, Succeeded, Collecting, Syncing, Pruning
<1>3. \A d \in Datasets : Settlement(d) => Settlement(d)'
  BY <1>2, SettlementKept
<1>4. \A d, n : About(d, n)' = About(d, n)
  BY AboutKept
<1>5. \A d : Again(d)' = Again(d)
  BY Zenon, <1>1, <1>4 DEF Again
<1>6. \A d : Due(d)' = Due(d)
  BY Zenon, <1>1 DEF Due, IsNewest
<1> QED BY <1>1, <1>2, <1>3, <1>5, <1>6 DEF Contextual

LEMMA FreshKept ==
  ASSUME Fresh, UNCHANGED <<docker, nested, src, tgt, strayed, stage, ds, ctx, failed, lastOk, runs, start>>
  PROVE  Fresh'
<1>1. Datasets' = Datasets /\ FreshDue' = FreshDue
  BY DEF Datasets, FreshDue
<1>2. \A d : Settled(d)' <=> Settled(d)
  BY DEF Settled, Succeeded, Collecting, Syncing, Pruning
<1>3. \A d \in Datasets : UpToDate(d) => UpToDate(d)'
  BY UpToDateKept
<1>4. \A d \in Datasets : TakesFresh(d) => TakesFresh(d)'
  BY TakesFreshKept
<1> QED BY <1>1, <1>2, <1>3, <1>4 DEF Fresh, Collecting

-----------------------------------------------------------------------------
(***************************************************************************)
(* The commands, and the end of the sender.                                *)
(***************************************************************************)
LEMMA ForgottenTypes ==
  ASSUME SenderTypes, Forgotten, UNCHANGED <<docker, nested, clock>>
  PROVE  SenderTypes'
<1>1. NothingKnown \in Contexts
  BY DEF NothingKnown, Contexts
<1>2. Contexts' = Contexts /\ Datasets' = Datasets
  BY DEF Contexts, Snapshots, Datasets
<1>3. ctx' \in [1 .. NumDatasets -> Contexts]
  BY <1>1 DEF SenderTypes, Forgotten
<1>4. 1 \in Datasets
  BY MigrateSyncAssumption DEF Datasets
<1> QED BY <1>2, <1>3, <1>4 DEF SenderTypes, Forgotten, Stages

LEMMA ListenStep ==
  ASSUME IInv, Listen
  PROVE  IInv'
<1>1. /\ stage = "down" /\ runs' = runs + 1 /\ stage' = "listening" /\ client' = "none"
      /\ disturbed' = FALSE
      /\ UNCHANGED <<docker, nested, clock, own, src, tgt, token, ds, ctx, aborted, failed, faults,
                     start, synced, strayed>>
  BY DEF Listen, zfsVars
<1>0. lastOk' <=> client \in {"none", "ok"}
  BY DEF Listen
<1>2. Typed'
  <2>1. lastOk' \in BOOLEAN
    BY DEF Listen
  <2>2. ZfsTypes' /\ Datasets' = Datasets /\ Contexts' = Contexts
    BY <1>1, ZfsTypesKept DEF IInv, Typed
  <2>3. SenderTypes'
    BY <1>1, <2>2 DEF IInv, Typed, SenderTypes, Stages
  <2>4. RunTypes'
    <3>0. runs \in Nat /\ start \in 0 .. clock
      BY DEF IInv, Typed, RunTypes
    <3>1. runs' \in Nat /\ start' \in 0 .. clock'
      BY <1>1, <3>0
    <3>3. disturbed' \in BOOLEAN /\ client' \in {"none", "waiting", "ok", "error", "cut"}
      BY <1>1
    <3>2. faults' \in Nat /\ strayed' \in BOOLEAN /\ synced' \subseteq Datasets'
      BY <1>1, <2>2 DEF IInv, Typed, RunTypes
    <3> QED BY <2>1, <3>1, <3>2, <3>3 DEF RunTypes
  <2> QED BY <2>2, <2>3, <2>4 DEF Typed
<1>3. OnDisk'
  BY <1>1, DiskKept DEF IInv
<1>4. \A d : ~ Settled(d)'
  BY <1>1 DEF Settled, Collecting, Syncing, Pruning, Succeeded
<1>5. Contextual'
  BY <1>1, <1>4 DEF Contextual
<1>6. Datasets' = Datasets /\ docker \in BOOLEAN
  BY <1>1 DEF IInv, Typed, ZfsTypes, Datasets
<1>7. ASSUME NEW d \in Datasets, FreshDue' PROVE UpToDate(d)
  <2>1. lastOk' /\ ~ strayed /\ (docker => runs' > 1)
    BY <1>1, <1>7 DEF FreshDue
  <2>2. CASE client = "ok"
    <3>1. PICK n \in Src(d) : IsNewest(n, Src(d)) /\ (n \in tgt[d] \/ strayed)
      BY <2>2 DEF IInv, Answers, Replicated
    <3> QED BY <2>1, <3>1 DEF UpToDate
  <2>3. CASE client = "none"
    <3>1. runs = 0 /\ (~docker => Src(d) = {})
      BY <1>1, <2>3 DEF IInv, Answers
    <3>2. ~ docker
      BY <1>1, <2>1, <3>1
    <3> QED BY <3>1, <3>2 DEF UpToDate
  <2> QED BY <1>0, <2>1, <2>2, <2>3
<1>8. Fresh'
  <2>1. \A d \in Datasets : FreshDue' => UpToDate(d)'
    BY <1>1, <1>7, UpToDateKept
  <2> QED BY <1>4, <1>6, <2>1 DEF Fresh
<1>9. Answers'
  BY <1>1 DEF IInv, Answers
<1> QED BY <1>2, <1>3, <1>5, <1>8, <1>9 DEF IInv

LEMMA CommandSyncStep ==
  ASSUME IInv, CommandSync
  PROVE  IInv'
<1>1. /\ stage = "listening" /\ stage' = "list" /\ client' = "waiting" /\ start' = clock
      /\ UNCHANGED <<docker, nested, clock, own, src, tgt, token, ds, ctx, aborted, failed, runs, faults,
                     disturbed, lastOk, synced, strayed>>
  BY DEF CommandSync, zfsVars, boundVars
<1>2. Typed'
  <2>1. ZfsTypes' /\ Datasets' = Datasets /\ Contexts' = Contexts
    BY <1>1, ZfsTypesKept DEF IInv, Typed
  <2>2. clock \in Nat
    BY DEF IInv, Typed, ZfsTypes
  <2> QED BY <1>1, <2>1, <2>2 DEF IInv, Typed, SenderTypes, RunTypes, Stages
<1>3. OnDisk'
  BY <1>1, DiskKept DEF IInv
<1>4. docker \in BOOLEAN /\ ds = 1 /\ Datasets' = Datasets
  BY <1>1 DEF IInv, Answers, Typed, ZfsTypes, Datasets
<1>5. \A d \in Datasets : ~ Settled(d) /\ ~ Settled(d)'
  BY <1>1, <1>4, DatasetsAre DEF Settled, Collecting, Syncing, Pruning, Succeeded
<1>6. Contextual'
  BY <1>1, <1>4, <1>5 DEF Contextual
<1>7. FreshDue' = FreshDue
  BY <1>1 DEF FreshDue
<1>8. \A d \in Datasets : FreshDue => UpToDate(d)'
  BY <1>1, <1>5, UpToDateKept DEF IInv, Fresh
<1>9. Fresh'
  BY <1>4, <1>5, <1>7, <1>8 DEF Fresh
<1>10. Answers'
  BY <1>1 DEF IInv, Answers
<1> QED BY <1>2, <1>3, <1>6, <1>9, <1>10 DEF IInv

LEMMA CommandSyncAgainStep ==
  ASSUME IInv, CommandSyncAgain
  PROVE  IInv'
<1>1. /\ stage \notin {"down", "listening", "done"} /\ client = "waiting" /\ client' = "cut"
      /\ faults' = faults + 1 /\ disturbed' = TRUE
      /\ UNCHANGED <<docker, nested, clock, own, src, tgt, token, stage, ds, ctx, aborted, failed, runs,
                     lastOk, start, synced, strayed>>
  BY DEF CommandSyncAgain, Fault, zfsVars, senderVars
<1>2. Typed'
  BY <1>1, ZfsTypesKept DEF IInv, Typed, SenderTypes, RunTypes
<1>3. OnDisk' /\ Contextual' /\ Fresh'
  BY <1>1, DiskKept, PlaceKept, FreshKept DEF IInv
<1>4. Answers'
  BY <1>1 DEF IInv, Answers
<1> QED BY <1>2, <1>3, <1>4 DEF IInv

LEMMA CommandStopStep ==
  ASSUME IInv, CommandStop
  PROVE  IInv'
<1>1. /\ stage \notin {"down", "listening", "done"} /\ aborted' = TRUE
      /\ client' = IF client = "waiting" THEN "cut" ELSE client
      /\ faults' = faults + 1 /\ disturbed' = TRUE
      /\ UNCHANGED <<docker, nested, clock, own, src, tgt, token, stage, ds, ctx, failed, runs,
                     lastOk, start, synced, strayed>>
  BY DEF CommandStop, Fault, zfsVars
<1>2. Typed'
  BY <1>1, ZfsTypesKept DEF IInv, Typed, SenderTypes, RunTypes
<1>3. OnDisk' /\ Contextual' /\ Fresh'
  BY <1>1, DiskKept, PlaceKept, FreshKept DEF IInv
<1>4. Answers'
  BY <1>1 DEF IInv, Answers
<1> QED BY <1>2, <1>3, <1>4 DEF IInv

LEMMA EndStep ==
  ASSUME IInv, End
  PROVE  IInv'
<1>1. /\ stage = "done" /\ stage' = "down" /\ ds' = 1 /\ aborted' = FALSE /\ failed' = FALSE
      /\ UNCHANGED <<docker, nested, clock, own, src, tgt, token, client, runs, faults, disturbed,
                     lastOk, start, synced, strayed>>
  BY DEF End, Forgotten, zfsVars, boundVars, historyVars
<1>2. Typed'
  BY <1>1, ZfsTypesKept, ForgottenTypes DEF IInv, Typed, RunTypes, End
<1>3. OnDisk' /\ Contextual' /\ Fresh'
  BY <1>1, DiskKept, DownFine DEF IInv
<1>4. Datasets' = Datasets /\ \A d \in Datasets : Replicated(d) => Replicated(d)'
  BY <1>1, ReplicatedKept DEF Datasets
<1>5. Answers'
  BY <1>1, <1>4 DEF IInv, Answers
<1> QED BY <1>2, <1>3, <1>5 DEF IInv

-----------------------------------------------------------------------------
(***************************************************************************)
(* collectSyncInfo().                                                      *)
(***************************************************************************)

\* A step of the sync that ends it with an error, where that was provoked.
LEMMA FailureStep ==
  ASSUME IInv, stage \notin {"down", "listening", "done"}, Fails,
         ZfsTypes', OnDisk', ctx' \in [1 .. NumDatasets -> Contexts],
         UNCHANGED <<docker, nested, clock, own, client, runs, lastOk, start, aborted, synced, strayed>>,
         disturbed', disturbed' \in BOOLEAN, faults' \in Nat
  PROVE  IInv'
<1>1. stage' = "shutdown" /\ failed' = TRUE /\ ds' = ds
  BY DEF Fails
<1>2. Datasets' = Datasets /\ Contexts' = Contexts
  BY DEF Datasets, Contexts, Snapshots
<1>3. SenderTypes'
  BY <1>1, <1>2 DEF IInv, Typed, SenderTypes, Stages
<1>4. RunTypes'
  BY <1>1, <1>2 DEF IInv, Typed, RunTypes
<1>5. Contextual' /\ Fresh'
  BY <1>1, FailedFine
<1>6. client \notin {"none", "ok"} /\ stage # "down"
  BY DEF IInv, Answers
<1>7. Answers'
  BY <1>1, <1>6 DEF Answers
<1> QED BY <1>3, <1>4, <1>5, <1>7 DEF IInv, Typed

\* The same, where the step is of the sender's pipeline and leaves the snapshots alone.
LEMMA PipelineFails ==
  ASSUME IInv, NEW s, Running(s), s \notin {"down", "listening", "done"}, Fails,
         UNCHANGED <<clock, src, tgt, token, synced, strayed>>,
         ctx' \in [1 .. NumDatasets -> Contexts],
         Fault \/ (NoFault /\ disturbed)
  PROVE  IInv'
<1>1. /\ stage = s
      /\ UNCHANGED <<docker, nested, own, client, runs, lastOk, start, aborted>>
  BY DEF Running
<1>2. ZfsTypes' /\ OnDisk'
  BY <1>1, ZfsTypesKept, DiskKept DEF IInv, Typed
<1>3. faults \in Nat /\ disturbed \in BOOLEAN
  BY DEF IInv, Typed, RunTypes
<1>4. disturbed' /\ disturbed' \in BOOLEAN /\ faults' \in Nat
  <2>1. CASE Fault
    BY <1>3, <2>1 DEF Fault
  <2>2. CASE NoFault /\ disturbed
    BY <1>3, <2>2 DEF NoFault
  <2> QED BY <2>1, <2>2
<1> QED BY <1>1, <1>2, <1>4, FailureStep

\* A step that goes on, and keeps what the types say.
LEMMA PipelineTypes ==
  ASSUME IInv, NEW s, Running(s), NoFault,
         stage' \in Stages, ds' \in Datasets, failed' \in BOOLEAN,
         UNCHANGED <<clock, synced, strayed>>, ctx' \in [1 .. NumDatasets -> Contexts]
  PROVE  SenderTypes' /\ RunTypes'
<1>1. UNCHANGED <<docker, nested, own, client, runs, lastOk, start, aborted, faults, disturbed>>
  BY DEF Running, NoFault
<1>2. Datasets' = Datasets /\ Contexts' = Contexts
  BY <1>1 DEF Datasets, Contexts, Snapshots
<1>3. SenderTypes'
  BY <1>1, <1>2 DEF IInv, Typed, SenderTypes
<1>4. RunTypes'
  BY <1>1, <1>2 DEF IInv, Typed, RunTypes
<1> QED BY <1>3, <1>4

LEMMA AnswersGoOn ==
  ASSUME IInv, stage \notin {"down", "listening", "done"},
         stage' \notin {"down", "listening", "done"}, failed' = failed, ~ failed,
         UNCHANGED <<client, aborted, disturbed>>
  PROVE  Answers'
BY DEF IInv, Answers

\* A step that goes on with the dataset the sender is at, and settles nothing yet.
LEMMA CollectingGoesOn ==
  ASSUME IInv, NEW s \in {"list", "names", "token"}, NEW t \in {"names", "token", "snapshot"},
         Running(s), At(t, ds), NoFault, NoZfs, ctx' \in [1 .. NumDatasets -> Contexts],
         \A d \in Datasets : d # ds => ctx'[d] = ctx[d]
  PROVE  /\ Typed' /\ OnDisk' /\ Fresh' /\ Answers' /\ stage' = t /\ ds' = ds
         /\ \A d \in Datasets : Settled(d)' => Settlement(d)'
         /\ Datasets' = Datasets /\ \A d : Src(d)' = Src(d)
<1>0. /\ stage = s /\ stage \in Collecting /\ ds \in Datasets /\ docker \in BOOLEAN
      /\ ~ failed /\ failed \in BOOLEAN
  BY DEF Running, IInv, Typed, ZfsTypes, SenderTypes, Answers, Collecting
<1>1. /\ stage' = t /\ ds' = ds /\ failed' = failed
      /\ UNCHANGED <<clock, src, tgt, token, synced, strayed>>
      /\ UNCHANGED <<docker, nested, own, client, runs, lastOk, start, aborted, faults, disturbed>>
  BY DEF At, Running, NoFault, NoZfs, zfsVars
<1>2. Typed'
  <2>1. stage' \in Stages /\ ds' \in Datasets /\ failed' \in BOOLEAN
    BY <1>0, <1>1 DEF Stages
  <2>2. SenderTypes' /\ RunTypes'
    BY <1>1, <2>1, PipelineTypes
  <2>3. ZfsTypes'
    BY <1>1, ZfsTypesKept DEF IInv, Typed
  <2> QED BY <2>2, <2>3 DEF Typed
<1>3. OnDisk'
  BY <1>1, DiskKept DEF IInv
<1>4. Datasets' = Datasets /\ \A d : Src(d)' = Src(d)
  BY <1>1 DEF Datasets, Src, Rel, Counts, Migration
<1>5. \A d \in Datasets : /\ Settled(d)' <=> Settled(d)
                          /\ Received(d)' <=> Received(d)
                          /\ SourcePruned(d)' <=> SourcePruned(d)
                          /\ Settled(d) => d # ds
  BY <1>0, <1>1, DatasetsAre
  DEF Settled, Received, SourcePruned, Succeeded, Collecting, Syncing, Pruning
<1>6. \A d \in Datasets : Settled(d)' => Settlement(d)'
  BY <1>1, <1>5, SettlementKept DEF IInv, Contextual
<1>7. Fresh'
  <2>1. FreshDue' = FreshDue
    BY <1>1 DEF FreshDue
  <2>2. \A d \in Datasets : UpToDate(d) => UpToDate(d)'
    BY <1>1, UpToDateKept
  <2>3. \A d \in Datasets : TakesFresh(d) /\ d # ds => TakesFresh(d)'
    BY <1>1, TakesFreshKept
  <2> QED BY <1>0, <1>4, <1>5, <2>1, <2>2, <2>3 DEF IInv, Fresh, Collecting
<1>8. Answers'
  BY <1>0, <1>1, AnswersGoOn
<1> QED BY <1>1, <1>2, <1>3, <1>4, <1>6, <1>7, <1>8

LEMMA SourceNamesStep ==
  ASSUME IInv, SourceNames
  PROVE  IInv'
<1>0. /\ stage = "list" /\ ds \in Datasets /\ ds \in 1 .. NumDatasets
      /\ ctx \in [1 .. NumDatasets -> Contexts] /\ Running("list") /\ NoZfs
  BY DatasetsAre DEF IInv, Typed, ZfsTypes, SenderTypes, SourceNames, Running
<1>1. UNCHANGED <<clock, src, tgt, token, synced, strayed>>
  BY <1>0 DEF NoZfs, zfsVars
<1>2. CASE Fails /\ Fault /\ UNCHANGED ctx
  BY <1>0, <1>1, <1>2, PipelineFails
<1>3. CASE ctx' = [ctx EXCEPT ![ds].names = Relevant(src[ds])] /\ At("names", ds) /\ NoFault
  <2>1. Relevant(src[ds]) = Src(ds)
    BY <1>0, RelevantIs DEF IInv, OnDisk, Src, Typed
  <2>2. Src(ds) \subseteq Snapshots
    BY <1>0, SnapshotTypes DEF Src, Rel, IInv
  <2>3. ctx' = [ctx EXCEPT ![ds] = [ctx[ds] EXCEPT !.names = Src(ds)]]
    BY Zenon, <1>3, <2>1
  <2>4. ctx[ds] \in Contexts /\ [ctx[ds] EXCEPT !.names = Src(ds)] \in Contexts
    BY <1>0, <2>2 DEF Contexts
  <2>5. ctx' \in [1 .. NumDatasets -> Contexts]
    BY <1>0, <2>3, <2>4
  <2>6. ctx'[ds].names = Src(ds) /\ \A d \in Datasets : d # ds => ctx'[d] = ctx[d]
    BY <1>0, <2>3, <2>4, DatasetsAre DEF Contexts, IInv, Typed, ZfsTypes
  <2>7. /\ Typed' /\ OnDisk' /\ Fresh' /\ Answers' /\ stage' = "names" /\ ds' = ds
        /\ \A d \in Datasets : Settled(d)' => Settlement(d)'
        /\ Datasets' = Datasets /\ \A d : Src(d)' = Src(d)
    BY <1>0, <1>3, <2>5, <2>6, CollectingGoesOn
  <2>8. Contextual'
    BY <2>6, <2>7 DEF Contextual
  <2> QED BY <2>7, <2>8 DEF IInv
<1> QED BY <1>2, <1>3 DEF SourceNames

\* determineSnapshotNames(): it never finds a state it calls wrong, and either the
\* newest snapshot of the source is to be sent (again), or a new one is due.
LEMMA DeterminedIs ==
  ASSUME IInv, NEW d \in Datasets, NEW c, c = Determined(Src(d), Names(Tgt(d))),
         UNCHANGED <<docker, nested, src, tgt, token>>, ctx'[d] = c
  PROVE  c \in Contexts /\ c.wrong = FALSE /\ c.names = Src(d) /\ (Again(d)' \/ Due(d)')
<1> DEFINE S == Src(d)
           T == Names(Tgt(d))
<1>0. /\ S \subseteq SnapshotsTo(clock) /\ clock \in Nat /\ Snapshots = SnapshotsTo(clock)
      /\ Tgt(d) \subseteq SnapshotsTo(clock) /\ S \subseteq src[d] \cup tgt[d] /\ Unique(S)
      /\ \A r, s \in S \cup Tgt(d) : /\ r.at = s.at => r = s
                                     /\ r.at < s.at <=> r.name < s.name
                                     /\ r.name \in Int /\ s.name \in Int
                                     /\ r.at \in 0 .. clock /\ s.at \in 0 .. clock
  BY SnapshotTypes, SnapshotFields DEF IInv, OnDisk, Ordered, Src, Tgt, Rel, Unique
<1>1. /\ \A t \in Tgt(d) : \E s \in S : t.at <= s.at
      /\ \A n, p \in S : IsNewest(n, S) /\ IsNewest(p, S \ {n}) => n \in tgt[d] \/ p \in tgt[d]
      /\ docker /\ tgt[d] # {} => S \cap tgt[d] # {}
  BY DEF IInv, OnDisk, Bases
<1>2. token[d] # {} => S # {} /\ \A n \in tgt[d] : ~ IsNewest(n, S)
  BY DEF IInv, OnDisk, Tokens
<1>3. Src(d)' = S
  BY DEF Src, Rel, Counts, Migration
<1>4. CASE S = {}
  <2>1. T = {} /\ token[d] = {}
    BY <1>1, <1>2, <1>4 DEF Names
  <2>2. c = NothingKnown
    BY <1>4, <2>1 DEF Determined, NothingSent, NothingKnown
  <2>3. Due(d)'
    BY <1>3, <1>4, <2>1, <2>2 DEF Due, NothingKnown
  <2>4. NothingKnown \in Contexts /\ NothingKnown.names = {} /\ NothingKnown.wrong = FALSE
    BY DEF NothingKnown, Contexts
  <2> QED BY <1>4, <2>2, <2>3, <2>4
<1>5. ASSUME S # {}
      PROVE  c \in Contexts /\ c.wrong = FALSE /\ c.names = Src(d) /\ (Again(d)' \/ Due(d)')
  <2>1. PICK n \in S : IsNewest(n, S)
    BY <1>0, <1>5, SomeNewest DEF IInv, OnDisk
  <2>2. Newest(S) = n
    BY <1>0, <2>1, NewestIs
  <2>3. \A t \in Tgt(d) : t.at <= n.at /\ t.name <= n.name
    BY <1>0, <1>1, <2>1 DEF IsNewest
  <2>4. n.name \in T <=> n \in tgt[d]
    <3>1. n \in tgt[d] => n \in Tgt(d)
      BY <2>1 DEF Src, Tgt, Rel
    <3>2. \A t \in Tgt(d) : t.name = n.name => t = n
      BY <1>0, <2>1
    <3>3. \A t \in Tgt(d) : t \in tgt[d]
      BY DEF Tgt, Rel
    <3> QED BY <3>1, <3>2, <3>3 DEF Names
  <2>5. CASE T = {} /\ docker
    <3>1. tgt[d] = {}
      BY <2>5 DEF Names, Tgt, Rel, Counts
    <3>2. S = {n}
      <4>1. ASSUME S \ {n} # {} PROVE FALSE
        <5>1. PICK p \in S \ {n} : IsNewest(p, S \ {n})
          BY <1>0, <4>1, SomeNewest DEF IInv, OnDisk
        <5> QED BY <1>1, <2>1, <3>1, <5>1
      <4> QED BY <4>1, <2>1
    <3>3. Cardinality(S) = 1
      BY <3>2, FS_Singleton
    <3>4. c = [NothingKnown EXCEPT !.names = S, !.wrong = FALSE, !.snap = n.name]
      BY <1>5, <2>2, <2>5, <3>3 DEF Determined, FirstDocker
    <3>5. /\ c.names = S /\ c.wrong = FALSE /\ c.snap = n.name /\ c.first = TRUE
          /\ c.resume = FALSE /\ c.prev = {} /\ c \in Contexts
      BY <1>0, <3>4 DEF NothingKnown, Contexts
    <3>6. About(d, n)'
      BY <2>1, <3>2, <3>5 DEF About, IsNewest
    <3>7. Again(d)'
      BY <1>3, <2>1, <3>1, <3>5, <3>6 DEF Again
    <3> QED BY <3>5, <3>7
  <2>6. CASE ~(T = {} /\ docker) /\ n.name \in T
    <3> DEFINE next == IF Migration(n) THEN n.name + 1 ELSE 2
    <3>1. c = [names |-> S, first |-> FALSE, resume |-> TRUE, wrong |-> next \in T,
               prev |-> {n}, snap |-> next]
      BY <1>5, <2>2, <2>6 DEF Determined, NextSnapshot
    <3>2. next \in Int /\ next > n.name /\ next > 0
      BY <1>0, <2>1 DEF Migration
    <3>3. next \notin T
      BY <1>0, <2>1, <2>3, <3>2 DEF Names
    <3>4. n \in tgt[d] /\ token[d] = {}
      BY <1>2, <2>1, <2>4, <2>6
    <3> HIDE DEF next
    <3>7. c = [names |-> S, first |-> FALSE, resume |-> TRUE, wrong |-> FALSE,
               prev |-> {n}, snap |-> next]
      <4>1. (next \in T) = FALSE
        BY <3>3
      <4> QED BY Zenon, <3>1, <4>1
    <3>8. {n} \subseteq Snapshots /\ S \subseteq Snapshots
      BY <1>0, <2>1
    <3>5. /\ c.names = S /\ c.wrong = FALSE /\ c.snap = next /\ c.first = FALSE
          /\ c.prev = {n} /\ c \in Contexts
      BY <3>2, <3>7, <3>8 DEF Contexts
    <3>6. Due(d)'
      BY <1>3, <2>1, <3>2, <3>4, <3>5 DEF Due, IsNewest
    <3> QED BY <3>5, <3>6
  <2>7. CASE ~(T = {} /\ docker) /\ n.name \notin T
    <3> DEFINE before == IF Cardinality(S) > 1 THEN {Newest(AllButNewest(S))} ELSE {}
    <3>1. c = [names |-> S, first |-> before = {}, resume |-> TRUE,
               wrong |-> ~ Names(before) \subseteq T, prev |-> before, snap |-> n.name]
      BY <1>5, <2>2, <2>7 DEF Determined, SendLastAgain
    <3>2. n \notin tgt[d]
      BY <2>4, <2>7
    <3>3. CASE S = {n}
      <4>1. before = {}
        BY <3>3, <1>0, OneOrMore
      <4>2. ~ docker
        <5>1. ASSUME docker PROVE FALSE
          <6>1. tgt[d] # {}
            BY <2>7, <5>1 DEF Names, Tgt, Rel, Counts
          <6> QED BY <1>1, <3>2, <3>3, <5>1, <6>1
        <5> QED BY <5>1
      <4>3. /\ c.names = S /\ c.wrong = FALSE /\ c.snap = n.name /\ c.first = TRUE
            /\ c.prev = {} /\ c \in Contexts
        <5>1. c = [names |-> S, first |-> TRUE, resume |-> TRUE, wrong |-> FALSE,
                   prev |-> {}, snap |-> n.name]
          BY <3>1, <4>1 DEF Names
        <5>2. n.name \in Int /\ S \subseteq Snapshots
          BY <1>0, <2>1
        <5> QED BY <5>1, <5>2 DEF Contexts
      <4>4. About(d, n)'
        BY <2>1, <3>3, <4>3 DEF About, IsNewest
      <4>5. Again(d)'
        BY <1>3, <2>1, <3>2, <4>2, <4>3, <4>4 DEF Again
      <4> QED BY <4>3, <4>5
    <3>4. CASE S \ {n} # {}
      <4>1. PICK p \in S \ {n} : IsNewest(p, S \ {n})
        BY <1>0, <3>4, SomeNewest DEF IInv, OnDisk
      <4>2. p \in tgt[d]
        BY <1>1, <2>1, <3>2, <4>1
      <4>3. Newest(S \ {n}) = p
        BY <1>0, <4>1, NewestIs
      <4>4. before = {p}
        BY <1>0, <2>2, <3>4, <4>3, OneOrMore DEF AllButNewest
      <4> HIDE DEF before
      <4>5. p.name \in T /\ p.name # n.name
        <5>1. p \in Tgt(d)
          BY <4>1, <4>2 DEF Src, Tgt, Rel
        <5> QED BY <1>0, <2>1, <4>1, <5>1 DEF Names
      <4>6. /\ c.names = S /\ c.wrong = FALSE /\ c.snap = n.name /\ c.first = FALSE
            /\ c.prev = {p} /\ c \in Contexts
        <5>1. c = [names |-> S, first |-> FALSE, resume |-> TRUE, wrong |-> FALSE,
                   prev |-> {p}, snap |-> n.name]
          <6>1. Names({p}) \subseteq T /\ {p} # {}
            BY <4>5 DEF Names
          <6> QED BY <3>1, <4>4, <6>1
        <5>2. n.name \in Int /\ S \subseteq Snapshots /\ {p} \subseteq Snapshots
          BY <1>0, <2>1, <4>1
        <5> QED BY <5>1, <5>2 DEF Contexts
      <4>7. About(d, n)'
        <5>1. IsNewest(n, c.names)' /\ n.name = c.snap
          BY <2>1, <4>6 DEF IsNewest
        <5>2. IsNewest(p, c.names \ {n})' /\ p \in c.names \ {n}
          BY <4>1, <4>6 DEF IsNewest
        <5> QED BY <4>5, <4>6, <5>1, <5>2 DEF About, IsNewest
      <4>8. Again(d)'
        BY <1>3, <2>1, <3>2, <4>2, <4>6, <4>7 DEF Again
      <4> QED BY <4>6, <4>8
    <3> QED BY <3>3, <3>4, <2>1
  <2> QED BY <2>5, <2>6, <2>7
<1> QED BY <1>4, <1>5

LEMMA TargetNamesStep ==
  ASSUME IInv, TargetNames
  PROVE  IInv'
<1>0. /\ stage = "names" /\ ds \in Datasets /\ ds \in 1 .. NumDatasets
      /\ ctx \in [1 .. NumDatasets -> Contexts] /\ Running("names") /\ NoZfs
      /\ ctx[ds].names = Src(ds) /\ (aborted => disturbed)
  BY DatasetsAre
  DEF IInv, Typed, ZfsTypes, SenderTypes, Contextual, Answers, TargetNames, Running
<1>1. UNCHANGED <<docker, nested, clock, src, tgt, token, synced, strayed>>
  BY <1>0 DEF Running, NoZfs, zfsVars
<1>2. CASE ReplyLost /\ UNCHANGED ctx
  BY <1>0, <1>1, <1>2, PipelineFails DEF ReplyLost
<1>3. CASE LET c == Determined(ctx[ds].names, Names(Relevant(tgt[ds]))) IN
             /\ ctx' = [ctx EXCEPT ![ds] = c] /\ NoFault
             /\ IF aborted \/ c.wrong THEN Fails ELSE At("token", ds)
  <2> DEFINE c == Determined(Src(ds), Names(Tgt(ds)))
  <2>1. Relevant(tgt[ds]) = Tgt(ds)
    BY <1>0, RelevantIs DEF IInv, OnDisk, Tgt, Typed
  <2>2. ctx' = [ctx EXCEPT ![ds] = c] /\ NoFault /\ IF aborted \/ c.wrong THEN Fails ELSE At("token", ds)
    BY <1>0, <1>3, <2>1
  <2> HIDE DEF c
  <2>3. ctx'[ds] = c
    BY <1>0, <2>2
  <2>8. PICK d \in Datasets : d = ds
    BY <1>0
  <2>4. c \in Contexts /\ c.wrong = FALSE /\ c.names = Src(d) /\ (Again(d)' \/ Due(d)')
    BY <1>1, <2>3, <2>8, DeterminedIs DEF c
  <2>5. ctx' \in [1 .. NumDatasets -> Contexts] /\ \A e \in Datasets : e # ds => ctx'[e] = ctx[e]
    BY <1>0, <2>2, <2>4, DatasetsAre DEF IInv, Typed, ZfsTypes
  <2>6. CASE aborted /\ Fails
    BY <1>0, <1>1, <2>2, <2>5, <2>6, PipelineFails
  <2>7. CASE At("token", ds)
    <3>1. /\ Typed' /\ OnDisk' /\ Fresh' /\ Answers' /\ stage' = "token" /\ ds' = ds
          /\ \A e \in Datasets : Settled(e)' => Settlement(e)'
          /\ Datasets' = Datasets /\ \A e : Src(e)' = Src(e)
      BY <1>0, <2>2, <2>5, <2>7, CollectingGoesOn
    <3>3. Contextual'
      BY <2>3, <2>4, <2>8, <3>1 DEF Contextual
    <3> QED BY <3>1, <3>3 DEF IInv
  <2> QED BY <2>2, <2>4, <2>6, <2>7
<1> QED BY <1>2, <1>3 DEF TargetNames

LEMMA SendTokenStep ==
  ASSUME IInv, SendToken
  PROVE  IInv'
<1>0. /\ stage = "token" /\ ds \in Datasets /\ ds \in 1 .. NumDatasets
      /\ ctx \in [1 .. NumDatasets -> Contexts] /\ Running("token") /\ NoZfs
      /\ ctx[ds].names = Src(ds) /\ (Again(ds) \/ Due(ds)) /\ (aborted => disturbed)
  BY DatasetsAre
  DEF IInv, Typed, ZfsTypes, SenderTypes, Contextual, Answers, SendToken, Running
<1>1. UNCHANGED <<docker, nested, clock, src, tgt, token, synced, strayed>>
  BY <1>0 DEF Running, NoZfs, zfsVars
<1>2. CASE ctx[ds].resume /\ ReplyLost /\ UNCHANGED ctx
  BY <1>0, <1>1, <1>2, PipelineFails DEF ReplyLost
<1>3. CASE /\ ctx' = [ctx EXCEPT ![ds].resume = @ /\ token[ds] # {}] /\ NoFault
           /\ IF aborted /\ ctx[ds].resume THEN Fails ELSE At("snapshot", ds)
  <2> DEFINE b == ctx[ds].resume /\ token[ds] # {}
             c == [ctx[ds] EXCEPT !.resume = b]
  <2>1. ctx' = [ctx EXCEPT ![ds] = c]
    BY Zenon, <1>3
  <2>2. b \in BOOLEAN /\ (b => ctx[ds].resume /\ token[ds] # {}) /\ ctx[ds] \in Contexts
    BY <1>0
  <2> HIDE DEF b
  <2>3. /\ c \in Contexts /\ c.names = ctx[ds].names /\ c.first = ctx[ds].first
        /\ c.resume = b /\ c.prev = ctx[ds].prev /\ c.snap = ctx[ds].snap
    BY <2>2 DEF Contexts
  <2> HIDE DEF c
  <2>4. /\ ctx' \in [1 .. NumDatasets -> Contexts] /\ ctx'[ds] = c
        /\ \A d \in Datasets : d # ds => ctx'[d] = ctx[d]
    BY <1>0, <2>1, <2>3, DatasetsAre DEF IInv, Typed, ZfsTypes
  <2>5. CASE aborted /\ Fails
    BY <1>0, <1>1, <1>3, <2>4, <2>5, PipelineFails
  <2>6. CASE At("snapshot", ds)
    <3>1. /\ Typed' /\ OnDisk' /\ Fresh' /\ Answers' /\ stage' = "snapshot" /\ ds' = ds
          /\ \A d \in Datasets : Settled(d)' => Settlement(d)'
          /\ Datasets' = Datasets /\ \A d : Src(d)' = Src(d)
      BY <1>0, <1>3, <2>4, <2>6, CollectingGoesOn
    <3>0. PICK d \in Datasets : d = ds
      BY <1>0
    <3>2. \A n : About(d, n) => About(d, n)'
      BY <2>3, <2>4, <3>0 DEF About, IsNewest
    <3>3. Again(d) => Again(d)'
      BY <1>1, <2>2, <2>3, <2>4, <3>0, <3>1, <3>2 DEF Again
    <3>4. Due(d) => Due(d)'
      BY <1>1, <2>2, <2>3, <2>4, <3>0, <3>1 DEF Due, IsNewest
    <3>5. Contextual'
      BY <1>0, <1>1, <2>2, <2>3, <2>4, <3>0, <3>1, <3>3, <3>4 DEF Contextual
    <3> QED BY <3>1, <3>5 DEF IInv
  <2> QED BY <1>3, <2>5, <2>6
<1> QED BY <1>2, <1>3 DEF SendToken

\* createMigrationSnapshot() is needed exactly when a new snapshot is due; its name
\* and moment come after those of all the sync goes by.
LEMMA DueIsNeeded ==
  ASSUME IInv, stage = "snapshot", NEW d \in Datasets, d = ds
  PROVE  /\ Due(d) => /\ ~ ctx[d].resume /\ ctx[d].snap > 0
                      /\ \A s \in Src(d) \cup Tgt(d) : s.name < ctx[d].snap
                      /\ ctx[d].snap \notin Names(ctx[d].names)
         /\ Again(d) => ctx[d].snap \in Names(ctx[d].names)
<1>1. ctx[d].names = Src(d) /\ (ctx[d].resume => token[d] # {})
  BY DEF IInv, Contextual
<1>2. /\ \A r, s \in Src(d) \cup Tgt(d) : r.at < s.at <=> r.name < s.name
      /\ \A s \in Src(d) \cup Tgt(d) : s.name \in Int /\ s.at \in 0 .. clock
      /\ clock \in Nat /\ ctx[d].snap \in Int
      /\ \A t \in Tgt(d) : \E s \in Src(d) : t.at <= s.at
  BY SnapshotTypes, SnapshotFields DEF IInv, OnDisk, Ordered, Bases, Src, Tgt, Rel
<1>3. ASSUME Due(d)
      PROVE  /\ ~ ctx[d].resume /\ ctx[d].snap > 0
             /\ \A s \in Src(d) \cup Tgt(d) : s.name < ctx[d].snap
             /\ ctx[d].snap \notin Names(ctx[d].names)
  <2>1. ~ ctx[d].resume
    BY <1>1, <1>3 DEF Due
  <2>2. CASE Src(d) = {} /\ ctx[d].snap = 1
    <3>1. Tgt(d) = {}
      BY <1>2, <2>2
    <3> QED BY <1>1, <2>1, <2>2, <3>1 DEF Names
  <2>3. ASSUME NEW n \in tgt[d], IsNewest(n, Src(d)), ctx[d].snap > n.name, ctx[d].snap > 0
        PROVE  \A s \in Src(d) \cup Tgt(d) : s.name < ctx[d].snap
    <3>1. n \in Src(d) /\ \A s \in Src(d) : s.at <= n.at
      BY <1>2, <2>3 DEF IsNewest
    <3>2. \A s \in Src(d) \cup Tgt(d) : s.at <= n.at
      BY <1>2, <3>1
    <3>3. \A s \in Src(d) \cup Tgt(d) : s.name <= n.name
      BY <1>2, <3>1, <3>2
    <3> QED BY <1>2, <2>3, <3>1, <3>3
  <2>4. ASSUME NEW n \in tgt[d], IsNewest(n, Src(d)), ctx[d].snap > n.name, ctx[d].snap > 0
        PROVE  ctx[d].snap \notin Names(ctx[d].names)
    <3>1. \A s \in Src(d) : s.name < ctx[d].snap /\ s.name \in Int
      BY <1>2, <2>3, <2>4
    <3> QED BY <1>1, <1>2, <3>1 DEF Names
  <2> QED BY <1>3, <2>1, <2>2, <2>3, <2>4 DEF Due
<1>4. ASSUME Again(d) PROVE ctx[d].snap \in Names(ctx[d].names)
  BY <1>4 DEF Again, About, IsNewest, Names
<1> QED BY <1>3, <1>4

\* A snapshot that the sync takes comes after all others.
LEMMA NewSnapshotOnDisk ==
  ASSUME IInv, NEW d \in Datasets, d = ds, stage = "snapshot", Due(d),
         NEW new, new = [name |-> ctx[d].snap, at |-> clock + 1],
         UNCHANGED <<docker, nested, tgt, token, synced, strayed>>,
         src' = [src EXCEPT ![d] = @ \cup {new}], clock' = clock + 1
  PROVE  /\ OnDisk' /\ new.at = clock + 1 /\ new.name = ctx[d].snap /\ Migration(new)
         /\ Src(d)' = Src(d) \cup {new} /\ src'[d] = src[d] \cup {new}
         /\ \A s \in src[d] \cup tgt[d] : s.at < new.at
         /\ \A e \in Datasets : e # d => src'[e] = src[e] /\ Src(e)' = Src(e)
<1>0. /\ d \in 1 .. NumDatasets /\ clock \in Nat /\ ctx[d].snap \in Int
      /\ src \in [1 .. NumDatasets -> SUBSET Snapshots]
      /\ Datasets \subseteq 1 .. NumDatasets
  BY SnapshotTypes, DatasetsAre DEF IInv, Typed, ZfsTypes
<1>1. /\ ctx[d].snap > 0 /\ token[d] = {}
      /\ \A s \in Src(d) \cup Tgt(d) : s.name < ctx[d].snap
  BY DueIsNeeded DEF Due
<1>2. /\ new.at = clock + 1 /\ new.name = ctx[d].snap /\ Migration(new) /\ Counts(new)
  BY <1>1 DEF Migration, Counts
<1>3. \A s \in src[d] \cup tgt[d] : s.at \in 0 .. clock /\ s.name \in Int /\ s.at < new.at
  BY <1>0, <1>2, SnapshotTypes, SnapshotFields DEF IInv
<1>4. src'[d] = src[d] \cup {new} /\ \A e \in Datasets : e # d => src'[e] = src[e]
  BY <1>0
<1>5. /\ \A s : Counts(s)' <=> Counts(s)
      /\ \A s : Migration(s)' <=> Migration(s)
      /\ Datasets' = Datasets /\ \A e : Tgt(e)' = Tgt(e)
  BY DEF Counts, Migration, Datasets, Tgt, Rel
<1>6. Src(d)' = Src(d) \cup {new} /\ \A e \in Datasets : e # d => Src(e)' = Src(e)
  BY <1>2, <1>4, <1>5 DEF Src, Rel
<1>7. Ordered'
  <2>1. ASSUME NEW e \in Datasets, NEW r \in src'[e] \cup tgt'[e], NEW s \in src'[e] \cup tgt'[e]
        PROVE  /\ r.at = s.at => r = s
               /\ Counts(r) /\ Counts(s) => (r.at < s.at <=> r.name < s.name)
               /\ docker => r = Image \/ Migration(r)
    <3>1. CASE r \in src[e] \cup tgt[e] /\ s \in src[e] \cup tgt[e]
      BY <3>1 DEF IInv, OnDisk, Ordered
    <3>2. CASE e = d /\ r = new /\ s = new
      BY <1>0, <1>2, <3>2
    <3>3. CASE e = d /\ r = new /\ s \in src[d] \cup tgt[d]
      <4>1. Counts(s) => s \in Src(d) \cup Tgt(d)
        BY <3>3 DEF Src, Tgt, Rel
      <4> QED BY <1>0, <1>1, <1>2, <1>3, <3>3, <4>1
    <3>4. CASE e = d /\ s = new /\ r \in src[d] \cup tgt[d]
      <4>1. Counts(r) => r \in Src(d) \cup Tgt(d)
        BY <3>4 DEF Src, Tgt, Rel
      <4>2. docker => r = Image \/ Migration(r)
        BY <3>4 DEF IInv, OnDisk, Ordered
      <4> QED BY <1>0, <1>1, <1>2, <1>3, <3>4, <4>1, <4>2
    <3> QED BY <1>4, <3>1, <3>2, <3>3, <3>4
  <2> QED BY <1>5, <2>1 DEF Ordered, Image
<1>8. Tokens'
  <2>1. ASSUME NEW e \in Datasets
        PROVE  /\ token[e] \subseteq src'[e] \ tgt[e]
               /\ \A s, r \in token[e] : s = r
               /\ token[e] # {} => Src(e)' # {} /\ \A n \in tgt[e] : ~ IsNewest(n, Src(e)')
               /\ \A s \in token[e] : Counts(s) => IsNewest(s, Src(e)')
    <3>1. CASE e = d
      BY <1>1, <3>1
    <3>2. CASE e # d
      BY <1>4, <1>6, <3>2 DEF IInv, OnDisk, Tokens
    <3> QED BY <3>1, <3>2
  <2> QED BY <1>5, <2>1 DEF Tokens, IsNewest
<1>9. Bases'
  <2>1. ASSUME NEW e \in Datasets
        PROVE  /\ \A t \in Tgt(e) : \E s \in Src(e)' : t.at <= s.at
               /\ \A n, p \in Src(e)' : IsNewest(n, Src(e)') /\ IsNewest(p, Src(e)' \ {n}) =>
                    n \in tgt[e] \/ p \in tgt[e]
               /\ (e \in synced /\ ~ strayed) \/ (docker /\ tgt[e] # {}) => Src(e)' \cap tgt[e] # {}
    <3>1. CASE e # d
      BY <1>6, <3>1 DEF IInv, OnDisk, Bases
    <3>2. CASE e = d
      <4>1. \A t \in Tgt(d) : \E s \in Src(d) : t.at <= s.at
        BY DEF IInv, OnDisk, Bases
      <4>2. ASSUME NEW n \in Src(d) \cup {new}, NEW p \in Src(d) \cup {new},
                   IsNewest(n, Src(d) \cup {new}), IsNewest(p, (Src(d) \cup {new}) \ {n})
            PROVE  p \in tgt[d]
        <5>1. \A s \in Src(d) : s.at < new.at /\ s.at \in Int /\ s # new
          BY <1>0, <1>2, <1>3 DEF Src, Rel
        <5>2. n = new
          BY <1>0, <1>2, <4>2, <5>1 DEF IsNewest
        <5>3. IsNewest(p, Src(d))
          BY <4>2, <5>1, <5>2 DEF IsNewest
        <5>4. PICK m \in tgt[d] : IsNewest(m, Src(d))
          BY <5>3 DEF Due, IsNewest
        <5> QED BY <5>1, <5>3, <5>4 DEF IsNewest
      <4>3. (d \in synced /\ ~ strayed) \/ (docker /\ tgt[d] # {}) => Src(d) \cap tgt[d] # {}
        BY DEF IInv, OnDisk, Bases
      <4> QED BY <1>6, <3>2, <4>1, <4>2, <4>3
    <3> QED BY <3>1, <3>2
  <2>2. docker => ~ strayed
    BY DEF IInv, OnDisk, Bases
  <2> QED BY <1>5, <2>1, <2>2 DEF Bases, IsNewest
<1> QED BY <1>2, <1>3, <1>4, <1>6, <1>7, <1>8, <1>9 DEF OnDisk

LEMMA MigrationSnapshotStep ==
  ASSUME IInv, MigrationSnapshot
  PROVE  IInv'
<1> DEFINE taken == [name |-> ctx[ds].snap, at |-> clock + 1]
           needed == ~ ctx[ds].resume /\ taken.name \notin Names(ctx[ds].names)
<1>0. /\ stage = "snapshot" /\ ds \in Datasets /\ ds \in 1 .. NumDatasets /\ docker \in BOOLEAN
      /\ ctx \in [1 .. NumDatasets -> Contexts] /\ Running("snapshot") /\ ~ failed
      /\ failed \in BOOLEAN /\ (aborted => disturbed) /\ UNCHANGED <<tgt, token, synced, strayed>>
  BY DatasetsAre, Zenon DEF IInv, Typed, ZfsTypes, SenderTypes, Answers, MigrationSnapshot, Running
<1>1. PICK d \in Datasets : d = ds
  BY <1>0
<1>2. ctx[d].names = Src(d) /\ (Again(d) \/ Due(d)) /\ (ctx[d].resume => token[d] # {})
  BY <1>0, <1>1 DEF IInv, Contextual
<1>3. CASE aborted /\ Fails /\ NoFault /\ UNCHANGED <<clock, src, ctx>>
  BY <1>0, <1>3, PipelineFails
<1>4. CASE needed /\ Fails /\ Fault /\ UNCHANGED <<clock, src, ctx>>
  BY <1>0, <1>4, PipelineFails
<1>5. ASSUME At("estimate", ds), NoFault
      PROVE  /\ stage' = "estimate" /\ ds' = d /\ failed' = failed /\ Datasets' = Datasets
             /\ UNCHANGED <<docker, nested, own, client, runs, lastOk, start, aborted, faults, disturbed>>
             /\ \A e \in Datasets : e # d => /\ Settled(e)' <=> Settled(e)
                                             /\ Received(e)' <=> Received(e)
                                             /\ SourcePruned(e)' <=> SourcePruned(e)
             /\ Settled(d)' /\ ~ Settled(d) /\ ~ Received(d)' /\ ~ SourcePruned(d)'
  <2>1. /\ stage' = "estimate" /\ ds' = d /\ failed' = failed
        /\ UNCHANGED <<docker, nested, own, client, runs, lastOk, start, aborted, faults, disturbed>>
    BY <1>0, <1>1, <1>5 DEF At, Running, NoFault
  <2>2. Datasets' = Datasets
    BY <2>1 DEF Datasets
  <2>3. d \in Int /\ \A e \in Datasets : e \in Int
    BY <1>0, DatasetsAre
  <2> QED BY <1>0, <1>1, <2>1, <2>2, <2>3
      DEF Settled, Received, SourcePruned, Succeeded, Collecting, Syncing, Pruning
<1>6. FreshDue => UpToDate(d)
  BY <1>0, <1>1 DEF IInv, Fresh, Collecting, Settled, Syncing, Pruning, Succeeded
<1>7. \A e \in Datasets : Settled(e) => Settlement(e)
  BY DEF IInv, Contextual
<1>8. CASE ~ needed /\ At("estimate", ds) /\ NoFault /\ UNCHANGED <<clock, src, ctx>>
  <2>1. Again(d)
    BY <1>0, <1>1, <1>2, <1>8, DueIsNeeded
  <2>2. UNCHANGED <<docker, nested, clock, own, src, tgt, token, synced, strayed>>
    BY <1>0, <1>5, <1>8
  <2>3. ZfsTypes' /\ OnDisk'
    BY <2>2, ZfsTypesKept, DiskKept DEF IInv, Typed
  <2>4. Typed'
    <3>1. stage' \in Stages /\ ds' \in Datasets /\ failed' \in BOOLEAN
      BY <1>0, <1>1, <1>5, <1>8 DEF Stages
    <3>2. ctx' \in [1 .. NumDatasets -> Contexts]
      BY <1>0, <1>8
    <3>3. SenderTypes' /\ RunTypes'
      BY <1>0, <1>8, <2>2, <3>1, <3>2, PipelineTypes
    <3> QED BY <2>3, <3>3 DEF Typed
  <2>5. \A e \in Datasets : e # d /\ Settled(e)' => Settlement(e)'
    BY <1>5, <1>7, <1>8, <2>2, SettlementKept
  <2>6. Settlement(d)'
    <3>1. Src(d)' = Src(d)
      BY <2>2 DEF Src, Rel, Counts, Migration
    <3>2. \A n : About(d, n)' = About(d, n)
      BY <1>8, AboutKept
    <3>3. Again(d)'
      BY <1>8, <2>1, <2>2, <3>1, <3>2 DEF Again
    <3>4. \E n \in Src(d) : About(d, n)
      BY <2>1 DEF Again
    <3>5. ~ Received(d)' /\ ~ SourcePruned(d)'
      BY <1>5, <1>8
    <3> QED BY <1>2, <1>8, <2>2, <3>1, <3>2, <3>3, <3>4, <3>5 DEF Settlement
  <2>7. Contextual'
    BY <1>5, <1>8, <2>5, <2>6 DEF Contextual
  <2>8. ~ UpToDate(d)
    <3>1. PICK n \in Src(d) : IsNewest(n, Src(d)) /\ n \notin tgt[d]
      BY <1>2, <2>1 DEF Again, About
    <3>2. ASSUME NEW m \in tgt[d], IsNewest(m, Src(d)) PROVE FALSE
      <4>1. m # n /\ m.at < n.at /\ n.at < m.at
        BY <3>1, <3>2 DEF IsNewest
      <4>2. m.at \in Int /\ n.at \in Int
        BY <3>1, <3>2, SnapshotTypes, SnapshotFields DEF IInv, Src, Rel, IsNewest
      <4> QED BY <4>1, <4>2
    <3> QED BY <3>1, <3>2 DEF UpToDate
  <2>9. Fresh'
    BY <1>5, <1>6, <1>8, <2>2, <2>8 DEF Fresh, FreshDue
  <2>10. Answers'
    BY <1>0, <1>5, <1>8, AnswersGoOn
  <2> QED BY <2>3, <2>4, <2>7, <2>9, <2>10 DEF IInv
<1>9. CASE /\ needed /\ At("estimate", ds) /\ NoFault /\ clock' = clock + 1
           /\ src' = [src EXCEPT ![ds] = @ \cup {taken}]
           /\ ctx' = [ctx EXCEPT ![ds].names = @ \cup {taken}]
  <2>1. Due(d)
    BY <1>0, <1>1, <1>2, <1>9, DueIsNeeded
  <2>21. PICK new : new = taken
    OBVIOUS
  <2>2. src' = [src EXCEPT ![d] = @ \cup {new}] /\ new = [name |-> ctx[d].snap, at |-> clock + 1]
    BY <1>1, <1>9, <2>21
  <2>20. UNCHANGED <<docker, nested, tgt, token, synced, strayed>>
    BY <1>0, <1>5, <1>9
  <2> HIDE DEF taken
  <2>3. /\ OnDisk' /\ new.at = clock + 1 /\ new.name = ctx[d].snap /\ Migration(new)
        /\ Src(d)' = Src(d) \cup {new} /\ src'[d] = src[d] \cup {new}
        /\ \A s \in src[d] \cup tgt[d] : s.at < new.at
        /\ \A e \in Datasets : e # d => src'[e] = src[e] /\ Src(e)' = Src(e)
    BY <1>0, <1>1, <1>9, <2>1, <2>2, <2>20, NewSnapshotOnDisk
  <2>4. /\ Snapshots \subseteq Snapshots' /\ new \in Snapshots' /\ Contexts \subseteq Contexts'
        /\ clock \in Nat /\ ctx[d].snap \in Int
    <3>1. clock \in Nat /\ ctx[d].snap \in Int
      BY SnapshotTypes DEF IInv
    <3>2. Snapshots \subseteq Snapshots'
      BY <1>9, <3>1 DEF Snapshots
    <3>3. new \in Snapshots'
      BY <1>9, <2>2, <3>1 DEF Snapshots
    <3>4. Contexts \subseteq Contexts'
      BY <3>2 DEF Contexts
    <3> QED BY <3>1, <3>2, <3>3, <3>4
  <2> DEFINE c == [ctx[d] EXCEPT !.names = ctx[d].names \cup {new}]
  <2>5. ctx' = [ctx EXCEPT ![d] = c]
    BY Zenon, <1>1, <1>9, <2>21
  <2>6. /\ c \in Contexts' /\ c.names = Src(d) \cup {new} /\ c.first = ctx[d].first
        /\ c.resume = ctx[d].resume /\ c.prev = ctx[d].prev /\ c.snap = ctx[d].snap
    <3>1. ctx[d] \in Contexts
      BY <1>0, <1>1
    <3>2. ctx[d].names \cup {new} \subseteq Snapshots'
      BY <2>4, <3>1 DEF Contexts
    <3> QED BY <1>2, <2>4, <3>1, <3>2 DEF Contexts
  <2> HIDE DEF c
  <2>7. /\ ctx' \in [1 .. NumDatasets -> Contexts'] /\ ctx'[d] = c
        /\ \A e \in Datasets : e # d => ctx'[e] = ctx[e]
    BY <1>0, <1>1, <2>4, <2>5, <2>6, DatasetsAre
  <2>8. Typed'
    <3>1. ZfsTypes'
      <4>1. /\ src \in [1 .. NumDatasets -> SUBSET Snapshots]
            /\ tgt \in [1 .. NumDatasets -> SUBSET Snapshots]
            /\ token \in [1 .. NumDatasets -> SUBSET Snapshots] /\ own \in Nat
        BY DEF IInv, Typed, ZfsTypes
      <4>2. src' \in [1 .. NumDatasets -> SUBSET Snapshots']
        BY <1>0, <1>1, <2>2, <2>4, <4>1
      <4>3. /\ tgt' \in [1 .. NumDatasets -> SUBSET Snapshots']
            /\ token' \in [1 .. NumDatasets -> SUBSET Snapshots']
        BY <1>0, <2>4, <4>1
      <4> QED BY <1>0, <1>5, <1>9, <2>4, <4>1, <4>2, <4>3 DEF ZfsTypes, IInv, Typed
    <3>2. SenderTypes'
      BY <1>0, <1>1, <1>5, <1>9, <2>7 DEF IInv, Typed, SenderTypes, Stages
    <3>3. RunTypes'
      BY <1>0, <1>5, <1>9, <2>4 DEF IInv, Typed, RunTypes
    <3> QED BY <3>1, <3>2, <3>3 DEF Typed
  <2>9. \A e \in Datasets : e # d /\ Settled(e)' => Settlement(e)'
    BY <1>0, <1>5, <1>7, <1>9, <2>3, <2>7, SettlementKept
  <2>10. IsNewest(new, Src(d) \cup {new})
    BY <2>3 DEF IsNewest, Src, Rel
  <2>11. About(d, new)'
    <3>1. IsNewest(new, c.names) /\ new.name = c.snap
      BY <2>3, <2>6, <2>10
    <3>2. CASE Src(d) = {} /\ ctx[d].first /\ ctx[d].prev = {}
      BY <2>6, <2>7, <3>1, <3>2 DEF About, IsNewest
    <3>3. ASSUME NEW p \in tgt[d], IsNewest(p, Src(d)), ctx[d].prev = {p}, ~ ctx[d].first,
                 ctx[d].snap > p.name
          PROVE  About(d, new)'
      <4>1. p \in Src(d) /\ p # new /\ p.name \in Int /\ new.at \in Int
        BY <2>3, <2>4, <3>3, SnapshotTypes, SnapshotFields DEF IInv, IsNewest
      <4>2. new \notin Src(d)
        BY <2>3, <4>1 DEF Src, Rel
      <4>3. c.names \ {new} = Src(d)
        BY <2>6, <4>2
      <4>4. p.name # new.name
        BY <2>3, <2>4, <3>3, <4>1
      <4> QED BY <2>6, <2>7, <3>1, <3>3, <4>1, <4>3, <4>4 DEF About, IsNewest
    <3> QED BY <2>1, <3>2, <3>3 DEF Due
  <2>12. Settlement(d)'
    <3>1. new \notin tgt[d] /\ new \in Src(d)'
      BY <2>3, <2>4
    <3>2. ctx[d].prev \subseteq tgt[d] /\ ~ ctx[d].resume
      BY <1>2, <2>1 DEF Due
    <3>3. Again(d)'
      BY <2>6, <2>7, <2>11, <2>20, <3>1, <3>2 DEF Again
    <3>4. ~ Received(d)' /\ ~ SourcePruned(d)'
      BY <1>5, <1>9
    <3> QED BY <2>3, <2>6, <2>7, <2>11, <3>1, <3>2, <3>3, <3>4 DEF Settlement
  <2>13. Contextual'
    BY <1>5, <1>9, <2>9, <2>12 DEF Contextual
  <2>14. TakesFresh(d)'
    <3>1. start \in 0 .. clock /\ start' = start
      BY <1>5, <1>9 DEF IInv, Typed, RunTypes
    <3>2. new.at > start
      BY <2>3, <2>4, <3>1
    <3> QED BY <2>3, <2>6, <2>7, <2>10, <3>1, <3>2 DEF TakesFresh, IsNewest, Migration
  <2>15. Fresh'
    <3>1. FreshDue' = FreshDue
      BY <1>0, <1>5, <1>9 DEF FreshDue
    <3>2. \A e \in Datasets : e # d /\ UpToDate(e) => UpToDate(e)'
      BY <1>0, <1>5, <1>9, <2>3, UpToDateKept
    <3>3. \A e \in Datasets : e # d /\ TakesFresh(e) => TakesFresh(e)'
      BY <1>5, <1>9, <2>7, TakesFreshKept
    <3> QED BY <1>0, <1>5, <1>9, <2>14, <3>1, <3>2, <3>3 DEF IInv, Fresh, Collecting
  <2>16. Answers'
    BY <1>0, <1>5, <1>9, AnswersGoOn
  <2> QED BY <2>3, <2>8, <2>13, <2>15, <2>16 DEF IInv
<1>10. src' = [e \in DOMAIN src |-> IF e \in Within(ds) THEN src[e] \cup {taken} ELSE src[e]]
         => src' = [src EXCEPT ![ds] = @ \cup {taken}]
  <2>1. \A e : e \in Within(ds) <=> e = ds
    BY PlainWithin DEF IInv, Typed, ZfsTypes
  <2> QED BY <2>1
<1> QED BY Zenon, <1>3, <1>4, <1>8, <1>9, <1>10 DEF MigrationSnapshot

-----------------------------------------------------------------------------
(***************************************************************************)
(* From one dataset to the next, and what is in a stream.                  *)
(***************************************************************************)
LEMMA LastDataset ==
  ASSUME docker \in BOOLEAN, NEW d \in Datasets, d + 1 \notin Datasets
  PROVE  \A e \in Datasets : e <= d
BY MigrateSyncAssumption DEF Datasets

\* A step that goes on, leaves the snapshots alone and adds nothing to what is known.
LEMMA PipelineGoesOn ==
  ASSUME IInv, NEW s, Running(s), s \notin {"down", "listening", "done"}, ~ failed,
         stage' \in Stages \ {"down", "listening", "done", "names", "token", "snapshot"},
         ds' \in Datasets, failed' = failed, NoFault, NoZfs, UNCHANGED ctx,
         stage' \in Collecting => stage \in Collecting,
         \A d \in Datasets : /\ Settled(d)' <=> Settled(d)
                             /\ Received(d)' <=> Received(d)
                             /\ SourcePruned(d)' <=> SourcePruned(d)
  PROVE  IInv'
<1>1. /\ stage = s
      /\ UNCHANGED <<docker, nested, own, client, runs, lastOk, start, aborted, faults, disturbed>>
      /\ UNCHANGED <<clock, src, tgt, token, synced, strayed>>
  BY DEF Running, NoFault, NoZfs, zfsVars
<1>2. Datasets' = Datasets
  BY <1>1 DEF Datasets
<1>3. failed \in BOOLEAN /\ ctx \in [1 .. NumDatasets -> Contexts]
  BY DEF IInv, Typed, SenderTypes
<1>4. Typed'
  <2>1. failed' \in BOOLEAN /\ ctx' \in [1 .. NumDatasets -> Contexts]
    BY <1>3
  <2>2. SenderTypes' /\ RunTypes'
    BY <1>1, <2>1, PipelineTypes
  <2>3. ZfsTypes'
    BY <1>1, ZfsTypesKept DEF IInv, Typed
  <2> QED BY <2>2, <2>3 DEF Typed
<1>5. OnDisk'
  BY <1>1, DiskKept DEF IInv
<1>6. Contextual'
  <2>1. \A d \in Datasets : Settlement(d) => Settlement(d)'
    BY <1>1, SettlementKept
  <2> QED BY <1>2, <2>1 DEF IInv, Contextual
<1>7. Fresh'
  <2>1. FreshDue' = FreshDue
    BY <1>1 DEF FreshDue
  <2>2. \A d \in Datasets : UpToDate(d) => UpToDate(d)'
    BY <1>1, UpToDateKept
  <2>3. \A d \in Datasets : TakesFresh(d) => TakesFresh(d)'
    BY <1>1, TakesFreshKept
  <2> QED BY <1>2, <2>1, <2>2, <2>3 DEF IInv, Fresh
<1>8. Answers'
  BY <1>1, AnswersGoOn
<1> QED BY <1>4, <1>5, <1>6, <1>7, <1>8 DEF IInv

\* What zfs is told to send exists, and what it goes on from is on the target. A
\* stream that resumes nothing has the subject, and nothing else that the sync goes
\* by and that is not older.
LEMMA StreamIs ==
  ASSUME IInv, NEW d \in Datasets, Settled(d), ~ Received(d)
  PROVE  /\ Sendable(d) /\ Receivable(d) /\ Stream(d) \subseteq src[d]
         /\ ctx[d].names = Src(d) /\ ctx[d].prev \subseteq src[d] \cap tgt[d]
         /\ ctx[d].resume => Stream(d) = token[d] /\ token[d] # {}
         /\ \E n \in Src(d) :
              /\ About(d, n) /\ n \notin tgt[d] /\ IsNewest(n, Src(d))
              /\ ~ ctx[d].resume => /\ n \in Stream(d)
                                    /\ \A s \in Stream(d) : s.at <= n.at
                                    /\ \A s \in Stream(d) : Counts(s) => s = n
<1>1. /\ ctx[d].names = Src(d) /\ (ctx[d].resume => token[d] # {})
      /\ Again(d) /\ ctx[d].resume \in BOOLEAN /\ ctx[d].first \in BOOLEAN
  BY SnapshotTypes DEF IInv, Contextual, Settlement
<1>2. PICK n \in Src(d) : About(d, n) /\ n \notin tgt[d]
  BY <1>1 DEF Again
<1>3. /\ IsNewest(n, Src(d)) /\ n.name = ctx[d].snap
      /\ \/ ctx[d].first /\ ctx[d].prev = {} /\ Src(d) = {n}
         \/ ~ ctx[d].first /\ \E p \in Src(d) \ {n} :
              ctx[d].prev = {p} /\ IsNewest(p, Src(d) \ {n})
  BY <1>1, <1>2 DEF About
<1>4. /\ \A s \in src[d] : s.at \in 0 .. clock /\ s.name \in Int
      /\ \A r, s \in src[d] : r.at = s.at => r = s
      /\ \A r, s \in src[d] : Counts(r) /\ Counts(s) => (r.at < s.at <=> r.name < s.name)
      /\ clock \in Nat /\ token[d] \subseteq src[d]
  BY SnapshotTypes, SnapshotFields DEF IInv, OnDisk, Ordered, Tokens
<1>5. \A s : s \in Src(d) <=> s \in src[d] /\ Counts(s)
  BY DEF Src, Rel
<1>6. Subject(d) = {n}
  <2>1. \A s \in src[d] : s.name = n.name => Counts(s)
    BY <1>5 DEF Counts, Migration
  <2>2. \A s \in src[d] : s.name = n.name => s = n
    BY <1>4, <1>5, <2>1
  <2> QED BY <1>3, <1>5, <2>2 DEF Subject
<1>7. ctx[d].prev \subseteq src[d] \cap tgt[d]
  BY <1>1, <1>3, <1>5 DEF Again
<1> DEFINE upTo == {s \in src[d] : \A t \in Subject(d) : s.at <= t.at}
<1>8. upTo = {s \in src[d] : s.at <= n.at}
  BY <1>6
<1>9. ctx[d].resume => Stream(d) = token[d]
  BY DEF Stream
<1>10. ASSUME ~ ctx[d].resume
       PROVE  /\ Stream(d) \subseteq src[d] /\ n \in Stream(d)
              /\ \A s \in Stream(d) : s.at <= n.at
              /\ \A s \in Stream(d) : Counts(s) => s = n
  <2>1. CASE ctx[d].first
    <3>1. Stream(d) = IF docker THEN {n} ELSE {s \in src[d] : s.at <= n.at}
      BY <1>6, <1>8, <1>10, <2>1 DEF Stream
    <3> QED BY <1>3, <1>4, <1>5, <2>1, <3>1
  <2>2. CASE ~ ctx[d].first
    <3>1. PICK p \in Src(d) \ {n} : ctx[d].prev = {p} /\ IsNewest(p, Src(d) \ {n})
      BY <1>3, <2>2
    <3>2. Stream(d) = {s \in upTo : \A q \in ctx[d].prev : s.at > q.at}
      BY <1>10, <2>2 DEF Stream
    <3>3. Stream(d) = {s \in src[d] : s.at <= n.at /\ s.at > p.at}
      BY <1>8, <3>1, <3>2
    <3>4. n.at > p.at
      BY <1>3, <1>4, <1>5, <3>1 DEF IsNewest
    <3>5. ASSUME NEW s \in src[d], s.at <= n.at, s.at > p.at, Counts(s) PROVE s = n
      BY <1>4, <1>5, <3>1, <3>5 DEF IsNewest
    <3> QED BY <1>4, <1>5, <3>3, <3>4, <3>5
  <2> QED BY <1>1, <2>1, <2>2
<1>11. Stream(d) \subseteq src[d]
  BY <1>4, <1>9, <1>10
<1>12. Sendable(d) /\ Receivable(d)
  <2>1. \A e : e \in Within(d) <=> e = d
    BY PlainWithin DEF IInv, Typed, ZfsTypes
  <2> QED BY <1>6, <1>7, <1>11, <2>1 DEF Sendable, Receivable
<1> QED BY <1>1, <1>2, <1>3, <1>7, <1>9, <1>10, <1>11, <1>12

LEMMA EstimateStep ==
  ASSUME IInv, Estimate
  PROVE  IInv'
<1>0. /\ stage = "estimate" /\ ds \in Datasets /\ docker \in BOOLEAN /\ ~ failed
      /\ ctx \in [1 .. NumDatasets -> Contexts] /\ Running("estimate") /\ NoZfs /\ UNCHANGED ctx
  BY DEF IInv, Typed, ZfsTypes, SenderTypes, Answers, Estimate, Running
<1>1. UNCHANGED <<clock, src, tgt, token, synced, strayed>>
  BY <1>0 DEF NoZfs, zfsVars
<1>2. CASE Fails /\ Fault
  BY <1>0, <1>1, <1>2, PipelineFails
<1>3. PICK d \in Datasets : d = ds
  BY <1>0
<1>4. \A e \in Datasets : e \in Int /\ e >= 1
  BY <1>0, DatasetsAre
<1>5. Settled(d) /\ ~ Received(d)
  BY <1>0, <1>3 DEF Settled, Received, Syncing, Pruning, Succeeded
<1>6. Sendable(ds)
  BY <1>3, <1>5, StreamIs
<1>7. CASE NoFault /\ OnTo("list", "setup")
  <2>1. CASE ds + 1 \in Datasets /\ At("list", ds + 1)
    <3>1. stage' = "list" /\ ds' = ds + 1 /\ failed' = failed
      BY <2>1 DEF At
    <3>2. \A e \in Datasets : /\ Settled(e)' <=> Settled(e)
                              /\ Received(e)' <=> Received(e)
                              /\ SourcePruned(e)' <=> SourcePruned(e)
      BY <1>0, <1>4, <3>1
      DEF Settled, Received, SourcePruned, Succeeded, Collecting, Syncing, Pruning
    <3> QED BY <1>0, <1>7, <2>1, <3>1, <3>2, PipelineGoesOn DEF Stages, Collecting
  <2>2. CASE ds + 1 \notin Datasets /\ At("setup", 1)
    <3>1. stage' = "setup" /\ ds' = 1 /\ failed' = failed /\ 1 \in Datasets
      BY <1>0, <2>2, DatasetsAre DEF At
    <3>2. \A e \in Datasets : e <= ds
      BY <1>0, <2>2, LastDataset
    <3>3. \A e \in Datasets : /\ Settled(e)' <=> Settled(e)
                              /\ Received(e)' <=> Received(e)
                              /\ SourcePruned(e)' <=> SourcePruned(e)
      BY <1>0, <1>4, <3>1, <3>2
      DEF Settled, Received, SourcePruned, Succeeded, Collecting, Syncing, Pruning
    <3> QED BY <1>0, <1>7, <3>1, <3>3, PipelineGoesOn DEF Stages, Collecting
  <2> QED BY <1>7, <2>1, <2>2 DEF OnTo
<1> QED BY <1>2, <1>6, <1>7 DEF Estimate

LEMMA SyncSuccessStep ==
  ASSUME IInv, SyncSuccess
  PROVE  IInv'
<1>0. /\ stage = "received" /\ ds \in Datasets /\ docker \in BOOLEAN /\ ~ failed
      /\ ctx \in [1 .. NumDatasets -> Contexts] /\ Running("received") /\ NoZfs /\ UNCHANGED ctx
      /\ (aborted => disturbed)
  BY DEF IInv, Typed, ZfsTypes, SenderTypes, Answers, SyncSuccess, Running
<1>1. UNCHANGED <<clock, src, tgt, token, synced, strayed>>
  BY <1>0 DEF NoZfs, zfsVars
<1>2. CASE ReplyLost
  BY <1>0, <1>1, <1>2, PipelineFails DEF ReplyLost
<1>3. CASE NoFault /\ aborted /\ Fails
  BY <1>0, <1>1, <1>3, PipelineFails
<1>4. \A e \in Datasets : e \in Int /\ e >= 1
  BY <1>0, DatasetsAre
<1>5. CASE NoFault /\ OnTo("setup", "prune")
  <2>1. CASE ds + 1 \in Datasets /\ At("setup", ds + 1)
    <3>1. stage' = "setup" /\ ds' = ds + 1 /\ failed' = failed
      BY <2>1 DEF At
    <3>2. \A e \in Datasets : /\ Settled(e)' <=> Settled(e)
                              /\ Received(e)' <=> Received(e)
                              /\ SourcePruned(e)' <=> SourcePruned(e)
      BY <1>0, <1>4, <3>1
      DEF Settled, Received, SourcePruned, Succeeded, Collecting, Syncing, Pruning
    <3> QED BY <1>0, <1>5, <2>1, <3>1, <3>2, PipelineGoesOn DEF Stages, Collecting
  <2>2. CASE ds + 1 \notin Datasets /\ At("prune", 1)
    <3>1. stage' = "prune" /\ ds' = 1 /\ failed' = failed /\ 1 \in Datasets
      BY <1>0, <2>2, DatasetsAre DEF At
    <3>2. \A e \in Datasets : e <= ds
      BY <1>0, <2>2, LastDataset
    <3>3. \A e \in Datasets : /\ Settled(e)' <=> Settled(e)
                              /\ Received(e)' <=> Received(e)
                              /\ SourcePruned(e)' <=> SourcePruned(e)
      BY <1>0, <1>4, <3>1, <3>2
      DEF Settled, Received, SourcePruned, Succeeded, Collecting, Syncing, Pruning
    <3> QED BY <1>0, <1>5, <3>1, <3>3, PipelineGoesOn DEF Stages, Collecting
  <2> QED BY <1>5, <2>1, <2>2 DEF OnTo
<1> QED BY <1>2, <1>3, <1>5 DEF SyncSuccess

-----------------------------------------------------------------------------
(***************************************************************************)
(* What the target receives.                                               *)
(***************************************************************************)

\* Snapshots the target gets from the source, or loses, are as ordered as before.
LEMMA OrderedKept ==
  ASSUME Ordered, UNCHANGED <<docker, nested, src>>,
         \A d \in Datasets : tgt'[d] \subseteq src[d] \cup tgt[d]
  PROVE  Ordered'
<1>1. /\ Datasets' = Datasets
      /\ \A s : Counts(s)' <=> Counts(s)
      /\ \A s : Migration(s)' <=> Migration(s)
  BY DEF Datasets, Counts, Migration
<1> QED BY <1>1 DEF Ordered, Image

\* All facts about a dataset of which neither side changes.
LEMMA OtherDatasets ==
  ASSUME OnDisk, NEW e \in Datasets, UNCHANGED <<docker, nested>>,
         src'[e] = src[e], tgt'[e] = tgt[e], token'[e] = token[e]
  PROVE  /\ Src(e)' = Src(e) /\ Tgt(e)' = Tgt(e)
         /\ token'[e] \subseteq src'[e] \ tgt'[e]
         /\ \A s, r \in token'[e] : s = r
         /\ token'[e] # {} => Src(e)' # {} /\ \A n \in tgt'[e] : ~ IsNewest(n, Src(e)')
         /\ \A s \in token'[e] : Counts(s) => IsNewest(s, Src(e)')
         /\ \A t \in Tgt(e)' : \E s \in Src(e)' : t.at <= s.at
         /\ \A n, p \in Src(e)' : IsNewest(n, Src(e)') /\ IsNewest(p, Src(e)' \ {n}) =>
              n \in tgt'[e] \/ p \in tgt'[e]
         /\ (e \in synced /\ ~ strayed) \/ (docker /\ tgt'[e] # {}) => Src(e)' \cap tgt'[e] # {}
<1>1. Src(e)' = Src(e) /\ Tgt(e)' = Tgt(e)
  BY DEF Src, Tgt, Rel, Counts, Migration
<1> QED BY <1>1 DEF OnDisk, Tokens, Bases

LEMMA SetUpOnDisk ==
  ASSUME IInv, NEW d \in Datasets, d = ds, Settled(d), ~ Received(d), TargetSetUp,
         UNCHANGED <<docker, nested, clock, own, src, synced, strayed, ctx>>
  PROVE  /\ ZfsTypes' /\ OnDisk'
         /\ \A e \in Datasets : e # d => tgt'[e] = tgt[e] /\ token'[e] = token[e]
         /\ Again(d)' /\ (ctx'[d].resume => token'[d] # {})
<1>0. /\ d \in 1 .. NumDatasets /\ Datasets \subseteq 1 .. NumDatasets /\ docker \in BOOLEAN
      /\ tgt \in [1 .. NumDatasets -> SUBSET Snapshots]
      /\ token \in [1 .. NumDatasets -> SUBSET Snapshots]
  BY DatasetsAre DEF IInv, Typed, ZfsTypes
<1>1. /\ tgt'[d] = IF ctx[d].first /\ ~ ctx[d].resume THEN {} ELSE tgt[d]
      /\ token'[d] = IF ctx[d].first /\ ~ ctx[d].resume THEN {} ELSE token[d]
      /\ \A e \in Datasets : e # d => tgt'[e] = tgt[e] /\ token'[e] = token[e]
      /\ tgt' \in [1 .. NumDatasets -> SUBSET Snapshots]
      /\ token' \in [1 .. NumDatasets -> SUBSET Snapshots]
  BY <1>0, PlainWithin DEF TargetSetUp, DestroysFirst, IInv, Typed, ZfsTypes
<1>2. ZfsTypes'
  BY <1>1 DEF IInv, Typed, ZfsTypes, Snapshots
<1>3. /\ Again(d) /\ (ctx[d].resume => token[d] # {}) /\ ctx[d].names = Src(d)
  BY DEF IInv, Contextual, Settlement
<1>4. PICK n \in Src(d) : About(d, n) /\ n \notin tgt[d]
  BY <1>3 DEF Again
<1>5. ctx[d].first => ctx[d].prev = {} /\ Src(d) = {n}
  BY <1>3, <1>4 DEF About
<1>6. /\ Datasets' = Datasets
      /\ \A s : Counts(s)' <=> Counts(s)
      /\ Src(d)' = Src(d)
  BY DEF Datasets, Src, Rel, Counts, Migration
<1>7. Ordered'
  <2>1. \A e \in Datasets : tgt'[e] \subseteq src[e] \cup tgt[e]
    BY <1>1
  <2> QED BY <2>1, OrderedKept DEF IInv, OnDisk
<1>8. CASE ctx[d].first /\ ~ ctx[d].resume
  <2>1. tgt'[d] = {} /\ token'[d] = {} /\ Tgt(d)' = {}
    BY <1>1, <1>8 DEF Tgt, Rel
  <2>2. Tokens'
    BY <1>1, <1>6, <2>1, OtherDatasets DEF IInv, Tokens
  <2>3. d \notin synced \/ strayed
    BY <1>4, <1>5, <1>8 DEF IInv, OnDisk, Bases
  <2>4. docker => ~ strayed
    BY DEF IInv, OnDisk, Bases
  <2>5. Bases'
    BY <1>1, <1>5, <1>6, <1>8, <2>1, <2>3, <2>4, OtherDatasets DEF IInv, Bases, IsNewest
  <2>6. Again(d)'
    <3>1. About(d, n)'
      BY <1>4, AboutKept
    <3> QED BY <1>4, <1>5, <1>6, <1>8, <2>1, <3>1 DEF Again
  <2> QED BY <1>1, <1>2, <1>7, <1>8, <2>2, <2>5, <2>6 DEF OnDisk
<1>9. CASE ~(ctx[d].first /\ ~ ctx[d].resume)
  <2>1. tgt'[d] = tgt[d] /\ token'[d] = token[d]
    BY <1>1, <1>9
  <2>2. Tokens'
    BY <1>1, <1>6, <2>1, OtherDatasets DEF IInv, Tokens
  <2>3. docker => ~ strayed
    BY DEF IInv, OnDisk, Bases
  <2>4. Bases'
    BY <1>1, <1>6, <2>1, <2>3, OtherDatasets DEF IInv, Bases
  <2>5. Again(d)'
    <3>1. About(d, n)'
      BY <1>4, AboutKept
    <3> QED BY <1>3, <1>4, <1>6, <2>1, <3>1 DEF Again
  <2> QED BY <1>1, <1>2, <1>3, <1>7, <2>1, <2>2, <2>4, <2>5 DEF OnDisk
<1> QED BY <1>8, <1>9

LEMMA SetupSyncStep ==
  ASSUME IInv, SetupSync
  PROVE  IInv'
<1>0. /\ stage = "setup" /\ ds \in Datasets /\ docker \in BOOLEAN /\ ~ failed
      /\ failed \in BOOLEAN /\ ctx \in [1 .. NumDatasets -> Contexts] /\ Running("setup")
      /\ UNCHANGED <<clock, src, ctx, synced, strayed>> /\ (aborted => disturbed)
      /\ UNCHANGED <<docker, nested, own, client, runs, lastOk, start, aborted>>
  BY DEF IInv, Typed, ZfsTypes, SenderTypes, Answers, SetupSync, Running
<1>1. PICK d \in Datasets : d = ds
  BY <1>0
<1>2. \A e \in Datasets : e \in Int /\ e >= 1
  BY <1>0, DatasetsAre
<1>3. Settled(d) /\ ~ Received(d)
  BY <1>0, <1>1, <1>2 DEF Settled, Received, Syncing, Pruning, Succeeded
<1>4. CASE aborted /\ Fails /\ NoFault /\ UNCHANGED <<tgt, token>>
  BY <1>0, <1>4, PipelineFails
<1>5. CASE UNCHANGED <<tgt, token>> /\ ReplyLost
  BY <1>0, <1>5, PipelineFails DEF ReplyLost
<1>6. ASSUME TargetSetUp
      PROVE  /\ ZfsTypes' /\ OnDisk'
             /\ \A e \in Datasets : e # d => tgt'[e] = tgt[e] /\ token'[e] = token[e]
             /\ Again(d)' /\ (ctx'[d].resume => token'[d] # {})
  BY <1>0, <1>1, <1>3, <1>6, SetUpOnDisk
<1>7. CASE TargetSetUp /\ ReplyLost
  <2>1. Fails /\ disturbed' = TRUE /\ faults' = faults + 1 /\ faults \in Nat
    BY <1>7 DEF ReplyLost, Fault, IInv, Typed, RunTypes
  <2>2. disturbed' /\ disturbed' \in BOOLEAN /\ faults' \in Nat
    BY <2>1
  <2>3. ctx' \in [1 .. NumDatasets -> Contexts] /\ stage \notin {"down", "listening", "done"}
    BY <1>0
  <2> QED BY <1>0, <1>6, <1>7, <2>1, <2>2, <2>3, FailureStep
<1>8. CASE TargetSetUp /\ At("stream", ds) /\ NoFault
  <2>1. /\ stage' = "stream" /\ ds' = ds /\ failed' = failed /\ UNCHANGED <<faults, disturbed>>
        /\ Datasets' = Datasets
    BY <1>0, <1>8 DEF At, NoFault, Datasets
  <2>2. Typed'
    <3>1. stage' \in Stages /\ ds' \in Datasets /\ failed' \in BOOLEAN
      BY <1>0, <2>1 DEF Stages
    <3>2. ctx' \in [1 .. NumDatasets -> Contexts]
      BY <1>0
    <3>3. SenderTypes' /\ RunTypes'
      BY <1>0, <1>8, <3>1, <3>2, PipelineTypes
    <3> QED BY <1>6, <1>8, <3>3 DEF Typed
  <2>3. \A e \in Datasets : /\ Settled(e)' <=> Settled(e)
                            /\ Received(e)' <=> Received(e)
                            /\ SourcePruned(e)' <=> SourcePruned(e)
    BY <1>0, <1>2, <2>1
    DEF Settled, Received, SourcePruned, Succeeded, Collecting, Syncing, Pruning
  <2>4. \A e \in Datasets : e # d /\ Settlement(e) => Settlement(e)'
    BY <1>0, <1>6, <1>8, <2>3, SettlementKept
  <2>5. Settlement(d)'
    <3>1. ctx[d].names = Src(d) /\ Src(d)' = Src(d)
      BY <1>0, <1>3 DEF IInv, Contextual, Settlement, Src, Rel, Counts, Migration
    <3>2. PICK n \in Src(d) : About(d, n)'
      BY <1>6, <1>8, <3>1 DEF Again
    <3>3. ~ Received(d)' /\ ~ SourcePruned(d)'
      BY <1>3, <2>1, <2>3 DEF SourcePruned, Pruning, Succeeded
    <3> QED BY <1>0, <1>6, <1>8, <3>1, <3>2, <3>3 DEF Settlement
  <2>6. Contextual'
    BY <1>3, <2>1, <2>3, <2>4, <2>5 DEF IInv, Contextual
  <2>7. Fresh'
    <3>1. FreshDue' = FreshDue
      BY <1>0 DEF FreshDue
    <3>2. \A e \in Datasets : TakesFresh(e) => TakesFresh(e)'
      BY <1>0, TakesFreshKept
    <3> QED BY <2>1, <2>3, <3>1, <3>2 DEF IInv, Fresh, Collecting
  <2>8. Answers'
    BY <1>0, <2>1, AnswersGoOn
  <2> QED BY <1>6, <1>8, <2>2, <2>6, <2>7, <2>8 DEF IInv
<1> QED BY Zenon, <1>4, <1>5, <1>7, <1>8 DEF SetupSync

\* zfs receive, the whole stream.
LEMMA ReceivesOnDisk ==
  ASSUME IInv, NEW d \in Datasets, d = ds, Settled(d), ~ Received(d), Receives,
         UNCHANGED <<docker, nested, clock, own, src>>
  PROVE  /\ ZfsTypes' /\ OnDisk' /\ synced' \subseteq Datasets /\ strayed' \in BOOLEAN
         /\ strayed => strayed'
         /\ \A e \in Datasets : e # d => tgt'[e] = tgt[e] /\ token'[e] = token[e]
         /\ token'[d] = {} /\ ctx[d].names = Src(d) /\ Src(d)' = Src(d)
         /\ \E n \in Src(d) : About(d, n) /\ (n \in tgt'[d] \/ (strayed' /\ ~ docker))
<1>0. /\ d \in 1 .. NumDatasets /\ Datasets \subseteq 1 .. NumDatasets /\ docker \in BOOLEAN
      /\ tgt \in [1 .. NumDatasets -> SUBSET Snapshots]
      /\ token \in [1 .. NumDatasets -> SUBSET Snapshots]
      /\ src \in [1 .. NumDatasets -> SUBSET Snapshots]
      /\ synced \subseteq Datasets /\ strayed \in BOOLEAN /\ ctx[d].resume \in BOOLEAN
  BY DatasetsAre, SnapshotTypes DEF IInv, Typed, ZfsTypes, RunTypes
<1>1. PICK dropped \in SUBSET (tgt[d] \ src[d]) :
        /\ tgt' = [tgt EXCEPT ![d] = (@ \ dropped) \cup Stream(d)]
        /\ ctx[d].resume => dropped = {}
  BY PlainReceives DEF IInv, Typed, ZfsTypes
<1>2. /\ token' = [token EXCEPT ![d] = {}] /\ synced' = synced \cup {d}
      /\ (strayed' <=> strayed \/ (ctx[d].resume /\ \E s \in token[d] : ~ Migration(s)))
      /\ strayed' \in BOOLEAN
  BY <1>0, PlainReceives DEF Receives, IInv, Typed, ZfsTypes
<1>3. /\ Stream(d) \subseteq src[d] /\ ctx[d].names = Src(d)
      /\ ctx[d].resume => Stream(d) = token[d] /\ token[d] # {}
  BY StreamIs
<1>4. PICK n \in Src(d) :
        /\ About(d, n) /\ n \notin tgt[d] /\ IsNewest(n, Src(d))
        /\ ~ ctx[d].resume => n \in Stream(d)
  BY StreamIs
<1>5. dropped \subseteq tgt[d] \ src[d]
  BY <1>1
<1>6. /\ tgt'[d] = (tgt[d] \ dropped) \cup Stream(d)
      /\ token'[d] = {}
      /\ \A e \in Datasets : e # d => tgt'[e] = tgt[e] /\ token'[e] = token[e]
      /\ tgt' \in [1 .. NumDatasets -> SUBSET Snapshots]
      /\ token' \in [1 .. NumDatasets -> SUBSET Snapshots]
  BY <1>0, <1>1, <1>2, <1>3
<1>7. ZfsTypes'
  BY <1>0, <1>6 DEF IInv, Typed, ZfsTypes, Snapshots
<1>8. /\ Datasets' = Datasets
      /\ \A s : Counts(s)' <=> Counts(s)
      /\ \A s : Migration(s)' <=> Migration(s)
      /\ Src(d)' = Src(d)
  BY DEF Datasets, Src, Rel, Counts, Migration
<1>9. /\ \A s \in token[d] : Counts(s) => IsNewest(s, Src(d))
      /\ \A s \in src[d] : s.at \in 0 .. clock /\ clock \in Nat
      /\ \A s \in src[d] : docker => s = Image \/ Migration(s)
      /\ docker => ~ strayed
      /\ token[d] \subseteq src[d]
  BY SnapshotTypes, SnapshotFields DEF IInv, OnDisk, Ordered, Tokens, Bases
<1>10. \A s : s \in Src(d) <=> s \in src[d] /\ Counts(s)
  BY DEF Src, Rel
<1>11. docker => ~ strayed'
  <2>1. ASSUME docker, ctx[d].resume, NEW s \in token[d], ~ Migration(s) PROVE FALSE
    <3>1. IsNewest(s, Src(d)) /\ s.at = 0
      BY <1>9, <2>1 DEF Counts, Image
    <3>2. ~ ctx[d].first
      BY <2>1 DEF IInv, Contextual, Settlement, Again
    <3>3. PICK p \in Src(d) \ {n} : TRUE
      BY <1>3, <1>4, <3>2 DEF About
    <3>4. \A r \in Src(d) : r = s
      BY <1>9, <1>10, <3>1 DEF IsNewest
    <3> QED BY <3>3, <3>4
  <2> QED BY <1>2, <1>9, <2>1
<1>12. n \in tgt'[d] \/ (strayed' /\ ~ docker)
  <2>1. CASE ~ ctx[d].resume
    BY <1>4, <1>6, <2>1
  <2>2. CASE ctx[d].resume
    <3>1. PICK s \in token[d] : s \in Stream(d)
      BY <1>3, <2>2
    <3>2. CASE Counts(s)
      <4>1. IsNewest(s, Src(d)) /\ s \in tgt'[d]
        BY <1>6, <1>9, <3>1, <3>2
      <4>2. s = n
        <5>1. s # n => s.at < n.at /\ n.at < s.at
          BY <1>4, <4>1 DEF IsNewest
        <5>2. s.at \in Int /\ n.at \in Int
          BY <1>4, <1>9, <1>10
        <5> QED BY <5>1, <5>2
      <4> QED BY <4>1, <4>2
    <3>3. CASE ~ Counts(s)
      BY <1>2, <2>2, <3>3 DEF Counts
    <3> QED BY <3>2, <3>3
  <2> QED BY <1>0, <2>1, <2>2
<1>13. Ordered'
  <2>1. \A e \in Datasets : tgt'[e] \subseteq src[e] \cup tgt[e]
    BY <1>3, <1>6
  <2> QED BY <2>1, OrderedKept DEF IInv, OnDisk
<1>14. Tokens'
  BY <1>6, <1>8, OtherDatasets DEF IInv, Tokens
<1>15. Bases'
  <2>1. ASSUME NEW e \in Datasets, e # d
        PROVE  /\ Src(e)' = Src(e) /\ Tgt(e)' = Tgt(e)
               /\ \A t \in Tgt(e) : \E s \in Src(e) : t.at <= s.at
               /\ \A r, p \in Src(e) : IsNewest(r, Src(e)) /\ IsNewest(p, Src(e) \ {r}) =>
                    r \in tgt'[e] \/ p \in tgt'[e]
               /\ (e \in synced' /\ ~ strayed') \/ (docker /\ tgt'[e] # {}) =>
                    Src(e) \cap tgt'[e] # {}
    <3>1. e \in synced' => e \in synced
      BY <1>2, <2>1
    <3>2. Src(e)' = Src(e) /\ Tgt(e)' = Tgt(e)
      BY <1>6, <2>1, OtherDatasets DEF IInv
    <3> QED BY <1>2, <1>6, <2>1, <3>1, <3>2 DEF IInv, OnDisk, Bases
  <2>2. \A t \in Tgt(d)' : t \in Tgt(d) \/ t \in Src(d)
    BY <1>3, <1>6, <1>8, <1>10 DEF Tgt, Rel
  <2>3. \A t \in Tgt(d)' : \E s \in Src(d) : t.at <= s.at
    <3>1. \A t \in Tgt(d) : \E s \in Src(d) : t.at <= s.at
      BY DEF IInv, OnDisk, Bases
    <3>2. \A t \in Src(d) : t.at <= t.at
      BY <1>9, <1>10
    <3> QED BY <2>2, <3>1, <3>2
  <2>4. \A r \in Src(d) \cap tgt[d] : r \in tgt'[d]
    BY <1>5, <1>6, <1>10
  <2>5. \A r, p \in Src(d) : IsNewest(r, Src(d)) /\ IsNewest(p, Src(d) \ {r}) =>
          r \in tgt'[d] \/ p \in tgt'[d]
    BY <2>4 DEF IInv, OnDisk, Bases
  <2>6. ~ strayed' \/ docker => Src(d) \cap tgt'[d] # {}
    BY <1>11, <1>12
  <2> QED BY <1>8, <1>11, <2>1, <2>3, <2>5, <2>6 DEF Bases, IsNewest
<1> QED BY <1>0, <1>2, <1>3, <1>4, <1>6, <1>7, <1>8, <1>12, <1>13, <1>14, <1>15 DEF OnDisk

\* zfs receive, as far as the stream came.
LEMMA ReceivesPartOnDisk ==
  ASSUME IInv, NEW d \in Datasets, d = ds, Settled(d), ~ Received(d), ReceivesPart,
         UNCHANGED <<docker, nested, clock, own, src>>
  PROVE  ZfsTypes' /\ OnDisk' /\ UNCHANGED <<synced, strayed>>
<1>0. /\ d \in 1 .. NumDatasets /\ Datasets \subseteq 1 .. NumDatasets /\ docker \in BOOLEAN
      /\ tgt \in [1 .. NumDatasets -> SUBSET Snapshots]
      /\ token \in [1 .. NumDatasets -> SUBSET Snapshots]
      /\ src \in [1 .. NumDatasets -> SUBSET Snapshots]
      /\ ctx[d].resume \in BOOLEAN /\ nested = FALSE
  BY DatasetsAre, SnapshotTypes DEF IInv, Typed, ZfsTypes
<1> DEFINE Rest(part) == Stream(d) \ (tgt[d] \cup part)
<1>1. PICK part \in SUBSET (Stream(d) \ tgt[d]) :
        /\ Rest(part) # {}
        /\ \A s \in part, r \in Rest(part) : s.at < r.at
        /\ tgt' = [tgt EXCEPT ![d] = @ \cup part]
        /\ \/ token' = [token EXCEPT ![d] = {Oldest(Rest(part))}]
           \/ part # {} /\ token' = [token EXCEPT ![d] = {}]
           \/ part = {} /\ UNCHANGED token
        /\ UNCHANGED <<synced, strayed>>
  <2>1. \E part \in SUBSET (Stream(d) \ tgt[d]) : PartCame(d, part)
    BY <1>0, PlainReceivesPart
  <2> QED BY <2>1, Zenon DEF PartCame
<1>2. PICK rest : rest = Rest(part)
  OBVIOUS
<1>3. /\ Stream(d) \subseteq src[d] /\ ctx[d].names = Src(d)
      /\ ctx[d].resume => Stream(d) = token[d] /\ token[d] # {}
      /\ ctx[d].prev \subseteq src[d] \cap tgt[d]
  BY StreamIs
<1>4. PICK n \in Src(d) :
        /\ About(d, n) /\ n \notin tgt[d] /\ IsNewest(n, Src(d))
        /\ ~ ctx[d].resume => /\ n \in Stream(d)
                              /\ \A s \in Stream(d) : s.at <= n.at
                              /\ \A s \in Stream(d) : Counts(s) => s = n
  BY StreamIs
<1>5. /\ part \subseteq Stream(d) /\ part \subseteq src[d] /\ part \cap tgt[d] = {}
      /\ rest # {} /\ rest \subseteq Stream(d) /\ rest \subseteq src[d]
      /\ rest \cap (tgt[d] \cup part) = {}
      /\ \A s \in part, r \in rest : s.at < r.at
  BY <1>1, <1>2, <1>3
<1>6. /\ \A s, r \in token[d] : s = r
      /\ \A s \in token[d] : Counts(s) => IsNewest(s, Src(d))
      /\ \A s \in src[d] : s.at \in 0 .. clock /\ clock \in Nat
      /\ \A s : s \in Src(d) <=> s \in src[d] /\ Counts(s)
      /\ \A m \in Src(d) : IsNewest(m, Src(d)) => m = n
  <2>1. \A s \in src[d] : s.at \in 0 .. clock /\ clock \in Nat
    BY SnapshotTypes, SnapshotFields DEF IInv
  <2>2. \A s : s \in Src(d) <=> s \in src[d] /\ Counts(s)
    BY DEF Src, Rel
  <2>3. ASSUME NEW m \in Src(d), IsNewest(m, Src(d)), m # n PROVE FALSE
    <3>1. m.at < n.at /\ n.at < m.at
      BY <1>4, <2>3 DEF IsNewest
    <3> QED BY <2>1, <2>2, <3>1
  <2> QED BY <2>1, <2>2, <2>3 DEF IInv, OnDisk, Tokens
<1>7. n \notin part
  <2>1. ASSUME n \in part PROVE FALSE
    <3>1. PICK r \in rest : r \in Stream(d) /\ n.at < r.at /\ r \in src[d]
      BY <1>5, <2>1
    <3>2. CASE ctx[d].resume
      BY <1>3, <1>5, <1>6, <2>1, <3>1, <3>2
    <3>3. CASE ~ ctx[d].resume
      BY <1>4, <1>6, <3>1, <3>3
    <3> QED BY <1>0, <3>2, <3>3
  <2> QED BY <2>1
<1>8. \A s \in Stream(d) : Counts(s) => s = n
  BY <1>0, <1>3, <1>4, <1>6
<1>9. IsOldest(Oldest(rest), rest) /\ Oldest(rest) \in rest
  <2>1. PICK o \in rest : IsOldest(o, rest)
    BY <1>5, SomeOldest DEF IInv, OnDisk
  <2>2. rest \subseteq SnapshotsTo(clock) /\ clock \in Nat
    BY <1>5, SnapshotTypes DEF IInv
  <2>3. Oldest(rest) = o
    BY <2>1, <2>2, OldestIs
  <2> QED BY <2>1, <2>3
<1>10. /\ tgt'[d] = tgt[d] \cup part
       /\ \A e \in Datasets : e # d => tgt'[e] = tgt[e] /\ token'[e] = token[e]
       /\ tgt' \in [1 .. NumDatasets -> SUBSET Snapshots]
       /\ token'[d] = {Oldest(rest)} \/ token'[d] = {} \/ (part = {} /\ token'[d] = token[d])
       /\ token' \in [1 .. NumDatasets -> SUBSET Snapshots]
  <2>1. part \subseteq Snapshots /\ {Oldest(rest)} \in SUBSET Snapshots
    BY <1>0, <1>5, <1>9
  <2>2. \/ token' = [token EXCEPT ![d] = {Oldest(rest)}]
        \/ token' = [token EXCEPT ![d] = {}]
        \/ part = {} /\ token' = token
    BY <1>1, <1>2
  <2>3. tgt' = [tgt EXCEPT ![d] = @ \cup part]
    BY <1>1
  <2>4. /\ tgt'[d] = tgt[d] \cup part
        /\ \A e \in Datasets : e # d => tgt'[e] = tgt[e]
        /\ tgt' \in [1 .. NumDatasets -> SUBSET Snapshots]
    BY <1>0, <2>1, <2>3
  <2>5. /\ \A e \in Datasets : e # d => token'[e] = token[e]
        /\ token' \in [1 .. NumDatasets -> SUBSET Snapshots]
        /\ token'[d] = {Oldest(rest)} \/ token'[d] = {} \/ (part = {} /\ token'[d] = token[d])
    <3>1. CASE part = {} /\ token' = token
      BY <1>0, <3>1
    <3>2. ASSUME NEW X \in SUBSET Snapshots, token' = [token EXCEPT ![d] = X]
          PROVE  /\ \A e \in Datasets : e # d => token'[e] = token[e]
                 /\ token' \in [1 .. NumDatasets -> SUBSET Snapshots]
                 /\ token'[d] = X
      BY <1>0, <3>2
    <3>3. CASE token' = [token EXCEPT ![d] = {Oldest(rest)}]
      BY <2>1, <3>2, <3>3, Zenon
    <3>4. CASE token' = [token EXCEPT ![d] = {}]
      <4>1. {} \in SUBSET Snapshots
        OBVIOUS
      <4> QED BY <3>2, <3>4, <4>1, Zenon
    <3> QED BY <2>2, <3>1, <3>3, <3>4
  <2> QED BY <2>4, <2>5
<1>11. ZfsTypes'
  BY <1>0, <1>10 DEF IInv, Typed, ZfsTypes, Snapshots
<1>12. /\ Datasets' = Datasets
       /\ \A s : Counts(s)' <=> Counts(s)
       /\ Src(d)' = Src(d)
  BY DEF Datasets, Src, Rel, Counts, Migration
<1>13. Ordered'
  <2>1. \A e \in Datasets : tgt'[e] \subseteq src[e] \cup tgt[e]
    BY <1>5, <1>10
  <2> QED BY <2>1, OrderedKept DEF IInv, OnDisk
<1>14. Tokens'
  <2>1. /\ token'[d] \subseteq src[d] \ tgt'[d]
        /\ \A s, r \in token'[d] : s = r
        /\ Src(d) # {} /\ \A m \in tgt'[d] : ~ IsNewest(m, Src(d))
        /\ \A s \in token'[d] : Counts(s) => IsNewest(s, Src(d))
    <3>1. \A m \in tgt'[d] : ~ IsNewest(m, Src(d))
      <4>1. n \notin tgt'[d]
        BY <1>4, <1>7, <1>10
      <4>2. \A m : IsNewest(m, Src(d)) => m = n
        BY <1>6 DEF IsNewest
      <4> QED BY <4>1, <4>2
    <3>2. CASE token'[d] = {Oldest(rest)}
      BY <1>4, <1>5, <1>8, <1>9, <1>10, <3>1, <3>2
    <3>3. CASE token'[d] = {}
      BY <3>1, <3>3
    <3>4. CASE part = {} /\ token'[d] = token[d]
      <4>1. token[d] \subseteq src[d] \ tgt[d]
        BY DEF IInv, OnDisk, Tokens
      <4> QED BY <1>6, <1>10, <3>1, <3>4, <4>1
    <3> QED BY <1>10, <3>2, <3>3, <3>4
  <2>2. Src(d)' = Src(d) /\ src'[d] = src[d]
    BY <1>12
  <2> QED BY <1>10, <1>12, <2>1, <2>2, OtherDatasets DEF IInv, Tokens, IsNewest
<1>15. Bases'
  <2>1. \A t \in Tgt(d)' : t \in Tgt(d) \/ t \in Src(d)
    BY <1>5, <1>6, <1>10, <1>12 DEF Tgt, Rel
  <2>2. \A t \in Tgt(d)' : \E s \in Src(d) : t.at <= s.at
    <3>1. \A t \in Tgt(d) : \E s \in Src(d) : t.at <= s.at
      BY DEF IInv, OnDisk, Bases
    <3>2. \A t \in Src(d) : t.at <= t.at
      BY <1>6
    <3> QED BY <2>1, <3>1, <3>2
  <2>3. \A r, p \in Src(d) : IsNewest(r, Src(d)) /\ IsNewest(p, Src(d) \ {r}) =>
          r \in tgt'[d] \/ p \in tgt'[d]
    BY <1>10 DEF IInv, OnDisk, Bases
  <2>4. (d \in synced /\ ~ strayed) \/ (docker /\ tgt'[d] # {}) => Src(d) \cap tgt'[d] # {}
    <3>1. (d \in synced /\ ~ strayed) \/ (docker /\ tgt[d] # {}) => Src(d) \cap tgt[d] # {}
      BY DEF IInv, OnDisk, Bases
    <3>2. ASSUME docker, part # {} PROVE FALSE
      <4>1. \A s \in part : s = n
        BY <1>5, <1>8, <3>2 DEF Counts
      <4> QED BY <1>7, <3>2, <4>1
    <3> QED BY <1>10, <3>1, <3>2
  <2>5. (docker => ~ strayed) /\ UNCHANGED <<synced, strayed>>
    BY <1>1 DEF IInv, OnDisk, Bases
  <2> QED BY <1>10, <1>12, <2>2, <2>3, <2>4, <2>5, OtherDatasets DEF IInv, Bases, IsNewest
<1> QED BY <1>1, <1>11, <1>13, <1>14, <1>15 DEF OnDisk

LEMMA ZfsSendStep ==
  ASSUME IInv, ZfsSend
  PROVE  IInv'
<1>0. /\ stage = "stream" /\ ds \in Datasets /\ docker \in BOOLEAN /\ ~ failed
      /\ failed \in BOOLEAN /\ ctx \in [1 .. NumDatasets -> Contexts] /\ Running("stream")
      /\ UNCHANGED <<clock, src, ctx>>
      /\ UNCHANGED <<docker, nested, own, client, runs, lastOk, start, aborted>>
  BY DEF IInv, Typed, ZfsTypes, SenderTypes, Answers, ZfsSend, Running
<1>1. PICK d \in Datasets : d = ds
  BY <1>0
<1>2. \A e \in Datasets : e \in Int /\ e >= 1
  BY <1>0, DatasetsAre
<1>3. Settled(d) /\ ~ Received(d)
  BY <1>0, <1>1, <1>2 DEF Settled, Received, Syncing, Pruning, Succeeded
<1>4. Receivable(ds)
  BY <1>1, <1>3, StreamIs
<1>5. CASE ReceivesPart /\ Fails /\ Fault
  <2>1. ZfsTypes' /\ OnDisk' /\ UNCHANGED <<synced, strayed>>
    BY <1>0, <1>1, <1>3, <1>5, ReceivesPartOnDisk
  <2>2. disturbed' = TRUE /\ faults' = faults + 1 /\ faults \in Nat
    BY <1>5 DEF Fault, IInv, Typed, RunTypes
  <2>3. disturbed' /\ disturbed' \in BOOLEAN /\ faults' \in Nat
    BY <2>2
  <2>4. ctx' \in [1 .. NumDatasets -> Contexts] /\ stage \notin {"down", "listening", "done"}
    BY <1>0
  <2> QED BY <1>0, <1>5, <2>1, <2>3, <2>4, FailureStep
<1>6. CASE Receives /\ At("received", ds) /\ NoFault
  <2>1. /\ stage' = "received" /\ ds' = ds /\ failed' = failed /\ UNCHANGED <<faults, disturbed>>
        /\ Datasets' = Datasets /\ Contexts' = Contexts
    BY <1>0, <1>6 DEF At, NoFault, Datasets, Contexts, Snapshots
  <2>2. /\ ZfsTypes' /\ OnDisk' /\ synced' \subseteq Datasets /\ strayed' \in BOOLEAN
        /\ strayed => strayed'
        /\ \A e \in Datasets : e # d => tgt'[e] = tgt[e] /\ token'[e] = token[e]
        /\ token'[d] = {} /\ ctx[d].names = Src(d) /\ Src(d)' = Src(d)
        /\ \E n \in Src(d) : About(d, n) /\ (n \in tgt'[d] \/ (strayed' /\ ~ docker))
    BY <1>0, <1>1, <1>3, <1>6, ReceivesOnDisk
  <2>3. Typed'
    <3>1. SenderTypes'
      BY <1>0, <2>1 DEF IInv, Typed, SenderTypes, Stages
    <3>2. RunTypes'
      BY <1>0, <2>1, <2>2 DEF IInv, Typed, RunTypes
    <3> QED BY <2>2, <3>1, <3>2 DEF Typed
  <2>4. \A e \in Datasets : /\ Settled(e)' <=> Settled(e)
                            /\ e # d => (Received(e)' <=> Received(e))
                            /\ SourcePruned(e)' <=> SourcePruned(e)
    BY <1>0, <1>1, <1>2, <2>1
    DEF Settled, Received, SourcePruned, Succeeded, Collecting, Syncing, Pruning
  <2>5. Received(d)' /\ ~ SourcePruned(d)'
    BY <1>1, <2>1 DEF Received, SourcePruned, Pruning, Succeeded
  <2>6. ASSUME NEW e \in Datasets, e # d, Settlement(e) PROVE Settlement(e)'
    <3>1. Src(e)' = Src(e)
      BY <1>0 DEF Src, Rel, Counts, Migration
    <3>2. \A n : About(e, n)' = About(e, n)
      BY <1>0, AboutKept
    <3>3. Again(e)' = Again(e)
      BY Zenon, <1>0, <2>2, <2>6, <3>1, <3>2 DEF Again
    <3>4. /\ tgt'[e] = tgt[e] /\ token'[e] = token[e]
          /\ Received(e)' <=> Received(e)
          /\ SourcePruned(e)' <=> SourcePruned(e)
      BY <2>2, <2>4, <2>6
    <3> QED BY <1>0, <2>2, <2>6, <3>1, <3>2, <3>3, <3>4 DEF Settlement, Migration
  <2>7. Settlement(d)'
    <3>1. PICK n \in Src(d) : About(d, n) /\ (n \in tgt'[d] \/ (strayed' /\ ~ docker))
      BY <2>2
    <3>2. About(d, n)'
      BY <1>0, <3>1, AboutKept
    <3> QED BY <1>0, <2>2, <2>5, <3>1, <3>2 DEF Settlement
  <2>8. Contextual'
    BY <2>1, <2>4, <2>6, <2>7 DEF IInv, Contextual
  <2>9. Fresh'
    <3>1. FreshDue' => FreshDue
      BY <1>0, <2>2 DEF FreshDue
    <3>2. \A e \in Datasets : TakesFresh(e) => TakesFresh(e)'
      BY <1>0, TakesFreshKept
    <3> QED BY <2>1, <2>4, <3>1, <3>2 DEF IInv, Fresh, Collecting
  <2>10. Answers'
    BY <1>0, <2>1, AnswersGoOn
  <2> QED BY <2>2, <2>3, <2>8, <2>9, <2>10 DEF IInv
<1> QED BY Zenon, <1>4, <1>5, <1>6 DEF ZfsSend

LEMMA SenderDiesStep ==
  ASSUME IInv, SenderDies
  PROVE  IInv'
<1>0. /\ stage \notin {"down", "listening", "done"} /\ Fault /\ Forgotten
      /\ client' = IF client = "waiting" THEN "cut" ELSE client
      /\ UNCHANGED <<docker, nested, clock, own, src, runs, lastOk, start>>
      /\ disturbed' = TRUE /\ faults' = faults + 1
      /\ stage' = "down" /\ ds' = 1 /\ aborted' = FALSE /\ failed' = FALSE
  BY DEF SenderDies, Fault, Forgotten
<1>1. docker \in BOOLEAN /\ ds \in Datasets /\ Datasets' = Datasets
  BY <1>0 DEF IInv, Typed, ZfsTypes, SenderTypes, Datasets
<1>2. ZfsTypes' /\ OnDisk' /\ synced' \subseteq Datasets /\ strayed' \in BOOLEAN
  <2>1. CASE UNCHANGED <<tgt, token, synced, strayed>>
    <3>1. ZfsTypes' /\ OnDisk'
      BY <1>0, <2>1, ZfsTypesKept, DiskKept DEF IInv, Typed
    <3> QED BY <2>1, <3>1 DEF IInv, Typed, RunTypes
  <2>2. CASE stage = "stream" /\ (Receives \/ ReceivesPart)
    <3>1. PICK d \in Datasets : d = ds
      BY <1>1
    <3>2. \A e \in Datasets : e \in Int /\ e >= 1
      BY <1>1, DatasetsAre
    <3>3. Settled(d) /\ ~ Received(d)
      BY <2>2, <3>1, <3>2 DEF Settled, Received, Syncing, Pruning, Succeeded
    <3>4. CASE Receives
      BY <1>0, <3>1, <3>3, <3>4, ReceivesOnDisk
    <3>5. CASE ReceivesPart
      <4>1. ZfsTypes' /\ OnDisk' /\ UNCHANGED <<synced, strayed>>
        BY <1>0, <3>1, <3>3, <3>5, ReceivesPartOnDisk
      <4> QED BY <4>1 DEF IInv, Typed, RunTypes
    <3> QED BY <2>2, <3>4, <3>5
  <2> QED BY Zenon, <2>1, <2>2 DEF SenderDies
<1>3. SenderTypes'
  BY <1>0, ForgottenTypes DEF IInv, Typed
<1>4. RunTypes'
  BY <1>0, <1>1, <1>2 DEF IInv, Typed, RunTypes
<1>5. Contextual' /\ Fresh'
  BY <1>0, DownFine
<1>6. Answers'
  BY <1>0 DEF IInv, Answers
<1> QED BY <1>2, <1>3, <1>4, <1>5, <1>6 DEF IInv, Typed

-----------------------------------------------------------------------------
(***************************************************************************)
(* cleanupSnapshots(), and the end of the sync.                            *)
(***************************************************************************)

\* What the source destroys is an older migration snapshot than the subject; the
\* newest two that are left are the newest two there were.
LEMMA PrunedOnSource ==
  ASSUME IInv, NEW d \in Datasets, d = ds, Settled(d), Received(d), ToPrune # {},
         SourceDestroyed,
         UNCHANGED <<docker, nested, clock, own, tgt, token, synced, strayed>>
  PROVE  /\ ZfsTypes' /\ OnDisk' /\ \A e \in Datasets : e # d => src'[e] = src[e]
         /\ src'[d] \subseteq src[d]
         /\ \A n \in Src(d) : About(d, n) => n \in Src(d)'
<1>0. /\ d \in 1 .. NumDatasets /\ Datasets \subseteq 1 .. NumDatasets /\ docker \in BOOLEAN
      /\ src \in [1 .. NumDatasets -> SUBSET Snapshots]
      /\ ctx[d].names \subseteq SnapshotsTo(clock) /\ clock \in Nat
  BY DatasetsAre, SnapshotTypes DEF IInv, Typed, ZfsTypes
<1>1. /\ Src(d) \subseteq ctx[d].names /\ token[d] = {}
  BY DEF IInv, Contextual, Settlement
<1>2. PICK n \in Src(d) : About(d, n) /\ (n \in tgt[d] \/ (strayed /\ ~ docker))
  BY DEF IInv, Contextual, Settlement
<1>3. IsNewest(n, ctx[d].names) /\ Newest(ctx[d].names) = n
  BY <1>0, <1>2, NewestIs DEF About
<1>4. PICK toPrune : /\ toPrune = ToPrune
                     /\ toPrune = {s \in (ctx[d].names \ {n}) \cap src[d] : Migration(s)}
  BY <1>3 DEF ToPrune, AllButNewest
<1>5. PICK o \in toPrune : IsOldest(o, toPrune)
  BY <1>4, SomeOldest DEF IInv, OnDisk
<1>6. Oldest(toPrune) = o
  <2>1. toPrune \subseteq SnapshotsTo(clock)
    BY <1>0, <1>4
  <2> QED BY <1>0, <1>5, <2>1, OldestIs
<1>7. /\ src'[d] = src[d] \ {o} /\ \A e \in Datasets : e # d => src'[e] = src[e]
      /\ src' \in [1 .. NumDatasets -> SUBSET Snapshots]
  <2>1. \A s \in src[d] : s.name = o.name => s = o
    <3>1. o \in src[d] /\ Counts(o) /\ Migration(o)
      BY <1>4, <1>5 DEF Counts
    <3>2. \A s \in src[d] : s.name = o.name => Counts(s)
      BY <3>1 DEF Counts, Migration
    <3>3. \A s \in src[d] : s.name \in Int /\ s.at \in Int
      BY SnapshotTypes, SnapshotFields DEF IInv
    <3> QED BY <3>1, <3>2, <3>3 DEF IInv, OnDisk, Ordered
  <2>2. src' = [src EXCEPT ![d] = {s \in src[d] : s.name # o.name}]
    <3>1. \A e : e \in Within(ds) <=> e = d
      BY PlainWithin DEF IInv, Typed, ZfsTypes
    <3>2. Oldest(ToPrune) = o
      BY <1>4, <1>6
    <3>3. src' = [e \in DOMAIN src |->
            IF e \in Within(ds) THEN {s \in src[e] : s.name # o.name} ELSE src[e]]
      BY <3>2 DEF SourceDestroyed
    <3> QED BY <1>0, <3>1, <3>3
  <2> QED BY <1>0, <2>1, <2>2
<1>8. /\ Datasets' = Datasets
      /\ \A s : Counts(s)' <=> Counts(s)
      /\ \A s : Migration(s)' <=> Migration(s)
      /\ \A e : Tgt(e)' = Tgt(e)
  BY DEF Datasets, Tgt, Rel, Counts, Migration
<1>9. Src(d)' = Src(d) \ {o} /\ o # n /\ o \in Src(d) /\ o \notin src'[d]
  BY <1>4, <1>5, <1>7, <1>8 DEF Src, Rel, Counts
<1>10. /\ \A s \in src[d] : s.at \in 0 .. clock
       /\ IsNewest(n, Src(d))
  BY <1>1, <1>2, <1>3, SnapshotTypes, SnapshotFields DEF IInv, IsNewest
<1>11. ZfsTypes'
  BY <1>0, <1>7 DEF IInv, Typed, ZfsTypes, Snapshots
<1>12. Ordered'
  <2>1. \A e \in Datasets : src'[e] \subseteq src[e]
    BY <1>7
  <2> QED BY <1>8, <2>1 DEF IInv, OnDisk, Ordered, Image
<1>13. Tokens'
  <2>1. token'[d] = {}
    BY <1>1
  <2> QED BY <1>7, <1>8, <2>1, OtherDatasets DEF IInv, Tokens
<1>14. Bases'
  <2>1. \A t \in Tgt(d) : \E s \in Src(d)' : t.at <= s.at
    <3>1. ASSUME NEW t \in Tgt(d) PROVE t.at <= n.at
      <4>1. PICK s \in Src(d) : t.at <= s.at
        BY DEF IInv, OnDisk, Bases
      <4>2. s.at <= n.at /\ s.at \in Int /\ n.at \in Int /\ t.at \in Int
        BY <1>0, <1>10, <4>1, SnapshotTypes, SnapshotFields DEF IsNewest, Src, Tgt, Rel, IInv
      <4> QED BY <4>1, <4>2
    <3> QED BY <1>9, <3>1
  <2>2. ASSUME NEW r \in Src(d)', NEW p \in Src(d)',
               IsNewest(r, Src(d)'), IsNewest(p, Src(d)' \ {r})
        PROVE  r \in tgt[d] \/ p \in tgt[d]
    <3>1. r = n
      <4>1. r # n => r.at < n.at /\ n.at < r.at
        BY <1>9, <1>10, <2>2 DEF IsNewest
      <4>2. r.at \in Int /\ n.at \in Int
        BY <1>9, <1>10 DEF Src, Rel
      <4> QED BY <4>1, <4>2
    <3>2. CASE n \in tgt[d]
      BY <3>1, <3>2
    <3>3. CASE ~ docker
      <4>1. p \in toPrune /\ p # o
        BY <1>1, <1>4, <1>9, <2>2, <3>1, <3>3 DEF Src, Rel, Counts, IsNewest
      <4>2. o.at < p.at
        BY <1>5, <4>1 DEF IsOldest
      <4>3. IsNewest(p, Src(d) \ {n})
        BY <1>9, <2>2, <3>1, <4>2 DEF IsNewest
      <4>4. p \in Src(d) /\ n \in Src(d)
        BY <1>9, <2>2
      <4> QED BY <1>10, <3>1, <4>3, <4>4 DEF IInv, OnDisk, Bases
    <3> QED BY <1>2, <3>2, <3>3
  <2>3. (d \in synced /\ ~ strayed) \/ (docker /\ tgt[d] # {}) => Src(d)' \cap tgt[d] # {}
    <3>1. docker => ~ strayed
      BY DEF IInv, OnDisk, Bases
    <3> QED BY <1>2, <1>9, <3>1
  <2>4. docker => ~ strayed
    BY DEF IInv, OnDisk, Bases
  <2> QED BY <1>7, <1>8, <2>1, <2>2, <2>3, <2>4, OtherDatasets DEF IInv, Bases, IsNewest
<1>15. \A m \in Src(d) : About(d, m) => m \in Src(d)'
  <2>1. ASSUME NEW m \in Src(d), About(d, m), m # n PROVE FALSE
    <3>1. m.at < n.at /\ n.at < m.at
      BY <1>1, <1>3, <2>1 DEF About, IsNewest
    <3>2. m.at \in Int /\ n.at \in Int
      BY <1>10, <2>1 DEF Src, Rel
    <3> QED BY <3>1, <3>2
  <2> QED BY <1>9, <2>1
<1> QED BY <1>7, <1>11, <1>12, <1>13, <1>14, <1>15 DEF OnDisk

LEMMA PruneSourceStep ==
  ASSUME IInv, PruneSource
  PROVE  IInv'
<1>0. /\ stage = "prune" /\ ds \in Datasets /\ docker \in BOOLEAN /\ ~ failed
      /\ failed \in BOOLEAN /\ ctx \in [1 .. NumDatasets -> Contexts] /\ Running("prune")
      /\ UNCHANGED <<clock, tgt, token, synced, strayed, ctx>>
      /\ UNCHANGED <<docker, nested, own, client, runs, lastOk, start, aborted>>
  BY DEF IInv, Typed, ZfsTypes, SenderTypes, Answers, PruneSource, Running
<1>1. PICK d \in Datasets : d = ds
  BY <1>0
<1>2. \A e \in Datasets : e \in Int /\ e >= 1
  BY <1>0, DatasetsAre
<1>3. Settled(d) /\ Received(d) /\ ~ SourcePruned(d)
  BY <1>0, <1>1, <1>2 DEF Settled, Received, SourcePruned, Syncing, Pruning, Succeeded
<1>4. CASE ToPrune # {} /\ Fails /\ Fault /\ UNCHANGED src
  BY <1>0, <1>4, PipelineFails
<1>5. PICK n \in Src(d) : About(d, n) /\ (n \in tgt[d] \/ (strayed /\ ~ docker))
  BY <1>3 DEF IInv, Contextual, Settlement
<1>6. Src(d) \subseteq ctx[d].names /\ token[d] = {}
  BY <1>3 DEF IInv, Contextual, Settlement
<1>7. ASSUME NEW t \in {"prune", "pruneTarget"}, At(t, ds), NoFault,
             ZfsTypes', OnDisk', \A e \in Datasets : e # d => src'[e] = src[e], Settlement(d)'
      PROVE  IInv'
  <2>1. /\ stage' = t /\ ds' = ds /\ failed' = failed /\ UNCHANGED <<faults, disturbed>>
        /\ Datasets' = Datasets
    BY <1>0, <1>7 DEF At, NoFault, Datasets
  <2>2. Typed'
    <3>1. stage' \in Stages /\ ds' \in Datasets /\ failed' \in BOOLEAN
      BY <1>0, <2>1 DEF Stages
    <3>2. ctx' \in [1 .. NumDatasets -> Contexts]
      BY <1>0
    <3>3. SenderTypes' /\ RunTypes'
      BY <1>0, <1>7, <3>1, <3>2, PipelineTypes
    <3> QED BY <1>7, <3>3 DEF Typed
  <2>3. \A e \in Datasets : /\ Settled(e)' <=> Settled(e)
                            /\ Received(e)' <=> Received(e)
                            /\ e # d => (SourcePruned(e)' <=> SourcePruned(e))
    BY <1>0, <1>1, <1>2, <2>1
    DEF Settled, Received, SourcePruned, Succeeded, Collecting, Syncing, Pruning
  <2>4. \A e \in Datasets : e # d /\ Settlement(e) => Settlement(e)'
    BY <1>0, <1>7, <2>3, SettlementKept
  <2>5. Contextual'
    BY <1>7, <2>1, <2>3, <2>4 DEF IInv, Contextual
  <2>6. Fresh'
    <3>1. FreshDue' = FreshDue
      BY <1>0 DEF FreshDue
    <3>2. \A e \in Datasets : TakesFresh(e) => TakesFresh(e)'
      BY <1>0, TakesFreshKept
    <3> QED BY <2>1, <2>3, <3>1, <3>2 DEF IInv, Fresh, Collecting
  <2>7. Answers'
    BY <1>0, <2>1, AnswersGoOn
  <2> QED BY <1>7, <2>2, <2>5, <2>6, <2>7 DEF IInv
<1>8. About(d, n)'
  BY <1>0, <1>5, AboutKept
<1>9. CASE ToPrune = {} /\ At("pruneTarget", ds) /\ NoFault /\ UNCHANGED src
  <2>1. ZfsTypes' /\ OnDisk'
    BY <1>0, <1>9, ZfsTypesKept, DiskKept DEF IInv, Typed
  <2>2. \A s \in src[d] : Migration(s) => s = n
    <3>1. /\ ctx[d].names \subseteq SnapshotsTo(clock) /\ clock \in Nat
          /\ IsNewest(n, ctx[d].names)
      BY <1>5, SnapshotTypes DEF IInv, About
    <3>2. Newest(ctx[d].names) = n
      BY <3>1, NewestIs
    <3>3. {s \in (ctx[d].names \ {n}) \cap src[d] : Migration(s)} = {}
      BY <1>1, <1>9, <3>2 DEF ToPrune, AllButNewest
    <3> QED BY <1>6, <3>3 DEF Src, Rel, Counts
  <2>3. Received(d)' /\ Src(d)' = Src(d)
    BY <1>0, <1>9 DEF Received, Pruning, At, Src, Rel, Counts, Migration
  <2>4. Settlement(d)'
    BY <1>0, <1>5, <1>6, <1>8, <1>9, <2>2, <2>3 DEF Settlement, Migration
  <2> QED BY <1>7, <1>9, <2>1, <2>4
<1>10. CASE ToPrune # {} /\ SourceDestroyed /\ At("prune", ds) /\ NoFault
  <2>1. /\ ZfsTypes' /\ OnDisk' /\ \A e \in Datasets : e # d => src'[e] = src[e]
        /\ src'[d] \subseteq src[d]
        /\ \A m \in Src(d) : About(d, m) => m \in Src(d)'
    BY <1>0, <1>1, <1>3, <1>10, PrunedOnSource
  <2>2. Received(d)' /\ ~ SourcePruned(d)' /\ Src(d)' \subseteq Src(d)
    <3>1. stage' = "prune" /\ ds' = d
      BY <1>1, <1>10 DEF At
    <3>2. Src(d)' \subseteq Src(d)
      BY <1>0, <2>1 DEF Src, Rel, Counts, Migration
    <3> QED BY <1>2, <3>1, <3>2 DEF Received, SourcePruned, Pruning, Succeeded
  <2>3. Settlement(d)'
    BY <1>0, <1>5, <1>6, <1>8, <2>1, <2>2 DEF Settlement
  <2> QED BY <1>7, <1>10, <2>1, <2>3
<1> QED BY Zenon, <1>4, <1>9, <1>10 DEF PruneSource

\* What the target destroys is not the subject.
LEMMA PrunedOnTarget ==
  ASSUME IInv, NEW d \in Datasets, d = ds, Settled(d), Received(d), SourcePruned(d), TargetPruned,
         UNCHANGED <<docker, nested, clock, own, src, token, synced, strayed, ctx>>
  PROVE  /\ ZfsTypes' /\ OnDisk' /\ \A e \in Datasets : e # d => tgt'[e] = tgt[e]
         /\ (Received(d)' => Settlement(d)')
<1>0. /\ d \in 1 .. NumDatasets /\ Datasets \subseteq 1 .. NumDatasets /\ docker \in BOOLEAN
      /\ tgt \in [1 .. NumDatasets -> SUBSET Snapshots]
  BY DatasetsAre DEF IInv, Typed, ZfsTypes
<1>1. Src(d) \subseteq ctx[d].names /\ token[d] = {}
  BY DEF IInv, Contextual, Settlement
<1>2. PICK n \in Src(d) : /\ About(d, n) /\ (n \in tgt[d] \/ (strayed /\ ~ docker))
                          /\ \A s \in src[d] : Migration(s) => s = n
  BY DEF IInv, Contextual, Settlement
<1>3. n.name \notin Names(ObsoleteOnTarget)
  <2>1. CASE ctx[d].first
    BY <2>1 DEF ObsoleteOnTarget, Names
  <2>2. CASE ~ ctx[d].first
    <3>1. PICK p : ctx[d].prev = {p} /\ p.name # n.name
      BY <1>2, <2>2 DEF About
    <3> QED BY <2>2, <3>1 DEF ObsoleteOnTarget, Names
  <2> QED BY <2>1, <2>2
<1> HIDE DEF ObsoleteOnTarget
<1>4. /\ tgt'[d] = {s \in tgt[d] : s.name \notin Names(ObsoleteOnTarget)}
      /\ \A e \in Datasets : e # d => tgt'[e] = tgt[e]
      /\ tgt' \in [1 .. NumDatasets -> SUBSET Snapshots]
  BY <1>0, PlainWithin DEF TargetPruned, IInv, Typed, ZfsTypes
<1>5. tgt'[d] \subseteq tgt[d] /\ (n \in tgt'[d] \/ (strayed /\ ~ docker))
  BY <1>2, <1>3, <1>4
<1>6. ZfsTypes'
  BY <1>4 DEF IInv, Typed, ZfsTypes, Snapshots
<1>7. /\ Datasets' = Datasets
      /\ \A s : Counts(s)' <=> Counts(s)
      /\ \A s : Migration(s)' <=> Migration(s)
      /\ Src(d)' = Src(d) /\ Tgt(d)' \subseteq Tgt(d)
  BY <1>5 DEF Datasets, Src, Tgt, Rel, Counts, Migration
<1>8. Ordered'
  <2>1. \A e \in Datasets : tgt'[e] \subseteq src[e] \cup tgt[e]
    BY <1>4, <1>5
  <2> QED BY <2>1, OrderedKept DEF IInv, OnDisk
<1>9. Tokens'
  <2>1. token'[d] = {}
    BY <1>1
  <2> QED BY <1>4, <1>7, <2>1, OtherDatasets DEF IInv, Tokens
<1>10. Bases'
  <2>1. \A t \in Tgt(d)' : \E s \in Src(d) : t.at <= s.at
    BY <1>7 DEF IInv, OnDisk, Bases
  <2>2. ASSUME NEW r \in Src(d), NEW p \in Src(d), IsNewest(r, Src(d)), IsNewest(p, Src(d) \ {r})
        PROVE  r \in tgt'[d] \/ p \in tgt'[d]
    <3>1. CASE n \in tgt'[d]
      <4>1. ASSUME r # n PROVE FALSE
        <5>1. r.at < n.at /\ n.at < r.at
          BY <1>1, <1>2, <2>2, <4>1 DEF About, IsNewest
        <5>2. r.at \in Int /\ n.at \in Int
          BY <2>2, SnapshotTypes, SnapshotFields DEF IInv, Src, Rel
        <5> QED BY <5>1, <5>2
      <4> QED BY <3>1, <4>1
    <3>2. CASE ~ docker
      <4>1. r = n /\ p = n
        BY <1>2, <3>2 DEF Src, Rel, Counts
      <4> QED BY <2>2, <4>1 DEF IsNewest
    <3> QED BY <1>5, <3>1, <3>2
  <2>3. docker => ~ strayed
    BY DEF IInv, OnDisk, Bases
  <2>4. ~ strayed \/ docker => Src(d) \cap tgt'[d] # {}
    BY <1>5, <2>3
  <2> QED BY <1>4, <1>7, <2>1, <2>2, <2>3, <2>4, OtherDatasets DEF IInv, Bases, IsNewest
<1>11. Received(d)' => Settlement(d)'
  <2>1. About(d, n)'
    BY <1>2, AboutKept
  <2> QED BY <1>1, <1>2, <1>5, <1>7, <2>1 DEF Settlement
<1> QED BY <1>4, <1>6, <1>8, <1>9, <1>10, <1>11 DEF OnDisk

LEMMA PruneTargetStep ==
  ASSUME IInv, PruneTarget
  PROVE  IInv'
<1>0. /\ stage = "pruneTarget" /\ ds \in Datasets /\ docker \in BOOLEAN /\ ~ failed
      /\ failed \in BOOLEAN /\ ctx \in [1 .. NumDatasets -> Contexts] /\ Running("pruneTarget")
      /\ UNCHANGED <<clock, src, token, synced, strayed, ctx>> /\ (aborted => disturbed)
      /\ UNCHANGED <<docker, nested, own, client, runs, lastOk, start, aborted>>
  BY DEF IInv, Typed, ZfsTypes, SenderTypes, Answers, PruneTarget, Running
<1>1. PICK d \in Datasets : d = ds
  BY <1>0
<1>2. \A e \in Datasets : e \in Int /\ e >= 1
  BY <1>0, DatasetsAre
<1>3. Settled(d) /\ Received(d) /\ SourcePruned(d)
  BY <1>0, <1>1, <1>2 DEF Settled, Received, SourcePruned, Syncing, Pruning, Succeeded
<1>4. CASE aborted /\ Fails /\ NoFault /\ UNCHANGED tgt
  BY <1>0, <1>4, PipelineFails
<1>5. CASE UNCHANGED tgt /\ ReplyLost
  BY <1>0, <1>5, PipelineFails DEF ReplyLost
<1>6. ASSUME TargetPruned
      PROVE  /\ ZfsTypes' /\ OnDisk' /\ \A e \in Datasets : e # d => tgt'[e] = tgt[e]
             /\ (Received(d)' => Settlement(d)')
  BY <1>0, <1>1, <1>3, <1>6, PrunedOnTarget
<1>7. CASE TargetPruned /\ ReplyLost
  <2>1. Fails /\ disturbed' = TRUE /\ faults' = faults + 1 /\ faults \in Nat
    BY <1>7 DEF ReplyLost, Fault, IInv, Typed, RunTypes
  <2>2. disturbed' /\ disturbed' \in BOOLEAN /\ faults' \in Nat
    BY <2>1
  <2>3. ctx' \in [1 .. NumDatasets -> Contexts] /\ stage \notin {"down", "listening", "done"}
    BY <1>0
  <2> QED BY <1>0, <1>6, <1>7, <2>1, <2>2, <2>3, FailureStep
<1>8. CASE TargetPruned /\ OnTo("prune", "shutdown") /\ NoFault
  <2>1. /\ stage' \in {"prune", "shutdown"} /\ ds' \in Datasets /\ failed' = failed
        /\ UNCHANGED <<faults, disturbed>> /\ Datasets' = Datasets
        /\ \A e \in Datasets : /\ Settled(e)' <=> Settled(e)
                               /\ Received(e)' <=> Received(e)
                               /\ SourcePruned(e)' <=> SourcePruned(e)
    <3>1. UNCHANGED <<faults, disturbed>> /\ Datasets' = Datasets
      BY <1>0, <1>8 DEF NoFault, Datasets
    <3>2. CASE ds + 1 \in Datasets /\ At("prune", ds + 1)
      <4>1. stage' = "prune" /\ ds' = ds + 1 /\ failed' = failed
        BY <3>2 DEF At
      <4>2. \A e \in Datasets : /\ Settled(e)' <=> Settled(e)
                                /\ Received(e)' <=> Received(e)
                                /\ SourcePruned(e)' <=> SourcePruned(e)
        BY <1>0, <1>2, <4>1
        DEF Settled, Received, SourcePruned, Succeeded, Collecting, Syncing, Pruning
      <4> QED BY <3>1, <3>2, <4>1, <4>2
    <3>3. CASE ds + 1 \notin Datasets /\ At("shutdown", 1)
      <4>1. stage' = "shutdown" /\ ds' = 1 /\ failed' = failed /\ 1 \in Datasets
        BY <1>0, <3>3, DatasetsAre DEF At
      <4>2. \A e \in Datasets : e <= ds
        BY <1>0, <3>3, LastDataset
      <4>3. \A e \in Datasets : /\ Settled(e)' <=> Settled(e)
                                /\ Received(e)' <=> Received(e)
                                /\ SourcePruned(e)' <=> SourcePruned(e)
        BY <1>0, <1>2, <4>1, <4>2
        DEF Settled, Received, SourcePruned, Succeeded, Collecting, Syncing, Pruning
      <4> QED BY <3>1, <4>1, <4>3
    <3> QED BY <1>8, <3>2, <3>3 DEF OnTo
  <2>2. Typed'
    <3>1. stage' \in Stages /\ failed' \in BOOLEAN
      BY <1>0, <2>1 DEF Stages
    <3>2. ctx' \in [1 .. NumDatasets -> Contexts]
      BY <1>0
    <3>3. SenderTypes' /\ RunTypes'
      BY <1>0, <1>8, <2>1, <3>1, <3>2, PipelineTypes
    <3> QED BY <1>6, <1>8, <3>3 DEF Typed
  <2>3. \A e \in Datasets : e # d /\ Settlement(e) => Settlement(e)'
    BY <1>0, <1>6, <1>8, <2>1, SettlementKept
  <2>4. Settlement(d)'
    BY <1>3, <1>6, <1>8, <2>1
  <2>5. Contextual'
    BY <2>1, <2>3, <2>4 DEF IInv, Contextual
  <2>6. Fresh'
    <3>1. FreshDue' = FreshDue
      BY <1>0 DEF FreshDue
    <3>2. \A e \in Datasets : TakesFresh(e) => TakesFresh(e)'
      BY <1>0, TakesFreshKept
    <3> QED BY <2>1, <3>1, <3>2 DEF IInv, Fresh, Collecting
  <2>7. Answers'
    BY <1>0, <2>1, AnswersGoOn
  <2> QED BY <1>6, <1>8, <2>2, <2>5, <2>6, <2>7 DEF IInv
<1> QED BY Zenon, <1>4, <1>5, <1>7, <1>8 DEF PruneTarget

\* What the client is told of when run() has come through.
LEMMA SuccessIsReplicated ==
  ASSUME IInv, Succeeded, NEW d \in Datasets
  PROVE  Replicated(d)
<1>1. Settled(d) /\ Received(d) /\ SourcePruned(d)
  BY DEF Settled, Received, SourcePruned
<1>2. Src(d) \subseteq ctx[d].names /\ ctx[d].names \subseteq SnapshotsTo(clock)
  BY <1>1, SnapshotTypes DEF IInv, Contextual, Settlement
<1>3. PICK n \in Src(d) : /\ About(d, n) /\ (n \in tgt[d] \/ strayed)
                          /\ \A s \in src[d] : Migration(s) => s = n
  BY <1>1 DEF IInv, Contextual, Settlement
<1>4. IsNewest(n, ctx[d].names) /\ IsNewest(n, Src(d))
  BY <1>2, <1>3 DEF About, IsNewest
<1>5. FreshDue => Migration(n) /\ n.at > start
  <2>1. ASSUME FreshDue PROVE Migration(n) /\ n.at > start
    <3>1. PICK m \in ctx[d].names : IsNewest(m, ctx[d].names) /\ Migration(m) /\ m.at > start
      BY <1>1, <2>1 DEF IInv, Fresh, TakesFresh
    <3>2. m = n
      <4>1. m # n => m.at < n.at /\ n.at < m.at
        BY <1>4, <3>1 DEF IsNewest
      <4>2. m.at \in Int /\ n.at \in Int
        BY <1>2, <1>3, <3>1, SnapshotFields
      <4> QED BY <4>1, <4>2
    <3> QED BY <3>1, <3>2
  <2> QED BY <2>1
<1> QED BY <1>3, <1>4, <1>5 DEF Replicated

LEMMA FinishStep ==
  ASSUME IInv, Finish
  PROVE  IInv'
<1>0. /\ stage = "shutdown"
      /\ client' = IF client = "waiting" THEN IF failed THEN "error" ELSE "ok" ELSE client
      /\ UNCHANGED <<docker, nested, clock, own, src, tgt, token, runs, faults, disturbed, lastOk, start,
                     synced, strayed>>
  BY DEF Finish, zfsVars, boundVars, historyVars
<1>1. ZfsTypes' /\ OnDisk' /\ Datasets' = Datasets /\ Contexts' = Contexts
  BY <1>0, ZfsTypesKept, DiskKept DEF IInv, Typed
<1>2. RunTypes'
  BY <1>0, <1>1 DEF IInv, Typed, RunTypes
<1>3. client # "ok" /\ client # "none"
  BY <1>0 DEF IInv, Answers
<1>4. CASE failed /\ Forgotten
  <2>1. SenderTypes'
    BY <1>0, <1>4, ForgottenTypes DEF IInv, Typed
  <2>2. Contextual' /\ Fresh'
    BY <1>4, DownFine DEF Forgotten
  <2>3. stage' = "down" /\ ds' = 1 /\ aborted' = FALSE /\ failed' = FALSE
    BY <1>4 DEF Forgotten
  <2>4. Answers'
    BY <1>0, <1>3, <1>4, <2>3 DEF Answers
  <2> QED BY <1>1, <1>2, <2>1, <2>2, <2>4 DEF IInv, Typed
<1>5. CASE ~ failed /\ stage' = "done" /\ UNCHANGED <<ds, ctx, aborted, failed>>
  <2>1. SenderTypes'
    BY <1>1, <1>5 DEF IInv, Typed, SenderTypes, Stages
  <2>2. \A d : /\ Settled(d)' <=> Settled(d)
               /\ Received(d)' <=> Received(d)
               /\ SourcePruned(d)' <=> SourcePruned(d)
    BY <1>0, <1>5
    DEF Settled, Received, SourcePruned, Succeeded, Collecting, Syncing, Pruning
  <2>3. \A d \in Datasets : Settlement(d) => Settlement(d)'
    BY <1>0, <1>5, <2>2, SettlementKept
  <2>4. Contextual'
    BY <1>1, <1>5, <2>2, <2>3 DEF IInv, Contextual
  <2>5. Fresh'
    <3>1. FreshDue' = FreshDue
      BY <1>0 DEF FreshDue
    <3>2. \A d \in Datasets : TakesFresh(d) => TakesFresh(d)'
      BY <1>0, <1>5, TakesFreshKept
    <3> QED BY <1>1, <1>5, <2>2, <3>1, <3>2 DEF IInv, Fresh, Collecting
  <2>6. \A d \in Datasets : Replicated(d)'
    <3>1. Succeeded
      BY <1>0, <1>5 DEF Succeeded
    <3> QED BY <1>0, <3>1, SuccessIsReplicated, ReplicatedKept
  <2>7. Answers'
    BY <1>0, <1>1, <1>3, <1>5, <2>6 DEF IInv, Answers
  <2> QED BY <1>1, <1>2, <2>1, <2>4, <2>5, <2>7 DEF IInv, Typed
<1> QED BY Zenon, <1>4, <1>5 DEF Finish

\* The owner's snapshots are none the sync goes by.
LEMMA OwnSnapshotStep ==
  ASSUME IInv, OwnSnapshot
  PROVE  IInv'
<1>0. /\ ~ docker /\ own' = own + 1 /\ clock' = clock + 1
      /\ UNCHANGED <<docker, nested, tgt, token, stage, ds, ctx, aborted, failed, client, runs, faults,
                     disturbed, lastOk, start, synced, strayed>>
  BY DEF OwnSnapshot, senderVars, boundVars, historyVars
<1>1. /\ docker \in BOOLEAN /\ clock \in Nat /\ own \in Nat
      /\ src \in [1 .. NumDatasets -> SUBSET Snapshots]
      /\ tgt \in [1 .. NumDatasets -> SUBSET Snapshots]
      /\ token \in [1 .. NumDatasets -> SUBSET Snapshots]
      /\ Datasets \subseteq 1 .. NumDatasets /\ Datasets' = Datasets
  BY <1>0, DatasetsAre DEF IInv, Typed, ZfsTypes, Datasets
<1>2. PICK new : new = [name |-> -own', at |-> clock']
  OBVIOUS
<1>3. new.name = -(own + 1) /\ new.at = clock + 1 /\ ~ Migration(new) /\ ~ Counts(new)
  BY <1>0, <1>1, <1>2 DEF Migration, Counts
<1>4. /\ Snapshots \subseteq Snapshots' /\ new \in Snapshots' /\ Contexts \subseteq Contexts'
  <2>1. Snapshots \subseteq Snapshots'
    BY <1>0, <1>1 DEF Snapshots
  <2>2. new \in Snapshots'
    BY <1>0, <1>1, <1>2 DEF Snapshots
  <2> QED BY <2>1, <2>2 DEF Contexts
<1>5. src' = [d \in DOMAIN src |-> IF d \in Datasets THEN src[d] \cup {new} ELSE src[d]]
  BY <1>2 DEF OwnSnapshot
<1>6. /\ src' \in [1 .. NumDatasets -> SUBSET Snapshots']
      /\ \A d \in Datasets : src'[d] = src[d] \cup {new}
  BY <1>1, <1>4, <1>5
<1>7. /\ \A s : Counts(s)' <=> Counts(s)
      /\ \A s : Migration(s)' <=> Migration(s)
      /\ \A d : Tgt(d)' = Tgt(d)
  BY <1>0 DEF Counts, Migration, Tgt, Rel
<1>8. \A d \in Datasets : Src(d)' = Src(d)
  BY <1>3, <1>6, <1>7 DEF Src, Rel
<1>9. \A d \in Datasets : \A s \in src[d] \cup tgt[d] : s.at < new.at /\ s.at \in Int
  BY <1>1, <1>3, SnapshotTypes, SnapshotFields DEF IInv
<1>10. Typed'
  <2>1. ZfsTypes'
    BY <1>0, <1>1, <1>4, <1>6 DEF ZfsTypes, IInv, Typed
  <2>2. SenderTypes'
    BY <1>0, <1>1, <1>4 DEF IInv, Typed, SenderTypes
  <2>3. RunTypes'
    BY <1>0, <1>1 DEF IInv, Typed, RunTypes
  <2> QED BY <2>1, <2>2, <2>3 DEF Typed
<1>11. Ordered'
  <2>1. ASSUME NEW d \in Datasets, NEW r \in src'[d] \cup tgt'[d], NEW s \in src'[d] \cup tgt'[d]
        PROVE  /\ r.at = s.at => r = s
               /\ Counts(r) /\ Counts(s) => (r.at < s.at <=> r.name < s.name)
    <3>1. CASE r \in src[d] \cup tgt[d] /\ s \in src[d] \cup tgt[d]
      BY <3>1 DEF IInv, OnDisk, Ordered
    <3>2. CASE r = new \/ s = new
      BY <1>0, <1>3, <1>6, <1>9, <3>2
    <3> QED BY <1>0, <1>6, <3>1, <3>2
  <2> QED BY <1>0, <1>1, <1>7, <2>1 DEF Ordered
<1>12. Tokens'
  BY <1>0, <1>1, <1>6, <1>7, <1>8 DEF IInv, OnDisk, Tokens, IsNewest
<1>13. Bases'
  BY <1>0, <1>1, <1>7, <1>8 DEF IInv, OnDisk, Bases, IsNewest
<1>14. \A d : /\ Settled(d)' <=> Settled(d)
              /\ Received(d)' <=> Received(d)
              /\ SourcePruned(d)' <=> SourcePruned(d)
  BY <1>0 DEF Settled, Received, SourcePruned, Succeeded, Collecting, Syncing, Pruning
<1>15. \A d, n : About(d, n)' = About(d, n)
  BY <1>0, AboutKept
<1>16. \A d \in Datasets : Again(d)' = Again(d)
  BY Zenon, <1>0, <1>8, <1>15 DEF Again
<1>17. \A d \in Datasets : Due(d) => Due(d)'
  BY <1>0, <1>8 DEF Due, IsNewest
<1>18. ASSUME NEW d \in Datasets, Settlement(d) PROVE Settlement(d)'
  BY <1>0, <1>3, <1>6, <1>7, <1>8, <1>14, <1>15, <1>16, <1>18 DEF Settlement
<1>19. Contextual'
  BY <1>0, <1>1, <1>8, <1>14, <1>16, <1>17, <1>18 DEF IInv, Contextual
<1>20. FreshDue' = FreshDue
  BY <1>0 DEF FreshDue
<1>21. Fresh'
  <2>1. \A d \in Datasets : UpToDate(d) => UpToDate(d)'
    BY <1>0, <1>8 DEF UpToDate, IsNewest
  <2>2. \A d \in Datasets : TakesFresh(d) => TakesFresh(d)'
    BY <1>0, TakesFreshKept
  <2> QED BY <1>0, <1>1, <1>14, <1>20, <2>1, <2>2 DEF IInv, Fresh, Collecting
<1>22. Answers'
  <2>1. ASSUME NEW d \in Datasets, Replicated(d) PROVE Replicated(d)'
    <3>1. PICK n \in Src(d) : /\ IsNewest(n, Src(d)) /\ (n \in tgt[d] \/ strayed)
                              /\ FreshDue => Migration(n) /\ n.at > start
                              /\ \A s \in src[d] : Migration(s) => s = n
      BY <2>1 DEF Replicated
    <3>2. IsNewest(n, Src(d))' /\ n \in Src(d)'
      BY <1>8, <3>1 DEF IsNewest
    <3>3. \A s \in src'[d] : Migration(s) => s = n
      BY <1>3, <1>6, <3>1
    <3> QED BY <1>0, <1>7, <1>20, <3>1, <3>2, <3>3 DEF Replicated
  <2> QED BY <1>0, <1>1, <1>8, <2>1 DEF IInv, Answers
<1> QED BY <1>10, <1>11, <1>12, <1>13, <1>19, <1>21, <1>22 DEF IInv, OnDisk

-----------------------------------------------------------------------------
(***************************************************************************)
(* The invariant.                                                          *)
(***************************************************************************)
LEMMA InitIInv == ASSUME Init, ~ nested PROVE IInv
<1> USE DEF Init
<1>1. docker \in BOOLEAN /\ 1 \in Datasets /\ Datasets \subseteq 1 .. NumDatasets
  BY DatasetsAre
<1>2. PICK image : /\ image \in IF docker THEN {{}, {Image}} ELSE {{}}
                   /\ src = [d \in 1 .. NumDatasets |-> IF d = 1 THEN image ELSE {}]
  OBVIOUS
<1>3. /\ \A d \in Datasets : src[d] \subseteq {Image} /\ tgt[d] = {} /\ token[d] = {}
      /\ ~ docker => \A d \in Datasets : src[d] = {}
  BY <1>1, <1>2
<1>4. Typed
  <2>1. image \subseteq Snapshots
    BY <1>1, <1>2 DEF Snapshots, Image
  <2>2. NothingKnown \in Contexts
    BY DEF NothingKnown, Contexts
  <2>3. ZfsTypes
    <3>1. nested = FALSE
      BY Zenon
    <3> QED BY <1>1, <1>2, <2>1, <3>1 DEF ZfsTypes
  <2>4. SenderTypes
    BY <1>1, <2>2 DEF SenderTypes, Stages
  <2>5. RunTypes
    <3>1. runs \in Nat /\ faults \in Nat /\ start \in 0 .. clock /\ synced \subseteq Datasets
      OBVIOUS
    <3>2. disturbed \in BOOLEAN /\ lastOk \in BOOLEAN /\ strayed \in BOOLEAN
      BY Zenon
    <3>3. client \in {"none", "waiting", "ok", "error", "cut"}
      OBVIOUS
    <3> QED BY <3>1, <3>2, <3>3 DEF RunTypes
  <2> QED BY <2>3, <2>4, <2>5 DEF Typed
<1>5. Ordered
  BY <1>3 DEF Ordered, Image
<1>6. Tokens
  BY <1>3 DEF Tokens
<1>7. Bases
  BY <1>3 DEF Bases, Tgt, Src, Rel, IsNewest
<1>8. \A d : ~ Settled(d)
  BY DEF Settled, Collecting, Syncing, Pruning, Succeeded
<1>9. Contextual /\ Fresh
  BY <1>8 DEF Contextual, Fresh, Collecting
<1>10. Answers
  BY <1>3 DEF Answers, Src, Rel
<1> QED BY <1>4, <1>5, <1>6, <1>7, <1>9, <1>10 DEF IInv, OnDisk

LEMMA NextIInv == ASSUME IInv, [Next]_vars PROVE IInv'
<1>1. CASE UNCHANGED vars
  <2>1. UNCHANGED <<docker, nested, clock, own, src, tgt, token, stage, ds, ctx, aborted, failed, client,
                    runs, faults, disturbed, lastOk, start, synced, strayed>>
    BY <1>1 DEF vars, zfsVars, senderVars, boundVars, historyVars
  <2>2. Typed'
    BY <2>1, ZfsTypesKept DEF IInv, Typed, SenderTypes, RunTypes
  <2>3. OnDisk' /\ Contextual' /\ Fresh'
    BY <2>1, DiskKept, PlaceKept, FreshKept DEF IInv
  <2>4. Datasets' = Datasets /\ \A d \in Datasets : Replicated(d) => Replicated(d)'
    BY <2>1, ReplicatedKept DEF Datasets
  <2>5. \A d : Src(d)' = Src(d)
    BY <2>1 DEF Src, Rel, Counts, Migration
  <2>6. Answers'
    BY <2>1, <2>4, <2>5 DEF IInv, Answers
  <2> QED BY <2>2, <2>3, <2>6 DEF IInv
<1>2. CASE Listen \/ CommandSync \/ CommandSyncAgain \/ CommandStop \/ End
  BY <1>2, ListenStep, CommandSyncStep, CommandSyncAgainStep, CommandStopStep, EndStep
<1>3. CASE SourceNames \/ TargetNames \/ SendToken \/ MigrationSnapshot \/ Estimate
  BY <1>3, SourceNamesStep, TargetNamesStep, SendTokenStep, MigrationSnapshotStep, EstimateStep
<1>4. CASE SetupSync \/ ZfsSend \/ SyncSuccess
  BY <1>4, SetupSyncStep, ZfsSendStep, SyncSuccessStep
<1>5. CASE PruneSource \/ PruneTarget \/ Finish
  BY <1>5, PruneSourceStep, PruneTargetStep, FinishStep
<1>6. CASE SenderDies \/ OwnSnapshot
  BY <1>6, SenderDiesStep, OwnSnapshotStep
<1> QED BY <1>1, <1>2, <1>3, <1>4, <1>5, <1>6 DEF Next, Sender

LEMMA MachineStays == [Next]_vars => UNCHANGED <<docker, nested>>
<1> USE DEF Running, NoZfs
<1>1. CASE UNCHANGED vars
  BY <1>1 DEF vars
<1>2. CASE Listen \/ CommandSync \/ CommandSyncAgain \/ CommandStop \/ End
  BY <1>2 DEF Listen, CommandSync, CommandSyncAgain, CommandStop, End
<1>3. CASE SourceNames \/ TargetNames \/ SendToken \/ MigrationSnapshot \/ Estimate
  BY <1>3 DEF SourceNames, TargetNames, SendToken, MigrationSnapshot, Estimate
<1>4. CASE SetupSync \/ ZfsSend \/ SyncSuccess
  BY <1>4 DEF SetupSync, ZfsSend, SyncSuccess
<1>5. CASE PruneSource \/ PruneTarget \/ Finish
  BY <1>5 DEF PruneSource, PruneTarget, Finish
<1>6. CASE SenderDies \/ OwnSnapshot
  BY <1>6 DEF SenderDies, OwnSnapshot
<1> QED BY <1>1, <1>2, <1>3, <1>4, <1>5, <1>6 DEF Next, Sender

\* Whether there is a delegate dataset never changes.
THEOREM IInvAlways == Spec => [](~ nested => IInv)
<1>1. Init => (~ nested => IInv)
  BY InitIInv
<1>2. (~ nested => IInv) /\ [Next]_vars => (~ nested => IInv)'
  BY NextIInv, MachineStays
<1> QED BY <1>1, <1>2, PTL DEF Spec

-----------------------------------------------------------------------------
(***************************************************************************)
(* The theorems.                                                           *)
(***************************************************************************)

\* Every variable has its type, and a snapshot that broke off on its way is one
\* that the source has and the target lacks, and the only one of its dataset
\* (receive_resume_token, getZfsSendToken()).
THEOREM TypeCorrect == Spec => [](~ nested => TypeOK)
<1>1. ASSUME IInv PROVE TypeOK
  <2>1. \A d \in Datasets : Cardinality(token[d]) <= 1 /\ token[d] \subseteq src[d] \ tgt[d]
    <3>1. ASSUME NEW d \in Datasets
          PROVE  (\A s, r \in token[d] : s = r) /\ token[d] \subseteq src[d] \ tgt[d]
      BY <1>1 DEF IInv, OnDisk, Tokens
    <3> QED BY <3>1, AtMostOne
  <2>2. ASSUME NEW d \in Datasets
        PROVE  /\ ctx[d].names \subseteq Snapshots /\ ctx[d].prev \subseteq Snapshots
               /\ {ctx[d].first, ctx[d].resume, ctx[d].wrong} \subseteq BOOLEAN
               /\ ctx[d].snap \in Int
    BY <1>1, SnapshotTypes DEF IInv
  <2>3. /\ docker \in BOOLEAN /\ {clock, own, start, runs, faults} \subseteq Nat
        /\ {src, tgt, token} \subseteq [1 .. NumDatasets -> SUBSET Snapshots]
    BY <1>1 DEF IInv, Typed, ZfsTypes, RunTypes
  <2>4. /\ stage \in Stages /\ ds \in Datasets
        /\ client \in {"none", "waiting", "ok", "error", "cut"}
        /\ synced \subseteq Datasets
    BY <1>1 DEF IInv, Typed, SenderTypes, RunTypes
  <2>5. {aborted, failed, disturbed, lastOk, strayed} \subseteq BOOLEAN
    BY <1>1 DEF IInv, Typed, SenderTypes, RunTypes
  <2> QED BY <2>1, <2>2, <2>3, <2>4, <2>5 DEF TypeOK
<1> QED BY <1>1, IInvAlways, PTL

\* When a sync is reported to have ended well, the newest snapshot it goes by, of
\* every dataset, is on the target, unless a sync has resumed one of the owner's
\* snapshots (run(), commandSync(), getZfsSyncArgs()).
THEOREM SuccessIsTrue == Spec => [](~ nested => SuccessReplicates)
<1>1. ASSUME IInv, ~ strayed, client = "ok", NEW d \in Datasets
      PROVE  \E s \in Relevant(src[d]) \cap tgt[d] : \A r \in Relevant(src[d]) : r.at <= s.at
  <2>1. Relevant(src[d]) = Src(d)
    BY <1>1, RelevantIs DEF IInv, OnDisk, Src
  <2>2. PICK n \in Src(d) : IsNewest(n, Src(d)) /\ n \in tgt[d]
    BY <1>1 DEF IInv, Answers, Replicated
  <2>3. \A r \in Src(d) : r.at \in Int
    BY <1>1, SnapshotTypes, SnapshotFields DEF IInv, Src, Rel
  <2>4. \A r \in Src(d) : r.at <= n.at
    BY <2>2, <2>3 DEF IsNewest
  <2> QED BY <2>1, <2>2, <2>4
<1>2. IInv => SuccessReplicates
  BY <1>1 DEF SuccessReplicates, EachSyncReplicates
<1> QED BY <1>2, IInvAlways, PTL

\* A sync that ends well, after one that did, has taken a snapshot after it was
\* asked for, and the target has it (determineSnapshotNames(),
\* createMigrationSnapshot()).
THEOREM SuccessIsRecent == Spec => [](~ nested => SuccessIsFresh)
<1>1. ASSUME IInv, client = "ok", FreshDue, NEW d \in Datasets
      PROVE  \E s \in tgt[d] : Migration(s) /\ s.at > start
  BY <1>1 DEF IInv, Answers, Replicated, FreshDue
<1>2. IInv => SuccessIsFresh
  BY <1>1 DEF SuccessIsFresh, FreshDue
<1> QED BY <1>2, IInvAlways, PTL

\* After a sync that ended well the source has at most one migration snapshot of
\* each dataset, whatever the syncs before it left (cleanupSourceSnapshots()).
THEOREM OneSnapshotKept == Spec => [](~ nested => OneKept)
<1>1. ASSUME IInv, client = "ok", NEW d \in Datasets
      PROVE  Cardinality({s \in src[d] : Migration(s)}) <= 1
  <2>1. \A r, s \in {s \in src[d] : Migration(s)} : r = s
    BY <1>1 DEF IInv, Answers, Replicated
  <2> QED BY <2>1, AtMostOne
<1>2. IInv => OneKept
  BY <1>1 DEF OneKept
<1> QED BY <1>2, IInvAlways, PTL

\* Once the target has received a dataset, both sides have a snapshot in common
\* from which an increment can go on, at every moment of every sync, whatever
\* fails or dies in it (cleanupSnapshots(), getZfsSyncArgs()).
THEOREM SyncsGoOn == Spec => [](~ nested => CommonBase)
<1>1. ASSUME IInv, ~ strayed, NEW d \in synced
      PROVE  \E s \in src[d] \cap tgt[d] : docker \/ Migration(s)
  <2>1. d \in Datasets
    BY <1>1 DEF IInv, Typed, RunTypes
  <2>2. Src(d) \cap tgt[d] # {}
    BY <1>1, <2>1 DEF IInv, OnDisk, Bases
  <2> QED BY <2>2 DEF Src, Rel, Counts
<1>2. IInv => CommonBase
  BY <1>1 DEF CommonBase
<1> QED BY <1>2, IInvAlways, PTL

\* A sync fails only when something went wrong in it: determineSnapshotNames()
\* never finds a state it calls wrong, and zfs has what it is told to send and to
\* receive, whatever the syncs before left.
THEOREM NoFailureOfItsOwn == Spec => [](~ nested => FailsOnlyDisturbed)
<1>1. IInv => FailsOnlyDisturbed
  BY DEF IInv, Answers, FailsOnlyDisturbed
<1> QED BY <1>1, IInvAlways, PTL


-----------------------------------------------------------------------------
(***************************************************************************)
(* MigrateSync implements Replica.                                         *)
(***************************************************************************)

\* Nothing the sync goes by reaches the target but with the end of a stream.
Unreceived == \A d \in Datasets : d \notin synced => Tgt(d) = {}

\* Whoever waits for an answer has a sender that will give it.
Attended ==
  /\ client = "waiting" => stage \notin {"down", "listening", "done"}
  /\ client = "error" => stage = "down"

RInv == IInv /\ Unreceived /\ Attended

\* The moments of the copies.
LEMMA MomentsSame ==
  ASSUME NEW a, NEW b, \A e \in Datasets : b[e] = a[e]
  PROVE  Moments(b) = Moments(a)
BY DEF Moments

LEMMA MomentsMove ==
  ASSUME docker \in BOOLEAN, NEW a, NEW b, NEW d \in Datasets,
         \A e \in Datasets : e # d => b[e] = a[e]
  PROVE  Moments(b) = [Moments(a) EXCEPT ![d] = Moments(b)[d]]
<1>1. d \in 1 .. NumDatasets
  BY DatasetsAre
<1>2. \A e \in 1 .. NumDatasets : e # d => Moments(b)[e] = Moments(a)[e]
  BY DEF Moments
<1>3. DOMAIN Moments(a) = 1 .. NumDatasets /\ DOMAIN Moments(b) = 1 .. NumDatasets
  BY DEF Moments
<1>4. /\ Moments(a) = [e \in 1 .. NumDatasets |-> Moments(a)[e]]
      /\ Moments(b) = [e \in 1 .. NumDatasets |-> Moments(b)[e]]
  BY DEF Moments
<1> QED BY <1>1, <1>2, <1>3, <1>4

LEMMA MomentsPrimed ==
  ASSUME UNCHANGED <<docker, nested>>
  PROVE  Moments(src)' = Moments(src') /\ Moments(tgt)' = Moments(tgt')
BY DEF Moments, Datasets, Relevant, Migration, Moment, Newest, Oldest

LEMMA MomentOf ==
  ASSUME NEW c \in Nat, docker \in BOOLEAN, NEW S, S \subseteq SnapshotsTo(c), Unique(S),
         docker => \A s \in S : s = Image \/ Migration(s)
  PROVE  /\ Relevant(S) = Rel(S)
         /\ Rel(S) = {} => Moment(Relevant(S)) = -1
         /\ \A n : IsNewest(n, Rel(S)) => Moment(Relevant(S)) = n.at /\ n.at \in Nat
         /\ Moment(Relevant(S)) \in Int
         /\ Rel(S) # {} => Moment(Relevant(S)) \in 0 .. c
<1>0. \A s \in S : s.at \in 0 .. c
  BY DEF SnapshotsTo
<1>1. ASSUME NEW s \in S, docker, ~ Migration(s) PROVE s = Oldest(S)
  <2>1. s = Image /\ s.at = 0
    BY <1>1 DEF Image
  <2>2. \A r \in S : r # s => s.at < r.at
    BY <1>0, <2>1 DEF Unique
  <2>3. IsOldest(s, S)
    BY <2>2 DEF IsOldest
  <2> QED BY <2>3, OldestIs
<1>2. Relevant(S) = Rel(S)
  BY <1>1 DEF Relevant, Rel, Counts
<1>3. Rel(S) \subseteq S
  BY DEF Rel
<1>4. ASSUME NEW n, IsNewest(n, Rel(S)) PROVE Moment(Rel(S)) = n.at /\ n.at \in 0 .. c
  <2>1. n \in Rel(S) /\ Rel(S) \subseteq SnapshotsTo(c)
    BY <1>3, <1>4 DEF IsNewest
  <2>2. Newest(Rel(S)) = n
    BY <1>4, <2>1, NewestIs
  <2> QED BY <1>0, <1>3, <2>1, <2>2 DEF Moment
<1>5. Rel(S) = {} => Moment(Rel(S)) = -1
  BY DEF Moment
<1>6. ASSUME Rel(S) # {} PROVE \E n : IsNewest(n, Rel(S))
  <2>1. Rel(S) \subseteq SnapshotsTo(c) /\ Unique(Rel(S))
    BY <1>3 DEF Unique
  <2> QED BY <1>6, <2>1, HasNewest
<1> QED BY <1>2, <1>4, <1>5, <1>6

\* The moment of either side of a dataset, and of what it will be.
LEMMA MomentNow ==
  ASSUME IInv, NEW d \in Datasets
  PROVE  /\ Moments(src)[d] \in Int /\ Moments(tgt)[d] \in Int
         /\ Src(d) = {} => Moments(src)[d] = -1
         /\ Tgt(d) = {} => Moments(tgt)[d] = -1
         /\ Src(d) # {} => Moments(src)[d] \in 0 .. clock
         /\ Tgt(d) # {} => Moments(tgt)[d] \in 0 .. clock
         /\ \A n : IsNewest(n, Src(d)) => Moments(src)[d] = n.at
         /\ \A n : IsNewest(n, Tgt(d)) => Moments(tgt)[d] = n.at
<1>1. /\ docker \in BOOLEAN /\ clock \in Nat /\ d \in 1 .. NumDatasets
      /\ src[d] \subseteq SnapshotsTo(clock) /\ tgt[d] \subseteq SnapshotsTo(clock)
  BY SnapshotTypes, DatasetsAre DEF IInv, Typed, ZfsTypes
<1>2. /\ Unique(src[d]) /\ Unique(tgt[d])
      /\ docker => \A s \in src[d] \cup tgt[d] : s = Image \/ Migration(s)
  BY DEF IInv, OnDisk, Ordered, Unique
<1>3. /\ Moments(src)[d] = Moment(Relevant(src[d]))
      /\ Moments(tgt)[d] = Moment(Relevant(tgt[d]))
  BY <1>1 DEF Moments, IInv, Typed, ZfsTypes
<1>4. /\ Moments(src)[d] \in Int
      /\ Src(d) = {} => Moments(src)[d] = -1
      /\ Src(d) # {} => Moments(src)[d] \in 0 .. clock
      /\ \A n : IsNewest(n, Src(d)) => Moments(src)[d] = n.at
  BY <1>1, <1>2, <1>3, MomentOf DEF Src
<1>5. /\ Moments(tgt)[d] \in Int
      /\ Tgt(d) = {} => Moments(tgt)[d] = -1
      /\ Tgt(d) # {} => Moments(tgt)[d] \in 0 .. clock
      /\ \A n : IsNewest(n, Tgt(d)) => Moments(tgt)[d] = n.at
  BY <1>1, <1>2, <1>3, MomentOf DEF Tgt
<1> QED BY <1>4, <1>5

LEMMA MomentNext ==
  ASSUME IInv', UNCHANGED <<docker, nested>>, NEW d \in Datasets
  PROVE  /\ Moments(src')[d] \in Int /\ Moments(tgt')[d] \in Int
         /\ Src(d)' = {} => Moments(src')[d] = -1
         /\ Tgt(d)' = {} => Moments(tgt')[d] = -1
         /\ \A n : IsNewest(n, Src(d)') => Moments(src')[d] = n.at
         /\ \A n : IsNewest(n, Tgt(d)') => Moments(tgt')[d] = n.at
<1>1. /\ docker \in BOOLEAN /\ clock' \in Nat /\ d \in 1 .. NumDatasets /\ Datasets' = Datasets
      /\ src'[d] \subseteq SnapshotsTo(clock') /\ tgt'[d] \subseteq SnapshotsTo(clock')
  <2>1. docker \in BOOLEAN /\ clock' \in Nat /\ Datasets' = Datasets
    BY DEF IInv, Typed, ZfsTypes, Datasets
  <2>2. d \in 1 .. NumDatasets
    BY <2>1, DatasetsAre
  <2>3. Snapshots' = SnapshotsTo(clock')
    BY DEF Snapshots, SnapshotsTo
  <2>4. src' \in [1 .. NumDatasets -> SUBSET Snapshots'] /\ tgt' \in [1 .. NumDatasets -> SUBSET Snapshots']
    BY DEF IInv, Typed, ZfsTypes
  <2> QED BY <2>1, <2>2, <2>3, <2>4
<1>2. /\ Unique(src'[d]) /\ Unique(tgt'[d])
      /\ docker => \A s \in src'[d] \cup tgt'[d] : s = Image \/ Migration(s)
  BY <1>1 DEF IInv, OnDisk, Ordered, Unique, Migration
<1>3. /\ Moments(src')[d] = Moment(Relevant(src'[d]))
      /\ Moments(tgt')[d] = Moment(Relevant(tgt'[d]))
      /\ Src(d)' = Rel(src'[d]) /\ Tgt(d)' = Rel(tgt'[d])
  BY <1>1 DEF Moments, Src, Tgt, Rel, Counts, Migration, IInv, Typed, ZfsTypes
<1>4. /\ Moments(src')[d] \in Int
      /\ Src(d)' = {} => Moments(src')[d] = -1
      /\ \A n : IsNewest(n, Src(d)') => Moments(src')[d] = n.at
  BY <1>1, <1>2, <1>3, MomentOf
<1>5. /\ Moments(tgt')[d] \in Int
      /\ Tgt(d)' = {} => Moments(tgt')[d] = -1
      /\ \A n : IsNewest(n, Tgt(d)') => Moments(tgt')[d] = n.at
  BY <1>1, <1>2, <1>3, MomentOf
<1> QED BY <1>4, <1>5

\* A copy is at no later moment than the source, and at none if nothing arrived.
LEMMA CopyIsNoNewer ==
  ASSUME IInv, NEW d \in Datasets
  PROVE  /\ Moments(tgt)[d] <= Moments(src)[d]
         /\ \A n \in tgt[d] : IsNewest(n, Src(d)) => Moments(tgt)[d] = Moments(src)[d]
<1>1. \A t \in Tgt(d) : \E s \in Src(d) : t.at <= s.at
  BY DEF IInv, OnDisk, Bases
<1>2. \A s \in Src(d) \cup Tgt(d) : s.at \in 0 .. clock /\ clock \in Nat
  BY SnapshotTypes, SnapshotFields DEF IInv, Src, Tgt, Rel
<1>3. ASSUME Tgt(d) # {}
      PROVE  \E n, m : /\ IsNewest(n, Src(d)) /\ n \in Src(d)
                       /\ IsNewest(m, Tgt(d)) /\ m \in Tgt(d) /\ m.at <= n.at
  <2>1. Src(d) # {} /\ Src(d) \subseteq src[d] /\ Tgt(d) \subseteq tgt[d]
    BY <1>1, <1>3 DEF Src, Tgt, Rel
  <2>2. PICK n \in Src(d) : IsNewest(n, Src(d))
    BY <2>1, SomeNewest DEF IInv, OnDisk
  <2>3. PICK m \in Tgt(d) : IsNewest(m, Tgt(d))
    BY <1>3, <2>1, SomeNewest DEF IInv, OnDisk
  <2>4. PICK s \in Src(d) : m.at <= s.at
    BY <1>1
  <2>5. s.at <= n.at
    BY <1>2, <2>2 DEF IsNewest
  <2>6. m.at <= n.at
    BY <1>2, <2>4, <2>5
  <2> QED BY <2>2, <2>3, <2>6
<1>4. Moments(tgt)[d] <= Moments(src)[d]
  <2>1. CASE Tgt(d) = {} /\ Src(d) = {}
    BY <2>1, MomentNow
  <2>2. CASE Tgt(d) = {} /\ Src(d) # {}
    <3>1. Moments(tgt)[d] = -1 /\ Moments(src)[d] \in 0 .. clock
      BY <2>2, MomentNow
    <3> QED BY <3>1
  <2>3. CASE Tgt(d) # {}
    <3>1. PICK n, m : /\ IsNewest(n, Src(d)) /\ IsNewest(m, Tgt(d)) /\ m.at <= n.at
      BY <1>3, <2>3
    <3>2. Moments(src)[d] = n.at /\ Moments(tgt)[d] = m.at
      BY <3>1, MomentNow
    <3> QED BY <3>1, <3>2
  <2> QED BY <2>1, <2>2, <2>3
<1>5. ASSUME NEW n \in tgt[d], IsNewest(n, Src(d)) PROVE Moments(tgt)[d] = Moments(src)[d]
  <2>1. n \in Tgt(d) /\ n \in Src(d)
    BY <1>5 DEF IsNewest, Src, Tgt, Rel
  <2>2. PICK m \in Tgt(d) : IsNewest(m, Tgt(d))
    <3>1. Tgt(d) # {} /\ Tgt(d) \subseteq tgt[d]
      BY <2>1 DEF Tgt, Rel
    <3> QED BY <3>1, SomeNewest DEF IInv, OnDisk
  <2>3. n.at <= m.at
    BY <1>2, <2>1, <2>2 DEF IsNewest
  <2>4. Moments(src)[d] = n.at /\ Moments(tgt)[d] = m.at
    BY <1>5, <2>2, MomentNow
  <2> QED BY <1>2, <1>4, <2>1, <2>2, <2>3, <2>4
<1> QED BY <1>4, <1>5

\* What a whole stream brings: the newest snapshot, or one of the owner's.
LEMMA CopyReceives ==
  ASSUME IInv, NEW d \in Datasets, d = ds, Settled(d), ~ Received(d), Receives,
         UNCHANGED <<docker, nested, clock, own, src>>
  PROVE  /\ synced' = synced \cup {d}
         /\ \A e \in Datasets : e # d => tgt'[e] = tgt[e]
         /\ \/ strayed' = strayed /\ \E n \in Src(d) : IsNewest(n, Src(d)) /\ n \in tgt'[d]
            \/ strayed' = TRUE /\ Tgt(d)' = Tgt(d)
<1>0. /\ d \in 1 .. NumDatasets /\ docker \in BOOLEAN /\ strayed \in BOOLEAN
      /\ tgt \in [1 .. NumDatasets -> SUBSET Snapshots] /\ ctx[d].resume \in BOOLEAN
  BY DatasetsAre, SnapshotTypes DEF IInv, Typed, ZfsTypes, RunTypes
<1>1. PICK dropped \in SUBSET (tgt[d] \ src[d]) :
        /\ tgt' = [tgt EXCEPT ![d] = (@ \ dropped) \cup Stream(d)]
        /\ ctx[d].resume => dropped = {}
  BY PlainReceives DEF IInv, Typed, ZfsTypes
<1>2. /\ synced' = synced \cup {d}
      /\ strayed' = (strayed \/ (ctx[d].resume /\ \E s \in token[d] : ~ Migration(s)))
      /\ tgt'[d] = (tgt[d] \ dropped) \cup Stream(d)
      /\ \A e \in Datasets : e # d => tgt'[e] = tgt[e]
  <2>1. /\ synced' = synced \cup {d}
        /\ strayed' = (strayed \/ (ctx[d].resume /\ \E s \in token[d] : ~ Migration(s)))
    BY DEF Receives
  <2> QED BY <1>0, <1>1, <2>1
<1>3. /\ ctx[d].resume => Stream(d) = token[d] /\ token[d] # {}
      /\ \E n \in Src(d) : IsNewest(n, Src(d)) /\ (~ ctx[d].resume => n \in Stream(d))
  BY StreamIs
<1>4. /\ \A s, r \in token[d] : s = r
      /\ \A s \in token[d] : Counts(s) => IsNewest(s, Src(d))
  BY DEF IInv, OnDisk, Tokens
<1>5. docker => strayed' = strayed
  <2>1. OnDisk' /\ strayed' \in BOOLEAN
    BY ReceivesOnDisk
  <2>2. docker => ~ strayed /\ ~ strayed'
    BY <2>1 DEF IInv, OnDisk, Bases
  <2> QED BY <1>0, <2>1, <2>2
<1>6. CASE ~ ctx[d].resume
  <2>1. strayed' = strayed
    BY <1>0, <1>2, <1>6
  <2> QED BY <1>2, <1>3, <1>6, <2>1
<1>7. CASE ctx[d].resume
  <2>1. PICK x : token[d] = {x} /\ Stream(d) = {x}
    BY <1>3, <1>4, <1>7
  <2>2. dropped = {}
    BY <1>1, <1>7
  <2>3. tgt'[d] = tgt[d] \cup {x}
    BY <1>2, <2>1, <2>2
  <2>4. CASE Counts(x)
    <3>1. IsNewest(x, Src(d)) /\ x \in Src(d) /\ x \in tgt'[d]
      BY <1>4, <2>1, <2>3, <2>4 DEF IsNewest
    <3>2. strayed' = strayed
      BY <1>0, <1>2, <1>5, <2>1, <2>4 DEF Counts
    <3> QED BY <1>2, <3>1, <3>2
  <2>5. CASE ~ Counts(x)
    <3>1. Tgt(d)' = Tgt(d)
      BY <2>3, <2>5 DEF Tgt, Rel, Counts, Migration
    <3>2. strayed' = TRUE
      BY <1>2, <1>7, <2>1, <2>5 DEF Counts
    <3> QED BY <1>2, <3>1, <3>2
  <2> QED BY <2>4, <2>5
<1> QED BY <1>0, <1>6, <1>7

\* A stream that breaks off brings none of the snapshots the sync goes by.
LEMMA CopyReceivesPart ==
  ASSUME IInv, NEW d \in Datasets, d = ds, Settled(d), ~ Received(d), ReceivesPart,
         UNCHANGED <<docker, nested, clock, own, src>>
  PROVE  /\ UNCHANGED <<synced, strayed>> /\ Tgt(d)' = Tgt(d)
         /\ \A e \in Datasets : e # d => tgt'[e] = tgt[e]
<1>0. /\ d \in 1 .. NumDatasets /\ ctx[d].resume \in BOOLEAN /\ nested = FALSE
      /\ tgt \in [1 .. NumDatasets -> SUBSET Snapshots]
  BY DatasetsAre, SnapshotTypes DEF IInv, Typed, ZfsTypes
<1>1. PICK part \in SUBSET (Stream(d) \ tgt[d]) :
        /\ Stream(d) \ (tgt[d] \cup part) # {}
        /\ \A s \in part, r \in Stream(d) \ (tgt[d] \cup part) : s.at < r.at
        /\ tgt' = [tgt EXCEPT ![d] = @ \cup part]
        /\ \/ token' = [token EXCEPT ![d] = {Oldest(Stream(d) \ (tgt[d] \cup part))}]
           \/ part # {} /\ token' = [token EXCEPT ![d] = {}]
           \/ part = {} /\ UNCHANGED token
        /\ UNCHANGED <<synced, strayed>>
  <2>1. \E part \in SUBSET (Stream(d) \ tgt[d]) : PartCame(d, part)
    BY <1>0, PlainReceivesPart
  <2> QED BY <2>1, Zenon DEF PartCame
<1>2. PICK r \in Stream(d) : r \notin part /\ \A s \in part : s.at < r.at
  BY <1>1
<1>3. /\ Stream(d) \subseteq src[d]
      /\ ctx[d].resume => Stream(d) = token[d]
      /\ \E n \in Src(d) : ~ ctx[d].resume => /\ \A s \in Stream(d) : s.at <= n.at
                                              /\ \A s \in Stream(d) : Counts(s) => s = n
  BY StreamIs
<1>4. /\ \A s, q \in token[d] : s = q
      /\ \A s \in src[d] : s.at \in 0 .. clock /\ clock \in Nat
  BY SnapshotTypes, SnapshotFields DEF IInv, OnDisk, Tokens
<1>5. ASSUME NEW s \in part, Counts(s) PROVE FALSE
  <2>1. CASE ctx[d].resume
    BY <1>1, <1>2, <1>3, <1>4, <1>5, <2>1
  <2>2. CASE ~ ctx[d].resume
    <3>1. r.at <= s.at /\ s.at < r.at /\ s \in src[d] /\ r \in src[d]
      BY <1>1, <1>2, <1>3, <1>5, <2>2
    <3> QED BY <1>4, <3>1
  <2> QED BY <1>0, <2>1, <2>2
<1>6. tgt'[d] = tgt[d] \cup part /\ \A e \in Datasets : e # d => tgt'[e] = tgt[e]
  BY <1>0, <1>1
<1>7. Tgt(d)' = Tgt(d)
  BY <1>5, <1>6 DEF Tgt, Rel, Counts, Migration
<1> QED BY <1>1, <1>6, <1>7

-----------------------------------------------------------------------------
(***************************************************************************)
(* Which step of Replica a step is, by what it does to the two sides.      *)
(***************************************************************************)
CopyStep == [Copies!Next]_(Copies!vars)

LEMMA IsUnderWay ==
  ASSUME IInv, Attended, stage \notin {"down", "listening", "done"}
  PROVE  client \in {"waiting", "cut"}
BY DEF IInv, Typed, RunTypes, Answers, Attended

\* Neither side changes.
LEMMA ClientLifts ==
  ASSUME UNCHANGED <<docker, nested, src, tgt, strayed>>,
         \/ client' = client
         \/ client = "none" /\ client' = "waiting"
         \/ client = "waiting" /\ client' \in {"error", "cut"}
         \/ client # "waiting" /\ client' = "none"
  PROVE  CopyStep
<1>1. Moments(src)' = Moments(src) /\ Moments(tgt)' = Moments(tgt)
  BY MomentsPrimed
<1>2. CASE client' = client
  BY <1>1, <1>2 DEF CopyStep, Copies!vars
<1>3. CASE client = "none" /\ client' = "waiting"
  BY <1>1, <1>3 DEF CopyStep, Copies!Next, Copies!Ask
<1>4. CASE client = "waiting" /\ client' \in {"error", "cut"}
  BY <1>1, <1>4 DEF CopyStep, Copies!Next, Copies!Fail
<1>5. CASE client # "waiting" /\ client' = "none"
  BY <1>1, <1>5 DEF CopyStep, Copies!Next, Copies!Leave
<1> QED BY <1>2, <1>3, <1>4, <1>5

\* What the sync goes by on the source stays, or its newest snapshot does.
LEMMA SourceLifts ==
  ASSUME IInv, IInv', UNCHANGED <<docker, nested, tgt, strayed, client>>,
         \A d \in Datasets : \/ Src(d)' = Src(d)
                             \/ \E n : IsNewest(n, Src(d)) /\ IsNewest(n, Src(d)')
  PROVE  CopyStep
<1>1. Moments(src)' = Moments(src') /\ Moments(tgt)' = Moments(tgt)
  BY MomentsPrimed
<1>2. docker \in BOOLEAN
  BY DEF IInv, Typed, ZfsTypes
<1>3. ASSUME NEW d \in Datasets PROVE Moments(src')[d] = Moments(src)[d]
  <2>1. CASE \E n : IsNewest(n, Src(d)) /\ IsNewest(n, Src(d)')
    BY <2>1, MomentNow, MomentNext
  <2>2. CASE Src(d)' = Src(d) /\ Src(d) = {}
    BY <2>2, MomentNow, MomentNext
  <2>3. CASE Src(d)' = Src(d) /\ Src(d) # {}
    <3>1. PICK n : IsNewest(n, Src(d))
      BY <2>3, SomeNewest DEF IInv, OnDisk, Src, Rel
    <3> QED BY <2>3, <3>1, MomentNow, MomentNext
  <2> QED BY <2>1, <2>2, <2>3
<1>4. \A e \in 1 .. NumDatasets : Moments(src')[e] = Moments(src)[e]
  BY <1>3 DEF Moments
<1>5. /\ Moments(src) = [e \in 1 .. NumDatasets |-> Moments(src)[e]]
      /\ Moments(src') = [e \in 1 .. NumDatasets |-> Moments(src')[e]]
  BY DEF Moments
<1>6. Moments(src') = Moments(src)
  BY <1>4, <1>5
<1> QED BY <1>1, <1>6 DEF CopyStep, Copies!vars

\* A snapshot is taken of a dataset of which the copy has the last one.
LEMMA TakeLifts ==
  ASSUME IInv, IInv', UNCHANGED <<docker, nested, tgt, strayed, client>>, client \in {"waiting", "cut"},
         NEW d \in Datasets, \A e \in Datasets : e # d => src'[e] = src[e],
         Moments(tgt)[d] = Moments(src)[d], Moments(src')[d] > Moments(src)[d]
  PROVE  CopyStep
<1>1. Moments(src)' = Moments(src') /\ Moments(tgt)' = Moments(tgt)
  BY MomentsPrimed
<1>2. docker \in BOOLEAN /\ d \in 1 .. NumDatasets
  BY DatasetsAre DEF IInv, Typed, ZfsTypes
<1>3. Moments(src') = [Moments(src) EXCEPT ![d] = Moments(src')[d]]
  BY <1>2, MomentsMove
<1>4. Copies!Take(d)
  BY <1>1, <1>3 DEF Copies!Take, Copies!UnderWay
<1> QED BY <1>2, <1>4 DEF CopyStep, Copies!Next

\* Something of a dataset arrives on the target or goes, or nothing.
LEMMA TargetLifts ==
  ASSUME IInv, IInv', UNCHANGED <<docker, nested, src>>, client \in {"waiting", "cut"},
         client' \in {client, "cut"},
         NEW d \in Datasets, \A e \in Datasets : e # d => tgt'[e] = tgt[e],
         \/ strayed' = strayed /\ \E n \in Src(d) : IsNewest(n, Src(d)) /\ n \in tgt'[d]
         \/ strayed' = TRUE /\ Tgt(d)' = Tgt(d)
         \/ strayed' = strayed /\ Tgt(d)' = Tgt(d)
         \/ strayed = TRUE /\ strayed' = TRUE /\ Tgt(d)' \subseteq Tgt(d) /\ client' = client
  PROVE  CopyStep
<1>1. Moments(src)' = Moments(src) /\ Moments(tgt)' = Moments(tgt')
  <2>1. Moments(src)' = Moments(src') /\ Moments(tgt)' = Moments(tgt')
    BY MomentsPrimed
  <2> QED BY <2>1
<1>2. docker \in BOOLEAN /\ d \in 1 .. NumDatasets
  BY DatasetsAre DEF IInv, Typed, ZfsTypes
<1>3. Moments(tgt') = [Moments(tgt) EXCEPT ![d] = Moments(tgt')[d]]
  BY <1>2, MomentsMove
<1>4. CASE strayed' = strayed /\ \E n \in Src(d) : IsNewest(n, Src(d)) /\ n \in tgt'[d]
  <2>1. PICK n \in Src(d) : IsNewest(n, Src(d)) /\ n \in tgt'[d]
    BY <1>4
  <2>2. /\ \A s \in Src(d) : s.at \in Int
        /\ Src(d)' = Src(d) /\ Datasets' = Datasets /\ n \in Tgt(d)'
    BY <2>1, SnapshotTypes, SnapshotFields DEF IInv, Src, Tgt, Rel, Counts, Migration, Datasets
  <2>3. /\ \A t \in Tgt(d)' : \E s \in Src(d) : t.at <= s.at
        /\ \A r, s \in Tgt(d)' : r.at = s.at => r = s
    BY <2>2 DEF IInv, OnDisk, Ordered, Bases, Tgt, Rel
  <2>4. \A t \in Tgt(d)' : t.at \in Int
    <3>1. tgt' \in [1 .. NumDatasets -> SUBSET Snapshots']
      BY DEF IInv, Typed, ZfsTypes
    <3>2. \A t \in Snapshots' : t.at \in 0 .. clock'
      BY DEF Snapshots
    <3> QED BY <1>2, <3>1, <3>2 DEF Tgt, Rel
  <2>5. \A t \in Tgt(d)' : t.at <= n.at
    <3>1. \A s \in Src(d) : s.at <= n.at
      BY <2>1, <2>2 DEF IsNewest
    <3> QED BY <2>1, <2>2, <2>3, <2>4, <3>1
  <2>6. IsNewest(n, Tgt(d)')
    BY <2>1, <2>2, <2>3, <2>4, <2>5 DEF IsNewest
  <2>7. Moments(tgt')[d] = Moments(src)[d]
    BY <2>1, <2>6, MomentNow, MomentNext
  <2>8. Copies!Receive(d)
    BY <1>1, <1>3, <1>4, <2>7 DEF Copies!Receive, Copies!UnderWay
  <2> QED BY <1>2, <2>8 DEF CopyStep, Copies!Next
<1>5. ASSUME Tgt(d)' = Tgt(d) PROVE Moments(tgt)' = Moments(tgt)
  <2>1. CASE Tgt(d) = {}
    <3>1. Moments(tgt')[d] = Moments(tgt)[d]
      BY <1>5, <2>1, MomentNow, MomentNext
    <3> QED BY <1>1, <1>3, <3>1 DEF Moments
  <2>2. CASE Tgt(d) # {}
    <3>1. PICK n : IsNewest(n, Tgt(d))
      BY <2>2, SomeNewest DEF IInv, OnDisk, Tgt, Rel
    <3>2. Moments(tgt')[d] = Moments(tgt)[d]
      BY <1>5, <3>1, MomentNow, MomentNext
    <3> QED BY <1>1, <1>3, <3>2 DEF Moments
  <2> QED BY <2>1, <2>2
<1>6. CASE strayed' = TRUE /\ Tgt(d)' = Tgt(d)
  <2>1. Copies!Stray
    BY <1>1, <1>5, <1>6 DEF Copies!Stray, Copies!UnderWay
  <2> QED BY <2>1 DEF CopyStep, Copies!Next
<1>7. CASE strayed' = strayed /\ Tgt(d)' = Tgt(d)
  <2>1. CASE client' = client
    BY <1>1, <1>5, <1>7, <2>1 DEF CopyStep, Copies!vars
  <2>2. CASE client = "waiting" /\ client' = "cut"
    <3>1. Copies!Fail
      BY <1>1, <1>5, <1>7, <2>2 DEF Copies!Fail
    <3> QED BY <3>1 DEF CopyStep, Copies!Next
  <2> QED BY <2>1, <2>2
<1>8. CASE strayed = TRUE /\ strayed' = TRUE /\ Tgt(d)' \subseteq Tgt(d) /\ client' = client
  <2>1. Moments(tgt')[d] <= Moments(tgt)[d]
    <3>1. CASE Tgt(d)' = {}
      <4>1. Moments(tgt')[d] = -1 /\ (Moments(tgt)[d] = -1 \/ Moments(tgt)[d] \in 0 .. clock)
        BY <3>1, MomentNow, MomentNext
      <4> QED BY <4>1
    <3>2. CASE Tgt(d)' # {}
      <4>1. PICK m \in Tgt(d)' : IsNewest(m, Tgt(d)')
        BY <1>8, <3>2, SomeNewest DEF IInv, OnDisk, Tgt, Rel
      <4>2. PICK n \in Tgt(d) : IsNewest(n, Tgt(d))
        BY <1>8, <3>2, SomeNewest DEF IInv, OnDisk, Tgt, Rel
      <4>3. Moments(tgt')[d] = m.at /\ Moments(tgt)[d] = n.at /\ m \in Tgt(d)
        BY <1>8, <4>1, <4>2, MomentNow, MomentNext
      <4>4. Moments(tgt')[d] \in Int /\ Moments(tgt)[d] \in Int
        BY MomentNow, MomentNext
      <4> QED BY <4>2, <4>3, <4>4 DEF IsNewest
    <3> QED BY <3>1, <3>2
  <2>2. CASE Moments(tgt')[d] < Moments(tgt)[d]
    <3>1. Copies!Lose(d)
      BY <1>1, <1>3, <1>8, <2>2 DEF Copies!Lose, Copies!UnderWay
    <3> QED BY <1>2, <3>1 DEF CopyStep, Copies!Next
  <2>3. CASE Moments(tgt')[d] = Moments(tgt)[d]
    <3>1. Moments(tgt)' = Moments(tgt)
      BY <1>1, <1>3, <2>3 DEF Moments
    <3> QED BY <1>1, <1>8, <3>1 DEF CopyStep, Copies!vars
  <2> QED BY <2>1, <2>2, <2>3, MomentNow, MomentNext
<1> QED BY <1>4, <1>6, <1>7, <1>8

-----------------------------------------------------------------------------
(***************************************************************************)
(* The steps.                                                              *)
(***************************************************************************)
LEMMA UnreceivedKept ==
  ASSUME Unreceived, UNCHANGED docker, synced \subseteq synced',
         \A d \in Datasets : Tgt(d)' \subseteq Tgt(d)
  PROVE  Unreceived'
BY DEF Unreceived, Datasets

LEMMA UntouchedCopies ==
  ASSUME Unreceived, UNCHANGED <<docker, nested, tgt, synced>>
  PROVE  Unreceived'
<1>1. \A d : Tgt(d)' = Tgt(d)
  BY DEF Tgt, Rel, Counts, Migration
<1> QED BY <1>1, UnreceivedKept

LEMMA CommandsLift ==
  ASSUME RInv, Listen \/ CommandSync \/ CommandSyncAgain \/ CommandStop \/ End
  PROVE  CopyStep /\ Unreceived' /\ Attended'
<1>1. UNCHANGED <<docker, nested, src, tgt, strayed, synced>>
  BY DEF Listen, CommandSync, CommandSyncAgain, CommandStop, End, zfsVars, historyVars
<1>2. CASE Listen
  <2>1. stage = "down" /\ client' = "none" /\ stage' = "listening"
    BY <1>2 DEF Listen
  <2> QED BY <1>1, <2>1, ClientLifts, UntouchedCopies DEF RInv, Attended
<1>3. CASE CommandSync
  <2>1. stage = "listening" /\ client' = "waiting" /\ stage' = "list" /\ client = "none"
    BY <1>3 DEF CommandSync, RInv, IInv, Answers
  <2> QED BY <1>1, <2>1, ClientLifts, UntouchedCopies DEF RInv, Attended
<1>4. CASE CommandSyncAgain
  <2>1. client = "waiting" /\ client' = "cut"
    BY <1>4 DEF CommandSyncAgain
  <2> QED BY <1>1, <2>1, ClientLifts, UntouchedCopies DEF RInv, Attended
<1>5. CASE CommandStop
  <2>1. /\ client' = IF client = "waiting" THEN "cut" ELSE client
        /\ stage \notin {"down", "listening", "done"} /\ stage' = stage
    BY <1>5 DEF CommandStop
  <2> QED BY <1>1, <2>1, ClientLifts, UntouchedCopies DEF RInv, Attended
<1>6. CASE End
  <2>1. stage = "done" /\ client' = client /\ stage' = "down"
    BY <1>6 DEF End, Forgotten
  <2> QED BY <1>1, <2>1, ClientLifts, UntouchedCopies DEF RInv, Attended
<1> QED BY <1>2, <1>3, <1>4, <1>5, <1>6

\* A step of the pipeline leaves the client alone, and does not end the sender.
LEMMA PipelineAttends ==
  ASSUME RInv, NEW s, s \notin {"down", "listening", "done", "shutdown"}, Running(s),
         stage' \notin {"down", "listening", "done"}
  PROVE  /\ Attended' /\ client \in {"waiting", "cut"} /\ UNCHANGED <<docker, nested, client>>
         /\ ds \in Datasets /\ docker \in BOOLEAN
<1>1. stage = s /\ UNCHANGED <<docker, nested, client>>
  BY DEF Running
<1>2. client \in {"waiting", "cut"}
  BY <1>1, IsUnderWay DEF RInv
<1> QED BY <1>1, <1>2 DEF Attended, RInv, IInv, Typed, ZfsTypes, SenderTypes

LEMMA CollectingLifts ==
  ASSUME RInv, SourceNames \/ TargetNames \/ SendToken \/ Estimate \/ SyncSuccess
  PROVE  CopyStep /\ Unreceived' /\ Attended'
<1>1. UNCHANGED <<docker, nested, src, tgt, strayed, synced, client>>
  BY DEF SourceNames, TargetNames, SendToken, Estimate, SyncSuccess, Running, NoZfs, zfsVars
<1>2. /\ \E s : s \notin {"down", "listening", "done", "shutdown"} /\ Running(s)
      /\ stage' \notin {"down", "listening", "done"}
  BY DEF SourceNames, TargetNames, SendToken, Estimate, SyncSuccess,
         At, OnTo, Fails, ReplyLost
<1>3. Attended'
  BY <1>2, PipelineAttends
<1> QED BY <1>1, <1>3, ClientLifts, UntouchedCopies DEF RInv

LEMMA MigrationSnapshotLifts ==
  ASSUME RInv, IInv', MigrationSnapshot
  PROVE  CopyStep /\ Unreceived' /\ Attended'
<1>1. /\ stage = "snapshot" /\ Running("snapshot") /\ UNCHANGED <<tgt, strayed, synced>>
      /\ stage' \notin {"down", "listening", "done"}
  BY DEF MigrationSnapshot, Running, At, Fails
<1>2. /\ Attended' /\ client \in {"waiting", "cut"} /\ UNCHANGED <<docker, nested, client>>
      /\ ds \in Datasets /\ docker \in BOOLEAN
  BY <1>1, PipelineAttends
<1>3. CASE UNCHANGED src
  BY <1>1, <1>2, <1>3, ClientLifts, UntouchedCopies DEF RInv
<1>4. CASE ~ UNCHANGED src
  <2>1. PICK new : /\ new = [name |-> ctx[ds].snap, at |-> clock + 1]
                   /\ ~ ctx[ds].resume /\ new.name \notin Names(ctx[ds].names)
                   /\ clock' = clock + 1
                   /\ src' = [src EXCEPT ![ds] = @ \cup {new}]
    <3>1. \A e : e \in Within(ds) <=> e = ds
      BY PlainWithin DEF RInv, IInv, Typed, ZfsTypes
    <3>2. PICK new : /\ new = [name |-> ctx[ds].snap, at |-> clock + 1]
                     /\ ~ ctx[ds].resume /\ new.name \notin Names(ctx[ds].names)
                     /\ clock' = clock + 1
                     /\ src' = [e \in DOMAIN src |->
                          IF e \in Within(ds) THEN src[e] \cup {new} ELSE src[e]]
      BY <1>4 DEF MigrationSnapshot
    <3>3. src' = [src EXCEPT ![ds] = @ \cup {new}]
      BY <3>1, <3>2
    <3> QED BY <3>2, <3>3
  <2>2. PICK d \in Datasets : d = ds
    BY <1>2
  <2>3. d \in 1 .. NumDatasets /\ src \in [1 .. NumDatasets -> SUBSET Snapshots] /\ clock \in Nat
    BY <1>2, DatasetsAre DEF RInv, IInv, Typed, ZfsTypes
  <2>4. src'[d] = src[d] \cup {new} /\ \A e \in Datasets : e # d => src'[e] = src[e]
    BY <2>1, <2>2, <2>3, DatasetsAre, <1>2
  <2>5. Due(d) /\ ctx[d].snap > 0
    <3>1. Again(d) \/ Due(d)
      BY <1>1, <2>2 DEF RInv, IInv, Contextual
    <3>2. ctx[d].snap \notin Names(ctx[d].names)
      BY <2>1, <2>2
    <3> QED BY <1>1, <2>2, <3>1, <3>2, DueIsNeeded DEF RInv
  <2>6. Moments(tgt)[d] = Moments(src)[d]
    <3>1. CASE Src(d) = {}
      <4>1. Tgt(d) = {}
        BY <3>1 DEF RInv, IInv, OnDisk, Bases
      <4> QED BY <3>1, <4>1, MomentNow DEF RInv
    <3>2. CASE \E n \in tgt[d] : IsNewest(n, Src(d))
      BY <3>2, CopyIsNoNewer DEF RInv
    <3> QED BY <2>5, <3>1, <3>2 DEF Due
  <2>7. Src(d)' = Src(d) \cup {new} /\ \A s \in Src(d) : s.at \in 0 .. clock
    <3>1. Counts(new)
      BY <2>1, <2>2, <2>5 DEF Counts, Migration
    <3>2. \A s \in Src(d) : s.at \in 0 .. clock
      BY SnapshotTypes, SnapshotFields DEF RInv, IInv, Src, Rel
    <3> QED BY <1>2, <2>4, <3>1, <3>2 DEF Src, Rel, Counts, Migration
  <2>8. IsNewest(new, Src(d)') /\ new.at = clock + 1
    BY <2>1, <2>3, <2>7 DEF IsNewest
  <2>9. Moments(src')[d] = clock + 1
    BY <1>2, <2>8, MomentNext
  <2>10. Moments(src)[d] = -1 \/ Moments(src)[d] \in 0 .. clock
    BY MomentNow DEF RInv
  <2>11. Moments(src')[d] > Moments(src)[d]
    BY <2>3, <2>9, <2>10
  <2>12. CopyStep
    BY <1>1, <1>2, <2>4, <2>6, <2>11, TakeLifts DEF RInv
  <2> QED BY <1>1, <1>2, <2>12, UntouchedCopies DEF RInv
<1> QED BY <1>3, <1>4

LEMMA SetupSyncLifts ==
  ASSUME RInv, IInv', SetupSync
  PROVE  CopyStep /\ Unreceived' /\ Attended'
<1>1. /\ stage = "setup" /\ Running("setup") /\ UNCHANGED <<clock, src, ctx, synced, strayed>>
      /\ stage' \notin {"down", "listening", "done"}
  BY DEF SetupSync, Running, At, Fails, ReplyLost
<1>2. /\ Attended' /\ client \in {"waiting", "cut"} /\ UNCHANGED <<docker, nested, client>>
      /\ ds \in Datasets /\ docker \in BOOLEAN
  BY <1>1, PipelineAttends
<1>3. CASE UNCHANGED tgt
  BY <1>1, <1>2, <1>3, ClientLifts, UntouchedCopies DEF RInv
<1>4. CASE ~ UNCHANGED tgt
  <2>1. TargetSetUp /\ DestroysFirst
    <3>1. TargetSetUp
      BY <1>4 DEF SetupSync
    <3>2. tgt \in [1 .. NumDatasets -> SUBSET Snapshots]
      BY DEF RInv, IInv, Typed, ZfsTypes
    <3> QED BY <1>4, <3>1, <3>2 DEF TargetSetUp, RInv, IInv, Typed, ZfsTypes
  <2>2. PICK d \in Datasets : d = ds
    BY <1>2
  <2>3. d \in 1 .. NumDatasets /\ tgt \in [1 .. NumDatasets -> SUBSET Snapshots]
    BY <1>2, DatasetsAre DEF RInv, IInv, Typed, ZfsTypes
  <2>4. tgt'[d] = {} /\ \A e \in Datasets : e # d => tgt'[e] = tgt[e]
    <3>1. tgt' = [tgt EXCEPT ![d] = {}]
      BY <2>1, <2>2, <2>3, PlainWithin DEF TargetSetUp, RInv, IInv, Typed, ZfsTypes
    <3> QED BY <1>2, <2>3, <3>1, DatasetsAre
  <2>5. /\ Tgt(d)' = {}
        /\ \A e \in Datasets : e # d => Tgt(e)' = Tgt(e)
        /\ Datasets' = Datasets
    BY <1>2, <2>4 DEF Tgt, Rel, Counts, Migration, Datasets
  <2>6. Unreceived'
    BY <1>1, <2>5 DEF RInv, Unreceived
  <2>7. strayed \/ Tgt(d) = {}
    <3>1. Settled(d) /\ ~ Received(d)
      BY <1>1, <1>2, <2>2, DatasetsAre
      DEF Settled, Received, Syncing, Pruning, Succeeded
    <3>2. Settlement(d) /\ ctx[d].first
      BY <2>1, <2>2, <3>1 DEF RInv, IInv, Contextual, DestroysFirst
    <3>3. ctx[d].names = Src(d) /\ \E n \in Src(d) : About(d, n) /\ n \notin tgt[d]
      BY <3>1, <3>2 DEF Settlement, Again
    <3>4. Src(d) \cap tgt[d] = {}
      BY <3>2, <3>3 DEF About
    <3>5. strayed \/ d \notin synced
      BY <3>4 DEF RInv, IInv, OnDisk, Bases
    <3> QED BY <3>5 DEF RInv, Unreceived
  <2>8. strayed \in BOOLEAN
    BY DEF RInv, IInv, Typed, RunTypes
  <2>9. CopyStep
    BY <1>1, <1>2, <2>4, <2>5, <2>7, <2>8, TargetLifts DEF RInv
  <2> QED BY <1>2, <2>6, <2>9
<1> QED BY <1>3, <1>4

\* A stream arrives, to its end or not.
LEMMA StreamLifts ==
  ASSUME RInv, IInv', stage = "stream", Receives \/ ReceivesPart,
         UNCHANGED <<docker, nested, clock, own, src>>, client' \in {client, "cut"}
  PROVE  CopyStep /\ Unreceived'
<1>1. /\ client \in {"waiting", "cut"} /\ ds \in Datasets /\ docker \in BOOLEAN
  BY IsUnderWay DEF RInv, IInv, Typed, ZfsTypes, SenderTypes
<1>2. PICK d \in Datasets : d = ds
  BY <1>1
<1>3. Settled(d) /\ ~ Received(d)
  BY <1>1, <1>2, DatasetsAre DEF Settled, Received, Syncing, Pruning, Succeeded
<1>4. Datasets' = Datasets
  BY DEF Datasets
<1>5. CASE Receives
  <2>1. /\ synced' = synced \cup {d}
        /\ \A e \in Datasets : e # d => tgt'[e] = tgt[e]
        /\ \/ strayed' = strayed /\ \E n \in Src(d) : IsNewest(n, Src(d)) /\ n \in tgt'[d]
           \/ strayed' = TRUE /\ Tgt(d)' = Tgt(d)
    BY <1>2, <1>3, <1>5, CopyReceives DEF RInv
  <2>2. CopyStep
    BY <1>1, <2>1, TargetLifts DEF RInv
  <2>3. \A e \in Datasets : e # d => Tgt(e)' = Tgt(e)
    BY <2>1 DEF Tgt, Rel, Counts, Migration
  <2> QED BY <1>4, <2>1, <2>2, <2>3 DEF RInv, Unreceived
<1>6. CASE ReceivesPart
  <2>1. /\ UNCHANGED <<synced, strayed>> /\ Tgt(d)' = Tgt(d)
        /\ \A e \in Datasets : e # d => tgt'[e] = tgt[e]
    BY <1>2, <1>3, <1>6, CopyReceivesPart DEF RInv
  <2>2. CopyStep
    BY <1>1, <2>1, TargetLifts DEF RInv
  <2>3. \A e \in Datasets : Tgt(e)' = Tgt(e)
    BY <2>1 DEF Tgt, Rel, Counts, Migration
  <2> QED BY <2>1, <2>2, <2>3, UnreceivedKept DEF RInv
<1> QED BY <1>5, <1>6

LEMMA ZfsSendLifts ==
  ASSUME RInv, IInv', ZfsSend
  PROVE  CopyStep /\ Unreceived' /\ Attended'
<1>1. /\ stage = "stream" /\ Running("stream") /\ UNCHANGED <<clock, own, src>>
      /\ stage' \notin {"down", "listening", "done"}
  BY DEF ZfsSend, Running, At, Fails
<1>2. /\ Attended' /\ client \in {"waiting", "cut"} /\ UNCHANGED <<docker, nested, client>>
  BY <1>1, PipelineAttends
<1>3. CASE UNCHANGED <<tgt, synced, strayed>>
  BY <1>1, <1>2, <1>3, ClientLifts, UntouchedCopies DEF RInv
<1>4. CASE Receives \/ ReceivesPart
  BY <1>1, <1>2, <1>4, StreamLifts
<1> QED BY <1>3, <1>4 DEF ZfsSend

LEMMA SenderDiesLifts ==
  ASSUME RInv, IInv', SenderDies
  PROVE  CopyStep /\ Unreceived' /\ Attended'
<1>1. /\ stage \notin {"down", "listening", "done"} /\ stage' = "down"
      /\ client' = IF client = "waiting" THEN "cut" ELSE client
      /\ UNCHANGED <<docker, nested, clock, own, src>>
  BY DEF SenderDies, Forgotten
<1>2. Attended' /\ client' \in {client, "cut"}
  BY <1>1, IsUnderWay DEF RInv, Attended
<1>3. CASE UNCHANGED <<tgt, synced, strayed>>
  BY <1>1, <1>3, ClientLifts, UntouchedCopies, <1>2 DEF RInv
<1>4. CASE stage = "stream" /\ (Receives \/ ReceivesPart)
  BY <1>1, <1>2, <1>4, StreamLifts
<1> QED BY Zenon, <1>3, <1>4 DEF SenderDies

LEMMA PruneSourceLifts ==
  ASSUME RInv, IInv', PruneSource
  PROVE  CopyStep /\ Unreceived' /\ Attended'
<1>1. /\ stage = "prune" /\ Running("prune") /\ UNCHANGED <<clock, tgt, token, synced, strayed, ctx>>
      /\ stage' \notin {"down", "listening", "done"} /\ UNCHANGED own
  BY DEF PruneSource, Running, At, Fails
<1>2. /\ Attended' /\ client \in {"waiting", "cut"} /\ UNCHANGED <<docker, nested, client>>
      /\ ds \in Datasets /\ docker \in BOOLEAN
  BY <1>1, PipelineAttends
<1>3. Unreceived'
  BY <1>1, <1>2, UntouchedCopies DEF RInv
<1>4. CASE UNCHANGED src
  BY <1>1, <1>2, <1>3, <1>4, ClientLifts
<1>5. CASE ToPrune # {} /\ SourceDestroyed
  <2>1. PICK d \in Datasets : d = ds
    BY <1>2
  <2>2. Settled(d) /\ Received(d)
    BY <1>1, <2>1 DEF Settled, Received, Pruning
  <2>3. /\ \A e \in Datasets : e # d => src'[e] = src[e]
        /\ src'[d] \subseteq src[d]
        /\ \A n \in Src(d) : About(d, n) => n \in Src(d)'
    BY <1>1, <1>2, <1>5, <2>1, <2>2, PrunedOnSource DEF RInv
  <2>4. Src(d)' \subseteq Src(d) /\ \A e \in Datasets : e # d => Src(e)' = Src(e)
    BY <1>2, <2>3 DEF Src, Rel, Counts, Migration
  <2>5. PICK n \in Src(d) : About(d, n) /\ Src(d) \subseteq ctx[d].names
    BY <2>2 DEF RInv, IInv, Contextual, Settlement
  <2>6. IsNewest(n, Src(d)) /\ IsNewest(n, Src(d)')
    BY <2>3, <2>4, <2>5 DEF About, IsNewest
  <2>7. \A e \in Datasets : \/ Src(e)' = Src(e)
                            \/ \E m : IsNewest(m, Src(e)) /\ IsNewest(m, Src(e)')
    BY <2>4, <2>6
  <2>8. CopyStep
    BY <1>1, <1>2, <2>7, SourceLifts DEF RInv
  <2> QED BY <1>2, <1>3, <2>8
<1> QED BY <1>4, <1>5 DEF PruneSource

\* What the target destroys is not the newest it has.
LEMMA PruneTargetLifts ==
  ASSUME RInv, IInv', PruneTarget
  PROVE  CopyStep /\ Unreceived' /\ Attended'
<1>1. /\ stage = "pruneTarget" /\ Running("pruneTarget")
      /\ UNCHANGED <<clock, src, token, synced, strayed, ctx, own>>
      /\ stage' \notin {"down", "listening", "done"}
  BY DEF PruneTarget, Running, At, OnTo, Fails, ReplyLost
<1>2. /\ Attended' /\ client \in {"waiting", "cut"} /\ UNCHANGED <<docker, nested, client>>
      /\ ds \in Datasets /\ docker \in BOOLEAN
  BY <1>1, PipelineAttends
<1>3. CASE UNCHANGED tgt
  BY <1>1, <1>2, <1>3, ClientLifts, UntouchedCopies DEF RInv
<1>4. CASE TargetPruned
  <2>1. PICK d \in Datasets : d = ds
    BY <1>2
  <2>2. Settled(d) /\ Received(d) /\ SourcePruned(d)
    BY <1>1, <2>1 DEF Settled, Received, SourcePruned, Pruning
  <2>3. \A e \in Datasets : e # d => tgt'[e] = tgt[e]
    BY <1>1, <1>2, <1>4, <2>1, <2>2, PrunedOnTarget DEF RInv
  <2>4. PICK n \in Src(d) : /\ Src(d) \subseteq ctx[d].names /\ About(d, n)
                            /\ n \in tgt[d] \/ strayed
    BY <2>2 DEF RInv, IInv, Contextual, Settlement
  <2>5. IsNewest(n, Src(d))
    BY <2>4 DEF About, IsNewest
  <2>6. tgt'[d] = {s \in tgt[d] : s.name \notin Names(ObsoleteOnTarget)}
    <3>1. d \in 1 .. NumDatasets /\ tgt \in [1 .. NumDatasets -> SUBSET Snapshots]
      BY <1>2, DatasetsAre DEF RInv, IInv, Typed, ZfsTypes
    <3> QED BY <1>4, <2>1, <3>1, PlainWithin DEF TargetPruned, RInv, IInv, Typed, ZfsTypes
  <2>7. n.name \notin Names(ObsoleteOnTarget)
    <3>1. CASE ctx[d].first
      BY <2>1, <3>1 DEF ObsoleteOnTarget, Names
    <3>2. CASE ~ ctx[d].first
      <4>1. PICK p : ctx[d].prev = {p} /\ p.name # n.name
        BY <2>4, <3>2 DEF About
      <4> QED BY <2>1, <3>2, <4>1 DEF ObsoleteOnTarget, Names
    <3> QED BY <3>1, <3>2
  <2>8. /\ Tgt(d)' \subseteq Tgt(d) /\ Datasets' = Datasets
        /\ \A e \in Datasets : e # d => Tgt(e)' = Tgt(e)
    BY <1>2, <2>3, <2>6 DEF Tgt, Rel, Counts, Migration, Datasets
  <2>9. Unreceived'
    BY <1>1, <1>2, <2>8, UnreceivedKept DEF RInv
  <2>10. strayed \in BOOLEAN
    BY DEF RInv, IInv, Typed, RunTypes
  <2>11. \/ strayed' = strayed /\ \E m \in Src(d) : IsNewest(m, Src(d)) /\ m \in tgt'[d]
         \/ strayed = TRUE /\ strayed' = TRUE /\ Tgt(d)' \subseteq Tgt(d) /\ client' = client
    BY <1>1, <1>2, <2>4, <2>5, <2>6, <2>7, <2>8, <2>10
  <2>12. CopyStep
    BY <1>1, <1>2, <2>3, <2>11, TargetLifts DEF RInv
  <2> QED BY <1>2, <2>9, <2>12
<1> QED BY <1>3, <1>4 DEF PruneTarget

\* Success is answered when every copy is at the source's last moment.
LEMMA SuccessLifts ==
  ASSUME RInv, Succeeded, UNCHANGED <<docker, nested, src, tgt, strayed>>,
         client = "waiting", client' = "ok"
  PROVE  CopyStep
<1>1. Moments(src)' = Moments(src) /\ Moments(tgt)' = Moments(tgt)
  BY MomentsPrimed
<1>2. docker \in BOOLEAN /\ strayed \in BOOLEAN /\ 1 \in Datasets /\ 1 \in 1 .. NumDatasets
  BY DatasetsAre DEF RInv, IInv, Typed, ZfsTypes, RunTypes
<1>3. ASSUME NEW d \in Datasets
      PROVE  /\ Src(d) # {}
             /\ strayed \/ Moments(tgt)[d] = Moments(src)[d]
  <2>1. PICK n \in Src(d) : IsNewest(n, Src(d)) /\ (n \in tgt[d] \/ strayed)
    BY SuccessIsReplicated DEF RInv, Replicated
  <2> QED BY <2>1, CopyIsNoNewer DEF RInv
<1>4. Moments(src)[1] # -1
  <2>1. Moments(src)[1] \in 0 .. clock
    BY <1>2, <1>3, MomentNow DEF RInv
  <2> QED BY <2>1
<1>5. strayed \/ Moments(tgt) = Moments(src)
  BY <1>3 DEF Moments
<1>6. Copies!Succeed
  BY <1>1, <1>2, <1>4, <1>5 DEF Copies!Succeed, Copies!Nothing
<1> QED BY <1>6 DEF CopyStep, Copies!Next

LEMMA FinishLifts ==
  ASSUME RInv, Finish
  PROVE  CopyStep /\ Unreceived' /\ Attended'
<1>1. /\ stage = "shutdown" /\ UNCHANGED <<docker, nested, src, tgt, synced, strayed>>
      /\ client' = IF client = "waiting" THEN IF failed THEN "error" ELSE "ok" ELSE client
      /\ stage' = IF failed THEN "down" ELSE "done"
  BY DEF Finish, Forgotten, zfsVars, historyVars
<1>2. client \in {"waiting", "cut"}
  BY <1>1, IsUnderWay DEF RInv
<1>3. Unreceived'
  BY <1>1, UntouchedCopies DEF RInv
<1>4. Attended'
  BY <1>1, <1>2 DEF Attended
<1>5. CASE client = "waiting" /\ ~ failed
  <2>1. Succeeded
    BY <1>1, <1>5 DEF Succeeded
  <2> QED BY <1>1, <1>3, <1>4, <1>5, <2>1, SuccessLifts
<1>6. CASE client = "waiting" /\ failed
  BY <1>1, <1>3, <1>4, <1>6, ClientLifts
<1>7. CASE client = "cut"
  BY <1>1, <1>3, <1>4, <1>7, ClientLifts
<1> QED BY <1>2, <1>5, <1>6, <1>7

\* The owner's snapshots are none the sync goes by.
LEMMA OwnSnapshotLifts ==
  ASSUME RInv, IInv', OwnSnapshot
  PROVE  CopyStep /\ Unreceived' /\ Attended'
<1>1. /\ ~ docker /\ own' = own + 1 /\ own \in Nat
      /\ UNCHANGED <<docker, nested, tgt, stage, client, synced, strayed>>
  BY DEF OwnSnapshot, senderVars, historyVars, RInv, IInv, Typed, ZfsTypes
<1>2. PICK new : new = [name |-> -own', at |-> clock']
  OBVIOUS
<1>3. ~ Counts(new)
  BY <1>1, <1>2 DEF Counts, Migration
<1>4. \A d \in Datasets : src'[d] = src[d] \cup {new}
  <2>1. src \in [1 .. NumDatasets -> SUBSET Snapshots] /\ Datasets \subseteq 1 .. NumDatasets
    BY DatasetsAre DEF RInv, IInv, Typed, ZfsTypes
  <2>2. src' = [d \in DOMAIN src |-> IF d \in Datasets THEN src[d] \cup {new} ELSE src[d]]
    BY <1>2 DEF OwnSnapshot
  <2> QED BY <2>1, <2>2
<1>5. \A d \in Datasets : Src(d)' = Src(d)
  BY <1>1, <1>3, <1>4 DEF Src, Rel, Counts, Migration
<1>6. CopyStep
  BY <1>1, <1>5, SourceLifts DEF RInv
<1> QED BY <1>1, <1>6, UntouchedCopies DEF RInv, Attended

-----------------------------------------------------------------------------
LEMMA InitCopies == ASSUME Init, ~ nested PROVE RInv /\ Copies!Init
<1>1. IInv
  BY InitIInv
<1>2. Unreceived /\ Attended
  BY DatasetsAre DEF Init, Unreceived, Attended, Tgt, Rel
<1>3. docker \in BOOLEAN /\ Datasets \subseteq 1 .. NumDatasets /\ clock = 0
  BY DatasetsAre DEF Init
<1>4. \A d \in Datasets : Moments(tgt)[d] = -1
  <2>1. \A d \in Datasets : Tgt(d) = {}
    BY <1>3 DEF Init, Tgt, Rel
  <2> QED BY <1>1, <2>1, MomentNow
<1>5. \A d \in Datasets : Moments(src)[d] \in {-1, 0}
  BY <1>1, <1>3, MomentNow
<1>6. /\ Moments(tgt) = [d \in 1 .. NumDatasets |-> -1]
      /\ Moments(src) \in [1 .. NumDatasets -> {-1, 0}]
  BY <1>4, <1>5 DEF Moments
<1>7. client = "none" /\ (strayed \/ nested) \in BOOLEAN
  BY DEF Init
<1>8. Copies!Init
  BY <1>6, <1>7 DEF Copies!Init, Copies!Nothing
<1> QED BY <1>1, <1>2, <1>8 DEF RInv

LEMMA NextCopies == RInv /\ [Next]_vars => RInv' /\ [Copies!Next]_(Copies!vars)
<1> SUFFICES ASSUME RInv, [Next]_vars PROVE RInv' /\ CopyStep
  BY DEF CopyStep
<1>1. IInv'
  BY NextIInv DEF RInv
<1>2. CASE UNCHANGED vars
  <2>1. UNCHANGED <<docker, nested, src, tgt, strayed, synced, client, stage>>
    BY <1>2 DEF vars, zfsVars, senderVars, historyVars
  <2>2. CopyStep /\ Unreceived' /\ Attended'
    BY <2>1, ClientLifts, UntouchedCopies DEF RInv, Attended
  <2> QED BY <1>1, <2>2 DEF RInv
<1>3. CASE Listen \/ CommandSync \/ CommandSyncAgain \/ CommandStop \/ End
  BY <1>1, <1>3, CommandsLift DEF RInv
<1>4. CASE SourceNames \/ TargetNames \/ SendToken \/ Estimate \/ SyncSuccess
  BY <1>1, <1>4, CollectingLifts DEF RInv
<1>5. CASE MigrationSnapshot \/ SetupSync \/ ZfsSend
  BY <1>1, <1>5, MigrationSnapshotLifts, SetupSyncLifts, ZfsSendLifts DEF RInv
<1>6. CASE PruneSource \/ PruneTarget \/ Finish
  BY <1>1, <1>6, PruneSourceLifts, PruneTargetLifts, FinishLifts DEF RInv
<1>7. CASE SenderDies \/ OwnSnapshot
  BY <1>1, <1>7, SenderDiesLifts, OwnSnapshotLifts DEF RInv
<1> QED BY <1>2, <1>3, <1>4, <1>5, <1>6, <1>7 DEF Next, Sender

-----------------------------------------------------------------------------
(***************************************************************************)
(* With a delegate dataset Replica says of the copies nothing at all, only *)
(* what the one who asks for a sync gets to see.                           *)
(***************************************************************************)
Attends ==
  /\ stage = "listening" => client = "none"
  /\ client = "waiting" => stage \notin {"down", "listening", "done"}

ClientSees ==
  \/ client' = client
  \/ client = "none" /\ client' = "waiting"
  \/ client = "waiting" /\ client' \in {"ok", "error", "cut"}
  \/ client # "waiting" /\ client' = "none"

LEMMA ClientAttends == ASSUME Attends, [Next]_vars PROVE Attends' /\ ClientSees
<1> USE DEF Attends, ClientSees, Running, At, Fails, Forgotten
<1>1. CASE UNCHANGED vars
  BY <1>1 DEF vars, senderVars
<1>2. CASE Listen \/ CommandSync
  BY <1>2 DEF Listen, CommandSync
<1>3. CASE CommandSyncAgain \/ CommandStop \/ End
  BY <1>3 DEF CommandSyncAgain, CommandStop, End, senderVars
<1>4. CASE SourceNames \/ TargetNames \/ SendToken \/ MigrationSnapshot \/ Estimate
  BY <1>4 DEF SourceNames, TargetNames, SendToken, MigrationSnapshot, Estimate, OnTo, ReplyLost
<1>5. CASE SetupSync \/ ZfsSend \/ SyncSuccess
  BY <1>5 DEF SetupSync, ZfsSend, SyncSuccess, OnTo, ReplyLost
<1>6. CASE PruneSource \/ PruneTarget
  BY <1>6 DEF PruneSource, PruneTarget, OnTo, ReplyLost
<1>7. CASE Finish
  BY <1>7 DEF Finish
<1>8. CASE SenderDies
  BY <1>8 DEF SenderDies
<1>9. CASE OwnSnapshot
  BY <1>9 DEF OwnSnapshot, senderVars
<1> QED BY <1>1, <1>2, <1>3, <1>4, <1>5, <1>6, <1>7, <1>8, <1>9 DEF Next, Sender

LEMMA NestedInit == ASSUME Init, nested PROVE Copies!Init
<1>1. nested = TRUE /\ (strayed \/ nested) \in BOOLEAN /\ client = "none"
  BY Zenon DEF Init
<1>2. /\ Moments(tgt) = [d \in 1 .. NumDatasets |-> -1]
      /\ Moments(src) = [d \in 1 .. NumDatasets |-> -1]
  BY <1>1 DEF Moments
<1>3. Moments(src) \in [1 .. NumDatasets -> {-1, 0}]
  BY <1>2
<1> QED BY <1>1, <1>2, <1>3 DEF Copies!Init, Copies!Nothing

LEMMA NestedCopies == ASSUME nested = TRUE, Attends, [Next]_vars PROVE CopyStep
<1>1. nested' = TRUE
  BY MachineStays
<1>2. Moments(src)' = Moments(src) /\ Moments(tgt)' = Moments(tgt)
  BY <1>1 DEF Moments
<1>3. (strayed \/ nested)' = (strayed \/ nested) /\ (strayed \/ nested)
  BY <1>1, Zenon
<1>4. ClientSees
  BY ClientAttends
<1>5. CASE client' = client
  BY <1>2, <1>3, <1>5 DEF CopyStep, Copies!vars
<1>6. CASE client = "none" /\ client' = "waiting"
  BY <1>2, <1>3, <1>6 DEF CopyStep, Copies!Next, Copies!Ask
<1>7. CASE client = "waiting" /\ client' = "ok"
  BY <1>2, <1>3, <1>7 DEF CopyStep, Copies!Next, Copies!Succeed
<1>8. CASE client = "waiting" /\ client' \in {"error", "cut"}
  BY <1>2, <1>3, <1>8 DEF CopyStep, Copies!Next, Copies!Fail
<1>9. CASE client # "waiting" /\ client' = "none"
  BY <1>2, <1>3, <1>9 DEF CopyStep, Copies!Next, Copies!Leave
<1> QED BY <1>4, <1>5, <1>6, <1>7, <1>8, <1>9 DEF ClientSees

\* Without a delegate dataset the target's copy of every dataset is never set back,
\* never more than one snapshot behind, and at the machine's last moment when
\* success is reported, whatever syncs failed, broke off or were cut off before
\* (determineSnapshotNames(), getZfsSyncArgs(), cleanupSnapshots()).
THEOREM KeepsReplica == Spec => ReplicaSpec
<1> DEFINE KInv == /\ ~ nested => RInv
                   /\ nested => nested = TRUE /\ Attends
<1>1. Init => KInv /\ Copies!Init
  <2>1. Init => nested \in BOOLEAN /\ Attends
    BY DEF Init, Attends
  <2> QED BY <2>1, InitCopies, NestedInit
<1>2. KInv /\ [Next]_vars => KInv' /\ [Copies!Next]_(Copies!vars)
  BY NextCopies, NestedCopies, ClientAttends, MachineStays DEF CopyStep
<1>3. Copies!Init /\ [][Copies!Next]_(Copies!vars) => ReplicaSpec
  BY DEF ReplicaSpec, Copies!Spec
<1> QED BY <1>1, <1>2, <1>3, PTL DEF Spec
=============================================================================
