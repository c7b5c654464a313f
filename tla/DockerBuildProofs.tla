-------------------------- MODULE DockerBuildProofs --------------------------
(***************************************************************************)
(* Proofs about the images a build makes, for any number of steps and any  *)
(* failures, and that the docker modules' state is well typed.             *)
(***************************************************************************)
EXTENDS DockerTasksProofs, FiniteSetTheorems

StepNos == 0 .. MaxSteps
Uuids  == Seq(SUBSET StepNos)
Layers == [changes : SUBSET StepNos, uuid : Uuids \cup {Unset}, meta : BOOLEAN]

\* Every place among the uploaded layers is somebody's.
Placed(ls) ==
  /\ IsFiniteSet(Uploaded(ls))
  /\ \A n \in 1 .. Cardinality(Uploaded(ls)) :
       \E i \in Uploaded(ls) : Cardinality({j \in Uploaded(ls) : j <= i}) = n

Before  == {"wait", "from"}
Untaken == {"post", "snapshot"}
Taken   == {"placeholder", "stream"}
Live    == Before \cup {"step", "finish"} \cup StepUnderWay

\* A step has changed the container, and its layer has no file yet.
Pending == phase \in Untaken \cup Taken /\ ~layers[Top].meta

Contexts == {"none", "receiving", "failed", "ended", "done", "lost"}

BuildTyped ==
  /\ command \in {"build", "commit"} /\ context \in Contexts
  /\ buildSocket \in {"none", "on", "gone"} /\ listening \in BOOLEAN /\ phase \in Phases
  /\ err \in BOOLEAN /\ cacheable \in BOOLEAN /\ setScratch \in BOOLEAN
  /\ stepNo \in 0 .. MaxSteps + 1 /\ fs \in SUBSET StepNos
  /\ upload \in {"none", "good", "corrupt", "failed", "unnoticed"}
  /\ endEvent \in {"none", "ok", "error"} /\ buildFaults \in 0 .. MaxBuildFaults
  /\ expected \in Uuids /\ gBase \in Uuids
  /\ gSnapshots \in Seq(SUBSET StepNos) /\ \A i \in DOMAIN gSnapshots : gSnapshots[i] \subseteq fs
  /\ layers \in Seq(Layers)
  /\ phase \in StepUnderWay => stepNo \in 1 .. MaxSteps

\* Where the layers are, and which of them is still without a file or a uuid.
Layered ==
  /\ Placed(layers)
  /\ phase \in Before => layers = <<>> /\ fs = {} /\ gBase = Scratch /\ ~setScratch
  /\ phase = "step" => stepNo > 0 /\ (setScratch \/ layers # <<>>)
  /\ phase \in StepUnderWay => layers # <<>> /\ (setScratch => phase = "post")
  /\ phase \in Untaken \cup Taken => layers[Top].changes = {}
  /\ phase = "post" => layers[Top].uuid = Unset /\ (setScratch \/ Top > 1)
  /\ phase = "image" => layers[Top].uuid # Unset \/ Top > 1
  /\ phase \in StepUnderWay \ {"post", "image"} => ~layers[Top].meta

\* The files made are those of the steps but for the one under way.
Digested ==
  phase \in Live =>
    /\ LayerDigests \in Uuids
    /\ expected = (IF Pending THEN Append(LayerDigests, {stepNo}) ELSE LayerDigests)
    /\ fs = Contents(expected)
    /\ Pending => stepNo \notin Contents(LayerDigests)
    /\ fs \subseteq 0 .. (IF phase = "step" THEN stepNo - 1 ELSE stepNo)

\* What the next difference will be made to is what the files made hold.
Latest == IF gSnapshots = <<>> THEN Contents(gBase) ELSE gSnapshots[Len(gSnapshots)]
Compared ==
  /\ phase \in Live \ Taken => Latest = Contents(LayerDigests)
  /\ phase \in Taken => /\ gSnapshots # <<>> /\ gSnapshots[Len(gSnapshots)] = fs
                        /\ ParentSnapshot = Contents(LayerDigests)

\* The last layer between two steps has the uuid of all of them.
Known(uuid) == uuid \in active \cup {Scratch, BaseImage, gBase}
Names(i) == layers[i].uuid = expected /\ Known(expected)
Named ==
  /\ phase = "activate" => layers[Top].uuid = expected
  /\ phase \in Before \/ (phase = "step" /\ cacheable) => images = {}
  /\ "scratch" \notin notes =>
       /\ phase = "step" => IF setScratch THEN layers = <<>> /\ expected = Scratch ELSE Names(Top)
       /\ phase = "post" =>
            IF setScratch THEN layers[Top].meta => expected = Scratch
            ELSE layers[Top].meta => Names(Top - 1)
       /\ phase = "image" =>
            IF layers[Top].uuid # Unset THEN Names(Top) ELSE Names(Top - 1)

Files == phase \in {"update", "activate"} => upload \in {"good", "unnoticed"}

ImageInv == BuildTyped /\ Layered /\ Digested /\ Compared /\ Named /\ Files /\ ImagesAreTheSteps

-----------------------------------------------------------------------------
(***************************************************************************)
(* The digests of layers.                                                  *)
(***************************************************************************)

\* They tell layers apart by what was uploaded, and by nothing else.
LEMMA SameDigests ==
  ASSUME NEW ls, NEW ms, Placed(ls), Uploaded(ms) = Uploaded(ls),
         \A i \in Uploaded(ls) : ms[i].changes = ls[i].changes
  PROVE  Placed(ms) /\ DigestsOf(ms) = DigestsOf(ls)
<1>1. Placed(ms)
  BY DEF Placed
<1>2. ASSUME NEW n \in 1 .. Cardinality(Uploaded(ls))
      PROVE  Nth(Uploaded(ls), n) \in Uploaded(ls)
  BY <1>2 DEF Placed, Nth
<1> QED BY <1>1, <1>2 DEF DigestsOf

\* A layer uploaded above all others comes last.
LEMMA MoreDigests ==
  ASSUME NEW ls, NEW ms, NEW top \in Nat, Placed(ls),
         \A i \in Uploaded(ls) : i \in Nat /\ i < top,
         Uploaded(ms) = Uploaded(ls) \cup {top},
         \A i \in Uploaded(ls) : ms[i].changes = ls[i].changes
  PROVE  Placed(ms) /\ DigestsOf(ms) = Append(DigestsOf(ls), ms[top].changes)
<1> DEFINE U == Uploaded(ls)
           V == U \cup {top}
           c == Cardinality(U)
           Upto(S, i) == {j \in S : j <= i}
<1>1. /\ IsFiniteSet(U) /\ c \in Nat /\ top \notin U
      /\ IsFiniteSet(V) /\ Cardinality(V) = c + 1
  BY FS_CardinalityType, FS_AddElement DEF Placed
<1>2. \A i \in U : Upto(V, i) = Upto(U, i) /\ Cardinality(Upto(U, i)) <= c
  <2> SUFFICES ASSUME NEW i \in U
               PROVE  Upto(V, i) = Upto(U, i) /\ Cardinality(Upto(U, i)) <= c
    OBVIOUS
  <2>1. Upto(V, i) = Upto(U, i)
    OBVIOUS
  <2>2. Upto(U, i) \in SUBSET U
    OBVIOUS
  <2>3. Cardinality(Upto(U, i)) <= Cardinality(U)
    <3> HIDE DEF U, Upto
    <3> QED BY <1>1, <2>2, FS_Subset
  <2> QED BY <2>1, <2>3
<1>3. Upto(V, top) = V
  OBVIOUS
<1>4. \A n \in 1 .. c : \E i \in U : Cardinality(Upto(U, i)) = n
  BY DEF Placed
<1>0. \A i : i \in V <=> i \in U \/ i = top
  OBVIOUS
<1>16. Uploaded(ls) = U /\ Uploaded(ms) = V /\ Cardinality(U) = c
  OBVIOUS
<1>17. \A i \in U : ms[i].changes = ls[i].changes
  OBVIOUS
<1> HIDE DEF Upto, U, V, c
<1>5. \A n \in 1 .. c + 1 : \E i \in V : Cardinality(Upto(V, i)) = n
  <2> SUFFICES ASSUME NEW n \in 1 .. c + 1 PROVE \E i \in V : Cardinality(Upto(V, i)) = n
    OBVIOUS
  <2>1. CASE n = c + 1
    BY <1>0, <1>1, <1>3, <2>1
  <2>2. CASE n \in 1 .. c
    <3>1. PICK i \in U : Cardinality(Upto(U, i)) = n
      BY <1>4, <2>2
    <3> QED BY <1>0, <1>2, <3>1
  <2> QED BY <1>1, <2>1, <2>2
<1>6. Placed(ms)
  BY <1>1, <1>5, <1>16 DEF Placed, Upto
<1>7. \A n \in 1 .. c : Nth(V, n) = Nth(U, n) /\ Nth(U, n) \in U
  <2> SUFFICES ASSUME NEW n \in 1 .. c PROVE Nth(V, n) = Nth(U, n) /\ Nth(U, n) \in U
    OBVIOUS
  <2>1. Nth(U, n) \in U
    BY <1>4 DEF Nth, Upto
  <2>2. Cardinality(Upto(V, top)) # n
    BY <1>1, <1>3
  <2>3. \A i : i \in V /\ Cardinality(Upto(V, i)) = n <=> i \in U /\ Cardinality(Upto(U, i)) = n
    BY <1>0, <1>2, <2>2
  <2>4. Nth(V, n) = (CHOOSE i : i \in V /\ Cardinality(Upto(V, i)) = n)
    BY Zenon DEF Nth, Upto
  <2>5. Nth(U, n) = (CHOOSE i : i \in U /\ Cardinality(Upto(U, i)) = n)
    BY Zenon DEF Nth, Upto
  <2>6. (CHOOSE i : i \in V /\ Cardinality(Upto(V, i)) = n)
          = (CHOOSE i : i \in U /\ Cardinality(Upto(U, i)) = n)
    BY <2>3, Zenon
  <2> QED BY <2>1, <2>4, <2>5, <2>6, Zenon
<1>8. Nth(V, c + 1) = top
  <2>1. \A i \in V : Cardinality(Upto(V, i)) = c + 1 <=> i = top
    BY <1>0, <1>1, <1>2, <1>3
  <2> QED BY <1>0, <2>1 DEF Nth, Upto
<1> DEFINE d == DigestsOf(ls)
           e == DigestsOf(ms)
<1>9. d = [n \in 1 .. c |-> ls[Nth(U, n)].changes]
  BY <1>16 DEF DigestsOf
<1>10. e = [n \in 1 .. c + 1 |-> ms[Nth(V, n)].changes]
  BY <1>1, <1>16 DEF DigestsOf
<1>11. d \in Seq({d[n] : n \in 1 .. c}) /\ Len(d) = c
  BY <1>1, <1>9
<1>12. Append(d, ms[top].changes) = [n \in 1 .. c + 1 |-> IF n = c + 1 THEN ms[top].changes ELSE d[n]]
  BY <1>1, <1>11
<1>13. \A n \in 1 .. c : e[n] = d[n]
  BY <1>1, <1>7, <1>9, <1>10, <1>17
<1>14. e[c + 1] = ms[top].changes
  BY <1>1, <1>8, <1>10
<1>15. e = Append(d, ms[top].changes)
  <2>1. e = [n \in 1 .. c + 1 |-> e[n]]
    BY <1>10
  <2> HIDE DEF d, e
  <2>2. \A n \in 1 .. c + 1 : e[n] = IF n = c + 1 THEN ms[top].changes ELSE d[n]
    BY <1>1, <1>13, <1>14
  <2> QED BY <1>12, <2>1, <2>2
<1> QED BY <1>6, <1>15

LEMMA NoDigests == Placed(<<>>) /\ DigestsOf(<<>>) = <<>>
<1>1. Uploaded(<<>>) = {}
  BY DEF Uploaded
<1>2. IsFiniteSet({}) /\ Cardinality({}) = 0
  BY FS_EmptySet
<1>3. Placed(<<>>)
  BY <1>1, <1>2 DEF Placed
<1>4. DigestsOf(<<>>) = [n \in 1 .. 0 |-> <<>>[Nth({}, n)].changes]
  BY <1>1, <1>2 DEF DigestsOf
<1>5. 1 .. 0 = {}
  OBVIOUS
<1> QED BY <1>3, <1>4, <1>5

LEMMA AddLayer ==
  ASSUME NEW ls \in Seq(Layers), Placed(ls), NEW l \in Layers
  PROVE  /\ Append(ls, l) \in Seq(Layers) /\ Placed(Append(ls, l))
         /\ DigestsOf(Append(ls, l)) =
              IF l.changes = {} THEN DigestsOf(ls) ELSE Append(DigestsOf(ls), l.changes)
<1> DEFINE ms  == Append(ls, l)
           top == Len(ls) + 1
<1>1. /\ ms \in Seq(Layers) /\ top \in Nat /\ DOMAIN ms = 1 .. top /\ DOMAIN ls = 1 .. Len(ls)
      /\ \A i \in 1 .. Len(ls) : ms[i] = ls[i]
      /\ ms[top] = l
  OBVIOUS
<1>2. \A i \in Uploaded(ls) : i \in Nat /\ i < top /\ ms[i].changes = ls[i].changes
  BY <1>1 DEF Uploaded
<1> HIDE DEF ms
<1>3. CASE l.changes = {}
  <2>1. Uploaded(ms) = Uploaded(ls)
    BY <1>1, <1>3 DEF Uploaded
  <2>2. Placed(ms) /\ DigestsOf(ms) = DigestsOf(ls)
    BY <1>2, <2>1, SameDigests
  <2> QED BY <1>1, <1>3, <2>2 DEF ms
<1>4. CASE l.changes # {}
  <2>1. Uploaded(ms) = Uploaded(ls) \cup {top}
    BY <1>1, <1>4 DEF Uploaded
  <2>2. Placed(ms) /\ DigestsOf(ms) = Append(DigestsOf(ls), ms[top].changes)
    <3> HIDE DEF top
    <3> QED BY <1>1, <1>2, <2>1, MoreDigests
  <2> QED BY <1>1, <1>4, <2>2 DEF ms
<1> QED BY <1>3, <1>4

\* The uuid of a layer is not made of uuids.
LEMMA SetUuid ==
  ASSUME NEW ls \in Seq(Layers), Placed(ls), ls # <<>>, NEW u \in Uuids \cup {Unset}
  PROVE  LET ms == [ls EXCEPT ![Len(ls)].uuid = u] IN
         /\ ms \in Seq(Layers) /\ ms # <<>> /\ Placed(ms) /\ DigestsOf(ms) = DigestsOf(ls)
         /\ Len(ms) = Len(ls) /\ ms[Len(ls)].uuid = u
         /\ ms[Len(ls)].changes = ls[Len(ls)].changes /\ ms[Len(ls)].meta = ls[Len(ls)].meta
         /\ \A i \in 1 .. Len(ls) - 1 : ms[i] = ls[i]
<1> DEFINE top == Len(ls)
           ms  == [ls EXCEPT ![Len(ls)].uuid = u]
<1>1. top \in Nat \ {0} /\ top \in 1 .. top /\ ls[top] \in Layers
  OBVIOUS
<1>2. ms = [ls EXCEPT ![top] = [ls[top] EXCEPT !.uuid = u]]
  OBVIOUS
<1>3. /\ [ls[top] EXCEPT !.uuid = u] \in Layers /\ [ls[top] EXCEPT !.uuid = u].uuid = u
      /\ [ls[top] EXCEPT !.uuid = u].changes = ls[top].changes
      /\ [ls[top] EXCEPT !.uuid = u].meta = ls[top].meta
  BY <1>1 DEF Layers
<1>4. /\ ms \in Seq(Layers) /\ ms # <<>> /\ Len(ms) = top
      /\ ms[top] = [ls[top] EXCEPT !.uuid = u] /\ \A i \in 1 .. top - 1 : ms[i] = ls[i]
      /\ DOMAIN ms = 1 .. top /\ DOMAIN ls = 1 .. top
  BY <1>1, <1>2, <1>3
<1> HIDE DEF ms
<1>5. \A i \in 1 .. top : ms[i].changes = ls[i].changes
  <2>1. ms[top].changes = ls[top].changes
    BY <1>3, <1>4
  <2>2. \A i \in 1 .. top - 1 : ms[i].changes = ls[i].changes
    BY <1>4
  <2> HIDE DEF top
  <2> QED BY <1>1, <2>1, <2>2
<1>6. Uploaded(ms) = Uploaded(ls) /\ \A i \in Uploaded(ls) : ms[i].changes = ls[i].changes
  BY <1>4, <1>5 DEF Uploaded
<1>7. Placed(ms) /\ DigestsOf(ms) = DigestsOf(ls)
  BY <1>6, SameDigests
<1> QED BY <1>3, <1>4, <1>7 DEF ms

\* The file of the last layer is added to those below.
LEMMA SetChanges ==
  ASSUME NEW ls \in Seq(Layers), Placed(ls), ls # <<>>, ls[Len(ls)].changes = {},
         NEW X \in SUBSET StepNos
  PROVE  LET ms == [ls EXCEPT ![Len(ls)].changes = X] IN
         /\ ms \in Seq(Layers) /\ ms # <<>> /\ Placed(ms) /\ Len(ms) = Len(ls)
         /\ ms[Len(ls)].meta = ls[Len(ls)].meta
         /\ X # {} => DigestsOf(ms) = Append(DigestsOf(ls), X)
<1> DEFINE top == Len(ls)
           ms  == [ls EXCEPT ![Len(ls)].changes = X]
<1>1. top \in Nat \ {0} /\ top \in 1 .. top /\ ls[top] \in Layers
  OBVIOUS
<1>2. ms = [ls EXCEPT ![top] = [ls[top] EXCEPT !.changes = X]]
  OBVIOUS
<1>3. /\ [ls[top] EXCEPT !.changes = X] \in Layers /\ [ls[top] EXCEPT !.changes = X].changes = X
      /\ [ls[top] EXCEPT !.changes = X].meta = ls[top].meta
  BY <1>1 DEF Layers
<1>4. /\ ms \in Seq(Layers) /\ ms # <<>> /\ Len(ms) = top
      /\ ms[top] = [ls[top] EXCEPT !.changes = X] /\ \A i \in 1 .. top - 1 : ms[i] = ls[i]
      /\ DOMAIN ms = 1 .. top /\ DOMAIN ls = 1 .. top
  BY <1>1, <1>2, <1>3
<1> HIDE DEF ms
<1>5. ms[top].changes = X /\ \A i \in 1 .. top - 1 : ms[i].changes = ls[i].changes
  BY <1>1, <1>3, <1>4
<1>6. ls[top].changes = {} /\ Len(ls) = top
  OBVIOUS
<1> HIDE DEF top
<1>9. \A i \in Uploaded(ls) : i \in 1 .. top - 1
  BY <1>1, <1>4, <1>6 DEF Uploaded
<1>10. \A i \in Uploaded(ls) : ms[i].changes = ls[i].changes
  BY <1>5, <1>9
<1>11. \A i : i \in 1 .. top <=> i \in 1 .. top - 1 \/ i = top
  BY <1>1
<1>12. top \in Nat
  BY <1>1
<1>13. \A i : i \in Uploaded(ls) <=> i \in 1 .. top - 1 /\ ls[i].changes # {}
  BY <1>4, <1>6, <1>11 DEF Uploaded
<1>14. \A i : i \in Uploaded(ms) <=>
         (i \in 1 .. top - 1 /\ ls[i].changes # {}) \/ (i = top /\ X # {})
  <2>1. \A i : i \in Uploaded(ms) => i \in 1 .. top /\ ms[i].changes # {}
    BY <1>4 DEF Uploaded
  <2>2. \A i : i \in 1 .. top /\ ms[i].changes # {} => i \in Uploaded(ms)
    BY <1>4 DEF Uploaded
  <2> QED BY <1>5, <1>11, <2>1, <2>2
<1>7. CASE X = {}
  <2>1. Uploaded(ms) = Uploaded(ls)
    <3>1. \A i : i \in Uploaded(ms) <=> i \in Uploaded(ls)
      BY <1>7, <1>13, <1>14, Zenon
    <3> QED BY <3>1, Zenon
  <2>2. Placed(ms)
    BY <1>10, <2>1, SameDigests
  <2> QED BY <1>3, <1>4, <1>7, <2>2 DEF ms, top
<1>8. CASE X # {}
  <2>1. Uploaded(ms) = Uploaded(ls) \cup {top}
    BY <1>8, <1>13, <1>14
  <2>2. \A i \in Uploaded(ls) : i \in Nat /\ i < top
    BY <1>1, <1>9
  <2>4. ms[top].changes = X
    BY <1>5
  <2>3. Placed(ms) /\ DigestsOf(ms) = Append(DigestsOf(ls), ms[top].changes)
    <3>1. ASSUME NEW ks, NEW t \in Nat, Uploaded(ks) = Uploaded(ls) \cup {t},
                 \A i \in Uploaded(ls) : i \in Nat /\ i < t,
                 \A i \in Uploaded(ls) : ks[i].changes = ls[i].changes
          PROVE  Placed(ks) /\ DigestsOf(ks) = Append(DigestsOf(ls), ks[t].changes)
      BY <3>1, MoreDigests, SMTT(60)
    <3> QED BY <1>10, <1>12, <2>1, <2>2, <3>1, Zenon
  <2>5. Placed(ms) /\ DigestsOf(ms) = Append(DigestsOf(ls), X)
    BY <2>3, <2>4
  <2>6. ms[top].meta = ls[top].meta
    BY <1>3, <1>4
  <2> QED BY <1>4, <2>5, <2>6 DEF ms, top
<1> QED BY <1>7, <1>8

\* What a longer image holds.
LEMMA ContentsLonger ==
  ASSUME NEW d \in Uuids, NEW n \in StepNos
  PROVE  Append(d, {n}) \in Uuids /\ Contents(Append(d, {n})) = Contents(d) \cup {n}
<1>1. Append(d, {n}) \in Uuids
  BY DEF Uuids
<1>2. Range(Append(d, {n})) = Range(d) \cup {{n}}
  <2>1. /\ DOMAIN d = 1 .. Len(d) /\ DOMAIN Append(d, {n}) = 1 .. Len(d) + 1 /\ Len(d) \in Nat
        /\ \A i \in 1 .. Len(d) : Append(d, {n})[i] = d[i]
        /\ Append(d, {n})[Len(d) + 1] = {n}
    BY DEF Uuids
  <2> QED BY <2>1 DEF Range
<1> QED BY <1>1, <1>2 DEF Contents

-----------------------------------------------------------------------------
(***************************************************************************)
(* The images of a build.                                                  *)
(***************************************************************************)

LEMMA UuidsAre ==
  /\ Scratch \in Uuids /\ BaseImage \in Uuids /\ Unset \notin Uuids
  /\ Contents(Scratch) = {} /\ Contents(BaseImage) = {0}
  /\ Append(Scratch, {0}) = BaseImage /\ BaseImage \o <<{1}>> = Append(BaseImage, {1})
<1>1. 0 \in StepNos /\ MaxSteps + 1 \notin StepNos
  BY DockerBuildAssumption DEF StepNos
<1>2. Scratch \in Uuids /\ BaseImage \in Uuids
  BY <1>1 DEF Scratch, BaseImage, Uuids
<1>3. Unset \notin Uuids
  <2> SUFFICES ASSUME Unset \in Uuids PROVE FALSE
    OBVIOUS
  <2>1. Unset[1] \in SUBSET StepNos
    BY DEF Unset, Uuids
  <2> QED BY <1>1, <2>1 DEF Unset
<1>4. Contents(Scratch) = {}
  BY DEF Contents, Range, Scratch
<1>5. Append(Scratch, {0}) = BaseImage /\ BaseImage \o <<{1}>> = Append(BaseImage, {1})
  BY DEF Scratch, BaseImage
<1>6. Contents(BaseImage) = {0}
  BY <1>1, <1>2, <1>4, <1>5, ContentsLonger
<1> QED BY <1>2, <1>3, <1>4, <1>5, <1>6

LEMMA InitImage == Init => ImageInv
<1> SUFFICES ASSUME Init PROVE ImageInv
  OBVIOUS
<1>1. BuildInit
  BY DEF Init
<1>2. phase = "wait" /\ layers = <<>> /\ fs = {} /\ gBase = Scratch /\ gSnapshots = <<>>
  BY <1>1 DEF BuildInit
<1>3. BuildTyped
  <2>1. <<>> \in Seq(SUBSET StepNos) /\ <<>> \in Seq(Layers) /\ DOMAIN <<>> = {}
    OBVIOUS
  <2>2. /\ command \in {"build", "commit"} /\ context = "none" /\ buildSocket = "none"
        /\ listening = TRUE /\ err = FALSE /\ cacheable = TRUE /\ setScratch = FALSE
        /\ stepNo = 0 /\ upload = "none" /\ endEvent = "none" /\ buildFaults = 0
        /\ expected = Scratch
    BY <1>1 DEF BuildInit
  <2>3. 0 \in 0 .. MaxSteps + 1 /\ 0 \in 0 .. MaxBuildFaults /\ "wait" \notin StepUnderWay
    BY DockerBuildAssumption DEF StepUnderWay
  <2> QED BY <1>2, <2>1, <2>2, <2>3, UuidsAre DEF BuildTyped, Contexts, Phases
<1>4. Layered
  BY <1>1, <1>2, NoDigests DEF BuildInit, Layered, Before, Untaken, Taken, StepUnderWay
<1>5. Digested
  BY <1>1, <1>2, NoDigests, UuidsAre
     DEF BuildInit, Digested, Live, Pending, Untaken, Taken, LayerDigests, Scratch
<1>6. Compared
  BY <1>2, NoDigests, UuidsAre DEF Compared, Latest, Taken, LayerDigests, Scratch
<1>7. Named /\ Files /\ ImagesAreTheSteps
  BY <1>1 DEF BuildInit, Named, Files, ImagesAreTheSteps
<1> QED BY <1>3, <1>4, <1>5, <1>6, <1>7 DEF ImageInv

\* Once it is over nothing is told of images any more.
LEMMA ImageOver ==
  ASSUME ImageInv, phase' \in {"cleanup", "ended", "hung", "gone"}, BuildTyped', Placed(layers)',
         UNCHANGED <<images, active, torn, gBase>>, notes \subseteq notes'
  PROVE  ImageInv'
<1>1. ImagesAreTheSteps'
  BY DEF ImageInv, ImagesAreTheSteps
<1>2. /\ phase' \notin Live /\ phase' \notin Before /\ phase' \notin Untaken \cup Taken
      /\ phase' \notin StepUnderWay /\ phase' # "step"
  BY DEF Live, Before, Untaken, Taken, StepUnderWay
<1>3. Layered' /\ Digested' /\ Compared' /\ Named' /\ Files'
  BY <1>2 DEF Layered, Digested, Compared, Named, Files, Taken, StepUnderWay
<1> QED BY <1>1, <1>3 DEF ImageInv

\* What the connections change is none of it.
LEMMA ImageConn ==
  ASSUME ImageInv, ConnInv,
         FirstConnection \/ SecondConnection \/ ContextEnd \/ ContextFlushed \/ ContextBreaks
           \/ ClientGoes \/ ServerTimesOut
  PROVE  ImageInv'
<1>1. UNCHANGED <<command, stepVars, layers, layerVars, endVars, notes>>
  BY DEF FirstConnection, SecondConnection, ContextEnd, ContextFlushed, ContextBreaks, ClientGoes,
         ServerTimesOut
<1>2. UNCHANGED phase \/ (phase = "wait" /\ phase' \in {"from", "gone"})
  BY DEF FirstConnection, SecondConnection, ContextEnd, ContextFlushed, ContextBreaks, ClientGoes,
         ServerTimesOut, ConnInv, RunBuild, StillWaits
<1>3. /\ context' \in Contexts /\ buildSocket' \in {"none", "on", "gone"}
      /\ listening' \in BOOLEAN /\ buildFaults' \in 0 .. MaxBuildFaults
  <2>1. /\ context \in Contexts /\ buildFaults \in 0 .. MaxBuildFaults
        /\ buildSocket \in {"none", "on", "gone"} /\ listening \in BOOLEAN
    BY DEF ImageInv, BuildTyped
  <2>2. CASE FirstConnection
    BY <2>1, <2>2, DockerBuildAssumption DEF FirstConnection, Fine, Fails, Contexts
  <2>3. CASE ~FirstConnection
    BY <2>1, <2>3 DEF SecondConnection, ContextEnd, ContextFlushed, ContextBreaks, ClientGoes,
                      ServerTimesOut, Contexts
  <2> QED BY <2>2, <2>3
<1>4. BuildTyped'
  BY <1>1, <1>2, <1>3
     DEF ImageInv, BuildTyped, Phases, StepUnderWay, stepVars, layerVars, endVars
<1>5. CASE phase' = "gone"
  BY <1>1, <1>2, <1>4, <1>5, ImageOver
     DEF ImageInv, Layered, Placed, stepVars, layerVars, endVars
<1>6. CASE phase' # "gone"
  <2> USE <1>1, <1>2, <1>6 DEF stepVars, layerVars, endVars
  <2>1. Layered'
    BY DEF ImageInv, Layered, Before, Untaken, Taken, StepUnderWay, Top
  <2>2. Digested'
    BY DEF ImageInv, Digested, Live, Before, Pending, Untaken, Taken, StepUnderWay, LayerDigests, Top
  <2>3. Compared'
    BY DEF ImageInv, Compared, Live, Before, Taken, StepUnderWay, LayerDigests, Latest,
           ParentSnapshot, IsAgainstBaseImage
  <2>4. Named'
    BY DEF ImageInv, Named, Before, Names, Known, Top
  <2>5. Files' /\ ImagesAreTheSteps'
    BY DEF ImageInv, Files, ImagesAreTheSteps
  <2> QED BY <1>4, <2>1, <2>2, <2>3, <2>4, <2>5 DEF ImageInv
<1> QED BY <1>5, <1>6

\* A base image, and a layer without a file.
LEMMA FirstLayers ==
  /\ <<Layer({0}, BaseImage, FALSE)>> \in Seq(Layers)
  /\ Placed(<<Layer({0}, BaseImage, FALSE)>>)
  /\ DigestsOf(<<Layer({0}, BaseImage, FALSE)>>) = BaseImage
  /\ \A u \in Uuids \cup {Unset}, m \in BOOLEAN :
       /\ <<Layer({0}, BaseImage, FALSE), Layer({}, u, m)>> \in Seq(Layers)
       /\ Placed(<<Layer({0}, BaseImage, FALSE), Layer({}, u, m)>>)
       /\ DigestsOf(<<Layer({0}, BaseImage, FALSE), Layer({}, u, m)>>) = BaseImage
<1> DEFINE one == <<Layer({0}, BaseImage, FALSE)>>
           two(u, m) == <<Layer({0}, BaseImage, FALSE), Layer({}, u, m)>>
<1>1. Layer({0}, BaseImage, FALSE) \in Layers /\ Layer({0}, BaseImage, FALSE).changes = {0}
  BY UuidsAre, DockerBuildAssumption DEF Layer, Layers, StepNos
<1>2. one = Append(<<>>, Layer({0}, BaseImage, FALSE)) /\ <<>> \in Seq(Layers)
  OBVIOUS
<1>3. one \in Seq(Layers) /\ Placed(one) /\ DigestsOf(one) = BaseImage
  BY <1>1, <1>2, NoDigests, UuidsAre, AddLayer DEF Scratch
<1>4. ASSUME NEW u \in Uuids \cup {Unset}, NEW m \in BOOLEAN
      PROVE  two(u, m) \in Seq(Layers) /\ Placed(two(u, m)) /\ DigestsOf(two(u, m)) = BaseImage
  <2>1. Layer({}, u, m) \in Layers /\ Layer({}, u, m).changes = {}
    BY DEF Layer, Layers
  <2>2. two(u, m) = Append(one, Layer({}, u, m))
    <3>1. \A a, b : <<a, b>> = Append(<<a>>, b)
      OBVIOUS
    <3> QED BY <3>1
  <2> HIDE DEF one, two
  <2> QED BY <1>3, <2>1, <2>2, AddLayer
<1> QED BY <1>3, <1>4

LEMMA ImageFrom ==
  ASSUME ImageInv, EndInv, From
  PROVE  ImageInv'
<1>1. /\ phase = "from" /\ layers = <<>> /\ fs = {} /\ gBase = Scratch /\ ~setScratch
      /\ gSnapshots = <<>> /\ cacheable /\ images = {} /\ expected = Scratch
  BY NoDigests DEF ImageInv, Layered, EndInv, RecordInv, Before, From, Named, Digested, Live,
     LayerDigests, Pending, Untaken, Taken, Scratch
<1>2. UNCHANGED <<connVars, cacheable, layerVars, endEvent, images, notes>>
  BY DEF From
<1>3. /\ 1 \in 0 .. MaxSteps + 1 /\ 1 \in 1 .. MaxSteps /\ {0} \in SUBSET StepNos
      /\ {0, 1} \in SUBSET StepNos
  BY DockerBuildAssumption DEF StepNos
<1>4. BuildTyped /\ ImagesAreTheSteps
  BY DEF ImageInv
<1>5. CASE Failure /\ (Fails \/ ContextShort)
           /\ UNCHANGED <<stepNo, fs, gBase, layers, setScratch, expected>>
  <2>1. BuildTyped'
    BY <1>2, <1>4, <1>5, DockerBuildAssumption
       DEF BuildTyped, connVars, layerVars, Failure, Fails, ContextShort, Fine, Phases, StepUnderWay
  <2> QED BY <1>2, <1>5, <2>1, NoDigests, <1>1, ImageOver DEF Failure, layerVars
<1>6. CASE /\ command = "build" /\ setScratch' = TRUE /\ Goto("step") /\ Fine
           /\ stepNo' = 1 /\ UNCHANGED <<fs, gBase, layers, expected>>
  <2> USE <1>1, <1>2, <1>6 DEF Goto, layerVars, connVars
  <2>1. BuildTyped'
    BY <1>3, <1>4 DEF BuildTyped, Fine, Phases, StepUnderWay
  <2>2. Layered'
    BY NoDigests DEF Layered, Before, Untaken, Taken, StepUnderWay
  <2>3. Digested'
    BY NoDigests, UuidsAre DEF Digested, Pending, Untaken, Taken, LayerDigests, Scratch
  <2>4. Compared'
    BY NoDigests, UuidsAre DEF Compared, Latest, Taken, LayerDigests, Scratch
  <2>5. Named' /\ Files' /\ ImagesAreTheSteps'
    BY <1>4 DEF Named, Before, Files, ImagesAreTheSteps
  <2> QED BY <2>1, <2>2, <2>3, <2>4, <2>5 DEF ImageInv
<1>7. CASE /\ gBase' = BaseImage /\ stepNo' = 1 /\ Fine /\ UNCHANGED setScratch
           /\ command = "build" /\ fs' = {0} /\ expected' = BaseImage /\ Goto("step")
           /\ layers' \in {<<Layer({0}, BaseImage, FALSE)>>,
                           <<Layer({0}, BaseImage, FALSE), Layer({}, BaseImage, TRUE)>>}
  <2>1. /\ layers' \in Seq(Layers) /\ Placed(layers') /\ DigestsOf(layers') = BaseImage
    BY <1>7, FirstLayers, UuidsAre
  <2>2. layers' # <<>> /\ layers'[Len(layers')].uuid = BaseImage
    BY <1>7 DEF Layer
  <2> USE <1>1, <1>2, <1>7 DEF Goto, layerVars, connVars
  <2>3. BuildTyped'
    BY <1>3, <1>4, <2>1, UuidsAre DEF BuildTyped, Fine, Phases, StepUnderWay
  <2>4. Layered'
    BY <2>1, <2>2 DEF Layered, Before, Untaken, Taken, StepUnderWay
  <2>5. Digested'
    BY <2>1, UuidsAre DEF Digested, Pending, Untaken, Taken, LayerDigests
  <2>6. Compared'
    BY <2>1, UuidsAre DEF Compared, Latest, Taken, LayerDigests
  <2>7. Named'
    BY <2>2 DEF Named, Before, Names, Known, Top
  <2>8. Files' /\ ImagesAreTheSteps'
    BY <1>4 DEF Files, ImagesAreTheSteps
  <2> QED BY <2>3, <2>4, <2>5, <2>6, <2>7, <2>8 DEF ImageInv
<1>8. CASE /\ gBase' = BaseImage /\ stepNo' = 1 /\ Fine /\ UNCHANGED setScratch
           /\ command = "commit" /\ fs' = {0, 1} /\ expected' = BaseImage \o <<{1}>> /\ Goto("post")
           /\ layers' = <<Layer({0}, BaseImage, FALSE), Layer({}, Unset, FALSE)>>
  <2>1. /\ layers' \in Seq(Layers) /\ Placed(layers') /\ DigestsOf(layers') = BaseImage
    BY <1>8, FirstLayers
  <2>2. /\ layers' # <<>> /\ Len(layers') = 2 /\ layers'[2].uuid = Unset
        /\ layers'[2].changes = {} /\ layers'[2].meta = FALSE
    BY <1>8 DEF Layer
  <2>3. /\ expected' = Append(BaseImage, {1}) /\ expected' \in Uuids
        /\ Contents(expected') = {0, 1} /\ 1 \notin Contents(BaseImage)
    <3>1. expected' = Append(BaseImage, {1})
      BY <1>8, UuidsAre
    <3>2. 1 \in StepNos /\ Contents(BaseImage) = {0} /\ BaseImage \in Uuids
      BY <1>3, UuidsAre DEF StepNos
    <3>3. Contents(Append(BaseImage, {1})) = {0} \cup {1} /\ Append(BaseImage, {1}) \in Uuids
      BY <3>2, ContentsLonger
    <3> QED BY <3>1, <3>2, <3>3
  <2>10. /\ gBase' = BaseImage /\ stepNo' = 1 /\ Fine /\ UNCHANGED setScratch
         /\ command = "commit" /\ fs' = {0, 1} /\ Goto("post")
    BY <1>8
  <2> USE <1>1, <1>2, <2>10 DEF Goto, layerVars, connVars
  <2>4. BuildTyped'
    BY <1>3, <1>4, <2>1, <2>3, UuidsAre DEF BuildTyped, Fine, Phases, StepUnderWay
  <2>5. Layered'
    BY <2>1, <2>2 DEF Layered, Before, Untaken, Taken, StepUnderWay, Top
  <2>6. Digested'
    BY <2>1, <2>2, <2>3, UuidsAre DEF Digested, Pending, Untaken, Taken, LayerDigests, Top
  <2>7. Compared'
    BY <2>1, UuidsAre DEF Compared, Latest, Taken, LayerDigests
  <2>8. Named'
    BY <2>2 DEF Named, Before, Names, Known, Top
  <2>9. Files' /\ ImagesAreTheSteps'
    BY <1>4 DEF Files, ImagesAreTheSteps
  <2> QED BY <2>4, <2>5, <2>6, <2>7, <2>8, <2>9 DEF ImageInv
<1> QED BY <1>5, <1>6, <1>7, <1>8 DEF From, BuilderSetBaseImg

\* What a step adds to the image that is expected.
LEMMA LongerIs ==
  ASSUME BuildTyped, stepNo \in StepNos, NEW m \in BOOLEAN
  PROVE  /\ Longer(expected, m) \in Uuids
         /\ Contents(Longer(expected, m)) = Contents(expected) \cup Changes(m)
         /\ Changes(m) \in SUBSET StepNos
<1>1. CASE m
  BY <1>1 DEF BuildTyped, Longer, Changes
<1>2. CASE ~m
  BY <1>2, ContentsLonger DEF BuildTyped, Longer, Changes
<1> QED BY <1>1, <1>2

LEMMA ImageCachedStep ==
  ASSUME ImageInv, EndInv, CachedStep
  PROVE  ImageInv'
<1>1. /\ phase = "step" /\ phase' = "step" /\ cacheable /\ stepNo <= MaxSteps /\ stepNo' = stepNo + 1
      /\ notes' = IF setScratch THEN notes \cup {"scratch"} ELSE notes
      /\ UNCHANGED <<connVars, err, cacheable, setScratch, layerVars, endEvent, images, buildFaults>>
  BY DEF CachedStep
<1>2. PICK m \in BOOLEAN :
        /\ gBase' = Longer(expected, m) /\ expected' = Longer(expected, m)
        /\ fs' = fs \cup Changes(m)
        /\ layers' = Append(layers, Layer(Changes(m), Longer(expected, m), m))
  BY DEF CachedStep, BuilderSetBaseImg
<1>3. BuildTyped /\ ImagesAreTheSteps /\ Placed(layers)
  BY DEF ImageInv, Layered
<1>4. gSnapshots = <<>> /\ images = {}
  BY <1>1 DEF ImageInv, EndInv, RecordInv, Named
<1>5. /\ expected = DigestsOf(layers) /\ fs = Contents(expected) /\ fs \subseteq 0 .. stepNo - 1
      /\ stepNo > 0
  BY <1>1 DEF ImageInv, Digested, Layered, Live, Pending, Untaken, Taken, LayerDigests
<1>6. stepNo \in StepNos /\ stepNo + 1 \in 0 .. MaxSteps + 1 /\ stepNo \in Nat
  BY <1>1, <1>3, DockerBuildAssumption DEF BuildTyped, StepNos
<1>7. /\ Longer(expected, m) \in Uuids /\ Changes(m) \in SUBSET StepNos
      /\ Contents(Longer(expected, m)) = fs \cup Changes(m)
  BY <1>3, <1>5, <1>6, LongerIs
<1>8. Longer(expected, m) = IF m THEN expected ELSE Append(expected, Changes(m))
  BY DEF Longer
<1>9. (Changes(m) = {} <=> m) /\ Changes(m) \subseteq {stepNo}
  BY DEF Changes
<1> DEFINE l == Layer(Changes(m), Longer(expected, m), m)
<1>10. l \in Layers /\ l.changes = Changes(m) /\ l.uuid = Longer(expected, m) /\ layers \in Seq(Layers)
  BY <1>3, <1>7 DEF BuildTyped, Layers, Layer
<1> HIDE DEF l
<1>11. /\ layers' \in Seq(Layers) /\ Placed(layers')
       /\ DigestsOf(layers') = Longer(expected, m)
  BY <1>2, <1>3, <1>5, <1>8, <1>9, <1>10, AddLayer DEF l
<1>12. layers' # <<>> /\ layers'[Len(layers')].uuid = Longer(expected, m)
  BY <1>2, <1>10 DEF l
<1>13. BuildTyped'
  <2>1. fs' \in SUBSET StepNos /\ fs \subseteq fs'
    BY <1>2, <1>3, <1>7 DEF BuildTyped
  <2> HIDE <1>2
  <2> QED BY <1>1, <1>2, <1>3, <1>4, <1>6, <1>7, <1>11, <2>1
          DEF BuildTyped, Phases, StepUnderWay, connVars, layerVars
<1>14. Layered'
  BY <1>1, <1>6, <1>11, <1>12 DEF Layered, Before, Untaken, Taken, StepUnderWay
<1>15. Digested'
  <2>1. fs' \subseteq 0 .. stepNo' - 1
    BY <1>1, <1>2, <1>5, <1>6, <1>9
  <2> QED BY <1>1, <1>2, <1>7, <1>11, <2>1 DEF Digested, Pending, Untaken, Taken, LayerDigests
<1>16. Compared'
  BY <1>1, <1>2, <1>4, <1>11 DEF Compared, Latest, Taken, LayerDigests, layerVars
<1>17. Named'
  BY <1>1, <1>2, <1>4, <1>12 DEF Named, Before, Names, Known, Top
<1>18. Files' /\ ImagesAreTheSteps'
  BY <1>1, <1>3, <1>4 DEF Files, ImagesAreTheSteps, layerVars
<1> QED BY <1>13, <1>14, <1>15, <1>16, <1>17, <1>18 DEF ImageInv

LEMMA ImageUncachedStep ==
  ASSUME ImageInv, UncachedStep
  PROVE  ImageInv'
<1>1. /\ phase = "step" /\ stepNo <= MaxSteps /\ cacheable' = FALSE
      /\ UNCHANGED <<connVars, stepNo, gBase, setScratch, layerVars, endEvent, images, notes>>
  BY DEF UncachedStep
<1>2. BuildTyped /\ ImagesAreTheSteps /\ Placed(layers)
  BY DEF ImageInv, Layered
<1>3. /\ expected = DigestsOf(layers) /\ fs = Contents(expected) /\ fs \subseteq 0 .. stepNo - 1
      /\ stepNo > 0
  BY <1>1 DEF ImageInv, Digested, Layered, Live, Pending, Untaken, Taken, LayerDigests
<1>4. stepNo \in StepNos /\ stepNo \in 1 .. MaxSteps /\ stepNo \in Nat
  BY <1>1, <1>2, <1>3, DockerBuildAssumption DEF BuildTyped, StepNos
<1>5. CASE /\ Failure \/ Goto("hung")
           /\ Fails \/ ContextShort
           /\ UNCHANGED <<fs, expected, layers>>
  <2>2. phase' \in {"cleanup", "hung"} /\ err' \in BOOLEAN /\ buildFaults' \in 0 .. MaxBuildFaults
    <3>1. phase' \in {"cleanup", "hung"}
      BY <1>5 DEF Failure, Goto
    <3>2. err' = TRUE \/ err' = err
      BY <1>5, Zenon DEF Failure, Goto
    <3>3. err' \in BOOLEAN
      BY <1>2, <3>2 DEF BuildTyped
    <3>4. buildFaults' \in 0 .. MaxBuildFaults
      BY <1>2, <1>5, DockerBuildAssumption DEF BuildTyped, Fails, ContextShort, Fine
    <3> QED BY <3>1, <3>3, <3>4
  <2>3. UNCHANGED <<fs, expected, layers>> /\ cacheable' \in BOOLEAN
    BY <1>1, <1>5
  <2>1. BuildTyped'
    BY <1>1, <1>2, <2>2, <2>3 DEF BuildTyped, connVars, layerVars, Phases, StepUnderWay
  <2> QED BY <1>1, <1>2, <1>5, <2>1, ImageOver DEF Failure, Goto, layerVars
<1>6. CASE /\ Goto("post") /\ Fine
           /\ \E meta \in BOOLEAN :
                /\ fs' = fs \cup Changes(meta) /\ expected' = Longer(expected, meta)
                /\ layers' = Append(layers, Layer({}, Unset, meta))
  <2>1. phase' = "post" /\ UNCHANGED <<err, buildFaults>>
    BY <1>6 DEF Goto, Fine
  <2>2. PICK m \in BOOLEAN :
           /\ fs' = fs \cup Changes(m) /\ expected' = Longer(expected, m)
           /\ layers' = Append(layers, Layer({}, Unset, m))
    BY <1>6
  <2>3. /\ Longer(expected, m) \in Uuids /\ Changes(m) \in SUBSET StepNos
        /\ Contents(Longer(expected, m)) = fs \cup Changes(m)
    BY <1>2, <1>3, <1>4, LongerIs
  <2>4. Longer(expected, m) = IF m THEN expected ELSE Append(expected, {stepNo})
    BY DEF Longer, Changes
  <2>5. Changes(m) \subseteq {stepNo}
    BY DEF Changes
  <2>6. /\ Layer({}, Unset, m) \in Layers /\ Layer({}, Unset, m).changes = {}
        /\ Layer({}, Unset, m).uuid = Unset /\ Layer({}, Unset, m).meta = m
        /\ layers \in Seq(Layers)
    BY <1>2 DEF BuildTyped, Layers, Layer
  <2>7. layers' \in Seq(Layers) /\ Placed(layers') /\ DigestsOf(layers') = expected
    BY <1>2, <1>3, <2>2, <2>6, AddLayer
  <2>8. /\ layers' # <<>> /\ Len(layers') = Len(layers) + 1 /\ Len(layers) \in Nat
        /\ layers'[Len(layers')] = Layer({}, Unset, m)
        /\ layers # <<>> => Len(layers) > 0 /\ layers'[Len(layers)] = layers[Len(layers)]
    BY <2>2, <2>6
  <2>9. BuildTyped'
    <3>1. fs' \in SUBSET StepNos /\ fs \subseteq fs'
      BY <1>2, <2>2, <2>3 DEF BuildTyped
    <3>2. expected' \in Uuids
      BY <2>2, <2>3
    <3>3. phase' \in Phases /\ stepNo' \in 1 .. MaxSteps /\ cacheable' \in BOOLEAN
      BY <1>1, <1>4, <2>1 DEF Phases
    <3>4. /\ UNCHANGED <<gSnapshots, gBase, upload, command, context, buildSocket, listening>>
          /\ UNCHANGED <<setScratch, err, endEvent, buildFaults>>
      BY <1>1, <2>1 DEF layerVars, connVars
    <3>5. \A i \in DOMAIN gSnapshots : gSnapshots[i] \subseteq fs'
      BY <1>2, <3>1 DEF BuildTyped
    <3>6. /\ command' \in {"build", "commit"}
          /\ context' \in Contexts
          /\ buildSocket' \in {"none", "on", "gone"} /\ listening' \in BOOLEAN
          /\ upload' \in {"none", "good", "corrupt", "failed", "unnoticed"}
          /\ endEvent' \in {"none", "ok", "error"} /\ buildFaults' \in 0 .. MaxBuildFaults
          /\ err' \in BOOLEAN /\ setScratch' \in BOOLEAN
      BY <1>2, <3>4 DEF BuildTyped
    <3>7. /\ gBase' \in Uuids /\ gSnapshots' \in Seq(SUBSET StepNos)
          /\ \A i \in DOMAIN gSnapshots' : gSnapshots'[i] \subseteq fs'
      BY <1>2, <3>4, <3>5 DEF BuildTyped
    <3>8. stepNo' \in 0 .. MaxSteps + 1
      BY <3>3, DockerBuildAssumption
    <3> QED BY <2>7, <3>1, <3>2, <3>3, <3>6, <3>7, <3>8 DEF BuildTyped
  <2>10. Layered'
    <3>1. setScratch \/ layers # <<>>
      BY <1>1 DEF ImageInv, Layered
    <3> QED BY <1>1, <2>1, <2>6, <2>7, <2>8, <3>1
            DEF Layered, Before, Untaken, Taken, StepUnderWay, Top
  <2>11. Pending' <=> ~m
    BY <2>1, <2>6, <2>8 DEF Pending, Untaken, Top
  <2>12. Digested'
    <3>1. stepNo \notin fs /\ fs' \subseteq 0 .. stepNo
      BY <1>3, <1>4, <2>2, <2>5
    <3>2. fs' = Contents(expected')
      BY <2>2, <2>3
    <3>3. expected' = (IF Pending' THEN Append(LayerDigests', {stepNo}) ELSE LayerDigests')
      BY <2>2, <2>4, <2>7, <2>11 DEF LayerDigests
    <3>4. Contents(LayerDigests') = fs
      BY <1>3, <2>7 DEF LayerDigests
    <3>5. LayerDigests' \in Uuids
      BY <1>2, <2>7 DEF LayerDigests, BuildTyped
    <3> QED BY <1>1, <2>1, <3>1, <3>2, <3>3, <3>4, <3>5 DEF Digested
  <2>13. Compared'
    <3>1. Latest = fs
      BY <1>1, <1>3 DEF ImageInv, Compared, Live, Taken, StepUnderWay, LayerDigests
    <3> QED BY <1>1, <1>3, <2>1, <2>7, <3>1 DEF Compared, Latest, Taken, LayerDigests, layerVars
  <2>14. Named'
    <3>1. "scratch" \notin notes /\ m =>
             IF setScratch THEN expected = Scratch ELSE Names(Len(layers))
      BY <1>1 DEF ImageInv, Named, Top
    <3>2. setScratch \/ layers # <<>>
      BY <1>1 DEF ImageInv, Layered
    <3>3. m => expected' = expected
      BY <2>2, <2>4
    <3> QED BY <1>1, <2>1, <2>6, <2>8, <3>1, <3>2, <3>3
            DEF Named, Before, Names, Known, Top, layerVars
  <2>15. Files' /\ ImagesAreTheSteps'
    BY <1>1, <1>2, <2>1 DEF Files, ImagesAreTheSteps, layerVars
  <2> QED BY <2>9, <2>10, <2>12, <2>13, <2>14, <2>15 DEF ImageInv
<1> QED BY <1>5, <1>6 DEF UncachedStep

LEMMA ImageNoMoreSteps ==
  ASSUME ImageInv, NoMoreSteps
  PROVE  ImageInv'
<1>1. /\ phase = "step" /\ phase' = "finish"
      /\ UNCHANGED <<connVars, err, stepVars, layers, layerVars, endEvent, images, buildFaults, notes>>
  BY DEF NoMoreSteps, Goto
<1> USE <1>1 DEF connVars, stepVars, layerVars
<1>2. BuildTyped'
  BY DEF ImageInv, BuildTyped, Phases, StepUnderWay
<1>3. Layered'
  BY DEF ImageInv, Layered, Before, Untaken, Taken, StepUnderWay
<1>4. Digested'
  <2>1. stepNo \in Int
    BY DEF ImageInv, BuildTyped
  <2> QED BY <2>1 DEF ImageInv, Digested, Pending, Untaken, Taken, LayerDigests, Live
<1>5. Compared'
  BY DEF ImageInv, Compared, Live, Taken, LayerDigests, Latest
<1>6. Named' /\ Files' /\ ImagesAreTheSteps'
  BY DEF ImageInv, Named, Before, Files, ImagesAreTheSteps
<1> QED BY <1>2, <1>3, <1>4, <1>5, <1>6 DEF ImageInv

LEMMA ImageDoPostStep ==
  ASSUME ImageInv, DoPostStep
  PROVE  ImageInv'
<1>1. /\ phase = "post" /\ setScratch' = FALSE
      /\ phase' = IF layers[Top].meta THEN "image" ELSE "snapshot"
      /\ UNCHANGED <<connVars, err, stepNo, cacheable, fs, gBase, expected, layerVars, endEvent,
                     images, buildFaults, notes>>
      /\ layers' = IF setScratch THEN [layers EXCEPT ![Len(layers)].uuid = Scratch] ELSE layers
  BY DEF DoPostStep, Goto, Top
<1>2. /\ BuildTyped /\ ImagesAreTheSteps /\ Placed(layers) /\ layers # <<>>
      /\ layers[Top].changes = {} /\ layers[Top].uuid = Unset /\ (setScratch \/ Top > 1)
      /\ layers \in Seq(Layers)
  BY <1>1 DEF ImageInv, Layered, BuildTyped, Untaken, StepUnderWay
<1>3. /\ layers' \in Seq(Layers) /\ layers' # <<>> /\ Placed(layers')
      /\ DigestsOf(layers') = DigestsOf(layers) /\ Len(layers') = Len(layers)
      /\ layers'[Len(layers)].uuid = IF setScratch THEN Scratch ELSE Unset
      /\ layers'[Len(layers)].changes = {} /\ layers'[Len(layers)].meta = layers[Len(layers)].meta
      /\ \A i \in 1 .. Len(layers) - 1 : layers'[i] = layers[i]
  <2>1. CASE setScratch
    <3> DEFINE ms == [layers EXCEPT ![Len(layers)].uuid = Scratch]
    <3>1. /\ ms \in Seq(Layers) /\ ms # <<>> /\ Placed(ms) /\ DigestsOf(ms) = DigestsOf(layers)
          /\ Len(ms) = Len(layers) /\ ms[Len(layers)].uuid = Scratch
          /\ ms[Len(layers)].changes = layers[Len(layers)].changes
          /\ ms[Len(layers)].meta = layers[Len(layers)].meta
          /\ \A i \in 1 .. Len(layers) - 1 : ms[i] = layers[i]
      BY <1>2, UuidsAre, SetUuid
    <3>2. layers' = ms
      BY <1>1, <2>1
    <3> HIDE DEF ms
    <3> QED BY <1>2, <2>1, <3>1, <3>2 DEF Top
  <2>2. CASE ~setScratch
    BY <1>1, <1>2, <2>2 DEF Top
  <2> QED BY <2>1, <2>2
<1>4. Scratch # Unset /\ layers[Top].meta \in BOOLEAN /\ Len(layers) \in Nat
  <2>1. Len(layers) \in 1 .. Len(layers)
    BY <1>2
  <2>2. layers[Len(layers)] \in Layers /\ Len(layers) \in Nat
    BY <1>2, <2>1
  <2>3. layers[Len(layers)].meta \in BOOLEAN
    BY <2>2 DEF Layers
  <2> QED BY <2>2, <2>3, UuidsAre DEF Top
<1>5. BuildTyped'
  <2>1. phase' \in Phases /\ stepNo' \in 1 .. MaxSteps /\ setScratch' \in BOOLEAN
    BY <1>1, <1>2 DEF BuildTyped, Phases, StepUnderWay
  <2>2. UNCHANGED <<gSnapshots, upload, command, context, buildSocket, listening>>
    BY <1>1 DEF layerVars, connVars
  <2>3. /\ UNCHANGED <<err, cacheable, stepNo, fs, endEvent, buildFaults, expected, gBase>>
        /\ layers' \in Seq(Layers)
    BY <1>1, <1>3
  <2> QED BY <1>2, <2>1, <2>2, <2>3 DEF BuildTyped
<1>6. Layered'
  BY <1>1, <1>2, <1>3, <1>4 DEF Layered, Before, Untaken, Taken, StepUnderWay, Top
<1>7. Digested'
  BY <1>1, <1>3, <1>4
     DEF ImageInv, Digested, Live, Pending, Untaken, Taken, StepUnderWay, LayerDigests, Top
<1>8. Compared'
  BY <1>1, <1>3 DEF ImageInv, Compared, Live, Taken, StepUnderWay, LayerDigests, Latest, layerVars
<1>9. Named'
  <2>1. "scratch" \notin notes /\ layers[Top].meta =>
          IF setScratch THEN expected = Scratch ELSE Names(Top - 1)
    BY <1>1 DEF ImageInv, Named
  <2>2. Top > 1 => layers'[Top - 1] = layers[Top - 1]
    BY <1>3, <1>4 DEF Top
  <2> QED BY <1>1, <1>2, <1>3, <1>4, <2>1, <2>2 DEF Named, Before, Names, Known, Top, layerVars
<1>10. Files' /\ ImagesAreTheSteps'
  BY <1>1, <1>2 DEF Files, ImagesAreTheSteps, layerVars
<1> QED BY <1>5, <1>6, <1>7, <1>8, <1>9, <1>10 DEF ImageInv

LEMMA ImageCreateZfsSnapshot ==
  ASSUME ImageInv, CreateZfsSnapshot
  PROVE  ImageInv'
<1>1. /\ phase = "snapshot"
      /\ UNCHANGED <<connVars, stepVars, layers, upload, active, torn, endEvent, images, notes>>
  BY DEF CreateZfsSnapshot
<1>2. BuildTyped /\ ImagesAreTheSteps /\ Layered /\ gSnapshots \in Seq(SUBSET StepNos) /\ fs \in SUBSET StepNos
  BY DEF ImageInv, BuildTyped
<1>3. CASE /\ gSnapshots' = Append(gSnapshots, fs) /\ Goto("placeholder") /\ Fine
  <2>1. phase' = "placeholder" /\ UNCHANGED <<err, buildFaults>>
    BY <1>3 DEF Goto, Fine
  <2>2. /\ gSnapshots' \in Seq(SUBSET StepNos) /\ gSnapshots' # <<>> /\ Len(gSnapshots) \in Nat
        /\ Len(gSnapshots') = Len(gSnapshots) + 1 /\ gSnapshots'[Len(gSnapshots) + 1] = fs
        /\ DOMAIN gSnapshots' = 1 .. Len(gSnapshots) + 1 /\ DOMAIN gSnapshots = 1 .. Len(gSnapshots)
        /\ \A i \in 1 .. Len(gSnapshots) : gSnapshots'[i] = gSnapshots[i]
        /\ gSnapshots = <<>> <=> Len(gSnapshots) = 0
    BY <1>2, <1>3
  <2>3. \A i \in DOMAIN gSnapshots' : gSnapshots'[i] \subseteq fs
    BY <1>2, <2>2 DEF BuildTyped
  <2>4. BuildTyped'
    BY <1>1, <1>2, <2>1, <2>2, <2>3 DEF BuildTyped, Phases, StepUnderWay, connVars, stepVars
  <2>5. Layered'
    BY <1>1, <1>2, <2>1 DEF Layered, Before, Untaken, Taken, StepUnderWay, stepVars, Top
  <2>6. Digested'
    BY <1>1, <2>1 DEF ImageInv, Digested, Live, Pending, Untaken, Taken, StepUnderWay, LayerDigests,
                      stepVars, Top
  <2>7. Compared'
    <3>1. Latest = Contents(LayerDigests)
      BY <1>1 DEF ImageInv, Compared, Live, Taken, StepUnderWay
    <3>2. ParentSnapshot' = Latest
      <4>1. CASE gSnapshots = <<>>
        BY <1>1, <2>2, <4>1 DEF ParentSnapshot, IsAgainstBaseImage, Latest, stepVars
      <4>2. CASE gSnapshots # <<>>
        BY <1>1, <2>2, <4>2 DEF ParentSnapshot, IsAgainstBaseImage, Latest, stepVars
      <4> QED BY <4>1, <4>2
    <3> QED BY <1>1, <2>1, <2>2, <3>1, <3>2 DEF Compared, Live, Taken, LayerDigests, stepVars
  <2>8. Named' /\ Files' /\ ImagesAreTheSteps'
    BY <1>1, <1>2, <2>1 DEF Named, Before, Files, ImagesAreTheSteps, stepVars
  <2> QED BY <2>4, <2>5, <2>6, <2>7, <2>8 DEF ImageInv
<1>4. CASE Failure /\ (Fine \/ Fails) /\ UNCHANGED gSnapshots
  <2>1. buildFaults' \in 0 .. MaxBuildFaults /\ phase' = "cleanup" /\ err' = TRUE
    BY <1>2, <1>4, DockerBuildAssumption DEF BuildTyped, Failure, Fine, Fails
  <2>2. BuildTyped'
    BY <1>1, <1>2, <1>4, <2>1 DEF BuildTyped, Phases, StepUnderWay, connVars, stepVars
  <2> QED BY <1>1, <1>2, <2>1, <2>2, ImageOver DEF Layered, stepVars
<1> QED BY <1>3, <1>4 DEF CreateZfsSnapshot

\* Steps that go on or fail and change nothing else.
LEMMA ImageGoesOn ==
  ASSUME ImageInv, UNCHANGED <<connVars, stepVars, layers, layerVars, endEvent, images, notes>>,
         Fine \/ Fails,
         \/ Failure
         \/ phase = "placeholder" /\ Goto("stream")
         \/ phase = "validate" /\ ValidImage /\ Goto("update")
         \/ phase = "finish" /\ Goto("cleanup")
  PROVE  ImageInv'
<1>1. BuildTyped /\ ImagesAreTheSteps /\ Layered
  BY DEF ImageInv
<1>2. buildFaults' \in 0 .. MaxBuildFaults
  BY <1>1, DockerBuildAssumption DEF BuildTyped, Fine, Fails
<1>3. CASE phase' = "cleanup"
  <2>1. err' = TRUE \/ err' = err
    BY <1>3 DEF Failure, Goto
  <2>2. err' \in BOOLEAN
    BY <1>1, <2>1 DEF BuildTyped
  <2>3. BuildTyped'
    BY <1>1, <1>2, <1>3, <2>2 DEF BuildTyped, Phases, StepUnderWay, connVars, stepVars, layerVars
  <2> QED BY <1>1, <1>3, <2>3, ImageOver DEF Layered, stepVars, layerVars
<1>4. CASE \/ phase = "placeholder" /\ Goto("stream")
           \/ phase = "validate" /\ ValidImage /\ Goto("update")
  <2> USE DEF connVars, stepVars, layerVars
  <2>1. /\ UNCHANGED err
        /\ (phase = "placeholder" /\ phase' = "stream") \/ (phase = "validate" /\ phase' = "update")
        /\ phase' = "update" => ValidImage
    BY <1>4 DEF Goto
  <2>2. BuildTyped'
    BY <1>1, <1>2, <2>1 DEF BuildTyped, Phases, StepUnderWay
  <2>3. Layered'
    BY <1>1, <2>1 DEF Layered, Before, Untaken, Taken, StepUnderWay, Top
  <2>4. Digested'
    BY <2>1 DEF ImageInv, Digested, Live, Pending, Untaken, Taken, StepUnderWay, LayerDigests, Top
  <2>5. Compared'
    BY <2>1 DEF ImageInv, Compared, Live, Taken, StepUnderWay, LayerDigests, Latest,
                ParentSnapshot, IsAgainstBaseImage
  <2>6. Named' /\ Files' /\ ImagesAreTheSteps'
    BY <1>1, <2>1 DEF Named, Before, Files, ImagesAreTheSteps, ValidImage
  <2> QED BY <2>2, <2>3, <2>4, <2>5, <2>6 DEF ImageInv
<1> QED BY <1>3, <1>4 DEF Failure, Goto

LEMMA ImageImportSnapshot ==
  ASSUME ImageInv, ImportSnapshot
  PROVE  ImageInv'
<1>1. /\ phase = "stream"
      /\ UNCHANGED <<connVars, stepVars, gSnapshots, zfsSnaps, active, torn, endEvent, images, notes>>
      /\ layers' = [layers EXCEPT ![Len(layers)].changes =
                      gSnapshots[Len(gSnapshots)] \ ParentSnapshot]
  BY DEF ImportSnapshot, Top
<1>2. /\ BuildTyped /\ ImagesAreTheSteps /\ Placed(layers) /\ layers # <<>> /\ layers \in Seq(Layers)
      /\ layers[Len(layers)].changes = {} /\ ~layers[Len(layers)].meta /\ fs \in SUBSET StepNos
      /\ stepNo \in StepNos /\ ~setScratch
  <2>1. BuildTyped /\ Layered /\ ImagesAreTheSteps
    BY DEF ImageInv
  <2>2. stepNo \in 1 .. MaxSteps
    BY <1>1, <2>1 DEF BuildTyped, StepUnderWay
  <2>3. stepNo \in StepNos
    BY <2>2, DockerBuildAssumption DEF StepNos
  <2> QED BY <1>1, <2>1, <2>3 DEF BuildTyped, Layered, Untaken, Taken, StepUnderWay, Top
<1>3. /\ expected = Append(DigestsOf(layers), {stepNo}) /\ fs = Contents(expected)
      /\ stepNo \notin Contents(DigestsOf(layers)) /\ DigestsOf(layers) \in Uuids
      /\ fs \subseteq 0 .. stepNo
  BY <1>1, <1>2 DEF ImageInv, Digested, Live, Pending, Taken, StepUnderWay, LayerDigests, Top
<1>4. gSnapshots # <<>> /\ gSnapshots[Len(gSnapshots)] = fs /\ ParentSnapshot = Contents(DigestsOf(layers))
  BY <1>1 DEF ImageInv, Compared, Taken, LayerDigests
<1>5. gSnapshots[Len(gSnapshots)] \ ParentSnapshot = {stepNo}
  BY <1>2, <1>3, <1>4, ContentsLonger
<1>6. /\ layers' \in Seq(Layers) /\ layers' # <<>> /\ Placed(layers') /\ Len(layers') = Len(layers)
      /\ layers'[Len(layers)].meta = layers[Len(layers)].meta
      /\ DigestsOf(layers') = expected
  <2> DEFINE ms == [layers EXCEPT ![Len(layers)].changes = {stepNo}]
  <2>1. {stepNo} \in SUBSET StepNos /\ {stepNo} # {}
    BY <1>2
  <2>2. /\ ms \in Seq(Layers) /\ ms # <<>> /\ Placed(ms) /\ Len(ms) = Len(layers)
        /\ ms[Len(layers)].meta = layers[Len(layers)].meta
        /\ DigestsOf(ms) = Append(DigestsOf(layers), {stepNo})
    BY <1>2, <2>1, SetChanges
  <2>3. layers' = ms
    BY <1>1, <1>5
  <2> HIDE DEF ms
  <2> QED BY <1>3, <2>2, <2>3
<1>7. /\ upload' \in {"none", "good", "corrupt", "failed"} \cup {"unnoticed"}
      /\ Fine \/ Fails
      /\ Goto("validate") \/ Failure
  BY DEF ImportSnapshot, TarFailures
<1>8. buildFaults' \in 0 .. MaxBuildFaults
  BY <1>2, <1>7, DockerBuildAssumption DEF BuildTyped, Fine, Fails
<1>9. phase' \in {"validate", "cleanup"}
  BY <1>7 DEF Goto, Failure
<1>10. err' \in BOOLEAN
  <2>1. err' = TRUE \/ err' = err
    BY <1>7 DEF Goto, Failure
  <2> QED BY <1>2, <2>1 DEF BuildTyped
<1>11. BuildTyped'
  BY <1>1, <1>2, <1>6, <1>7, <1>8, <1>9, <1>10
     DEF BuildTyped, Phases, StepUnderWay, connVars, stepVars
<1>12. CASE phase' = "cleanup"
  BY <1>1, <1>2, <1>6, <1>11, <1>12, ImageOver DEF stepVars
<1>13. CASE phase' = "validate"
  <2> USE DEF stepVars
  <2>1. Layered'
    BY <1>1, <1>2, <1>6, <1>13 DEF Layered, Before, Untaken, Taken, StepUnderWay, Top
  <2>2. Digested'
    BY <1>1, <1>2, <1>3, <1>6, <1>13
       DEF Digested, Pending, Untaken, Taken, LayerDigests, BuildTyped
  <2>3. Compared'
    BY <1>1, <1>3, <1>4, <1>6, <1>13 DEF Compared, Latest, Taken, LayerDigests
  <2>4. Named' /\ Files' /\ ImagesAreTheSteps'
    BY <1>1, <1>2, <1>13 DEF Named, Before, Files, ImagesAreTheSteps
  <2> QED BY <1>11, <2>1, <2>2, <2>3, <2>4 DEF ImageInv
<1> QED BY <1>9, <1>12, <1>13

\* The layer gets the uuid that all the files make.
LEMMA ImageUpdateImgapiMetadata ==
  ASSUME ImageInv, UpdateImgapiMetadata
  PROVE  ImageInv'
<1>1. phase = "update" /\ UNCHANGED <<connVars, stepVars, layerVars, endEvent, images, notes>>
  BY DEF UpdateImgapiMetadata
<1>2. /\ BuildTyped /\ ImagesAreTheSteps /\ Layered /\ Placed(layers) /\ layers # <<>>
      /\ layers \in Seq(Layers)
  BY <1>1 DEF ImageInv, Layered, BuildTyped, StepUnderWay
<1>3. LayerDigests \in Uuids /\ expected = LayerDigests
  BY <1>1 DEF ImageInv, Digested, Live, Pending, Untaken, Taken, StepUnderWay
<1>4. CASE Failure /\ Fails /\ UNCHANGED layers
  BY <1>1, <1>4, ImageGoesOn
<1>5. CASE Goto("activate") /\ Fine /\ layers' = [layers EXCEPT ![Len(layers)].uuid = LayerDigests]
  <2> DEFINE ms == [layers EXCEPT ![Len(layers)].uuid = LayerDigests]
  <2>1. /\ ms \in Seq(Layers) /\ ms # <<>> /\ Placed(ms) /\ DigestsOf(ms) = DigestsOf(layers)
        /\ Len(ms) = Len(layers) /\ ms[Len(layers)].uuid = LayerDigests
        /\ ms[Len(layers)].meta = layers[Len(layers)].meta
    BY <1>2, <1>3, SetUuid
  <2>2. layers' = ms
    BY <1>5
  <2>3. phase' = "activate" /\ UNCHANGED <<err, buildFaults>>
    BY <1>5 DEF Goto, Fine
  <2> HIDE DEF ms
  <2> USE DEF connVars, stepVars, layerVars
  <2>4. BuildTyped'
    BY <1>1, <1>2, <2>1, <2>2, <2>3 DEF BuildTyped, Phases, StepUnderWay
  <2>5. Layered'
    BY <1>1, <1>2, <2>1, <2>2, <2>3 DEF Layered, Before, Untaken, Taken, StepUnderWay, Top
  <2>6. Digested'
    BY <1>1, <2>1, <2>2, <2>3
       DEF ImageInv, Digested, Live, Pending, Untaken, Taken, StepUnderWay, LayerDigests
  <2>7. Compared'
    BY <1>1, <2>1, <2>2, <2>3
       DEF ImageInv, Compared, Live, Taken, StepUnderWay, LayerDigests, Latest
  <2>8. Named'
    BY <1>1, <1>3, <2>1, <2>2, <2>3 DEF Named, Before, Top
  <2>9. Files' /\ ImagesAreTheSteps'
    BY <1>1, <1>2, <2>3 DEF ImageInv, Files, ImagesAreTheSteps
  <2> QED BY <2>4, <2>5, <2>6, <2>7, <2>8, <2>9 DEF ImageInv
<1> QED BY <1>4, <1>5 DEF UpdateImgapiMetadata, Top

LEMMA ImageImgapiActivate ==
  ASSUME ImageInv, ImgapiActivate
  PROVE  ImageInv'
<1>1. /\ phase = "activate"
      /\ notes' = IF upload = "unnoticed" THEN notes \cup {"unnoticed"} ELSE notes
      /\ UNCHANGED <<connVars, stepVars, layers, gSnapshots, zfsSnaps, upload, endEvent, images>>
  BY DEF ImgapiActivate
<1>2. /\ BuildTyped /\ ImagesAreTheSteps /\ Layered /\ upload \in {"good", "unnoticed"}
      /\ layers[Top].uuid = expected /\ expected \in Uuids
  BY <1>1 DEF ImageInv, Files, Named, BuildTyped
<1>3. CASE Failure /\ Fails /\ UNCHANGED <<active, torn>>
  <2>1. buildFaults' \in 0 .. MaxBuildFaults /\ phase' = "cleanup" /\ err' = TRUE
    BY <1>2, <1>3, DockerBuildAssumption DEF BuildTyped, Failure, Fails
  <2>2. BuildTyped'
    BY <1>1, <1>2, <2>1 DEF BuildTyped, Phases, StepUnderWay, connVars, stepVars
  <2> QED BY <1>1, <1>2, <1>3, <2>1, <2>2, ImageOver DEF Layered, stepVars
<1>4. CASE /\ Goto("image") /\ Fine /\ active' = active \cup {layers[Top].uuid}
           /\ torn' = IF upload = "good" THEN torn ELSE torn \cup {layers[Top].uuid}
  <2>1. phase' = "image" /\ UNCHANGED <<err, buildFaults>>
    BY <1>4 DEF Goto, Fine
  <2>2. active' = active \cup {expected} /\ torn' = IF upload = "good" THEN torn ELSE torn \cup {expected}
    BY <1>2, <1>4
  <2> USE DEF connVars, stepVars
  <2>3. BuildTyped'
    BY <1>1, <1>2, <2>1 DEF BuildTyped, Phases, StepUnderWay
  <2>4. expected # Unset
    BY <1>2, UuidsAre
  <2>5. Layered'
    BY <1>1, <1>2, <2>1, <2>4 DEF Layered, Before, Untaken, Taken, StepUnderWay, Top
  <2>6. Digested'
    BY <1>1, <2>1 DEF ImageInv, Digested, Live, Pending, Untaken, Taken, StepUnderWay, LayerDigests
  <2>7. Compared'
    BY <1>1, <2>1 DEF ImageInv, Compared, Live, Taken, StepUnderWay, LayerDigests, Latest
  <2>8. Named'
    BY <1>1, <1>2, <2>1, <2>2, <2>4 DEF Named, Before, Names, Known, Top
  <2>9. Files'
    BY <2>1 DEF Files
  <2>10. ImagesAreTheSteps'
    BY <1>1, <1>2, <2>2 DEF ImagesAreTheSteps
  <2> QED BY <2>3, <2>5, <2>6, <2>7, <2>8, <2>9, <2>10 DEF ImageInv
<1> QED BY <1>3, <1>4 DEF ImgapiActivate

\* The image that is recorded has the uuid of its own layer, or, when a step has
\* changed no file, that of the one below.
LEMMA ImageCreateSdcDockerImage ==
  ASSUME ImageInv, EndInv, CreateSdcDockerImage
  PROVE  ImageInv'
<1>1. /\ phase = "image"
      /\ UNCHANGED <<connVars, cacheable, fs, gBase, setScratch, expected, layerVars, endEvent, notes>>
  BY DEF CreateSdcDockerImage
<1>2. /\ BuildTyped /\ ImagesAreTheSteps /\ Layered /\ Placed(layers) /\ layers # <<>>
      /\ layers \in Seq(Layers) /\ stepNo \in 1 .. MaxSteps /\ MaxSteps \in Nat
      /\ layers[Top].uuid # Unset \/ Top > 1
  BY <1>1, DockerBuildAssumption DEF ImageInv, Layered, BuildTyped, StepUnderWay
<1> DEFINE uuid == IF layers[Top].uuid # Unset THEN layers[Top].uuid ELSE layers[Top - 1].uuid
<1>3. uuid \in Uuids \cup {Unset}
  <2>1. Top \in 1 .. Top /\ (Top > 1 => Top - 1 \in 1 .. Top)
    BY <1>2 DEF Top
  <2>2. \A i \in 1 .. Top : layers[i].uuid \in Uuids \cup {Unset}
    <3>1. \A i \in 1 .. Top : layers[i] \in Layers
      BY <1>2 DEF Top
    <3> QED BY <3>1 DEF Layers
  <2> QED BY <1>2, <2>1, <2>2
<1>4. "scratch" \notin notes => uuid = expected /\ Known(expected)
  BY <1>1 DEF ImageInv, Named, Names
<1>5. LayerDigests \in Uuids /\ expected = LayerDigests /\ fs = Contents(expected) /\ fs \subseteq 0 .. stepNo
  BY <1>1 DEF ImageInv, Digested, Live, Pending, Untaken, Taken, StepUnderWay
<1>6. Latest = Contents(LayerDigests)
  BY <1>1 DEF ImageInv, Compared, Live, Taken, StepUnderWay
<1>7. cacheable => command = "commit"
  BY <1>1 DEF EndInv, RecordInv, StepUnderWay
<1> HIDE DEF uuid
<1>8. CASE Failure /\ Fails /\ UNCHANGED <<layers, images, stepNo>>
  BY <1>1, <1>8, ImageGoesOn DEF stepVars
<1>9. CASE /\ layers' = [layers EXCEPT ![Len(layers)].uuid = uuid] /\ Fine
           /\ images' = images \cup {[uuid |-> uuid, expected |-> expected]}
           /\ Goto(IF command = "commit" THEN "finish" ELSE "step") /\ stepNo' = stepNo + 1
  <2> DEFINE ms == [layers EXCEPT ![Len(layers)].uuid = uuid]
  <2>1. /\ ms \in Seq(Layers) /\ ms # <<>> /\ Placed(ms) /\ DigestsOf(ms) = DigestsOf(layers)
        /\ Len(ms) = Len(layers) /\ ms[Len(layers)].uuid = uuid
    BY <1>2, <1>3, SetUuid
  <2>2. layers' = ms
    BY <1>9
  <2>3. /\ phase' = (IF command = "commit" THEN "finish" ELSE "step") /\ UNCHANGED <<err, buildFaults>>
        /\ stepNo' = stepNo + 1 /\ images' = images \cup {[uuid |-> uuid, expected |-> expected]}
    BY <1>9 DEF Goto, Fine
  <2> HIDE DEF ms
  <2> USE DEF connVars, layerVars
  <2>4. BuildTyped'
    BY <1>1, <1>2, <2>1, <2>2, <2>3 DEF BuildTyped, Phases, StepUnderWay
  <2>5. Layered'
    BY <1>1, <1>2, <2>1, <2>2, <2>3 DEF Layered, Before, Untaken, Taken, StepUnderWay, Top
  <2>6. Digested'
    BY <1>1, <1>2, <1>5, <2>1, <2>2, <2>3 DEF Digested, Pending, Untaken, Taken, LayerDigests
  <2>7. Compared'
    BY <1>1, <1>6, <2>1, <2>2, <2>3 DEF Compared, Taken, LayerDigests, Latest
  <2>8. Named'
    <3>1. ~setScratch'
      BY <1>1, <1>2 DEF Layered, StepUnderWay
    <3> QED BY <1>1, <1>4, <1>7, <2>1, <2>2, <2>3, <3>1 DEF Named, Before, Names, Known, Top
  <2>9. Files'
    BY <2>3 DEF Files
  <2>10. ImagesAreTheSteps'
    BY <1>1, <1>2, <1>4, <2>3 DEF ImagesAreTheSteps, Known
  <2> QED BY <2>4, <2>5, <2>6, <2>7, <2>8, <2>9, <2>10 DEF ImageInv
<1> QED BY <1>8, <1>9 DEF CreateSdcDockerImage, Top, uuid

LEMMA ImageCleanup ==
  ASSUME ImageInv, Cleanup
  PROVE  ImageInv'
<1>1. /\ phase' = "ended"
      /\ UNCHANGED <<connVars, stepVars, layers, err, gSnapshots, upload, active, torn, images>>
      /\ Fine \/ Fails
      /\ endEvent' = (IF err THEN "error" ELSE "ok") \/ endEvent' = "error"
      /\ notes \subseteq notes'
  BY DEF Cleanup
<1>2. BuildTyped /\ Layered
  BY DEF ImageInv
<1>3. buildFaults' \in 0 .. MaxBuildFaults
  BY <1>1, <1>2, DockerBuildAssumption DEF BuildTyped, Fine, Fails
<1>4. endEvent' \in {"none", "ok", "error"}
  BY <1>1
<1>5. BuildTyped'
  <2> HIDE <1>1
  <2>1. /\ phase' = "ended"
        /\ UNCHANGED <<connVars, stepVars, layers, err, gSnapshots, upload>>
    BY <1>1
  <2> QED BY <1>2, <1>3, <1>4, <2>1 DEF BuildTyped, Phases, StepUnderWay, connVars, stepVars
<1> QED BY <1>1, <1>2, <1>5, ImageOver DEF Layered, stepVars

LEMMA ImageStep ==
  ASSUME ImageInv, EndInv, ConnInv, BuildNext
  PROVE  ImageInv'
<1>1. CASE FirstConnection \/ SecondConnection \/ ContextEnd \/ ContextFlushed \/ ContextBreaks
             \/ ClientGoes \/ ServerTimesOut
  BY <1>1, ImageConn
<1>2. CASE From \/ CachedStep \/ UncachedStep \/ NoMoreSteps \/ DoPostStep
  BY <1>2, ImageFrom, ImageCachedStep, ImageUncachedStep, ImageNoMoreSteps, ImageDoPostStep
<1>3. CASE CreatePlaceholder
  BY <1>3, ImageGoesOn DEF CreatePlaceholder
<1>4. CASE DoImgapiValidate
  BY <1>4, ImageGoesOn DEF DoImgapiValidate, Fine
<1>5. CASE NotifySuccess
  BY <1>5, ImageGoesOn DEF NotifySuccess
<1>6. CASE CreateZfsSnapshot \/ ImportSnapshot \/ UpdateImgapiMetadata \/ ImgapiActivate
             \/ CreateSdcDockerImage \/ Cleanup
  BY <1>6, ImageCreateZfsSnapshot, ImageImportSnapshot, ImageUpdateImgapiMetadata,
     ImageImgapiActivate, ImageCreateSdcDockerImage, ImageCleanup
<1> QED BY <1>1, <1>2, <1>3, <1>4, <1>5, <1>6 DEF BuildNext, BuildStep

\* Zone, sessions and copies have no part in it.
LEMMA ImageElsewhere ==
  ASSUME ImageInv, UNCHANGED buildVars
  PROVE  ImageInv'
<1> USE DEF buildVars, connVars, stepVars, layerVars, endVars
<1>1. BuildTyped' /\ Layered'
  BY DEF ImageInv, BuildTyped, Layered, Top
<1>2. Digested'
  BY DEF ImageInv, Digested, Pending, LayerDigests, Top
<1>3. Compared'
  BY DEF ImageInv, Compared, LayerDigests, Latest, ParentSnapshot, IsAgainstBaseImage
<1>4. Named' /\ Files' /\ ImagesAreTheSteps'
  BY DEF ImageInv, Named, Names, Known, Top, Files, ImagesAreTheSteps
<1> QED BY <1>1, <1>2, <1>3, <1>4 DEF ImageInv

LEMMA ImageAlways == Spec => []ImageInv
<1>1. ImageInv /\ EndInv /\ ConnInv /\ [Next]_dockerVars => ImageInv'
  <2> SUFFICES ASSUME ImageInv, EndInv, ConnInv, [Next]_dockerVars PROVE ImageInv'
    OBVIOUS
  <2>1. BuildNext \/ UNCHANGED buildVars
    BY Steps
  <2> QED BY <2>1, ImageStep, ImageElsewhere
<1> QED BY InitImage, EndAlways, ConnAlways, <1>1, PTL DEF Spec

\* Every image sdc-docker is told of is there, and its layers are the changes of the
\* steps up to it, each in one layer, in their order, after any mix of cached steps,
\* metadata steps and steps that change files (importImageSnapshotIntoImgapi); none
\* whose file is not whole is activated, unless zfs_snapshot_tar ended unnoticed.
THEOREM LayersAreTheSteps == Spec => []ImagesAreTheSteps
<1>1. ImageInv => ImagesAreTheSteps
  BY DEF ImageInv
<1> QED BY <1>1, ImageAlways, PTL

\* The state of sessions, copies and builds is well typed; a build's snapshots are
\* on disk until its end, each within what the container holds.
THEOREM DockerTypeCorrect == Spec => []DockerTypeOK
<1>1. ImageInv /\ EndInv /\ ConnInv => BuildTypeOK
  <2> SUFFICES ASSUME ImageInv, EndInv, ConnInv PROVE BuildTypeOK
    OBVIOUS
  <2>1. BuildTyped
    BY DEF ImageInv
  <2>2. \A l \in Range(layers) : l.uuid # Unset => Range(l.uuid) \subseteq SUBSET (0 .. MaxSteps)
    <3> SUFFICES ASSUME NEW l \in Range(layers), l.uuid # Unset
                 PROVE  Range(l.uuid) \subseteq SUBSET (0 .. MaxSteps)
      OBVIOUS
    <3>1. l \in Layers
      BY <2>1 DEF BuildTyped, Range
    <3>2. l.uuid \in Seq(SUBSET StepNos)
      BY <3>1 DEF Layers, Uuids
    <3> QED BY <3>2 DEF Range, StepNos
  <2>3. phase # "ended" => \A i \in DOMAIN gSnapshots : i \in zfsSnaps /\ gSnapshots[i] \subseteq fs
    BY <2>1 DEF BuildTyped, EndInv, SnapsInv
  <2>4. connectCount \in 0 .. 2 /\ starts \in 0 .. 1
    BY DEF ConnInv
  <2> QED BY <2>1, <2>2, <2>3, <2>4 DEF BuildTyped, Contexts, BuildTypeOK, StepNos
<1> DEFINE ScenarioOK == scenario \in {"exec", "copy", "build"}
<1>2. Init => ScenarioOK
  BY DEF Init
<1>3. ScenarioOK /\ [Next]_dockerVars => ScenarioOK'
  BY Steps
<1>4. Spec => []ScenarioOK
  <2> HIDE DEF ScenarioOK
  <2> QED BY <1>2, <1>3, PTL DEF Spec
<1>5. ScenarioOK /\ FlagInv /\ MountInv /\ BuildTypeOK => DockerTypeOK
  BY DEF FlagInv, MountInv, DockerTypeOK
<1> HIDE DEF ScenarioOK
<1> QED BY <1>1, <1>4, <1>5, ImageAlways, EndAlways, ConnAlways, FlagAlways, MountAlways, PTL
=============================================================================
