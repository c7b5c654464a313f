------------------------------- MODULE Replica -------------------------------
(***************************************************************************)
(* What whoever migrates a machine is promised of its copy on the target.  *)
(*                                                                         *)
(* The copy of a disk is the machine at one of the moments of which the    *)
(* source has a snapshot.  It is never set back, never more than one       *)
(* snapshot behind, and when a sync is reported to have ended well it is   *)
(* not behind at all.  Syncs may fail or be cut off at any time.           *)
(***************************************************************************)
EXTENDS Integers

CONSTANT Disks      \* the machine's datasets

VARIABLES
  latest,           \* latest[d]: the moment of the newest snapshot on the source
  held,             \* held[d]: the moment at which the target's copy is
  client,           \* what the one who asks for a sync has seen
  void              \* something has happened under which nothing is promised

vars == <<latest, held, client, void>>

Nothing == -1

Init ==
  /\ latest \in [Disks -> {Nothing, 0}]
  /\ held = [d \in Disks |-> Nothing]
  /\ client = "none" /\ void \in BOOLEAN

\* A sync goes on when the one who asked for it is no longer connected.
UnderWay == client \in {"waiting", "cut"}

Ask ==
  /\ client = "none" /\ client' = "waiting"
  /\ UNCHANGED <<latest, held, void>>

\* The next snapshot is taken when the copy has the last one.
Take(d) ==
  /\ UnderWay /\ held[d] = latest[d]
  /\ latest' = [latest EXCEPT ![d] = latest'[d]] /\ latest'[d] > latest[d]
  /\ UNCHANGED <<held, client, void>>

\* A copy is brought up to date; the sync may be cut off as it is.
Receive(d) ==
  /\ UnderWay /\ client' \in {client, "cut"}
  /\ held' = [held EXCEPT ![d] = latest[d]]
  /\ UNCHANGED <<latest, void>>

Stray ==
  /\ UnderWay /\ client' \in {client, "cut"}
  /\ void' = TRUE
  /\ UNCHANGED <<latest, held>>

Lose(d) ==
  /\ UnderWay /\ void
  /\ held' = [held EXCEPT ![d] = held'[d]] /\ held'[d] < held[d]
  /\ UNCHANGED <<latest, client, void>>

Succeed ==
  /\ client = "waiting" /\ client' = "ok"
  /\ void \/ (held = latest /\ \E d \in Disks : latest[d] # Nothing)
  /\ UNCHANGED <<latest, held, void>>

Fail ==
  /\ client = "waiting" /\ client' \in {"error", "cut"}
  /\ UNCHANGED <<latest, held, void>>

\* Whoever has been answered, or was cut off, may ask again.
Leave ==
  /\ client # "waiting" /\ client' = "none"
  /\ UNCHANGED <<latest, held, void>>

Next ==
  \/ Ask \/ Leave \/ Succeed \/ Fail \/ Stray
  \/ \E d \in Disks : Take(d) \/ Receive(d) \/ Lose(d)

Spec == Init /\ [][Next]_vars
=============================================================================
