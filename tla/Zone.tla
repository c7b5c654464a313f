-------------------------------- MODULE Zone --------------------------------
(***************************************************************************)
(* The zone of one docker container, as the docker tasks meet it: it is    *)
(* booted, stopped and signalled by the machine_* tasks, mounted by the    *)
(* copies, and a dockerinit that starts in it looks for the flag           *)
(* wait_for_attach in its metadata before it runs the program.             *)
(***************************************************************************)

None == "none"

VARIABLES
  zone,     \* "init" is running, with dockerinit before the program
  mounter,  \* who has mounted it
  boot,     \* machine_boot is between its unmount and its start
  flag,     \* docker:wait_for_attach, named for the attach that has set it
  expired   \* the attaches whose timestamp lies in the past

zoneVars == <<zone, mounter, boot, flag, expired>>

Running == zone \in {"init", "program"}

ZoneInit ==
  /\ zone = "installed" /\ mounter = None
  /\ boot = FALSE
  /\ flag = None /\ expired = {}

\* zoneadm(): on a mounted zone unmount works, unless a process is still in it.
Unmounts == zone = "mounted" /\ zone' = "installed" /\ mounter' = None

\* machine_boot, first half: "vmadm does not like booting mounted zones".
\* An unmount that fails is ignored.
BootUnmount ==
  /\ ~boot /\ boot' = TRUE
  /\ Unmounts \/ UNCHANGED <<zone, mounter>>
  /\ UNCHANGED <<flag, expired>>

\* The second half; an error of vmadm's is the task's.
Boot ==
  /\ boot /\ boot' = FALSE
  /\ zone' = IF zone = "installed" THEN "init" ELSE zone
  /\ UNCHANGED <<mounter, flag, expired>>

\* machine_shutdown; force and timeout are vmadm's affair.
Shutdown ==
  /\ Running /\ zone' = "installed"
  /\ UNCHANGED <<mounter, boot, flag, expired>>

\* machine_kill: the program may end of the signal, and the zone with it.
Kill ==
  /\ zone = "program" /\ zone' = "installed"
  /\ UNCHANGED <<mounter, boot, flag, expired>>

\* machine_reboot.
Reboot ==
  /\ Running /\ zone' = "init"
  /\ UNCHANGED <<mounter, boot, flag, expired>>

\* dockerinit: it waits while the flag is there, and gives up when its time has
\* passed (update-wait-flag.js:28-46).
DockerInit ==
  /\ zone = "init"
  /\ \/ flag = None /\ zone' = "program"
     \/ flag \in expired /\ zone' = "installed"
  /\ UNCHANGED <<mounter, boot, flag, expired>>

ZoneNext == BootUnmount \/ Boot \/ Shutdown \/ Kill \/ Reboot \/ DockerInit
=============================================================================
