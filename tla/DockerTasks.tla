----------------------------- MODULE DockerTasks ----------------------------
(***************************************************************************)
(* The docker tasks of one zone: exec, attach and logs; copies; a build or *)
(* a commit.  They meet in the zone only, which is booted and stopped      *)
(* meanwhile, so a behaviour is about one of the three.                    *)
(***************************************************************************)
EXTENDS DockerExec, DockerCopy, DockerBuild

VARIABLE scenario

dockerVars == <<scenario, zoneVars, execVars, copyVars, buildVars>>

Exec  == scenario = "exec"  /\ UNCHANGED <<scenario, copyVars, buildVars>>
Copy  == scenario = "copy"  /\ UNCHANGED <<scenario, execVars, buildVars>>
Build == scenario = "build" /\ UNCHANGED <<scenario, zoneVars, execVars, copyVars>>

FirstOf(S) == CHOOSE x \in S : TRUE

\* Bound: an attach meets another one, any other session, or one with a pty, meets
\* logs: only attaches share more than the zone, and not their ptys.  No case is
\* taken twice with the names exchanged.
ExecCases ==
  LET first == FirstOf(Sessions) IN
  /\ \A s \in Sessions \ {first} :
       /\ kind[s] = (IF kind[first] = "attach" /\ ~tty[first] THEN "attach" ELSE "logs")
       /\ ~tty[s]
  /\ scenario # "exec" => \A s \in Sessions : kind[s] = "attach" /\ ~tty[s]
CopyCases ==
  LET first == FirstOf(Copies) IN
  /\ \A c \in Copies \ {first} : mode[c] # "stat" /\ (mode[first] # "read" => mode[c] = "write")
  /\ scenario # "copy" => \A c \in Copies : mode[c] = "read"
BuildCases == scenario # "build" => command = "build"

Init ==
  /\ scenario \in {"exec", "copy", "build"}
  /\ ZoneInit
  /\ ExecInit /\ ExecCases
  /\ CopyInit /\ CopyCases
  /\ BuildInit /\ BuildCases

Next ==
  \/ Exec /\ ExecNext
  \/ Copy /\ CopyNext
  \/ Build /\ BuildNext

\* Tasks and helpers go on; nothing is expected of the zone, of sdc-docker, which may
\* keep a connection that was ended, or of the commands that run in the zone.  While
\* its client is connected sdc-docker answers what a build asks.
Fairness ==
  /\ \A s \in Sessions : WF_<<zoneVars, execVars>>(scenario = "exec" /\ ExecStep(s))
  /\ \A c \in Copies : WF_<<zoneVars, copyVars>>(scenario = "copy" /\ CopyStep(c))
  /\ WF_buildVars(scenario = "build" /\ BuildStep)

Spec == Init /\ [][Next]_dockerVars /\ Fairness

-----------------------------------------------------------------------------
DockerTypeOK ==
  /\ scenario \in {"exec", "copy", "build"}
  /\ ExecTypeOK /\ CopyTypeOK /\ BuildTypeOK

\* What was asked for is answered, and what was started for it ends once nobody
\* needs it any more: the docker_exec task, the helpers and servers of exec, attach,
\* logs and copies, and a build whose context has ended and that has its client, with
\* the exceptions that ExecAnswers, HelperEnds, CopyEnds and BuildEnds name.
DockerEnds == ExecAnswers /\ HelperEnds /\ CopyEnds /\ BuildEnds
=============================================================================
