----------------------------- MODULE MCTaskRuntime -----------------------------
(* The tasks of the gateway and the perception that grounds them, each     *)
(* explored on its own: the tasks; the objects that perception keeps in    *)
(* the planning scene; the answers that it gives the gateway.              *)
(*                                                                         *)
(* Three small tasks: task 1 retries a skill of two motions, task 11 falls *)
(* back from a motion to a query for each visible object, task 21 is a     *)
(* sequence of a motion and a repeated motion.                             *)
EXTENDS TaskRuntime, ScenePerception

VARIABLE part   \* what this behaviour is about

MCNode == {1, 2, 11, 12, 13, 14, 21, 22, 23, 24}
MCRoot == [r \in Run |-> IF r = 1 THEN {1, 11} ELSE {21}]
MCType == [n \in MCNode |->
    CASE n = 1 -> "retry" [] n = 11 -> "fallback" [] n = 13 -> "for_each"
      [] n = 21 -> "sequence" [] n = 23 -> "repeat" [] OTHER -> "skill"]
MCKids == [n \in MCNode |->
    CASE n = 1 -> <<2>> [] n = 11 -> <<12, 13>> [] n = 13 -> <<14>>
      [] n = 21 -> <<22, 23>> [] n = 23 -> <<24>> [] OTHER -> <<>>]
MCCount == [n \in MCNode |-> IF n \in {1, 23} THEN 2 ELSE 0]
MCMotions == [n \in MCNode |->
    CASE n = 2 -> 2 [] n \in {12, 22} -> 1 [] OTHER -> 0]

\* Clusters of one class.
MCCluster(p, d, s) == [class |-> "box", at |-> p, depth |-> d, sure |-> s]
MCSeen == {<<MCCluster(p, "OK", TRUE)>> : p \in 0 .. 2}
MCClouds ==
    {<<>>, <<MCCluster(1, "DEGRADED_DEPTH", TRUE)>>,
     <<MCCluster(0, "contour", TRUE), MCCluster(1, "OK", FALSE), MCCluster(2, "REJECT", TRUE)>>}
    \cup MCSeen
    \cup {pair[1] \o pair[2] : pair \in {q \in MCSeen \X MCSeen : q[1] # q[2]}}

MCRgb(frame, inside, depth) == [frame |-> frame, inside |-> inside, depth |-> depth]
MCRgbArrays ==
    {{MCRgb("base_link", TRUE, ""), MCRgb("base_link", FALSE, "")},
     {MCRgb("base_link", TRUE, "DEGRADED_DEPTH"), MCRgb("camera", TRUE, "")}}

both == <<part, vars, perception>>

BothInit ==
    /\ part \in {"tasks", "objects", "answers"}
    /\ Init /\ PerceptionInit
    /\ part = "tasks" => file.text = "valid"

Tasks(A) == part = "tasks" /\ A /\ UNCHANGED <<part, perception>>

\* The RGB detector matters to the answers alone, more frames to the objects.
SceneNext ==
    \/ OnCloud \/ Tick \/ WriteCalibration
    \/ part = "objects" /\ (ProcessLatestCloud \/ PublishDetections)
    \/ part = "answers" /\
         \/ frames < 2 /\ ProcessLatestCloud
         \/ OnRgbDetections \/ HandleGetObjectPositions

BothNext ==
    \/ Tasks(Next)
    \/ part # "tasks" /\ SceneNext /\ UNCHANGED <<part, vars>>

\* As in TaskRuntime!FairSpec.
BothSpec ==
    /\ BothInit /\ [][BothNext]_both
    /\ \A r \in Run : WF_both(Tasks(RunStep(r)))
================================================================================
