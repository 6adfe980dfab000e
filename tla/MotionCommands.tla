--------------------------- MODULE MotionCommands ---------------------------
(***************************************************************************)
(* A command on its way to the arm, in two halves that are explored one    *)
(* without the other.  The commands: the HMI asks the execution gate, turns*)
(* the command into a goal and sends it, and the worker of motion_core     *)
(* plans it, with a plan that is no more than its ends; the controller's   *)
(* status, interrupts and jogs come in between.  The points: what becomes  *)
(* of the points of one plan, with budgets of a few points.                *)
(***************************************************************************)
EXTENDS MotionPlanning, TrajectoryPipeline, FiniteSets

CONSTANTS
    Commands,       \* what the HMI may be asked to do
    Statuses        \* what the controller may report

VARIABLES
    half,           \* "commands" or "points"
    simMode, rules, robotReady,
    client,         \* the commands that are approved and not yet sent
    stirred         \* history: a jog since the start state was read and
                    \* before the plan was made

Gate == INSTANCE SafetyGate

gate == <<simMode, rules, robotReady>>
motion == <<moveGroup, manipulability, sceneLoaded, tcp, goals, stage, goal,
            interrupted, start, scales, target, plan, report>>
commands == <<gate, motion, client, stirred>>
vars == <<half, commands, pipeline>>

Points3 == [1 .. 3 -> Int] \cup {Gate!Malformed}

(* What the HMI's JSON may hold.                                           *)
CommandShape ==
    [prim : STRING, vel : Int, acc : Int, extended : BOOLEAN, frame : STRING,
     delta : Points3, planner : STRING, joints : BOOLEAN, target : Points3,
     waypoints : Seq(Points3),
     steps : Seq([prim : STRING, blend : Int, vel : Int, acc : Int,
                  planner : STRING, target : Points3])]

\* A query and a factory task do not go to motion_core.
ASSUME MotionAssumption ==
    /\ PlanningAssumption /\ PipelineAssumption
    /\ Commands \subseteq CommandShape
    /\ \A c \in Commands : c.prim \notin {"GET_POSE", "FACTORY_TASK_RUNTIME"}
    /\ Statuses \subseteq Gate!StatusMessages

-----------------------------------------------------------------------------
(* The client: _validate_motion_request, then _build_execute_motion_goal.  *)

OrZero(scale) == IF scale = Gate!Absent THEN 0 ELSE scale

GoalOf(c) ==
    [prim |-> c.prim, vel |-> OrZero(c.vel), acc |-> OrZero(c.acc),
     planner |-> c.planner, frame |-> c.frame,
     delta |-> IF c.delta = Gate!Malformed THEN Gate!Origin ELSE c.delta,
     joints |-> c.joints, target |-> Gate!RequestTarget(c),
     waypoints |-> c.waypoints, steps |-> c.steps]

Validate(c) ==
    /\ client = {} /\ stage = "idle" /\ goals < MaxGoals
    /\ Gate!Approves(c)
    /\ client' = {c}
    /\ UNCHANGED <<gate, motion, stirred>>

Send ==
    /\ \E c \in client : HandleGoal(GoalOf(c))
    /\ client' = {}
    /\ stirred' = FALSE
    /\ UNCHANGED gate

Planning == {"setup", "resolve", "pose", "preplan", "plan", "cartesian"}

GateStep ==
    /\ \/ \E s \in Statuses : Gate!status_callback(s)
       \/ \E ready \in BOOLEAN : Gate!adapter_ready_callback(ready)
    /\ UNCHANGED <<motion, client, stirred>>

Init ==
    /\ half \in {"commands", "points"}
    /\ Gate!Init /\ PlanningInit /\ client = {} /\ stirred = FALSE
    /\ PipelineInit
    /\ half = "points" => rules = "loaded" /\ simMode /\ moveGroup /\ sceneLoaded /\ tcp = Home
    /\ half = "commands" => primitive = "LIN" /\ arm = <<0, 0, 0>>

Next ==
    \/ /\ half = "commands"
       /\ \/ GateStep
          \/ \E c \in Commands : Validate(c)
          \/ Send
          \/ WorkerStep /\ UNCHANGED <<gate, client, stirred>>
          \/ Interrupt /\ UNCHANGED <<gate, client, stirred>>
          \/ Jog /\ stirred' = (stirred \/ stage \in Planning) /\ UNCHANGED <<gate, client>>
       /\ UNCHANGED <<half, pipeline>>
    \/ /\ half = "points"
       /\ PipelineNext
       /\ UNCHANGED <<half, commands>>

Spec == Init /\ [][Next]_vars

-----------------------------------------------------------------------------
TypeOK ==
    /\ Gate!TypeOK
    /\ moveGroup \in BOOLEAN /\ sceneLoaded \in BOOLEAN
    /\ manipulability => moveGroup
    /\ goals \in 0 .. MaxGoals
    /\ stage \in Stages
    /\ interrupted \in BOOLEAN
    /\ stage = "idle" <=> goal = NoGoal
    /\ stage = "idle" <=> report.result # "running"
    /\ report.result \in {"none", "running", "succeeded", "rejected",
                          "aborted", "canceled"}
    /\ client \subseteq Commands /\ Cardinality(client) <= 1

(* The envelope of safety_rules.yaml: its zones lie outside its bounds.    *)
Safe(p) == /\ p[1] \in -450 .. 450
           /\ p[2] \in -160 .. 520
           /\ p[3] \in 100 .. 650

Finishes == report.result = "running" /\ report'.result = "succeeded"
Ran == Finishes /\ stage = "dispatch"

(* A motion to a pose or by a distance that starts inside the envelope of  *)
(* the safety rules ends inside it, though the gate checks what the client *)
(* asks for, motion_core has a copy of the rules and only for MOVE_REL,    *)
(* and the path may be cut short or replaced on the way.                   *)
EndsInEnvelope ==
    [][Ran /\ rules = "loaded" /\ ~stirred /\ Safe(plan.start)
           /\ goal.prim \in {"LIN", "PTP", "CIRC", "MOVE_REL", "CARTESIAN_PATH",
                             "BLENDED_SEQUENCE"}
           /\ ~goal.joints
       => Safe(tcp')]_commands

(* ... and so does every point it was told to pass.                        *)
PassesInEnvelope ==
    [][Ran /\ rules = "loaded" =>
         /\ goal.prim \in {"CIRC", "CARTESIAN_PATH"} =>
                \A i \in 1 .. Len(goal.waypoints) : Safe(goal.waypoints[i])
         /\ goal.prim = "BLENDED_SEQUENCE" =>
                \A i \in 1 .. Len(goal.steps) : Safe(goal.steps[i].target)]_commands

(* The worker plans with scales above zero and within the cap, whatever    *)
(* the client left out, spelled wrong or asked for.                        *)
SpeedCapped ==
    stage \notin {"idle", "prepare"} =>
        /\ scales.vel \in 1 .. GoalCap(goal.prim)
        /\ scales.acc \in 1 .. 60

(* The gate and motion_core agree on the scales: motion_core takes every   *)
(* goal that the gate let through.                                         *)
ApprovedIsAccepted == report.result # "rejected"

(* What quality_gate.hpp asks of a straight motion.                        *)
Promised ==
    CASE goal.prim = "MOVE_REL" -> 70
      [] goal.prim = "CARTESIAN_PATH" -> 95
      [] OTHER -> 90

Asked ==
    IF goal.prim = "MOVE_REL" THEN Shifted(tcp, goal.delta) ELSE goal.target
LinearStops ==
    {Asked} \cup
    {StopsAt(tcp, <<tcp, Asked>>, f) :
        f \in {g \in Fractions : g >= Promised}}

(* A straight motion that is run ends where it was asked to, counted from  *)
(* where the robot is, or so near as the minimum of its primitive: whether *)
(* LIN, the Cartesian path or a PTP made the plan, and though the robot    *)
(* can be jogged after the plan was made.                                  *)
ArrivesWhereAsked ==
    [][Ran /\ ~stirred /\ goal.prim \in {"LIN", "MOVE_REL"} => tcp' \in LinearStops]_commands

(* A success has covered the minimum fraction that the quality gate asks   *)
(* of the primitive, run or not.                                           *)
CoversTheWay ==
    [][Finishes /\ plan.fraction # NotApplicable
       => plan.fraction >= Promised]_commands

(* The gate and motion_core judge a command alike, and its speed is capped *)
(* whatever it asks for.                                                   *)
VerdictsAgree == TypeOK /\ SpeedCapped /\ ApprovedIsAccepted

(* The arm stays in the envelope of the safety rules, at the end of every  *)
(* motion and on the way.                                                  *)
StaysInEnvelope == EndsInEnvelope /\ PassesInEnvelope
=============================================================================
