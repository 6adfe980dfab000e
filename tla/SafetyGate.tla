----------------------------- MODULE SafetyGate -----------------------------
(***************************************************************************)
(* src/safety: the safety manager keeps the last word on the robot's       *)
(* readiness, and its execution gate answers /validate_command: may this   *)
(* command go to motion_core?  The node has one thread.                    *)
(*                                                                         *)
(* Lengths are in millimetres, scales in thousandths.  A point is          *)
(* <<x, y, z>>, or Malformed where the JSON has no numbers.                *)
(***************************************************************************)
EXTENDS Integers, Sequences

VARIABLES
    simMode,        \* parameter sim_mode
    rules,          \* safety_rules.yaml at start-up: "loaded" or "missing"
    robotReady      \* _robot_ready

vars == <<simMode, rules, robotReady>>

Absent == -1        \* a scale the command leaves out
NaN == -2           \* a scale that is not a number but parses as one
NoNumber == -99999  \* a coordinate that is NaN
Malformed == <<>>
Origin == <<0, 0, 0>>

(* The file, installed or in the source tree, or nothing.                  *)
load_safety_rules == {"loaded", "missing"}

TypeOK ==
    /\ simMode \in BOOLEAN
    /\ rules \in load_safety_rules
    /\ robotReady \in BOOLEAN

Init == TypeOK /\ robotReady = FALSE

-----------------------------------------------------------------------------
(* Readiness.                                                              *)

TriState == {"TRUE", "FALSE", "UNKNOWN"}
StatusMessages ==
    [in_error : TriState, e_stopped : TriState,
     drives_powered : TriState, motion_possible : TriState]

(* An error or an emergency stop of which the controller knows nothing     *)
(* does not block.                                                         *)
Clears(s) ==
    /\ s.in_error # "TRUE"
    /\ s.e_stopped # "TRUE"
    /\ s.drives_powered = "TRUE"
    /\ s.motion_possible = "TRUE"

status_callback(s) ==
    /\ robotReady' = (IF simMode THEN robotReady ELSE Clears(s))
    /\ UNCHANGED <<simMode, rules>>

(* What hw_adapter reports, in simulation only.                            *)
adapter_ready_callback(ready) ==
    /\ robotReady' = (IF simMode THEN ready ELSE robotReady)
    /\ UNCHANGED <<simMode, rules>>

-----------------------------------------------------------------------------
(* The rules.  Without the file the guard has no zones and allows ten      *)
(* metres; the limits on the motion are the fail-safe ones.                *)

Box(xs, ys, zs) == <<xs, ys, zs>>

WorkspaceBounds ==
    IF rules = "loaded"
    THEN Box(<<-450, 450>>, <<-160, 520>>, <<100, 650>>)
    ELSE Box(<<-10000, 10000>>, <<-10000, 10000>>, <<-10000, 10000>>)

ForbiddenZones ==
    IF rules = "loaded"
    THEN {Box(<<-650, 650>>, <<-227, -167>>, <<-750, 750>>),
          Box(<<-512, -452>>, <<-245, 855>>, <<-750, 750>>),
          Box(<<-750, 750>>, <<-250, 850>>, <<-10, 90>>)}
    ELSE {}

MaxVelocity == 60
MaxAcceleration == 60
MaxMoveRelVelocity == IF rules = "loaded" THEN 90 ELSE MaxVelocity
MaxMoveRelTranslation == 210

Finite(p) == \A a \in 1 .. 3 : p[a] # NoNumber

(* Closed on every side; NaN is in no interval.                            *)
Inside(p, box) ==
    Finite(p) /\ \A a \in 1 .. 3 : box[a][1] <= p[a] /\ p[a] <= box[a][2]

(* WorkspaceGuard.check_pose                                               *)
check_pose(p) ==
    /\ Inside(p, WorkspaceBounds)
    /\ \A zone \in ForbiddenZones : ~Inside(p, zone)

CheckedPoint(p) == p # Malformed /\ check_pose(p)

-----------------------------------------------------------------------------
(* A command, as the client's JSON has it:                                 *)
(*   prim, vel, acc, extended, frame, delta, planner                       *)
(*   joints     joint_target is a list that is not empty                   *)
(*   target     target_pose, or Malformed                                  *)
(*   waypoints  a sequence of points                                       *)
(*   steps      a sequence of [prim, blend, vel, acc, target]              *)
(* request.target_pose is made by the client from the same JSON; without   *)
(* a target it is the origin.                                              *)

RequestTarget(c) ==
    IF c.target # Malformed THEN c.target
    ELSE IF c.prim = "CARTESIAN_PATH" /\ c.waypoints # <<>>
         THEN LET last == c.waypoints[Len(c.waypoints)]
              IN  IF last = Malformed THEN Origin ELSE last
         ELSE Origin

VelocityBypass ==
    {"ALARM_RESET", "STOP", "WAIT", "IO_SET", "GET_POSE", "FACTORY_TASK_RUNTIME"}

PoseCheckSkipped ==
    {"HOME", "STOP", "MOVE_REL", "SET_SPEED", "WAIT", "ALARM_RESET", "IO_SET",
     "MOVE_JOINT", "MOVE_JOINTS", "GET_POSE", "BLENDED_SEQUENCE",
     "FACTORY_TASK_RUNTIME"}

(* NaN is neither above the cap nor below zero.                            *)
ScaleOk(scale, cap) ==
    \/ scale \in {Absent, NaN}
    \/ scale > 0 /\ scale <= cap

(* Mutant: the cap of MOVE_REL for everyone.                               *)
VelocityCapOf_Generous(prim) == 90

VelocityCapOf(prim) ==
    IF prim = "MOVE_REL" THEN MaxMoveRelVelocity ELSE MaxVelocity

(* CommandValidator.validate.  The rules configure no extended range, so   *)
(* extended_mode is refused.                                               *)
ValidParameters(c) ==
    \/ c.prim \in VelocityBypass
    \/ /\ ~c.extended
       /\ ScaleOk(c.vel, VelocityCapOf(c.prim))
       /\ ScaleOk(c.acc, MaxAcceleration)

Norm2(d) == d[1] * d[1] + d[2] * d[2] + d[3] * d[3]

ValidDeltas(c) ==
    /\ c.frame \in {"", "base_link"}
    /\ c.delta # Malformed
    /\ Finite(c.delta)
    /\ c.delta # Origin
    /\ Norm2(c.delta) <= MaxMoveRelTranslation * MaxMoveRelTranslation

(* A step without a primitive passes.                                      *)
ValidStep(s, last) ==
    /\ s.prim \in {"", "LIN", "PTP"}
    /\ s.blend >= 0
    /\ last => s.blend = 0
    /\ ScaleOk(s.vel, MaxVelocity)
    /\ ScaleOk(s.acc, MaxAcceleration)
    /\ CheckedPoint(s.target)

ValidSteps(c) ==
    /\ Len(c.steps) >= 2
    /\ \A i \in 1 .. Len(c.steps) : ValidStep(c.steps[i], i = Len(c.steps))

PoseChecked(c) ==
    c.prim \notin PoseCheckSkipped /\ ~(c.prim = "PTP" /\ c.joints)

(* Mutant: the points along the way are taken on trust.                    *)
ValidWaypoints_Counted(c) ==
    /\ c.prim = "CIRC" => Len(c.waypoints) = 1
    /\ c.prim = "CARTESIAN_PATH" => c.waypoints # <<>>

ValidWaypoints(c) ==
    /\ c.prim = "CIRC" => Len(c.waypoints) = 1
    /\ c.prim = "CARTESIAN_PATH" => c.waypoints # <<>>
    /\ c.prim \in {"CIRC", "CARTESIAN_PATH"} =>
          \A i \in 1 .. Len(c.waypoints) : CheckedPoint(c.waypoints[i])

(* _validate_callback_inner: the answer to /validate_command.  The         *)
(* comparisons are with the primitive as the client spells it.             *)
Approves(c) ==
    /\ robotReady \/ c.prim = "ALARM_RESET"
    /\ ValidParameters(c)
    /\ c.prim = "MOVE_REL" => ValidDeltas(c)
    /\ PoseChecked(c) => check_pose(RequestTarget(c))
    /\ ValidWaypoints(c)
    /\ c.prim = "BLENDED_SEQUENCE" => ValidSteps(c)

Next ==
    \/ \E s \in StatusMessages : status_callback(s)
    \/ \E ready \in BOOLEAN : adapter_ready_callback(ready)
=============================================================================
