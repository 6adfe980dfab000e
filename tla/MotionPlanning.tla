--------------------------- MODULE MotionPlanning ---------------------------
(***************************************************************************)
(* src/motion_core: what the worker of an ExecuteMotion goal does between  *)
(* its begin_goal and the trajectory it hands to hw_adapter: the checks,   *)
(* the choice of the planner, the target, the plan with its fallbacks and  *)
(* the interrupts on the way.  MotionCore has the goals and the dispatch,  *)
(* TrajectoryPipeline the points; here a plan is where it starts, where it *)
(* ends and how much of the asked path it covers.                          *)
(*                                                                         *)
(* MoveIt, the seeds, the IK and the guards may fail at any time.          *)
(***************************************************************************)
EXTENDS Integers, Sequences

CONSTANTS
    Places,         \* where a joint motion, a jog or a broken run may end
    Home,           \* the named target
    Fractions,      \* percentages that computeCartesianPath returns
    MaxGoals        \* bound on the goals

PlanningAssumption ==
    /\ Places \subseteq [1 .. 3 -> Int] /\ Home \in Places
    /\ Fractions \subseteq 0 .. 100
    /\ MaxGoals \in Nat

VARIABLES
    moveGroup,      \* move_group_ is there
    manipulability, \* the manipulability guard is armed
    sceneLoaded,    \* scene_loaded_
    tcp,            \* where the tool is
    goals,          \* goals accepted so far
    stage,          \* what the worker does next
    goal,           \* the goal it works on
    interrupted,    \* a STOP, a cancellation or the shutdown
    start,          \* start state: where the tool was when it was read
    scales,         \* [vel, acc] of the plan
    target,         \* normalized_pose
    plan,           \* [start, end, fraction], of the trajectory
    report          \* [result, why] of the last goal

worker == <<stage, goal, start, scales, target, plan, report>>
node == <<moveGroup, manipulability, sceneLoaded>>

NotApplicable == -1  \* kFractionNotApplicable
NoPlan == [start |-> <<>>, end |-> <<>>, fraction |-> NotApplicable]
NoGoal == [prim |-> "none"]

Stages ==
    {"idle", "prepare", "setup", "joint", "blendSend", "blendResult", "resolve",
     "pose", "preplan", "plan", "cartesian", "ptp", "guard", "timing",
     "dispatch"}

PlanningInit ==
    /\ moveGroup \in BOOLEAN
    /\ manipulability = moveGroup
    /\ sceneLoaded \in BOOLEAN
    /\ tcp \in Places
    /\ goals = 0
    /\ stage = "idle"
    /\ goal = NoGoal
    /\ interrupted = FALSE
    /\ start = <<>>
    /\ scales = [vel |-> 0, acc |-> 0]
    /\ target = <<>>
    /\ plan = NoPlan
    /\ report = [result |-> "none", why |-> ""]

-----------------------------------------------------------------------------
(* A goal: prim, vel, acc, planner, frame, delta, joints, target,          *)
(* waypoints, steps.  A scale that is left out is zero.                    *)

DefaultScale == 60

NonMotionPrimitives == {"ALARM_RESET", "STOP", "WAIT", "IO_SET", "SET_SPEED"}

(* A negative scale is refused, one that is too big too; NaN is neither.   *)
NaN == -2
GoalCap(prim) == IF prim = "MOVE_REL" THEN 90 ELSE 60
WithinCap(scale, cap) == scale = NaN \/ (scale >= 0 /\ scale <= cap)

(* ExecuteMotionActionSupport::handle_goal                                 *)
AcceptsGoal(g) ==
    \/ g.prim \in NonMotionPrimitives
    \/ WithinCap(g.vel, GoalCap(g.prim)) /\ WithinCap(g.acc, 60)

(* NaN is not above zero either.                                           *)
Resolved(scale) == IF scale > 0 THEN scale ELSE DefaultScale

Effective(g) == IF g.prim = "MOVE_JOINTS" THEN "PTP" ELSE g.prim

(* route_planner, without an obstacle context                              *)
Route(prim) ==
    CASE prim \in {"LIN", "MOVE_REL"} -> "PILZ_LIN"
      [] prim \in {"PTP", "HOME", "MOVE_JOINT", "MOVE_JOINTS"} -> "PILZ_PTP"
      [] prim = "CIRC" -> "PILZ_CIRC"
      [] prim = "COMPLEX" -> "OMPL_RRTConnect"
      [] OTHER -> ""

PlannerOf(g) == IF g.planner = "" THEN Route(Effective(g)) ELSE g.planner

PoseRequired(g) ==
    Effective(g) = "LIN" \/ (Effective(g) = "PTP" /\ ~g.joints)

-----------------------------------------------------------------------------
(* move_rel_validator.hpp: its own copy of the bounds and of the zones.    *)

Shifted(p, d) == [a \in 1 .. 3 |-> p[a] + d[a]]

(* The point after f percent of the way from p to q.                       *)
Along(p, q, f) == [a \in 1 .. 3 |-> p[a] + ((q[a] - p[a]) * f) \div 100]

(* Where computeCartesianPath stops after the fraction f: every waypoint   *)
(* counts the same, however near to the one before.                        *)
StopsAt(from, waypoints, f) ==
    LET path == <<from>> \o waypoints
        done == (f * Len(waypoints)) \div 100
    IN  IF f = 100 THEN path[Len(path)]
        ELSE Along(path[done + 1], path[done + 2], (f * Len(waypoints)) % 100)

InBox(p, box) == \A a \in 1 .. 3 : box[a][1] <= p[a] /\ p[a] <= box[a][2]

MoveRelBounds == <<<<-450, 450>>, <<-160, 520>>, <<100, 650>>>>
MoveRelZones ==
    {<<<<-650, 650>>, <<-227, -167>>, <<-750, 750>>>>,
     <<<<-512, -452>>, <<-245, 855>>, <<-750, 750>>>>,
     <<<<-750, 750>>, <<-250, 850>>, <<0, 120>>>>}

(* validate_move_rel_target_bounds                                         *)
TargetInBounds(p) ==
    InBox(p, MoveRelBounds) /\ \A zone \in MoveRelZones : ~InBox(p, zone)

DeltasOk(g) ==
    LET d == g.delta IN
    /\ g.frame \in {"", "base_link"}
    /\ d # <<0, 0, 0>>
    /\ d[1] * d[1] + d[2] * d[2] + d[3] * d[3] <= 210 * 210

-----------------------------------------------------------------------------
(* The worker.                                                             *)

Goto(s) == stage' = s

(* The goal ends; what the worker kept goes with it.                       *)
End(result, why) ==
    /\ stage' = "idle"
    /\ report' = [result |-> result, why |-> why]
    /\ goal' = NoGoal
    /\ start' = <<>>
    /\ scales' = [vel |-> 0, acc |-> 0]
    /\ plan' = NoPlan

(* It ends before there was a target that mattered.                        *)
Fail(why) == End("aborted", why) /\ target' = <<>>
Cancel == End("canceled", "") /\ target' = <<>>

Keep == UNCHANGED <<goal, scales, report>>
Quiet == UNCHANGED <<node, goals, interrupted>>

HandleGoal(g) ==
    /\ stage = "idle"
    /\ goals < MaxGoals
    /\ goals' = goals + 1
    /\ IF AcceptsGoal(g) /\ g.prim \notin NonMotionPrimitives
       THEN /\ Goto("prepare")
            /\ goal' = g
            /\ interrupted' = FALSE
            /\ report' = [result |-> "running", why |-> ""]
       ELSE /\ report' = [result |-> IF AcceptsGoal(g) THEN "succeeded"
                                     ELSE "rejected", why |-> ""]
            /\ UNCHANGED <<stage, goal, interrupted>>
    /\ target' = <<>>
    /\ UNCHANGED <<node, tcp, start, scales, plan>>

(* ensure_move_group: a MoveGroup that was not there at initialize() may   *)
(* be there now; the manipulability guard stays as it was.  Then the scene *)
(* and the joint states, at most 200 ms old, which are the start state.    *)
Prepare ==
    /\ stage = "prepare"
    /\ \E found \in BOOLEAN : moveGroup' = (moveGroup \/ found)
    /\ \/ Fail("not ready")
       \/ /\ moveGroup'
          /\ sceneLoaded
          /\ start' = tcp
          /\ scales' = [vel |-> Resolved(goal.vel), acc |-> Resolved(goal.acc)]
          /\ Goto("setup")
          /\ UNCHANGED <<goal, target, plan, report>>
    /\ UNCHANGED <<manipulability, sceneLoaded, goals, interrupted, tcp>>

(* plan_for_primitive, up to the branches.                                 *)
PlanningSetup ==
    /\ stage = "setup"
    /\ IF interrupted THEN Cancel
       ELSE IF goal.prim \notin {"MOVE_JOINT", "BLENDED_SEQUENCE"}
                  /\ PlannerOf(goal) = ""
       THEN Fail("no planner")
       ELSE /\ Goto(CASE goal.prim = "MOVE_JOINT" -> "joint"
                      [] goal.prim = "BLENDED_SEQUENCE" -> "blendSend"
                      [] goal.prim = "MOVE_REL" -> "resolve"
                      [] PoseRequired(goal) -> "pose"
                      [] OTHER -> "preplan")
            /\ Keep
            /\ UNCHANGED <<start, target, plan>>
    /\ Quiet /\ UNCHANGED tcp

(* MOVE_JOINT: index, branch, plan.  Nothing is guarded or asked again     *)
(* before the time parameterisation.                                       *)
PlanJoint ==
    /\ stage = "joint"
    /\ \/ Fail("planning")
       \/ interrupted /\ Cancel
       \/ /\ \E p \in Places :
                plan' = [start |-> start, end |-> p, fraction |-> NotApplicable]
          /\ Goto("timing")
          /\ Keep
          /\ UNCHANGED <<start, target>>
    /\ Quiet /\ UNCHANGED tcp

StepPlanner(s) == IF s.planner = "" THEN Route(s.prim) ELSE s.planner

StepsOk(g) ==
    /\ Len(g.steps) >= 2
    /\ g.steps[Len(g.steps)].blend = 0
    /\ \A i \in 1 .. Len(g.steps) :
          LET s == g.steps[i] IN
          /\ s.prim \in {"LIN", "PTP"}
          /\ s.blend >= 0
          /\ s.prim = "LIN" => StepPlanner(s) = "PILZ_LIN"

(* The only look at an interrupt is the one before the request.            *)
SendSequence ==
    /\ stage = "blendSend"
    /\ \/ Fail("sequence")
       \/ /\ StepsOk(goal)
          /\ IF interrupted THEN Cancel
             ELSE /\ Goto("blendResult")
                  /\ Keep
                  /\ UNCHANGED <<start, target, plan>>
    /\ Quiet /\ UNCHANGED tcp

(* The merged trajectory is guarded, and timed with the scales of the goal *)
(* whatever its steps asked for.                                           *)
SequenceResult ==
    /\ stage = "blendResult"
    /\ \/ Fail("sequence")
       \/ /\ plan' = [start |-> start, end |-> goal.steps[Len(goal.steps)].target,
                      fraction |-> 100]
          /\ Goto("timing")
          /\ Keep
          /\ UNCHANGED <<start, target>>
    /\ Quiet /\ UNCHANGED tcp

(* MOVE_REL counts from where the tool is now, not from the start state.   *)
ResolveMoveRel ==
    /\ stage = "resolve"
    /\ LET there == Shifted(tcp, goal.delta) IN
       \/ Fail("pose unavailable")
       \/ ~DeltasOk(goal) /\ Fail("deltas")
       \/ /\ DeltasOk(goal)
          /\ ~TargetInBounds(there)
          /\ End("aborted", "out of bounds")
          /\ target' = there
       \/ /\ DeltasOk(goal)
          /\ TargetInBounds(there)
          /\ target' = there
          /\ Goto("pose")
          /\ Keep
          /\ UNCHANGED <<start, plan>>
    /\ Quiet /\ UNCHANGED tcp

(* Orientation, seed, IK, and for a PTP the branch of its solution.        *)
ResolvePose ==
    /\ stage = "pose"
    /\ \/ Fail("pose")
       \/ /\ target' = (IF goal.prim = "MOVE_REL" THEN target ELSE goal.target)
          /\ Goto("preplan")
          /\ Keep
          /\ UNCHANGED <<start, plan>>
    /\ Quiet /\ UNCHANGED tcp

PrePlan ==
    /\ stage = "preplan"
    /\ IF interrupted THEN Cancel
       ELSE Goto("plan") /\ Keep /\ UNCHANGED <<start, target, plan>>
    /\ Quiet /\ UNCHANGED tcp

Planned(end, fraction) ==
    /\ plan' = [start |-> start, end |-> end, fraction |-> fraction]
    /\ Goto("guard")
    /\ Keep
    /\ UNCHANGED start

PlanCirc ==
    /\ goal.waypoints # <<>>
    /\ PlannerOf(goal) = "PILZ_CIRC"
    /\ Planned(goal.target, 100)
    /\ UNCHANGED target

(* No interrupt is looked at while computeCartesianPath runs.              *)
PlanCartesianPath ==
    /\ goal.waypoints # <<>>
    /\ \E f \in Fractions : Planned(StopsAt(start, goal.waypoints, f), f)
    /\ UNCHANGED target

PlanPtp ==
    /\ IF goal.joints THEN \E p \in Places : Planned(p, NotApplicable)
       ELSE Planned(target, NotApplicable)
    /\ UNCHANGED target

(* The plan succeeds, or the Cartesian path is tried.                      *)
PlanLin ==
    /\ PlannerOf(goal) = "PILZ_LIN"
    /\ \/ Planned(target, 100)
       \/ Goto("cartesian") /\ Keep /\ UNCHANGED <<start, plan>>
    /\ UNCHANGED target

Plan ==
    /\ stage = "plan"
    /\ LET prim == Effective(goal) IN
       \/ Fail("planning")
       \/ interrupted /\ prim # "CARTESIAN_PATH" /\ Cancel
       \/ prim = "CIRC" /\ PlanCirc
       \/ prim = "CARTESIAN_PATH" /\ PlanCartesianPath
       \/ prim = "HOME" /\ Planned(Home, NotApplicable) /\ UNCHANGED target
       \/ prim = "PTP" /\ PlanPtp
       \/ prim \in {"LIN", "MOVE_REL"} /\ PlanLin
    /\ Quiet /\ UNCHANGED tcp

MinimumCartesianFraction == 90

(* computeCartesianPath, by the pose that is read now to the target.       *)
CartesianFallback ==
    /\ stage = "cartesian"
    /\ \/ Fail("cartesian path")
       \/ \E f \in Fractions :
             /\ plan' = [start |-> start, fraction |-> f,
                         end |-> StopsAt(start, <<tcp, target>>, f)]
             /\ Goto(IF f < MinimumCartesianFraction THEN "ptp" ELSE "guard")
             /\ Keep
             /\ UNCHANGED <<start, target>>
    /\ Quiet /\ UNCHANGED tcp

(* A PTP to the target; without it the partial path remains.               *)
PtpFallback ==
    /\ stage = "ptp"
    /\ \/ interrupted /\ Cancel
       \/ Planned(target, NotApplicable) /\ UNCHANGED target
       \/ Goto("guard") /\ Keep /\ UNCHANGED <<start, target, plan>>
    /\ Quiet /\ UNCHANGED tcp

(* The joint position guard on the whole plan, then the post_plan look.    *)
Guard ==
    /\ stage = "guard"
    /\ \/ Fail("joint position guard")
       \/ interrupted /\ Cancel
       \/ /\ ~interrupted
          /\ Goto("timing")
          /\ Keep
          /\ UNCHANGED <<start, target, plan>>
    /\ Quiet /\ UNCHANGED tcp

(* Ruckig or TOTG; a single point at the start state is done at once.      *)
PostProcess ==
    /\ stage = "timing"
    /\ \/ Fail("time parameterization")
       \/ plan.end = start /\ End("succeeded", "no-op") /\ UNCHANGED target
       \/ Goto("dispatch") /\ Keep /\ UNCHANGED <<start, target, plan>>
    /\ Quiet /\ UNCHANGED tcp

(* minimum_cartesian_fraction_for_primitive                                *)
MinimumFraction(prim) ==
    CASE prim = "CARTESIAN_PATH" -> 95
      [] prim = "MOVE_REL" -> 70
      [] OTHER -> 90

(* The part of the quality gate that looks at the fraction.                *)
FractionOk ==
    \/ plan.fraction = NotApplicable
    \/ plan.fraction >= MinimumFraction(Effective(goal))

(* Mutant: hw_adapter runs a trajectory from wherever the robot is.        *)
AtStart_Anywhere == TRUE

(* evaluate_start_state_gate of hw_adapter, asked for with every dispatch. *)
AtStart == tcp = plan.start

(* The gates, the last look at an interrupt, hw_adapter.  A run that       *)
(* breaks off leaves the robot anywhere.                                   *)
Dispatch ==
    /\ stage = "dispatch"
    /\ \/ /\ Fail("refused")
          /\ UNCHANGED tcp
       \/ /\ interrupted
          /\ Cancel
          /\ UNCHANGED tcp
       \/ /\ FractionOk /\ ~interrupted /\ AtStart
          /\ \/ /\ tcp' = plan.end
                /\ End("succeeded", "")
                /\ UNCHANGED target
             \/ /\ tcp' \in Places
                /\ Fail("execution")
    /\ Quiet

WorkerStep ==
    \/ Prepare \/ PlanningSetup \/ PlanJoint \/ SendSequence \/ SequenceResult
    \/ ResolveMoveRel \/ ResolvePose \/ PrePlan \/ Plan \/ CartesianFallback
    \/ PtpFallback \/ Guard \/ PostProcess \/ Dispatch

-----------------------------------------------------------------------------
(* Around the worker.                                                      *)

Interrupt ==
    /\ stage # "idle"
    /\ interrupted' = TRUE
    /\ UNCHANGED <<node, tcp, goals, worker>>

(* External: the jog pendant, or a hand on the teach pendant.              *)
Jog ==
    /\ tcp' \in Places
    /\ UNCHANGED <<node, goals, interrupted, worker>>
=============================================================================
