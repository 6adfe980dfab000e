----------------------- MODULE MotionCommands_proofs ------------------------
(***************************************************************************)
(* What is proved of a command on its way to the arm, for every set of     *)
(* commands, places and fractions: the gate and motion_core judge alike,   *)
(* the arm stays in the envelope and a straight motion arrives where it    *)
(* was asked to.  The invariant follows the goal through the stages of the *)
(* worker: what the gate knew of it, which primitives come by a stage,     *)
(* whether the start state is still true, where the target came from and   *)
(* what the plan has of it.                                                *)
(***************************************************************************)
EXTENDS MotionCommands, FiniteSetTheorems, TLAPS

-----------------------------------------------------------------------------
(* Points.                                                                 *)

(* What is a part of something lies between nothing and all of it.         *)
LEMMA PartOf ==
    ASSUME NEW d \in Int, NEW f \in 0 .. 100
    PROVE  IF d >= 0 THEN (d * f) \div 100 \in 0 .. d ELSE (d * f) \div 100 \in d .. 0
<1>1. CASE d >= 0
    <2>1. 0 <= d * f /\ d * f <= d * 100
        BY <1>1
    <2>2. d * f \in Int
        OBVIOUS
    <2> QED
        BY <1>1, <2>1, <2>2
<1>2. CASE d < 0
    <2>1. d * 100 <= d * f /\ d * f <= 0
        BY <1>2
    <2>2. d * f \in Int
        OBVIOUS
    <2> QED
        BY <1>2, <2>1, <2>2
<1> QED
    BY <1>1, <1>2

(* The waypoints that are done are fewer than all, and what is left of the *)
(* next is a percentage.                                                   *)
LEMMA PartOfFew ==
    ASSUME NEW n \in Nat \ {0}, NEW f \in 0 .. 99
    PROVE  (f * n) \div 100 \in 0 .. n - 1 /\ (f * n) % 100 \in 0 .. 99
<1>1. 0 <= f * n /\ f * n <= 99 * n
    OBVIOUS
<1>2. f * n \in Nat
    BY <1>1
<1> QED
    BY <1>1, <1>2

(* The envelope, coordinate by coordinate.                                 *)
LEMMA SafeBounds ==
    ASSUME NEW p, Safe(p)
    PROVE  /\ p[1] \in Int /\ -450 <= p[1] /\ p[1] <= 450
           /\ p[2] \in Int /\ -160 <= p[2] /\ p[2] <= 520
           /\ p[3] \in Int /\ 100 <= p[3] /\ p[3] <= 650
<1>1. p[1] \in -450 .. 450
    BY DEF Safe
<1>2. p[2] \in -160 .. 520
    BY DEF Safe
<1>3. p[3] \in 100 .. 650
    BY DEF Safe
<1>4. p[1] \in Int /\ -450 <= p[1] /\ p[1] <= 450
    BY <1>1
<1>5. p[2] \in Int /\ -160 <= p[2] /\ p[2] <= 520
    BY <1>2
<1>6. p[3] \in Int /\ 100 <= p[3] /\ p[3] <= 650
    BY <1>3
<1> QED
    BY <1>4, <1>5, <1>6

(* The coordinate after f percent of the way from u to v.                  *)
Part(u, v, f) == u + ((v - u) * f) \div 100

(* A coordinate on the way lies between its ends.                          *)
LEMMA PartBetween ==
    ASSUME NEW u \in Int, NEW v \in Int, NEW f \in 0 .. 100
    PROVE  Part(u, v, f) \in Int
           /\ ((u <= Part(u, v, f) /\ Part(u, v, f) <= v) \/ (v <= Part(u, v, f) /\ Part(u, v, f) <= u))
<1>1. v - u \in Int
    OBVIOUS
<1> DEFINE part == ((v - u) * f) \div 100
<1>2. IF v - u >= 0 THEN part \in 0 .. (v - u) ELSE part \in (v - u) .. 0
    BY <1>1, PartOf
<1>3. Part(u, v, f) = u + part
    BY DEF Part
<1> HIDE DEF part
<1> QED
    BY <1>2, <1>3

(* A point whose coordinates are in the ranges of the envelope is safe.    *)
LEMMA SafeFrom ==
    ASSUME NEW p, p[1] \in -450 .. 450, p[2] \in -160 .. 520, p[3] \in 100 .. 650
    PROVE  Safe(p)
    BY DEF Safe

(* Between two points of the envelope is the envelope.                     *)
LEMMA AlongInside ==
    ASSUME NEW p, NEW q, Safe(p), Safe(q), NEW f \in 0 .. 100
    PROVE  Safe(Along(p, q, f))
<1>1. /\ Along(p, q, f)[1] = Part(p[1], q[1], f)
      /\ Along(p, q, f)[2] = Part(p[2], q[2], f)
      /\ Along(p, q, f)[3] = Part(p[3], q[3], f)
    BY DEF Along, Part
<1>2. Part(p[1], q[1], f) \in -450 .. 450
    <2>1. ASSUME NEW u \in Int, NEW v \in Int,
                 -450 <= u /\ u <= 450, -450 <= v /\ v <= 450
          PROVE  Part(u, v, f) \in -450 .. 450
        <3>1. Part(u, v, f) \in Int
            BY PartBetween
        <3>2. \/ u <= Part(u, v, f) /\ Part(u, v, f) <= v
              \/ v <= Part(u, v, f) /\ Part(u, v, f) <= u
            BY PartBetween
        <3> QED
            BY SMTT(20), <2>1, <3>1, <3>2
    <2>2. p[1] \in Int /\ -450 <= p[1] /\ p[1] <= 450
        BY SafeBounds
    <2>3. q[1] \in Int /\ -450 <= q[1] /\ q[1] <= 450
        BY SafeBounds
    <2> QED
        BY <2>1, <2>2, <2>3
<1>3. Part(p[2], q[2], f) \in -160 .. 520
    <2>1. ASSUME NEW u \in Int, NEW v \in Int,
                 -160 <= u /\ u <= 520, -160 <= v /\ v <= 520
          PROVE  Part(u, v, f) \in -160 .. 520
        <3>1. Part(u, v, f) \in Int
            BY PartBetween
        <3>2. \/ u <= Part(u, v, f) /\ Part(u, v, f) <= v
              \/ v <= Part(u, v, f) /\ Part(u, v, f) <= u
            BY PartBetween
        <3> QED
            BY SMTT(20), <2>1, <3>1, <3>2
    <2>2. p[2] \in Int /\ -160 <= p[2] /\ p[2] <= 520
        BY SafeBounds
    <2>3. q[2] \in Int /\ -160 <= q[2] /\ q[2] <= 520
        BY SafeBounds
    <2> QED
        BY <2>1, <2>2, <2>3
<1>4. Part(p[3], q[3], f) \in 100 .. 650
    <2>1. ASSUME NEW u \in Int, NEW v \in Int,
                 100 <= u /\ u <= 650, 100 <= v /\ v <= 650
          PROVE  Part(u, v, f) \in 100 .. 650
        <3>1. Part(u, v, f) \in Int
            BY PartBetween
        <3>2. \/ u <= Part(u, v, f) /\ Part(u, v, f) <= v
              \/ v <= Part(u, v, f) /\ Part(u, v, f) <= u
            BY PartBetween
        <3> QED
            BY SMTT(20), <2>1, <3>1, <3>2
    <2>2. p[3] \in Int /\ 100 <= p[3] /\ p[3] <= 650
        BY SafeBounds
    <2>3. q[3] \in Int /\ 100 <= q[3] /\ q[3] <= 650
        BY SafeBounds
    <2> QED
        BY <2>1, <2>2, <2>3
<1>5. Along(p, q, f)[1] \in -450 .. 450
    BY <1>1, <1>2, Zenon
<1>6. Along(p, q, f)[2] \in -160 .. 520
    BY <1>1, <1>3, Zenon
<1>7. Along(p, q, f)[3] \in 100 .. 650
    BY <1>1, <1>4, Zenon
<1> QED
    BY <1>5, <1>6, <1>7, SafeFrom, Zenon

(* So a Cartesian path that stays behind ends in the envelope that its     *)
(* waypoints and its start lie in.                                         *)
LEMMA StopsInside ==
    ASSUME NEW p, NEW T, NEW w \in Seq(T), NEW f \in 0 .. 100, Safe(p), Len(w) > 0,
           \A i \in 1 .. Len(w) : Safe(w[i])
    PROVE  Safe(StopsAt(p, w, f))
<1> DEFINE path == <<p>> \o w
<1>1. Len(w) \in Nat \ {0} /\ Len(path) = Len(w) + 1 /\ path[1] = p
      /\ \A i \in 1 .. Len(w) : path[i + 1] = w[i]
    <2>1. <<p>> \in Seq(T \cup {p}) /\ w \in Seq(T \cup {p}) /\ Len(<<p>>) = 1
        OBVIOUS
    <2> QED
        BY <2>1
<1>2. \A i \in 1 .. Len(w) + 1 : Safe(path[i])
    <2> TAKE i \in 1 .. Len(w) + 1
    <2>1. CASE i = 1
        BY <1>1, <2>1
    <2>2. CASE i # 1
        <3>1. i - 1 \in 1 .. Len(w) /\ (i - 1) + 1 = i
            BY <1>1, <2>2
        <3> QED
            BY <1>1, <3>1
    <2> QED
        BY <2>1, <2>2
<1> HIDE DEF path
<1>3. CASE f = 100
    <2>1. StopsAt(p, w, f) = path[Len(path)]
        BY <1>3 DEF StopsAt, path
    <2> QED
        BY <1>1, <1>2, <2>1
<1>4. CASE f # 100
    <2> DEFINE done == (f * Len(w)) \div 100
    <2> DEFINE more == (f * Len(w)) % 100
    <2>1. StopsAt(p, w, f) = Along(path[done + 1], path[done + 2], more)
        BY <1>4 DEF StopsAt, path
    <2>2. done \in 0 .. Len(w) - 1 /\ more \in 0 .. 99
        <3>1. f \in 0 .. 99
            BY <1>4
        <3> QED
            BY <1>1, <3>1, PartOfFew
    <2> HIDE DEF done, more
    <2>3. Safe(path[done + 1]) /\ Safe(path[done + 2]) /\ more \in 0 .. 100
        BY <1>1, <1>2, <2>2
    <2> QED
        BY <2>1, <2>3, AlongInside
<1> QED
    BY <1>3, <1>4

-----------------------------------------------------------------------------
(* What the gate lets through.                                             *)

(* A command as the gate approved it, whatever became of the robot since.  *)
Sound(c) ==
    /\ Gate!ValidParameters(c)
    /\ c.prim = "MOVE_REL" => Gate!ValidDeltas(c)
    /\ Gate!PoseChecked(c) => Gate!check_pose(Gate!RequestTarget(c))
    /\ Gate!ValidWaypoints(c)
    /\ c.prim = "BLENDED_SEQUENCE" => Gate!ValidSteps(c)

(* What the assumptions give of the commands and of the planner.           *)
LEMMA MotionBounds ==
    /\ MaxGoals \in Nat /\ Fractions \subseteq 0 .. 100
    /\ Commands \subseteq CommandShape
    /\ \A c \in Commands : c.prim \notin {"GET_POSE", "FACTORY_TASK_RUNTIME"}
    BY MotionAssumption DEF PlanningAssumption

(* check_pose with the rules of the file keeps a point in the envelope.    *)
LEMMA CheckedIsSafe ==
    ASSUME NEW p \in [1 .. 3 -> Int], Gate!check_pose(p), rules = "loaded"
    PROVE  Safe(p)
<1>1. \A a \in 1 .. 3 : Gate!WorkspaceBounds[a][1] <= p[a] /\ p[a] <= Gate!WorkspaceBounds[a][2]
    BY DEF Gate!check_pose, Gate!Inside
<1>2. Gate!WorkspaceBounds = <<<<-450, 450>>, <<-160, 520>>, <<100, 650>>>>
    BY DEF Gate!WorkspaceBounds, Gate!Box
<1>3. p[1] \in Int /\ p[2] \in Int /\ p[3] \in Int
    OBVIOUS
<1>4. -450 <= p[1] /\ p[1] <= 450
    BY <1>1, <1>2
<1>5. -160 <= p[2] /\ p[2] <= 520
    BY <1>1, <1>2
<1>6. 100 <= p[3] /\ p[3] <= 650
    BY <1>1, <1>2
<1>7. p[1] \in -450 .. 450
    BY <1>3, <1>4
<1>8. p[2] \in -160 .. 520
    BY <1>3, <1>5
<1>9. p[3] \in 100 .. 650
    BY <1>3, <1>6
<1> QED
    BY SMTT(20), <1>7, <1>8, <1>9 DEF Safe

(* A goal as the worker gets it of such a command.                         *)
MotionPosed(g) == g.prim \in {"LIN", "CIRC"} \/ (g.prim = "PTP" /\ ~g.joints)
Pathed(g) == g.prim \in {"CIRC", "CARTESIAN_PATH"}

GoodGoal(g) ==
    /\ g # NoGoal
    /\ g.vel \in Int /\ g.acc \in Int /\ g.delta \in [1 .. 3 -> Int]
    /\ g.waypoints \in Seq(Points3)
    /\ rules = "loaded" =>
          /\ MotionPosed(g) => Safe(g.target)
          /\ Pathed(g) => \A i \in 1 .. Len(g.waypoints) : Safe(g.waypoints[i])
          /\ g.prim = "BLENDED_SEQUENCE" =>
                Len(g.steps) \in Nat /\ Len(g.steps) >= 2 /\ \A i \in 1 .. Len(g.steps) : Safe(g.steps[i].target)

(* A goal made of a sound command is a good one, and handle_goal takes it. *)
LEMMA SoundGoals ==
    ASSUME NEW c \in Commands, Sound(c)
    PROVE  GoodGoal(GoalOf(c)) /\ AcceptsGoal(GoalOf(c))
<1> DEFINE g == GoalOf(c)
<1>1. /\ c \in CommandShape /\ c.vel \in Int /\ c.acc \in Int /\ c.delta \in Points3
      /\ c.target \in Points3 /\ c.waypoints \in Seq(Points3)
      /\ c.prim \notin {"GET_POSE", "FACTORY_TASK_RUNTIME"}
      /\ \A i \in 1 .. Len(c.steps) : c.steps[i].target \in Points3
    <2>1. c \in CommandShape
        BY MotionBounds
    <2>2. c.steps \in Seq([prim : STRING, blend : Int, vel : Int, acc : Int,
                           planner : STRING, target : Points3])
        BY <2>1 DEF CommandShape
    <2>3. \A i \in 1 .. Len(c.steps) : c.steps[i].target \in Points3
        <3> TAKE i \in 1 .. Len(c.steps)
        <3>1. c.steps[i] \in [prim : STRING, blend : Int, vel : Int, acc : Int,
                              planner : STRING, target : Points3]
            <4> DEFINE R == [prim : STRING, blend : Int, vel : Int, acc : Int,
                             planner : STRING, target : Points3]
            <4> HIDE DEF R
            <4>1. \A s \in Seq(R) : \A k \in 1 .. Len(s) : s[k] \in R
                OBVIOUS
            <4>2. c.steps \in Seq(R)
                BY <2>2 DEF R
            <4>3. c.steps[i] \in R
                BY <4>1, <4>2
            <4> QED
                BY <4>3 DEF R
        <3> QED
            BY <3>1
    <2> QED
        BY <2>1, <2>3, MotionBounds DEF CommandShape
<1>2. /\ g.prim = c.prim /\ g.vel = OrZero(c.vel) /\ g.acc = OrZero(c.acc)
      /\ g.delta = (IF c.delta = Gate!Malformed THEN Gate!Origin ELSE c.delta)
      /\ g.joints = c.joints /\ g.target = Gate!RequestTarget(c)
      /\ g.waypoints = c.waypoints /\ g.steps = c.steps
    BY DEF GoalOf
<1>3. g # NoGoal
    <2>1. "vel" \in DOMAIN g /\ "vel" \notin DOMAIN NoGoal
        BY DEF GoalOf, NoGoal
    <2> QED
        BY <2>1
<1> HIDE DEF g
<1>4. g.vel \in Int /\ g.acc \in Int
    BY <1>1, <1>2 DEF OrZero
<1>5. g.delta \in [1 .. 3 -> Int]
    BY <1>1, <1>2 DEF Points3, Gate!Origin, Gate!Malformed
<1>6. Gate!RequestTarget(c) \in [1 .. 3 -> Int]
    <2>1. Gate!Origin \in [1 .. 3 -> Int]
        BY DEF Gate!Origin
    <2>2. c.target # Gate!Malformed => c.target \in [1 .. 3 -> Int]
        BY <1>1 DEF Points3
    <2>3. c.waypoints # <<>> => c.waypoints[Len(c.waypoints)] \in Points3
        BY <1>1
    <2> QED
        BY <2>1, <2>2, <2>3 DEF Gate!RequestTarget, Points3
<1>7. ASSUME NEW p \in Points3, Gate!CheckedPoint(p), rules = "loaded" PROVE Safe(p)
    <2>1. p \in [1 .. 3 -> Int] /\ Gate!check_pose(p)
        BY <1>7 DEF Gate!CheckedPoint, Points3
    <2> QED
        BY <1>7, <2>1, CheckedIsSafe
<1>8. ASSUME rules = "loaded", MotionPosed(g) PROVE Safe(g.target)
    <2>1. Gate!PoseChecked(c)
        BY <1>2, <1>8 DEF MotionPosed, Gate!PoseChecked, Gate!PoseCheckSkipped
    <2> QED
        BY <1>2, <1>6, <1>8, <2>1, CheckedIsSafe DEF Sound
<1>9. ASSUME rules = "loaded", Pathed(g), NEW i \in 1 .. Len(g.waypoints) PROVE Safe(g.waypoints[i])
    <2>1. Gate!CheckedPoint(c.waypoints[i]) /\ c.waypoints[i] \in Points3
        BY <1>1, <1>2, <1>9 DEF Pathed, Sound, Gate!ValidWaypoints
    <2> QED
        BY <1>2, <1>7, <1>9, <2>1
<1>10. ASSUME rules = "loaded", g.prim = "BLENDED_SEQUENCE"
       PROVE  Len(g.steps) \in Nat /\ Len(g.steps) >= 2 /\ \A i \in 1 .. Len(g.steps) : Safe(g.steps[i].target)
    <2>1. Len(c.steps) >= 2 /\ \A i \in 1 .. Len(c.steps) : Gate!CheckedPoint(c.steps[i].target)
        BY <1>2, <1>10 DEF Sound, Gate!ValidSteps, Gate!ValidStep
    <2> QED
        BY <1>1, <1>2, <1>7, <1>10, <2>1
<1>11. GoodGoal(g)
    BY <1>1, <1>2, <1>3, <1>4, <1>5, <1>8, <1>9, <1>10 DEF GoodGoal
<1>12. AcceptsGoal(g)
    <2>1. CASE c.prim \in Gate!VelocityBypass
        BY <1>1, <1>2, <2>1 DEF Gate!VelocityBypass, AcceptsGoal, NonMotionPrimitives
    <2>2. CASE c.prim \notin Gate!VelocityBypass
        <3>1. Gate!ScaleOk(c.vel, Gate!VelocityCapOf(c.prim)) /\ Gate!ScaleOk(c.acc, 60)
            BY <2>2 DEF Sound, Gate!ValidParameters, Gate!MaxAcceleration
        <3>2. Gate!VelocityCapOf(c.prim) \in {60, GoalCap(c.prim)} /\ GoalCap(c.prim) \in {60, 90}
            BY DEF Gate!VelocityCapOf, Gate!MaxMoveRelVelocity, Gate!MaxVelocity, GoalCap
        <3>3. WithinCap(g.vel, GoalCap(g.prim)) /\ WithinCap(g.acc, 60)
            BY <1>1, <1>2, <3>1, <3>2 DEF Gate!ScaleOk, OrZero, WithinCap, Gate!Absent,
               Gate!NaN, NaN
        <3> QED
            BY <3>3 DEF AcceptsGoal
    <2> QED
        BY <2>1, <2>2
<1> QED
    BY <1>11, <1>12 DEF g

-----------------------------------------------------------------------------
(* The inductive invariant.                                                *)

(* The types, and at whom the worker works.                                *)
Shape ==
    /\ simMode \in BOOLEAN /\ robotReady \in BOOLEAN /\ rules \in {"loaded", "missing"}
    /\ moveGroup \in BOOLEAN /\ sceneLoaded \in BOOLEAN
    /\ manipulability => moveGroup
    /\ goals \in 0 .. MaxGoals
    /\ interrupted \in BOOLEAN
    /\ client = {} \/ \E c \in Commands : client = {c} /\ Sound(c)

Working ==
    /\ stage \in Stages
    /\ stage = "idle" => goal = NoGoal
    /\ stage = "idle" <=> report.result # "running"
    /\ report.result \in {"none", "running", "succeeded", "aborted", "canceled"}
    /\ stage # "idle" => /\ GoodGoal(goal) /\ AcceptsGoal(goal)
                         /\ goal.prim \notin NonMotionPrimitives

(* Which primitives come by which stage.                                   *)
Straight == {"LIN", "MOVE_REL"}
Routed ==
    /\ stage = "joint" => goal.prim = "MOVE_JOINT"
    /\ stage \in {"blendSend", "blendResult"} => goal.prim = "BLENDED_SEQUENCE"
    /\ stage = "resolve" => goal.prim = "MOVE_REL"
    /\ stage \in {"cartesian", "ptp"} => goal.prim \in Straight

(* Until the plan is made, the robot is where its start state says, unless *)
(* it was jogged since.                                                    *)
Fresh == stage \in Planning /\ ~stirred => tcp = start

(* The target: by the distance from there, checked; or the pose asked for. *)
ToPose(g) == g.prim = "LIN" \/ (g.prim = "PTP" /\ ~g.joints)
Aimed ==
    /\ stage \in {"pose", "preplan", "plan", "cartesian", "ptp", "guard", "timing", "dispatch"}
          /\ goal.prim = "MOVE_REL" =>
            /\ TargetInBounds(target)
            /\ ~stirred => target = Shifted(start, goal.delta)
    /\ stage \in {"preplan", "plan", "cartesian", "ptp", "guard", "timing", "dispatch"}
          /\ ToPose(goal) => target = goal.target

(* What is known of the plan, from when it is made.                        *)
PlanOfGoal ==
    stage \in {"ptp", "guard", "timing", "dispatch"} =>
        /\ plan.start = start
        /\ goal.prim \in Straight /\ ~stirred =>
              \/ plan.end = target
              \/ /\ plan.fraction \in Fractions
                 /\ plan.end = StopsAt(start, <<start, target>>, plan.fraction)
        /\ goal.prim = "PTP" /\ ~goal.joints => plan.end = target
        /\ goal.prim = "CIRC" => plan.end = goal.target
        /\ goal.prim = "CARTESIAN_PATH" =>
              /\ goal.waypoints # <<>>
              /\ plan.fraction \in Fractions
              /\ plan.end = StopsAt(start, goal.waypoints, plan.fraction)
        /\ goal.prim = "BLENDED_SEQUENCE" =>
              plan.end = goal.steps[Len(goal.steps)].target

WInv == Working /\ SpeedCapped /\ Routed /\ Fresh /\ Aimed /\ PlanOfGoal

(* Whatever ends a goal leaves the worker clean.                           *)
LEMMA EndsClean ==
    ASSUME NEW why, NEW result \in {"succeeded", "aborted", "canceled"}, End(result, why)
    PROVE  WInv'
<1>1. stage' = "idle" /\ goal' = NoGoal /\ report'.result = result
    BY DEF End
<1>2. Working'
    BY <1>1 DEF Working, Stages
<1> QED
    BY <1>1, <1>2 DEF WInv, SpeedCapped, Routed, Fresh, Aimed, PlanOfGoal, Planning

(* A step that does not end the goal keeps what the goal is.               *)
GoesOn ==
    /\ stage # "idle" /\ stage' \in Stages \ {"idle", "prepare"}
    /\ goal' = goal /\ report' = report /\ rules' = rules

(* The goal stays a good one while it is worked on.                        *)
LEMMA GoalKept ==
    ASSUME Working, GoesOn
    PROVE  Working'
<1>1. GoodGoal(goal)
    BY DEF Working, GoesOn
<1>2. GoodGoal(goal)'
    BY <1>1 DEF GoesOn, GoodGoal, MotionPosed, Pathed
<1> QED
    BY <1>2 DEF Working, GoesOn

(* ... and its scales stay within the cap.                                 *)
LEMMA SpeedKept ==
    ASSUME SpeedCapped, GoesOn, stage # "prepare", scales' = scales
    PROVE  SpeedCapped'
    BY DEF SpeedCapped, GoesOn

(* Every step of the worker keeps its part of the invariant.               *)
LEMMA WorkerKeeps ==
    ASSUME WInv, WorkerStep, stirred' = stirred, rules' = rules
    PROVE  WInv'
<1> DEFINE Over == \E why : \E result \in {"succeeded", "aborted", "canceled"} : End(result, why)
<1>e. ASSUME Over PROVE WInv'
    BY <1>e, EndsClean
<1> HIDE DEF Over
<1>1. CASE Prepare
    <2>1. Over \/ (GoesOn /\ stage = "prepare")
        BY <1>1 DEF Over, Fail, Cancel, GoesOn, Stages, Prepare, Goto, Keep, Planned, Quiet
    <2> SUFFICES ASSUME GoesOn, ~Over, stage = "prepare" PROVE WInv'
        BY <2>1, <1>e
    <2>2. Working'
        BY GoalKept DEF WInv
    <2>3. SpeedCapped'
        <3>1. /\ goal.vel \in Int /\ goal.acc \in Int
              /\ WithinCap(goal.vel, GoalCap(goal.prim)) /\ WithinCap(goal.acc, 60)
            BY DEF WInv, Working, AcceptsGoal, GoodGoal
        <3>2. /\ scales'.vel = Resolved(goal.vel) /\ scales'.acc = Resolved(goal.acc)
              /\ goal' = goal
            <4>1. ~Fail("not ready")
                BY DEF Over, Fail
            <4>2. scales' = [vel |-> Resolved(goal.vel), acc |-> Resolved(goal.acc)]
                BY <1>1, <4>1 DEF Prepare
            <4> QED
                BY <4>2 DEF GoesOn
        <3>3. GoalCap(goal.prim) \in {60, 90}
            BY DEF GoalCap
        <3>4. /\ Resolved(goal.vel) \in 1 .. GoalCap(goal.prim)
              /\ Resolved(goal.acc) \in 1 .. 60
            BY <3>1, <3>3 DEF Resolved, WithinCap, NaN, DefaultScale
        <3> QED
            BY <3>2, <3>4 DEF SpeedCapped
    <2>4. Routed'
        BY <1>1 DEF WInv, Routed, GoesOn, Over, Fail, Cancel, Straight, Prepare, Goto, Keep,
           Planned, Quiet
    <2>5. Fresh'
        BY <1>1 DEF WInv, Fresh, Planning, Over, Fail, Cancel, Prepare, Goto, Keep, Planned, Quiet
    <2>6. Aimed'
        BY <1>1 DEF WInv, Aimed, GoesOn, Over, Fail, Cancel, Prepare, Goto, Keep, Planned, Quiet
    <2>7. PlanOfGoal'
        BY <1>1 DEF WInv, PlanOfGoal, GoesOn, Over, Fail, Cancel, Prepare, Goto, Keep,
           Planned, Quiet
    <2> QED
        BY <2>2, <2>3, <2>4, <2>5, <2>6, <2>7 DEF WInv
<1>2. CASE PlanningSetup
    <2>1. Over \/ (GoesOn /\ stage = "setup")
        BY <1>2 DEF Over, Fail, Cancel, GoesOn, Stages, PlanningSetup, Goto, Keep, Planned, Quiet
    <2> SUFFICES ASSUME GoesOn, ~Over, stage = "setup" PROVE WInv'
        BY <2>1, <1>e
    <2>2. Working'
        BY GoalKept DEF WInv
    <2>3. SpeedCapped'
        BY <1>2, SpeedKept DEF WInv, Over, Fail, Cancel, PlanningSetup, Goto, Keep, Planned, Quiet
    <2>4. Routed'
        BY <1>2 DEF WInv, Routed, GoesOn, Over, Fail, Cancel, Straight, PlanningSetup, Goto,
           Keep, Planned, Quiet
    <2>5. Fresh'
        BY <1>2 DEF WInv, Fresh, Planning, Over, Fail, Cancel, PlanningSetup, Goto, Keep,
           Planned, Quiet
    <2>6. Aimed'
        BY <1>2 DEF WInv, Aimed, GoesOn, Over, Fail, Cancel, PlanningSetup, Goto, Keep,
           Planned, Quiet, PoseRequired, Effective, ToPose
    <2>7. PlanOfGoal'
        BY <1>2 DEF WInv, PlanOfGoal, GoesOn, Over, Fail, Cancel, PlanningSetup, Goto, Keep,
           Planned, Quiet
    <2> QED
        BY <2>2, <2>3, <2>4, <2>5, <2>6, <2>7 DEF WInv
<1>3. CASE PlanJoint
    <2>1. Over \/ (GoesOn /\ stage = "joint")
        BY <1>3 DEF Over, Fail, Cancel, GoesOn, Stages, PlanJoint, Goto, Keep, Planned, Quiet
    <2> SUFFICES ASSUME GoesOn, ~Over, stage = "joint" PROVE WInv'
        BY <2>1, <1>e
    <2>2. Working'
        BY GoalKept DEF WInv
    <2>3. SpeedCapped'
        BY <1>3, SpeedKept DEF WInv, Over, Fail, Cancel, PlanJoint, Goto, Keep, Planned, Quiet
    <2>4. Routed'
        BY <1>3 DEF WInv, Routed, GoesOn, Over, Fail, Cancel, Straight, PlanJoint, Goto,
           Keep, Planned, Quiet
    <2>5. Fresh'
        BY <1>3 DEF WInv, Fresh, Planning, Over, Fail, Cancel, PlanJoint, Goto, Keep, Planned, Quiet
    <2>6. Aimed'
        BY <1>3 DEF WInv, Aimed, GoesOn, Over, Fail, Cancel, PlanJoint, Goto, Keep, Planned,
           Quiet, Routed, ToPose
    <2>7. PlanOfGoal'
        <3>1. goal.prim = "MOVE_JOINT" /\ goal' = goal
            BY <1>3 DEF WInv, Routed, GoesOn
        <3>2. plan'.start = start /\ start' = start
            <4>1. ~Fail("planning") /\ ~Cancel
                BY DEF Over, Fail, Cancel
            <4>2. PICK p \in Places :
                    plan' = [start |-> start, end |-> p, fraction |-> NotApplicable]
                BY <1>3, <4>1 DEF PlanJoint
            <4>3. start' = start
                BY <1>3, <4>1 DEF PlanJoint
            <4> QED
                BY <4>2, <4>3
        <3> QED
            BY <3>1, <3>2 DEF PlanOfGoal, Straight
    <2> QED
        BY <2>2, <2>3, <2>4, <2>5, <2>6, <2>7 DEF WInv
<1>4. CASE SendSequence
    <2>1. Over \/ (GoesOn /\ stage = "blendSend")
        BY <1>4 DEF Over, Fail, Cancel, GoesOn, Stages, SendSequence, Goto, Keep, Planned, Quiet
    <2> SUFFICES ASSUME GoesOn, ~Over, stage = "blendSend" PROVE WInv'
        BY <2>1, <1>e
    <2>2. Working'
        BY GoalKept DEF WInv
    <2>3. SpeedCapped'
        BY <1>4, SpeedKept DEF WInv, Over, Fail, Cancel, SendSequence, Goto, Keep, Planned, Quiet
    <2>4. Routed'
        BY <1>4 DEF WInv, Routed, GoesOn, Over, Fail, Cancel, Straight, SendSequence, Goto,
           Keep, Planned, Quiet
    <2>5. Fresh'
        BY <1>4 DEF WInv, Fresh, Planning, Over, Fail, Cancel, SendSequence, Goto, Keep,
           Planned, Quiet
    <2>6. Aimed'
        BY <1>4 DEF WInv, Aimed, GoesOn, Over, Fail, Cancel, SendSequence, Goto, Keep,
           Planned, Quiet
    <2>7. PlanOfGoal'
        BY <1>4 DEF WInv, PlanOfGoal, GoesOn, Over, Fail, Cancel, SendSequence, Goto, Keep,
           Planned, Quiet
    <2> QED
        BY <2>2, <2>3, <2>4, <2>5, <2>6, <2>7 DEF WInv
<1>5. CASE SequenceResult
    <2>1. Over \/ (GoesOn /\ stage = "blendResult")
        BY <1>5 DEF Over, Fail, Cancel, GoesOn, Stages, SequenceResult, Goto, Keep, Planned, Quiet
    <2> SUFFICES ASSUME GoesOn, ~Over, stage = "blendResult" PROVE WInv'
        BY <2>1, <1>e
    <2>2. Working'
        BY GoalKept DEF WInv
    <2>3. SpeedCapped'
        BY <1>5, SpeedKept DEF WInv, Over, Fail, Cancel, SequenceResult, Goto, Keep, Planned, Quiet
    <2>4. Routed'
        BY <1>5 DEF WInv, Routed, GoesOn, Over, Fail, Cancel, Straight, SequenceResult,
           Goto, Keep, Planned, Quiet
    <2>5. Fresh'
        BY <1>5 DEF WInv, Fresh, Planning, Over, Fail, Cancel, SequenceResult, Goto, Keep,
           Planned, Quiet
    <2>6. Aimed'
        BY <1>5 DEF WInv, Aimed, GoesOn, Over, Fail, Cancel, SequenceResult, Goto, Keep,
           Planned, Quiet, Routed, ToPose
    <2>7. PlanOfGoal'
        BY <1>5 DEF WInv, PlanOfGoal, GoesOn, Over, Fail, Cancel, SequenceResult, Goto,
           Keep, Planned, Quiet, Routed, Straight
    <2> QED
        BY <2>2, <2>3, <2>4, <2>5, <2>6, <2>7 DEF WInv
<1>6. CASE ResolveMoveRel
    <2>1. Over \/ (GoesOn /\ stage = "resolve")
        BY <1>6 DEF Over, Fail, Cancel, GoesOn, Stages, ResolveMoveRel, Goto, Keep, Planned, Quiet
    <2> SUFFICES ASSUME GoesOn, ~Over, stage = "resolve" PROVE WInv'
        BY <2>1, <1>e
    <2>2. Working'
        BY GoalKept DEF WInv
    <2>3. SpeedCapped'
        BY <1>6, SpeedKept DEF WInv, Over, Fail, Cancel, ResolveMoveRel, Goto, Keep, Planned, Quiet
    <2>4. Routed'
        BY <1>6 DEF WInv, Routed, GoesOn, Over, Fail, Cancel, Straight, ResolveMoveRel,
           Goto, Keep, Planned, Quiet
    <2>5. Fresh'
        BY <1>6 DEF WInv, Fresh, Planning, Over, Fail, Cancel, ResolveMoveRel, Goto, Keep,
           Planned, Quiet
    <2>6. Aimed'
        BY <1>6 DEF WInv, Aimed, GoesOn, Over, Fail, Cancel, ResolveMoveRel, Goto, Keep,
           Planned, Quiet, Routed, ToPose, Fresh, Planning
    <2>7. PlanOfGoal'
        BY <1>6 DEF WInv, PlanOfGoal, GoesOn, Over, Fail, Cancel, ResolveMoveRel, Goto,
           Keep, Planned, Quiet
    <2> QED
        BY <2>2, <2>3, <2>4, <2>5, <2>6, <2>7 DEF WInv
<1>7. CASE ResolvePose
    <2>1. Over \/ (GoesOn /\ stage = "pose")
        BY <1>7 DEF Over, Fail, Cancel, GoesOn, Stages, ResolvePose, Goto, Keep, Planned, Quiet
    <2> SUFFICES ASSUME GoesOn, ~Over, stage = "pose" PROVE WInv'
        BY <2>1, <1>e
    <2>2. Working'
        BY GoalKept DEF WInv
    <2>3. SpeedCapped'
        BY <1>7, SpeedKept DEF WInv, Over, Fail, Cancel, ResolvePose, Goto, Keep, Planned, Quiet
    <2>4. Routed'
        BY <1>7 DEF WInv, Routed, GoesOn, Over, Fail, Cancel, Straight, ResolvePose, Goto,
           Keep, Planned, Quiet
    <2>5. Fresh'
        BY <1>7 DEF WInv, Fresh, Planning, Over, Fail, Cancel, ResolvePose, Goto, Keep,
           Planned, Quiet
    <2>6. Aimed'
        BY <1>7 DEF WInv, Aimed, GoesOn, Over, Fail, Cancel, ResolvePose, Goto, Keep,
           Planned, Quiet, ToPose
    <2>7. PlanOfGoal'
        BY <1>7 DEF WInv, PlanOfGoal, GoesOn, Over, Fail, Cancel, ResolvePose, Goto, Keep,
           Planned, Quiet
    <2> QED
        BY <2>2, <2>3, <2>4, <2>5, <2>6, <2>7 DEF WInv
<1>8. CASE PrePlan
    <2>1. Over \/ (GoesOn /\ stage = "preplan")
        BY <1>8 DEF Over, Fail, Cancel, GoesOn, Stages, PrePlan, Goto, Keep, Planned, Quiet
    <2> SUFFICES ASSUME GoesOn, ~Over, stage = "preplan" PROVE WInv'
        BY <2>1, <1>e
    <2>2. Working'
        BY GoalKept DEF WInv
    <2>3. SpeedCapped'
        BY <1>8, SpeedKept DEF WInv, Over, Fail, Cancel, PrePlan, Goto, Keep, Planned, Quiet
    <2>4. Routed'
        BY <1>8 DEF WInv, Routed, GoesOn, Over, Fail, Cancel, Straight, PrePlan, Goto, Keep,
           Planned, Quiet
    <2>5. Fresh'
        BY <1>8 DEF WInv, Fresh, Planning, Over, Fail, Cancel, PrePlan, Goto, Keep, Planned, Quiet
    <2>6. Aimed'
        BY <1>8 DEF WInv, Aimed, GoesOn, Over, Fail, Cancel, PrePlan, Goto, Keep, Planned, Quiet
    <2>7. PlanOfGoal'
        BY <1>8 DEF WInv, PlanOfGoal, GoesOn, Over, Fail, Cancel, PrePlan, Goto, Keep,
           Planned, Quiet
    <2> QED
        BY <2>2, <2>3, <2>4, <2>5, <2>6, <2>7 DEF WInv
<1>9. CASE Plan
    <2>1. Over \/ (GoesOn /\ stage = "plan")
        BY <1>9 DEF Over, Fail, Cancel, GoesOn, Stages, Plan, Goto, Keep, Planned, Quiet,
           PlanCirc, PlanCartesianPath, PlanPtp, PlanLin
    <2> SUFFICES ASSUME GoesOn, ~Over, stage = "plan" PROVE WInv'
        BY <2>1, <1>e
    <2>2. Working'
        BY GoalKept DEF WInv
    <2>3. SpeedCapped'
        BY <1>9, SpeedKept DEF WInv, Over, Fail, Cancel, Plan, Goto, Keep, Planned, Quiet,
           PlanCirc, PlanCartesianPath, PlanPtp, PlanLin
    <2>4. Routed'
        BY <1>9 DEF WInv, Routed, GoesOn, Over, Fail, Cancel, Straight, Plan, Goto, Keep,
           Planned, Quiet, PlanCirc, PlanCartesianPath, PlanPtp, PlanLin, Effective
    <2>5. Fresh'
        BY <1>9 DEF WInv, Fresh, Planning, Over, Fail, Cancel, Plan, Goto, Keep, Planned,
           Quiet, PlanCirc, PlanCartesianPath, PlanPtp, PlanLin
    <2>6. Aimed'
        BY <1>9 DEF WInv, Aimed, GoesOn, Over, Fail, Cancel, Plan, Goto, Keep, Planned,
           Quiet, PlanCirc, PlanCartesianPath, PlanPtp, PlanLin
    <2>7. PlanOfGoal'
        <3>1. goal' = goal /\ ~Over
            BY DEF GoesOn
        <3>2. CASE goal.prim = "CIRC" /\ PlanCirc
            BY <3>1, <3>2 DEF PlanCirc, Planned, PlanOfGoal, Straight
        <3>3. CASE goal.prim = "CARTESIAN_PATH" /\ PlanCartesianPath
            <4>1. PICK f \in Fractions : Planned(StopsAt(start, goal.waypoints, f), f)
                BY <3>3 DEF PlanCartesianPath
            <4>2. /\ plan'.start = start /\ start' = start /\ plan'.fraction = f
                  /\ plan'.end = StopsAt(start, goal.waypoints, f)
                BY <4>1 DEF Planned
            <4> QED
                BY <3>1, <3>3, <4>2 DEF PlanOfGoal, Straight, PlanCartesianPath
        <3>4. CASE goal.prim = "HOME" /\ Planned(Home, NotApplicable)
            BY <3>1, <3>4 DEF Planned, PlanOfGoal, Straight
        <3>5. CASE goal.prim \in {"PTP", "MOVE_JOINTS"} /\ PlanPtp
            <4>1. plan'.start = start /\ start' = start /\ target' = target
                BY <3>5 DEF PlanPtp, Planned
            <4>2. ~goal.joints => plan'.end = target
                BY <3>5 DEF PlanPtp, Planned
            <4> QED
                BY <3>1, <3>5, <4>1, <4>2 DEF PlanOfGoal, Straight
        <3>6. CASE goal.prim \in Straight /\ PlanLin
            <4>1. CASE Planned(target, 100)
                <5>1. /\ plan'.start = start /\ start' = start /\ target' = target
                      /\ plan'.end = target
                    BY <3>6, <4>1 DEF PlanLin, Planned
                <5> QED
                    BY <3>1, <3>6, <5>1 DEF PlanOfGoal, Straight
            <4>2. CASE Goto("cartesian")
                BY <4>2 DEF PlanOfGoal, Goto
            <4> QED
                BY <3>6, <4>1, <4>2 DEF PlanLin
        <3> QED
            BY <1>9, <3>1, <3>2, <3>3, <3>4, <3>5, <3>6
               DEF Plan, Over, Fail, Cancel, Effective, Straight
    <2> QED
        BY <2>2, <2>3, <2>4, <2>5, <2>6, <2>7 DEF WInv
<1>10. CASE CartesianFallback
    <2>1. Over \/ (GoesOn /\ stage = "cartesian")
        BY <1>10 DEF Over, Fail, Cancel, GoesOn, Stages, CartesianFallback, Goto, Keep,
           Planned, Quiet
    <2> SUFFICES ASSUME GoesOn, ~Over, stage = "cartesian" PROVE WInv'
        BY <2>1, <1>e
    <2>2. Working'
        BY GoalKept DEF WInv
    <2>3. SpeedCapped'
        BY <1>10, SpeedKept DEF WInv, Over, Fail, Cancel, CartesianFallback, Goto, Keep,
           Planned, Quiet
    <2>4. Routed'
        BY <1>10 DEF WInv, Routed, GoesOn, Over, Fail, Cancel, Straight, CartesianFallback,
           Goto, Keep, Planned, Quiet
    <2>5. Fresh'
        BY <1>10 DEF WInv, Fresh, Planning, Over, Fail, Cancel, CartesianFallback, Goto,
           Keep, Planned, Quiet
    <2>6. Aimed'
        BY <1>10 DEF WInv, Aimed, GoesOn, Over, Fail, Cancel, CartesianFallback, Goto, Keep,
           Planned, Quiet
    <2>7. PlanOfGoal'
        <3>1. goal' = goal /\ goal.prim \in Straight
            BY DEF GoesOn, WInv, Routed
        <3>2. PICK f \in Fractions :
                plan' = [start |-> start, fraction |-> f, end |-> StopsAt(start, <<tcp, target>>, f)]
            BY <1>10 DEF CartesianFallback, Over, Fail
        <3>3. start' = start /\ target' = target
            BY <1>10 DEF CartesianFallback, Over, Fail
        <3>4. /\ plan'.start = start /\ plan'.fraction = f
              /\ plan'.end = StopsAt(start, <<tcp, target>>, f)
            BY <3>2
        <3>5. ~stirred => tcp = start
            BY DEF WInv, Fresh, Planning
        <3> QED
            BY <3>1, <3>3, <3>4, <3>5 DEF PlanOfGoal, Straight
    <2> QED
        BY <2>2, <2>3, <2>4, <2>5, <2>6, <2>7 DEF WInv
<1>11. CASE PtpFallback
    <2>1. Over \/ (GoesOn /\ stage = "ptp")
        BY <1>11 DEF Over, Fail, Cancel, GoesOn, Stages, PtpFallback, Goto, Keep, Planned, Quiet
    <2> SUFFICES ASSUME GoesOn, ~Over, stage = "ptp" PROVE WInv'
        BY <2>1, <1>e
    <2>2. Working'
        BY GoalKept DEF WInv
    <2>3. SpeedCapped'
        BY <1>11, SpeedKept DEF WInv, Over, Fail, Cancel, PtpFallback, Goto, Keep, Planned, Quiet
    <2>4. Routed'
        BY <1>11 DEF WInv, Routed, GoesOn, Over, Fail, Cancel, Straight, PtpFallback, Goto,
           Keep, Planned, Quiet
    <2>5. Fresh'
        BY <1>11 DEF WInv, Fresh, Planning, Over, Fail, Cancel, PtpFallback, Goto, Keep,
           Planned, Quiet
    <2>6. Aimed'
        BY <1>11 DEF WInv, Aimed, GoesOn, Over, Fail, Cancel, PtpFallback, Goto, Keep,
           Planned, Quiet
    <2>7. PlanOfGoal'
        <3>1. goal' = goal /\ goal.prim \in Straight
            BY DEF GoesOn, WInv, Routed
        <3>2. start' = start /\ target' = target
            BY <1>11 DEF PtpFallback, Over, Cancel, Planned
        <3>3. CASE Planned(target, NotApplicable)
            <4>1. plan'.start = start /\ plan'.end = target
                BY <3>3 DEF Planned
            <4> QED
                BY <3>1, <3>2, <4>1 DEF PlanOfGoal, Straight
        <3>4. CASE plan' = plan
            BY <3>1, <3>2, <3>4 DEF WInv, PlanOfGoal, Straight
        <3> QED
            BY <1>11, <3>3, <3>4 DEF PtpFallback, Over, Cancel
    <2> QED
        BY <2>2, <2>3, <2>4, <2>5, <2>6, <2>7 DEF WInv
<1>12. CASE Guard
    <2>1. Over \/ (GoesOn /\ stage = "guard")
        BY <1>12 DEF Over, Fail, Cancel, GoesOn, Stages, Guard, Goto, Keep, Planned, Quiet
    <2> SUFFICES ASSUME GoesOn, ~Over, stage = "guard" PROVE WInv'
        BY <2>1, <1>e
    <2>2. Working'
        BY GoalKept DEF WInv
    <2>3. SpeedCapped'
        BY <1>12, SpeedKept DEF WInv, Over, Fail, Cancel, Guard, Goto, Keep, Planned, Quiet
    <2>4. Routed'
        BY <1>12 DEF WInv, Routed, GoesOn, Over, Fail, Cancel, Straight, Guard, Goto, Keep,
           Planned, Quiet
    <2>5. Fresh'
        BY <1>12 DEF WInv, Fresh, Planning, Over, Fail, Cancel, Guard, Goto, Keep, Planned, Quiet
    <2>6. Aimed'
        BY <1>12 DEF WInv, Aimed, GoesOn, Over, Fail, Cancel, Guard, Goto, Keep, Planned, Quiet
    <2>7. PlanOfGoal'
        BY <1>12 DEF WInv, PlanOfGoal, GoesOn, Over, Fail, Cancel, Guard, Goto, Keep, Planned, Quiet
    <2> QED
        BY <2>2, <2>3, <2>4, <2>5, <2>6, <2>7 DEF WInv
<1>13. CASE PostProcess
    <2>1. Over \/ (GoesOn /\ stage = "timing")
        BY <1>13 DEF Over, Fail, Cancel, GoesOn, Stages, PostProcess, Goto, Keep, Planned, Quiet
    <2> SUFFICES ASSUME GoesOn, ~Over, stage = "timing" PROVE WInv'
        BY <2>1, <1>e
    <2>2. Working'
        BY GoalKept DEF WInv
    <2>3. SpeedCapped'
        BY <1>13, SpeedKept DEF WInv, Over, Fail, Cancel, PostProcess, Goto, Keep, Planned, Quiet
    <2>4. Routed'
        BY <1>13 DEF WInv, Routed, GoesOn, Over, Fail, Cancel, Straight, PostProcess, Goto,
           Keep, Planned, Quiet
    <2>5. Fresh'
        BY <1>13 DEF WInv, Fresh, Planning, Over, Fail, Cancel, PostProcess, Goto, Keep,
           Planned, Quiet
    <2>6. Aimed'
        BY <1>13 DEF WInv, Aimed, GoesOn, Over, Fail, Cancel, PostProcess, Goto, Keep,
           Planned, Quiet
    <2>7. PlanOfGoal'
        BY <1>13 DEF WInv, PlanOfGoal, GoesOn, Over, Fail, Cancel, PostProcess, Goto, Keep,
           Planned, Quiet
    <2> QED
        BY <2>2, <2>3, <2>4, <2>5, <2>6, <2>7 DEF WInv
<1>14. CASE Dispatch
    BY <1>14, <1>e DEF Dispatch, Over, Fail, Cancel
<1> QED
    BY <1>1, <1>2, <1>3, <1>4, <1>5, <1>6, <1>7, <1>8, <1>9, <1>10, <1>11, <1>12, <1>13,
       <1>14 DEF WorkerStep

IInv == Shape /\ WInv

(* The invariant holds at first.                                           *)
LEMMA MotionInitially ==
    ASSUME Init
    PROVE  IInv
<1>1. Shape
    <2>1. /\ simMode \in BOOLEAN /\ robotReady \in BOOLEAN /\ rules \in {"loaded", "missing"}
          /\ client = {}
        BY DEF Init, Gate!Init, Gate!TypeOK, Gate!load_safety_rules
    <2>2. /\ moveGroup \in BOOLEAN /\ sceneLoaded \in BOOLEAN /\ interrupted \in BOOLEAN
        BY DEF Init, PlanningInit
    <2>3. manipulability => moveGroup
        BY DEF Init, PlanningInit
    <2>4. goals \in 0 .. MaxGoals
        <3>1. goals = 0
            BY DEF Init, PlanningInit
        <3> QED
            BY <3>1, MotionBounds
    <2> QED
        BY <2>1, <2>2, <2>3, <2>4 DEF Shape
<1>2. stage = "idle" /\ goal = NoGoal /\ report.result = "none"
    BY DEF Init, PlanningInit
<1>3. Working
    BY <1>2 DEF Working, Stages
<1> QED
    BY <1>1, <1>2, <1>3 DEF IInv, WInv, SpeedCapped, Routed, Fresh, Aimed, PlanOfGoal, Planning

(* The worker's part of the invariant is left as it was by a step that     *)
(* leaves the worker alone.                                                *)
LEMMA WorkerApart ==
    ASSUME WInv, UNCHANGED <<worker, tcp, rules, stirred>>
    PROVE  WInv'
<1> USE DEF worker
<1>1. Working'
    BY DEF WInv, Working, GoodGoal, MotionPosed, Pathed
<1>2. SpeedCapped' /\ Routed' /\ Fresh'
    BY DEF WInv, SpeedCapped, Routed, Fresh
<1>3. Aimed'
    BY DEF WInv, Aimed
<1>4. PlanOfGoal'
    BY DEF WInv, PlanOfGoal
<1> QED
    BY <1>1, <1>2, <1>3, <1>4 DEF WInv

(* What the gate approves is sound, whatever becomes of the robot.         *)
LEMMA ApprovedIsSound ==
    ASSUME NEW c \in Commands, Gate!Approves(c)
    PROVE  Sound(c)
    BY DEF Sound, Gate!Approves

(* A good goal that handle_goal takes starts the worker.                   *)
LEMMA GoalsStart ==
    ASSUME WInv, goals \in 0 .. MaxGoals, rules' = rules,
           NEW g, HandleGoal(g), GoodGoal(g), AcceptsGoal(g)
    PROVE  WInv' /\ goals' \in 0 .. MaxGoals
<1>1. goals < MaxGoals /\ goals' = goals + 1
    BY DEF HandleGoal
<1>a. goals' \in 0 .. MaxGoals
    BY <1>1, MotionBounds
<1>2. CASE g.prim \notin NonMotionPrimitives
    <2>1. /\ stage' = "prepare" /\ goal' = g /\ report'.result = "running"
        <3>1. /\ Goto("prepare") /\ goal' = g
              /\ report' = [result |-> "running", why |-> ""]
            BY <1>2 DEF HandleGoal
        <3> QED
            BY <3>1 DEF Goto
    <2>2. GoodGoal(g)'
        BY DEF GoodGoal, MotionPosed, Pathed
    <2>3. Working'
        BY <1>2, <2>1, <2>2 DEF Working, Stages
    <2> QED
        BY <1>a, <2>1, <2>3 DEF WInv, SpeedCapped, Routed, Fresh, Aimed, PlanOfGoal, Planning
<1>3. CASE g.prim \in NonMotionPrimitives
    <2>1. /\ stage' = "idle" /\ stage = "idle" /\ goal' = goal /\ report'.result = "succeeded"
        <3>1. /\ stage = "idle" /\ stage' = stage /\ goal' = goal
              /\ report' = [result |-> IF AcceptsGoal(g) THEN "succeeded" ELSE "rejected", why |-> ""]
            BY <1>3 DEF HandleGoal
        <3>2. report' = [result |-> "succeeded", why |-> ""]
            BY <3>1
        <3>3. report'.result = "succeeded"
            BY <3>2
        <3> QED
            BY <3>1, <3>3
    <2>2. Working'
        BY <2>1 DEF WInv, Working, Stages
    <2> QED
        BY <1>a, <2>1, <2>2 DEF WInv, SpeedCapped, Routed, Fresh, Aimed, PlanOfGoal, Planning
<1> QED
    BY <1>2, <1>3

(* The rules of the gate are read once.                                    *)
LEMMA SoundStays ==
    ASSUME rules' = rules, NEW c, Sound(c)
    PROVE  Sound(c)'
<1>1. \A p : Gate!check_pose(p)' = Gate!check_pose(p)
    BY DEF Gate!check_pose, Gate!WorkspaceBounds, Gate!ForbiddenZones
<1>2. \A p : Gate!CheckedPoint(p)' = Gate!CheckedPoint(p)
    BY <1>1 DEF Gate!CheckedPoint
<1>3. Gate!ValidParameters(c)'
    BY DEF Sound, Gate!ValidParameters, Gate!VelocityCapOf, Gate!MaxMoveRelVelocity
<1>4. Gate!PoseChecked(c) => Gate!check_pose(Gate!RequestTarget(c))'
    BY <1>1 DEF Sound
<1>5. Gate!ValidWaypoints(c)'
    BY <1>2 DEF Sound, Gate!ValidWaypoints
<1>6. c.prim = "BLENDED_SEQUENCE" => Gate!ValidSteps(c)'
    BY <1>2 DEF Sound, Gate!ValidSteps, Gate!ValidStep
<1> QED
    BY <1>3, <1>4, <1>5, <1>6 DEF Sound

(* Every step of the two halves keeps the invariant.                       *)
LEMMA MotionStep ==
    ASSUME IInv, [Next]_vars
    PROVE  IInv'
<1>0. Shape /\ WInv
    BY DEF IInv
<1> SUFFICES Shape' /\ WInv'
    BY DEF IInv
<1>1. CASE UNCHANGED commands
    <2>1. UNCHANGED <<worker, tcp, rules, stirred>>
        BY <1>1 DEF commands, motion, gate, worker
    <2>2. Shape'
        BY <1>0, <1>1, SoundStays DEF Shape, commands, motion, gate
    <2> QED
        BY <1>0, <2>1, <2>2, WorkerApart
<1>2. CASE GateStep
    <2>1. UNCHANGED <<worker, tcp, rules, stirred>>
        BY <1>2 DEF GateStep, motion, worker, Gate!status_callback, Gate!adapter_ready_callback
    <2>2. robotReady' \in BOOLEAN /\ simMode' = simMode
        BY <1>0, <1>2 DEF GateStep, Shape, Gate!status_callback,
           Gate!adapter_ready_callback, Gate!Clears
    <2>3. Shape'
        BY <1>0, <1>2, <2>1, <2>2, SoundStays DEF GateStep, Shape, motion
    <2> QED
        BY <1>0, <2>1, <2>3, WorkerApart
<1>3. ASSUME NEW c \in Commands, Validate(c) PROVE Shape' /\ WInv'
    <2>1. UNCHANGED <<worker, tcp, rules, stirred>>
        BY <1>3 DEF Validate, motion, gate, worker
    <2>2. Sound(c)
        BY <1>3, ApprovedIsSound DEF Validate
    <2>3. Sound(c)'
        BY <2>1, <2>2, SoundStays
    <2>4. Shape'
        BY <1>0, <1>3, <2>3 DEF Validate, motion, gate, Shape
    <2> QED
        BY <1>0, <2>1, <2>4, WorkerApart
<1>4. CASE Send
    <2>1. PICK c \in client : HandleGoal(GoalOf(c))
        BY <1>4 DEF Send
    <2>2. c \in Commands /\ Sound(c)
        BY <1>0, <2>1 DEF Shape
    <2>3. GoodGoal(GoalOf(c)) /\ AcceptsGoal(GoalOf(c))
        BY <2>2, SoundGoals
    <2>4. UNCHANGED gate /\ client' = {}
        BY <1>4 DEF Send
    <2>5. rules' = rules
        BY <2>4 DEF gate
    <2>6. WInv' /\ goals' \in 0 .. MaxGoals
        <3>1. goals \in 0 .. MaxGoals
            BY <1>0 DEF Shape
        <3> QED
            BY <1>0, <2>1, <2>3, <2>5, <3>1, GoalsStart
    <2>7. UNCHANGED node /\ interrupted' \in BOOLEAN
        BY <1>0, <2>1 DEF HandleGoal, Shape
    <2>8. Shape'
        BY <1>0, <2>4, <2>6, <2>7 DEF Shape, gate, node
    <2> QED
        BY <2>6, <2>8
<1>5. CASE WorkerStep /\ UNCHANGED <<gate, client, stirred>>
    <2>1. WInv'
        BY <1>0, <1>5, WorkerKeeps DEF gate
    <2>2. UNCHANGED <<goals, interrupted>> /\ moveGroup' \in BOOLEAN /\ sceneLoaded' = sceneLoaded
          /\ (moveGroup => moveGroup') /\ manipulability' = manipulability
        BY <1>0, <1>5 DEF WorkerStep, Prepare, PlanningSetup, PlanJoint, SendSequence,
           SequenceResult,
            ResolveMoveRel, ResolvePose, PrePlan, Plan, CartesianFallback, PtpFallback, Guard,
            PostProcess, Dispatch, Quiet, node, Shape
    <2>3. Shape'
        BY <1>0, <1>5, <2>2, SoundStays DEF Shape, gate
    <2> QED
        BY <2>1, <2>3
<1>6. CASE Interrupt /\ UNCHANGED <<gate, client, stirred>>
    <2>1. UNCHANGED <<worker, tcp, rules, stirred>>
        BY <1>6 DEF Interrupt, gate
    <2>2. Shape'
        BY <1>0, <1>6, SoundStays DEF Interrupt, Shape, gate, node
    <2> QED
        BY <1>0, <2>1, <2>2, WorkerApart
<1>7. CASE /\ Jog /\ stirred' = (stirred \/ stage \in Planning)
           /\ UNCHANGED <<gate, client>>
    <2>1. UNCHANGED worker /\ rules' = rules
        BY <1>7 DEF Jog, gate
    <2>2. Shape'
        BY <1>0, <1>7, SoundStays DEF Jog, Shape, gate, node
    <2>3. Working'
        BY <1>0, <2>1 DEF WInv, Working, GoodGoal, MotionPosed, Pathed, worker
    <2>4. SpeedCapped' /\ Routed'
        BY <1>0, <2>1 DEF WInv, SpeedCapped, Routed, worker
    <2>6. Fresh'
        BY <1>7, <2>1 DEF Fresh, worker
    <2>7. Aimed'
        BY <1>0, <1>7, <2>1 DEF WInv, Aimed, worker
    <2>8. PlanOfGoal'
        BY <1>0, <1>7, <2>1 DEF WInv, PlanOfGoal, worker
    <2> QED
        BY <2>2, <2>3, <2>4, <2>6, <2>7, <2>8 DEF WInv
<1> QED
    BY <1>1, <1>2, <1>3, <1>4, <1>5, <1>6, <1>7 DEF Next, vars, commands

(* The invariant holds in every behaviour.                                 *)
THEOREM MotionInvariant == Spec => []IInv
<1>1. Init => IInv
    BY MotionInitially
<1>2. IInv /\ [Next]_vars => IInv'
    BY MotionStep
<1> QED
    BY <1>1, <1>2, PTL DEF Spec

(* The gate and motion_core judge a command alike: handle_goal rejects no  *)
(* goal that _validate_callback_inner let through, and the worker plans    *)
(* with scales above zero and within the cap.                              *)
THEOREM GateAndPlannerAgree == Spec => []VerdictsAgree
<1>1. IInv => VerdictsAgree
    <2> SUFFICES ASSUME IInv PROVE VerdictsAgree
        OBVIOUS
    <2>1. client \subseteq Commands /\ Cardinality(client) <= 1
        <3>1. CASE client = {}
            BY <3>1, FS_EmptySet
        <3>2. ASSUME NEW c \in Commands, client = {c} PROVE client \subseteq Commands /\ Cardinality(client) <= 1
            <4>1. Cardinality({c}) = 1
                BY FS_Singleton
            <4> QED
                BY <3>2, <4>1
        <3> QED
            BY <3>1, <3>2 DEF IInv, Shape
    <2>2. stage = "idle" <=> goal = NoGoal
        BY DEF IInv, WInv, Working, GoodGoal
    <2>3. Gate!TypeOK
        BY DEF IInv, Shape, Gate!TypeOK, Gate!load_safety_rules
    <2>4. TypeOK
        BY <2>1, <2>2, <2>3 DEF TypeOK, IInv, Shape, WInv, Working
    <2>5. SpeedCapped /\ ApprovedIsAccepted
        BY DEF IInv, WInv, Working, ApprovedIsAccepted
    <2> QED
        BY <2>4, <2>5 DEF VerdictsAgree
<1> QED
    BY <1>1, MotionInvariant, PTL

(* Only hw_adapter's success moves the arm to the end of the plan, and it  *)
(* started where the arm was.                                              *)
LEMMA RanMeans ==
    ASSUME IInv, [Next]_vars, Ran
    PROVE  /\ stage = "dispatch" /\ FractionOk
           /\ tcp = start /\ plan.start = start /\ tcp' = plan.end
<1>1. /\ stage = "dispatch" /\ report.result = "running" /\ report'.result = "succeeded"
    BY DEF Ran, Finishes
<1>2. Dispatch
    <2>1. report' # report
        BY <1>1
    <2>2. ~UNCHANGED commands /\ ~UNCHANGED motion /\ ~UNCHANGED worker
        BY <2>1 DEF commands, motion, worker
    <2>3. ~GateStep /\ (\A c \in Commands : ~Validate(c))
        BY <2>2 DEF GateStep, Validate
    <2>4. ~Send
        BY <1>1 DEF Send, HandleGoal
    <2>5. ~Interrupt /\ ~Jog
        BY <2>2 DEF Interrupt, Jog
    <2>6. WorkerStep
        BY <2>2, <2>3, <2>4, <2>5 DEF Next, vars, commands
    <2> QED
        BY <1>1, <2>6 DEF WorkerStep, Prepare, PlanningSetup, PlanJoint, SendSequence,
           SequenceResult,
            ResolveMoveRel, ResolvePose, PrePlan, Plan, CartesianFallback, PtpFallback, Guard, PostProcess
<1>3. ~Fail("refused") /\ ~Cancel /\ ~Fail("execution")
    <2>1. ASSUME NEW why, NEW result, End(result, why) PROVE result = "succeeded"
        <3>1. report' = [result |-> result, why |-> why]
            BY <2>1 DEF End
        <3>2. report'.result = result
            BY <3>1
        <3> QED
            BY <1>1, <3>2
    <2>2. ~End("aborted", "refused") /\ ~End("canceled", "") /\ ~End("aborted", "execution")
        BY <2>1
    <2> QED
        BY <2>2 DEF Fail, Cancel
<1>4. FractionOk /\ tcp = plan.start /\ tcp' = plan.end
    BY <1>2, <1>3 DEF Dispatch, AtStart
<1>5. plan.start = start
    BY <1>1 DEF IInv, WInv, PlanOfGoal
<1> QED
    BY <1>1, <1>4, <1>5

(* The bounds of move_rel_validator are those of the envelope.             *)
LEMMA BoundedIsSafe ==
    ASSUME NEW p, p[1] \in Int, p[2] \in Int, p[3] \in Int, TargetInBounds(p)
    PROVE  Safe(p)
<1>1. \A a \in 1 .. 3 : MoveRelBounds[a][1] <= p[a] /\ p[a] <= MoveRelBounds[a][2]
    BY DEF TargetInBounds, InBox
<1>2. /\ MoveRelBounds[1][1] = -450 /\ MoveRelBounds[1][2] = 450
      /\ MoveRelBounds[2][1] = -160 /\ MoveRelBounds[2][2] = 520
      /\ MoveRelBounds[3][1] = 100 /\ MoveRelBounds[3][2] = 650
    BY DEF MoveRelBounds
<1>3. MoveRelBounds[1][1] <= p[1] /\ p[1] <= MoveRelBounds[1][2]
    BY <1>1
<1>4. MoveRelBounds[2][1] <= p[2] /\ p[2] <= MoveRelBounds[2][2]
    BY <1>1
<1>5. MoveRelBounds[3][1] <= p[3] /\ p[3] <= MoveRelBounds[3][2]
    BY <1>1
<1>6. -450 <= p[1] /\ p[1] <= 450
    BY <1>2, <1>3
<1>7. -160 <= p[2] /\ p[2] <= 520
    BY <1>2, <1>4
<1>8. 100 <= p[3] /\ p[3] <= 650
    BY <1>2, <1>5
<1>9. p[1] \in -450 .. 450 /\ p[2] \in -160 .. 520
    BY SMTT(20), <1>6, <1>7
<1>10. p[3] \in 100 .. 650
    BY SMTT(20), <1>8
<1> QED
    BY SMTT(20), <1>9, <1>10 DEF Safe

(* A plan of a sound command from inside the envelope ends in it.          *)
LEMMA MotionEndsSafe ==
    ASSUME IInv, stage = "dispatch", rules = "loaded", ~stirred, Safe(start), ~goal.joints,
           goal.prim \in {"LIN", "PTP", "CIRC", "MOVE_REL", "CARTESIAN_PATH", "BLENDED_SEQUENCE"}
    PROVE  Safe(plan.end)
<1>1. GoodGoal(goal) /\ PlanOfGoal /\ Aimed
    BY DEF IInv, WInv, Working
<1>2. CASE goal.prim = "CIRC"
    BY <1>1, <1>2 DEF PlanOfGoal, GoodGoal, MotionPosed
<1>3. CASE goal.prim = "PTP"
    BY <1>1, <1>3 DEF PlanOfGoal, Aimed, ToPose, GoodGoal, MotionPosed
<1>4. CASE goal.prim = "BLENDED_SEQUENCE"
    <2>1. plan.end = goal.steps[Len(goal.steps)].target
        BY <1>1, <1>4 DEF PlanOfGoal
    <2>2. Len(goal.steps) >= 2 /\ \A i \in 1 .. Len(goal.steps) : Safe(goal.steps[i].target)
        BY <1>1, <1>4 DEF GoodGoal
    <2>3. Len(goal.steps) \in 1 .. Len(goal.steps)
        BY <1>1, <1>4, <2>2 DEF GoodGoal
    <2> QED
        BY <2>1, <2>2, <2>3
<1>5. CASE goal.prim = "CARTESIAN_PATH"
    <2>1. /\ goal.waypoints # <<>> /\ plan.fraction \in 0 .. 100
          /\ plan.end = StopsAt(start, goal.waypoints, plan.fraction)
        BY <1>1, <1>5, MotionBounds DEF PlanOfGoal
    <2>2. /\ goal.waypoints \in Seq(Points3)
          /\ \A i \in 1 .. Len(goal.waypoints) : Safe(goal.waypoints[i])
        BY <1>1, <1>5 DEF GoodGoal, Pathed
    <2>3. Len(goal.waypoints) > 0
        BY <2>1, <2>2
    <2>4. Safe(StopsAt(start, goal.waypoints, plan.fraction))
        BY <2>1, <2>2, <2>3, StopsInside
    <2> QED
        BY <2>1, <2>4
<1>6. ASSUME goal.prim \in Straight, Safe(target) PROVE Safe(plan.end)
    <2>1. CASE plan.end = target
        BY <1>6, <2>1
    <2>2. CASE /\ plan.fraction \in Fractions
               /\ plan.end = StopsAt(start, <<start, target>>, plan.fraction)
        <3> DEFINE w == <<start, target>>
        <3>1. w \in Seq({start, target}) /\ Len(w) = 2 /\ w[1] = start /\ w[2] = target
            OBVIOUS
        <3>2. Len(w) > 0 /\ \A i \in 1 .. Len(w) : Safe(w[i])
            <4>1. \A i \in 1 .. 2 : w[i] = start \/ w[i] = target
                BY <3>1
            <4> QED
                BY <1>6, <3>1, <4>1
        <3>3. plan.fraction \in 0 .. 100
            BY <2>2, MotionBounds
        <3> HIDE DEF w
        <3>4. Safe(StopsAt(start, w, plan.fraction))
            BY <3>1, <3>2, <3>3, StopsInside
        <3> QED
            BY <2>2, <3>4 DEF w
    <2> QED
        BY <1>1, <1>6, <2>1, <2>2 DEF PlanOfGoal
<1>7. CASE goal.prim = "LIN"
    <2>1. Safe(target)
        BY <1>1, <1>7 DEF Aimed, ToPose, GoodGoal, MotionPosed
    <2> QED
        BY <1>6, <1>7, <2>1 DEF Straight
<1>8. CASE goal.prim = "MOVE_REL"
    <2>1. TargetInBounds(target) /\ target = Shifted(start, goal.delta)
        BY <1>1, <1>8 DEF Aimed
    <2>2. goal.delta \in [1 .. 3 -> Int]
        BY <1>1 DEF GoodGoal
    <2>3. start[1] \in Int /\ start[2] \in Int /\ start[3] \in Int
        BY SafeBounds
    <2>4. target[1] \in Int /\ target[2] \in Int /\ target[3] \in Int
        BY <2>1, <2>2, <2>3 DEF Shifted
    <2> QED
        BY <1>6, <1>8, <2>1, <2>4, BoundedIsSafe DEF Straight
<1> QED
    BY <1>2, <1>3, <1>4, <1>5, <1>7, <1>8

(* The arm stays in the envelope of safety_rules.yaml, at the end of every *)
(* motion to a pose or by a distance and at the points on the way, though  *)
(* the path may be cut short by computeCartesianPath or replaced by a PTP. *)
THEOREM ArmStaysInEnvelope == Spec => StaysInEnvelope
<1>1. ASSUME IInv, [Next]_vars, Ran, rules = "loaded", ~stirred, Safe(plan.start),
             goal.prim \in {"LIN", "PTP", "CIRC", "MOVE_REL", "CARTESIAN_PATH", "BLENDED_SEQUENCE"},
             ~goal.joints
      PROVE  Safe(tcp')
    BY <1>1, RanMeans, MotionEndsSafe
<1>2. ASSUME IInv, [Next]_vars, Ran, rules = "loaded"
      PROVE  /\ goal.prim \in {"CIRC", "CARTESIAN_PATH"} =>
                   \A i \in 1 .. Len(goal.waypoints) : Safe(goal.waypoints[i])
             /\ goal.prim = "BLENDED_SEQUENCE" =>
                   \A i \in 1 .. Len(goal.steps) : Safe(goal.steps[i].target)
    <2>1. GoodGoal(goal)
        BY <1>2, RanMeans DEF IInv, WInv, Working
    <2> QED
        BY <1>2, <2>1 DEF GoodGoal, Pathed
<1>3. IInv /\ [Next]_vars =>
        [Ran /\ rules = "loaded" /\ ~stirred /\ Safe(plan.start)
             /\ goal.prim \in {"LIN", "PTP", "CIRC", "MOVE_REL", "CARTESIAN_PATH",
                               "BLENDED_SEQUENCE"}
             /\ ~goal.joints
         => Safe(tcp')]_commands
    BY <1>1
<1>4. IInv /\ [Next]_vars =>
        [Ran /\ rules = "loaded" =>
            /\ goal.prim \in {"CIRC", "CARTESIAN_PATH"} =>
                  \A i \in 1 .. Len(goal.waypoints) : Safe(goal.waypoints[i])
            /\ goal.prim = "BLENDED_SEQUENCE" =>
                  \A i \in 1 .. Len(goal.steps) : Safe(goal.steps[i].target)]_commands
    BY <1>2
<1>5. Spec => EndsInEnvelope
    BY <1>3, MotionInvariant, PTL DEF Spec, EndsInEnvelope
<1>6. Spec => PassesInEnvelope
    BY <1>4, MotionInvariant, PTL DEF Spec, PassesInEnvelope
<1> QED
    BY <1>5, <1>6 DEF StaysInEnvelope

(* A straight motion that is run ends where it was asked to, or as near as *)
(* quality_gate.hpp asks of its primitive.                                 *)
THEOREM StraightArrives == Spec => ArrivesWhereAsked
<1>1. ASSUME IInv, [Next]_vars, Ran, ~stirred, goal.prim \in {"LIN", "MOVE_REL"}
      PROVE  tcp' \in LinearStops
    <2>1. /\ stage = "dispatch" /\ FractionOk /\ tcp = start /\ tcp' = plan.end
        BY <1>1, RanMeans
    <2>2. Asked = target
        BY <1>1, <2>1 DEF Asked, IInv, WInv, Aimed, ToPose
    <2>3. CASE plan.end = target
        BY <2>1, <2>2, <2>3 DEF LinearStops
    <2>4. CASE /\ plan.fraction \in Fractions
               /\ plan.end = StopsAt(start, <<start, target>>, plan.fraction)
        <3>1. plan.fraction # NotApplicable
            BY <2>4, MotionBounds DEF NotApplicable
        <3>2. plan.fraction >= Promised
            BY <1>1, <2>1, <3>1 DEF FractionOk, MinimumFraction, Effective, Promised
        <3> QED
            BY <2>1, <2>2, <2>4, <3>2 DEF LinearStops
    <2> QED
        BY <1>1, <2>1, <2>3, <2>4 DEF IInv, WInv, PlanOfGoal, Straight
<1>2. IInv /\ [Next]_vars =>
        [Ran /\ ~stirred /\ goal.prim \in {"LIN", "MOVE_REL"} => tcp' \in LinearStops]_commands
    BY <1>1
<1> QED
    BY <1>2, MotionInvariant, PTL DEF Spec, ArrivesWhereAsked

-----------------------------------------------------------------------------
(* The points of a plan.  Folds first: the community modules define them by*)
(* an iterator that CHOOSE picks, so each fold of the model is given the   *)
(* sequence of its results, and what holds of each result follows by       *)
(* induction over a set of numbers.                                        *)

(* Induction over the naturals, with a set for what is shown.              *)
LEMMA Induction ==
    ASSUME NEW Good, 0 \in Good, \A n \in Nat : n \in Good => n + 1 \in Good
    PROVE  Nat \subseteq Good
<1> DEFINE Bad == {n \in Nat : n \notin Good}
           Segments == {1 .. n : n \in Bad}
<1>1. SUFFICES ASSUME Segments # {} PROVE FALSE
  OBVIOUS
<1>2. \A n \in Nat : IsFiniteSet(1 .. n)
  BY FS_Interval
<1>3. Segments \subseteq FiniteSubsetsOf(Nat)
  <2> SUFFICES ASSUME NEW n \in Bad PROVE 1 .. n \in FiniteSubsetsOf(Nat)
    OBVIOUS
  <2>1. 1 .. n \subseteq Nat
    OBVIOUS
  <2> QED  BY <1>2, <2>1 DEF FiniteSubsetsOf
<1>4. PICK x \in Segments : \A y \in Segments : <<y, x>> \notin StrictSubsetOrdering(Nat)
  <2> HIDE DEF Segments
  <2> QED  BY <1>1, <1>3, FS_StrictSubsetOrderingWellFounded, WFMin
<1>5. PICK n \in Bad : x = 1 .. n
  OBVIOUS
<1>6. n - 1 \in Bad
  OBVIOUS
<1>7. 1 .. (n - 1) \in Segments
  BY <1>6
<1>8. <<1 .. (n - 1), x>> \in StrictSubsetOrdering(Nat)
  <2>1. n >= 1
    OBVIOUS
  <2>2. 1 .. (n - 1) \subseteq 1 .. n /\ n \in 1 .. n /\ n \notin 1 .. (n - 1) /\ 1 .. n \subseteq Nat
    BY <2>1
  <2>3. <<1 .. (n - 1), x>> \in (SUBSET Nat) \X (SUBSET Nat)
    BY <2>2, <1>5
  <2> QED  BY <2>2, <2>3, <1>5, Zenon DEF StrictSubsetOrdering
<1> QED  BY <1>4, <1>7, <1>8

(* The iterator of a fold by the function F over the first n elements of   *)
(* seq: what MapThenFoldSet computes over a set of indices, the largest    *)
(* one last.                                                               *)
Folds(it, n, A, F, base, seq) ==
    /\ it \in [SUBSET (1 .. n) -> A]
    /\ \A s \in SUBSET (1 .. n) :
          /\ s # {} => Max(s) \in s
          /\ it[s] = (IF s = {} THEN base ELSE F[<<it[s \ {Max(s)}], seq[Max(s)]>>])

(* The largest index of a set that holds n + 1 and none above it.          *)
LEMMA MaxOfPrefix ==
    ASSUME NEW n \in Nat, NEW s \in SUBSET (1 .. n + 1), n + 1 \in s
    PROVE  Max(s) = n + 1
<1>1. \A y \in s : n + 1 >= y
  OBVIOUS
<1>2. \A x \in s : (\A y \in s : x >= y) => x = n + 1
  OBVIOUS
<1> QED  BY <1>1, <1>2 DEF Max

(* The iterator of a fold exists, for every length of the sequence: there  *)
(* is one for the first n indices, by induction on n.                      *)
LEMMA FoldExists ==
    ASSUME NEW A, NEW S, NEW F \in [A \X S -> A], NEW base \in A, NEW seq \in Seq(S)
    PROVE  \E it : Folds(it, Len(seq), A, F, base, seq)
<1> DEFINE Good == {n \in Nat : n <= Len(seq) => \E it : Folds(it, n, A, F, base, seq)}
<1>1. 0 \in Good
  <2> DEFINE it == [s \in SUBSET (1 .. 0) |-> base]
  <2>1. \A s \in SUBSET (1 .. 0) : s = {}
    OBVIOUS
  <2>2. it \in [SUBSET (1 .. 0) -> A] /\ \A s \in SUBSET (1 .. 0) : it[s] = base
    OBVIOUS
  <2>3. Folds(it, 0, A, F, base, seq)
    BY <2>1, <2>2, Zenon DEF Folds
  <2> QED  BY <2>3
<1>2. ASSUME NEW n \in Nat, n \in Good PROVE n + 1 \in Good
  <2> SUFFICES ASSUME n + 1 <= Len(seq) PROVE \E it : Folds(it, n + 1, A, F, base, seq)
    OBVIOUS
  <2>1. PICK it : Folds(it, n, A, F, base, seq)
    <3>1. n <= Len(seq)
      OBVIOUS
    <3> QED  BY <1>2, <3>1
  <2> DEFINE x == seq[n + 1]
             h == [s \in SUBSET (1 .. n + 1) |->
                      IF n + 1 \in s THEN F[<<it[s \ {n + 1}], x>>] ELSE it[s]]
  <2>2. x \in S
    OBVIOUS
  <2>3. \A s \in SUBSET (1 .. n + 1) : s \ {n + 1} \in SUBSET (1 .. n)
    OBVIOUS
  <2>4. \A s \in SUBSET (1 .. n + 1) : n + 1 \notin s => s \in SUBSET (1 .. n)
    OBVIOUS
  <2>5. h \in [SUBSET (1 .. n + 1) -> A]
    <3> SUFFICES ASSUME NEW s \in SUBSET (1 .. n + 1)
                 PROVE (IF n + 1 \in s THEN F[<<it[s \ {n + 1}], x>>] ELSE it[s]) \in A
      BY Zenon
    <3>1. it[s \ {n + 1}] \in A
      BY <2>1, <2>3, Zenon DEF Folds
    <3>2. <<it[s \ {n + 1}], x>> \in A \X S
      BY <3>1, <2>2
    <3>3. F[<<it[s \ {n + 1}], x>>] \in A
      BY <3>2, Zenon
    <3>4. n + 1 \notin s => it[s] \in A
      BY <2>1, <2>4, Zenon DEF Folds
    <3> QED  BY <3>3, <3>4, Zenon
  <2>6. ASSUME NEW s \in SUBSET (1 .. n + 1)
        PROVE /\ s # {} => Max(s) \in s
              /\ h[s] = (IF s = {} THEN base ELSE F[<<h[s \ {Max(s)}], seq[Max(s)]>>])
    <3>1. CASE n + 1 \in s
      <4>1. Max(s) = n + 1
        BY <3>1, MaxOfPrefix
      <4>2. s \ {n + 1} \in SUBSET (1 .. n + 1) /\ n + 1 \notin s \ {n + 1}
        BY <2>3
      <4>3. h[s \ {n + 1}] = it[s \ {n + 1}]
        BY <4>2, Zenon
      <4>4. h[s] = F[<<it[s \ {n + 1}], x>>]
        BY <3>1, Zenon
      <4> QED  BY <3>1, <4>1, <4>3, <4>4, Zenon
    <3>2. CASE n + 1 \notin s
      <4>1. s \in SUBSET (1 .. n)
        BY <2>4, <3>2
      <4>2. h[s] = it[s]
        BY <3>2, Zenon
      <4>3. h[s \ {Max(s)}] = it[s \ {Max(s)}]
        <5>1. s \ {Max(s)} \in SUBSET (1 .. n + 1) /\ n + 1 \notin s \ {Max(s)}
          BY <3>2, Zenon
        <5> QED  BY <5>1, Zenon
      <4> QED  BY <2>1, <4>1, <4>2, <4>3, Zenon DEF Folds
    <3> QED  BY <3>1, <3>2
  <2>7. Folds(h, n + 1, A, F, base, seq)
    <3> HIDE DEF h
    <3> QED  BY <2>5, <2>6, Zenon DEF Folds
  <2> QED  BY <2>7, Zenon
<1>3. Nat \subseteq Good
  <2> HIDE DEF Good
  <2> QED  BY <1>1, <1>2, Induction
<1> QED  BY <1>3

(* The indices up to i, and the largest of them.                           *)
LEMMA Prefix ==
    ASSUME NEW n \in Nat, NEW i \in 1 .. n
    PROVE  /\ 1 .. i \in SUBSET (1 .. n) /\ 1 .. i # {}
           /\ Max(1 .. i) = i
           /\ (1 .. i) \ {i} = 1 .. i - 1
<1>1. 1 .. i \in SUBSET (1 .. n) /\ 1 .. i # {} /\ (1 .. i) \ {i} = 1 .. i - 1
  OBVIOUS
<1>2. (i - 1) \in Nat /\ (i - 1) + 1 = i
  OBVIOUS
<1>3. 1 .. i \in SUBSET (1 .. (i - 1) + 1) /\ (i - 1) + 1 \in 1 .. i
  OBVIOUS
<1>4. Max(1 .. i) = (i - 1) + 1
  BY <1>2, <1>3, MaxOfPrefix
<1> QED  BY <1>1, <1>2, <1>4

(* A point of a trajectory: a posture and a time.                          *)
Point == [pos : Postures, t : Int]

(* What a sequence of points holds at an index.                            *)
LEMMA PointAt ==
    ASSUME NEW s \in Seq(Point), NEW k \in 1 .. Len(s)
    PROVE  s[k] \in Point /\ s[k].pos \in Postures /\ s[k].t \in Int
<1>1. s[k] \in Point
  OBVIOUS
<1> QED  BY <1>1 DEF Point

(* A point is put behind points (append_point_with_positive_time).         *)
LEMMA PutPoints ==
    ASSUME NEW out \in Seq(Point), NEW p \in Point
    PROVE  Put(out, p) \in Seq(Point)
<1>1. out # <<>> => Last(out) \in Point
  BY DEF Last
<1>2. (IF out # <<>> /\ p.t <= Last(out).t THEN [p EXCEPT !.t = Last(out).t + 1] ELSE p) \in Point
  BY <1>1 DEF Point
<1> QED  BY <1>2 DEF Put

(* What FoldLeft(Put) computes, one point after the other.                 *)
LEMMA PutRuns ==
    ASSUME NEW out \in Seq(Point), NEW seq \in Seq(Point)
    PROVE  \E r : /\ r[0] = out
                  /\ \A i \in 1 .. Len(seq) : r[i] = Put(r[i - 1], seq[i])
                  /\ FoldLeft(Put, out, seq) = r[Len(seq)]
<1> DEFINE Eq(iter) == iter = [s \in SUBSET (DOMAIN seq) |->
                         IF s = {} THEN out ELSE Put(iter[s \ {Max(s)}], seq[Max(s)])]
           F == [q \in Seq(Point) \X Point |-> Put(q[1], q[2])]
           c == CHOOSE iter : Eq(iter)
           r == [i \in 0 .. Len(seq) |-> c[1 .. i]]
<1>1. F \in [Seq(Point) \X Point -> Seq(Point)]
  BY PutPoints
<1>2. PICK it : Folds(it, Len(seq), Seq(Point), F, out, seq)
  <2> HIDE DEF F
  <2> QED  BY <1>1, FoldExists
<1>3. DOMAIN seq = 1 .. Len(seq)
  OBVIOUS
<1>4. Eq(it)
  <2>1. ASSUME NEW s \in SUBSET (DOMAIN seq)
        PROVE  it[s] = IF s = {} THEN out ELSE Put(it[s \ {Max(s)}], seq[Max(s)])
    <3>1. s = {} => it[s] = out
      BY <1>2, <1>3 DEF Folds
    <3>2. ASSUME s # {} PROVE it[s] = Put(it[s \ {Max(s)}], seq[Max(s)])
      <4>1. it[s \ {Max(s)}] \in Seq(Point) /\ Max(s) \in s
        BY <3>2, <1>2, <1>3, Zenon DEF Folds
      <4>2. seq[Max(s)] \in Point
        BY <4>1
      <4>3. it[s] = F[<<it[s \ {Max(s)}], seq[Max(s)]>>]
        BY <3>2, <1>2, <1>3, Zenon DEF Folds
      <4> QED  BY <4>1, <4>2, <4>3
    <3> QED  BY <3>1, <3>2
  <2>2. it = [s \in SUBSET (DOMAIN seq) |-> it[s]]
    BY <1>2, <1>3 DEF Folds
  <2> QED  BY <2>1, <2>2, Zenon
<1>5. Eq(c)
  BY <1>4, Zenon
<1>6. FoldLeft(Put, out, seq) = c[DOMAIN seq]
  BY DEF FoldLeft, MapThenFoldSet
<1> HIDE DEF c
<1>7. c[{}] = out
  BY <1>5, Zenon
<1>8. ASSUME NEW i \in 1 .. Len(seq) PROVE c[1 .. i] = Put(c[1 .. i - 1], seq[i])
  <2>1. c[1 .. i] = Put(c[(1 .. i) \ {Max(1 .. i)}], seq[Max(1 .. i)])
    <3>1. 1 .. i \in SUBSET (DOMAIN seq) /\ 1 .. i # {}
      BY <1>3, Prefix
    <3> QED  BY <3>1, <1>5, Zenon
  <2>2. Max(1 .. i) = i /\ (1 .. i) \ {i} = 1 .. i - 1
    BY Prefix
  <2> QED  BY <2>1, <2>2, Zenon
<1>9. r[0] = out /\ \A i \in 1 .. Len(seq) : r[i] = Put(r[i - 1], seq[i])
  <2>1. r[0] = c[{}]
    <3>1. 1 .. 0 = {}
      OBVIOUS
    <3> QED  BY <3>1
  <2>2. \A i \in 1 .. Len(seq) : i \in 0 .. Len(seq) /\ i - 1 \in 0 .. Len(seq)
    OBVIOUS
  <2> QED  BY <1>7, <1>8, <2>1, <2>2, Zenon
<1> QED
  <2>1. FoldLeft(Put, out, seq) = r[Len(seq)]
    <3>1. Len(seq) \in 0 .. Len(seq)
      OBVIOUS
    <3> QED  BY <1>3, <1>6, <3>1, Zenon
  <2> HIDE DEF r
  <2> QED  BY <1>9, <2>1

(* The times of the points rise.                                           *)
Ascending(out) == \A i \in 1 .. Len(out) - 1 : out[i].t < out[i + 1].t

(* A point is put behind the others, later than the last of them.          *)
LEMMA PutBehind ==
    ASSUME NEW out \in Seq(Point), Ascending(out), NEW p \in Point
    PROVE  /\ Put(out, p) \in Seq(Point) /\ Ascending(Put(out, p))
           /\ Len(Put(out, p)) = Len(out) + 1
           /\ \A k \in 1 .. Len(out) : Put(out, p)[k] = out[k]
           /\ Put(out, p)[Len(out) + 1].pos = p.pos
<1> DEFINE q == IF out # <<>> /\ p.t <= Last(out).t THEN [p EXCEPT !.t = Last(out).t + 1] ELSE p
           new == Append(out, q)
<1>1. out # <<>> => Len(out) >= 1 /\ Last(out) = out[Len(out)] /\ Last(out) \in Point /\ Last(out).t \in Int
  <2> SUFFICES ASSUME out # <<>> PROVE Len(out) >= 1 /\ Last(out) = out[Len(out)] /\ Last(out) \in Point /\ Last(out).t \in Int
    OBVIOUS
  <2>1. Len(out) \in 1 .. Len(out)
    OBVIOUS
  <2>2. out[Len(out)] \in Point
    BY <2>1
  <2> QED  BY <2>1, <2>2 DEF Last, Point
<1>2. q \in Point /\ q.pos = p.pos /\ (out # <<>> => Last(out).t < q.t)
  BY <1>1 DEF Point
<1> HIDE DEF q
<1>3. /\ new \in Seq(Point) /\ Len(new) = Len(out) + 1
      /\ \A k \in 1 .. Len(out) : new[k] = out[k]
      /\ new[Len(out) + 1] = q
  BY <1>2
<1>4. Ascending(new)
  <2> SUFFICES ASSUME NEW i \in 1 .. Len(new) - 1 PROVE new[i].t < new[i + 1].t
    BY DEF Ascending
  <2>1. CASE i = Len(out)
    <3>1. out # <<>>
      BY <2>1
    <3> QED  BY <1>1, <1>2, <1>3, <2>1, <3>1
  <2>2. CASE i < Len(out)
    <3>1. i \in 1 .. Len(out) - 1 /\ i + 1 \in 1 .. Len(out) /\ i \in 1 .. Len(out)
      BY <2>2
    <3>2. out[i].t < out[i + 1].t
      BY <3>1 DEF Ascending
    <3>3. new[i] = out[i] /\ new[i + 1] = out[i + 1]
      BY <1>3, <3>1
    <3> QED  BY <3>2, <3>3
  <2>3. i \in Nat /\ i <= Len(out)
    BY <1>3
  <2> QED  BY <2>1, <2>2, <2>3
<1>5. Put(out, p) = new
  BY DEF Put, q
<1> QED  BY <1>2, <1>3, <1>4, <1>5

(* All points of a part put behind the others, in their order, later than  *)
(* the last of them.                                                       *)
LEMMA PutAll ==
    ASSUME NEW out \in Seq(Point), Ascending(out), NEW seq \in Seq(Point)
    PROVE  LET new == FoldLeft(Put, out, seq) IN
           /\ new \in Seq(Point) /\ Ascending(new)
           /\ Len(new) = Len(out) + Len(seq)
           /\ \A k \in 1 .. Len(out) : new[k] = out[k]
           /\ \A k \in 1 .. Len(seq) : new[Len(out) + k].pos = seq[k].pos
<1>1. PICK r : /\ r[0] = out
               /\ \A i \in 1 .. Len(seq) : r[i] = Put(r[i - 1], seq[i])
               /\ FoldLeft(Put, out, seq) = r[Len(seq)]
  BY PutRuns
<1> DEFINE Fine(i) == /\ r[i] \in Seq(Point) /\ Ascending(r[i])
                      /\ Len(r[i]) = Len(out) + i
                      /\ \A k \in 1 .. Len(out) : r[i][k] = out[k]
                      /\ \A k \in 1 .. i : r[i][Len(out) + k].pos = seq[k].pos
           Good == {i \in Nat : i <= Len(seq) => Fine(i)}
<1>2. Fine(0)
  BY <1>1
<1>3. ASSUME NEW i \in Nat, i + 1 <= Len(seq), Fine(i) PROVE Fine(i + 1)
  <2>1. seq[i + 1] \in Point
    BY <1>3
  <2>2. r[i + 1] = Put(r[i], seq[i + 1])
    <3>1. i + 1 \in 1 .. Len(seq) /\ (i + 1) - 1 = i
      BY <1>3
    <3> QED  BY <1>1, <3>1
  <2>3. /\ r[i + 1] \in Seq(Point) /\ Ascending(r[i + 1])
        /\ Len(r[i + 1]) = Len(r[i]) + 1
        /\ \A k \in 1 .. Len(r[i]) : r[i + 1][k] = r[i][k]
        /\ r[i + 1][Len(r[i]) + 1].pos = seq[i + 1].pos
    <3>1. r[i] \in Seq(Point) /\ Ascending(r[i])
      BY <1>3
    <3> DEFINE old == r[i]
               p == seq[i + 1]
    <3> HIDE DEF Fine, old, p
    <3>2. /\ Put(old, p) \in Seq(Point) /\ Ascending(Put(old, p))
          /\ Len(Put(old, p)) = Len(old) + 1
          /\ \A k \in 1 .. Len(old) : Put(old, p)[k] = old[k]
          /\ Put(old, p)[Len(old) + 1].pos = p.pos
      BY <3>1, <2>1, PutBehind DEF old, p
    <3> QED  BY <3>2, <2>2, Zenon DEF old, p
  <2>4. \A k \in 1 .. Len(out) : r[i + 1][k] = out[k]
    <3> TAKE k \in 1 .. Len(out)
    <3>1. k \in 1 .. Len(r[i])
      BY <1>3
    <3> QED  BY <1>3, <2>3, <3>1
  <2>5. ASSUME NEW k \in 1 .. i + 1 PROVE r[i + 1][Len(out) + k].pos = seq[k].pos
    <3>1. CASE k = i + 1
      <4>1. Len(out) + k = Len(r[i]) + 1
        BY <1>3, <3>1
      <4> QED  BY <2>3, <3>1, <4>1
    <3>2. CASE k \in 1 .. i
      <4>1. Len(out) + k \in 1 .. Len(r[i])
        BY <1>3, <3>2
      <4>2. r[i + 1][Len(out) + k] = r[i][Len(out) + k]
        BY <2>3, <4>1
      <4> QED  BY <1>3, <3>2, <4>2
    <3> QED  BY <3>1, <3>2
  <2>6. Len(r[i + 1]) = Len(out) + (i + 1)
    BY <1>3, <2>3
  <2> QED  BY <2>3, <2>4, <2>5, <2>6
<1>4. Nat \subseteq Good
  <2>1. 0 \in Good
    BY <1>2
  <2>2. \A n \in Nat : n \in Good => n + 1 \in Good
    <3> HIDE DEF Fine
    <3> QED  BY <1>3
  <2> HIDE DEF Good
  <2> QED  BY <2>1, <2>2, Induction
<1>5. Fine(Len(seq))
  <2> HIDE DEF Fine
  <2> QED  BY <1>4
<1> QED  BY <1>1, <1>5

(* A trajectory has a point; a merge has what is joined so far and where   *)
(* its next part starts.                                                   *)
Trajectory == Seq(Point) \ {<<>>}
Merge == [out : {s \in Seq(Point) : Ascending(s)}, offset : Int]

(* The first and the last point of a trajectory.                           *)
LEMMA Ends ==
    ASSUME NEW part \in Trajectory
    PROVE  /\ part \in Seq(Point) /\ Len(part) \in Nat \ {0}
           /\ Last(part) = part[Len(part)] /\ Last(part) \in Point
           /\ Head(part) = part[1] /\ Head(part) \in Point
<1>1. part \in Seq(Point) /\ Len(part) \in Nat \ {0}
  BY DEF Trajectory
<1>2. part[Len(part)] \in Point /\ part[1] \in Point
  BY <1>1
<1> QED  BY <1>1, <1>2 DEF Last

(* A part that starts later has its points, each as much later.            *)
LEMMA Shifts ==
    ASSUME NEW part \in Seq(Point), NEW by \in Int
    PROVE  /\ Shift(part, by) \in Seq(Point) /\ Len(Shift(part, by)) = Len(part)
           /\ \A i \in 1 .. Len(part) : /\ Shift(part, by)[i].pos = part[i].pos
                                        /\ Shift(part, by)[i].t = part[i].t + by
<1>1. \A i \in 1 .. Len(part) : part[i] \in Point
  OBVIOUS
<1>2. ASSUME NEW i \in 1 .. Len(part) PROVE [part[i] EXCEPT !.t = @ + by] \in Point
  <2> DEFINE p == part[i]
  <2>1. p \in Point
    BY <1>1
  <2> HIDE DEF p
  <2>2. [p EXCEPT !.t = @ + by] \in Point
    BY <2>1 DEF Point
  <2> QED  BY <2>2 DEF p
<1>3. Shift(part, by) \in Seq(Point) /\ Len(Shift(part, by)) = Len(part)
  BY <1>2 DEF Shift
<1>4. ASSUME NEW i \in 1 .. Len(part)
      PROVE  Shift(part, by)[i].pos = part[i].pos /\ Shift(part, by)[i].t = part[i].t + by
  BY <1>1 DEF Shift, Point
<1> QED  BY <1>3, <1>4

(* A part joined to what is there.                                         *)
LEMMA JoinedPart ==
    ASSUME NEW out \in Seq(Point), Ascending(out), NEW part \in Trajectory
    PROVE  /\ Joined(out, part) \in Trajectory /\ Ascending(Joined(out, part))
           /\ Len(Joined(out, part)) >= Len(out)
           /\ \A k \in 1 .. Len(out) : Joined(out, part)[k] = out[k]
           /\ \A k \in 1 .. Len(part) :
                 \E n \in 1 .. Len(Joined(out, part)) : Joined(out, part)[n].pos = part[k].pos
           /\ Last(Joined(out, part)).pos = Last(part).pos
<1> DEFINE again == out # <<>> /\ Last(out).pos = Head(part).pos
           rest == IF again THEN Tail(part) ELSE part
           new == FoldLeft(Put, out, rest)
<1>1. rest \in Seq(Point) /\ Len(rest) = (IF again THEN Len(part) - 1 ELSE Len(part))
  BY Ends
<1>2. \A k \in 1 .. Len(rest) : rest[k] = (IF again THEN part[k + 1] ELSE part[k])
  BY Ends
<1> HIDE DEF rest
<1>3. /\ new \in Seq(Point) /\ Ascending(new)
      /\ Len(new) = Len(out) + Len(rest)
      /\ \A k \in 1 .. Len(out) : new[k] = out[k]
      /\ \A k \in 1 .. Len(rest) : new[Len(out) + k].pos = rest[k].pos
  BY <1>1, PutAll
<1>4. Joined(out, part) = new
  BY DEF Joined, rest
<1> HIDE DEF new
<1>5. again => Len(out) >= 1 /\ out[Len(out)].pos = part[1].pos
  <2> SUFFICES ASSUME again PROVE Len(out) >= 1 /\ out[Len(out)].pos = part[1].pos
    OBVIOUS
  <2>1. Len(out) >= 1
    OBVIOUS
  <2> QED  BY <2>1, Ends DEF Last
<1>6. ASSUME NEW k \in 1 .. Len(part)
      PROVE  \E n \in 1 .. Len(new) : new[n].pos = part[k].pos
  <2>1. CASE ~again
    <3>1. k \in 1 .. Len(rest) /\ Len(out) + k \in 1 .. Len(new)
      BY <1>1, <1>3, <2>1, Ends
    <3> QED  BY <1>2, <1>3, <2>1, <3>1
  <2>2. CASE again /\ k = 1
    <3>1. Len(out) \in 1 .. Len(out) /\ Len(out) \in 1 .. Len(new)
      BY <1>1, <1>3, <1>5, <2>2
    <3> QED  BY <1>3, <1>5, <2>2, <3>1
  <2>3. CASE again /\ k # 1
    <3>1. k - 1 \in 1 .. Len(rest) /\ Len(out) + (k - 1) \in 1 .. Len(new)
      BY <1>1, <1>3, <2>3, Ends
    <3>2. new[Len(out) + (k - 1)].pos = rest[k - 1].pos /\ rest[k - 1] = part[k]
      BY <1>2, <1>3, <2>3, <3>1
    <3> QED  BY <3>1, <3>2
  <2> QED  BY <2>1, <2>2, <2>3
<1>7. Len(new) >= 1 /\ new[Len(new)].pos = part[Len(part)].pos
  <2>1. CASE Len(rest) = 0
    <3>1. again /\ Len(part) = 1
      BY <1>1, <2>1, Ends
    <3>2. Len(new) = Len(out) /\ Len(out) \in 1 .. Len(out)
      BY <1>3, <1>5, <2>1, <3>1
    <3> QED  BY <1>3, <1>5, <3>1, <3>2
  <2>2. CASE Len(rest) # 0
    <3>1. Len(rest) \in 1 .. Len(rest) /\ Len(new) = Len(out) + Len(rest)
      <4>1. Len(rest) \in Nat
        BY <1>1
      <4> QED  BY <1>3, <2>2, <4>1
    <3>2. rest[Len(rest)] = part[Len(part)]
      BY <1>1, <1>2, <3>1, Ends
    <3> QED  BY <1>3, <3>1, <3>2
  <2> QED  BY <2>1, <2>2
<1>8. new # <<>> /\ new \in Trajectory
  BY <1>3, <1>7 DEF Trajectory
<1>9. Last(new).pos = Last(part).pos
  BY <1>7, Ends DEF Last
<1>10. Len(new) >= Len(out)
  BY <1>1, <1>3
<1> QED  BY <1>3, <1>4, <1>6, <1>8, <1>9, <1>10

(* TrajectoryAssembler::merge keeps the times rising, part by part.        *)
LEMMA JoinTrajectory ==
    ASSUME NEW out \in Merge, NEW p \in Trajectory
    PROVE  Join(out, p) \in Merge
<1>1. out.out \in Seq(Point) /\ Ascending(out.out) /\ out.offset \in Int
  BY DEF Merge
<1>2. Shift(p, out.offset) \in Trajectory
  <2>1. Shift(p, out.offset) \in Seq(Point) /\ Len(Shift(p, out.offset)) = Len(p)
    BY <1>1, Shifts, Ends
  <2> QED  BY <2>1, Ends DEF Trajectory
<1>3. Joined(out.out, Shift(p, out.offset)) \in Seq(Point) /\ Ascending(Joined(out.out, Shift(p, out.offset)))
  BY <1>1, <1>2, JoinedPart, Ends
<1>4. Last(p).t \in Int
  BY Ends DEF Point
<1> QED  BY <1>1, <1>3, <1>4 DEF Join, Merge

(* What FoldLeft(Join) computes, one part after the other.                 *)
LEMMA JoinRuns ==
    ASSUME NEW out \in Merge, NEW seq \in Seq(Trajectory)
    PROVE  \E r : /\ r[0] = out
                  /\ \A i \in 1 .. Len(seq) : r[i] = Join(r[i - 1], seq[i])
                  /\ FoldLeft(Join, out, seq) = r[Len(seq)]
<1> DEFINE Eq(iter) == iter = [s \in SUBSET (DOMAIN seq) |->
                         IF s = {} THEN out ELSE Join(iter[s \ {Max(s)}], seq[Max(s)])]
           F == [q \in Merge \X Trajectory |-> Join(q[1], q[2])]
           c == CHOOSE iter : Eq(iter)
           r == [i \in 0 .. Len(seq) |-> c[1 .. i]]
<1>1. F \in [Merge \X Trajectory -> Merge]
  BY JoinTrajectory
<1>2. PICK it : Folds(it, Len(seq), Merge, F, out, seq)
  <2> HIDE DEF F
  <2> QED  BY <1>1, FoldExists
<1>3. DOMAIN seq = 1 .. Len(seq)
  OBVIOUS
<1>4. Eq(it)
  <2>1. ASSUME NEW s \in SUBSET (DOMAIN seq)
        PROVE  it[s] = IF s = {} THEN out ELSE Join(it[s \ {Max(s)}], seq[Max(s)])
    <3>1. s = {} => it[s] = out
      BY <1>2, <1>3 DEF Folds
    <3>2. ASSUME s # {} PROVE it[s] = Join(it[s \ {Max(s)}], seq[Max(s)])
      <4>1. it[s \ {Max(s)}] \in Merge /\ Max(s) \in s
        BY <3>2, <1>2, <1>3, Zenon DEF Folds
      <4>2. seq[Max(s)] \in Trajectory
        BY <4>1
      <4>3. it[s] = F[<<it[s \ {Max(s)}], seq[Max(s)]>>]
        BY <3>2, <1>2, <1>3, Zenon DEF Folds
      <4> QED  BY <4>1, <4>2, <4>3
    <3> QED  BY <3>1, <3>2
  <2>2. it = [s \in SUBSET (DOMAIN seq) |-> it[s]]
    BY <1>2, <1>3 DEF Folds
  <2> QED  BY <2>1, <2>2, Zenon
<1>5. Eq(c)
  BY <1>4, Zenon
<1>6. FoldLeft(Join, out, seq) = c[DOMAIN seq]
  BY DEF FoldLeft, MapThenFoldSet
<1> HIDE DEF c
<1>7. c[{}] = out
  BY <1>5, Zenon
<1>8. ASSUME NEW i \in 1 .. Len(seq) PROVE c[1 .. i] = Join(c[1 .. i - 1], seq[i])
  <2>1. c[1 .. i] = Join(c[(1 .. i) \ {Max(1 .. i)}], seq[Max(1 .. i)])
    <3>1. 1 .. i \in SUBSET (DOMAIN seq) /\ 1 .. i # {}
      BY <1>3, Prefix
    <3> QED  BY <3>1, <1>5, Zenon
  <2>2. Max(1 .. i) = i /\ (1 .. i) \ {i} = 1 .. i - 1
    BY Prefix
  <2> QED  BY <2>1, <2>2, Zenon
<1>9. r[0] = out /\ \A i \in 1 .. Len(seq) : r[i] = Join(r[i - 1], seq[i])
  <2>1. r[0] = c[{}]
    <3>1. 1 .. 0 = {}
      OBVIOUS
    <3> QED  BY <3>1
  <2>2. \A i \in 1 .. Len(seq) : i \in 0 .. Len(seq) /\ i - 1 \in 0 .. Len(seq)
    OBVIOUS
  <2> QED  BY <1>7, <1>8, <2>1, <2>2, Zenon
<1> QED
  <2>1. FoldLeft(Join, out, seq) = r[Len(seq)]
    <3>1. Len(seq) \in 0 .. Len(seq)
      OBVIOUS
    <3> QED  BY <1>3, <1>6, <3>1, Zenon
  <2> HIDE DEF r
  <2> QED  BY <1>9, <2>1


(* A merge holds every posture of its parts, later and later.              *)
LEMMA MergedParts ==
    ASSUME parts \in Seq(Trajectory), Len(parts) >= 1
    PROVE  /\ Merged \in Trajectory /\ Ascending(Merged)
           /\ \A k \in 1 .. Len(parts) : \A i \in 1 .. Len(parts[k]) :
                 \E n \in 1 .. Len(Merged) : Merged[n].pos = parts[k][i].pos
           /\ Last(Merged).pos = Last(Last(parts)).pos
<1>1. NoParts \in Merge
  BY DEF NoParts, Merge, Ascending
<1>2. PICK r : /\ r[0] = NoParts
               /\ \A i \in 1 .. Len(parts) : r[i] = Join(r[i - 1], parts[i])
               /\ FoldLeft(Join, NoParts, parts) = r[Len(parts)]
  BY <1>1, JoinRuns
<1> DEFINE Holds(out, part) ==
               \A i \in 1 .. Len(part) : \E n \in 1 .. Len(out) : out[n].pos = part[i].pos
           Fine(i) == /\ r[i] \in Merge
                      /\ \A k \in 1 .. i : Holds(r[i].out, parts[k])
                      /\ i > 0 => /\ r[i].out \in Trajectory
                                  /\ Last(r[i].out).pos = Last(parts[i]).pos
           Good == {i \in Nat : i <= Len(parts) => Fine(i)}
<1>3. Fine(0)
  BY <1>1, <1>2
<1>4. ASSUME NEW i \in Nat, i + 1 <= Len(parts), Fine(i) PROVE Fine(i + 1)
  <2> DEFINE old == r[i].out
             part == Shift(parts[i + 1], r[i].offset)
             new == Joined(old, part)
  <2>1. parts[i + 1] \in Trajectory /\ i + 1 \in 1 .. Len(parts)
    BY <1>4
  <2>2. r[i + 1] = Join(r[i], parts[i + 1])
    <3>1. (i + 1) - 1 = i
      OBVIOUS
    <3> QED  BY <1>2, <2>1, <3>1
  <2>3. old \in Seq(Point) /\ Ascending(old) /\ r[i].offset \in Int
    BY <1>4 DEF Merge
  <2>4. /\ part \in Trajectory /\ Len(part) = Len(parts[i + 1])
        /\ \A k \in 1 .. Len(part) : part[k].pos = parts[i + 1][k].pos
    <3>1. parts[i + 1] \in Seq(Point) /\ Len(parts[i + 1]) \in Nat \ {0}
      BY <2>1, Ends
    <3>2. /\ part \in Seq(Point) /\ Len(part) = Len(parts[i + 1])
          /\ \A k \in 1 .. Len(parts[i + 1]) : part[k].pos = parts[i + 1][k].pos
      BY <2>3, <3>1, Shifts
    <3> QED  BY <3>1, <3>2 DEF Trajectory
  <2>5. r[i + 1].out = new
    BY <2>2 DEF Join
  <2> HIDE DEF old, part
  <2>6. /\ new \in Trajectory /\ Ascending(new) /\ Len(new) >= Len(old)
        /\ \A k \in 1 .. Len(old) : new[k] = old[k]
        /\ \A k \in 1 .. Len(part) : \E n \in 1 .. Len(new) : new[n].pos = part[k].pos
        /\ Last(new).pos = Last(part).pos
    BY <2>3, <2>4, JoinedPart
  <2> HIDE DEF new
  <2>7. r[i + 1] \in Merge
    BY <1>4, <2>1, <2>2, JoinTrajectory
  <2>8. Holds(new, parts[i + 1])
    BY <2>4, <2>6
  <2>9. ASSUME NEW k \in 1 .. i PROVE Holds(new, parts[k])
    <3>1. Holds(old, parts[k])
      BY <1>4 DEF old
    <3>2. \A n \in 1 .. Len(old) : n \in 1 .. Len(new)
      <4>1. Len(old) \in Nat /\ Len(new) \in Nat
        BY <2>3, <2>6, Ends
      <4> QED  BY <2>6, <4>1
    <3> QED  BY <2>6, <3>1, <3>2
  <2>10. \A k \in 1 .. i + 1 : Holds(new, parts[k])
    <3>1. \A k \in 1 .. i + 1 : k \in 1 .. i \/ k = i + 1
      OBVIOUS
    <3> QED  BY <2>8, <2>9, <3>1
  <2>11. Last(new).pos = Last(parts[i + 1]).pos
    <3>1. Last(part) = part[Len(part)] /\ Len(part) \in 1 .. Len(part) /\ Last(parts[i + 1]) = parts[i + 1][Len(part)]
      BY <2>1, <2>4, Ends
    <3> QED  BY <2>4, <2>6, <3>1
  <2> HIDE DEF Holds
  <2> QED  BY <2>5, <2>6, <2>7, <2>10, <2>11
<1>5. Nat \subseteq Good
  <2>1. 0 \in Good
    BY <1>3
  <2>2. \A n \in Nat : n \in Good => n + 1 \in Good
    <3> HIDE DEF Fine
    <3> QED  BY <1>4
  <2> HIDE DEF Good
  <2> QED  BY <2>1, <2>2, Induction
<1>6. Fine(Len(parts))
  <2> HIDE DEF Fine
  <2> QED  BY <1>5
<1>7. Merged = r[Len(parts)].out
  BY <1>2 DEF Merged
<1>8. Last(parts) = parts[Len(parts)]
  BY DEF Last
<1> QED  BY <1>6, <1>7, <1>8 DEF Merge

(* How the wrist guard counts: the latest turn, the reversals in a row and *)
(* the most of them.                                                       *)
Row == [last : Int, n : Nat, worst : Nat]

(* The guard counts on.                                                    *)
LEMMA TurnedRow ==
    ASSUME NEW out \in Row, NEW p \in Int
    PROVE  Turned(out, p) \in Row
<1> DEFINE n == IF out.last * p < 0 THEN out.n + 1 ELSE 0
<1>1. out.last \in Int /\ out.n \in Nat /\ out.worst \in Nat
  BY DEF Row
<1>2. n \in Nat
  BY <1>1
<1> HIDE DEF n
<1>3. Most(out.worst, n) \in Nat
  BY <1>1, <1>2 DEF Most
<1>4. Turned(out, p) = IF p = 0 THEN out ELSE [last |-> p, n |-> n, worst |-> Most(out.worst, n)]
  BY DEF Turned, n
<1> QED  BY <1>2, <1>3, <1>4 DEF Row

(* What FoldLeft(Turned) computes, one turn after the other.               *)
LEMMA TurnedRuns ==
    ASSUME NEW out \in Row, NEW seq \in Seq(Int)
    PROVE  \E r : /\ r[0] = out
                  /\ \A i \in 1 .. Len(seq) : r[i] = Turned(r[i - 1], seq[i])
                  /\ FoldLeft(Turned, out, seq) = r[Len(seq)]
<1> DEFINE Eq(iter) == iter = [s \in SUBSET (DOMAIN seq) |->
                         IF s = {} THEN out ELSE Turned(iter[s \ {Max(s)}], seq[Max(s)])]
           F == [q \in Row \X Int |-> Turned(q[1], q[2])]
           c == CHOOSE iter : Eq(iter)
           r == [i \in 0 .. Len(seq) |-> c[1 .. i]]
<1>1. F \in [Row \X Int -> Row]
  BY TurnedRow
<1>2. PICK it : Folds(it, Len(seq), Row, F, out, seq)
  <2> HIDE DEF F
  <2> QED  BY <1>1, FoldExists
<1>3. DOMAIN seq = 1 .. Len(seq)
  OBVIOUS
<1>4. Eq(it)
  <2>1. ASSUME NEW s \in SUBSET (DOMAIN seq)
        PROVE  it[s] = IF s = {} THEN out ELSE Turned(it[s \ {Max(s)}], seq[Max(s)])
    <3>1. s = {} => it[s] = out
      BY <1>2, <1>3 DEF Folds
    <3>2. ASSUME s # {} PROVE it[s] = Turned(it[s \ {Max(s)}], seq[Max(s)])
      <4>1. it[s \ {Max(s)}] \in Row /\ Max(s) \in s
        BY <3>2, <1>2, <1>3, Zenon DEF Folds
      <4>2. seq[Max(s)] \in Int
        BY <4>1
      <4>3. it[s] = F[<<it[s \ {Max(s)}], seq[Max(s)]>>]
        BY <3>2, <1>2, <1>3, Zenon DEF Folds
      <4> QED  BY <4>1, <4>2, <4>3
    <3> QED  BY <3>1, <3>2
  <2>2. it = [s \in SUBSET (DOMAIN seq) |-> it[s]]
    BY <1>2, <1>3 DEF Folds
  <2> QED  BY <2>1, <2>2, Zenon
<1>5. Eq(c)
  BY <1>4, Zenon
<1>6. FoldLeft(Turned, out, seq) = c[DOMAIN seq]
  BY DEF FoldLeft, MapThenFoldSet
<1> HIDE DEF c
<1>7. c[{}] = out
  BY <1>5, Zenon
<1>8. ASSUME NEW i \in 1 .. Len(seq) PROVE c[1 .. i] = Turned(c[1 .. i - 1], seq[i])
  <2>1. c[1 .. i] = Turned(c[(1 .. i) \ {Max(1 .. i)}], seq[Max(1 .. i)])
    <3>1. 1 .. i \in SUBSET (DOMAIN seq) /\ 1 .. i # {}
      BY <1>3, Prefix
    <3> QED  BY <3>1, <1>5, Zenon
  <2>2. Max(1 .. i) = i /\ (1 .. i) \ {i} = 1 .. i - 1
    BY Prefix
  <2> QED  BY <2>1, <2>2, Zenon
<1>9. r[0] = out /\ \A i \in 1 .. Len(seq) : r[i] = Turned(r[i - 1], seq[i])
  <2>1. r[0] = c[{}]
    <3>1. 1 .. 0 = {}
      OBVIOUS
    <3> QED  BY <3>1
  <2>2. \A i \in 1 .. Len(seq) : i \in 0 .. Len(seq) /\ i - 1 \in 0 .. Len(seq)
    OBVIOUS
  <2> QED  BY <1>7, <1>8, <2>1, <2>2, Zenon
<1> QED
  <2>1. FoldLeft(Turned, out, seq) = r[Len(seq)]
    <3>1. Len(seq) \in 0 .. Len(seq)
      OBVIOUS
    <3> QED  BY <1>3, <1>6, <3>1, Zenon
  <2> HIDE DEF r
  <2> QED  BY <1>9, <2>1


(* The count q of a piece of a trajectory is behind the count r of the     *)
(* whole: it knows the latest turn or none, and has seen no more           *)
(* reversals.                                                              *)
Behind(q, r) ==
    /\ q \in Row /\ r \in Row
    /\ q.last \in {0, r.last}
    /\ q.last = 0 => q.n = 0
    /\ q.n <= r.n /\ q.worst <= r.worst

(* One turn more, of a trajectory and of a piece of it.                    *)
LEMMA TurnedTogether ==
    ASSUME NEW q, NEW r, Behind(q, r), NEW d \in Int
    PROVE  Behind(Turned(q, d), Turned(r, d))
<1> DEFINE m == IF q.last * d < 0 THEN q.n + 1 ELSE 0
           n == IF r.last * d < 0 THEN r.n + 1 ELSE 0
<1>1. /\ q.last \in Int /\ q.n \in Nat /\ q.worst \in Nat
      /\ r.last \in Int /\ r.n \in Nat /\ r.worst \in Nat
      /\ q.last = 0 \/ q.last = r.last
      /\ q.n <= r.n /\ q.worst <= r.worst
  BY DEF Behind, Row
<1>2. m \in Nat /\ n \in Nat /\ m <= n
  <2>1. CASE q.last = 0
    <3>1. q.last * d = 0
      BY <2>1
    <3> QED  BY <1>1, <3>1
  <2>2. CASE q.last = r.last
    BY <1>1, <2>2
  <2> QED  BY <1>1, <2>1, <2>2
<1> HIDE DEF m, n
<1>3. CASE d = 0
  BY <1>3 DEF Turned
<1>4. CASE d # 0
  <2>1. /\ Turned(q, d) = [last |-> d, n |-> m, worst |-> Most(q.worst, m)]
        /\ Turned(r, d) = [last |-> d, n |-> n, worst |-> Most(r.worst, n)]
    BY <1>4 DEF Turned, m, n
  <2>2. Most(q.worst, m) \in Nat /\ Most(r.worst, n) \in Nat /\ Most(q.worst, m) <= Most(r.worst, n)
    BY <1>1, <1>2 DEF Most
  <2> QED  BY <1>2, <1>4, <2>1, <2>2 DEF Behind, Row
<1> QED  BY <1>3, <1>4

(* The most reversals in a row do not get fewer.                           *)
LEMMA WorstGrows ==
    ASSUME NEW s \in Row, NEW d \in Int
    PROVE  s.worst <= Turned(s, d).worst
<1>1. s.worst \in Nat /\ s.n \in Nat /\ s.last \in Int
  BY DEF Row
<1>2. CASE d = 0
  BY <1>1, <1>2 DEF Turned
<1>3. CASE d # 0
  <2>1. \A n \in Nat : s.worst <= Most(s.worst, n)
    BY <1>1 DEF Most
  <2>2. Turned(s, d).worst = Most(s.worst, IF s.last * d < 0 THEN s.n + 1 ELSE 0)
    BY <1>3 DEF Turned
  <2>3. (IF s.last * d < 0 THEN s.n + 1 ELSE 0) \in Nat
    BY <1>1
  <2> QED  BY <2>1, <2>2, <2>3
<1> QED  BY <1>2, <1>3

(* The most reversals in a row are a number.                               *)
LEMMA WorstIsNat ==
    ASSUME NEW seq \in Seq(Int)
    PROVE  FoldLeft(Turned, AtRest, seq).worst \in Nat
<1>1. AtRest \in Row
  BY DEF AtRest, Row
<1>2. PICK r : /\ r[0] = AtRest
               /\ \A i \in 1 .. Len(seq) : r[i] = Turned(r[i - 1], seq[i])
               /\ FoldLeft(Turned, AtRest, seq) = r[Len(seq)]
  BY <1>1, TurnedRuns
<1> DEFINE Good == {i \in Nat : i <= Len(seq) => r[i] \in Row}
<1>3. 0 \in Good
  BY <1>1, <1>2
<1>4. ASSUME NEW n \in Nat, n \in Good PROVE n + 1 \in Good
  <2> SUFFICES ASSUME n + 1 <= Len(seq) PROVE r[n + 1] \in Row
    OBVIOUS
  <2>1. n + 1 \in 1 .. Len(seq) /\ (n + 1) - 1 = n /\ r[n] \in Row /\ seq[n + 1] \in Int
    BY <1>4
  <2>2. r[n + 1] = Turned(r[n], seq[n + 1])
    BY <1>2, <2>1
  <2> QED  BY <2>1, <2>2, TurnedRow
<1>5. Nat \subseteq Good
  <2> HIDE DEF Good
  <2> QED  BY <1>3, <1>4, Induction
<1>6. r[Len(seq)] \in Row
  BY <1>5
<1> QED  BY <1>2, <1>6 DEF Row

(* A piece of a trajectory has no longer row of reversals than the whole.  *)
LEMMA PieceTurns ==
    ASSUME NEW seq \in Seq(Int), NEW sub \in Seq(Int), NEW o \in Nat,
           o + Len(sub) <= Len(seq),
           \A k \in 1 .. Len(sub) : sub[k] = seq[o + k]
    PROVE  FoldLeft(Turned, AtRest, sub).worst <= FoldLeft(Turned, AtRest, seq).worst
<1>1. AtRest \in Row
  BY DEF AtRest, Row
<1>2. PICK r : /\ r[0] = AtRest
               /\ \A i \in 1 .. Len(seq) : r[i] = Turned(r[i - 1], seq[i])
               /\ FoldLeft(Turned, AtRest, seq) = r[Len(seq)]
  BY <1>1, TurnedRuns
<1>3. PICK q : /\ q[0] = AtRest
               /\ \A i \in 1 .. Len(sub) : q[i] = Turned(q[i - 1], sub[i])
               /\ FoldLeft(Turned, AtRest, sub) = q[Len(sub)]
  BY <1>1, TurnedRuns
<1>4. \A i \in Nat : i + 1 <= Len(seq) => seq[i + 1] \in Int /\ r[i + 1] = Turned(r[i], seq[i + 1])
  <2> SUFFICES ASSUME NEW i \in Nat, i + 1 <= Len(seq)
               PROVE  seq[i + 1] \in Int /\ r[i + 1] = Turned(r[i], seq[i + 1])
    OBVIOUS
  <2>1. i + 1 \in 1 .. Len(seq) /\ (i + 1) - 1 = i
    OBVIOUS
  <2> QED  BY <1>2, <2>1
<1>5. \A i \in Nat : i + 1 <= Len(sub) =>
          /\ seq[o + i + 1] \in Int
          /\ q[i + 1] = Turned(q[i], seq[o + i + 1])
          /\ r[o + i + 1] = Turned(r[o + i], seq[o + i + 1])
  <2> SUFFICES ASSUME NEW i \in Nat, i + 1 <= Len(sub)
               PROVE  /\ seq[o + i + 1] \in Int
                      /\ q[i + 1] = Turned(q[i], seq[o + i + 1])
                      /\ r[o + i + 1] = Turned(r[o + i], seq[o + i + 1])
    OBVIOUS
  <2>1. i + 1 \in 1 .. Len(sub) /\ (i + 1) - 1 = i
    OBVIOUS
  <2>2. q[i + 1] = Turned(q[i], sub[i + 1])
    BY <1>3, <2>1
  <2>3. sub[i + 1] = seq[o + i + 1]
    BY <2>1
  <2>4. o + i \in Nat /\ (o + i) + 1 <= Len(seq) /\ o + i + 1 = (o + i) + 1
    OBVIOUS
  <2> QED  BY <1>4, <2>2, <2>3, <2>4
<1>6. \A i \in Nat : i <= Len(seq) => r[i] \in Row
  <2> DEFINE Good == {i \in Nat : i <= Len(seq) => r[i] \in Row}
  <2>1. 0 \in Good
    BY <1>1, <1>2
  <2>2. ASSUME NEW n \in Nat, n \in Good PROVE n + 1 \in Good
    <3> SUFFICES ASSUME n + 1 <= Len(seq) PROVE r[n + 1] \in Row
      OBVIOUS
    <3>1. r[n] \in Row /\ seq[n + 1] \in Int /\ r[n + 1] = Turned(r[n], seq[n + 1])
      BY <1>4, <2>2
    <3> QED  BY <3>1, TurnedRow
  <2>3. Nat \subseteq Good
    <3> HIDE DEF Good
    <3> QED  BY <2>1, <2>2, Induction
  <2> QED  BY <2>3
<1>7. \A i \in Nat : i <= Len(sub) => Behind(q[i], r[o + i])
  <2> DEFINE Good == {i \in Nat : i <= Len(sub) => Behind(q[i], r[o + i])}
  <2>1. 0 \in Good
    <3>1. r[o] \in Row /\ o + 0 = o
      BY <1>6
    <3> QED  BY <1>1, <1>3, <3>1 DEF Behind, AtRest, Row
  <2>2. ASSUME NEW n \in Nat, n \in Good PROVE n + 1 \in Good
    <3> SUFFICES ASSUME n + 1 <= Len(sub) PROVE Behind(q[n + 1], r[o + (n + 1)])
      OBVIOUS
    <3>1. Behind(q[n], r[o + n])
      BY <2>2
    <3>2. o + (n + 1) = o + n + 1
      OBVIOUS
    <3> DEFINE d == seq[o + n + 1]
    <3>3. d \in Int /\ q[n + 1] = Turned(q[n], d) /\ r[o + n + 1] = Turned(r[o + n], d)
      BY <1>5
    <3> HIDE DEF d
    <3>4. Behind(Turned(q[n], d), Turned(r[o + n], d))
      BY <3>1, <3>3, TurnedTogether
    <3> QED  BY <3>2, <3>3, <3>4
  <2>3. Nat \subseteq Good
    <3> HIDE DEF Good
    <3> QED  BY <2>1, <2>2, Induction
  <2> QED  BY <2>3
<1>8. \A i \in Nat : o + Len(sub) + i <= Len(seq) => r[o + Len(sub)].worst <= r[o + Len(sub) + i].worst
  <2> DEFINE m == o + Len(sub)
             Good == {i \in Nat : m + i <= Len(seq) => r[m].worst <= r[m + i].worst}
  <2>1. m \in Nat /\ m <= Len(seq)
    OBVIOUS
  <2> HIDE DEF m
  <2>2. r[m] \in Row /\ r[m].worst \in Nat
    BY <1>6, <2>1 DEF Row
  <2>3. 0 \in Good
    BY <2>1, <2>2
  <2>4. ASSUME NEW n \in Nat, n \in Good PROVE n + 1 \in Good
    <3> SUFFICES ASSUME m + (n + 1) <= Len(seq) PROVE r[m].worst <= r[m + (n + 1)].worst
      OBVIOUS
    <3>1. m + n \in Nat /\ m + n <= Len(seq) /\ (m + n) + 1 <= Len(seq) /\ m + (n + 1) = (m + n) + 1
      BY <2>1
    <3>2. r[m + n] \in Row /\ seq[(m + n) + 1] \in Int /\ r[(m + n) + 1] = Turned(r[m + n], seq[(m + n) + 1])
      BY <1>4, <1>6, <3>1
    <3>3. r[m + n].worst <= r[(m + n) + 1].worst
      BY <3>2, WorstGrows
    <3>4. r[m].worst <= r[m + n].worst
      BY <2>4, <3>1
    <3>5. /\ r[m + n] \in Row /\ r[(m + n) + 1] \in Row
          /\ r[m + (n + 1)] = r[(m + n) + 1]
      BY <1>6, <3>1, <3>2
    <3>6. r[m + n].worst \in Nat /\ r[(m + n) + 1].worst \in Nat
      BY <3>5 DEF Row
    <3>7. r[m].worst <= r[(m + n) + 1].worst
      BY <2>2, <3>3, <3>4, <3>6
    <3> QED  BY <3>5, <3>7
  <2>5. Nat \subseteq Good
    <3> HIDE DEF Good
    <3> QED  BY <2>3, <2>4, Induction
  <2> QED  BY <2>5 DEF m
<1>9. Len(seq) - (o + Len(sub)) \in Nat /\ o + Len(sub) + (Len(seq) - (o + Len(sub))) = Len(seq)
  OBVIOUS
<1>10. r[o + Len(sub)].worst <= r[Len(seq)].worst
  <2> DEFINE i == Len(seq) - (o + Len(sub))
  <2>1. i \in Nat /\ o + Len(sub) + i = Len(seq) /\ o + Len(sub) + i <= Len(seq)
    BY <1>9
  <2> HIDE DEF i
  <2>2. r[o + Len(sub)].worst <= r[o + Len(sub) + i].worst
    BY <1>8, <2>1
  <2> QED  BY <2>1, <2>2
<1>11. /\ q[Len(sub)].worst <= r[o + Len(sub)].worst /\ q[Len(sub)].worst \in Nat
       /\ r[o + Len(sub)].worst \in Nat /\ r[Len(seq)].worst \in Nat
  <2>1. Len(sub) \in Nat /\ o + Len(sub) \in Nat /\ Len(seq) \in Nat
    OBVIOUS
  <2>2. Behind(q[Len(sub)], r[o + Len(sub)])
    BY <1>7, <2>1
  <2>3. r[Len(seq)] \in Row
    BY <1>6, <2>1
  <2> QED  BY <2>2, <2>3 DEF Behind, Row
<1> QED  BY <1>2, <1>3, <1>10, <1>11

(* A piece of a split starts where the one before it ends: so many points  *)
(* on, and so many pieces.                                                 *)
Stride == SafeBudget - 1
Pieces(n) == (n + SafeBudget - 3) \div (SafeBudget - 1)

(* The last piece of a split has at least two points, and the pieces reach *)
(* the end (split_trajectory).                                             *)
LEMMA PieceCount ==
    ASSUME PipelineAssumption, NEW n \in Nat, n > SafeBudget
    PROVE  /\ Stride \in Nat \ {0} /\ Pieces(n) \in Nat \ {0}
           /\ (Pieces(n) - 1) * Stride + 2 <= n /\ n <= Pieces(n) * Stride + 1
<1>1. Stride \in Nat \ {0} /\ SafeBudget \in Nat /\ SafeBudget >= 2
  BY DEF PipelineAssumption, Stride
<1> DEFINE m == Stride
           q == (n + m - 2) \div m
<1>2. Pieces(n) = q
  <2>1. n + SafeBudget - 3 = n + m - 2 /\ SafeBudget - 1 = m
    BY <1>1 DEF Stride
  <2> QED  BY <2>1, Zenon DEF Pieces
<1> HIDE DEF m
<1>3. q \in Int /\ q * m <= n + m - 2 /\ n + m - 2 < q * m + m
  <2>1. m \in Nat \ {0} /\ n + m - 2 \in Int
    BY <1>1 DEF m
  <2> QED  BY <2>1
<1>4. n >= m + 2 /\ m \in Nat \ {0}
  BY <1>1 DEF m, Stride
<1> HIDE DEF q
<1>5. q >= 1
  BY <1>3, <1>4
<1>6. (q - 1) * m = q * m - m
  BY <1>3, <1>4
<1>7. (q - 1) * m + 2 <= n /\ n <= q * m + 1
  BY <1>3, <1>4, <1>6
<1> QED  BY <1>1, <1>2, <1>3, <1>5, <1>7 DEF m

(* Where the s-th piece begins and ends.                                   *)
LEMMA PieceEnds ==
    ASSUME PipelineAssumption, NEW n \in Nat, n > SafeBudget, NEW s \in 1 .. Pieces(n)
    PROVE  /\ (s - 1) * Stride \in Nat /\ s * Stride \in Nat
           /\ s * Stride = (s - 1) * Stride + Stride
           /\ (s - 1) * Stride + 2 <= n
           /\ s < Pieces(n) => s * Stride + 2 <= n
           /\ s = Pieces(n) => n <= s * Stride + 1
<1> DEFINE m == Stride
           q == Pieces(n)
<1>1. m \in Nat \ {0} /\ q \in Nat \ {0} /\ (q - 1) * m + 2 <= n /\ n <= q * m + 1
  BY PieceCount
<1>2. s \in 1 .. q
  OBVIOUS
<1> HIDE DEF m, q
<1>3. (s - 1) * m \in Nat /\ s * m \in Nat /\ s * m = (s - 1) * m + m
  BY <1>1, <1>2
<1>4. \A x, y \in Nat : x <= y => x * m <= y * m
  BY <1>1
<1>5. (s - 1) * m <= (q - 1) * m
  BY <1>1, <1>2, <1>4
<1>6. s < q => s * m <= (q - 1) * m
  BY <1>1, <1>2, <1>4
<1>7. (q - 1) * m \in Nat
  BY <1>1
<1>8. (s - 1) * m + 2 <= n
  BY <1>1, <1>3, <1>5, <1>7
<1>9. s < q => s * m + 2 <= n
  BY <1>1, <1>3, <1>6, <1>7
<1> QED  BY <1>1, <1>3, <1>8, <1>9 DEF m, q

(* The pieces of a split.                                                  *)
LEMMA SplitPieces ==
    ASSUME PipelineAssumption, NEW points \in Seq(Point), Len(points) > SafeBudget,
           NEW s \in 1 .. Pieces(Len(points))
    PROVE  LET p == Split(points)[s]
               o == (s - 1) * Stride
           IN  /\ p \in Trajectory /\ Len(p) \in 2 .. SafeBudget
               /\ o \in Nat /\ o + Len(p) <= Len(points)
               /\ \A k \in 1 .. Len(p) : /\ p[k].pos = points[o + k].pos
                                         /\ p[k].t = points[o + k].t - points[o + 1].t
               /\ s < Pieces(Len(points)) => o + Len(p) = s * Stride + 1
               /\ s = Pieces(Len(points)) => o + Len(p) = Len(points)
<1> DEFINE n == Len(points)
           o == (s - 1) * Stride
           b == Least(n, s * Stride + 1)
           piece == SubSeq(points, o + 1, b)
           by == -Head(piece).t
<1>1. n \in Nat /\ n > SafeBudget /\ SafeBudget \in Nat /\ Stride = SafeBudget - 1
  BY DEF Stride, PipelineAssumption
<1>2. /\ o \in Nat /\ s * Stride \in Nat /\ s * Stride = o + Stride /\ o + 2 <= n
      /\ s < Pieces(n) => s * Stride + 2 <= n
      /\ s = Pieces(n) => n <= s * Stride + 1
  BY <1>1, PieceEnds
<1>3. Split(points)[s] = Shift(piece, by)
  BY DEF Split, Stride, Pieces
<1>4. /\ b \in Nat /\ o + 2 <= b /\ b <= n /\ b <= o + SafeBudget
      /\ s < Pieces(n) => b = s * Stride + 1
      /\ s = Pieces(n) => b = n
  <2>1. Stride >= 1
    BY PieceCount, <1>1
  <2> QED  BY <1>1, <1>2, <2>1 DEF Least
<1> HIDE DEF n, o, b
<1>5. /\ piece \in Seq(Point) /\ Len(piece) = b - o
      /\ \A k \in 1 .. Len(piece) : piece[k] = points[o + k]
  <2>1. o + 1 \in Nat /\ b \in Nat /\ o + 1 >= 1 /\ b <= Len(points) /\ o + 1 <= b
    BY <1>2, <1>4 DEF n
  <2>2. piece = [i \in 1 .. (1 + b - (o + 1)) |-> points[i + (o + 1) - 1]]
    BY <2>1
  <2>3. 1 + b - (o + 1) = b - o /\ b - o \in Nat
    BY <1>2, <1>4
  <2>4. \A i \in 1 .. b - o : i + (o + 1) - 1 = o + i /\ o + i \in 1 .. Len(points)
    BY <1>2, <1>4 DEF n
  <2>5. \A i \in 1 .. b - o : points[o + i] \in Point
    BY <2>4
  <2>6. piece = [i \in 1 .. b - o |-> points[o + i]]
    <3> HIDE DEF piece
    <3> QED  BY <2>2, <2>3, <2>4
  <2> HIDE DEF piece
  <2> QED  BY <2>3, <2>5, <2>6
<1> HIDE DEF piece
<1>6. piece # <<>> /\ Len(piece) >= 2 /\ Head(piece) = points[o + 1] /\ Head(piece) \in Point
  <2>1. Len(piece) >= 2
    BY <1>2, <1>4, <1>5
  <2> QED  BY <1>5, <2>1
<1>7. by \in Int /\ by = -points[o + 1].t /\ points[o + 1].t \in Int
  BY <1>6 DEF Point
<1> HIDE DEF by
<1>8. /\ Shift(piece, by) \in Seq(Point) /\ Len(Shift(piece, by)) = Len(piece)
      /\ \A i \in 1 .. Len(piece) : /\ Shift(piece, by)[i].pos = piece[i].pos
                                    /\ Shift(piece, by)[i].t = piece[i].t + by
  BY <1>5, <1>7, Shifts
<1> DEFINE p == Shift(piece, by)
<1>9. p \in Trajectory /\ Len(p) = b - o
  BY <1>5, <1>6, <1>8 DEF Trajectory
<1>10. Len(p) \in 2 .. SafeBudget /\ o + Len(p) = b
  BY <1>1, <1>2, <1>4, <1>9
<1>11. ASSUME NEW k \in 1 .. Len(p)
       PROVE  p[k].pos = points[o + k].pos /\ p[k].t = points[o + k].t - points[o + 1].t
  <2>1. k \in 1 .. Len(piece) /\ piece[k] = points[o + k] /\ piece[k] \in Point
    BY <1>5, <1>8
  <2>2. piece[k].t \in Int
    BY <2>1 DEF Point
  <2> QED  BY <1>7, <1>8, <2>1, <2>2
<1> HIDE DEF p
<1>12. Split(points)[s] = p
  BY <1>3 DEF p
<1>13. /\ s < Pieces(n) => o + Len(p) = s * Stride + 1
       /\ s = Pieces(n) => o + Len(p) = n
       /\ o + Len(p) <= n
  BY <1>4, <1>10
<1> QED  BY <1>2, <1>9, <1>10, <1>11, <1>12, <1>13 DEF n, o

(* A point further on is later.                                            *)
LEMMA Later ==
    ASSUME NEW points \in Seq(Point), Ascending(points),
           NEW i \in 1 .. Len(points), NEW j \in 1 .. Len(points), i < j
    PROVE  points[i].t < points[j].t
<1> DEFINE Good == {d \in Nat : i + d + 1 <= Len(points) => points[i].t < points[i + d + 1].t}
<1>1. \A k \in 1 .. Len(points) : points[k].t \in Int
  BY PointAt
<1>2. 0 \in Good
  BY DEF Ascending
<1>3. ASSUME NEW d \in Nat, d \in Good PROVE d + 1 \in Good
  <2> SUFFICES ASSUME i + (d + 1) + 1 <= Len(points) PROVE points[i].t < points[i + (d + 1) + 1].t
    OBVIOUS
  <2> DEFINE k == i + d + 1
  <2>1. /\ k \in 1 .. Len(points) - 1 /\ k \in 1 .. Len(points) /\ k + 1 \in 1 .. Len(points)
        /\ i + (d + 1) + 1 = k + 1 /\ i + d + 1 <= Len(points)
    OBVIOUS
  <2>2. points[i].t < points[k].t
    BY <1>3, <2>1
  <2> HIDE DEF k
  <2>3. points[k].t < points[k + 1].t
    BY <2>1 DEF Ascending
  <2> QED  BY <1>1, <2>1, <2>2, <2>3
<1>4. Nat \subseteq Good
  <2> HIDE DEF Good
  <2> QED  BY <1>2, <1>3, Induction
<1>5. j - i - 1 \in Nat /\ i + (j - i - 1) + 1 = j
  OBVIOUS
<1> QED
  <2> DEFINE d == j - i - 1
  <2>1. d \in Good /\ i + d + 1 = j
    BY <1>4, <1>5
  <2> HIDE DEF d
  <2> QED  BY <2>1

(* A turn of a joint is a number, also of J6.                              *)
LEMMA TurnTypes ==
    ASSUME PipelineAssumption, NEW p \in Postures, NEW q \in Postures, NEW j \in 1 .. 3
    PROVE  Turn(p, q, j) \in Int
<1>1. p \in Int \X Int \X Int /\ q \in Int \X Int \X Int
  BY DEF PipelineAssumption
<1>2. p[j] \in Int /\ q[j] \in Int
  BY <1>1
<1> QED  BY <1>2 DEF Turn, Unwrapped

(* The turns of a trajectory, one between every two points.                *)
LEMMA TurnsTypes ==
    ASSUME PipelineAssumption, NEW points \in Trajectory, NEW j \in 1 .. 3
    PROVE  /\ Turns(points, j) \in Seq(Int) /\ Len(Turns(points, j)) = Len(points) - 1
           /\ \A i \in 1 .. Len(points) - 1 :
                 Turns(points, j)[i] = Turn(points[i].pos, points[i + 1].pos, j)
<1>1. Len(points) - 1 \in Nat /\ \A i \in 1 .. Len(points) : points[i].pos \in Postures
  <2>1. points \in Seq(Point) /\ Len(points) \in Nat \ {0}
    BY Ends
  <2> QED  BY <2>1, PointAt
<1>2. ASSUME NEW i \in 1 .. Len(points) - 1 PROVE Turn(points[i].pos, points[i + 1].pos, j) \in Int
  <2>1. i \in 1 .. Len(points) /\ i + 1 \in 1 .. Len(points)
    BY <1>1
  <2> QED  BY <1>1, <2>1, TurnTypes
<1> QED  BY <1>1, <1>2 DEF Turns

(* The points of p are points of a trajectory in a row, from o + 1 on.     *)
PieceOf(p, points, o) ==
    /\ p \in Trajectory /\ points \in Trajectory /\ o \in Nat
    /\ Len(p) >= 2 /\ o + Len(p) <= Len(points)
    /\ \A k \in 1 .. Len(p) : p[k].pos = points[o + k].pos

(* A piece of a plan that the wrist guard takes is one that it takes.      *)
LEMMA PieceIsSmooth ==
    ASSUME PipelineAssumption, NEW p, NEW points, NEW o, PieceOf(p, points, o), WristOk(points)
    PROVE  WristOk(p)
<1>1. /\ p \in Trajectory /\ points \in Trajectory /\ o \in Nat
      /\ Len(p) \in Nat /\ Len(points) \in Nat /\ o + Len(p) <= Len(points)
      /\ \A k \in 1 .. Len(p) : p[k].pos = points[o + k].pos
  BY Ends DEF PieceOf
<1>2. ASSUME NEW i \in 1 .. Len(p) - 1
      PROVE  /\ o + i \in 1 .. Len(points) - 1 /\ (o + i) + 1 = o + (i + 1)
             /\ p[i].pos = points[o + i].pos /\ p[i + 1].pos = points[o + i + 1].pos
  <2>1. i \in 1 .. Len(p) /\ i + 1 \in 1 .. Len(p) /\ o + i + 1 = o + (i + 1)
    BY <1>1
  <2> QED  BY <1>1, <2>1
<1>3. \A i \in 1 .. Len(p) - 1 : Smooth(p[i].pos, p[i + 1].pos)
  <2> TAKE i \in 1 .. Len(p) - 1
  <2>1. Smooth(points[o + i].pos, points[o + i + 1].pos)
    BY <1>2 DEF WristOk
  <2> QED  BY <1>2, <2>1
<1>4. ASSUME NEW j \in 2 .. 3 PROVE Reversals(p, j) <= MaxSignFlips
  <2> DEFINE seq == Turns(points, j)
             sub == Turns(p, j)
  <2>0. j \in 1 .. 3
    OBVIOUS
  <2>1. seq \in Seq(Int) /\ sub \in Seq(Int) /\ Len(seq) = Len(points) - 1 /\ Len(sub) = Len(p) - 1
    BY <1>1, <2>0, TurnsTypes
  <2>2. \A k \in 1 .. Len(sub) : sub[k] = seq[o + k]
    <3> TAKE k \in 1 .. Len(sub)
    <3>1. k \in 1 .. Len(p) - 1 /\ o + k \in 1 .. Len(points) - 1
      BY <1>1, <2>1
    <3>2. /\ sub[k] = Turn(p[k].pos, p[k + 1].pos, j)
          /\ seq[o + k] = Turn(points[o + k].pos, points[o + k + 1].pos, j)
      BY <1>1, <2>0, <3>1, TurnsTypes
    <3> QED  BY <1>2, <3>1, <3>2
  <2>3. o + Len(sub) <= Len(seq)
    BY <1>1, <2>1
  <2> HIDE DEF seq, sub
  <2>4. FoldLeft(Turned, AtRest, sub).worst <= FoldLeft(Turned, AtRest, seq).worst
    BY <1>1, <2>1, <2>2, <2>3, PieceTurns
  <2>5. Reversals(points, j) <= MaxSignFlips
    BY DEF WristOk
  <2>6. Reversals(p, j) <= Reversals(points, j)
    BY <2>4 DEF Reversals, seq, sub
  <2>7. Reversals(p, j) \in Nat /\ Reversals(points, j) \in Nat
    BY <2>1, WorstIsNat DEF Reversals, seq, sub
  <2> QED  BY <2>5, <2>6, <2>7 DEF PipelineAssumption
<1> QED  BY <1>3, <1>4 DEF WristOk

(* A piece of a plan that the guards and the quality gate take, short      *)
(* enough, passes the quality gate.                                        *)
LEMMA PieceIsSound ==
    ASSUME PipelineAssumption, NEW p, NEW points, NEW o, PieceOf(p, points, o), Healthy(points),
           TimesOk(p), Len(p) <= HardLimit
    PROVE  QualityOk(p)
<1>1. /\ p \in Trajectory /\ points \in Trajectory /\ o \in Nat
      /\ Len(p) \in Nat /\ Len(p) >= 2 /\ Len(points) \in Nat /\ o + Len(p) <= Len(points)
      /\ \A k \in 1 .. Len(p) : p[k].pos = points[o + k].pos
  BY Ends DEF PieceOf
<1>2. WristOk(p)
  BY PieceIsSmooth DEF Healthy
<1>3. \A k \in 1 .. Len(p) : o + k \in 1 .. Len(points)
  BY <1>1
<1>4. LimitsOk(p)
  BY <1>1, <1>3 DEF Healthy, LimitsOk
<1>5. \A k \in 1 .. Len(p) : Yoshikawa[p[k].pos] >= Floor
  BY <1>1, <1>3 DEF Healthy
<1>6. ManipulabilityOk(p)
  <2>1. p \in Seq(Point) /\ 1 \in 1 .. Len(p)
    BY <1>1, Ends
  <2>2. p[1].pos \in Postures
    BY <2>1, PointAt
  <2>3. Yoshikawa[p[1].pos] \in Nat /\ Floor \in Nat
    BY <2>2 DEF PipelineAssumption
  <2>4. ~(Yoshikawa[p[1].pos] < Floor)
    BY <1>5, <2>1, <2>3
  <2>5. \A k \in Samples(Len(p)) : k \in 1 .. Len(p)
    BY <1>1 DEF Samples
  <2> QED  BY <1>5, <2>4, <2>5 DEF ManipulabilityOk
<1> QED  BY <1>1, <1>2, <1>4, <1>6 DEF QualityOk

(* A sound straight or curved plan of any length has sound pieces.         *)
LEMMA LongPlansPass ==
    ASSUME PipelineAssumption, planned \in Trajectory, Len(planned) # 1,
           primitive \in GeometrySensitive, Healthy(planned)
    PROVE  ContractOk(Mitigated) /\ GateOk(Mitigated)
<1>1. /\ planned \in Seq(Point) /\ Len(planned) \in Nat /\ Len(planned) >= 2
      /\ SafeBudget \in Nat /\ HardLimit \in Nat /\ SafeBudget <= HardLimit
  <2>1. planned \in Seq(Point) /\ Len(planned) \in Nat \ {0}
    BY Ends
  <2>2. SafeBudget \in Nat /\ HardLimit \in Nat /\ SafeBudget <= HardLimit
    BY DEF PipelineAssumption
  <2>3. Len(planned) >= 2
    <3> DEFINE n == Len(planned)
    <3>1. n \in Nat \ {0} /\ n # 1
      BY <2>1
    <3> HIDE DEF n
    <3>2. n >= 2
      BY <3>1
    <3> QED  BY <3>2 DEF n
  <2> QED  BY <2>1, <2>2, <2>3
<1>2. CASE Len(planned) <= SafeBudget
  <2>1. Mitigated = <<planned>>
    BY <1>2 DEF Mitigated
  <2>2. PieceOf(planned, planned, 0)
    BY <1>1 DEF PieceOf
  <2>3. TimesOk(planned)
    BY DEF Healthy
  <2>4. QualityOk(planned)
    BY <1>1, <1>2, <2>2, <2>3, PieceIsSound
  <2>5. Len(<<planned>>) = 1 /\ <<planned>>[1] = planned /\ Head(<<planned>>) = planned /\ Last(<<planned>>) = planned
    BY DEF Last
  <2>6. \A s \in 1 .. 1 : s = 1
    OBVIOUS
  <2>7. 1 .. 1 - 1 = {}
    OBVIOUS
  <2> HIDE DEF Healthy
  <2> QED  BY <2>1, <2>3, <2>4, <2>5, <2>6, <2>7, Zenon DEF ContractOk, GateOk
<1>3. CASE Len(planned) > SafeBudget
  <2> DEFINE n == Len(planned)
             K == Pieces(n)
             o(s) == (s - 1) * Stride
             P(s) == Split(planned)[s]
  <2>1. Mitigated = Split(planned)
    BY <1>1, <1>3 DEF Mitigated
  <2>2. K \in Nat \ {0} /\ Stride \in Nat \ {0}
    BY <1>1, <1>3, PieceCount
  <2>3. Split(planned) = [s \in 1 .. K |-> P(s)] /\ Len(Split(planned)) = K
    <3>1. DOMAIN Split(planned) = 1 .. K
      BY DEF Split, Pieces
    <3>2. Split(planned) = [s \in 1 .. K |-> P(s)]
      BY <3>1 DEF Split, Pieces
    <3> HIDE DEF K, P
    <3> QED  BY <2>2, <3>2
  <2>4. ASSUME NEW s \in 1 .. K
        PROVE  /\ P(s) \in Trajectory /\ Len(P(s)) \in 2 .. SafeBudget
               /\ o(s) \in Nat /\ o(s) + Len(P(s)) <= n
               /\ \A k \in 1 .. Len(P(s)) : /\ P(s)[k].pos = planned[o(s) + k].pos
                                            /\ P(s)[k].t = planned[o(s) + k].t - planned[o(s) + 1].t
               /\ s < K => o(s) + Len(P(s)) = s * Stride + 1
               /\ s = K => o(s) + Len(P(s)) = n
    BY <1>1, <1>3, SplitPieces
  <2>5. o(1) = 0
    BY <2>2
  <2>6. \A s \in 1 .. K - 1 : o(s + 1) = s * Stride /\ s * Stride \in Nat
    BY <2>2
  <2> HIDE DEF K, P, o
  <2>7. ASSUME NEW s \in 1 .. K PROVE TimesOk(P(s)) /\ QualityOk(P(s))
    <3> DEFINE p == P(s)
               f == o(s)
    <3>1. /\ p \in Trajectory /\ Len(p) \in Nat /\ Len(p) >= 2 /\ Len(p) <= SafeBudget
          /\ f \in Nat /\ f + Len(p) <= Len(planned)
          /\ \A k \in 1 .. Len(p) : /\ p[k].pos = planned[f + k].pos
                                    /\ p[k].t = planned[f + k].t - planned[f + 1].t
      BY <2>4, <1>1
    <3> HIDE DEF p, f
    <3>2. Ascending(planned)
      BY DEF Healthy, TimesOk, Ascending
    <3>3. \A k \in 1 .. Len(p) : f + k \in 1 .. Len(planned) /\ planned[f + k].t \in Int
      <4> TAKE k \in 1 .. Len(p)
      <4>1. f + k \in 1 .. Len(planned)
        BY <1>1, <3>1
      <4> QED  BY <1>1, <4>1, PointAt
    <3>4. ASSUME NEW i \in 1 .. Len(p) - 1 PROVE p[i].t < p[i + 1].t
      <4>1. i \in 1 .. Len(p) /\ i + 1 \in 1 .. Len(p) /\ 1 \in 1 .. Len(p) /\ (f + i) + 1 = f + (i + 1)
        BY <3>1
      <4>2. f + i \in 1 .. Len(planned) - 1
        BY <3>1, <1>1
      <4>3. planned[f + i].t < planned[f + (i + 1)].t
        BY <3>2, <4>1, <4>2 DEF Ascending
      <4>4. planned[f + i].t \in Int /\ planned[f + (i + 1)].t \in Int /\ planned[f + 1].t \in Int
        BY <3>3, <4>1
      <4>5. p[i].t = planned[f + i].t - planned[f + 1].t /\ p[i + 1].t = planned[f + (i + 1)].t - planned[f + 1].t
        BY <3>1, <4>1
      <4> QED  BY <4>3, <4>4, <4>5
    <3>5. p[Len(p)].t > 0
      <4>1. Len(p) \in 1 .. Len(p) /\ 1 \in 1 .. Len(p) /\ f + 1 < f + Len(p)
        BY <3>1
      <4>2. planned[f + 1].t < planned[f + Len(p)].t
        BY <1>1, <3>2, <3>3, <4>1, Later
      <4>3. planned[f + 1].t \in Int /\ planned[f + Len(p)].t \in Int /\ p[Len(p)].t = planned[f + Len(p)].t - planned[f + 1].t
        BY <3>1, <3>3, <4>1
      <4> QED  BY <4>2, <4>3
    <3>6. TimesOk(p)
      BY <3>4, <3>5 DEF TimesOk
    <3>7. PieceOf(p, planned, f)
      BY <3>1 DEF PieceOf
    <3>8. QualityOk(p)
      BY <1>1, <3>1, <3>6, <3>7, PieceIsSound
    <3> QED  BY <3>6, <3>8 DEF p
  <2>8. GateOk(Split(planned))
    BY <2>3, <2>7 DEF GateOk
  <2>9. Head(Head(Split(planned))).pos = Head(planned).pos
    <3>1. Head(Split(planned)) = P(1) /\ 1 \in 1 .. K
      BY <2>2, <2>3
    <3>2. P(1) \in Trajectory /\ 1 \in 1 .. Len(P(1)) /\ P(1)[1].pos = planned[o(1) + 1].pos
      BY <2>4, <3>1
    <3>3. o(1) + 1 = 1
      BY <2>5
    <3> QED  BY <3>1, <3>2, <3>3, Ends
  <2>10. Last(Last(Split(planned))).pos = Last(planned).pos
    <3>1. Last(Split(planned)) = P(K) /\ K \in 1 .. K
      BY <2>2, <2>3 DEF Last
    <3>2. P(K) \in Trajectory /\ Len(P(K)) \in 1 .. Len(P(K)) /\ o(K) + Len(P(K)) = n
      BY <2>4, <3>1, <1>1
    <3>3. P(K)[Len(P(K))].pos = planned[n].pos
      BY <2>4, <3>1, <3>2
    <3> QED  BY <3>1, <3>2, <3>3, Ends
  <2>11. ASSUME NEW s \in 1 .. K - 1 PROVE Last(P(s)).pos = Head(P(s + 1)).pos
    <3>1. s \in 1 .. K /\ s + 1 \in 1 .. K /\ s < K
      BY <2>2
    <3>2. P(s) \in Trajectory /\ Len(P(s)) \in 1 .. Len(P(s)) /\ o(s) + Len(P(s)) = s * Stride + 1
      BY <2>4, <3>1, <1>1
    <3>3. P(s)[Len(P(s))].pos = planned[s * Stride + 1].pos
      BY <2>4, <3>1, <3>2
    <3>4. P(s + 1) \in Trajectory /\ 1 \in 1 .. Len(P(s + 1)) /\ P(s + 1)[1].pos = planned[o(s + 1) + 1].pos
      BY <2>4, <3>1, <1>1
    <3> QED  BY <2>6, <3>2, <3>3, <3>4, Ends
  <2>12. ContractOk(Split(planned))
    BY <2>2, <2>3, <2>7, <2>9, <2>10, <2>11 DEF ContractOk
  <2> QED  BY <2>1, <2>8, <2>12
<1> QED  BY <1>1, <1>2, <1>3

(* downsample_trajectory takes the first point, the last one and others    *)
(* between, each further on than the one before: rounding makes none       *)
(* twice.                                                                  *)
LEMMA IndexSpread ==
    ASSUME NEW n \in Nat, NEW m \in Nat, m >= 2, n > m, NEW i \in 0 .. m - 1
    PROVE  /\ Index(i, n, m) \in 0 .. n - 1
           /\ i < m - 1 => Index(i, n, m) < Index(i + 1, n, m)
           /\ i = 0 => Index(i, n, m) = 0
           /\ i = m - 1 => Index(i, n, m) = n - 1
<1> DEFINE c == n - 1
           e == m - 1
           d == 2 * e
           N(k) == 2 * k * c + e
           q(k) == N(k) \div d
<1>1. c \in Nat /\ e \in Nat \ {0} /\ c > e /\ d \in Nat \ {0} /\ i \in 0 .. e
  OBVIOUS
<1>2. \A k \in Nat : Index(k, n, m) = q(k)
  <2> TAKE k \in Nat
  <2>1. 2 * k * (n - 1) + m - 1 = N(k) /\ 2 * (m - 1) = d
    OBVIOUS
  <2> QED  BY <2>1, Zenon DEF Index
<1> HIDE DEF c, e
<1>3. \A k \in Nat : N(k) \in Nat
  BY <1>1
<1>4. ASSUME NEW k \in Nat PROVE q(k) \in Int /\ d * q(k) <= N(k) /\ N(k) < d * q(k) + d
  <2> DEFINE x == N(k)
  <2>1. x \in Nat
    BY <1>3
  <2> HIDE DEF x, d
  <2>2. x \div d \in Int /\ d * (x \div d) <= x /\ x < d * (x \div d) + d
    BY <1>1, <2>1
  <2> QED  BY <2>2 DEF x
<1> HIDE DEF q
<1>5. \A x, y \in Int : d * x < d * y => x < y
  <2> HIDE DEF d
  <2> QED  BY <1>1
<1>6. i < e => q(i) < q(i + 1)
  <2> SUFFICES ASSUME i < e PROVE q(i) < q(i + 1)
    OBVIOUS
  <2>1. N(i + 1) = N(i) + 2 * c
    BY <1>1
  <2>2. N(i) + d < N(i + 1)
    BY <1>1, <1>3, <2>1
  <2> DEFINE a == q(i)
             b == q(i + 1)
             x == N(i)
             y == N(i + 1)
  <2>3. /\ a \in Int /\ b \in Int /\ x \in Nat /\ y \in Nat
        /\ d * a <= x /\ y < d * b + d /\ x + d < y
    BY <1>1, <1>3, <1>4, <2>2
  <2> HIDE DEF a, b, x, y, d
  <2>4. d * (a + 1) = d * a + d /\ d * (b + 1) = d * b + d /\ d * a \in Int /\ d * b \in Int
    BY <1>1, <2>3
  <2>5. d * (a + 1) < d * (b + 1)
    BY <1>1, <2>3, <2>4
  <2>6. a + 1 < b + 1
    BY <1>5, <2>3, <2>5
  <2> QED  BY <2>3, <2>6 DEF a, b
<1>7. i = 0 => q(i) = 0
  <2> SUFFICES ASSUME i = 0 PROVE q(0) = 0
    OBVIOUS
  <2>1. N(0) = e
    BY <1>1
  <2>2. q(0) \in Int /\ d * q(0) <= e /\ e < d * q(0) + d
    BY <1>4, <2>1
  <2>3. d * q(0) < d * 1 /\ d * (-1) < d * q(0)
    BY <1>1, <2>2
  <2>4. q(0) < 1 /\ -1 < q(0)
    BY <1>5, <2>2, <2>3
  <2> QED  BY <2>2, <2>4
<1>8. \A k \in 0 .. e : N(k) <= d * c + e
  <2> TAKE k \in 0 .. e
  <2>1. k * c <= e * c
    BY <1>1
  <2>2. 2 * k * c = 2 * (k * c) /\ d * c = 2 * (e * c) /\ k * c \in Nat /\ e * c \in Nat
    BY <1>1
  <2> QED  BY <1>1, <2>1, <2>2
<1>9. q(i) \in 0 .. c
  <2> DEFINE a == q(i)
             x == N(i)
  <2>1. a \in Int /\ x \in Nat /\ d * a <= x /\ x < d * a + d /\ x <= d * c + e
    BY <1>1, <1>3, <1>4, <1>8
  <2>2. e < d
    BY <1>1
  <2> HIDE DEF a, x, d
  <2>3. d * a < d * (c + 1) /\ d * (-1) < d * a
    <3>1. d * (c + 1) = d * c + d /\ d * (-1) = -d /\ d * a \in Int /\ d * c \in Int
      BY <1>1, <2>1
    <3> QED  BY <1>1, <2>1, <2>2, <3>1
  <2>4. a < c + 1 /\ -1 < a
    BY <1>1, <1>5, <2>1, <2>3
  <2> QED  BY <1>1, <2>1, <2>4 DEF a
<1>10. i = e => q(i) = c
  <2> SUFFICES ASSUME i = e PROVE q(e) = c
    OBVIOUS
  <2>1. N(e) = d * c + e
    BY <1>1
  <2> DEFINE a == q(e)
  <2>2. a \in Int /\ d * c + e < d * a + d
    BY <1>1, <1>4, <2>1
  <2> HIDE DEF a, d
  <2>3. d * c < d * (a + 1)
    <3>1. d * (a + 1) = d * a + d /\ d * a \in Int /\ d * c \in Int
      BY <1>1, <2>2
    <3> QED  BY <1>1, <2>2, <3>1
  <2>4. c < a + 1
    BY <1>1, <1>5, <2>2, <2>3
  <2>5. a <= c
    BY <1>1, <1>9 DEF a
  <2> QED  BY <1>1, <2>2, <2>4, <2>5 DEF a
<1> QED  BY <1>1, <1>2, <1>6, <1>7, <1>9, <1>10 DEF c, e

(* The legs on which segments are run, and the plans that are run in more  *)
(* than one.                                                               *)
Running == {"send", "preflight", "commit"}
SplitUp == primitive \in GeometrySensitive /\ Len(planned) > SafeBudget

(* Before the next segment the arm has been driven through the plan up to  *)
(* where that segment starts.                                              *)
DrivenSoFar ==
    IF sent = 0 THEN driven = <<>>
    ELSE SplitUp /\ driven = [i \in 1 .. sent * Stride + 1 |-> planned[i].pos]

(* What the legs leave for one another: the parts, the plan and its        *)
(* segments, which the contract and the quality gate have taken, and how   *)
(* far they are.                                                           *)
PlannedOk ==
    /\ leg \in {"plan", "retime", "budget", "done"} \cup Running
    /\ parts \in Seq(Trajectory) /\ Len(parts) >= 1
    /\ leg = "plan" => planned = <<>>
    /\ leg \notin {"plan", "done"} => planned \in Trajectory
    /\ leg # "done" => verdict = Pending
    /\ leg \in {"plan", "retime", "budget"} => sent = 0 /\ driven = <<>>
    /\ leg \in Running =>
          /\ segments = Mitigated /\ ContractOk(segments) /\ GateOk(segments)
          /\ sent \in Nat /\ sent < Len(segments)
          /\ DrivenSoFar

(* A downsampled plan has as many points as the budget, all of the plan.   *)
LEMMA DownsampledPlan ==
    ASSUME PipelineAssumption, NEW points \in Trajectory, Len(points) > SafeBudget
    PROVE  /\ Downsampled(points) \in Trajectory /\ Len(Downsampled(points)) = SafeBudget
           /\ \A k \in 1 .. SafeBudget :
                 /\ Index(k - 1, Len(points), SafeBudget) + 1 \in 1 .. Len(points)
                 /\ Downsampled(points)[k] = points[Index(k - 1, Len(points), SafeBudget) + 1]
<1> DEFINE f(k) == Index(k - 1, Len(points), SafeBudget) + 1
<1>1. SafeBudget \in Nat /\ SafeBudget >= 2
  BY DEF PipelineAssumption
<1>2. points \in Seq(Point) /\ Len(points) \in Nat
  BY Ends
<1>3. ASSUME NEW k \in 1 .. SafeBudget PROVE f(k) \in 1 .. Len(points)
  <2>1. k - 1 \in 0 .. SafeBudget - 1
    BY <1>1
  <2>2. Index(k - 1, Len(points), SafeBudget) \in 0 .. Len(points) - 1
    BY <1>1, <1>2, <2>1, IndexSpread
  <2> QED  BY <1>2, <2>2
<1> HIDE DEF f
<1>4. Downsampled(points) = [k \in 1 .. SafeBudget |-> points[f(k)]]
  BY DEF Downsampled, f
<1>5. \A k \in 1 .. SafeBudget : points[f(k)] \in Point
  BY <1>2, <1>3
<1>6. Downsampled(points) \in Seq(Point) /\ Len(Downsampled(points)) = SafeBudget
  BY <1>1, <1>4, <1>5
<1>7. Downsampled(points) # <<>>
  BY <1>1, <1>6
<1> QED  BY <1>3, <1>4, <1>6, <1>7 DEF Trajectory, f

(* What becomes of a plan: itself, a selection of its points or its        *)
(* pieces.                                                                 *)
LEMMA MitigatedPieces ==
    ASSUME PipelineAssumption, planned \in Trajectory
    PROVE  /\ Mitigated \in Seq(Trajectory) /\ Len(Mitigated) >= 1
           /\ ~SplitUp =>
                 /\ Len(Mitigated) = 1
                 /\ Mitigated[1] = IF Len(planned) <= SafeBudget THEN planned ELSE Downsampled(planned)
           /\ SplitUp => Len(Mitigated) = Pieces(Len(planned)) /\ Mitigated = Split(planned)
<1>1. Len(planned) \in Nat /\ SafeBudget \in Nat
  BY Ends DEF PipelineAssumption
<1>2. CASE Len(planned) <= SafeBudget
  <2>1. Mitigated = <<planned>>
    BY <1>2 DEF Mitigated
  <2> QED  BY <1>1, <1>2, <2>1 DEF SplitUp
<1>3. CASE Len(planned) > SafeBudget /\ primitive \notin GeometrySensitive
  <2>1. Mitigated = <<Downsampled(planned)>>
    BY <1>1, <1>3 DEF Mitigated
  <2>2. Downsampled(planned) \in Trajectory
    BY <1>3, DownsampledPlan
  <2> QED  BY <1>1, <1>3, <2>1, <2>2 DEF SplitUp
<1>4. CASE Len(planned) > SafeBudget /\ primitive \in GeometrySensitive
  <2> DEFINE K == Pieces(Len(planned))
             P(s) == Split(planned)[s]
  <2>1. Mitigated = Split(planned)
    BY <1>1, <1>4 DEF Mitigated
  <2>2. K \in Nat \ {0}
    BY <1>1, <1>4, PieceCount
  <2>3. DOMAIN Split(planned) = 1 .. K
    BY DEF Split, Pieces
  <2>4. Split(planned) = [s \in 1 .. K |-> P(s)]
    BY <2>3 DEF Split, Pieces
  <2>5. \A s \in 1 .. K : P(s) \in Trajectory
    BY <1>4, SplitPieces, Ends
  <2> HIDE DEF K, P
  <2>6. Split(planned) \in Seq(Trajectory) /\ Len(Split(planned)) = K
    BY <2>2, <2>4, <2>5
  <2> QED  BY <1>4, <2>1, <2>2, <2>6 DEF SplitUp, K
<1> QED  BY <1>1, <1>2, <1>3, <1>4

(* The segment that is next.                                               *)
LEMMA NextSegment ==
    ASSUME PipelineAssumption, PlannedOk, leg \in Running
    PROVE  /\ Segment \in Trajectory /\ Len(Segment) >= 2 /\ QualityOk(Segment)
           /\ ~SplitUp => /\ sent = 0 /\ Len(segments) = 1
                          /\ Segment = IF Len(planned) <= SafeBudget THEN planned ELSE Downsampled(planned)
           /\ SplitUp =>
                 LET o == sent * Stride IN
                 /\ o \in Nat /\ o + Len(Segment) <= Len(planned)
                 /\ \A k \in 1 .. Len(Segment) : Segment[k].pos = planned[o + k].pos
                 /\ sent + 1 < Len(segments) => o + Len(Segment) = (sent + 1) * Stride + 1
                 /\ sent + 1 = Len(segments) => o + Len(Segment) = Len(planned)
<1>1. /\ planned \in Trajectory /\ segments = Mitigated /\ GateOk(segments)
      /\ sent \in Nat /\ sent < Len(segments)
  BY DEF PlannedOk, Running
<1>2. segments \in Seq(Trajectory) /\ Len(segments) \in Nat
  BY <1>1, MitigatedPieces
<1>3. sent + 1 \in 1 .. Len(segments)
  BY <1>1, <1>2
<1>4. Segment \in Trajectory /\ QualityOk(Segment)
  BY <1>1, <1>2, <1>3 DEF Segment, GateOk
<1>5. Len(Segment) >= 2
  BY <1>4 DEF QualityOk
<1>6. CASE ~SplitUp
  <2>1. Len(segments) = 1 /\ segments[1] = IF Len(planned) <= SafeBudget THEN planned ELSE Downsampled(planned)
    BY <1>1, <1>6, MitigatedPieces
  <2>2. sent = 0
    BY <1>1, <2>1
  <2> QED  BY <1>4, <1>5, <1>6, <2>1, <2>2 DEF Segment
<1>7. CASE SplitUp
  <2>1. Len(segments) = Pieces(Len(planned)) /\ segments = Split(planned)
    BY <1>1, <1>7, MitigatedPieces
  <2>2. planned \in Seq(Point) /\ Len(planned) > SafeBudget
    BY <1>1, <1>7, Ends DEF SplitUp
  <2> DEFINE s == sent + 1
  <2>3. s \in 1 .. Pieces(Len(planned)) /\ s - 1 = sent
    BY <1>1, <1>3, <2>1
  <2>4. Segment = Split(planned)[s]
    BY <2>1 DEF Segment
  <2> HIDE DEF s
  <2>5. LET p == Split(planned)[s]
            o == (s - 1) * Stride
        IN  /\ o \in Nat /\ o + Len(p) <= Len(planned)
            /\ \A k \in 1 .. Len(p) : p[k].pos = planned[o + k].pos
            /\ s < Pieces(Len(planned)) => o + Len(p) = s * Stride + 1
            /\ s = Pieces(Len(planned)) => o + Len(p) = Len(planned)
    BY <2>2, <2>3, SplitPieces
  <2> QED  BY <1>4, <1>5, <1>7, <2>1, <2>3, <2>4, <2>5 DEF s
<1> QED  BY <1>6, <1>7

(* Where the first n points of the next segment take the arm.              *)
LEMMA DrivenAhead ==
    ASSUME PipelineAssumption, PlannedOk, leg \in Running, arm = Head(Segment).pos,
           NEW n \in 1 .. Len(Segment)
    PROVE  LET new == Driven(SubSeq(Segment, 1, n)) IN
           /\ SplitUp => new = [i \in 1 .. sent * Stride + n |-> planned[i].pos]
           /\ ~SplitUp => new = [i \in 1 .. n |-> Segment[i].pos]
<1> DEFINE points == SubSeq(Segment, 1, n)
           o == sent * Stride
<1>1. Segment \in Trajectory /\ Segment \in Seq(Point) /\ Len(Segment) \in Nat /\ Head(Segment) = Segment[1]
  BY NextSegment, Ends
<1>2. n \in Nat /\ n >= 1 /\ n <= Len(Segment)
  BY <1>1
<1>3. /\ points \in Seq(Point) /\ Len(points) = n
      /\ \A i \in 1 .. n : points[i] = Segment[i]
  <2>1. points = [i \in 1 .. (1 + n - 1) |-> Segment[i + 1 - 1]]
    BY <1>1, <1>2
  <2>2. 1 + n - 1 = n /\ \A i \in 1 .. n : i + 1 - 1 = i
    BY <1>2
  <2>3. points = [i \in 1 .. n |-> Segment[i]]
    <3> HIDE DEF points
    <3> QED  BY <2>1, <2>2
  <2>4. \A i \in 1 .. n : Segment[i] \in Point
    BY <1>1, <1>2
  <2> HIDE DEF points
  <2> QED  BY <1>2, <2>3, <2>4
<1> HIDE DEF points
<1>4. Head(points) = Segment[1]
  BY <1>2, <1>3
<1>5. arm = Head(points).pos
  BY <1>1, <1>4
<1> DEFINE path == Positions(points)
<1>6. /\ path = [i \in 1 .. n |-> Segment[i].pos] /\ path \in Seq(Postures) /\ Len(path) = n
      /\ Head(path) = Segment[1].pos
  <2>1. path = [i \in 1 .. n |-> Segment[i].pos]
    BY <1>3 DEF Positions
  <2>2. \A i \in 1 .. n : Segment[i].pos \in Postures
    BY <1>1, <1>2, PointAt
  <2> HIDE DEF path
  <2> QED  BY <1>2, <2>1, <2>2
<1>7. Driven(points) = driven \o (IF driven # <<>> /\ Last(driven) = Head(path) THEN Tail(path) ELSE path)
  BY <1>5 DEF Driven
<1> HIDE DEF path
<1>8. sent \in Nat /\ DrivenSoFar /\ planned \in Trajectory
  BY DEF PlannedOk, Running
<1>9. CASE sent = 0
  <2>1. driven = <<>>
    BY <1>8, <1>9 DEF DrivenSoFar
  <2>2. Driven(points) = path
    BY <1>6, <1>7, <2>1
  <2>3. SplitUp => path = [i \in 1 .. sent * Stride + n |-> planned[i].pos]
    <3> SUFFICES ASSUME SplitUp PROVE path = [i \in 1 .. sent * Stride + n |-> planned[i].pos]
      OBVIOUS
    <3>1. Stride \in Int
      BY DEF PipelineAssumption, Stride
    <3>2. sent * Stride = 0
      BY <1>9, <3>1
    <3>3. \A k \in 1 .. Len(Segment) : Segment[k].pos = planned[0 + k].pos
      BY <3>2, NextSegment
    <3>4. \A k \in 1 .. n : k \in 1 .. Len(Segment) /\ 0 + k = k
      BY <1>1, <1>2
    <3>5. 0 + n = n
      BY <1>2
    <3> QED  BY <1>6, <3>2, <3>3, <3>4, <3>5
  <2> QED  BY <1>6, <2>2, <2>3 DEF points
<1>10. CASE sent # 0
  <2>1. SplitUp /\ driven = [i \in 1 .. o + 1 |-> planned[i].pos]
    BY <1>8, <1>10 DEF DrivenSoFar
  <2>2. /\ o \in Nat /\ o + Len(Segment) <= Len(planned)
        /\ \A k \in 1 .. Len(Segment) : Segment[k].pos = planned[o + k].pos
    BY <2>1, NextSegment
  <2>3. planned \in Seq(Point) /\ Len(planned) \in Nat
    BY <1>8, Ends
  <2> HIDE DEF o
  <2>4. \A i \in 1 .. o + n : i \in 1 .. Len(planned)
    BY <1>1, <1>2, <2>2, <2>3
  <2>5. \A i \in 1 .. o + n : planned[i].pos \in Postures
    BY <2>3, <2>4, PointAt
  <2>6. /\ driven \in Seq(Postures) /\ Len(driven) = o + 1
        /\ \A i \in 1 .. o + 1 : driven[i] = planned[i].pos
    <3>1. \A i \in 1 .. o + 1 : i \in 1 .. o + n
      BY <1>2, <2>2
    <3> QED  BY <2>1, <2>2, <2>5, <3>1
  <2>7. driven # <<>> /\ Last(driven) = Head(path)
    <3>1. o + 1 \in 1 .. o + 1 /\ 1 \in 1 .. Len(Segment)
      BY <1>1, <1>2, <2>2
    <3> QED  BY <1>6, <2>2, <2>6, <3>1 DEF Last
  <2>8. Driven(points) = driven \o Tail(path)
    BY <1>7, <2>7
  <2>9. /\ Tail(path) \in Seq(Postures) /\ Len(Tail(path)) = n - 1
        /\ \A i \in 1 .. n - 1 : Tail(path)[i] = path[i + 1]
    BY <1>2, <1>6
  <2>10. /\ driven \o Tail(path) \in Seq(Postures)
         /\ Len(driven \o Tail(path)) = o + n
         /\ driven \o Tail(path) = [i \in 1 .. o + n |-> (driven \o Tail(path))[i]]
    <3> DEFINE t == Tail(path)
    <3>1. driven \in Seq(Postures) /\ t \in Seq(Postures) /\ Len(driven) = o + 1 /\ Len(t) = n - 1
      BY <2>6, <2>9
    <3>2. (o + 1) + (n - 1) = o + n /\ o + n \in Nat
      BY <1>2, <2>2
    <3> HIDE DEF t
    <3>3. driven \o t \in Seq(Postures) /\ Len(driven \o t) = o + n
      BY <3>1, <3>2
    <3>4. driven \o t = [i \in 1 .. o + n |-> (driven \o t)[i]]
      <4> DEFINE c == driven \o t
      <4>1. c \in Seq(Postures) /\ Len(c) = o + n
        BY <3>3
      <4> HIDE DEF c
      <4>2. c = [i \in 1 .. o + n |-> c[i]]
        BY <4>1
      <4> QED  BY <4>2 DEF c
    <3> QED  BY <3>3, <3>4 DEF t
  <2>11. ASSUME NEW i \in 1 .. o + n PROVE (driven \o Tail(path))[i] = planned[i].pos
    <3>1. CASE i <= o + 1
      <4>1. i \in 1 .. o + 1
        BY <2>2, <3>1
      <4>2. (driven \o Tail(path))[i] = driven[i]
        BY <2>6, <2>9, <4>1
      <4> QED  BY <2>6, <4>1, <4>2
    <3>2. CASE i > o + 1
      <4> DEFINE j == i - (o + 1)
      <4>1. j \in 1 .. n - 1 /\ i = (o + 1) + j /\ o + (j + 1) = i /\ j + 1 \in 1 .. n
        BY <1>2, <2>2, <3>2
      <4> HIDE DEF j
      <4>2. (driven \o Tail(path))[i] = Tail(path)[j]
        BY <2>2, <2>6, <2>9, <4>1
      <4>3. Tail(path)[j] = path[j + 1] /\ path[j + 1] = Segment[j + 1].pos
        BY <1>6, <2>9, <4>1
      <4>4. Segment[j + 1].pos = planned[o + (j + 1)].pos
        BY <1>1, <1>2, <2>2, <4>1
      <4> QED  BY <4>1, <4>2, <4>3, <4>4
    <3>3. o \in Nat /\ i \in Int
      BY <2>2
    <3>4. i <= o + 1 \/ i > o + 1
      BY <3>3
    <3> QED  BY <3>1, <3>2, <3>4
  <2>12. driven \o Tail(path) = [i \in 1 .. o + n |-> planned[i].pos]
    BY <2>10, <2>11, Zenon
  <2> QED  BY <2>1, <2>8, <2>12 DEF points, o
<1> QED  BY <1>9, <1>10

(* No two postures in a row are a jump apart.                              *)
JumpFree(path) == \A i \in 1 .. Len(path) - 1 : Smooth(path[i], path[i + 1])

(* The segment continues what has been driven without a jump.              *)
LEMMA NoJumpAhead ==
    ASSUME PipelineAssumption, PlannedOk, NoJump, leg \in Running, arm = Head(Segment).pos,
           NEW n \in 1 .. Len(Segment)
    PROVE  JumpFree(Driven(SubSeq(Segment, 1, n)))
<1> DEFINE new == Driven(SubSeq(Segment, 1, n))
<1>1. Segment \in Trajectory /\ Len(Segment) \in Nat /\ WristOk(Segment)
  BY NextSegment, Ends DEF QualityOk
<1>2. /\ SplitUp => new = [i \in 1 .. sent * Stride + n |-> planned[i].pos]
      /\ ~SplitUp => new = [i \in 1 .. n |-> Segment[i].pos]
  BY DrivenAhead
<1> HIDE DEF new
<1>3. \A k \in 1 .. n - 1 : /\ k \in 1 .. Len(Segment) /\ k + 1 \in 1 .. Len(Segment)
                            /\ Smooth(Segment[k].pos, Segment[k + 1].pos)
  <2> TAKE k \in 1 .. n - 1
  <2>1. k \in 1 .. Len(Segment) - 1 /\ k \in 1 .. Len(Segment) /\ k + 1 \in 1 .. Len(Segment)
    BY <1>1
  <2> QED  BY <1>1, <2>1 DEF WristOk
<1>4. CASE ~SplitUp
  <2>1. Len(new) = n
    BY <1>1, <1>2, <1>4
  <2>2. \A i \in 1 .. n - 1 : i \in 1 .. n /\ i + 1 \in 1 .. n
    BY <1>1
  <2> QED  BY <1>2, <1>3, <1>4, <2>1, <2>2 DEF JumpFree, new
<1>5. CASE SplitUp
  <2> DEFINE o == sent * Stride
  <2>1. o \in Nat /\ \A k \in 1 .. Len(Segment) : Segment[k].pos = planned[o + k].pos
    BY <1>5, NextSegment
  <2>2. sent \in Nat /\ (sent # 0 => driven = [i \in 1 .. o + 1 |-> planned[i].pos])
    BY DEF PlannedOk, Running, DrivenSoFar
  <2>3. sent = 0 => o = 0
    BY DEF PipelineAssumption, Stride
  <2> HIDE DEF o
  <2>4. Len(new) = o + n /\ \A i \in 1 .. o + n : new[i] = planned[i].pos
    BY <1>1, <1>2, <1>5, <2>1 DEF o
  <2>5. ASSUME NEW i \in 1 .. o + n - 1 PROVE Smooth(planned[i].pos, planned[i + 1].pos)
    <3>1. CASE i <= o
      <4>1. sent # 0 /\ driven = [k \in 1 .. o + 1 |-> planned[k].pos]
        BY <2>2, <2>3, <3>1
      <4>2. Len(driven) = o + 1 /\ i \in 1 .. Len(driven) - 1 /\ i \in 1 .. o + 1 /\ i + 1 \in 1 .. o + 1
        BY <2>1, <3>1, <4>1
      <4>3. Smooth(driven[i], driven[i + 1])
        BY <4>2 DEF NoJump
      <4> QED  BY <4>1, <4>2, <4>3
    <3>2. CASE i > o
      <4> DEFINE k == i - o
      <4>1. k \in 1 .. n - 1 /\ i = o + k /\ i + 1 = o + (k + 1)
        BY <1>1, <2>1, <3>2
      <4> HIDE DEF k
      <4>2. Smooth(Segment[k].pos, Segment[k + 1].pos) /\ k \in 1 .. Len(Segment) /\ k + 1 \in 1 .. Len(Segment)
        BY <1>3, <4>1
      <4>3. Segment[k].pos = planned[i].pos /\ Segment[k + 1].pos = planned[i + 1].pos
        BY <2>1, <4>1, <4>2
      <4> QED  BY <4>2, <4>3
    <3> QED  BY <2>1, <3>1, <3>2
  <2>6. \A i \in 1 .. o + n - 1 : i \in 1 .. o + n /\ i + 1 \in 1 .. o + n
    BY <1>1, <2>1
  <2>7. ASSUME NEW i \in 1 .. o + n - 1 PROVE Smooth(new[i], new[i + 1])
    <3>1. i \in 1 .. o + n /\ i + 1 \in 1 .. o + n
      BY <2>6
    <3>2. new[i] = planned[i].pos /\ new[i + 1] = planned[i + 1].pos
      BY <2>4, <3>1
    <3>3. Smooth(planned[i].pos, planned[i + 1].pos)
      BY <2>5
    <3> QED  BY <3>2, <3>3
  <2>8. Len(new) = o + n
    BY <2>4
  <2>9. JumpFree(new)
    <3>1. \A i \in 1 .. Len(new) - 1 : i \in 1 .. o + n - 1
      BY <1>1, <2>1, <2>8
    <3> QED  BY <2>7, <3>1 DEF JumpFree
  <2> QED  BY <2>9 DEF new
<1> QED  BY <1>4, <1>5

(* All points of a segment are the segment.                                *)
LEMMA WholeSegment ==
    ASSUME NEW p \in Trajectory
    PROVE  SubSeq(p, 1, Len(p)) = p /\ Len(p) \in 1 .. Len(p)
<1>1. p \in Seq(Point) /\ Len(p) \in Nat \ {0}
  BY Ends
<1>2. SubSeq(p, 1, Len(p)) = [i \in 1 .. (1 + Len(p) - 1) |-> p[i + 1 - 1]]
  BY <1>1
<1>3. 1 + Len(p) - 1 = Len(p) /\ \A i \in 1 .. Len(p) : i + 1 - 1 = i
  BY <1>1
<1>4. p = [i \in 1 .. Len(p) |-> p[i]]
  BY <1>1
<1> QED  BY <1>1, <1>2, <1>3, <1>4

(* Some of the postures of a path, in its order, with both ends.           *)
FollowsThePath(new, path) ==
    /\ Head(new) = Head(path) /\ Last(new) = Last(path)
    /\ \E f \in [1 .. Len(new) -> 1 .. Len(path)] :
          /\ \A i \in 1 .. Len(new) : new[i] = path[f[i]]
          /\ \A i \in 1 .. Len(new) - 1 : f[i] < f[i + 1]

(* Points taken further and further along a path follow it.                *)
LEMMA SelectionFollows ==
    ASSUME NEW path \in Seq(Postures), NEW new \in Seq(Postures),
           NEW f \in [1 .. Len(new) -> 1 .. Len(path)],
           Len(path) >= 1, Len(new) >= 1,
           \A i \in 1 .. Len(new) : new[i] = path[f[i]],
           \A i \in 1 .. Len(new) - 1 : f[i] < f[i + 1],
           f[1] = 1, f[Len(new)] = Len(path)
    PROVE  FollowsThePath(new, path)
<1>1. Head(new) = new[1] /\ Head(path) = path[1] /\ 1 \in 1 .. Len(new) /\ Len(new) \in 1 .. Len(new)
  OBVIOUS
<1>2. new[1] = path[1] /\ new[Len(new)] = path[Len(path)]
  BY <1>1
<1> QED  BY <1>1, <1>2 DEF FollowsThePath, Last

(* The whole of the last segment ends the path.                            *)
LEMMA LastSegmentEnds ==
    ASSUME PipelineAssumption, PlannedOk, leg \in Running, arm = Head(Segment).pos,
           sent + 1 = Len(segments)
    PROVE  IF primitive \in GeometrySensitive THEN Driven(Segment) = Positions(planned)
           ELSE FollowsThePath(Driven(Segment), Positions(planned))
<1> DEFINE new == Driven(Segment)
           path == Positions(planned)
           n == Len(planned)
<1>1. planned \in Trajectory /\ planned \in Seq(Point) /\ n \in Nat /\ n >= 1
  <2>1. planned \in Trajectory
    BY DEF PlannedOk, Running
  <2> QED  BY <2>1, Ends
<1>2. Segment \in Trajectory /\ SubSeq(Segment, 1, Len(Segment)) = Segment /\ Len(Segment) \in 1 .. Len(Segment)
  BY NextSegment, WholeSegment
<1>3. /\ SplitUp => new = [i \in 1 .. sent * Stride + Len(Segment) |-> planned[i].pos]
      /\ ~SplitUp => new = [i \in 1 .. Len(Segment) |-> Segment[i].pos]
  BY <1>2, DrivenAhead
<1>4. path = [i \in 1 .. n |-> planned[i].pos]
  BY DEF Positions
<1> HIDE DEF new
<1>5. CASE SplitUp
  <2>1. sent * Stride + Len(Segment) = Len(planned)
    BY <1>5, NextSegment
  <2>2. new = path
    BY <1>3, <1>4, <1>5, <2>1
  <2> QED  BY <1>5, <2>2 DEF SplitUp, new
<1>6. CASE ~SplitUp /\ primitive \in GeometrySensitive
  <2>1. SafeBudget \in Nat
    BY DEF PipelineAssumption
  <2>2. Len(planned) <= SafeBudget
    BY <1>1, <1>6, <2>1 DEF SplitUp
  <2>3. Segment = planned
    BY <1>6, <2>2, NextSegment
  <2> QED  BY <1>3, <1>4, <1>6, <2>3 DEF new
<1>7. CASE primitive \notin GeometrySensitive
  <2>1. /\ Segment = IF Len(planned) <= SafeBudget THEN planned ELSE Downsampled(planned)
        /\ new = [i \in 1 .. Len(Segment) |-> Segment[i].pos]
    BY <1>3, <1>7, NextSegment DEF SplitUp
  <2>2. path \in Seq(Postures) /\ Len(path) = n /\ \A i \in 1 .. n : path[i] = planned[i].pos
    <3>1. \A i \in 1 .. n : planned[i].pos \in Postures
      BY <1>1, PointAt
    <3> HIDE DEF n, path
    <3> QED  BY <1>1, <1>4, <3>1
  <2>3. CASE Len(planned) <= SafeBudget
    <3>1. new = path
      BY <1>4, <2>1, <2>3
    <3> DEFINE f == [i \in 1 .. n |-> i]
    <3>2. /\ f \in [1 .. n -> 1 .. n] /\ f[1] = 1 /\ f[n] = n
          /\ \A i \in 1 .. n : path[i] = path[f[i]]
          /\ \A i \in 1 .. n - 1 : f[i] < f[i + 1]
      <4> HIDE DEF n, path
      <4> QED  BY <1>1
    <3> HIDE DEF f, n, path
    <3>3. FollowsThePath(path, path)
      BY <1>1, <2>2, <3>2, SelectionFollows
    <3> QED  BY <1>7, <3>1, <3>3 DEF new, path
  <2>4. CASE ~(Len(planned) <= SafeBudget)
    <3> DEFINE m == SafeBudget
               f == [k \in 1 .. m |-> Index(k - 1, n, m) + 1]
    <3>1. m \in Nat /\ m >= 2 /\ n > m
      BY <1>1, <2>4 DEF PipelineAssumption
    <3>2. Segment = Downsampled(planned) /\ Len(Segment) = m
      BY <1>1, <2>1, <2>4, <3>1, DownsampledPlan
    <3>3. \A k \in 1 .. m : f[k] \in 1 .. n /\ Segment[k] = planned[f[k]]
      <4>1. \A k \in 1 .. m : /\ Index(k - 1, n, m) + 1 \in 1 .. n
                              /\ Downsampled(planned)[k] = planned[Index(k - 1, n, m) + 1]
        BY <1>1, <3>1, DownsampledPlan
      <4> QED  BY <3>2, <4>1
    <3>4. f \in [1 .. m -> 1 .. n]
      <4>1. f = [k \in 1 .. m |-> f[k]]
        OBVIOUS
      <4> HIDE DEF f
      <4> QED  BY <3>3, <4>1
    <3>5. f[1] = 1 /\ f[m] = n
      <4>1. f[1] = Index(0, n, m) + 1 /\ f[m] = Index(m - 1, n, m) + 1
        <5>1. 1 \in 1 .. m /\ m \in 1 .. m /\ 1 - 1 = 0
          BY <3>1
        <5> HIDE DEF m, n
        <5> QED  BY <5>1
      <4>2. Index(0, n, m) = 0 /\ Index(m - 1, n, m) = n - 1
        <5>1. 0 \in 0 .. m - 1 /\ m - 1 \in 0 .. m - 1
          BY <3>1
        <5> QED  BY <1>1, <3>1, <5>1, IndexSpread
      <4> QED  BY <1>1, <4>1, <4>2
    <3>6. ASSUME NEW k \in 1 .. m - 1 PROVE f[k] < f[k + 1]
      <4>1. k - 1 \in 0 .. m - 1 /\ k - 1 < m - 1 /\ (k - 1) + 1 = (k + 1) - 1
            /\ k \in 1 .. m /\ k + 1 \in 1 .. m
        BY <3>1
      <4>2. Index(k - 1, n, m) < Index((k - 1) + 1, n, m)
        BY <1>1, <3>1, <4>1, IndexSpread
      <4>3. f[k] = Index(k - 1, n, m) + 1 /\ f[k + 1] = Index((k + 1) - 1, n, m) + 1
        <5> HIDE DEF m, n
        <5> QED  BY <4>1
      <4>4. f[k] \in 1 .. n /\ f[k + 1] \in 1 .. n
        BY <3>3, <4>1
      <4> DEFINE a == Index(k - 1, n, m)
                 b == Index((k + 1) - 1, n, m)
      <4>5. a \in 0 .. n - 1 /\ b \in 0 .. n - 1
        <5>1. (k + 1) - 1 \in 0 .. m - 1
          BY <3>1
        <5> QED  BY <1>1, <3>1, <4>1, <5>1, IndexSpread
      <4>6. a < b
        BY <4>1, <4>2
      <4> HIDE DEF a, b
      <4> QED  BY <1>1, <4>3, <4>5, <4>6 DEF a, b
    <3> HIDE DEF f
    <3>7. /\ new \in Seq(Postures) /\ Len(new) = m
          /\ \A k \in 1 .. m : new[k] = path[f[k]]
      <4>1. new = [k \in 1 .. m |-> Segment[k].pos]
        BY <2>1, <3>2
      <4>2. \A k \in 1 .. m : Segment[k].pos \in Postures
        BY <1>2, <3>2, Ends, PointAt
      <4>3. \A k \in 1 .. m : path[f[k]] = planned[f[k]].pos
        BY <2>2, <3>3
      <4> HIDE DEF m, n, path
      <4> QED  BY <3>1, <3>3, <4>1, <4>2, <4>3
    <3>8. \A k \in 1 .. m - 1 : f[k] < f[k + 1]
      BY <3>6
    <3> HIDE DEF m, n, path
    <3>9. FollowsThePath(new, path)
      <4>1. f \in [1 .. Len(new) -> 1 .. Len(path)] /\ Len(path) >= 1 /\ Len(new) >= 1
        BY <1>1, <2>2, <3>1, <3>4, <3>7
      <4> QED  BY <2>2, <3>5, <3>7, <3>8, <4>1, SelectionFollows
    <3> QED  BY <1>7, <3>9 DEF new, path
  <2> QED  BY <2>3, <2>4
<1> QED  BY <1>5, <1>6, <1>7

(* The manipulability guard looks at the last point, whatever it skips.    *)
LEMMA GoodPlanEndsDexterous ==
    ASSUME PipelineAssumption, NEW p \in Trajectory, QualityOk(p)
    PROVE  Yoshikawa[Last(p).pos] >= Floor
<1>1. Len(p) \in Nat /\ Len(p) >= 2 /\ Last(p) = p[Len(p)] /\ ManipulabilityOk(p)
  BY Ends DEF QualityOk
<1>2. Len(p) \in Samples(Len(p))
  BY <1>1 DEF Samples
<1> QED  BY <1>1, <1>2 DEF ManipulabilityOk

(* The invariant.                                                          *)
PathInv == PlannedOk /\ DrivesThePlan /\ NoJump

(* What is asked of an end by success and of a refusal by length, asks     *)
(* nothing of anything else.                                               *)
LEMMA NotYetDriven ==
    ASSUME verdict'.result # "succeeded", verdict'.why \notin {"contract", "gate"}
    PROVE  RunsThePath' /\ LengthIsNoFault' /\ EndsDexterous'
BY DEF RunsThePath, LengthIsNoFault, EndsDexterous

(* With the plan and its segments stay what the gates say of them.         *)
LEMMA PlanStays ==
    ASSUME UNCHANGED <<primitive, planned, segments>>
    PROVE  /\ Mitigated' = Mitigated
           /\ ContractOk(segments)' <=> ContractOk(segments)
           /\ GateOk(segments)' <=> GateOk(segments)
BY DEF Mitigated, ContractOk

(* A step within a segment leaves the plan and what has been run of it.    *)
LEMMA ScheduleStays ==
    ASSUME PlannedOk, leg \in Running, leg' \in Running, verdict' = Pending,
           UNCHANGED <<primitive, parts, planned, segments, sent, driven>>
    PROVE  PlannedOk'
<1>1. /\ segments' = Mitigated' /\ ContractOk(segments)' /\ GateOk(segments)'
      /\ sent' \in Nat /\ sent' < Len(segments')
  BY PlanStays DEF PlannedOk
<1>2. DrivenSoFar'
  BY DEF PlannedOk, DrivenSoFar, SplitUp
<1>3. planned' \in Trajectory /\ parts' \in Seq(Trajectory) /\ Len(parts') >= 1
  BY DEF PlannedOk, Running
<1>4. leg' \notin {"plan", "retime", "budget", "done"}
  BY DEF Running
<1> QED  BY <1>1, <1>2, <1>3, <1>4 DEF PlannedOk

(* The goal has ended.                                                     *)
LEMMA Ended ==
    ASSUME PlannedOk, leg' = "done", parts' = parts
    PROVE  PlannedOk' /\ MergeKeepsThePath'
BY DEF PlannedOk, Running, MergeKeepsThePath

(* Every way to end the goal except by the last segment.                   *)
LEMMA Broken ==
    ASSUME PathInv, NEW why, why \notin {"contract", "gate"}, NEW result, result # "succeeded",
           Finish(result, why), parts' = parts, JumpFree(driven')
    PROVE  PathInv'
<1>1. verdict'.result # "succeeded" /\ verdict'.why \notin {"contract", "gate"} /\ leg' = "done"
  BY DEF Finish
<1> QED  BY <1>1, NotYetDriven, Ended DEF PathInv, DrivesThePlan, NoJump, JumpFree

(* One point more.                                                         *)
LEMMA Extended ==
    ASSUME NEW s \in Seq(Point), NEW q \in Point
    PROVE  Append(s, q) \in Trajectory
<1> DEFINE c == Append(s, q)
<1>1. c \in Seq(Point) /\ Len(c) = Len(s) + 1 /\ Len(s) \in Nat
  OBVIOUS
<1> HIDE DEF c
<1>2. c # <<>>
  BY <1>1
<1> QED  BY <1>1, <1>2 DEF Trajectory, c

(* MoveIt plans point by point and part by part.                           *)
LEMMA PlanStep ==
    ASSUME PipelineAssumption, PathInv,
           \/ \E p \in Postures, dt \in {0, 10} : PlanPoint(p, dt)
           \/ \E p \in Postures : PlanPart(p)
    PROVE  PathInv'
<1>1. /\ leg = "plan" /\ leg' = leg /\ planned' = planned /\ sent' = sent /\ driven' = driven
      /\ verdict' = verdict /\ planned = <<>> /\ verdict = Pending /\ sent = 0 /\ driven = <<>>
      /\ parts \in Seq(Trajectory) /\ Len(parts) >= 1
  BY DEF PathInv, PlannedOk, PlanPoint, PlanPart
<1>2. parts' \in Seq(Trajectory) /\ Len(parts') >= 1
  <2>1. ASSUME NEW p \in Postures, NEW dt \in {0, 10}, PlanPoint(p, dt)
        PROVE  parts' \in Seq(Trajectory) /\ Len(parts') >= 1
    <3> DEFINE n == Len(parts)
               old == parts[n]
               new == Append(old, [pos |-> p, t |-> Last(old).t + dt])
    <3>1. n \in 1 .. Len(parts) /\ old \in Trajectory
      BY <1>1
    <3>2. parts' = [parts EXCEPT ![n] = new]
      BY <2>1 DEF PlanPoint
    <3>3. old \in Seq(Point) /\ Last(old) \in Point
      BY <3>1, Ends
    <3>4. [pos |-> p, t |-> Last(old).t + dt] \in Point
      BY <3>3 DEF Point
    <3>5. new \in Trajectory
      <4> DEFINE q == [pos |-> p, t |-> Last(old).t + dt]
      <4> HIDE DEF q, old
      <4>1. Append(old, q) \in Trajectory
        BY <3>3, <3>4, Extended DEF q
      <4> QED  BY <4>1 DEF q
    <3> HIDE DEF old
    <3> HIDE DEF new, n
    <3> QED  BY <1>1, <3>1, <3>2, <3>5
  <2>2. ASSUME NEW p \in Postures, PlanPart(p)
        PROVE  parts' \in Seq(Trajectory) /\ Len(parts') >= 1
    <3> DEFINE new == <<[pos |-> p, t |-> 0]>>
    <3>1. [pos |-> p, t |-> 0] \in Point
      BY DEF Point
    <3>2. new \in Trajectory
      BY <3>1 DEF Trajectory
    <3>3. parts' = Append(parts, new)
      BY <2>2 DEF PlanPart
    <3> HIDE DEF new
    <3> QED  BY <1>1, <3>2, <3>3
  <2> QED  BY <2>1, <2>2
<1>3. RunsThePath' /\ LengthIsNoFault' /\ EndsDexterous'
  BY <1>1, NotYetDriven DEF Pending
<1>4. MergeKeepsThePath' /\ NoJump'
  BY <1>1 DEF MergeKeepsThePath, NoJump, PathInv
<1>5. PlannedOk'
  BY <1>1, <1>2 DEF PlannedOk, Running
<1> QED  BY <1>3, <1>4, <1>5 DEF PathInv, DrivesThePlan

(* The parts are merged.                                                   *)
LEMMA AssembleStep ==
    ASSUME PipelineAssumption, PathInv, Assemble
    PROVE  PathInv'
<1>1. /\ leg = "plan" /\ parts' = parts /\ sent' = sent /\ driven' = driven
      /\ planned = <<>> /\ verdict = Pending /\ sent = 0 /\ driven = <<>>
      /\ parts \in Seq(Trajectory) /\ Len(parts) >= 1
      /\ planned' = IF primitive = "BLENDED_SEQUENCE" THEN Merged ELSE parts[1]
  BY DEF PathInv, PlannedOk, Assemble
<1>2. JumpFree(driven')
  BY <1>1 DEF JumpFree, PathInv, NoJump
<1>3. CASE Finish("aborted", "merge") \/ Finish("aborted", "joint position guard")
  BY <1>1, <1>2, <1>3, Broken
<1>4. CASE /\ leg' = IF primitive = "BLENDED_SEQUENCE" THEN "retime" ELSE "budget"
           /\ UNCHANGED verdict
  <2>1. planned' \in Trajectory
    BY <1>1, MergedParts
  <2>2. MergeKeepsThePath'
    <3> SUFFICES ASSUME leg' = "retime" PROVE MergeKeepsThePath'
      BY DEF MergeKeepsThePath
    <3>1. planned' = Merged
      BY <1>1, <1>4
    <3>2. /\ \A i \in 1 .. Len(Merged) - 1 : Merged[i].t < Merged[i + 1].t
          /\ \A k \in 1 .. Len(parts) : \A i \in 1 .. Len(parts[k]) :
                \E n \in 1 .. Len(Merged) : Merged[n].pos = parts[k][i].pos
          /\ Last(Merged).pos = Last(Last(parts)).pos
      BY <1>1, MergedParts DEF Ascending
    <3>3. parts' = parts
      BY <1>1
    <3> QED  BY <3>1, <3>2, <3>3, Zenon DEF MergeKeepsThePath
  <2>3. PlannedOk'
    BY <1>1, <1>4, <2>1 DEF PlannedOk, Running
  <2>4. RunsThePath' /\ LengthIsNoFault' /\ EndsDexterous'
    BY <1>1, <1>4, NotYetDriven DEF Pending
  <2> QED  BY <1>2, <2>2, <2>3, <2>4 DEF PathInv, DrivesThePlan, NoJump, JumpFree
<1> QED  BY <1>3, <1>4 DEF Assemble

(* The merged trajectory is timed anew.                                    *)
LEMMA RetimeStep ==
    ASSUME PipelineAssumption, PathInv, Retime
    PROVE  PathInv'
<1>1. /\ leg = "retime" /\ parts' = parts /\ sent' = sent /\ driven' = driven
      /\ planned \in Trajectory /\ verdict = Pending /\ sent = 0 /\ driven = <<>>
      /\ parts \in Seq(Trajectory) /\ Len(parts) >= 1
  BY DEF PathInv, PlannedOk, Retime
<1>2. JumpFree(driven')
  BY <1>1 DEF JumpFree, PathInv, NoJump
<1>3. CASE Finish("aborted", "time parameterization")
  BY <1>1, <1>2, <1>3, Broken
<1>4. CASE /\ planned' = [i \in 1 .. Len(planned) |-> [planned[i] EXCEPT !.t = 10 * (i - 1)]]
           /\ leg' = "budget" /\ UNCHANGED verdict
  <2>1. planned' \in Trajectory
    <3>1. planned \in Seq(Point) /\ Len(planned) \in Nat \ {0}
      BY <1>1, Ends
    <3>2. \A i \in 1 .. Len(planned) : planned[i] \in Point /\ 10 * (i - 1) \in Int
      BY <3>1
    <3>3. \A i \in 1 .. Len(planned) : [planned[i] EXCEPT !.t = 10 * (i - 1)] \in Point
      BY <3>2 DEF Point
    <3>4. planned' \in Seq(Point) /\ Len(planned') = Len(planned)
      BY <1>4, <3>1, <3>3
    <3>5. planned' # <<>>
      BY <3>1, <3>4
    <3> QED  BY <3>4, <3>5 DEF Trajectory
  <2>2. PlannedOk' /\ MergeKeepsThePath'
    BY <1>1, <1>4, <2>1 DEF PlannedOk, Running, MergeKeepsThePath
  <2>3. RunsThePath' /\ LengthIsNoFault' /\ EndsDexterous'
    BY <1>1, <1>4, NotYetDriven DEF Pending
  <2> QED  BY <1>2, <2>2, <2>3 DEF PathInv, DrivesThePlan, NoJump, JumpFree
<1> QED  BY <1>3, <1>4 DEF Retime

(* The budget: the plan is split or downsampled, then the contract and the *)
(* quality gate refuse it or let it be run.                                *)
LEMMA MitigateStep ==
    ASSUME PipelineAssumption, PathInv, Mitigate
    PROVE  PathInv'
<1>1. /\ leg = "budget" /\ parts' = parts /\ sent' = sent /\ driven' = driven /\ planned' = planned
      /\ primitive' = primitive
      /\ planned \in Trajectory /\ verdict = Pending /\ sent = 0 /\ driven = <<>>
      /\ parts \in Seq(Trajectory) /\ Len(parts) >= 1
  BY DEF PathInv, PlannedOk, Mitigate
<1>2. JumpFree(driven')
  BY <1>1 DEF JumpFree, PathInv, NoJump
<1>3. CASE Finish("succeeded", "no-op")
  <2>1. verdict'.why = "no-op" /\ leg' = "done"
    BY <1>3 DEF Finish
  <2>2. RunsThePath' /\ LengthIsNoFault' /\ EndsDexterous'
    BY <2>1 DEF RunsThePath, LengthIsNoFault, EndsDexterous
  <2>3. PlannedOk' /\ MergeKeepsThePath'
    BY <1>1, <2>1, Ended DEF PathInv
  <2> QED  BY <1>2, <2>2, <2>3 DEF PathInv, DrivesThePlan, NoJump, JumpFree
<1>4. CASE /\ Len(planned) # 1
           /\ ~ContractOk(Mitigated) \/ ~GateOk(Mitigated)
           /\ Finish("aborted", "contract") \/ Finish("aborted", "gate")
  <2>1. verdict'.result = "aborted" /\ leg' = "done"
    BY <1>4 DEF Finish
  <2>2. RunsThePath' /\ EndsDexterous'
    BY <2>1 DEF RunsThePath, EndsDexterous
  <2>3. LengthIsNoFault'
    <3> SUFFICES ASSUME primitive' \in GeometrySensitive, planned' # <<>>, Healthy(planned') PROVE FALSE
      BY Zenon DEF LengthIsNoFault
    <3>1. primitive \in GeometrySensitive /\ Healthy(planned)
      BY <1>1
    <3> QED  BY <1>1, <1>4, <3>1, LongPlansPass
  <2>4. PlannedOk' /\ MergeKeepsThePath'
    BY <1>1, <2>1, Ended DEF PathInv
  <2> QED  BY <1>2, <2>2, <2>3, <2>4 DEF PathInv, DrivesThePlan, NoJump, JumpFree
<1>5. CASE /\ Len(planned) # 1 /\ ContractOk(Mitigated) /\ GateOk(Mitigated)
           /\ segments' = Mitigated /\ leg' = "send" /\ UNCHANGED verdict
  <2>1. segments' = Mitigated' /\ Mitigated' = Mitigated
    BY <1>1, <1>5 DEF Mitigated
  <2>2. ContractOk(segments)' /\ GateOk(segments)'
    BY <1>1, <1>5 DEF ContractOk
  <2>3. sent' \in Nat /\ sent' < Len(segments') /\ DrivenSoFar'
    <3>1. Mitigated \in Seq(Trajectory) /\ Len(Mitigated) >= 1
      BY <1>1, MitigatedPieces
    <3> QED  BY <1>1, <1>5, <3>1 DEF DrivenSoFar
  <2>4. PlannedOk'
    BY <1>1, <1>5, <2>1, <2>2, <2>3 DEF PlannedOk, Running
  <2>5. RunsThePath' /\ LengthIsNoFault' /\ EndsDexterous'
    BY <1>1, <1>5, NotYetDriven DEF Pending
  <2>6. MergeKeepsThePath'
    BY <1>5 DEF MergeKeepsThePath
  <2> QED  BY <1>2, <2>4, <2>5, <2>6 DEF PathInv, DrivesThePlan, NoJump, JumpFree
<1> QED  BY <1>3, <1>4, <1>5 DEF Mitigate

(* A segment is refused, run in part or run: it begins where the arm is,   *)
(* so what has been driven goes on along the plan.                         *)
LEMMA CommitStep ==
    ASSUME PipelineAssumption, PathInv, Commit
    PROVE  PathInv'
<1>1. /\ leg = "commit" /\ leg \in Running
      /\ UNCHANGED <<primitive, parts, planned, segments>>
      /\ verdict = Pending /\ sent \in Nat /\ sent < Len(segments) /\ planned \in Trajectory
  BY DEF PathInv, PlannedOk, Running, Commit
<1>2. CASE Finish("aborted", "start state or controller") /\ UNCHANGED <<sent, arm, driven>>
  <2>1. JumpFree(driven')
    BY <1>2 DEF PathInv, NoJump, JumpFree
  <2> QED  BY <1>1, <1>2, <2>1, Broken
<1>3. ASSUME CommitOk, NEW n \in 1 .. Len(Segment) - 1, driven' = Driven(SubSeq(Segment, 1, n)),
             Finish("aborted", "controller")
      PROVE  PathInv'
  <2>1. Segment \in Trajectory /\ Len(Segment) \in Nat
    BY <1>1, NextSegment, Ends DEF PathInv
  <2>2. n \in 1 .. Len(Segment)
    BY <2>1
  <2>3. JumpFree(driven')
    BY <1>1, <1>3, <2>2, NoJumpAhead DEF PathInv, CommitOk
  <2> QED  BY <1>1, <1>3, <2>3, Broken
<1>4. CASE /\ CommitOk /\ arm' = Last(Segment).pos /\ driven' = Driven(Segment) /\ sent' = sent + 1
           /\ IF sent + 1 = Len(segments) THEN Finish("succeeded", "")
              ELSE leg' = "send" /\ UNCHANGED verdict
  <2>1. PlannedOk /\ NoJump /\ arm = Head(Segment).pos
    BY <1>4 DEF PathInv, CommitOk
  <2>2. /\ Segment \in Trajectory /\ QualityOk(Segment)
        /\ SubSeq(Segment, 1, Len(Segment)) = Segment /\ Len(Segment) \in 1 .. Len(Segment)
    BY <1>1, <2>1, NextSegment, WholeSegment
  <2>3. JumpFree(driven')
    BY <1>1, <1>4, <2>1, <2>2, NoJumpAhead
  <2>4. CASE sent + 1 = Len(segments)
    <3>1. verdict' = [result |-> "succeeded", why |-> ""] /\ leg' = "done"
      BY <1>4, <2>4 DEF Finish
    <3>2. verdict'.why = ""
      BY <3>1
    <3>3. LengthIsNoFault'
      BY <3>2 DEF LengthIsNoFault
    <3>4. EndsDexterous'
      <4>1. Yoshikawa[Last(Segment).pos] >= Floor
        BY <2>2, GoodPlanEndsDexterous
      <4>2. Yoshikawa[arm'] >= Floor
        BY <1>4, <4>1
      <4> QED  BY <4>2 DEF EndsDexterous
    <3>5. RunsThePath'
      <4>1. IF primitive \in GeometrySensitive THEN driven' = Positions(planned)
            ELSE FollowsThePath(driven', Positions(planned))
        BY <1>1, <1>4, <2>1, <2>4, LastSegmentEnds
      <4>2. primitive' = primitive /\ planned' = planned
        BY <1>1
      <4> QED  BY <4>1, <4>2, Zenon DEF RunsThePath, GeometrySensitive, FollowsThePath
    <3>6. PlannedOk' /\ MergeKeepsThePath'
      BY <1>1, <2>1, <3>1, Ended
    <3> QED  BY <2>3, <3>3, <3>4, <3>5, <3>6 DEF PathInv, DrivesThePlan, NoJump, JumpFree
  <2>5. CASE sent + 1 # Len(segments)
    <3>1. leg' = "send" /\ verdict' = Pending
      BY <1>1, <1>4, <2>5
    <3>2. segments \in Seq(Trajectory) /\ Len(segments) \in Nat
      BY <1>1, <2>1, MitigatedPieces DEF PlannedOk
    <3>3. sent + 1 < Len(segments) /\ sent' = sent + 1 /\ sent' \in Nat /\ sent' # 0
      <4>1. sent \in Nat /\ sent < Len(segments)
        BY <1>1
      <4>2. sent' = sent + 1
        BY <1>4
      <4>3. sent + 1 < Len(segments)
        BY <2>5, <3>2, <4>1
      <4> QED  BY <4>1, <4>2, <4>3
    <3>4. SplitUp
      <4>1. ~SplitUp => Len(segments) = 1 /\ sent = 0
        BY <1>1, <2>1, NextSegment
      <4> HIDE DEF SplitUp
      <4>2. Len(segments) = 1 /\ sent = 0 => FALSE
        BY <3>3
      <4> QED  BY <4>1, <4>2
    <3>5. sent * Stride + Len(Segment) = (sent + 1) * Stride + 1
      BY <1>1, <2>1, <3>3, <3>4, NextSegment
    <3>6. driven' = [i \in 1 .. sent * Stride + Len(Segment) |-> planned[i].pos]
      <4>1. Driven(SubSeq(Segment, 1, Len(Segment))) = [i \in 1 .. sent * Stride + Len(Segment) |-> planned[i].pos]
        BY <1>1, <2>1, <2>2, <3>4, DrivenAhead
      <4> QED  BY <1>4, <2>2, <4>1
    <3>7. DrivenSoFar'
      <4>1. SplitUp'
        BY <1>1, <3>4 DEF SplitUp
      <4>2. driven' = [i \in 1 .. sent' * Stride + 1 |-> planned'[i].pos]
        BY <1>1, <1>4, <3>5, <3>6
      <4> QED  BY <3>3, <4>1, <4>2 DEF DrivenSoFar
    <3>8. segments' = Mitigated' /\ ContractOk(segments)' /\ GateOk(segments)'
      BY <1>1, <2>1, PlanStays DEF PlannedOk
    <3>9. PlannedOk'
      BY <1>1, <1>4, <2>1, <3>1, <3>3, <3>7, <3>8 DEF PlannedOk, Running
    <3>10. RunsThePath' /\ LengthIsNoFault' /\ EndsDexterous'
      BY <3>1, NotYetDriven DEF Pending
    <3>11. MergeKeepsThePath'
      BY <3>1 DEF MergeKeepsThePath
    <3> QED  BY <2>3, <3>9, <3>10, <3>11 DEF PathInv, DrivesThePlan, NoJump, JumpFree
  <2> QED  BY <2>4, <2>5
<1> QED
  <2>1. CASE \E n \in 1 .. Len(Segment) - 1 :
                /\ arm' = Segment[n].pos
                /\ driven' = Driven(SubSeq(Segment, 1, n))
                /\ CommitOk /\ Finish("aborted", "controller")
    BY <1>3, <2>1
  <2> QED  BY <1>2, <1>4, <2>1 DEF Commit

(* A segment is sent and checked, an interrupt and a jog come in between.  *)
LEMMA OtherSteps ==
    ASSUME PipelineAssumption, PathInv,
           \/ SendSegment \/ Preflight \/ Halt
           \/ \E p \in Postures : JogArm(p)
           \/ UNCHANGED pipeline
    PROVE  PathInv'
<1>1. UNCHANGED <<primitive, parts, planned, segments, sent, driven>>
  BY DEF SendSegment, Preflight, Halt, JogArm, pipeline
<1>2. JumpFree(driven')
  BY <1>1 DEF PathInv, NoJump, JumpFree
<1>3. CASE Finish("canceled", "") \/ Finish("aborted", "start state")
  BY <1>1, <1>2, <1>3, Broken
<1>4. CASE leg \in Running /\ leg' \in Running /\ UNCHANGED verdict
  <2>1. verdict' = Pending
    BY <1>4 DEF PathInv, PlannedOk, Running
  <2>2. PlannedOk'
    BY <1>1, <1>4, <2>1, ScheduleStays DEF PathInv
  <2>3. RunsThePath' /\ LengthIsNoFault' /\ EndsDexterous'
    BY <2>1, NotYetDriven DEF Pending
  <2>4. MergeKeepsThePath'
    BY <1>4 DEF MergeKeepsThePath, Running
  <2> QED  BY <1>2, <2>2, <2>3, <2>4 DEF PathInv, DrivesThePlan, NoJump, JumpFree
<1>5. CASE leg = "budget" /\ UNCHANGED <<leg, verdict>>
  <2>1. verdict' = Pending
    BY <1>5 DEF PathInv, PlannedOk
  <2>2. PlannedOk' /\ MergeKeepsThePath'
    BY <1>1, <1>5 DEF PathInv, PlannedOk, Running, MergeKeepsThePath
  <2>3. RunsThePath' /\ LengthIsNoFault' /\ EndsDexterous'
    BY <2>1, NotYetDriven DEF Pending
  <2> QED  BY <1>2, <2>2, <2>3 DEF PathInv, DrivesThePlan, NoJump, JumpFree
<1>6. CASE UNCHANGED pipeline
  <2>1. UNCHANGED <<leg, primitive, parts, planned, segments, sent, arm, driven, halted, verdict>>
    BY <1>6 DEF pipeline
  <2>2. DrivesThePlan' /\ NoJump'
    BY <2>1 DEF PathInv, DrivesThePlan, RunsThePath, LengthIsNoFault, MergeKeepsThePath, EndsDexterous, NoJump
  <2>3. PlannedOk'
    BY <2>1, PlanStays DEF PathInv, PlannedOk, DrivenSoFar, SplitUp
  <2> QED  BY <2>2, <2>3 DEF PathInv
<1> QED
  <2>1. CASE SendSegment
    BY <1>3, <1>4, <2>1 DEF SendSegment, Running
  <2>2. CASE Preflight
    BY <1>3, <1>4, <2>2 DEF Preflight, Running
  <2>3. CASE Halt
    BY <1>4, <2>3 DEF Halt, Running
  <2>4. ASSUME NEW p \in Postures, JogArm(p) PROVE PathInv'
    BY <1>4, <1>5, <2>4 DEF JogArm, Running
  <2> QED  BY <1>6, <2>1, <2>2, <2>3, <2>4

(* Nothing is planned yet.                                                 *)
LEMMA PathStart ==
    ASSUME PipelineInit
    PROVE  PathInv
<1>1. /\ leg = "plan" /\ planned = <<>> /\ sent = 0 /\ driven = <<>> /\ verdict = Pending
      /\ parts = <<<<[pos |-> arm, t |-> 0]>>>> /\ arm \in Postures
  BY DEF PipelineInit
<1>2. parts \in Seq(Trajectory) /\ Len(parts) >= 1
  <2> DEFINE first == <<[pos |-> arm, t |-> 0]>>
  <2>1. [pos |-> arm, t |-> 0] \in Point
    BY <1>1 DEF Point
  <2>2. first \in Trajectory
    BY <2>1 DEF Trajectory
  <2> HIDE DEF first
  <2>3. <<first>> \in Seq(Trajectory) /\ Len(<<first>>) = 1
    BY <2>2
  <2>4. parts = <<first>>
    BY <1>1 DEF first
  <2> QED  BY <2>3, <2>4
<1>3. verdict.result = "pending" /\ verdict.why = ""
  BY <1>1 DEF Pending
<1>4. RunsThePath /\ LengthIsNoFault /\ EndsDexterous
  BY <1>3 DEF RunsThePath, LengthIsNoFault, EndsDexterous
<1>5. MergeKeepsThePath
  BY <1>1 DEF MergeKeepsThePath
<1>6. NoJump
  BY <1>1 DEF NoJump
<1>7. PlannedOk
  BY <1>1, <1>2 DEF PlannedOk, Running
<1> QED  BY <1>4, <1>5, <1>6, <1>7 DEF PathInv, DrivesThePlan

(* Every step of the pipeline.                                             *)
LEMMA PathStep ==
    ASSUME PipelineAssumption, PathInv, [PipelineNext]_pipeline
    PROVE  PathInv'
BY PlanStep, AssembleStep, RetimeStep, MitigateStep, CommitStep, OtherSteps DEF PipelineNext

(* What the legs of the pipeline leave for one another, in every behaviour.*)
THEOREM PathInvariant == Spec => []PathInv
<1>1. Init => PathInv
  BY PathStart DEF Init
<1>2. PathInv /\ [Next]_vars => PathInv'
  <2>1. [Next]_vars => [PipelineNext]_pipeline
    BY DEF Next, vars, pipeline
  <2> QED  BY <2>1, PathStep, MotionAssumption DEF MotionAssumption
<1> QED
  BY <1>1, <1>2, PTL DEF Spec

(* A goal that succeeds has driven the arm along its plan: point by point  *)
(* when its shape matters, split or not, otherwise from end to end through *)
(* points of it in their order; no straight or curved plan is refused for  *)
(* its length; a merge loses no posture of its parts; and the arm is left  *)
(* dexterous.                                                              *)
THEOREM PlanIsDriven == Spec => []DrivesThePlan
BY PathInvariant, PTL DEF PathInv

(* The arm is never driven between two postures that are a jump apart, not *)
(* at the seam of two segments either.                                     *)
THEOREM ArmNeverJumps == Spec => []NoJump
BY PathInvariant, PTL DEF PathInv
=============================================================================
