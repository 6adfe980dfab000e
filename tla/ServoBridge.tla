------------------------------ MODULE ServoBridge ------------------------------
(***************************************************************************)
(* servo_bridge_node.cpp: the bridge that forwards the trajectory points   *)
(* of MoveIt Servo to the point queue of MotoROS2 while the operator jogs. *)
(*                                                                         *)
(* The node spins in one thread, so a callback is one step.  What makes it *)
(* hard is that an activation is a chain of three asynchronous parts (call *)
(* start_servo, poll for servo_active, call start_point_queue_mode), none  *)
(* of which a deactivation can recall once its request is on the wire, and *)
(* that the robot and servo status are watched by their edges only.        *)
(*                                                                         *)
(* The counters and texts the status message only reports (points_queued,  *)
(* effective_hz, last_error, rejection_reason) are left out, and the rate  *)
(* limit of the forwarding is a choice.                                    *)
(***************************************************************************)
EXTENDS Naturals, Sequences

CONSTANTS
  MaxCalls,      \* bound: requests to one service on the wire at a time
  MaxPolls,      \* polls for servo_active before the activation gives up
  JointNames,    \* the joints of the arm, in order
  JointLimits,   \* [joint -> the interval of its positions]
  LIMIT_MARGIN,  \* JOINT_LIMIT_MARGIN_RAD, in the unit of the positions
  TrajPoints     \* bound: the points MoveIt Servo sends here

ASSUME BridgeAssumption == MaxCalls \in Nat \ {0} /\ MaxPolls \in Nat \ {0}

VARIABLES
  state,         \* state_
  robotReady,    \* robot_ready_
  servoActive,   \* servo_active_
  bridgeActive,  \* bridge_active_
  pollCount,     \* servo_poll_count_, or NoTimer when servo_poll_timer_ is null
  servoCalls,    \* start_servo requests on the wire
  pqmCalls,      \* start_point_queue_mode requests on the wire
  queueCalls,    \* queue_traj_point requests on the wire
  blind,         \* history: what was already lost when the bridge went ACTIVE
  quiet          \* history: deactivated with no request on the wire, not reactivated

vars == <<state, robotReady, servoActive, bridgeActive, pollCount,
                servoCalls, pqmCalls, queueCalls, blind, quiet>>

NoTimer == MaxPolls + 1

\* READY and HALTING and the last three are in the enumeration and never set.
BridgeState == {"IDLE", "STARTING", "READY", "ACTIVE", "HALTING", "HALTED", "ERROR",
                "REJECTED_NOT_READY", "REJECTED_FJT_ACTIVE", "TIMEOUT", "BUSY_RETRY"}

\* The types, with the bounds on the requests on the wire.
TypeOK ==
  /\ state \in BridgeState
  /\ robotReady \in BOOLEAN /\ servoActive \in BOOLEAN /\ bridgeActive \in BOOLEAN
  /\ pollCount \in 0 .. NoTimer
  /\ servoCalls \in 0 .. MaxCalls /\ pqmCalls \in 0 .. MaxCalls
  /\ queueCalls \in 0 .. MaxCalls
  /\ blind \in [robot : BOOLEAN, servo : BOOLEAN] /\ quiet \in BOOLEAN

Init ==
  /\ state = "IDLE"
  /\ robotReady = FALSE /\ servoActive = FALSE /\ bridgeActive = FALSE
  /\ pollCount = NoTimer
  /\ servoCalls = 0 /\ pqmCalls = 0 /\ queueCalls = 0
  /\ blind = [robot |-> FALSE, servo |-> FALSE]
  /\ quiet = FALSE

--------------------------------------------------------------------------------
(* Activation and deactivation.                                             *)

\* begin_start_point_queue_mode, called in a bridge that is in state s.
begin_start_point_queue_mode(s) ==
  \/ /\ pqmCalls < MaxCalls
     /\ pqmCalls' = pqmCalls + 1
     /\ state' = s
  \/ state' = "ERROR" /\ UNCHANGED pqmCalls

\* begin_start_servo, called in state STARTING.
begin_start_servo ==
  \/ /\ servoCalls < MaxCalls
     /\ servoCalls' = servoCalls + 1
     /\ state' = "STARTING"
  \/ state' = "REJECTED_NOT_READY" /\ UNCHANGED servoCalls

\* handle_activate: ok is the success it answers.
handle_activate(ok) ==
  \/ /\ state \in {"ACTIVE", "STARTING"} /\ ~ok
     /\ UNCHANGED vars
  \/ /\ state \notin {"ACTIVE", "STARTING"} /\ ~robotReady /\ ~ok
     /\ state' = "REJECTED_NOT_READY"
     /\ UNCHANGED <<robotReady, servoActive, bridgeActive, pollCount, servoCalls,
                    pqmCalls, queueCalls, blind, quiet>>
  \/ /\ state \notin {"ACTIVE", "STARTING"} /\ robotReady /\ ok
     /\ \/ servoActive /\ begin_start_point_queue_mode("STARTING") /\ UNCHANGED servoCalls
        \/ ~servoActive /\ begin_start_servo /\ UNCHANGED pqmCalls
     /\ quiet' = FALSE
     /\ UNCHANGED <<robotReady, servoActive, bridgeActive, pollCount, queueCalls, blind>>

\* A deactivation that leaves the poll timer running.
handle_deactivate_KeepPoll ==
  /\ bridgeActive' = FALSE /\ state' = "HALTED"
  /\ quiet' = (servoCalls = 0 /\ pqmCalls = 0)
  /\ UNCHANGED <<robotReady, servoActive, servoCalls, pqmCalls, queueCalls, blind, pollCount>>

\* handle_deactivate: it always succeeds, and cancels the poll but no request.
handle_deactivate ==
  /\ pollCount' = NoTimer
  /\ \/ state = "IDLE" /\ UNCHANGED <<bridgeActive, state>>
     \/ state # "IDLE" /\ bridgeActive' = FALSE /\ state' = "HALTED"
  /\ quiet' = (servoCalls = 0 /\ pqmCalls = 0)
  /\ UNCHANGED <<robotReady, servoActive, servoCalls, pqmCalls, queueCalls, blind>>

\* The answer of start_servo, whatever became of the activation that asked.
OnStartServoReply ==
  /\ servoCalls > 0
  /\ servoCalls' = servoCalls - 1
  /\ \/ state' = "REJECTED_NOT_READY" /\ UNCHANGED pollCount
     \/ pollCount' = 0 /\ UNCHANGED state              \* begin_servo_active_poll
  /\ UNCHANGED <<robotReady, servoActive, bridgeActive, pqmCalls, queueCalls, blind, quiet>>

\* A poll that never gives up.
OnServoPoll_Endless ==
  /\ pollCount # NoTimer
  /\ \/ servoActive /\ pollCount' = NoTimer /\ begin_start_point_queue_mode(state)
     \/ ~servoActive /\ UNCHANGED <<state, pqmCalls, pollCount>>
  /\ UNCHANGED <<robotReady, servoActive, bridgeActive, servoCalls, queueCalls, blind, quiet>>

\* The callback of the poll timer.
OnServoPoll ==
  /\ pollCount # NoTimer
  /\ \/ /\ servoActive
        /\ pollCount' = NoTimer
        /\ begin_start_point_queue_mode(state)
     \/ /\ ~servoActive /\ pollCount + 1 < MaxPolls
        /\ pollCount' = pollCount + 1
        /\ UNCHANGED <<state, pqmCalls>>
     \/ /\ ~servoActive /\ pollCount + 1 >= MaxPolls
        /\ pollCount' = NoTimer
        /\ state' = "REJECTED_NOT_READY" /\ UNCHANGED pqmCalls
  /\ UNCHANGED <<robotReady, servoActive, bridgeActive, servoCalls, queueCalls, blind, quiet>>

\* The answer of start_point_queue_mode: MOTION_READY, another trajectory mode
\* active, another code, or null.
OnPointQueueModeReply ==
  /\ pqmCalls > 0
  /\ pqmCalls' = pqmCalls - 1
  /\ \/ /\ state' = "ACTIVE" /\ bridgeActive' = TRUE
        /\ blind' = [robot |-> ~robotReady, servo |-> ~servoActive]
     \/ /\ state' \in {"REJECTED_FJT_ACTIVE", "REJECTED_NOT_READY", "ERROR"}
        /\ UNCHANGED <<bridgeActive, blind>>
  /\ UNCHANGED <<robotReady, servoActive, pollCount, servoCalls, queueCalls, quiet>>

--------------------------------------------------------------------------------
(* Subscriptions.                                                           *)

\* on_robot_status: only the edge from ready to not ready stops the bridge.
on_robot_status(ready) ==
  /\ robotReady' = ready
  /\ \/ /\ robotReady /\ ~ready /\ state \in {"ACTIVE", "READY"}
        /\ bridgeActive' = FALSE /\ state' = "ERROR"
     \/ /\ ~(robotReady /\ ~ready /\ state \in {"ACTIVE", "READY"})
        /\ UNCHANGED <<bridgeActive, state>>
  /\ blind' = [blind EXCEPT !.robot = @ /\ ~ready]
  /\ UNCHANGED <<servoActive, pollCount, servoCalls, pqmCalls, queueCalls, quiet>>

\* on_servo_status: likewise for the servo.
on_servo_status(active) ==
  /\ servoActive' = active
  /\ \/ /\ servoActive /\ ~active /\ state = "ACTIVE"
        /\ bridgeActive' = FALSE /\ state' = "ERROR"
     \/ /\ ~(servoActive /\ ~active /\ state = "ACTIVE")
        /\ UNCHANGED <<bridgeActive, state>>
  /\ blind' = [blind EXCEPT !.servo = @ /\ ~active]
  /\ UNCHANGED <<robotReady, pollCount, servoCalls, pqmCalls, queueCalls, quiet>>

\* validate_point: the joints in order, each within its limits widened by the margin.
validate_point(p) ==
  /\ p.names = JointNames
  /\ Len(p.positions) = Len(JointNames)
  /\ \A i \in 1 .. Len(JointNames) :
       /\ p.positions[i] + LIMIT_MARGIN >= JointLimits[JointNames[i]].min
       /\ p.positions[i] <= JointLimits[JointNames[i]].max + LIMIT_MARGIN

\* on_servo_trajectory and forward_point_async, for a point within the rate; an
\* unavailable queue service drops the point.
on_servo_trajectory(p) ==
  /\ state = "ACTIVE" /\ bridgeActive
  /\ \/ /\ ~validate_point(p)
        /\ state' = "ERROR" /\ bridgeActive' = FALSE
        /\ UNCHANGED queueCalls
     \/ /\ validate_point(p) /\ queueCalls < MaxCalls
        /\ queueCalls' = queueCalls + 1
        /\ UNCHANGED <<state, bridgeActive>>
  /\ UNCHANGED <<robotReady, servoActive, pollCount, servoCalls, pqmCalls, blind, quiet>>

\* The answer of queue_traj_point: queued, busy or null; or a failure, which
\* stops the bridge in whatever state it is by now.
OnQueueReply ==
  /\ queueCalls > 0
  /\ queueCalls' = queueCalls - 1
  /\ \/ UNCHANGED <<state, bridgeActive>>
     \/ state' = "ERROR" /\ bridgeActive' = FALSE
  /\ UNCHANGED <<robotReady, servoActive, pollCount, servoCalls, pqmCalls, blind, quiet>>

--------------------------------------------------------------------------------
\* The operator may call either service at any time, whatever was answered.
Next ==
  \/ \E ok \in BOOLEAN : handle_activate(ok)
  \/ handle_deactivate
  \/ OnStartServoReply \/ OnServoPoll \/ OnPointQueueModeReply \/ OnQueueReply
  \/ \E b \in BOOLEAN : on_robot_status(b)
  \/ \E b \in BOOLEAN : on_servo_status(b)
  \/ \E p \in TrajPoints : on_servo_trajectory(p)

\* The poll timer runs, and the services of Servo and of the controller answer.
Fairness ==
  WF_vars(OnStartServoReply) /\ WF_vars(OnServoPoll) /\ WF_vars(OnPointQueueModeReply)

Spec == Init /\ [][Next]_vars
FairSpec == Spec /\ Fairness

--------------------------------------------------------------------------------
(* What the bridge promises.                                                *)

\* While points are forwarded the robot is ready and the servo active, unless
\* that was already so when the mode answer arrived and has not been restored:
\* on_robot_status and on_servo_status never miss a loss of an ACTIVE bridge.
ForwardsOnlyWhileReady ==
  state = "ACTIVE" /\ bridgeActive =>
    /\ robotReady \/ blind.robot
    /\ servoActive \/ blind.servo

\* A deactivation that found no request on the wire is final: no late poll
\* or answer makes the bridge forward again before the operator activates it.
\* (With a request on the wire the bridge may come back by itself.)
QuietAfterDeactivate ==
  quiet => ~bridgeActive /\ state \notin {"ACTIVE", "STARTING"} /\ pollCount = NoTimer

\* An activation that was accepted ends once Servo and the controller answer,
\* though the servo may never become active: the poll gives up.
StartingEnds == state = "STARTING" ~> state # "STARTING"

\* The bridge moves the arm for the operator only: never a robot that it has
\* seen to be lost, never again after a final deactivation.
BridgeSafe == TypeOK /\ ForwardsOnlyWhileReady /\ QuietAfterDeactivate
================================================================================
