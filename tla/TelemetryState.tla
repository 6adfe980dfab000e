---------------------------- MODULE TelemetryState -----------------------------
(***************************************************************************)
(* What the HMI backend knows of ROS (ros/adapter.py) and what it derives  *)
(* from it (ros/telemetry_snapshot.py).  The subscriptions stamp what they *)
(* hear; every value the operator sees is derived, at the moment it is     *)
(* read, from the stamps' ages and the last contents.                      *)
(*                                                                         *)
(* An age is one of the classes the thresholds tell apart; each source     *)
(* grows older by itself, which covers every relative timing.              *)
(***************************************************************************)
EXTENDS Naturals, FiniteSets

CONSTANT SourceGroups   \* bound: the groups of sources that send in one behaviour

\* Ages: within 3 s (ros, robot_status, readiness, joint_states,
\* command_interface), 5 s (alerts), 30 s (llm), older, and no message yet.
Fresh == 0
Within5 == 1
Within30 == 2
Old == 3
Never == 4
CONNECTION_FRESHNESS == [alert |-> Within5, gateway |-> Within30, debug |-> Within30,
                         command |-> Within30, robot |-> Fresh, readiness |-> Fresh,
                         primary |-> Fresh, fallback |-> Fresh, validate |-> Fresh,
                         execute |-> Fresh, review |-> Fresh, started |-> Fresh]
AllSources == DOMAIN CONNECTION_FRESHNESS
JointTopics == {"primary", "fallback"}
Llm == {"gateway", "debug", "command"}
Interfaces == {"validate", "execute", "review"}

\* Of the constants; the module that checks this one assumes it.
SourcesAssumption == SourceGroups \subseteq SUBSET AllSources

VARIABLES
  senders,      \* the sources that are on the network
  startError,   \* _TelemetryState.start_error is set
  age,          \* [source -> age of its stamp]; "started" is ros_started_at
  robot,        \* the last robot_status: e_stopped and in_error or error codes
  ready,        \* readiness.ready
  sim,          \* the readiness text names the simulation
  alert,        \* the last alert: a level of 2 or more, and what its text says
  jointSource,  \* joint_source_topic, or "none"
  interface     \* [interface -> its last probe found it ready]

vars == <<senders, startError, age, robot, ready, sim, alert, jointSource, interface>>

AlertText == {"none", "timeout", "hold", "blocked"}

\* The types of what the adapter keeps.
TypeOK ==
  /\ senders \in SourceGroups /\ startError \in BOOLEAN
  /\ age \in [AllSources -> Fresh .. Never]
  /\ robot \in [estop : BOOLEAN, error : BOOLEAN]
  /\ ready \in BOOLEAN /\ sim \in BOOLEAN
  /\ alert \in [fault : BOOLEAN, text : AlertText]
  /\ jointSource \in JointTopics \union {"none"}
  /\ interface \in [Interfaces -> BOOLEAN]

--------------------------------------------------------------------------------
(* Ages and health.                                                         *)

\* _is_fresh with the threshold of the source, or with another one.
FreshWithin(s, limit) == age[s] <= limit
IsFresh(s) == FreshWithin(s, CONNECTION_FRESHNESS[s])

\* _derive_mode.
Mode == CASE sim -> "sim"
          [] ~sim /\ (age["robot"] # Never \/ age["readiness"] # Never) -> "hardware"
          [] OTHER -> "unknown"

\* joint_received_at is the stamp of the accepted topic.
JointsHeard == jointSource # "none"
JointAge == IF JointsHeard THEN age[jointSource] ELSE Never

\* _derive_ros_health: any of five sources within 3 s.
RosHealth ==
  CASE startError -> "down"
    [] ~startError /\ (\/ JointAge = Fresh
                       \/ \E s \in {"robot", "readiness", "alert", "gateway"} :
                            FreshWithin(s, Fresh)) -> "healthy"
    [] OTHER -> IF IsFresh("started") THEN "degraded" ELSE "down"

\* _derive_llm_health, _derive_moveit_health, _derive_motoros2_health.
LlmHealth ==
  CASE startError -> "down"
    [] ~startError /\ (\E s \in Llm : IsFresh(s)) -> "healthy"
    [] OTHER -> IF RosHealth # "down" THEN "degraded" ELSE "down"
MoveitHealth ==
  CASE startError -> "down"
    [] ~startError /\ IsFresh("readiness") -> IF ready THEN "healthy" ELSE "degraded"
    [] OTHER -> IF IsFresh("alert") \/ RosHealth # "down" THEN "degraded" ELSE "down"
Motoros2Health ==
  CASE startError -> "down"
    [] ~startError /\ IsFresh("robot") -> "healthy"
    [] OTHER -> IF RosHealth # "down" /\ Mode # "sim" THEN "degraded" ELSE "down"

\* _command_interface_health.
CommandInterfaceHealth ==
  CASE startError \/ Mode = "unknown" -> "down"
    [] OTHER -> IF interface["validate"] /\ interface["execute"] THEN "healthy"
                ELSE IF age["started"] # Never THEN "degraded" ELSE "down"

--------------------------------------------------------------------------------
(* The runtime state.  The parts of _derive_runtime_state, in its order.    *)

\* Mutant: the fault of the robot comes after the alerts.
RuntimeState_FaultLast ==
  CASE startError \/ RosHealth = "down" -> "LOST_CONN"
    [] robot.estop -> "ESTOP"
    [] alert.text = "timeout" -> "TIMEOUT"
    [] IsFresh("alert") /\ alert.fault -> "FAULT"
    [] IsFresh("alert") /\ alert.text = "hold" -> "HOLD"
    [] robot.error -> "FAULT"
    [] OTHER -> IF IsFresh("readiness") /\ ~ready THEN "SAFETY_BLOCKED" ELSE "NORMAL"

\* Note that the emergency stop and the fault of the last robot_status count
\* whatever its age, and so does the word timeout of the last alert.
AlertState ==
  CASE alert.fault -> "FAULT"
    [] ~alert.fault /\ alert.text = "hold" -> "HOLD"
    [] ~alert.fault /\ alert.text = "blocked" -> "SAFETY_BLOCKED"
    [] OTHER -> "none"
RuntimeState ==
  IF startError \/ RosHealth = "down" THEN "LOST_CONN"
  ELSE IF robot.estop THEN "ESTOP"
  ELSE IF alert.text = "timeout" THEN "TIMEOUT"
  ELSE IF robot.error THEN "FAULT"
  ELSE IF IsFresh("alert") /\ AlertState # "none" THEN AlertState
  ELSE IF IsFresh("readiness") /\ ~ready THEN "SAFETY_BLOCKED"
  ELSE "NORMAL"

\* RuntimeSnapshot.blocking.
Blocking == RuntimeState \in {"FAULT", "ESTOP", "LOST_CONN", "SAFETY_BLOCKED"}

\* read_connections and _transport_state of the telemetry bridge.
Connections == <<RosHealth, MoveitHealth, LlmHealth, Motoros2Health>>
TransportState ==
  CASE RosHealth = "healthy" -> "connected"
    [] RosHealth # "healthy" /\ (\E i \in DOMAIN Connections : Connections[i] # "down") -> "connecting"
    [] OTHER -> "disconnected"

\* read_source_statuses: the sources that count as active.
ActiveSources ==
  {"gateway", "readiness", "alert"}
    \union {s \in {"debug", "command"} : IsFresh(s)}
    \union {s \in {"robot"} : Mode # "sim"}
    \union {s \in JointTopics : s = jointSource}
    \union {s \in Interfaces : Mode \in {"sim", "hardware"} /\ interface[s]}

\* _source_freshness_state and _telemetry_state.
SourceFresh(s) == ~startError /\ IsFresh(s)
FreshnessOfTelemetry ==
  IF TransportState = "disconnected" THEN "unavailable"
  ELSE IF \E s \in ActiveSources : ~SourceFresh(s) THEN "stale"
  ELSE "fresh"

\* _command_interfaces_ready, which the dispatch asks.
CommandInterfacesReady == interface["validate"] /\ interface["execute"]

--------------------------------------------------------------------------------
Init ==
  /\ senders \in SourceGroups
  /\ startError \in BOOLEAN
  /\ age = [s \in AllSources |-> IF s = "started" /\ ~startError THEN Fresh ELSE Never]
  /\ robot = [estop |-> FALSE, error |-> FALSE] /\ ready = FALSE /\ sim = FALSE
  /\ alert = [fault |-> FALSE, text |-> "none"]
  /\ jointSource = "none" /\ interface = [i \in Interfaces |-> FALSE]

Stamp(s) == age' = [age EXCEPT ![s] = Fresh]
Heard(s) == s \in senders /\ ~startError /\ Stamp(s)

\* _on_robot_status.
OnRobotStatus ==
  /\ Heard("robot")
  /\ robot' \in [estop : BOOLEAN, error : BOOLEAN]
  /\ UNCHANGED <<senders, startError, ready, sim, alert, jointSource, interface>>

\* _on_readiness.
OnReadiness ==
  /\ Heard("readiness")
  /\ ready' \in BOOLEAN /\ sim' \in BOOLEAN
  /\ UNCHANGED <<senders, startError, robot, alert, jointSource, interface>>

\* _on_supervisor_alert.
OnSupervisorAlert ==
  /\ Heard("alert")
  /\ alert' \in [fault : BOOLEAN, text : AlertText]
  /\ UNCHANGED <<senders, startError, robot, ready, sim, jointSource, interface>>

\* _on_gateway_status, _on_llm_debug, _on_llm_command.
OnLlm(s) ==
  /\ s \in Llm /\ Heard(s)
  /\ UNCHANGED <<senders, startError, robot, ready, sim, alert, jointSource, interface>>

\* _should_accept_joint_update: the fallback topic gives way to a fresh primary.
ShouldAccept(topic) ==
  topic = "primary" \/ jointSource # "primary" \/ ~IsFresh("primary")

\* _on_joint_state.
OnJointState(topic) ==
  /\ Heard(topic) /\ ShouldAccept(topic)
  /\ jointSource' = topic
  /\ UNCHANGED <<senders, startError, robot, ready, sim, alert, interface>>

\* _refresh_command_interface_state, called from the spin loop.
RefreshCommandInterfaces ==
  /\ ~startError /\ Interfaces \subseteq senders
  /\ interface' \in [Interfaces -> BOOLEAN]
  /\ age' = [s \in AllSources |-> IF s \in Interfaces /\ interface'[s] THEN Fresh ELSE age[s]]
  /\ UNCHANGED <<senders, startError, robot, ready, sim, alert, jointSource>>

\* Time passes: a stamp enters the next class its thresholds tell apart.
NextAge(s) ==
  CASE age[s] = Fresh /\ s = "alert" -> Within5
    [] age[s] = Fresh /\ s \in Llm -> Within30
    [] OTHER -> Old
GrowOlder(s) ==
  /\ age[s] \notin {Old, Never}
  /\ age' = [age EXCEPT ![s] = NextAge(s)]
  /\ UNCHANGED <<senders, startError, robot, ready, sim, alert, jointSource, interface>>

Next ==
  \/ OnRobotStatus \/ OnReadiness \/ OnSupervisorAlert
  \/ \E s \in Llm : OnLlm(s)
  \/ \E t \in JointTopics : OnJointState(t)
  \/ RefreshCommandInterfaces
  \/ \E s \in AllSources : GrowOlder(s)

Spec == Init /\ [][Next]_vars

--------------------------------------------------------------------------------
\* A known emergency stop is reported as long as anything at all is heard from
\* ROS: neither an alert nor the silence of robot_status itself hides it.
StopNeverMasked == robot.estop /\ RosHealth # "down" => RuntimeState = "ESTOP"

\* A known fault blocks the operator's controls, whatever else is reported,
\* with one exception: after an alert that said timeout the state is TIMEOUT,
\* which does not block, until the next alert.
FaultBlocks ==
  robot.error \/ (IsFresh("alert") /\ alert.fault) =>
    Blocking \/ (RuntimeState = "TIMEOUT" /\ alert.text = "timeout")

\* The joint angles shown never switch to the fallback topic while the robot's
\* own topic is alive.
PrimaryJointsPreferred == FreshWithin("primary", Fresh) => jointSource = "primary"

\* Telemetry called fresh never rests on a silent joint topic or readiness.
FreshIsFresh ==
  FreshnessOfTelemetry = "fresh" =>
    /\ IsFresh("readiness") /\ RosHealth = "healthy"
    /\ JointsHeard => JointAge = Fresh

\* What the operator sees and may do never hides a stop, a fault or a source
\* that fell silent.
TelemetryIsHonest ==
  TypeOK /\ StopNeverMasked /\ FaultBlocks /\ PrimaryJointsPreferred /\ FreshIsFresh
================================================================================
