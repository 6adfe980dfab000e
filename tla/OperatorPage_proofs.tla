-------------------------- MODULE OperatorPage_proofs --------------------------
(***************************************************************************)
(* The safety of what the operator's page rests on: the servo bridge, the  *)
(* jog, the telemetry and the stream, for every bound, arm, trajectory,    *)
(* queue size, number of pages, threads and connections.                   *)
(***************************************************************************)
EXTENDS OperatorPage, TLAPS

(* ---- the servo bridge ---- *)

\* What a final deactivation rests on: nothing is on the wire that could come
\* back, and a bridge that was never activated has nothing to switch off.
NothingLeft ==
  /\ quiet => servoCalls = 0 /\ pqmCalls = 0
  /\ state = "IDLE" => ~bridgeActive

IInv == TypeOK /\ ForwardsOnlyWhileReady /\ QuietAfterDeactivate /\ NothingLeft

\* The type invariant in two parts: the flags, and the rest.
FlagsOK ==
  /\ robotReady \in BOOLEAN /\ servoActive \in BOOLEAN /\ bridgeActive \in BOOLEAN
  /\ blind \in [robot : BOOLEAN, servo : BOOLEAN] /\ quiet \in BOOLEAN
CountsOK ==
  /\ state \in BridgeState /\ pollCount \in 0 .. NoTimer
  /\ servoCalls \in 0 .. MaxCalls /\ pqmCalls \in 0 .. MaxCalls
  /\ queueCalls \in 0 .. MaxCalls

(* The type invariant of the bridge, in its two parts.                     *)
LEMMA TypeParts == TypeOK <=> FlagsOK /\ CountsOK
  BY DEF TypeOK, FlagsOK, CountsOK

\* A bridge that starts forwards nothing and has nothing on the wire.
LEMMA InitIInv == Init => IInv
<1> SUFFICES ASSUME Init PROVE IInv
  OBVIOUS
<1>1. FlagsOK
  BY Zenon DEF Init, FlagsOK
<1>2. CountsOK
  BY BridgeAssumption DEF Init, CountsOK, NoTimer, BridgeState
<1>3. ForwardsOnlyWhileReady /\ QuietAfterDeactivate /\ NothingLeft
  BY DEF Init, ForwardsOnlyWhileReady, QuietAfterDeactivate, NothingLeft
<1> QED
  BY <1>1, <1>2, <1>3, TypeParts DEF IInv

\* Every callback of the node preserves the types and the bounds.
LEMMA NextTypeOK == TypeOK /\ [Next]_vars => TypeOK'
<1> SUFFICES ASSUME FlagsOK, CountsOK, [Next]_vars PROVE FlagsOK' /\ CountsOK'
  BY TypeParts DEF TypeOK, FlagsOK, CountsOK
<1>1. ASSUME NEW ok \in BOOLEAN, handle_activate(ok) PROVE FlagsOK' /\ CountsOK'
  <2>1. FlagsOK'
    BY <1>1, Zenon DEF FlagsOK, handle_activate, begin_start_point_queue_mode, begin_start_servo, vars
  <2>2. CountsOK'
    BY <1>1, BridgeAssumption DEF CountsOK, NoTimer, BridgeState, handle_activate, begin_start_point_queue_mode, begin_start_servo, vars
  <2> QED
    BY <2>1, <2>2
<1>2. ASSUME handle_deactivate PROVE FlagsOK' /\ CountsOK'
  <2>1. FlagsOK'
    BY <1>2, Zenon DEF FlagsOK, handle_deactivate
  <2>2. CountsOK'
    BY <1>2, BridgeAssumption DEF CountsOK, NoTimer, BridgeState, handle_deactivate
  <2> QED
    BY <2>1, <2>2
<1>3. ASSUME OnStartServoReply PROVE FlagsOK' /\ CountsOK'
  <2>1. FlagsOK'
    BY <1>3, Zenon DEF FlagsOK, OnStartServoReply
  <2>2. CountsOK'
    BY <1>3, BridgeAssumption DEF CountsOK, NoTimer, BridgeState, OnStartServoReply
  <2> QED
    BY <2>1, <2>2
<1>4. ASSUME OnServoPoll PROVE FlagsOK' /\ CountsOK'
  <2>1. FlagsOK'
    BY <1>4, Zenon DEF FlagsOK, OnServoPoll, begin_start_point_queue_mode
  <2>2. CountsOK'
    BY <1>4, BridgeAssumption DEF CountsOK, NoTimer, BridgeState, OnServoPoll, begin_start_point_queue_mode
  <2> QED
    BY <2>1, <2>2
<1>5. ASSUME OnPointQueueModeReply PROVE FlagsOK' /\ CountsOK'
  <2>1. FlagsOK'
    <3>1. (~robotReady) \in BOOLEAN /\ (~servoActive) \in BOOLEAN
      OBVIOUS
    <3>2. [robot |-> ~robotReady, servo |-> ~servoActive] \in [robot : BOOLEAN, servo : BOOLEAN]
      BY <3>1, Zenon
    <3> QED
      BY <1>5, <3>2, Zenon DEF FlagsOK, OnPointQueueModeReply
  <2>2. CountsOK'
    BY <1>5, BridgeAssumption DEF CountsOK, NoTimer, BridgeState, OnPointQueueModeReply
  <2> QED
    BY <2>1, <2>2
<1>6. ASSUME OnQueueReply PROVE FlagsOK' /\ CountsOK'
  <2>1. FlagsOK'
    BY <1>6, Zenon DEF FlagsOK, OnQueueReply
  <2>2. CountsOK'
    BY <1>6, BridgeAssumption DEF CountsOK, NoTimer, BridgeState, OnQueueReply
  <2> QED
    BY <2>1, <2>2
<1>7. ASSUME NEW b \in BOOLEAN, on_robot_status(b) PROVE FlagsOK' /\ CountsOK'
  <2>1. FlagsOK'
    BY <1>7, Zenon DEF FlagsOK, on_robot_status
  <2>2. CountsOK'
    BY <1>7, BridgeAssumption DEF CountsOK, NoTimer, BridgeState, on_robot_status
  <2> QED
    BY <2>1, <2>2
<1>8. ASSUME NEW b \in BOOLEAN, on_servo_status(b) PROVE FlagsOK' /\ CountsOK'
  <2>1. FlagsOK'
    BY <1>8, Zenon DEF FlagsOK, on_servo_status
  <2>2. CountsOK'
    BY <1>8, BridgeAssumption DEF CountsOK, NoTimer, BridgeState, on_servo_status
  <2> QED
    BY <2>1, <2>2
<1>9. ASSUME NEW p \in TrajPoints, on_servo_trajectory(p) PROVE FlagsOK' /\ CountsOK'
  <2>1. FlagsOK'
    BY <1>9, Zenon DEF FlagsOK, on_servo_trajectory
  <2>2. CountsOK'
    <3>1. pollCount' = pollCount /\ servoCalls' = servoCalls /\ pqmCalls' = pqmCalls
      BY <1>9 DEF on_servo_trajectory
    <3>2. state' = state \/ state' = "ERROR"
      BY <1>9 DEF on_servo_trajectory
    <3>3. queueCalls' = queueCalls \/ (queueCalls < MaxCalls /\ queueCalls' = queueCalls + 1)
      BY <1>9 DEF on_servo_trajectory
    <3> QED
      BY <3>1, <3>2, <3>3, BridgeAssumption DEF CountsOK, NoTimer, BridgeState
  <2> QED
    BY <2>1, <2>2
<1>10. ASSUME UNCHANGED vars PROVE FlagsOK' /\ CountsOK'
  BY <1>10 DEF vars, FlagsOK, CountsOK
<1> QED
  BY <1>1, <1>2, <1>3, <1>4, <1>5, <1>6, <1>7, <1>8, <1>9, <1>10 DEF Next

\* Only the answer of start_point_queue_mode makes the bridge forward, and it
\* notes what was lost by then; a later loss meets an ACTIVE bridge and stops it.
LEMMA NextForwards == IInv /\ [Next]_vars => ForwardsOnlyWhileReady'
<1> SUFFICES ASSUME TypeOK, ForwardsOnlyWhileReady, [Next]_vars
             PROVE  ForwardsOnlyWhileReady'
  BY DEF IInv
<1> USE DEF TypeOK, ForwardsOnlyWhileReady
<1>1. ASSUME NEW ok \in BOOLEAN, handle_activate(ok) PROVE ForwardsOnlyWhileReady'
  BY <1>1 DEF handle_activate, begin_start_point_queue_mode, begin_start_servo, vars
<1>2. CASE handle_deactivate
  BY <1>2 DEF handle_deactivate
<1>3. CASE OnStartServoReply
  BY <1>3 DEF OnStartServoReply
<1>4. CASE OnServoPoll
  BY <1>4 DEF OnServoPoll, begin_start_point_queue_mode
<1>5. CASE OnPointQueueModeReply
  <2>1. CASE blind' = [robot |-> ~robotReady, servo |-> ~servoActive]
    <3>1. blind'.robot = ~robotReady /\ blind'.servo = ~servoActive
      BY <2>1, Zenon
    <3> QED
      BY <1>5, <3>1, Zenon DEF OnPointQueueModeReply
  <2>2. CASE state' # "ACTIVE"
    BY <2>2
  <2> QED
    BY <1>5, <2>1, <2>2 DEF OnPointQueueModeReply
<1>6. CASE OnQueueReply
  BY <1>6 DEF OnQueueReply
<1>7. ASSUME NEW b \in BOOLEAN, on_robot_status(b) PROVE ForwardsOnlyWhileReady'
  BY <1>7 DEF on_robot_status
<1>8. ASSUME NEW b \in BOOLEAN, on_servo_status(b) PROVE ForwardsOnlyWhileReady'
  BY <1>8 DEF on_servo_status
<1>9. ASSUME NEW p \in TrajPoints, on_servo_trajectory(p) PROVE ForwardsOnlyWhileReady'
  BY <1>9 DEF on_servo_trajectory
<1>10. CASE UNCHANGED vars
  BY <1>10 DEF vars
<1> QED
  BY <1>1, <1>2, <1>3, <1>4, <1>5, <1>6, <1>7, <1>8, <1>9, <1>10 DEF Next

\* After a final deactivation only handle_activate leads back: no answer is on
\* the wire and no poll runs.
LEMMA NextQuiet == IInv /\ [Next]_vars => QuietAfterDeactivate' /\ NothingLeft'
<1> DEFINE P == QuietAfterDeactivate /\ NothingLeft
<1> SUFFICES ASSUME TypeOK, P, [Next]_vars PROVE P'
  BY DEF IInv
<1> USE DEF TypeOK, QuietAfterDeactivate, NothingLeft
<1>1. ASSUME NEW ok \in BOOLEAN, handle_activate(ok) PROVE P'
  BY <1>1 DEF handle_activate, begin_start_point_queue_mode, begin_start_servo, vars
<1>2. CASE handle_deactivate
  BY <1>2 DEF handle_deactivate
<1>3. CASE OnStartServoReply
  BY <1>3 DEF OnStartServoReply
<1>4. CASE OnServoPoll
  BY <1>4 DEF OnServoPoll, begin_start_point_queue_mode
<1>5. CASE OnPointQueueModeReply
  BY <1>5 DEF OnPointQueueModeReply
<1>6. CASE OnQueueReply
  BY <1>6 DEF OnQueueReply
<1>7. ASSUME NEW b \in BOOLEAN, on_robot_status(b) PROVE P'
  BY <1>7 DEF on_robot_status
<1>8. ASSUME NEW b \in BOOLEAN, on_servo_status(b) PROVE P'
  BY <1>8 DEF on_servo_status
<1>9. ASSUME NEW p \in TrajPoints, on_servo_trajectory(p) PROVE P'
  BY <1>9 DEF on_servo_trajectory
<1>10. CASE UNCHANGED vars
  BY <1>10 DEF vars
<1> QED
  BY <1>1, <1>2, <1>3, <1>4, <1>5, <1>6, <1>7, <1>8, <1>9, <1>10 DEF Next

\* The invariant of the bridge.
LEMMA SpecIInv == Spec => []IInv
<1>1. IInv /\ [Next]_vars => IInv'
  BY NextTypeOK, NextForwards, NextQuiet DEF IInv
<1> QED
  BY InitIInv, <1>1, PTL DEF Spec

\* The variables of servo_bridge_node.cpp keep their types, and at most MaxCalls
\* requests to a service are on the wire.
THEOREM TypeCorrect == Spec => []TypeOK
<1>1. IInv => TypeOK
  BY DEF IInv
<1> QED
  BY SpecIInv, <1>1, PTL

\* on_robot_status and on_servo_status miss no loss of a bridge that forwards.
THEOREM ForwardsSafely == Spec => []ForwardsOnlyWhileReady
<1>1. IInv => ForwardsOnlyWhileReady
  BY DEF IInv
<1> QED
  BY SpecIInv, <1>1, PTL

\* A handle_deactivate that finds no request on the wire is final.
THEOREM DeactivationIsFinal == Spec => []QuietAfterDeactivate
<1>1. IInv => QuietAfterDeactivate
  BY DEF IInv
<1> QED
  BY SpecIInv, <1>1, PTL

\* The bridge forwards points for a ready robot and an operator who wants them.
THEOREM BridgeIsSafe == Spec => []BridgeSafe
<1>1. IInv => BridgeSafe
  BY DEF IInv, BridgeSafe
<1> QED
  BY SpecIInv, <1>1, PTL

(* ---- the parts of the page ---- *)

(* A step of the page is a step of each part, or leaves it alone.          *)
LEMMA StepOfParts ==
    ASSUME [PageNext]_pageVars
    PROVE  /\ [Next]_vars /\ [Jog!Next]_jogVars /\ [Telemetry!Next]_telemetryVars
           /\ [Stream!Next]_streamVars /\ [Client!Next]_clientVars
<1>1. CASE UNCHANGED pageVars
    BY <1>1 DEF pageVars
<1>2. CASE Moves("bridge", Next)
    BY <1>2 DEF Moves
<1>3. CASE Moves("jog", Jog!Next)
    BY <1>3 DEF Moves
<1>4. CASE Moves("telemetry", Telemetry!Next)
    BY <1>4 DEF Moves
<1>5. CASE Moves("stream", Stream!Next)
    BY <1>5 DEF Moves
<1>6. CASE Moves("client", Client!Next)
    BY <1>6 DEF Moves
<1> QED
    BY <1>1, <1>2, <1>3, <1>4, <1>5, <1>6 DEF PageNext

(* ---- the jog ---- *)

(* The watchdog is armed for a joint of the arm, and a timer that has not  *)
(* expired finds a recent message.                                         *)
JogInv ==
    /\ Jog!TypeOK /\ Jog!EndlessJogGuarded /\ Jog!WatchdogBoundsJog
    /\ jogState = "ACTIVE" => jogJoint \in Jog!Joints
    /\ jogState = "ACTIVE" /\ ~watchdogDue => beatAge <= Jog!WATCHDOG

(* No joint jogs at first.                                                 *)
LEMMA JogInitially == Jog!Init => JogInv
<1> SUFFICES ASSUME Jog!Init PROVE JogInv
    OBVIOUS
<1>1. NumJoints \in Nat \ {0} /\ Depth \in Nat \ {0}
    BY PartsAssumption DEF Jog!JogAssumption
<1>2. jointJog = Jog!NoJog /\ jogJoint = Jog!None
    BY DEF Jog!Init
<1>3. 1 \in Jog!Joints
    BY <1>1 DEF Jog!Joints
<1>4. Jog!NoJog \in Jog!JointJog /\ Jog!NoJog.vel = 0
    BY <1>3 DEF Jog!NoJog, Jog!JointJog
<1>5. Jog!TypeOK
    <2>1. jogTopic \in Seq(Jog!JogCommand) /\ Len(jogTopic) <= Depth
        BY <1>1 DEF Jog!Init
    <2>2. hmiStatus \in BOOLEAN /\ watchdogDue \in BOOLEAN
        BY DEF Jog!Init
    <2>3. jogDir \in {-1, 0, 1} /\ beatAge \in 0 .. Jog!MaxAge
        BY DEF Jog!Init, Jog!MaxAge, Jog!WATCHDOG
    <2> QED
        BY <1>2, <1>4, <2>1, <2>2, <2>3 DEF Jog!Init, Jog!TypeOK
<1>6. Jog!EndlessJogGuarded
    BY <1>2, <1>4 DEF Jog!EndlessJogGuarded
<1> QED
    BY <1>5, <1>6 DEF Jog!Init, JogInv, Jog!WatchdogBoundsJog

(* A topic never holds more than Depth messages.                           *)
LEMMA PublishedTopic ==
    ASSUME Jog!TypeOK, NEW m \in Jog!JogCommand
    PROVE  /\ Jog!Publish(jogTopic, m) \in Seq(Jog!JogCommand)
           /\ Len(Jog!Publish(jogTopic, m)) <= Depth
<1>1. Depth \in Nat \ {0}
    BY PartsAssumption DEF Jog!JogAssumption
<1>2. CASE Len(jogTopic) < Depth
    BY <1>1, <1>2 DEF Jog!TypeOK, Jog!Publish
<1>3. CASE ~(Len(jogTopic) < Depth)
    <2>1. jogTopic \in Seq(Jog!JogCommand) /\ Len(jogTopic) = Depth /\ jogTopic # <<>>
        BY <1>1, <1>3 DEF Jog!TypeOK
    <2>2. Tail(jogTopic) \in Seq(Jog!JogCommand) /\ Len(Tail(jogTopic)) = Depth - 1
        BY <2>1, <1>1
    <2> QED
        BY <1>1, <1>3, <2>2 DEF Jog!Publish
<1> QED
    BY <1>2, <1>3

(* Every step of the jog keeps its invariant.                              *)
LEMMA JogStep == JogInv /\ [Jog!Next]_jogVars => JogInv'
<1> SUFFICES ASSUME JogInv, [Jog!Next]_jogVars PROVE JogInv'
    OBVIOUS
<1> NumJoints \in Nat \ {0} /\ Depth \in Nat \ {0} /\ JogCommands \subseteq Jog!JogCommand
    BY PartsAssumption DEF Jog!JogAssumption
<1> USE DEF JogInv, Jog!TypeOK, Jog!EndlessJogGuarded, Jog!WatchdogBoundsJog
<1>1. CASE UNCHANGED jogVars
    BY <1>1 DEF jogVars
<1>2. ASSUME NEW allows \in BOOLEAN, Jog!OnServoBridgeStatus(allows) PROVE JogInv'
    BY <1>2 DEF Jog!OnServoBridgeStatus
<1>3. ASSUME NEW m \in JogCommands, Jog!send_jog_command(m) PROVE JogInv'
    BY <1>3, PublishedTopic DEF Jog!send_jog_command
<1>4. CASE Jog!OnJogCommand
    <2> DEFINE m == Head(jogTopic)
    <2>1. /\ m \in Jog!JogCommand
          /\ jogTopic' \in Seq(Jog!JogCommand) /\ Len(jogTopic') <= Depth
        BY <1>4 DEF Jog!OnJogCommand
    <2>2. beatAge' = 0 /\ UNCHANGED <<hmiStatus, watchdogDue>>
        BY <1>4 DEF Jog!OnJogCommand
    <2>3. CASE UNCHANGED <<jogState, jogJoint, jogDir, jointJog>>
        BY <2>1, <2>2, <2>3 DEF Jog!MaxAge, Jog!WATCHDOG
    <2>4. CASE ~Jog!Rejected(m) /\ Jog!PublishDiscrete(m)
        BY <2>1, <2>2, <2>4
        DEF Jog!MaxAge, Jog!WATCHDOG, Jog!Rejected, Jog!PublishDiscrete, Jog!JogCommand,
            Jog!JointJog, Jog!Joints, Jog!None
    <2>5. CASE ~Jog!Rejected(m) /\ Jog!PublishContinuous(m)
        BY <2>1, <2>2, <2>5
        DEF Jog!MaxAge, Jog!WATCHDOG, Jog!Rejected, Jog!PublishContinuous, Jog!JogCommand,
            Jog!JointJog, Jog!Joints, Jog!None
    <2> QED
        BY <1>4, <2>3, <2>4, <2>5 DEF Jog!OnJogCommand
<1>5. CASE Jog!OnWatchdog
    <2>1. watchdogDue' = FALSE /\ UNCHANGED <<hmiStatus, jogTopic, beatAge>>
        BY <1>5 DEF Jog!OnWatchdog
    <2>2. CASE beatAge > Jog!WATCHDOG /\ jogState # "IDLE"
        <3>1. /\ jointJog' = [joint |-> jogJoint, vel |-> 0, timed |-> FALSE]
              /\ jogState' = "IDLE" /\ jogJoint' = Jog!None /\ jogDir' = 0
            BY <1>5, <2>2 DEF Jog!OnWatchdog
        <3>2. jogJoint \in Jog!Joints
            BY <2>2
        <3>3. jointJog' \in Jog!JointJog /\ jointJog'.vel = 0
            BY <3>1, <3>2 DEF Jog!JointJog
        <3>4. Jog!TypeOK'
            BY <2>1, <3>1, <3>3 DEF Jog!None
        <3> QED
            BY <2>1, <3>1, <3>3, <3>4
    <2>3. CASE ~(beatAge > Jog!WATCHDOG /\ jogState # "IDLE")
        <3>1. UNCHANGED <<jogState, jogJoint, jogDir, jointJog>>
            BY <1>5, <2>3 DEF Jog!OnWatchdog
        <3>2. jogState = "ACTIVE" => beatAge <= Jog!WATCHDOG
            BY <2>3 DEF Jog!MaxAge, Jog!WATCHDOG
        <3>3. Jog!TypeOK' /\ Jog!EndlessJogGuarded'
            BY <2>1, <3>1
        <3>4. jogState' = "ACTIVE" => beatAge' <= Jog!WATCHDOG /\ jogJoint' \in Jog!Joints
            BY <2>1, <3>1, <3>2
        <3> QED
            BY <2>1, <3>3, <3>4 DEF Jog!WATCHDOG, Jog!MaxAge
    <2> QED
        BY <2>2, <2>3
<1>6. CASE Jog!Tick
    BY <1>6 DEF Jog!Tick, Jog!MaxAge, Jog!WATCHDOG
<1> QED
    BY <1>1, <1>2, <1>3, <1>4, <1>5, <1>6 DEF Jog!Next, jogVars, Jog!vars

(* jog_input_node.py: an endless jog is always guarded by a watchdog that  *)
(* is armed for its joint and direction, and the watchdog ends it when the *)
(* page falls silent, for every arm, depth of the topic and page.          *)
THEOREM JogStaysBounded == PageSpec => []JogIsBounded
<1>1. PageInit => JogInv
    BY JogInitially DEF PageInit
<1>2. JogInv /\ [PageNext]_pageVars => JogInv'
    BY StepOfParts, JogStep
<1>3. JogInv => JogIsBounded
    BY DEF JogInv, JogIsBounded, Jog!JogIsBounded
<1> QED
    BY <1>1, <1>2, <1>3, PTL DEF PageSpec

(* ---- the telemetry ---- *)

TelemetryInv == Telemetry!TypeOK /\ Telemetry!PrimaryJointsPreferred

(* The thresholds that the arguments use.                                  *)
LEMMA Thresholds ==
    /\ Telemetry!AllSources = {"alert", "gateway", "debug", "command", "robot", "readiness",
                               "primary", "fallback", "validate", "execute", "review", "started"}
    /\ \A s \in {"primary", "fallback", "readiness"} :
          Telemetry!IsFresh(s) <=> age[s] <= 0
    BY DEF Telemetry!AllSources, Telemetry!CONNECTION_FRESHNESS, Telemetry!IsFresh,
           Telemetry!FreshWithin, Telemetry!Fresh

(* Without a start error an emergency stop that ROS has told of is what    *)
(* the page is told.                                                       *)
LEMMA StopShows == Telemetry!StopNeverMasked
<1>1. startError => Telemetry!RosHealth = "down"
    BY DEF Telemetry!RosHealth
<1> QED
    BY <1>1 DEF Telemetry!StopNeverMasked, Telemetry!RuntimeState

(* A fault blocks by the order in which the runtime state is derived.      *)
LEMMA FaultShows == Telemetry!FaultBlocks
<1> SUFFICES ASSUME robot.error \/ (Telemetry!IsFresh("alert") /\ alert.fault)
             PROVE  \/ Telemetry!Blocking
                    \/ Telemetry!RuntimeState = "TIMEOUT" /\ alert.text = "timeout"
    BY DEF Telemetry!FaultBlocks
<1>1. CASE startError \/ Telemetry!RosHealth = "down" \/ robot.estop
    BY <1>1 DEF Telemetry!Blocking, Telemetry!RuntimeState
<1>2. CASE ~(startError \/ Telemetry!RosHealth = "down" \/ robot.estop)
    <2>1. alert.fault => Telemetry!AlertState = "FAULT"
        BY DEF Telemetry!AlertState
    <2>2. \/ Telemetry!RuntimeState = "TIMEOUT" /\ alert.text = "timeout"
          \/ Telemetry!RuntimeState = "FAULT"
        BY <1>2, <2>1 DEF Telemetry!RuntimeState
    <2> QED
        BY <2>2 DEF Telemetry!Blocking
<1> QED
    BY <1>1, <1>2

(* Fresh telemetry has fresh joints and a fresh readiness.                 *)
LEMMA FreshShows == Telemetry!TypeOK => Telemetry!FreshIsFresh
<1> SUFFICES ASSUME Telemetry!TypeOK, Telemetry!FreshnessOfTelemetry = "fresh"
             PROVE  /\ Telemetry!IsFresh("readiness") /\ Telemetry!RosHealth = "healthy"
                    /\ Telemetry!JointsHeard => Telemetry!JointAge = Telemetry!Fresh
    BY DEF Telemetry!FreshIsFresh
<1>1. \A s \in Telemetry!ActiveSources : ~startError /\ Telemetry!IsFresh(s)
    BY DEF Telemetry!FreshnessOfTelemetry, Telemetry!SourceFresh
<1>2. "readiness" \in Telemetry!ActiveSources
    BY DEF Telemetry!ActiveSources
<1>3. Telemetry!RosHealth = "healthy"
    <2>1. Telemetry!FreshWithin("readiness", Telemetry!Fresh)
        BY <1>1, <1>2, Thresholds DEF Telemetry!FreshWithin, Telemetry!Fresh
    <2> QED
        BY <1>1, <1>2, <2>1 DEF Telemetry!RosHealth
<1>4. ASSUME Telemetry!JointsHeard PROVE Telemetry!JointAge = Telemetry!Fresh
    <2>1. jointSource \in Telemetry!JointTopics
        BY <1>4 DEF Telemetry!JointsHeard, Telemetry!TypeOK
    <2>2. jointSource \in Telemetry!ActiveSources
        BY <2>1 DEF Telemetry!ActiveSources
    <2>3. jointSource \in Telemetry!AllSources /\ age[jointSource] <= 0
        BY <1>1, <2>1, <2>2, Thresholds DEF Telemetry!JointTopics
    <2>4. age[jointSource] \in 0 .. 4
        BY <2>3 DEF Telemetry!TypeOK, Telemetry!Fresh, Telemetry!Never
    <2> QED
        BY <1>4, <2>3, <2>4 DEF Telemetry!JointAge, Telemetry!Fresh
<1> QED
    BY <1>1, <1>2, <1>3, <1>4

(* Nothing was heard at first.                                             *)
LEMMA TelemetryInitially == Telemetry!Init => TelemetryInv
<1> SUFFICES ASSUME Telemetry!Init PROVE TelemetryInv
    OBVIOUS
<1>1. age \in [Telemetry!AllSources -> 0 .. 4] /\ age["primary"] = 4
    BY Thresholds DEF Telemetry!Init, Telemetry!Fresh, Telemetry!Never
<1>2. robot \in [estop : BOOLEAN, error : BOOLEAN]
    BY Zenon DEF Telemetry!Init
<1>3. alert \in [fault : BOOLEAN, text : Telemetry!AlertText]
    BY DEF Telemetry!Init, Telemetry!AlertText
<1>4. interface \in [Telemetry!Interfaces -> BOOLEAN] /\ ready \in BOOLEAN /\ sim \in BOOLEAN
    BY Zenon DEF Telemetry!Init
<1>5. Telemetry!TypeOK
    BY <1>1, <1>2, <1>3, <1>4
    DEF Telemetry!Init, Telemetry!TypeOK, Telemetry!Fresh, Telemetry!Never
<1>6. Telemetry!PrimaryJointsPreferred
    BY <1>1 DEF Telemetry!PrimaryJointsPreferred, Telemetry!FreshWithin, Telemetry!Fresh
<1> QED
    BY <1>5, <1>6 DEF TelemetryInv

(* What a message of a source changes of the ages.                         *)
LEMMA HeardAges ==
    ASSUME Telemetry!TypeOK, NEW s \in Telemetry!AllSources, Telemetry!Heard(s)
    PROVE  /\ age' \in [Telemetry!AllSources -> Telemetry!Fresh .. Telemetry!Never]
           /\ s # "primary" => age'["primary"] = age["primary"]
    BY Thresholds DEF Telemetry!TypeOK, Telemetry!Heard, Telemetry!Stamp, Telemetry!Fresh,
                      Telemetry!Never

(* Every message, and the time, keeps the invariant of the telemetry.      *)
LEMMA TelemetryStep == TelemetryInv /\ [Telemetry!Next]_telemetryVars => TelemetryInv'
<1> SUFFICES ASSUME TelemetryInv, [Telemetry!Next]_telemetryVars PROVE TelemetryInv'
    OBVIOUS
<1> USE DEF TelemetryInv, Telemetry!PrimaryJointsPreferred, Telemetry!FreshWithin
<1>1. CASE UNCHANGED telemetryVars
    BY <1>1 DEF telemetryVars, Telemetry!TypeOK
<1>2. CASE Telemetry!OnRobotStatus
    <2>1. "robot" \in Telemetry!AllSources
        BY Thresholds
    <2> QED
        BY <1>2, <2>1, HeardAges DEF Telemetry!OnRobotStatus, Telemetry!TypeOK
<1>3. CASE Telemetry!OnReadiness
    <2>1. "readiness" \in Telemetry!AllSources
        BY Thresholds
    <2> QED
        BY <1>3, <2>1, HeardAges DEF Telemetry!OnReadiness, Telemetry!TypeOK
<1>4. CASE Telemetry!OnSupervisorAlert
    <2>1. "alert" \in Telemetry!AllSources
        BY Thresholds
    <2> QED
        BY <1>4, <2>1, HeardAges DEF Telemetry!OnSupervisorAlert, Telemetry!TypeOK
<1>5. ASSUME NEW s \in Telemetry!Llm, Telemetry!OnLlm(s) PROVE TelemetryInv'
    <2>1. s \in Telemetry!AllSources /\ s # "primary"
        BY Thresholds DEF Telemetry!Llm
    <2> QED
        BY <1>5, <2>1, HeardAges DEF Telemetry!OnLlm, Telemetry!TypeOK
<1>6. ASSUME NEW topic \in Telemetry!JointTopics, Telemetry!OnJointState(topic)
      PROVE  TelemetryInv'
    <2>1. topic \in Telemetry!AllSources
        BY Thresholds DEF Telemetry!JointTopics
    <2>2. Telemetry!TypeOK'
        BY <1>6, <2>1, HeardAges DEF Telemetry!OnJointState, Telemetry!TypeOK
    <2>3. CASE topic = "primary"
        BY <1>6, <2>2, <2>3 DEF Telemetry!OnJointState
    <2>4. CASE topic # "primary"
        <3>1. age'["primary"] = age["primary"]
            BY <1>6, <2>1, <2>4, HeardAges DEF Telemetry!OnJointState
        <3>2. jointSource # "primary" \/ ~(age["primary"] <= Telemetry!Fresh)
            BY <1>6, <2>4, Thresholds DEF Telemetry!OnJointState, Telemetry!ShouldAccept,
               Telemetry!Fresh
        <3> QED
            BY <2>2, <3>1, <3>2
    <2> QED
        BY <2>3, <2>4
<1>7. CASE Telemetry!RefreshCommandInterfaces
    <2>1. "primary" \in Telemetry!AllSources /\ "primary" \notin Telemetry!Interfaces
        BY Thresholds DEF Telemetry!Interfaces
    <2>2. /\ age' \in [Telemetry!AllSources -> Telemetry!Fresh .. Telemetry!Never]
          /\ age'["primary"] = age["primary"]
        BY <1>7, <2>1
        DEF Telemetry!RefreshCommandInterfaces, Telemetry!TypeOK, Telemetry!Fresh, Telemetry!Never
    <2> QED
        BY <1>7, <2>2 DEF Telemetry!RefreshCommandInterfaces, Telemetry!TypeOK
<1>8. ASSUME NEW s \in Telemetry!AllSources, Telemetry!GrowOlder(s) PROVE TelemetryInv'
    <2>1. Telemetry!NextAge(s) \in 1 .. 3
        BY DEF Telemetry!NextAge, Telemetry!Within5, Telemetry!Within30, Telemetry!Old
    <2>2. "primary" \in Telemetry!AllSources
        BY Thresholds
    <2>3. /\ age' \in [Telemetry!AllSources -> Telemetry!Fresh .. Telemetry!Never]
          /\ age'["primary"] <= Telemetry!Fresh => age["primary"] <= Telemetry!Fresh
        BY <1>8, <2>1, <2>2
        DEF Telemetry!GrowOlder, Telemetry!TypeOK, Telemetry!Fresh, Telemetry!Never
    <2> QED
        BY <1>8, <2>3 DEF Telemetry!GrowOlder, Telemetry!TypeOK
<1> QED
    BY <1>1, <1>2, <1>3, <1>4, <1>5, <1>6, <1>7, <1>8
    DEF Telemetry!Next, Telemetry!vars, telemetryVars

(* telemetry_snapshot.py and adapter.py: whatever is heard and whatever    *)
(* falls silent, in any order, the page is shown the stop that is known,   *)
(* is blocked by a fault, keeps the robot's own joints and does not call   *)
(* stale telemetry fresh, for any set of sources.                          *)
THEOREM TelemetryStaysHonest == PageSpec => []TelemetryIsHonest
<1>1. PageInit => TelemetryInv
    BY TelemetryInitially DEF PageInit
<1>2. TelemetryInv /\ [PageNext]_pageVars => TelemetryInv'
    BY StepOfParts, TelemetryStep
<1>3. TelemetryInv => TelemetryIsHonest
    BY StopShows, FaultShows, FreshShows
    DEF TelemetryInv, TelemetryIsHonest, Telemetry!TelemetryIsHonest
<1> QED
    BY <1>1, <1>2, <1>3, PTL DEF PageSpec

(* ---- the stream client ---- *)

(* Only the instance that the effect holds connects, is open or waits to   *)
(* connect again; a later one has done nothing yet; one that failed closed *)
(* has no way back.                                                        *)
OnlyHeld ==
    \A i \in Client!Instance :
        /\ socket[i] \in {"connecting", "open"} => i = inst
        /\ reconnectTimer[i] => i = inst /\ socket[i] = "none"
        /\ i < inst => closedByClient[i]
        /\ i > inst => socket[i] = "none" /\ ~failClosedTerminal[i]
        /\ failClosedTerminal[i] => socket[i] \in {"closing", "none"} /\ ~reconnectTimer[i]
        /\ failClosedTerminal[inst] => shown # "connected"

ClientFlags ==
    /\ reconnectTimer \in [Client!Instance -> BOOLEAN]
    /\ staleSocketTimer \in [Client!Instance -> BOOLEAN]
    /\ closedByClient \in [Client!Instance -> BOOLEAN]
    /\ failClosedTerminal \in [Client!Instance -> BOOLEAN]
    /\ up \in BOOLEAN

ClientStates ==
    /\ inst \in Client!Instance
    /\ socket \in [Client!Instance -> Client!SocketState]
    /\ shown \in {"connected", "connecting", "disconnected"}
    /\ systemState \in {"LOST_CONN", "blocked", "clear"}

(* The type invariant of the client, in its two parts.                     *)
LEMMA ClientTypes == Client!TypeOK <=> ClientFlags /\ ClientStates
    BY DEF Client!TypeOK, ClientFlags, ClientStates

ClientInv == ClientFlags /\ ClientStates /\ OnlyHeld /\ Client!ConnectedMeansSocket

(* There is a first instance of the client.                                *)
LEMMA Instances == MaxInstances \in Nat \ {0} /\ Client!Instance = 1 .. MaxInstances
    BY PartsAssumption DEF Client!ClientAssumption, Client!Instance

(* The first instance has no socket yet.                                   *)
LEMMA ClientInitially == Client!Init => ClientInv
<1> SUFFICES ASSUME Client!Init PROVE ClientInv
    OBVIOUS
<1>1. ClientFlags
    BY Zenon DEF Client!Init, ClientFlags
<1>2. ClientStates
    BY Instances DEF Client!Init, ClientStates, Client!SocketState
<1>3. OnlyHeld
    BY Instances DEF Client!Init, OnlyHeld
<1>4. Client!ConnectedMeansSocket
    BY DEF Client!Init, Client!ConnectedMeansSocket
<1> QED
    BY <1>1, <1>2, <1>3, <1>4 DEF ClientInv

(* Every step of the client keeps the types of its flags.                  *)
LEMMA ClientFlagsStep == ClientInv /\ [Client!Next]_clientVars => ClientFlags'
<1> SUFFICES ASSUME ClientFlags, [Client!Next]_clientVars PROVE ClientFlags'
    BY DEF ClientInv
<1> USE DEF ClientFlags
<1>1. CASE UNCHANGED clientVars
    BY <1>1, Zenon DEF clientVars
<1>2. ASSUME NEW i \in Client!Instance, Client!OnOpen(i) \/ Client!OnError(i) PROVE ClientFlags'
    BY <1>2, Zenon DEF Client!OnOpen, Client!OnError
<1>3. ASSUME NEW i \in Client!Instance, Client!OnClose(i) PROVE ClientFlags'
    <2>1. (reconnectTimer[i] \/ Client!MayReconnect(i)) \in BOOLEAN
        BY Zenon
    <2> QED
        BY <1>3, <2>1, Zenon DEF Client!OnClose
<1>4. ASSUME NEW i \in Client!Instance, Client!Reconnect(i) PROVE ClientFlags'
    BY <1>4, Zenon DEF Client!Reconnect
<1>5. ASSUME NEW i \in Client!Instance,
             Client!StaleTimeout(i) \/ Client!OnEvent(i) \/ Client!OnInvalid(i)
      PROVE  ClientFlags'
    BY <1>5, Zenon DEF Client!StaleTimeout, Client!OnEvent, Client!OnInvalid
<1>6. CASE Client!NewConnection
    BY <1>6, Zenon DEF Client!NewConnection
<1>7. CASE Client!RenewFails \/ Client!OnResponse
    BY <1>7, Zenon DEF Client!RenewFails, Client!OnResponse
<1>8. CASE Client!Backend
    <2>1. (~up) \in BOOLEAN
        BY Zenon
    <2> QED
        BY <1>8, <2>1, Zenon DEF Client!Backend
<1> QED
    BY <1>1, <1>2, <1>3, <1>4, <1>5, <1>6, <1>7, <1>8
    DEF Client!Next, Client!Progress, Client!vars, clientVars

(* Every step of the client keeps its invariant.                           *)
LEMMA ClientStep == ClientInv /\ [Client!Next]_clientVars => ClientInv'
<1> DEFINE P == ClientStates /\ OnlyHeld /\ Client!ConnectedMeansSocket
<1> SUFFICES ASSUME ClientInv, [Client!Next]_clientVars PROVE P'
    BY ClientFlagsStep DEF ClientInv
<1> USE Instances DEF ClientInv, ClientFlags, ClientStates, OnlyHeld,
    Client!ConnectedMeansSocket, Client!SocketState, Client!Report
<1>1. CASE UNCHANGED clientVars
    BY <1>1 DEF clientVars
<1>2. ASSUME NEW i \in Client!Instance, Client!OnOpen(i) PROVE P'
    BY <1>2 DEF Client!OnOpen
<1>3. ASSUME NEW i \in Client!Instance, Client!OnError(i) PROVE P'
    BY <1>3 DEF Client!OnError
<1>4. ASSUME NEW i \in Client!Instance, Client!OnClose(i) PROVE P'
    BY <1>4 DEF Client!OnClose, Client!MayReconnect
<1>5. ASSUME NEW i \in Client!Instance, Client!Reconnect(i) PROVE P'
    BY <1>5 DEF Client!Reconnect
<1>6. ASSUME NEW i \in Client!Instance, Client!StaleTimeout(i) PROVE P'
    BY <1>6 DEF Client!StaleTimeout
<1>7. ASSUME NEW i \in Client!Instance, Client!OnEvent(i) PROVE P'
    BY <1>7 DEF Client!OnEvent
<1>8. ASSUME NEW i \in Client!Instance, Client!OnInvalid(i) PROVE P'
    BY <1>8 DEF Client!OnInvalid, Client!Closed
<1>9. CASE Client!NewConnection
    BY <1>9 DEF Client!NewConnection, Client!Closed
<1>10. CASE Client!RenewFails \/ Client!OnResponse \/ Client!Backend
    BY <1>10 DEF Client!RenewFails, Client!OnResponse, Client!Backend
<1> QED
    BY <1>1, <1>2, <1>3, <1>4, <1>5, <1>6, <1>7, <1>8, <1>9, <1>10
    DEF Client!Next, Client!Progress, Client!vars, clientVars

(* Once it failed closed the instance never reports a connection.          *)
LEMMA FailClosedStep ==
    ClientInv /\ [Client!Next]_clientVars =>
        (failClosedTerminal[inst] /\ inst' = inst => shown' # "connected")
<1> SUFFICES ASSUME ClientInv, [Client!Next]_clientVars, failClosedTerminal[inst], inst' = inst
             PROVE  shown' # "connected"
    OBVIOUS
<1>1. inst \in Client!Instance
    BY DEF ClientInv, ClientStates
<1>2. socket[inst] \notin {"connecting", "open"} /\ shown # "connected"
    BY <1>1 DEF ClientInv, OnlyHeld
<1>3. ASSUME NEW i \in Client!Instance, Client!OnOpen(i) PROVE FALSE
    BY <1>2, <1>3 DEF Client!OnOpen, ClientInv, OnlyHeld
<1>4. ASSUME NEW i \in Client!Instance, Client!OnError(i) \/ Client!OnClose(i) \/ Client!Reconnect(i)
      PROVE  shown' # "connected"
    BY <1>4 DEF Client!OnError, Client!OnClose, Client!Reconnect, Client!Report
<1>5. ASSUME NEW i \in Client!Instance,
             Client!StaleTimeout(i) \/ Client!OnEvent(i) \/ Client!OnInvalid(i)
      PROVE  shown' # "connected"
    BY <1>2, <1>5 DEF Client!StaleTimeout, Client!OnEvent, Client!OnInvalid, Client!Report
<1>6. CASE \/ Client!NewConnection \/ Client!RenewFails \/ Client!OnResponse \/ Client!Backend
           \/ UNCHANGED clientVars
    BY <1>2, <1>6 DEF Client!NewConnection, Client!RenewFails, Client!OnResponse, Client!Backend,
                      Client!Report, clientVars
<1> QED
    BY <1>3, <1>4, <1>5, <1>6 DEF Client!Next, Client!Progress

(* The invariant of the client holds in the composition.                   *)
LEMMA ClientAlways == PageSpec => []ClientInv
<1>1. PageInit => ClientInv
    BY ClientInitially DEF PageInit
<1>2. ClientInv /\ [PageNext]_pageVars => ClientInv'
    BY StepOfParts, ClientStep
<1> QED
    BY <1>1, <1>2, PTL DEF PageSpec

(* bridgeClient.ts: after a payload that the page cannot trust no late     *)
(* event, timer or reconnect shows a connection again; only the operator,  *)
(* who makes a new instance, does.                                         *)
THEOREM FailsClosed == PageSpec => Client!StaysFailClosed
<1> DEFINE Stays == failClosedTerminal[inst] /\ inst' = inst => shown' # "connected"
<1>1. ClientInv /\ [PageNext]_pageVars => [Stays]_Client!vars
    BY StepOfParts, FailClosedStep
<1> QED
    BY <1>1, ClientAlways, PTL DEF PageSpec, Client!StaysFailClosed

(* ---- the queues of the stream ---- *)

(* The queues keep their types and end with the newest event.              *)
StreamInv ==
    /\ queue \in [Page -> Seq(Stream!Event)]
    /\ Stream!TypeOK /\ Stream!NewestQueued

(* The queue of a page holds something.                                    *)
LEMMA QueueSize == QUEUE_SIZE \in Nat \ {0}
    BY PartsAssumption DEF Stream!StreamAssumption

(* TypeOK speaks of the members of a queue.                                *)
LEMMA QueueMembers ==
    ASSUME NEW q \in Seq(Stream!Event)
    PROVE  Stream!Range(q) \subseteq Stream!Event
    BY DEF Stream!Range

(* A push keeps the size of the queue, and the new event is its last.      *)
LEMMA Pushed ==
    ASSUME NEW q \in Seq(Stream!Event), Len(q) <= QUEUE_SIZE, NEW e \in Stream!Event
    PROVE  /\ Stream!Push(q, e) \in Seq(Stream!Event)
           /\ Len(Stream!Push(q, e)) <= QUEUE_SIZE
           /\ Stream!Push(q, e) # <<>>
           /\ Stream!Last(Stream!Push(q, e)) = e
<1> USE QueueSize DEF Stream!Last
<1>1. CASE Len(q) < QUEUE_SIZE
    BY <1>1 DEF Stream!Push
<1>2. CASE ~(Len(q) < QUEUE_SIZE)
    <2>1. Tail(q) \in Seq(Stream!Event) /\ Len(Tail(q)) = QUEUE_SIZE - 1
        BY <1>2
    <2> QED
        BY <1>2, <2>1 DEF Stream!Push
<1> QED
    BY <1>1, <1>2

(* What is sent is taken from the front.                                   *)
LEMMA Taken ==
    ASSUME NEW q \in Seq(Stream!Event), q # <<>>, Len(q) <= QUEUE_SIZE
    PROVE  /\ Tail(q) \in Seq(Stream!Event) /\ Len(Tail(q)) <= QUEUE_SIZE
           /\ Head(q) \in Stream!Event
           /\ Tail(q) # <<>> => Stream!Last(Tail(q)) = Stream!Last(q)
    BY QueueSize DEF Stream!Last

(* A refresh reads a value of the adapter into its snapshot.               *)
LEMMA SnapRead ==
    ASSUME NEW s \in Stream!Snapshots, NEW v \in Stream!Values
    PROVE  [s EXCEPT ![1] = v] \in Stream!Snapshots /\ [s EXCEPT ![2] = v] \in Stream!Snapshots
    BY DEF Stream!Snapshots

(* The state apart from the queues and what was put in them.               *)
RefreshOK ==
    /\ live \in Stream!Values /\ changes \in 0 .. MaxChanges /\ sent \in 0 .. MaxEvents
    /\ fingerprint \in Stream!Snapshots
    /\ pc \in [Stream!Actors -> {"idle", "connections", "compare", "write"}]
    /\ snap \in [Stream!Actors -> Stream!Snapshots] /\ job \in [Stream!Actors -> Stream!Job]
    /\ subscribers \subseteq Page
    /\ view \in [Page -> Stream!Snapshots \union {Stream!NoView}]

QueuesOK ==
    /\ queue \in [Page -> Seq(Stream!Event)]
    /\ \A p \in Page : Len(queue[p]) <= QUEUE_SIZE
    /\ Stream!NewestQueued

(* The invariant of the stream: the refresh and the queues.                *)
LEMMA StreamParts == StreamInv <=> RefreshOK /\ QueuesOK
<1>1. StreamInv => RefreshOK /\ QueuesOK
    BY DEF StreamInv, RefreshOK, QueuesOK, Stream!TypeOK
<1>2. RefreshOK /\ QueuesOK => StreamInv
    BY QueueMembers DEF StreamInv, RefreshOK, QueuesOK, Stream!TypeOK
<1> QED
    BY <1>1, <1>2

(* No page has anything waiting at first.                                  *)
LEMMA StreamInitially == Stream!Init => StreamInv
<1> SUFFICES ASSUME Stream!Init PROVE RefreshOK /\ QueuesOK
    BY StreamParts
<1>1. <<0, 0>> \in Stream!Snapshots /\ [for |-> "poll"] \in Stream!Job
    BY DEF Stream!Snapshots, Stream!Values, Stream!Job
<1>2. MaxChanges \in Nat /\ MaxEvents \in Nat
    BY PartsAssumption DEF Stream!StreamAssumption
<1>3. RefreshOK
    BY <1>1, <1>2 DEF Stream!Init, RefreshOK, Stream!Values
<1>4. QueuesOK
    BY QueueSize DEF Stream!Init, QueuesOK, Stream!NewestQueued
<1> QED
    BY <1>3, <1>4

(* A broadcast queues its event for everyone who streams.                  *)
LEMMA BroadcastQueues ==
    ASSUME QueuesOK, NEW e \in Stream!Event, Stream!Broadcast(e), UNCHANGED subscribers
    PROVE  QueuesOK'
<1>1. ASSUME NEW p \in Page
      PROVE  queue'[p] \in Seq(Stream!Event) /\ Len(queue'[p]) <= QUEUE_SIZE
    BY Pushed DEF QueuesOK, Stream!Broadcast
<1>2. ASSUME NEW p \in Page, p \in subscribers, queue'[p] # <<>>
      PROVE  Stream!Last(queue'[p]) = newest'[p]
    BY <1>2, Pushed DEF QueuesOK, Stream!Broadcast, Stream!Streaming
<1>3. queue' \in [Page -> Seq(Stream!Event)]
    BY <1>1 DEF Stream!Broadcast
<1> QED
    BY <1>1, <1>2, <1>3 DEF QueuesOK, Stream!NewestQueued, Stream!Streaming

(* A refresh that ends hands its snapshot to the page or to the queues.    *)
LEMMA ReturnKeeps ==
    ASSUME RefreshOK, QueuesOK, NEW a \in Stream!Actors, NEW changed \in BOOLEAN,
           Stream!Return(a, changed), UNCHANGED subscribers
    PROVE  /\ QueuesOK'
           /\ view' \in [Page -> Stream!Snapshots \union {Stream!NoView}]
           /\ pc' \in [Stream!Actors -> {"idle", "connections", "compare", "write"}]
<1>1. snap[a] \in Stream!Snapshots
    BY DEF RefreshOK
<1>2. pc' \in [Stream!Actors -> {"idle", "connections", "compare", "write"}]
    BY DEF RefreshOK, Stream!Return
<1>3. CASE UNCHANGED view /\ Stream!Broadcast([kind |-> "snapshot", value |-> snap[a]])
    <2>1. [kind |-> "snapshot", value |-> snap[a]] \in Stream!Event
        BY <1>1 DEF Stream!Event
    <2> QED
        BY <1>2, <1>3, <2>1, BroadcastQueues DEF RefreshOK
<1>4. CASE view' = [view EXCEPT ![job[a].page] = snap[a]] /\ UNCHANGED <<queue, newest>>
    BY <1>1, <1>2, <1>4 DEF RefreshOK, QueuesOK, Stream!NewestQueued, Stream!Streaming
<1>5. CASE UNCHANGED <<queue, view, newest>>
    BY <1>2, <1>5 DEF RefreshOK, QueuesOK, Stream!NewestQueued, Stream!Streaming
<1> QED
    BY <1>3, <1>4, <1>5 DEF Stream!Return

(* The first read of a refresh.                                            *)
LEMMA BeginKeeps ==
    ASSUME RefreshOK, NEW a \in Stream!Actors, NEW j \in Stream!Job, Stream!Begin(a, j)
    PROVE  /\ pc' \in [Stream!Actors -> {"idle", "connections", "compare", "write"}]
           /\ snap' \in [Stream!Actors -> Stream!Snapshots]
           /\ job' \in [Stream!Actors -> Stream!Job]
<1>1. [snap[a] EXCEPT ![1] = live] \in Stream!Snapshots
    BY SnapRead DEF RefreshOK
<1>2. snap' = [snap EXCEPT ![a] = [snap[a] EXCEPT ![1] = live]]
    BY DEF Stream!Begin, RefreshOK
<1> QED
    BY <1>1, <1>2 DEF RefreshOK, Stream!Begin

(* Every step of the stream keeps its invariant.                           *)
LEMMA StreamStep == StreamInv /\ [Stream!Next]_streamVars => StreamInv'
<1> SUFFICES ASSUME RefreshOK, QueuesOK, [Stream!Next]_streamVars
             PROVE  RefreshOK' /\ QueuesOK'
    <2>1. RefreshOK' /\ QueuesOK' => StreamInv'
        BY QueueMembers DEF StreamInv, RefreshOK, QueuesOK, Stream!TypeOK
    <2> QED
        BY <2>1, StreamParts
<1> MaxChanges \in Nat /\ MaxEvents \in Nat
    BY PartsAssumption DEF Stream!StreamAssumption
<1> DEFINE Same == UNCHANGED <<subscribers, queue, newest>>
<1>1. ASSUME Same PROVE QueuesOK'
    BY <1>1 DEF QueuesOK, Stream!NewestQueued, Stream!Streaming
<1> HIDE DEF Same
<1>2. CASE UNCHANGED streamVars
    BY <1>1, <1>2 DEF streamVars, Same, RefreshOK
<1>3. CASE Stream!RosChanges
    BY <1>1, <1>3 DEF Stream!RosChanges, Same, RefreshOK, Stream!Values
<1>4. ASSUME NEW k \in {"lifecycle", "task"}, Stream!BroadcastEvent(k)
      PROVE  RefreshOK' /\ QueuesOK'
    <2>1. [kind |-> k] \in Stream!Event
        BY DEF Stream!Event
    <2>2. QueuesOK'
        BY <1>4, <2>1, BroadcastQueues DEF Stream!BroadcastEvent
    <2> QED
        BY <1>4, <2>2 DEF Stream!BroadcastEvent, RefreshOK
<1>5. CASE Stream!Poll \/ \E t \in Thread : Stream!RestRead(t)
    <2>1. PICK a \in Stream!Actors, j \in Stream!Job :
             /\ Stream!Begin(a, j)
             /\ Same /\ UNCHANGED <<live, changes, sent, fingerprint, view>>
        BY <1>5 DEF Stream!Poll, Stream!RestRead, Stream!Actors, Stream!Job, Same
    <2> QED
        BY <1>1, <2>1, BeginKeeps DEF RefreshOK, Same
<1>6. ASSUME NEW p \in Page, Stream!Heartbeat(p) PROVE RefreshOK' /\ QueuesOK'
    <2>1. "loop" \in Stream!Actors /\ [for |-> "beat", page |-> p] \in Stream!Job
        BY DEF Stream!Actors, Stream!Job
    <2> QED
        BY <1>1, <1>6, <2>1, BeginKeeps DEF RefreshOK, Same, Stream!Heartbeat
<1>7. ASSUME NEW p \in Page, Stream!Connect(p) PROVE RefreshOK' /\ QueuesOK'
    <2>1. "loop" \in Stream!Actors /\ [for |-> "greet", page |-> p] \in Stream!Job
        BY DEF Stream!Actors, Stream!Job
    <2>2. RefreshOK'
        BY <1>7, <2>1, BeginKeeps DEF RefreshOK, Stream!Connect
    <2>3. QueuesOK'
        BY <1>7, QueueSize
        DEF QueuesOK, Stream!Connect, Stream!NewestQueued, Stream!Streaming
    <2> QED
        BY <2>2, <2>3
<1>8. ASSUME NEW p \in Page, Stream!StreamSends(p) PROVE RefreshOK' /\ QueuesOK'
    <2>1. /\ queue[p] \in Seq(Stream!Event) /\ queue[p] # <<>> /\ Len(queue[p]) <= QUEUE_SIZE
          /\ p \in subscribers
        BY <1>8 DEF Stream!StreamSends, QueuesOK, Stream!Streaming
    <2>2. RefreshOK'
        <3>1. Head(queue[p]) \in Stream!Event
            BY <2>1, Taken
        <3>2. Head(queue[p]).kind = "snapshot" => Head(queue[p]).value \in Stream!Snapshots
            BY <3>1 DEF Stream!Event
        <3>3. view' \in [Page -> Stream!Snapshots \union {Stream!NoView}]
            BY <1>8, <3>2 DEF Stream!StreamSends, RefreshOK
        <3>4. subscribers' \subseteq Page
            BY <1>8 DEF Stream!StreamSends, RefreshOK
        <3> QED
            BY <1>8, <3>3, <3>4 DEF Stream!StreamSends, RefreshOK
    <2>3. CASE queue' = [queue EXCEPT ![p] = Tail(@)] /\ UNCHANGED <<subscribers, newest>>
        <3>1. \A q \in Page : queue'[q] = IF q = p THEN Tail(queue[p]) ELSE queue[q]
            BY <2>3 DEF QueuesOK
        <3>2. \A q \in Page : queue'[q] \in Seq(Stream!Event) /\ Len(queue'[q]) <= QUEUE_SIZE
            BY <2>1, <3>1, Taken DEF QueuesOK
        <3>3. Stream!NewestQueued'
            BY <2>1, <2>3, <3>1, Taken DEF QueuesOK, Stream!NewestQueued, Stream!Streaming
        <3>4. queue' \in [Page -> Seq(Stream!Event)]
            <4>1. Tail(queue[p]) \in Seq(Stream!Event)
                BY <2>1, Taken
            <4> QED
                BY <2>3, <4>1, Zenon DEF QueuesOK
        <3> QED
            BY <2>2, <3>2, <3>3, <3>4 DEF QueuesOK
    <2>4. CASE /\ queue' = [queue EXCEPT ![p] = <<>>]
               /\ subscribers' = subscribers \ {p} /\ UNCHANGED newest
        <3>1. \A q \in Page : queue'[q] = IF q = p THEN <<>> ELSE queue[q]
            BY <2>4 DEF QueuesOK
        <3>2. Stream!NewestQueued'
            BY <2>4, <3>1 DEF QueuesOK, Stream!NewestQueued, Stream!Streaming
        <3>3. queue' \in [Page -> Seq(Stream!Event)]
            <4>1. <<>> \in Seq(Stream!Event)
                OBVIOUS
            <4> QED
                BY <2>4, <4>1, Zenon DEF QueuesOK
        <3>4. \A q \in Page : Len(queue'[q]) <= QUEUE_SIZE
            BY <3>1, QueueSize DEF QueuesOK
        <3> QED
            BY <2>2, <3>2, <3>3, <3>4 DEF QueuesOK
    <2>5. QueuesOK'
        BY <1>8, <2>3, <2>4 DEF Stream!StreamSends
    <2> QED
        BY <2>2, <2>5
<1>9. ASSUME NEW p \in Page, Stream!Disconnect(p) PROVE RefreshOK' /\ QueuesOK'
    <2>1. RefreshOK'
        BY <1>9 DEF Stream!Disconnect, RefreshOK
    <2>2. QueuesOK'
        BY <1>9, QueueSize DEF Stream!Disconnect, QueuesOK, Stream!NewestQueued, Stream!Streaming
    <2> QED
        BY <2>1, <2>2
<1>10. ASSUME NEW a \in Stream!Actors, Stream!ReadConnections(a) PROVE RefreshOK' /\ QueuesOK'
    <2>1. [snap[a] EXCEPT ![2] = live] \in Stream!Snapshots
        BY SnapRead DEF RefreshOK
    <2>2. snap' = [snap EXCEPT ![a] = [snap[a] EXCEPT ![2] = live]]
        BY <1>10 DEF Stream!ReadConnections, RefreshOK
    <2> QED
        BY <1>1, <1>10, <2>1, <2>2 DEF RefreshOK, Stream!ReadConnections, Same
<1>11. ASSUME NEW a \in Stream!Actors, Stream!Compare(a) PROVE RefreshOK' /\ QueuesOK'
    <2>1. CASE Stream!Return(a, FALSE)
        BY <1>11, <2>1, ReturnKeeps DEF Stream!Compare, RefreshOK
    <2>2. CASE pc' = [pc EXCEPT ![a] = "write"] /\ UNCHANGED <<queue, view, newest>>
        BY <1>1, <1>11, <2>2 DEF Stream!Compare, RefreshOK, Same
    <2> QED
        BY <1>11, <2>1, <2>2 DEF Stream!Compare
<1>12. ASSUME NEW a \in Stream!Actors, Stream!WriteFingerprint(a) PROVE RefreshOK' /\ QueuesOK'
    BY <1>12, ReturnKeeps DEF Stream!WriteFingerprint, RefreshOK
<1> QED
    BY <1>2, <1>3, <1>4, <1>5, <1>6, <1>7, <1>8, <1>9, <1>10, <1>11, <1>12
    DEF Stream!Next, Stream!RefreshStep, Stream!vars, streamVars

(* telemetry_bridge_service.py: a queue that overflows loses its oldest    *)
(* event and never the newest, for every number of threads and pages and   *)
(* every queue size. bridgeClient.ts: the page claims a link only with the *)
(* one socket it holds, however often it connects.                         *)
THEOREM LinkStaysTrue == PageSpec => []LinkIsTrue
<1>1. PageInit => StreamInv
    BY StreamInitially DEF PageInit
<1>2. StreamInv /\ [PageNext]_pageVars => StreamInv'
    BY StepOfParts, StreamStep
<1>3. ClientInv /\ StreamInv => LinkIsTrue
    BY ClientTypes DEF ClientInv, StreamInv, LinkIsTrue, OnlyHeld, Client!OneStream
<1> QED
    BY <1>1, <1>2, <1>3, ClientAlways, PTL DEF PageSpec
================================================================================
