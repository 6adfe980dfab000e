-------------------------------- MODULE JogInput --------------------------------
(***************************************************************************)
(* The way of a jog from the operator's page to MoveIt Servo: JogService   *)
(* of the HMI backend, which judges a jog on the last status the bridge    *)
(* published, and jog_input_node.py, whose watchdog halts a continuous jog *)
(* when the page falls silent.                                             *)
(*                                                                         *)
(* Time passes in halves of the watchdog timeout, the period of its timer. *)
(***************************************************************************)
EXTENDS Integers, Sequences

CONSTANTS
  NumJoints,   \* the joints of the arm are 1 .. NumJoints
  Depth,       \* bound: messages a topic keeps (10 in the code)
  JogCommands  \* bound: the JogCommand messages the page sends here

VARIABLES
  hmiStatus,   \* JogService._status, kept as whether it allows a jog
  jogTopic,    \* /web_jog_command
  jogState,    \* JogInputNode._state
  jogJoint,    \* _active_joint_index, or None
  jogDir,      \* _active_direction
  beatAge,     \* half timeouts since _last_heartbeat_sec
  watchdogDue, \* the watchdog timer has expired and its callback has not run
  jointJog     \* the last JointJog that went to Servo

vars == <<hmiStatus, jogTopic, jogState, jogJoint, jogDir, beatAge, watchdogDue, jointJog>>

None == NumJoints + 1
Joints == 1 .. NumJoints

\* watchdog_timeout_ms and the age at which counting stops, in half timeouts.
WATCHDOG == 2
MaxAge == WATCHDOG + 2

\* What JogCommand messages are told apart by; joint 0 is out of range and so
\* is direction 0, and any mode but discrete is taken for continuous.
JogCommand == [joint : 0 .. NumJoints, dir : {-1, 0, 1}, discrete : BOOLEAN]

\* Of the constants; the module that checks this one assumes it.
JogAssumption ==
  /\ NumJoints \in Nat \ {0} /\ Depth \in Nat \ {0}
  /\ JogCommands \subseteq JogCommand

\* A JointJog stops after its duration, never (a continuous one), or is a halt.
JointJog == [joint : Joints, vel : {-1, 0, 1}, timed : BOOLEAN]
NoJog == [joint |-> 1, vel |-> 0, timed |-> TRUE]

\* The types of the variables, with the depth of the topic.
TypeOK ==
  /\ hmiStatus \in BOOLEAN
  /\ jogTopic \in Seq(JogCommand) /\ Len(jogTopic) <= Depth
  /\ jogState \in {"IDLE", "ACTIVE"}
  /\ jogJoint \in Joints \union {None} /\ jogDir \in {-1, 0, 1}
  /\ beatAge \in 0 .. MaxAge /\ watchdogDue \in BOOLEAN
  /\ jointJog \in JointJog

Init ==
  /\ hmiStatus = FALSE /\ jogTopic = <<>>
  /\ jogState = "IDLE" /\ jogJoint = None /\ jogDir = 0
  /\ beatAge = 0 /\ watchdogDue = FALSE
  /\ jointJog = NoJog

\* A topic keeps the last Depth messages.
Publish(topic, m) == IF Len(topic) < Depth THEN Append(topic, m) ELSE Append(Tail(topic), m)

--------------------------------------------------------------------------------
(* JogService of the HMI backend.                                           *)

\* _on_servo_bridge_status: whether the bridge is active in READY or ACTIVE with
\* the robot ready and the servo active, as it was when the message was sent.
OnServoBridgeStatus(allows) ==
  /\ hmiStatus' = allows
  /\ UNCHANGED <<jogTopic, jogState, jogJoint, jogDir, beatAge, watchdogDue, jointJog>>

\* send_jog_command: judged on the cached status, not on the bridge.
send_jog_command(m) ==
  /\ hmiStatus
  /\ jogTopic' = Publish(jogTopic, m)
  /\ UNCHANGED <<hmiStatus, jogState, jogJoint,
                 jogDir, beatAge, watchdogDue, jointJog>>

--------------------------------------------------------------------------------
(* jog_input_node.py.                                                       *)

Rejected(m) == m.joint \notin Joints \/ m.dir \notin {-1, 1}

\* _publish_discrete: one timed step, and the state is idle at once.
PublishDiscrete(m) ==
  /\ jointJog' = [joint |-> m.joint, vel |-> m.dir, timed |-> TRUE]
  /\ jogState' = "IDLE" /\ jogJoint' = None /\ jogDir' = 0

\* _publish_continuous: a velocity with no end.
PublishContinuous(m) ==
  /\ jointJog' = [joint |-> m.joint, vel |-> m.dir, timed |-> FALSE]
  /\ jogState' = "ACTIVE" /\ jogJoint' = m.joint /\ jogDir' = m.dir

\* _on_jog_command: the heartbeat is noted before the command is judged.
OnJogCommand ==
  /\ jogTopic # <<>>
  /\ jogTopic' = Tail(jogTopic)
  /\ beatAge' = 0
  /\ LET m == Head(jogTopic) IN
       \/ Rejected(m) /\ UNCHANGED <<jogState, jogJoint, jogDir, jointJog>>
       \/ ~Rejected(m) /\ m.discrete /\ PublishDiscrete(m)
       \/ ~Rejected(m) /\ ~m.discrete /\ PublishContinuous(m)
  /\ UNCHANGED <<hmiStatus, watchdogDue>>

\* A watchdog that clears the joint before it publishes the halt.
OnWatchdog_ClearFirst ==
  /\ watchdogDue /\ watchdogDue' = FALSE
  /\ \/ /\ beatAge > WATCHDOG /\ jogState # "IDLE"
        /\ jogState' = "IDLE" /\ jogJoint' = None /\ jogDir' = 0
        /\ UNCHANGED jointJog
     \/ ~(beatAge > WATCHDOG /\ jogState # "IDLE") /\ UNCHANGED <<jogState, jogJoint, jogDir, jointJog>>
  /\ UNCHANGED <<hmiStatus, jogTopic, beatAge>>

\* _on_watchdog with _halt_locked.
OnWatchdog ==
  /\ watchdogDue
  /\ watchdogDue' = FALSE
  /\ \/ /\ beatAge > WATCHDOG /\ jogState # "IDLE"
        /\ jointJog' = [joint |-> jogJoint, vel |-> 0, timed |-> FALSE]
        /\ jogState' = "IDLE" /\ jogJoint' = None /\ jogDir' = 0
     \/ /\ ~(beatAge > WATCHDOG /\ jogState # "IDLE")
        /\ UNCHANGED <<jogState, jogJoint, jogDir, jointJog>>
  /\ UNCHANGED <<hmiStatus, jogTopic, beatAge>>

\* Half a timeout passes; the timer callback keeps up with its timer.
Tick ==
  /\ ~watchdogDue
  /\ watchdogDue' = TRUE
  /\ beatAge' = IF beatAge < MaxAge THEN beatAge + 1 ELSE beatAge
  /\ UNCHANGED <<hmiStatus, jogTopic, jogState,
                 jogJoint, jogDir, jointJog>>

--------------------------------------------------------------------------------
Next ==
  \/ \E allows \in BOOLEAN : OnServoBridgeStatus(allows)
  \/ \E m \in JogCommands : send_jog_command(m)
  \/ OnJogCommand \/ OnWatchdog \/ Tick

Spec == Init /\ [][Next]_vars

--------------------------------------------------------------------------------
\* The standing command of Servo moves a joint without end only while the
\* watchdog of jog_input_node is armed for that joint and that direction.
EndlessJogGuarded ==
  jointJog.vel # 0 /\ ~jointJog.timed =>
    jogState = "ACTIVE" /\ jogJoint = jointJog.joint /\ jogDir = jointJog.vel

\* A continuous jog outlives the last message of the page by no more than the
\* watchdog timeout and one period of its timer.
WatchdogBoundsJog == jogState = "ACTIVE" => beatAge <= WATCHDOG + 1

\* A page that falls silent cannot leave a joint moving.
JogIsBounded == TypeOK /\ EndlessJogGuarded /\ WatchdogBoundsJog
================================================================================
