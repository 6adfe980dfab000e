------------------------------ MODULE HwMonitors ------------------------------
(***************************************************************************)
(* What hw_adapter knows of the robot: its joint states, its status and    *)
(* the output of its tool, read by callbacks that share the one thread of  *)
(* rclcpp::spin with the services io_set and alarm_reset, which hold that  *)
(* thread while they wait.  A dispatch worker reads the snapshots from a   *)
(* thread of its own.                                                      *)
(*                                                                         *)
(* Ages are counted by Tick and stop one above the limit they are compared *)
(* with.                                                                   *)
(***************************************************************************)
EXTENDS Integers

CONSTANTS
    Simulated,      \* sim_mode_: the robot status is bypassed
    MaxAge,         \* max_age_ of a joint state and of a robot status (200 ms)
    ReadTimeout,    \* request_timeout_ of a tool read
    ReachWait,      \* of wait_for_service in io_set (3 s)
    CallWait        \* of the call of io_set (5 s), and of reset_error

ASSUME MonitorsAssumption ==
    /\ Simulated \in BOOLEAN /\ MaxAge \in Nat
    /\ {ReadTimeout, ReachWait, CallWait} \subseteq Nat \ {0}

VARIABLES
    joint,      \* snapshot_ of the joint state monitor: [valid, age]
    status,     \* snapshot_ of the robot status monitor: [ready, age]
    topic,      \* ready, of the last message kept on /hw_adapter/ready
    output,     \* the output of the tool
    read,       \* the read request in flight, and its answer
    waited,     \* since it was sent
    shown,      \* current_tool_state_
    handler,    \* the service that holds the executor
    held,       \* for how long
    write,      \* a WriteSingleIO request at the controller
    quiet,      \* history: since the last complete joint state
    settled     \* history: reads sent since the output changed

monitors == <<joint, status, topic, output, read, waited, shown, handler,
              held, write, quiet, settled>>

Upto(n) == 0 .. n + 1
Older(age, limit) == IF age > limit THEN age ELSE age + 1

MonitorsTypeOK ==
    /\ topic \in BOOLEAN /\ output \in BOOLEAN
    /\ joint \in [valid : BOOLEAN, age : Upto(MaxAge)]
    /\ status \in [ready : BOOLEAN, age : Upto(MaxAge)]
    /\ quiet \in Upto(MaxAge)
    /\ read \in {"none", "asked", "on", "off", "failed"}
    /\ waited \in Upto(ReadTimeout)
    /\ shown \in {"unknown", "on", "off"}
    /\ handler \in {"free", "reach", "write", "reset"}
    /\ held \in 0 .. ReachWait + CallWait
    /\ write \in {"none", "on", "off", "answered"}
    /\ settled \in 0 .. 2

(* Before the first message a snapshot is as good as a stale one.          *)
(* Simulated, the node itself says ready.                                  *)
MonitorsInit ==
    /\ topic = Simulated
    /\ joint = [valid |-> FALSE, age |-> MaxAge + 1]
    /\ status = [ready |-> FALSE, age |-> MaxAge + 1]
    /\ quiet = MaxAge + 1
    /\ output \in BOOLEAN /\ settled = 0
    /\ read = "none" /\ waited = 0 /\ shown = "unknown"
    /\ handler = "free" /\ held = 0 /\ write = "none"

-----------------------------------------------------------------------------
(* The snapshots, as latest_snapshot and the dispatch worker see them.     *)

JointStateValid == joint.valid /\ joint.age <= MaxAge

IsReady(s) == s.ready /\ s.age <= MaxAge

(* build_execution_runtime_snapshot, without the session.                  *)
RuntimeSnapshot ==
    [joint_state_valid |-> JointStateValid, robot_ready |-> Simulated \/ IsReady(status)]

GoAhead == RuntimeSnapshot.joint_state_valid /\ RuntimeSnapshot.robot_ready

-----------------------------------------------------------------------------
(* The callbacks.  None runs while a service holds the executor.           *)

Free == handler = "free"

(* complete: a finite position for every expected joint.                   *)
JointStateCallback(complete) ==
    /\ Free
    /\ joint' = [valid |-> complete, age |-> 0]
    /\ quiet' = IF complete THEN 0 ELSE quiet
    /\ UNCHANGED <<status, topic, output, read, waited, shown, handler, held, write, settled>>

Nominal == [mode |-> "auto", e_stopped |-> 0, drives_powered |-> 1,
            motion_possible |-> 1, in_motion |-> 0, in_error |-> 0]

(* RobotStatus messages: one field at a time away from a robot that is     *)
(* ready.  A tri-state below zero is unknown.                              *)
StatusMessages ==
    {[Nominal EXCEPT !.mode = v] : v \in {"auto", "manual", "unknown"}} \cup
    UNION {{[Nominal EXCEPT ![f] = v] : v \in -1 .. 1} :
              f \in DOMAIN Nominal \ {"mode"}}

ReadyOf(msg) ==
    /\ \A f \in DOMAIN msg \ {"mode"} : msg[f] >= 0
    /\ msg.mode = "auto"
    /\ msg.drives_powered > 0 /\ msg.motion_possible > 0
    /\ ~(msg.e_stopped > 0) /\ ~(msg.in_error > 0)

(* publish_readiness follows at once, and only here: silence says nothing. *)
StatusCallback(msg) ==
    /\ Free /\ ~Simulated
    /\ status' = [ready |-> ReadyOf(msg), age |-> 0]
    /\ topic' = IsReady(status')
    /\ UNCHANGED <<joint, output, read, waited, shown, handler, held, write, quiet, settled>>

(* Mutant: a request in flight is waited for, however long.                *)
MayPoll_Patient == read = "none"

MayPoll == read = "none" \/ waited >= ReadTimeout

(* polling_timer_callback: a request that has expired is forgotten, with   *)
(* the state that was shown; then the next one is sent.                    *)
PollTool(reachable) ==
    /\ Free /\ MayPoll
    /\ shown' = IF read = "none" /\ reachable THEN shown ELSE "unknown"
    /\ read' = IF reachable THEN "asked" ELSE "none"
    /\ waited' = 0
    /\ settled' = IF reachable /\ settled < 2 THEN settled + 1 ELSE settled
    /\ UNCHANGED <<joint, status, topic, output, handler, held, write, quiet>>

(* Mutant: a failed read leaves what was shown.                            *)
HandleReadResponse_KeepOnFailure ==
    /\ Free /\ read \in {"on", "off", "failed"}
    /\ shown' = IF read = "failed" THEN shown ELSE read
    /\ read' = "none"
    /\ UNCHANGED <<joint, status, topic, output, waited, handler, held, write, quiet, settled>>

HandleReadResponse ==
    /\ Free /\ read \in {"on", "off", "failed"}
    /\ shown' = IF read = "failed" THEN "unknown" ELSE read
    /\ read' = "none"
    /\ UNCHANGED <<joint, status, topic, output, waited, handler, held, write, quiet, settled>>

-----------------------------------------------------------------------------
(* The services.                                                           *)

Hold(h) == handler' = h /\ held' = 0

ServeAlarmReset ==
    /\ Free /\ Hold("reset")
    /\ UNCHANGED <<joint, status, topic, output, read, waited, shown, write, quiet, settled>>

HandleIoSet ==
    /\ Free /\ Hold("reach")
    /\ UNCHANGED <<joint, status, topic, output, read, waited, shown, write, quiet, settled>>

(* The service is there: the request is sent from a node of its own.  The  *)
(* controller has one write at a time.                                     *)
SendWrite(value) ==
    /\ handler = "reach" /\ write \notin {"on", "off"}
    /\ Hold("write") /\ write' = value
    /\ UNCHANGED <<joint, status, topic, output, read, waited, shown, quiet, settled>>

Limit == [reach |-> ReachWait, write |-> CallWait, reset |-> CallWait]

WaitIsOver == ~Free /\ held = Limit[handler]

(* The answer is there, or the wait is over.  A request given up stays     *)
(* with the controller.                                                    *)
EndService ==
    /\ \/ handler = "reset"
       \/ handler = "write" /\ write = "answered"
       \/ handler \in {"reach", "write"} /\ WaitIsOver
    /\ Hold("free")
    /\ write' = IF write \in {"on", "off"} THEN write ELSE "none"
    /\ UNCHANGED <<joint, status, topic, output, read, waited, shown, quiet, settled>>

(* External: the controller writes the output, or fails to; it reads the   *)
(* output, or fails to; a job of the pendant switches it.                  *)
Switch(value) ==
    /\ output' = value
    /\ settled' = IF value = output THEN settled ELSE 0

ServeWrite ==
    /\ write \in {"on", "off"}
    /\ write' = "answered"
    /\ Switch(write = "on") \/ UNCHANGED <<output, settled>>
    /\ UNCHANGED <<joint, status, topic, read, waited, shown, handler, held, quiet>>

ServeRead ==
    /\ read = "asked"
    /\ read' \in {IF output THEN "on" ELSE "off", "failed"}
    /\ UNCHANGED <<joint, status, topic, output, waited, shown, handler, held, write, quiet, settled>>

SwitchByJob ==
    /\ Switch(~output)
    /\ UNCHANGED <<joint, status, topic, read, waited, shown, handler, held, write, quiet>>

(* Time does not pass beyond the limit of a wait.                          *)
Tick ==
    /\ ~WaitIsOver
    /\ held' = IF Free THEN 0 ELSE held + 1
    /\ joint' = [joint EXCEPT !.age = Older(@, MaxAge)]
    /\ status' = [status EXCEPT !.age = Older(@, MaxAge)]
    /\ quiet' = Older(quiet, MaxAge)
    /\ waited' = IF read = "none" THEN waited ELSE Older(waited, ReadTimeout)
    /\ UNCHANGED <<topic, output, read, shown, handler, write, settled>>

MonitorsNext ==
    \/ \E complete \in BOOLEAN : JointStateCallback(complete)
    \/ \E msg \in StatusMessages : StatusCallback(msg)
    \/ \E reachable \in BOOLEAN : PollTool(reachable)
    \/ HandleReadResponse \/ ServeAlarmReset \/ HandleIoSet
    \/ \E value \in {"on", "off"} : SendWrite(value)
    \/ EndService
    \/ ServeWrite \/ ServeRead \/ SwitchByJob
    \/ Tick

MonitorsSpec ==
    /\ MonitorsInit /\ [][MonitorsNext]_monitors
    /\ WF_monitors(Tick) /\ WF_monitors(EndService)
    /\ SF_monitors(\E reachable \in BOOLEAN : PollTool(reachable))

-----------------------------------------------------------------------------
(* A dispatch is let through only while complete joint states keep coming: *)
(* a message with a joint missing does not refresh the one before it.      *)
GoAheadIsRecent == GoAhead => quiet <= MaxAge

(* What /hw_adapter/ready says and what a dispatch would find differ by    *)
(* the silence of the robot alone: the topic is behind no message.         *)
TopicFollowsStatus ==
    ~Simulated => RuntimeSnapshot.robot_ready = (topic /\ status.age <= MaxAge)

(* The tool state that is shown is that of the tool once two reads have    *)
(* been sent since the output changed: no answer that came late, failed or *)
(* never came leaves an older one behind.                                  *)
SettledToolShown ==
    settled = 2 /\ shown # "unknown" => shown = IF output THEN "on" ELSE "off"

(* When the tool answers no more, its state ends up unknown, and stays so. *)
SilenceShows ==
    <>[](read \notin {"on", "off"}) => <>[](shown = "unknown")

(* hw_adapter acts on, publishes and shows what the robot last said.       *)
KnowledgeIsCurrent ==
    MonitorsTypeOK /\ GoAheadIsRecent /\ TopicFollowsStatus /\ SettledToolShown
=============================================================================
