------------------------------ MODULE OperatorPage ------------------------------
(* The operator's page, its stream and its jogging: five parts that share  *)
(* no variable, each explored on its own.                                  *)
EXTENDS ServoBridge, Integers, FiniteSets

CONSTANTS Thread, Page, MaxChanges, MaxEvents, QUEUE_SIZE, NumJoints, Depth,
          JogCommands, SourceGroups, MaxInstances

VARIABLES
    part,
    hmiStatus, jogTopic, jogState, jogJoint, jogDir, beatAge, watchdogDue, jointJog,
    senders, startError, age, robot, ready, sim, alert, jointSource, interface,
    live, changes, sent, fingerprint, pc, snap, job, subscribers, queue, view,
    newest, endedBy,
    inst, socket, reconnectTimer, staleSocketTimer, closedByClient,
    failClosedTerminal, shown, systemState, up

Jog == INSTANCE JogInput
Telemetry == INSTANCE TelemetryState
Stream == INSTANCE TelemetryBridge
Client == INSTANCE BridgeClient

jogVars == <<hmiStatus, jogTopic, jogState, jogJoint, jogDir, beatAge, watchdogDue,
             jointJog>>
telemetryVars == <<senders, startError, age, robot, ready, sim, alert, jointSource,
                   interface>>
streamVars == <<live, changes, sent, fingerprint, pc, snap, job, subscribers, queue,
                view, newest, endedBy>>
clientVars == <<inst, socket, reconnectTimer, staleSocketTimer, closedByClient,
                failClosedTerminal, shown, systemState, up>>

ASSUME PartsAssumption ==
    /\ Jog!JogAssumption /\ Telemetry!SourcesAssumption
    /\ Stream!StreamAssumption /\ Client!ClientAssumption

Parts == {"bridge", "jog", "telemetry", "stream", "client"}

PageInit ==
    /\ part \in Parts
    /\ Init /\ Jog!Init /\ Client!Init /\ Stream!Init /\ Telemetry!Init
    /\ part # "telemetry" => ~startError /\ "robot" \in senders
    /\ part # "client" => up

(* One part moves; the others keep their initial state.                    *)
Moves(p, A) ==
    /\ part = p /\ A /\ UNCHANGED part
    /\ IF p = "bridge" THEN TRUE ELSE UNCHANGED vars
    /\ IF p = "jog" THEN TRUE ELSE UNCHANGED jogVars
    /\ IF p = "telemetry" THEN TRUE ELSE UNCHANGED telemetryVars
    /\ IF p = "stream" THEN TRUE ELSE UNCHANGED streamVars
    /\ IF p = "client" THEN TRUE ELSE UNCHANGED clientVars

PageNext ==
    \/ Moves("bridge", Next)
    \/ Moves("jog", Jog!Next)
    \/ Moves("telemetry", Telemetry!Next)
    \/ Moves("stream", Stream!Next)
    \/ Moves("client", Client!Next)

pageVars == <<part, vars, jogVars, telemetryVars, streamVars, clientVars>>

(* The fairness of ServoBridge, TelemetryBridge and BridgeClient.          *)
PageFairness ==
    /\ WF_pageVars(Moves("bridge", OnStartServoReply))
    /\ WF_pageVars(Moves("bridge", OnServoPoll))
    /\ WF_pageVars(Moves("bridge", OnPointQueueModeReply))
    /\ SF_pageVars(Moves("stream", Stream!Poll))
    /\ \A a \in Stream!Actors : WF_pageVars(Moves("stream", Stream!RefreshStep(a)))
    /\ \A p \in Page : SF_pageVars(Moves("stream", Stream!StreamSends(p)))
    /\ \A i \in Client!Instance : WF_pageVars(Moves("client", Client!Progress(i)))

PageSpec == PageInit /\ [][PageNext]_pageVars /\ PageFairness

JogIsBounded == Jog!JogIsBounded
TelemetryIsHonest == Telemetry!TelemetryIsHonest

(* What reaches the page: the newest event of its queue, by the one socket *)
(* that it holds.                                                          *)
LinkIsTrue ==
    /\ Stream!TypeOK /\ Stream!NewestQueued
    /\ Client!TypeOK /\ Client!ConnectedMeansSocket /\ Client!OneStream

FingerprintSettles == Stream!FingerprintSettles

(* The link comes back by itself, unless it has failed closed.             *)
LinkRecovers == (part = "client" => Client!LinkRecovers) /\ Client!StaysFailClosed

(* See TelemetryBridge.                                                    *)
TaskEventsReachPages == Stream!TaskEventsReachPages
LatestReachesPages == Stream!LatestReachesPages
================================================================================
