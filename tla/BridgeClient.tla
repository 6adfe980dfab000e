---------------------------- MODULE BridgeClient ----------------------------
(* The stream of an operator page: bridgeClient.ts keeps one WebSocket per *)
(* call of connect and opens it again after a loss; useGP4Bridge.ts calls  *)
(* connect, and again when the operator asks for it, and shows the state   *)
(* that the callbacks report. A call of connect is an instance: the events *)
(* of an abandoned one still arrive.                                       *)
EXTENDS Naturals

CONSTANT MaxInstances   \* how often the page calls connect

(* Of the constants; the module that checks this one assumes it.          *)
ClientAssumption == MaxInstances \in Nat \ {0}

Instance == 1..MaxInstances
SocketState == {"none", "connecting", "open", "closing"}

VARIABLES
    inst,        \* the instance whose disconnect function the effect holds
    socket,      \* per instance: the WebSocket of its variable `socket`
    reconnectTimer, staleSocketTimer, closedByClient, failClosedTerminal,
    shown,       \* transportState of the page
    systemState, \* runtime shown: LOST_CONN, blocked or clear
    up           \* the backend accepts and serves connections

vars == <<inst, socket, reconnectTimer, staleSocketTimer, closedByClient,
          failClosedTerminal, shown, systemState, up>>

TypeOK ==
    /\ inst \in Instance
    /\ socket \in [Instance -> SocketState]
    /\ {reconnectTimer, staleSocketTimer, closedByClient, failClosedTerminal}
           \subseteq [Instance -> BOOLEAN]
    /\ shown \in {"connected", "connecting", "disconnected"}
    /\ systemState \in {"LOST_CONN", "blocked", "clear"}
    /\ up \in BOOLEAN

-----------------------------------------------------------------------------
(* onTransportStateChange, with the connection_state event it applies.     *)
Report(state) ==
    /\ shown' = state
    /\ systemState' = IF state = "connected" THEN systemState ELSE "LOST_CONN"

Init ==
    /\ inst = 1 /\ up \in BOOLEAN
    /\ socket = [i \in Instance |-> IF i = 1 THEN "connecting" ELSE "none"]
    /\ reconnectTimer = [i \in Instance |-> FALSE]
    /\ staleSocketTimer = [i \in Instance |-> FALSE]
    /\ closedByClient = [i \in Instance |-> FALSE]
    /\ failClosedTerminal = [i \in Instance |-> FALSE]
    /\ shown = "connecting" /\ systemState = "LOST_CONN"

(* socket.close(), in the two states in which the callers use it.          *)
Closed(s) == IF s \in {"open", "connecting"} THEN "closing" ELSE s

(* Mutant: only a link that was up when its loss was noticed comes back.   *)
MayReconnect_OnceUp(i) ==
    ~closedByClient[i] /\ ~failClosedTerminal[i] /\ ~reconnectTimer[i] /\ shown = "connected"

MayReconnect(i) ==
    ~closedByClient[i] /\ ~failClosedTerminal[i] /\ ~reconnectTimer[i]

OnOpen(i) ==
    /\ socket[i] = "connecting" /\ up
    /\ socket' = [socket EXCEPT ![i] = "open"]
    /\ staleSocketTimer' = [staleSocketTimer EXCEPT ![i] = TRUE]
    /\ Report("connected")
    /\ UNCHANGED <<inst, reconnectTimer, closedByClient, failClosedTerminal, up>>

(* The error event of a connection that fails or breaks; its close event   *)
(* follows.                                                                *)
OnError(i) ==
    /\ socket[i] \in {"connecting", "open"} /\ ~up
    /\ socket' = [socket EXCEPT ![i] = "closing"]
    /\ staleSocketTimer' = [staleSocketTimer EXCEPT ![i] = FALSE]
    /\ Report("disconnected")
    /\ UNCHANGED <<inst, reconnectTimer, closedByClient, failClosedTerminal, up>>

(* The close event, and scheduleReconnect.                                 *)
OnClose(i) ==
    /\ socket[i] = "closing" \/ (socket[i] = "open" /\ ~up)
    /\ socket' = [socket EXCEPT ![i] = "none"]
    /\ staleSocketTimer' = [staleSocketTimer EXCEPT ![i] = FALSE]
    /\ Report(IF MayReconnect(i) THEN "connecting" ELSE "disconnected")
    /\ reconnectTimer' = [reconnectTimer EXCEPT ![i] = @ \/ MayReconnect(i)]
    /\ UNCHANGED <<inst, closedByClient, failClosedTerminal, up>>

(* connectSocket, when the timer of scheduleReconnect fires.               *)
Reconnect(i) ==
    /\ reconnectTimer[i]
    /\ reconnectTimer' = [reconnectTimer EXCEPT ![i] = FALSE]
    /\ staleSocketTimer' = [staleSocketTimer EXCEPT ![i] = FALSE]
    /\ socket' = [socket EXCEPT ![i] = "connecting"]
    /\ Report("connecting")
    /\ UNCHANGED <<inst, closedByClient, failClosedTerminal, up>>

(* No message for SOCKET_STALE_TIMEOUT_MS.                                 *)
StaleTimeout(i) ==
    /\ staleSocketTimer[i]
    /\ staleSocketTimer' = [staleSocketTimer EXCEPT ![i] = FALSE]
    /\ socket' = [socket EXCEPT ![i] = IF @ = "open" THEN "closing" ELSE @]
    /\ UNCHANGED <<inst, reconnectTimer, closedByClient, failClosedTerminal, shown, systemState, up>>

(* A valid message: a snapshot carries the state of the runtime.           *)
OnEvent(i) ==
    /\ socket[i] = "open" /\ up
    /\ staleSocketTimer' = [staleSocketTimer EXCEPT ![i] = TRUE]
    /\ systemState' \in {systemState, "blocked", "clear"}
    /\ UNCHANGED <<inst, socket, reconnectTimer, closedByClient, failClosedTerminal, shown, up>>

(* A message of another schema, or none of the protocol.                   *)
OnInvalid(i) ==
    /\ socket[i] = "open" /\ up
    /\ failClosedTerminal' = [failClosedTerminal EXCEPT ![i] = TRUE]
    /\ staleSocketTimer' = [staleSocketTimer EXCEPT ![i] = FALSE]
    /\ socket' = [socket EXCEPT ![i] = Closed(@)]
    /\ Report("disconnected")
    /\ UNCHANGED <<inst, reconnectTimer, closedByClient, up>>

(* Mutant: the old socket is left as it is.                                *)
NewConnection_LeaveOld ==
    /\ inst < MaxInstances
    /\ inst' = inst + 1
    /\ closedByClient' = [closedByClient EXCEPT ![inst] = TRUE]
    /\ socket' = [socket EXCEPT ![inst + 1] = "connecting"]
    /\ Report("connecting")
    /\ UNCHANGED <<reconnectTimer, staleSocketTimer, failClosedTerminal, up>>

(* The operator asks for a new link: the effect ends the instance it holds *)
(* and calls connect again.                                                *)
NewConnection ==
    /\ inst < MaxInstances
    /\ inst' = inst + 1
    /\ closedByClient' = [closedByClient EXCEPT ![inst] = TRUE]
    /\ reconnectTimer' = [reconnectTimer EXCEPT ![inst] = FALSE]
    /\ staleSocketTimer' = [staleSocketTimer EXCEPT ![inst] = FALSE]
    /\ socket' = [socket EXCEPT ![inst] = Closed(@), ![inst + 1] = "connecting"]
    /\ Report("connecting")
    /\ UNCHANGED <<failClosedTerminal, up>>

(* A lease renewal that fails changes what is shown, and nothing else.     *)
RenewFails ==
    /\ systemState # "LOST_CONN"
    /\ shown' = "disconnected"
    /\ UNCHANGED <<inst, socket, reconnectTimer, staleSocketTimer, closedByClient,
                   failClosedTerminal, systemState, up>>

(* The answer to a request carries a snapshot that replaces the state.     *)
OnResponse ==
    /\ up /\ systemState' \in {"blocked", "clear"}
    /\ UNCHANGED <<inst, socket, reconnectTimer, staleSocketTimer, closedByClient,
                   failClosedTerminal, shown, up>>

Backend ==
    /\ up' = ~up
    /\ UNCHANGED <<inst, socket, reconnectTimer, staleSocketTimer, closedByClient,
                   failClosedTerminal, shown, systemState>>

Progress(i) == OnOpen(i) \/ OnError(i) \/ OnClose(i) \/ Reconnect(i)

Next ==
    \/ \E i \in Instance : Progress(i) \/ StaleTimeout(i) \/ OnEvent(i) \/ OnInvalid(i)
    \/ NewConnection \/ RenewFails \/ OnResponse \/ Backend

Spec == Init /\ [][Next]_vars /\ \A i \in Instance : WF_vars(Progress(i))

-----------------------------------------------------------------------------
(* The page claims a link only while the instance it holds has a socket    *)
(* that was opened: no late event of an abandoned socket brings it back.   *)
ConnectedMeansSocket == shown = "connected" => socket[inst] \in {"open", "closing"}

(* One stream at a time feeds the page: what connect has been told to give *)
(* up is never open again, whichever timer was running.                    *)
OneStream == \A i \in Instance : socket[i] = "open" => i = inst

(* After a payload that the page cannot trust the instance stays down:     *)
(* only the operator can bring the link back.                              *)
StaysFailClosed == [][failClosedTerminal[inst] /\ inst' = inst => shown' # "connected"]_vars

(* A page whose backend stays up gets its stream, however often the link   *)
(* broke before, unless it has failed closed.                              *)
LinkRecovers ==
    <>[]up => []<>(\E i \in Instance : i = inst /\ (socket[i] = "open" \/ failClosedTerminal[i]))
=============================================================================
