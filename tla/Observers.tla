-------------------------------- MODULE Observers --------------------------------
(* The parts that only listen, each explored on its own: the execution     *)
(* monitor of the ROS supervisor, its audit logger, and the audit database *)
(* of the HMI.                                                             *)
EXTENDS Integers, Sequences, FiniteSets

CONSTANTS
    Goal, Allowed, DefaultAllowed, MaxTime, MaxBus,
    MaxMessage, MaxQueueDepth,
    Thread, MaxVersion, MaxSnapshots, Retention, MaxStoreTime, MaxTaken

VARIABLES
    part,   \* the observer that this behaviour is about
    now,    \* the clock of the monitor, or of the database
    server, accepted, bus, state, pending, active, failures, alert, successes, defeats, early,
    queue, received, lines, bag, written, dropped, worker, event, stopRequested, owner,
    record, row, events, snapshots, taken, pc, to, bound, failed

Monitor == INSTANCE ExecutionMonitor
Log == INSTANCE AuditLogger
Store == INSTANCE AuditStore WITH MaxTime <- MaxStoreTime

ASSUME ObserversAssumption ==
    /\ Monitor!MonitorAssumption /\ Log!LoggerAssumption /\ Store!StoreAssumption
    /\ MaxStoreTime <= MaxTime

monitor == <<server, accepted, bus, state, pending, active, failures, alert,
             successes, defeats, early>>
log == <<queue, received, lines, bag, written, dropped, worker, event, stopRequested, owner>>
store == <<record, row, events, snapshots, taken, pc, to, bound, failed>>

Init ==
    /\ part \in {"monitor", "log", "store"}
    /\ Monitor!Init /\ Log!Init /\ Store!Init

Next ==
    /\ UNCHANGED part
    /\ \/ part = "monitor" /\ Monitor!Next /\ UNCHANGED <<log, store>>
       \/ part = "log" /\ Log!Next /\ UNCHANGED <<now, monitor, store>>
       \/ part = "store" /\ Store!Next /\ UNCHANGED <<monitor, log>>

vars == <<part, now, monitor, log, store>>

\* The worker thread of the logger runs as long as the process does.
Spec ==
    /\ Init /\ [][Next]_vars
    /\ WF_vars(part = "log" /\ Log!WorkerStep /\ UNCHANGED <<part, now, monitor, store>>)

MonitorIsTruthful == part = "monitor" => Monitor!MonitorIsTruthful
LogIsFaithful == part = "log" => Log!LogIsFaithful
StoreIsFaithful == part = "store" => Store!StoreIsFaithful
QueueMoves == Log!QueueMoves
================================================================================
