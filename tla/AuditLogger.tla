------------------------------ MODULE AuditLogger ------------------------------
(***************************************************************************)
(* The audit logger of the ROS supervisor (audit_logger.cpp): callbacks    *)
(* queue what they overhear, a worker thread writes it, the destructor     *)
(* asks the worker to stop and joins it.                                   *)
(***************************************************************************)
EXTENDS Integers, Sequences, FiniteSets

CONSTANTS
    MaxMessage,     \* bound of the messages overheard
    MaxQueueDepth   \* max_queue_depth_

\* Of the constants; the module that checks this one assumes it.
LoggerAssumption == MaxMessage \in Nat /\ MaxQueueDepth \in Nat \ {0}

VARIABLES
    queue,          \* event_queue_, messages numbered as they were received
    received,       \* received_message_count_
    lines,          \* what is in the JSONL file
    bag,            \* what is in the bag
    written,        \* written_message_count_
    dropped,        \* messages that the full queue pushed out
    worker,         \* where the worker thread is
    event,          \* the message that it took
    stopRequested,  \* stop_requested_
    owner           \* the thread that destroys the logger

vars == <<queue, received, lines, bag, written, dropped, worker, event,
          stopRequested, owner>>

Message == 1..MaxMessage
NoEvent == 0

TypeOK ==
    /\ queue \in Seq(Message) /\ Len(queue) <= MaxQueueDepth
    /\ received \in 0..MaxMessage
    /\ lines \in Seq(Message) /\ bag \in Seq(Message)
    /\ written \in 0..MaxMessage
    /\ dropped \subseteq Message
    /\ worker \in {"check", "block", "waiting", "write", "record", "count", "returned"}
    /\ event \in Message \cup {NoEvent}
    /\ stopRequested \in BOOLEAN
    /\ owner \in {"running", "notify", "join", "gone"}

Init ==
    /\ queue = <<>> /\ received = 0
    /\ lines = <<>> /\ bag = <<>> /\ written = 0 /\ dropped = {}
    /\ worker = "check" /\ event = NoEvent
    /\ stopRequested = FALSE
    /\ owner = "running"

disk == <<lines, bag, written>>

(* Mutant: the worker is not notified.                                     *)
NoWake == UNCHANGED worker

Wake == worker' = IF worker = "waiting" THEN "check" ELSE worker

-----------------------------------------------------------------------------
(* enqueue_message, in a callback of the node: no callback runs any more   *)
(* when the logger is destroyed.  The worker holds the mutex from its check*)
(* of the queue until it waits.                                            *)

MakeRoom == IF Len(queue) < MaxQueueDepth THEN queue ELSE Tail(queue)

EnqueueMessage ==
    /\ owner = "running" /\ worker # "block" /\ received < MaxMessage
    /\ received' = received + 1
    /\ queue' = Append(MakeRoom, received + 1)
    /\ dropped' = dropped \cup {m \in Message : \E i \in DOMAIN queue :
                                   queue[i] = m /\ \A j \in DOMAIN MakeRoom : MakeRoom[j] # m}
    /\ Wake
    /\ UNCHANGED <<disk, event, stopRequested, owner>>

-----------------------------------------------------------------------------
(* worker_loop                                                             *)

(* Mutant: the worker leaves as soon as it is told to.                     *)
ReturnAtOnce ==
    /\ worker = "check"
    /\ IF stopRequested THEN worker' = "returned" /\ UNCHANGED <<queue, event>>
       ELSE IF queue = <<>> THEN worker' = "block" /\ UNCHANGED <<queue, event>>
       ELSE worker' = "write" /\ event' = Head(queue) /\ queue' = Tail(queue)
    /\ UNCHANGED <<received, disk, dropped, stopRequested, owner>>

CheckQueue ==
    /\ worker = "check"
    /\ \/ /\ queue # <<>>
          /\ event' = Head(queue) /\ queue' = Tail(queue) /\ worker' = "write"
       \/ /\ queue = <<>>
          /\ worker' = IF stopRequested THEN "returned" ELSE "block"
          /\ UNCHANGED <<queue, event>>
    /\ UNCHANGED <<received, disk, dropped, stopRequested, owner>>

(* condition_variable::wait releases the mutex and waits.                  *)
Block ==
    /\ worker = "block"
    /\ worker' = "waiting"
    /\ UNCHANGED <<queue, received, disk, dropped, event, stopRequested, owner>>

(* write_event: the line, then the bag; either may fail.                   *)
WriteLine ==
    /\ worker = "write"
    /\ \/ lines' = Append(lines, event) /\ worker' = "record" /\ UNCHANGED event
       \/ worker' = "check" /\ event' = NoEvent /\ UNCHANGED lines
    /\ UNCHANGED <<queue, received, bag, written, dropped, stopRequested, owner>>

RecordEvent ==
    /\ worker = "record"
    /\ \/ bag' = Append(bag, event) /\ worker' = "count" /\ UNCHANGED event
       \/ worker' = "check" /\ event' = NoEvent /\ UNCHANGED bag
    /\ UNCHANGED <<queue, received, lines, written, dropped, stopRequested, owner>>

CountWritten ==
    /\ worker = "count"
    /\ written' = written + 1
    /\ worker' = "check" /\ event' = NoEvent
    /\ UNCHANGED <<queue, received, lines, bag, dropped, stopRequested, owner>>

-----------------------------------------------------------------------------
(* stop_worker: the flag is set and the worker notified without the mutex. *)

StopWorker ==
    /\ owner = "running"
    /\ stopRequested' = TRUE
    /\ owner' = "notify"
    /\ UNCHANGED <<queue, received, disk, dropped, worker, event>>

NotifyWorker ==
    /\ owner = "notify"
    /\ Wake
    /\ owner' = "join"
    /\ UNCHANGED <<queue, received, disk, dropped, event, stopRequested>>

JoinWorker ==
    /\ owner = "join" /\ worker = "returned"
    /\ owner' = "gone"
    /\ UNCHANGED <<queue, received, disk, dropped, worker, event, stopRequested>>

-----------------------------------------------------------------------------
WorkerStep ==
    CheckQueue \/ Block \/ WriteLine \/ RecordEvent \/ CountWritten
OwnerStep == NotifyWorker \/ JoinWorker

Next == EnqueueMessage \/ WorkerStep \/ StopWorker \/ OwnerStep

Spec == Init /\ [][Next]_vars
FairSpec == Spec /\ WF_vars(WorkerStep) /\ WF_vars(OwnerStep)

-----------------------------------------------------------------------------
Sorted(s) == \A i, j \in DOMAIN s : i < j => s[i] < s[j]
Members(s) == {s[i] : i \in DOMAIN s}

(* The file is written in the order of arrival, nothing twice, and never   *)
(* has a message that was pushed out; the bag has no message that the file *)
(* misses, and the counter counts the messages that are in both.           *)
RecordsInOrder ==
    /\ Sorted(lines) /\ Sorted(bag) /\ Sorted(queue)
    /\ Members(bag) \subseteq Members(lines)
    /\ Members(lines) \cap (dropped \cup Members(queue)) = {}
    /\ written = Len(bag) - (IF worker = "count" THEN 1 ELSE 0)

(* A message is lost only to a failed write or to a full queue, and a full *)
(* queue loses none while one that came before it is still queued.         *)
OldestDropped ==
    /\ \A d \in dropped : \A q \in Members(queue) : d < q
    /\ \A d \in dropped : received >= d + MaxQueueDepth

(* A logger that is gone has tried to write whatever was queued.           *)
DrainedWhenGone == owner = "gone" => queue = <<>>

(* A queued message does not stay in the queue.                            *)
QueueMoves == \A m \in Message : m \in Members(queue) ~> m \notin Members(queue)

(* The destructor returns.                                                 *)
ShutdownCompletes == owner = "notify" ~> owner = "gone"

(* The log of the events: in order, with no gap but the oldest of a full   *)
(* queue, and written out to the end.                                      *)
LogIsFaithful == TypeOK /\ RecordsInOrder /\ OldestDropped /\ DrainedWhenGone
=============================================================================
