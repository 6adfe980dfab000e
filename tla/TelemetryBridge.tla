---------------------------- MODULE TelemetryBridge ----------------------------
(***************************************************************************)
(* The telemetry bridge of the HMI backend                                 *)
(* (services/telemetry_bridge_service.py) and the WebSocket endpoint of    *)
(* api/app.py that serves its queues.                                      *)
(*                                                                         *)
(* _refresh_if_needed reads the adapter in several steps, compares the     *)
(* fingerprint and writes the latest snapshot without a lock, and it runs  *)
(* both in the event loop (polls, heartbeats, greetings) and in the        *)
(* threads of the REST handlers, which throw its "changed" away.  The      *)
(* steps of the loop are serial, those of a thread fall anywhere.          *)
(*                                                                         *)
(* A snapshot is the pair of what the two first reads saw (the runtime     *)
(* state and the connections); the fingerprint tells pairs apart.  The      *)
(* audit, and _latest_base_snapshot, which only the audit reads, are left  *)
(* out.                                                                    *)
(***************************************************************************)
EXTENDS Naturals, Sequences, SequencesExt

CONSTANTS
  Thread,      \* the threads of the REST handlers
  Page,        \* the operator pages that stream
  MaxChanges,  \* bound: changes of what the adapter reports
  MaxEvents,   \* bound: events broadcast by the supervisor and the task topic
  QUEUE_SIZE   \* the maxsize of a subscriber's queue, 8 in the code

\* Of the constants; the module that checks this one assumes it.
StreamAssumption ==
  /\ QUEUE_SIZE \in Nat \ {0} /\ "loop" \notin Thread
  /\ MaxChanges \in Nat /\ MaxEvents \in Nat

VARIABLES
  live,        \* what the adapter reports, one of two values
  changes, sent,
  fingerprint, \* _latest_fingerprint
  pc,          \* [loop and threads -> where its refresh is]
  snap,        \* [loop and threads -> the snapshot it builds]
  job,         \* [loop and threads -> what the refresh is for]
  subscribers, \* the pages whose queue is in _subscribers
  queue,       \* [page -> its queue]
  view,        \* [page -> the last snapshot it was sent, or NoView]
  newest,      \* history: [page -> the last event put in its queue]
  endedBy      \* history: [page -> the event that ended its stream, or "none"]

vars == <<live, changes, sent, fingerprint, pc, snap, job, subscribers, queue, view, newest, endedBy>>

Values == {0, 1}
Snapshots == Values \X Values
Actors == Thread \union {"loop"}
NoView == <<2, 2>>

\* Events: snapshots, what the supervisor emits (command_lifecycle and the like)
\* and what _on_task_events of the adapter makes of a task event.
Event == [kind : {"snapshot"}, value : Snapshots] \union [kind : {"lifecycle", "task"}]
Job == [for : {"poll", "rest"}] \union [for : {"beat", "greet"}, page : Page]
Streaming(p) == p \in subscribers

\* The types of the state, with the size of a queue.
TypeOK ==
  /\ live \in Values /\ changes \in 0 .. MaxChanges /\ sent \in 0 .. MaxEvents
  /\ fingerprint \in Snapshots
  /\ pc \in [Actors -> {"idle", "connections", "compare", "write"}]
  /\ snap \in [Actors -> Snapshots] /\ job \in [Actors -> Job]
  /\ subscribers \subseteq Page
  /\ \A p \in Page :
       Len(queue[p]) <= QUEUE_SIZE /\ Range(queue[p]) \subseteq Event
  /\ view \in [Page -> Snapshots \union {NoView}]

Init ==
  /\ live = 0 /\ changes = 0 /\ sent = 0
  /\ fingerprint = <<0, 0>>
  /\ pc = [a \in Actors |-> "idle"] /\ snap = [a \in Actors |-> <<0, 0>>]
  /\ job = [a \in Actors |-> [for |-> "poll"]]
  /\ subscribers = {} /\ queue = [p \in Page |-> <<>>]
  /\ view = [p \in Page |-> NoView]
  /\ newest = [p \in Page |-> [kind |-> "lifecycle"]]
  /\ endedBy = [p \in Page |-> "none"]

\* The adapter hears something that changes what it reports.
RosChanges ==
  /\ changes < MaxChanges /\ changes' = changes + 1
  /\ live' = 1 - live
  /\ UNCHANGED <<sent, fingerprint, pc, snap, job, subscribers, queue, view, newest, endedBy>>

--------------------------------------------------------------------------------
(* Queues.                                                                  *)

\* A full queue gives up its oldest event for the new one.
Push(q, e) == IF Len(q) < QUEUE_SIZE THEN Append(q, e) ELSE Append(Tail(q), e)

\* _broadcast_snapshot and broadcast_event.
Broadcast(e) ==
  /\ queue' = [p \in Page |-> IF Streaming(p) THEN Push(queue[p], e) ELSE queue[p]]
  /\ newest' = [p \in Page |-> IF Streaming(p) THEN e ELSE newest[p]]

\* broadcast_event from a supervisor thread, or from the adapter's spin thread.
BroadcastEvent(kind) ==
  /\ sent < MaxEvents /\ sent' = sent + 1
  /\ Broadcast([kind |-> kind])
  /\ UNCHANGED <<live, changes, fingerprint, pc, snap, job, subscribers, view, endedBy>>

--------------------------------------------------------------------------------
(* _refresh_if_needed.                                                      *)

\* _build_base_snapshot begins: the runtime state is read first.
Begin(a, j) ==
  /\ pc[a] = "idle"
  /\ pc' = [pc EXCEPT ![a] = "connections"]
  /\ job' = [job EXCEPT ![a] = j]
  /\ snap' = [snap EXCEPT ![a][1] = live]

\* Mutant: nothing is polled while nobody watches.
Poll_WhileWatched ==
  /\ subscribers # {} /\ Begin("loop", [for |-> "poll"])
  /\ UNCHANGED <<live, changes, sent, fingerprint, subscribers, queue, view, newest, endedBy>>

\* A poll of _poll_loop, a read of a REST handler, the heartbeat of an idle
\* stream (get_heartbeat_event).
Poll == Begin("loop", [for |-> "poll"])
        /\ UNCHANGED <<live, changes, sent, fingerprint, subscribers, queue, view, newest, endedBy>>
RestRead(t) == Begin(t, [for |-> "rest"])
        /\ UNCHANGED <<live, changes, sent, fingerprint, subscribers, queue, view, newest, endedBy>>
Heartbeat(p) ==
  /\ Streaming(p) /\ queue[p] = <<>>
  /\ Begin("loop", [for |-> "beat", page |-> p])
  /\ UNCHANGED <<live, changes, sent, fingerprint, subscribers, queue, view, newest, endedBy>>

\* stream_state: the page subscribes before the snapshot it is greeted with is read.
Connect(p) ==
  /\ ~Streaming(p)
  /\ subscribers' = subscribers \union {p} /\ queue' = [queue EXCEPT ![p] = <<>>]
  /\ endedBy' = [endedBy EXCEPT ![p] = "none"]
  /\ Begin("loop", [for |-> "greet", page |-> p])
  /\ UNCHANGED <<live, changes, sent, fingerprint, view, newest>>

\* The connections are read.
ReadConnections(a) ==
  /\ pc[a] = "connections"
  /\ pc' = [pc EXCEPT ![a] = "compare"]
  /\ snap' = [snap EXCEPT ![a][2] = live]
  /\ UNCHANGED <<live, changes, sent, fingerprint, job, subscribers, queue, view, newest, endedBy>>

\* The refresh returns to what asked for it: only a poll broadcasts a change,
\* and a REST answer, a heartbeat or a greeting consumes it.
Return(a, changed) ==
  /\ pc' = [pc EXCEPT ![a] = "idle"]
  /\ \/ job[a].for = "poll" /\ changed /\ UNCHANGED view
        /\ Broadcast([kind |-> "snapshot", value |-> snap[a]])
     \/ job[a].for = "greet" /\ view' = [view EXCEPT ![job[a].page] = snap[a]]
        /\ UNCHANGED <<queue, newest>>
     \/ /\ \/ job[a].for \in {"rest", "beat"}
           \/ job[a].for = "poll" /\ ~changed
        /\ UNCHANGED <<queue, view, newest>>

\* The fingerprint of the new snapshot equals the latest one, or it does not.
Compare(a) ==
  /\ pc[a] = "compare"
  /\ \/ snap[a] = fingerprint /\ Return(a, FALSE)
     \/ /\ snap[a] # fingerprint
        /\ pc' = [pc EXCEPT ![a] = "write"] /\ UNCHANGED <<queue, view, newest>>
  /\ UNCHANGED <<live, changes, sent, fingerprint, snap, job, subscribers, endedBy>>

\* The changes are audited, the snapshot and its fingerprint become the latest.
WriteFingerprint(a) ==
  /\ pc[a] = "write"
  /\ fingerprint' = snap[a]
  /\ Return(a, TRUE)
  /\ UNCHANGED <<live, changes, sent, snap, job, subscribers, endedBy>>

RefreshStep(a) ==
  ReadConnections(a) \/ Compare(a) \/ WriteFingerprint(a)

--------------------------------------------------------------------------------
(* The stream of a page.                                                    *)

LoopFree == pc["loop"] = "idle"

\* The next event is validated against the stream's contract and sent.  What
\* the adapter makes of a task event has neither of the fields the contract
\* asks for, so its validation raises and the endpoint ends: it unsubscribes.
StreamSends(p) ==
  /\ LoopFree /\ Streaming(p) /\ queue[p] # <<>>
  /\ LET e == Head(queue[p]) IN
       \/ e.kind = "snapshot" /\ view' = [view EXCEPT ![p] = e.value]
          /\ queue' = [queue EXCEPT ![p] = Tail(@)] /\ UNCHANGED <<subscribers, endedBy>>
       \/ e.kind = "lifecycle"
          /\ queue' = [queue EXCEPT ![p] = Tail(@)] /\ UNCHANGED <<subscribers, view, endedBy>>
       \/ e.kind = "task"
          /\ subscribers' = subscribers \ {p} /\ queue' = [queue EXCEPT ![p] = <<>>]
          /\ endedBy' = [endedBy EXCEPT ![p] = "task"] /\ UNCHANGED view
  /\ UNCHANGED <<live, changes, sent, fingerprint, pc, snap, job, newest>>

\* The page goes away: WebSocketDisconnect.
Disconnect(p) ==
  /\ LoopFree /\ Streaming(p)
  /\ subscribers' = subscribers \ {p} /\ queue' = [queue EXCEPT ![p] = <<>>]
  /\ endedBy' = [endedBy EXCEPT ![p] = "page"]
  /\ UNCHANGED <<live, changes, sent, fingerprint, pc, snap, job, view, newest>>

Next ==
  \/ RosChanges
  \/ \E k \in {"lifecycle", "task"} : BroadcastEvent(k)
  \/ Poll \/ \E t \in Thread : RestRead(t)
  \/ \E p \in Page : Connect(p) \/ Heartbeat(p) \/ StreamSends(p) \/ Disconnect(p)
  \/ \E a \in Actors : RefreshStep(a)

\* The poll task is rescheduled whatever the streams do, a refresh that began
\* goes on, and a stream with a waiting event runs.
Fairness ==
  /\ SF_vars(Poll)
  /\ \A a \in Actors : WF_vars(RefreshStep(a))
  /\ \A p \in Page : SF_vars(StreamSends(p))

Spec == Init /\ [][Next]_vars
FairSpec == Spec /\ Fairness

--------------------------------------------------------------------------------
\* What a page has waiting ends with the last event meant for it: an overflow
\* costs the oldest, never the newest.
NewestQueued ==
  \A p \in Page : Streaming(p) /\ queue[p] # <<>> => Last(queue[p]) = newest[p]

\* However refreshes of the loop and of threads interleave and tear, once ROS
\* is quiet the fingerprint settles on what ROS reports: no stale snapshot
\* written late by one thread suppresses the next poll for good.
FingerprintSettles == <>[](fingerprint = <<live, live>>)

\* Once ROS is quiet a page that stays connected shows what ROS reports
\* (test_bursty_updates_keep_latest_queue_payload_bounded expects the latest state
\* to reach the subscriber).
LatestReachesPages ==
  \A p \in Page : <>[](Streaming(p)) => <>[](view[p] = <<live, live>>)

\* Only the page ends its stream: a task event is delivered, as the test of
\* the task events says, and does not cost the connection.
TaskEventsReachPages == \A p \in Page : endedBy[p] # "task"
================================================================================
