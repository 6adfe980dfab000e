------------------------------- MODULE AuditStore -------------------------------
(***************************************************************************)
(* The audit database of the HMI (audit_service.py) under the threads that *)
(* use it: supervisor requests save a command and record its transitions,  *)
(* telemetry refreshes add snapshots and prune the old ones.  Every        *)
(* statement block is one SQLite transaction; between two blocks of a      *)
(* thread the others run, and a block may fail on a locked database.       *)
(***************************************************************************)
EXTENDS Integers, Sequences, FiniteSets

CONSTANTS
    Thread,         \* the threads that use the service
    MaxVersion,     \* bound of the transitions of the command
    MaxSnapshots,   \* max_telemetry_snapshots
    Retention,      \* telemetry_retention_days, in units of the clock
    MaxTime,        \* bound of the clock
    MaxTaken        \* bound of the snapshots taken

\* Of the constants; the module that checks this one assumes it.
StoreAssumption ==
    /\ IsFiniteSet(Thread)
    /\ MaxVersion \in Nat /\ MaxSnapshots \in Nat /\ Retention \in Nat
    /\ MaxTime \in Nat /\ MaxTaken \in Nat

VARIABLES
    now,        \* the clock
    record,     \* the command in memory, by the number of its transitions
    row,        \* the version of it in the commands table
    events,     \* command_events: the transitions recorded
    snapshots,  \* telemetry_snapshots: [id, at]
    taken,      \* snapshots ever inserted
    pc,         \* where a thread is
    to,         \* the transition that a thread is saving
    bound,      \* the values bound to its upsert
    failed      \* the transitions whose events were lost to an error

vars == <<now, record, row, events, snapshots, taken, pc, to, bound, failed>>

Version == 0..MaxVersion
Snapshot == [id : 1..MaxTaken, at : 0..MaxTime]

TypeOK ==
    /\ now \in 0..MaxTime
    /\ record \in Version /\ row \in Version
    /\ events \subseteq 1..MaxVersion /\ failed \subseteq 1..MaxVersion
    /\ snapshots \subseteq Snapshot /\ taken \in 0..MaxTaken
    /\ pc \in [Thread -> {"idle", "bind", "upsert", "event", "expire", "trim"}]
    /\ to \in [Thread -> Version] /\ bound \in [Thread -> Version]

Init ==
    /\ now = 0
    /\ record = 0 /\ row = 0 /\ events = {}
    /\ snapshots = {} /\ taken = 0
    /\ pc = [t \in Thread |-> "idle"]
    /\ to = [t \in Thread |-> 0] /\ bound = [t \in Thread |-> 0]
    /\ failed = {}

-----------------------------------------------------------------------------
(* _transition_command: the record changes, then it is saved, then the     *)
(* transition is recorded.  An exception ends the request of the thread.   *)

Goto(t, label) == pc' = [pc EXCEPT ![t] = label]

TransitionCommand(t) ==
    /\ pc[t] = "idle" /\ record < MaxVersion
    /\ record' = record + 1
    /\ to' = [to EXCEPT ![t] = record + 1]
    /\ Goto(t, "bind")
    /\ UNCHANGED <<now, row, events, snapshots, taken, bound, failed>>

BindValues(t) ==
    /\ pc[t] = "bind"
    /\ bound' = [bound EXCEPT ![t] = record]
    /\ Goto(t, "upsert")
    /\ UNCHANGED <<now, record, row, events, snapshots, taken, to, failed>>

UpsertCommand(t) ==
    /\ pc[t] = "upsert"
    /\ \/ row' = bound[t] /\ Goto(t, "event") /\ UNCHANGED failed
       \/ failed' = failed \cup {to[t]} /\ Goto(t, "idle") /\ UNCHANGED row
    /\ UNCHANGED <<now, record, events, snapshots, taken, to, bound>>

(* Mutant: the transition is read off the record.                          *)
RecordCurrent(t) ==
    /\ pc[t] = "event"
    /\ events' = events \cup {record} /\ UNCHANGED failed
    /\ Goto(t, "idle")
    /\ UNCHANGED <<now, record, row, snapshots, taken, to, bound>>

RecordTransition(t) ==
    /\ pc[t] = "event"
    /\ \/ events' = events \cup {to[t]} /\ UNCHANGED failed
       \/ failed' = failed \cup {to[t]} /\ UNCHANGED events
    /\ Goto(t, "idle")
    /\ UNCHANGED <<now, record, row, snapshots, taken, to, bound>>

-----------------------------------------------------------------------------
(* record_telemetry_snapshot and _prune_telemetry_snapshots                *)

RecordTelemetrySnapshot(t) ==
    /\ pc[t] = "idle" /\ taken < MaxTaken
    /\ taken' = taken + 1
    /\ snapshots' = snapshots \cup {[id |-> taken + 1, at |-> now]}
    /\ Goto(t, "expire")
    /\ UNCHANGED <<now, record, row, events, to, bound, failed>>

ExpireSnapshots(t) ==
    /\ pc[t] = "expire"
    /\ snapshots' = {s \in snapshots : s.at >= now - Retention}
    /\ Goto(t, "trim")
    /\ UNCHANGED <<now, record, row, events, taken, to, bound, failed>>

(* ORDER BY created_at DESC; rows of the same moment come in any order.    *)
Newest(kept) ==
    /\ Cardinality(kept) =
          IF Cardinality(snapshots) < MaxSnapshots THEN Cardinality(snapshots) ELSE MaxSnapshots
    /\ \A k \in kept, s \in snapshots \ kept : k.at >= s.at

TrimSnapshots(t) ==
    /\ pc[t] = "trim"
    /\ \E kept \in SUBSET snapshots : Newest(kept) /\ snapshots' = kept
    /\ Goto(t, "idle")
    /\ UNCHANGED <<now, record, row, events, taken, to, bound, failed>>

(* A pruning that fails leaves the rows as they are.                       *)
PruneFails(t) ==
    /\ pc[t] \in {"expire", "trim"}
    /\ Goto(t, "idle")
    /\ UNCHANGED <<now, record, row, events, snapshots, taken, to, bound, failed>>

Tick ==
    /\ now < MaxTime /\ now' = now + 1
    /\ UNCHANGED <<record, row, events, snapshots, taken, pc, to, bound, failed>>

-----------------------------------------------------------------------------
Next ==
    \/ Tick
    \/ \E t \in Thread :
          \/ TransitionCommand(t) \/ BindValues(t) \/ UpsertCommand(t)
          \/ RecordTransition(t)
          \/ RecordTelemetrySnapshot(t) \/ ExpireSnapshots(t) \/ TrimSnapshots(t)
          \/ PruneFails(t)

Spec == Init /\ [][Next]_vars

-----------------------------------------------------------------------------
Saving == {to[t] : t \in {u \in Thread : pc[u] \in {"bind", "upsert", "event"}}}

(* The timeline of a command misses no transition but those that are being *)
(* saved or whose saving raised an error, and invents none: even the       *)
(* transitions of a thread that was overtaken by another are there.        *)
TimelineComplete == events = (1..record) \ (Saving \cup failed)

(* The saved row may stay behind the record when a save is overtaken by    *)
(* another, but with every thread idle and no failure it is at least as new*)
(* as the last save of one of the threads.                                 *)
RowLags ==
    (\A t \in Thread : pc[t] = "idle") /\ failed = {} /\ record > 0
        => \E t \in Thread : 0 < to[t] /\ to[t] <= row

(* The database has the timeline of a command and a row that is no older   *)
(* than one of the last saves.                                             *)
StoreIsFaithful == TypeOK /\ TimelineComplete /\ RowLags
=============================================================================
