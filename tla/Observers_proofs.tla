---------------------------- MODULE Observers_proofs ----------------------------
(***************************************************************************)
(* What the audit log, the audit database and the execution monitor        *)
(* promise, proved of the composition of the observers: each runs on its   *)
(* own, so the invariant of one is about the behaviours that are about it. *)
(***************************************************************************)
EXTENDS Observers, FiniteSetTheorems, TLAPS

(* ---- the audit logger ---- *)

(* The queue holds the latest messages, numbered without a gap.            *)
Taken == received - Len(queue)

QueueInv ==
    /\ queue \in Seq(Log!Message) /\ Len(queue) <= MaxQueueDepth
    /\ received \in 0..MaxMessage /\ Len(queue) <= received
    /\ \A i \in DOMAIN queue : queue[i] = Taken + i

Busy == {"write", "record", "count"}

WorkerInv ==
    /\ worker \in {"check", "block", "waiting", "write", "record", "count", "returned"}
    /\ stopRequested \in BOOLEAN
    /\ owner \in {"running", "notify", "join", "gone"}
    /\ event \in Nat /\ event <= Taken
    /\ worker \in Busy => event > 0
    /\ owner = "running" => ~stopRequested
    /\ worker = "returned" => stopRequested /\ queue = <<>>
    /\ owner = "gone" => worker = "returned"

(* The file grows by the message that the worker holds.                    *)
LinesInv ==
    /\ lines \in Seq(Log!Message) /\ Log!Sorted(lines)
    /\ \A i \in DOMAIN lines : lines[i] <= Taken
    /\ worker = "write" => \A i \in DOMAIN lines : lines[i] < event
    /\ worker \in {"record", "count"} => event \in Log!Members(lines)

(* So does the bag, and its length is what was counted.                    *)
BagInv ==
    /\ bag \in Seq(Log!Message) /\ Log!Sorted(bag)
    /\ Log!Members(bag) \subseteq Log!Members(lines)
    /\ \A i \in DOMAIN bag : i <= bag[i] /\ bag[i] <= Taken
    /\ worker \in {"write", "record"} => \A i \in DOMAIN bag : bag[i] < event
    /\ written = Len(bag) - (IF worker = "count" THEN 1 ELSE 0)
    /\ worker = "count" => Len(bag) > 0

(* What was pushed out is older than the queue and not in the file.        *)
DroppedInv ==
    /\ dropped \subseteq Log!Message
    /\ \A d \in dropped : d <= Taken /\ received >= d + MaxQueueDepth
                          /\ d \notin Log!Members(lines) /\ d # event

LogInv == QueueInv /\ WorkerInv /\ LinesInv /\ BagInv /\ DroppedInv

(* The bounds of the logger are natural numbers, its queue holds something. *)
LEMMA LogBounds == MaxMessage \in Nat /\ MaxQueueDepth \in Nat \ {0} /\ Log!Message = 1..MaxMessage
    BY ObserversAssumption DEF Log!LoggerAssumption, Log!Message

(* An empty log is faithful.                                               *)
LEMMA LogInitially == Log!Init => LogInv
<1> SUFFICES ASSUME Log!Init PROVE LogInv
    OBVIOUS
<1> USE LogBounds DEF Log!Init, Taken, Busy
<1>0. /\ queue = <<>> /\ queue \in Seq(Log!Message) /\ Len(queue) = 0
      /\ received = 0
    OBVIOUS
<1>1. QueueInv
    <2>1. DOMAIN queue = {}
        BY <1>0
    <2> QED
        BY <1>0, <2>1 DEF QueueInv
<1>2. WorkerInv
    <2>1. event = 0
        BY DEF Log!NoEvent
    <2>2. Taken = 0
        <3>1. Len(queue) = 0 /\ received = 0
            BY <1>0
        <3> HIDE DEF Log!Init
        <3> QED
            BY <3>1
    <2>3. stopRequested \in BOOLEAN /\ ~stopRequested
        BY Zenon
    <2> QED
        BY <2>1, <2>2, <2>3 DEF WorkerInv
<1>3. LinesInv
    BY DEF LinesInv, Log!Sorted
<1>4. BagInv
    BY DEF BagInv, Log!Sorted, Log!Members
<1>5. DroppedInv
    BY DEF DroppedInv
<1> QED
    BY <1>1, <1>2, <1>3, <1>4, <1>5 DEF LogInv

(* The invariant is what the log promises.                                 *)
LEMMA LogPromise == LogInv => Log!LogIsFaithful
<1> SUFFICES ASSUME LogInv PROVE Log!LogIsFaithful
    OBVIOUS
<1> USE LogBounds DEF Taken
<1>1. \A i \in DOMAIN queue : queue[i] = Taken + i
    BY DEF LogInv, QueueInv
<1>2. Log!TypeOK
    <2>1. written \in 0..MaxMessage
        <3>1. CASE Len(bag) = 0
            BY <3>1 DEF LogInv, BagInv
        <3>2. CASE Len(bag) # 0
            <4>1. Len(bag) \in DOMAIN bag /\ bag[Len(bag)] \in Log!Message
                BY <3>2 DEF LogInv, BagInv
            <4>2. Len(bag) <= MaxMessage
                BY <4>1 DEF LogInv, BagInv
            <4> QED
                BY <4>1, <4>2 DEF LogInv, BagInv
        <3> QED
            BY <3>1, <3>2
    <2>2. event \in Log!Message \cup {Log!NoEvent}
        BY DEF LogInv, WorkerInv, QueueInv, Log!NoEvent
    <2> QED
        BY <2>1, <2>2 DEF LogInv, QueueInv, WorkerInv, LinesInv, BagInv, DroppedInv, Log!TypeOK
<1>3. Log!RecordsInOrder
    <2>1. Log!Sorted(queue)
        BY <1>1 DEF LogInv, QueueInv, Log!Sorted
    <2>2. Log!Members(lines) \cap Log!Members(queue) = {}
        BY <1>1 DEF LogInv, LinesInv, QueueInv, Log!Members
    <2>3. Log!Members(lines) \cap dropped = {}
        BY DEF LogInv, DroppedInv
    <2> QED
        BY <2>1, <2>2, <2>3 DEF LogInv, LinesInv, BagInv, Log!RecordsInOrder
<1>4. Log!OldestDropped
    BY <1>1 DEF LogInv, QueueInv, DroppedInv, Log!OldestDropped, Log!Members
<1>5. Log!DrainedWhenGone
    BY DEF LogInv, WorkerInv, Log!DrainedWhenGone
<1> QED
    BY <1>2, <1>3, <1>4, <1>5 DEF Log!LogIsFaithful

(* What is appended comes last and leaves the rest where it was.           *)
LEMMA Appended ==
    ASSUME NEW S, NEW s \in Seq(S), NEW e \in S
    PROVE  /\ Append(s, e) \in Seq(S) /\ Len(Append(s, e)) = Len(s) + 1
           /\ \A i \in DOMAIN Append(s, e) :
                 Append(s, e)[i] = IF i = Len(s) + 1 THEN e ELSE s[i]
           /\ \A i \in DOMAIN Append(s, e) : i # Len(s) + 1 => i \in DOMAIN s
    OBVIOUS

(* What comes last is greater than what came before: the order holds.      *)
LEMMA Extended ==
    ASSUME NEW s \in Seq(Log!Message), NEW e \in Log!Message, NEW n,
           Log!Sorted(s), \A i \in DOMAIN s : s[i] < e /\ s[i] <= n, e <= n
    PROVE  LET t == Append(s, e)
           IN  /\ t \in Seq(Log!Message) /\ Log!Members(t) = Log!Members(s) \cup {e}
               /\ Log!Sorted(t) /\ \A i \in DOMAIN t : t[i] <= n
               /\ (\A i \in DOMAIN s : i <= s[i]) => \A i \in DOMAIN t : i <= t[i]
<1> DEFINE t == Append(s, e)
<1> USE LogBounds
<1>1. /\ t \in Seq(Log!Message) /\ Len(t) = Len(s) + 1 /\ Len(s) \in Nat
      /\ DOMAIN t = 1..(Len(s) + 1) /\ DOMAIN s = 1..Len(s)
      /\ \A i \in 1..Len(s) : t[i] = s[i]
      /\ t[Len(s) + 1] = e
    OBVIOUS
<1> HIDE DEF t
<1>2. Log!Members(t) = Log!Members(s) \cup {e}
    <2>1. ASSUME NEW x \in Log!Members(t) PROVE x \in Log!Members(s) \cup {e}
        <3>1. PICK i \in DOMAIN t : x = t[i]
            BY <2>1 DEF Log!Members
        <3>2. CASE i = Len(s) + 1
            BY <1>1, <3>1, <3>2
        <3>3. CASE i # Len(s) + 1
            <4>1. i \in DOMAIN s /\ x = s[i]
                BY <1>1, <3>1, <3>3
            <4> QED
                BY <4>1 DEF Log!Members
        <3> QED
            BY <3>2, <3>3
    <2>2. ASSUME NEW x \in Log!Members(s) PROVE x \in Log!Members(t)
        <3>1. PICK i \in DOMAIN s : x = s[i]
            BY <2>2 DEF Log!Members
        <3>2. i \in DOMAIN t /\ t[i] = x
            BY <1>1, <3>1
        <3> QED
            BY <3>2 DEF Log!Members
    <2>3. e \in Log!Members(t)
        BY <1>1 DEF Log!Members
    <2> QED
        BY <2>1, <2>2, <2>3
<1>3. Log!Sorted(t)
    <2> SUFFICES ASSUME NEW i \in DOMAIN t, NEW j \in DOMAIN t, i < j PROVE t[i] < t[j]
        BY DEF Log!Sorted
    <2>1. i \in 1..Len(s) /\ t[i] = s[i]
        BY <1>1
    <2>2. CASE j = Len(s) + 1
        <3>1. t[j] = e /\ s[i] < e
            BY <1>1, <2>1, <2>2
        <3> QED
            BY <2>1, <3>1
    <2>3. CASE j # Len(s) + 1
        <3>1. j \in 1..Len(s) /\ t[j] = s[j]
            BY <1>1, <2>3
        <3>2. s[i] < s[j]
            BY <2>1, <3>1 DEF Log!Sorted
        <3> QED
            BY <2>1, <3>1, <3>2
    <2> QED
        BY <2>2, <2>3
<1>4. \A i \in DOMAIN t : t[i] <= n
    <2> TAKE i \in DOMAIN t
    <2>1. CASE i = Len(s) + 1
        BY <1>1, <2>1
    <2>2. CASE i # Len(s) + 1
        <3>1. i \in DOMAIN s /\ t[i] = s[i]
            BY <1>1, <2>2
        <3> QED
            BY <3>1
    <2> QED
        BY <2>1, <2>2
<1>5. ASSUME \A i \in DOMAIN s : i <= s[i] PROVE \A i \in DOMAIN t : i <= t[i]
    <2>1. Len(s) + 1 <= e
        <3>1. CASE Len(s) = 0
            BY <3>1
        <3>2. CASE Len(s) # 0
            <4>1. Len(s) \in DOMAIN s /\ s[Len(s)] \in Log!Message
                BY <1>1, <3>2
            <4>2. Len(s) <= s[Len(s)] /\ s[Len(s)] < e
                BY <1>5, <4>1
            <4> QED
                BY <1>1, <4>1, <4>2
        <3> QED
            BY <3>1, <3>2
    <2> TAKE i \in DOMAIN t
    <2>2. CASE i = Len(s) + 1
        BY <1>1, <2>1, <2>2
    <2>3. CASE i # Len(s) + 1
        <3>1. i \in DOMAIN s /\ t[i] = s[i]
            BY <1>1, <2>3
        <3> QED
            BY <1>5, <3>1
    <2> QED
        BY <2>2, <2>3
<1> QED
    BY <1>1, <1>2, <1>3, <1>4, <1>5 DEF t

(* What one more message does to the queue: the oldest makes room for it.  *)
LEMMA Enqueued ==
    ASSUME LogInv, Log!EnqueueMessage
    PROVE  /\ QueueInv' /\ Taken' >= Taken
           /\ \A d \in dropped' \ dropped : d = Taken + 1 /\ Taken' = Taken + 1
                                            /\ received' = d + MaxQueueDepth
           /\ dropped' \subseteq Log!Message
<1> USE LogBounds DEF Taken, QueueInv
<1>1. /\ queue \in Seq(Log!Message) /\ Len(queue) <= MaxQueueDepth /\ received \in Nat
      /\ received < MaxMessage /\ received' = received + 1
      /\ queue' = Append(Log!MakeRoom, received + 1)
      /\ \A i \in DOMAIN queue : queue[i] = received - Len(queue) + i
      /\ Len(queue) <= received
    BY DEF LogInv, Log!EnqueueMessage
<1>2. \A d \in dropped' \ dropped : \E i \in DOMAIN queue :
          /\ queue[i] = d /\ d \in Log!Message
          /\ \A j \in DOMAIN Log!MakeRoom : Log!MakeRoom[j] # d
    BY DEF Log!EnqueueMessage
<1>3. CASE Len(queue) < MaxQueueDepth
    <2>1. Log!MakeRoom = queue
        BY <1>3 DEF Log!MakeRoom
    <2>2. /\ queue' = Append(queue, received + 1) /\ received + 1 \in Log!Message
          /\ received' \in 0..MaxMessage
        BY <1>1, <2>1
    <2>3. /\ queue' \in Seq(Log!Message) /\ Len(queue') = Len(queue) + 1
          /\ \A i \in DOMAIN queue' : queue'[i] = IF i = Len(queue) + 1 THEN received + 1 ELSE queue[i]
          /\ \A i \in DOMAIN queue' : i # Len(queue) + 1 => i \in DOMAIN queue
        <3> DEFINE e == received + 1
        <3>1. queue \in Seq(Log!Message) /\ e \in Log!Message /\ queue' = Append(queue, e)
            BY <1>1, <2>2
        <3> HIDE DEF e, QueueInv, Taken
        <3>2. /\ Append(queue, e) \in Seq(Log!Message) /\ Len(Append(queue, e)) = Len(queue) + 1
              /\ \A i \in DOMAIN Append(queue, e) :
                     Append(queue, e)[i] = IF i = Len(queue) + 1 THEN e ELSE queue[i]
              /\ \A i \in DOMAIN Append(queue, e) : i # Len(queue) + 1 => i \in DOMAIN queue
            BY <3>1, Appended
        <3> QED
            BY <3>1, <3>2 DEF e
    <2>4. Taken' = Taken
        <3>1. Len(queue) \in Nat /\ Len(queue') = Len(queue) + 1 /\ received' = received + 1 /\ received \in Nat
            BY <1>1, <2>3
        <3> QED
            BY <3>1
    <2>5. \A i \in DOMAIN queue' : queue'[i] = Taken' + i
        <3> SUFFICES ASSUME NEW i \in DOMAIN queue' PROVE queue'[i] = Taken + i
            BY <2>4
        <3>1. Len(queue) \in Nat /\ received \in Nat
            BY <1>1
        <3>2. CASE i = Len(queue) + 1
            BY <2>3, <3>1, <3>2
        <3>3. CASE i # Len(queue) + 1
            <4>1. i \in DOMAIN queue /\ queue'[i] = queue[i]
                BY <2>3, <3>3
            <4> QED
                BY <1>1, <4>1
        <3> QED
            BY <3>2, <3>3
    <2>6. QueueInv'
        <3>1. Len(queue') <= MaxQueueDepth /\ Len(queue') <= received'
            BY <1>1, <1>3, <2>3
        <3> QED
            BY <2>2, <2>3, <2>5, <3>1
    <2>7. dropped' \subseteq dropped
        BY <1>2, <2>1
    <2> QED
        BY <1>1, <2>3, <2>4, <2>6, <2>7 DEF LogInv, DroppedInv
<1>4. CASE ~(Len(queue) < MaxQueueDepth)
    <2>1. Log!MakeRoom = Tail(queue) /\ Len(queue) = MaxQueueDepth /\ queue # <<>>
        BY <1>1, <1>4 DEF Log!MakeRoom
    <2>2. /\ Tail(queue) \in Seq(Log!Message) /\ Len(Tail(queue)) = MaxQueueDepth - 1
          /\ \A j \in DOMAIN Tail(queue) : Tail(queue)[j] = queue[j + 1]
        BY <1>1, <2>1
    <2>3. /\ queue' \in Seq(Log!Message) /\ Len(queue') = MaxQueueDepth
          /\ received' \in 0..MaxMessage /\ Taken' = Taken + 1
        <3> DEFINE e == received + 1
                   rest == Tail(queue)
        <3>1. /\ rest \in Seq(Log!Message) /\ e \in Log!Message /\ queue' = Append(rest, e)
              /\ Len(rest) + 1 = MaxQueueDepth
            BY <1>1, <2>1, <2>2
        <3> HIDE DEF e, rest, QueueInv, Taken
        <3>2. Append(rest, e) \in Seq(Log!Message) /\ Len(Append(rest, e)) = Len(rest) + 1
            BY <3>1, Appended
        <3>3. queue' \in Seq(Log!Message) /\ Len(queue') = MaxQueueDepth
            BY <3>1, <3>2
        <3>4. received' \in 0..MaxMessage /\ received' = received + 1 /\ received \in Nat
            BY <1>1
        <3> QED
            BY <1>4, <2>1, <3>3, <3>4 DEF Taken
    <2>4. ASSUME NEW i \in DOMAIN queue' PROVE queue'[i] = Taken' + i
        <3> DEFINE rest == Tail(queue)
        <3>1. rest \in Seq(Log!Message) /\ Len(rest) = MaxQueueDepth - 1
            BY <2>2
        <3>2. received + 1 \in Log!Message /\ queue' = Append(rest, received + 1)
            BY <1>1, <2>1
        <3>3. i \in 1..MaxQueueDepth
            BY <2>3
        <3> HIDE DEF rest
        <3>4. CASE i = MaxQueueDepth
            <4>1. queue'[i] = received + 1
                <5>1. i = Len(rest) + 1 /\ i \in DOMAIN Append(rest, received + 1)
                    BY <3>1, <3>2, <3>4
                <5> QED
                    BY <3>1, <3>2, <5>1, Appended
            <4>2. Taken' + MaxQueueDepth = received + 1
                <5> HIDE DEF rest
                <5>1. Len(queue') = MaxQueueDepth /\ received' = received + 1 /\ received \in Nat
                    BY <1>1, <2>3
                <5> QED
                    BY <5>1
            <4> QED
                BY <3>4, <4>1, <4>2
        <3>5. CASE i # MaxQueueDepth
            <4>1. i \in DOMAIN rest /\ queue'[i] = rest[i]
                BY <3>1, <3>2, <3>3, <3>5
            <4>2. rest[i] = queue[i + 1] /\ i + 1 \in DOMAIN queue
                BY <1>1, <2>1, <2>2, <3>1, <4>1 DEF rest
            <4>3. queue[i + 1] = (received - MaxQueueDepth) + (i + 1)
                BY <1>1, <2>1, <4>2
            <4>4. Len(queue') = MaxQueueDepth /\ received' = received + 1 /\ received \in Nat
                BY <1>1, <2>3
            <4>5. Taken' = received + 1 - MaxQueueDepth
                BY <4>4
            <4>6. queue'[i] = (received - MaxQueueDepth) + (i + 1)
                BY <4>1, <4>2, <4>3
            <4> HIDE DEF Taken, QueueInv
            <4> QED
                BY <3>3, <4>4, <4>5, <4>6
        <3> QED
            BY <3>4, <3>5
    <2>5. QueueInv'
        BY <1>1, <2>1, <2>3, <2>4
    <2>6. ASSUME NEW d \in dropped' \ dropped PROVE d = Taken + 1 /\ d \in Log!Message
        <3>1. PICK i \in DOMAIN queue :
                  queue[i] = d /\ d \in Log!Message /\ \A j \in DOMAIN Tail(queue) : Tail(queue)[j] # d
            BY <1>2, <2>1
        <3>2. i = 1
            <4>1. ASSUME i # 1 PROVE FALSE
                <5>1. i - 1 \in DOMAIN Tail(queue)
                    BY <1>1, <2>1, <2>2, <4>1
                <5> QED
                    BY <1>1, <2>2, <3>1, <5>1
            <4> QED
                BY <4>1
        <3> QED
            BY <1>1, <3>1, <3>2
    <2>7. \A d \in dropped' \ dropped : received' = d + MaxQueueDepth
        BY <1>1, <2>1, <2>6
    <2>8. dropped' \subseteq Log!Message
        BY <2>6 DEF LogInv, DroppedInv
    <2> QED
        BY <1>1, <2>3, <2>5, <2>6, <2>7, <2>8
<1> QED
    BY <1>3, <1>4

(* A step of the worker or of the owner that moves no message leaves the   *)
(* queue, the file and the bag in order.                                   *)
LEMMA FileStays ==
    ASSUME LogInv, UNCHANGED <<queue, received, lines, bag, written, dropped, event>>,
           worker' = worker \/ (worker \notin Busy /\ worker' \notin Busy)
    PROVE  QueueInv' /\ DroppedInv' /\ LinesInv' /\ BagInv'
<1>1. Taken' = Taken
    BY DEF Taken
<1>2. /\ Log!Members(lines)' = Log!Members(lines) /\ Log!Members(bag)' = Log!Members(bag)
      /\ Log!Sorted(lines)' = Log!Sorted(lines) /\ Log!Sorted(bag)' = Log!Sorted(bag)
    BY DEF Log!Members, Log!Sorted
<1>3. QueueInv'
    BY <1>1 DEF LogInv, QueueInv
<1>4. DroppedInv'
    BY <1>1, <1>2 DEF LogInv, DroppedInv
<1>5. LinesInv'
    BY <1>1, <1>2 DEF LogInv, LinesInv, Busy
<1>6. BagInv'
    BY <1>1, <1>2 DEF LogInv, BagInv, Busy
<1> QED
    BY <1>3, <1>4, <1>5, <1>6

(* A step of the logger keeps the invariant.                               *)
LEMMA LogStep == LogInv /\ [Log!Next]_log => LogInv'
<1> SUFFICES ASSUME LogInv, [Log!Next]_log PROVE LogInv'
    OBVIOUS
<1> USE LogBounds DEF Taken, Busy
<1>1. CASE Log!EnqueueMessage
    <2>1. /\ QueueInv' /\ Taken' >= Taken /\ Taken \in Int /\ Taken' \in Int
          /\ dropped' \subseteq Log!Message
          /\ \A d \in dropped' \ dropped : /\ d = Taken + 1 /\ Taken' = Taken + 1
                                            /\ received' = d + MaxQueueDepth
        BY <1>1, Enqueued DEF LogInv, QueueInv
    <2> HIDE DEF Taken
    <2>2. /\ UNCHANGED <<lines, bag, written, event, stopRequested, owner>>
          /\ owner = "running" /\ received' = received + 1 /\ worker # "block"
          /\ worker' = IF worker = "waiting" THEN "check" ELSE worker
        BY <1>1 DEF Log!EnqueueMessage, Log!disk, Log!Wake
    <2>3. WorkerInv'
        BY <2>1, <2>2 DEF LogInv, WorkerInv
    <2>4. LinesInv'
        <3>1. \A i \in DOMAIN lines : lines[i] <= Taken /\ lines[i] \in Int
            BY DEF LogInv, LinesInv
        <3>2. \A i \in DOMAIN lines : lines[i] <= Taken'
            BY <2>1, <3>1
        <3> QED
            BY <2>2, <3>2 DEF LogInv, LinesInv, Log!Sorted, Log!Members
    <2>5. BagInv'
        <3>1. \A i \in DOMAIN bag : bag[i] <= Taken /\ bag[i] \in Int
            BY DEF LogInv, BagInv
        <3>2. \A i \in DOMAIN bag : bag[i] <= Taken'
            BY <2>1, <3>1
        <3> QED
            BY <2>2, <3>2 DEF LogInv, BagInv, Log!Sorted, Log!Members
    <2>6. DroppedInv'
        <3> SUFFICES ASSUME NEW d \in dropped'
                     PROVE  d <= Taken' /\ received' >= d + MaxQueueDepth
                            /\ d \notin Log!Members(lines) /\ d # event
            BY <2>1, <2>2 DEF DroppedInv, Log!Members
        <3>1. CASE d \in dropped
            BY <2>1, <2>2, <3>1 DEF LogInv, DroppedInv, QueueInv
        <3>2. CASE d \notin dropped
            <4>1. d = Taken + 1 /\ Taken' = Taken + 1 /\ received' = d + MaxQueueDepth
                BY <2>1, <3>2
            <4>2. d \notin Log!Members(lines)
                BY <2>1, <4>1 DEF LogInv, LinesInv, Log!Members
            <4> QED
                BY <2>1, <2>2, <4>1, <4>2 DEF LogInv, WorkerInv, QueueInv
        <3> QED
            BY <3>1, <3>2
    <2> QED
        BY <2>1, <2>3, <2>4, <2>5, <2>6 DEF LogInv
<1>2. CASE Log!CheckQueue
    <2>1. CASE queue = <<>>
        <3>1. /\ UNCHANGED <<queue, received, lines, bag, written, dropped, event, stopRequested, owner>>
              /\ worker = "check" /\ worker' = IF stopRequested THEN "returned" ELSE "block"
            BY <1>2, <2>1 DEF Log!CheckQueue, Log!disk
        <3>2. QueueInv' /\ DroppedInv' /\ LinesInv' /\ BagInv'
            BY <3>1, FileStays
        <3>3. WorkerInv'
            BY <2>1, <3>1 DEF LogInv, WorkerInv, QueueInv
        <3> QED
            BY <3>2, <3>3 DEF LogInv
    <2>2. CASE queue # <<>>
        <3>1. /\ UNCHANGED <<received, lines, bag, written, dropped, stopRequested, owner>>
              /\ worker = "check" /\ worker' = "write"
              /\ event' = Head(queue) /\ queue' = Tail(queue)
            BY <1>2, <2>2 DEF Log!CheckQueue, Log!disk
        <3>2. /\ queue \in Seq(Log!Message) /\ Len(queue) \in 1..MaxQueueDepth
              /\ Len(queue) <= received /\ received \in 0..MaxMessage
              /\ \A i \in DOMAIN queue : queue[i] = Taken + i
            BY <2>2 DEF LogInv, QueueInv
        <3>3. /\ Len(queue') = Len(queue) - 1 /\ queue' \in Seq(Log!Message)
              /\ \A i \in DOMAIN queue' : queue'[i] = queue[i + 1] /\ i + 1 \in DOMAIN queue
            BY <3>1, <3>2
        <3>4. Taken' = Taken + 1 /\ Taken \in Nat
            BY <3>1, <3>2, <3>3
        <3>5. event' = Taken + 1
            <4>1. event' = queue[1] /\ 1 \in DOMAIN queue
                BY <3>1, <3>2
            <4> QED
                BY <3>2, <4>1
        <3>6. QueueInv'
            <4>1. \A i \in DOMAIN queue' : queue'[i] = Taken' + i
                <5> TAKE i \in DOMAIN queue'
                <5>1. queue'[i] = queue[i + 1] /\ i + 1 \in DOMAIN queue /\ i \in Nat
                    BY <3>3
                <5>2. queue[i + 1] = Taken + (i + 1)
                    BY <3>2, <5>1
                <5> HIDE DEF Taken
                <5> QED
                    BY <3>4, <5>1, <5>2
            <4> QED
                BY <3>1, <3>2, <3>3, <4>1 DEF QueueInv
        <3> HIDE DEF Taken
        <3>7. WorkerInv'
            BY <3>1, <3>4, <3>5, <2>2 DEF LogInv, WorkerInv
        <3>8. LinesInv'
            <4>1. \A i \in DOMAIN lines : lines[i] <= Taken /\ lines[i] \in Int
                BY DEF LogInv, LinesInv
            <4>2. \A i \in DOMAIN lines : lines[i] <= Taken' /\ lines[i] < event'
                BY <3>4, <3>5, <4>1
            <4> QED
                BY <3>1, <4>2 DEF LogInv, LinesInv, Log!Sorted
        <3>9. BagInv'
            <4>1. \A i \in DOMAIN bag : bag[i] <= Taken /\ bag[i] \in Int
                BY DEF LogInv, BagInv
            <4>2. \A i \in DOMAIN bag : bag[i] <= Taken' /\ bag[i] < event'
                BY <3>4, <3>5, <4>1
            <4> QED
                BY <3>1, <4>2 DEF LogInv, BagInv, Log!Sorted, Log!Members
        <3>10. DroppedInv'
            <4>1. \A d \in dropped : d <= Taken' /\ d # event'
                BY <3>4, <3>5 DEF LogInv, DroppedInv
            <4> QED
                BY <3>1, <4>1 DEF LogInv, DroppedInv, Log!Members
        <3> QED
            BY <3>6, <3>7, <3>8, <3>9, <3>10 DEF LogInv
    <2> QED
        BY <2>1, <2>2
<1>3. CASE Log!Block
    <2>1. /\ UNCHANGED <<queue, received, lines, bag, written, dropped, event, stopRequested, owner>>
          /\ worker = "block" /\ worker' = "waiting"
        BY <1>3 DEF Log!Block, Log!disk
    <2>2. QueueInv' /\ DroppedInv' /\ LinesInv' /\ BagInv'
        BY <2>1, FileStays
    <2>3. WorkerInv'
        BY <2>1 DEF LogInv, WorkerInv
    <2> QED
        BY <2>2, <2>3 DEF LogInv
<1>4. CASE Log!WriteLine
    <2>1. /\ UNCHANGED <<queue, received, bag, written, dropped, stopRequested, owner>>
          /\ worker = "write" /\ Taken' = Taken /\ event \in Log!Message /\ event <= Taken
        BY <1>4 DEF Log!WriteLine, LogInv, WorkerInv, QueueInv
    <2>2. QueueInv'
        BY <2>1 DEF LogInv, QueueInv
    <2> HIDE DEF Taken
    <2>3. CASE lines' = Append(lines, event) /\ worker' = "record" /\ UNCHANGED event
        <3>1. WorkerInv'
            BY <2>1, <2>3 DEF LogInv, WorkerInv
        <3>2. /\ lines \in Seq(Log!Message) /\ Log!Sorted(lines)
              /\ \A i \in DOMAIN lines : lines[i] <= Taken /\ lines[i] < event
            BY <2>1 DEF LogInv, LinesInv
        <3>3. Log!Members(lines') = Log!Members(lines) \cup {event} /\ lines' \in Seq(Log!Message)
            BY <2>1, <2>3, <3>2, Extended
        <3>4. Log!Sorted(lines') /\ \A i \in DOMAIN lines' : lines'[i] <= Taken
            BY <2>1, <2>3, <3>2, Extended
        <3>5. LinesInv'
            BY <2>1, <2>3, <3>3, <3>4 DEF LinesInv, Log!Sorted, Log!Members
        <3>6. BagInv'
            BY <2>1, <2>3, <3>3 DEF LogInv, BagInv, Log!Sorted, Log!Members
        <3>7. DroppedInv'
            BY <2>1, <2>3, <3>3 DEF LogInv, DroppedInv, Log!Members
        <3> QED
            BY <2>2, <3>1, <3>5, <3>6, <3>7 DEF LogInv
    <2>4. CASE worker' = "check" /\ event' = Log!NoEvent /\ UNCHANGED lines
        <3>1. WorkerInv'
            <4>1. event' = 0 /\ Taken \in Nat
                BY <2>1, <2>4 DEF Taken, LogInv, QueueInv, Log!NoEvent
            <4> QED
                BY <2>1, <2>4, <4>1 DEF LogInv, WorkerInv
        <3>2. LinesInv'
            BY <2>1, <2>4 DEF LogInv, LinesInv, Log!Sorted
        <3>3. BagInv'
            <4>1. written' = Len(bag)
                BY <2>1 DEF LogInv, BagInv
            <4> QED
                BY <2>1, <2>4, <4>1 DEF LogInv, BagInv, Log!Sorted, Log!Members
        <3>4. DroppedInv'
            BY <2>1, <2>4 DEF LogInv, DroppedInv, Log!Members, Log!NoEvent
        <3> QED
            BY <2>2, <3>1, <3>2, <3>3, <3>4 DEF LogInv
    <2> QED
        BY <1>4, <2>3, <2>4 DEF Log!WriteLine
<1>5. CASE Log!RecordEvent
    <2>1. /\ UNCHANGED <<queue, received, lines, written, dropped, stopRequested, owner>>
          /\ worker = "record" /\ Taken' = Taken /\ event \in Log!Message /\ event <= Taken
        BY <1>5 DEF Log!RecordEvent, LogInv, WorkerInv, QueueInv
    <2>2. QueueInv'
        BY <2>1 DEF LogInv, QueueInv
    <2> HIDE DEF Taken
    <2>3. CASE bag' = Append(bag, event) /\ worker' = "count" /\ UNCHANGED event
        <3>1. WorkerInv' /\ LinesInv' /\ DroppedInv'
            BY <2>1, <2>3 DEF LogInv, WorkerInv, LinesInv, DroppedInv, Log!Sorted, Log!Members
        <3>2. /\ bag \in Seq(Log!Message) /\ Log!Sorted(bag) /\ written = Len(bag)
              /\ \A i \in DOMAIN bag : bag[i] <= Taken /\ bag[i] < event /\ i <= bag[i]
            BY <2>1 DEF LogInv, BagInv
        <3>3. Log!Members(bag') = Log!Members(bag) \cup {event} /\ bag' \in Seq(Log!Message)
            BY <2>1, <2>3, <3>2, Extended
        <3>4. Log!Sorted(bag') /\ \A i \in DOMAIN bag' : i <= bag'[i] /\ bag'[i] <= Taken
            BY <2>1, <2>3, <3>2, Extended
        <3>5. event \in Log!Members(lines) /\ Log!Members(bag) \subseteq Log!Members(lines)
            BY <2>1 DEF LogInv, LinesInv, BagInv
        <3>6. Len(bag') = Len(bag) + 1 /\ Len(bag) \in Nat
            BY <2>1, <2>3, <3>2
        <3>7. Log!Members(bag') \subseteq Log!Members(lines')
            BY <2>1, <3>3, <3>5 DEF Log!Members
        <3>8. written' = Len(bag') - 1 /\ Len(bag') > 0
            BY <2>1, <3>2, <3>6
        <3>9. BagInv'
            BY <2>1, <2>3, <3>3, <3>4, <3>7, <3>8 DEF BagInv, Log!Sorted, Log!Members
        <3> QED
            BY <2>2, <3>1, <3>9 DEF LogInv
    <2>4. CASE worker' = "check" /\ event' = Log!NoEvent /\ UNCHANGED bag
        <3>1. WorkerInv'
            <4>1. event' = 0 /\ Taken \in Nat
                BY <2>1, <2>4 DEF Taken, LogInv, QueueInv, Log!NoEvent
            <4> QED
                BY <2>1, <2>4, <4>1 DEF LogInv, WorkerInv
        <3>2. LinesInv'
            BY <2>1, <2>4 DEF LogInv, LinesInv, Log!Sorted
        <3>3. BagInv'
            <4>1. written' = Len(bag)
                BY <2>1 DEF LogInv, BagInv
            <4> QED
                BY <2>1, <2>4, <4>1 DEF LogInv, BagInv, Log!Sorted, Log!Members
        <3>4. DroppedInv'
            BY <2>1, <2>4 DEF LogInv, DroppedInv, Log!Members, Log!NoEvent
        <3> QED
            BY <2>2, <3>1, <3>2, <3>3, <3>4 DEF LogInv
    <2> QED
        BY <1>5, <2>3, <2>4 DEF Log!RecordEvent
<1>6. CASE Log!CountWritten
    <2>1. /\ UNCHANGED <<queue, received, lines, bag, dropped, stopRequested, owner>>
          /\ worker = "count" /\ worker' = "check" /\ event' = Log!NoEvent
          /\ written' = written + 1 /\ Taken' = Taken
        BY <1>6 DEF Log!CountWritten
    <2>2. QueueInv' /\ Taken \in Nat
        BY <2>1 DEF LogInv, QueueInv
    <2> HIDE DEF Taken
    <2>3. WorkerInv'
        BY <2>1, <2>2 DEF LogInv, WorkerInv, Log!NoEvent
    <2>4. LinesInv'
        BY <2>1 DEF LogInv, LinesInv, Log!Sorted
    <2>5. BagInv'
        <3>1. written' = Len(bag)
            BY <2>1 DEF LogInv, BagInv
        <3>2. /\ \A i \in DOMAIN bag : i <= bag[i] /\ bag[i] <= Taken
              /\ Log!Members(bag) \subseteq Log!Members(lines)
              /\ bag \in Seq(Log!Message) /\ Log!Sorted(bag)
            BY DEF LogInv, BagInv
        <3>3. written' = Len(bag') - (IF worker' = "count" THEN 1 ELSE 0)
            BY <2>1, <3>1, <3>2
        <3>4. \A i \in DOMAIN bag' : i <= bag'[i] /\ bag'[i] <= Taken'
            BY <2>1, <3>2
        <3> QED
            BY <2>1, <3>2, <3>3, <3>4 DEF BagInv, Log!Sorted, Log!Members
    <2>6. DroppedInv'
        BY <2>1 DEF LogInv, DroppedInv, Log!Members, Log!NoEvent
    <2> QED
        BY <2>2, <2>3, <2>4, <2>5, <2>6 DEF LogInv
<1>7. CASE Log!StopWorker
    <2>1. /\ UNCHANGED <<queue, received, lines, bag, written, dropped, worker, event>>
          /\ stopRequested' = TRUE /\ owner' = "notify" /\ owner = "running"
        BY <1>7 DEF Log!StopWorker, Log!disk
    <2>2. QueueInv' /\ DroppedInv' /\ LinesInv' /\ BagInv'
        BY <2>1, FileStays
    <2>3. WorkerInv'
        BY <2>1 DEF LogInv, WorkerInv
    <2> QED
        BY <2>2, <2>3 DEF LogInv
<1>8. CASE Log!NotifyWorker
    <2>1. /\ UNCHANGED <<queue, received, lines, bag, written, dropped, event, stopRequested>>
          /\ worker' = IF worker = "waiting" THEN "check" ELSE worker
          /\ owner' = "join" /\ owner = "notify"
        BY <1>8 DEF Log!NotifyWorker, Log!disk, Log!Wake
    <2>2. QueueInv' /\ DroppedInv' /\ LinesInv' /\ BagInv'
        BY <2>1, FileStays
    <2>3. WorkerInv'
        BY <2>1 DEF LogInv, WorkerInv
    <2> QED
        BY <2>2, <2>3 DEF LogInv
<1>9. CASE Log!JoinWorker
    <2>1. /\ UNCHANGED <<queue, received, lines, bag, written, dropped, worker, event, stopRequested>>
          /\ owner' = "gone" /\ owner = "join" /\ worker = "returned"
        BY <1>9 DEF Log!JoinWorker, Log!disk
    <2>2. QueueInv' /\ DroppedInv' /\ LinesInv' /\ BagInv'
        BY <2>1, FileStays
    <2>3. WorkerInv'
        BY <2>1 DEF LogInv, WorkerInv
    <2> QED
        BY <2>2, <2>3 DEF LogInv
<1>10. CASE UNCHANGED log
    <2>1. UNCHANGED <<queue, received, lines, bag, written, dropped, worker, event, stopRequested, owner>>
        BY <1>10 DEF log
    <2>2. QueueInv' /\ DroppedInv' /\ LinesInv' /\ BagInv'
        BY <2>1, FileStays
    <2>3. WorkerInv'
        BY <2>1 DEF LogInv, WorkerInv
    <2> QED
        BY <2>2, <2>3 DEF LogInv
<1> QED
    BY <1>1, <1>2, <1>3, <1>4, <1>5, <1>6, <1>7, <1>8, <1>9, <1>10
    DEF Log!Next, Log!WorkerStep, Log!OwnerStep

(* An observer that is not looked at does not move.                        *)
LEMMA LogStepOfAll == [Next]_vars => [Log!Next]_log
BY DEF Next, vars, log

(* The log is in order, with no gap but the oldest of a full queue, and    *)
(* complete when the logger is gone: AuditLogger's callbacks, worker thread*)
(* and destructor, whatever their order and whichever write fails.         *)
THEOREM LogStaysFaithful == Spec => []LogIsFaithful
<1>1. Init => LogInv
    BY LogInitially DEF Init
<1>2. LogInv /\ [Next]_vars => LogInv'
    BY LogStep, LogStepOfAll
<1>3. LogInv => LogIsFaithful
    BY LogPromise DEF LogIsFaithful
<1> QED
    BY <1>1, <1>2, <1>3, PTL DEF Spec

-----------------------------------------------------------------------------
(* ---- the audit database ---- *)

StoreTypes ==
    /\ now \in 0..MaxStoreTime
    /\ record \in Store!Version /\ row \in Store!Version
    /\ events \subseteq 1..MaxVersion /\ failed \subseteq 1..MaxVersion
    /\ pc \in [Thread -> {"idle", "bind", "upsert", "event", "expire", "trim"}]
    /\ to \in [Thread -> Store!Version] /\ bound \in [Thread -> Store!Version]

SnapshotTypes == snapshots \subseteq Store!Snapshot /\ taken \in 0..MaxTaken

IsSaving(t) == pc[t] \in {"bind", "upsert", "event"}

(* Every save is of a transition of its own, made and not given up.        *)
SavesDiffer ==
    /\ \A t \in Thread : IsSaving(t) => to[t] \in 1..record /\ to[t] \notin failed
    /\ \A t, u \in Thread : IsSaving(t) /\ IsSaving(u) /\ to[t] = to[u] => t = u
    /\ failed \subseteq 1..record

(* What is bound to an upsert is the record as it was after the transition.*)
BoundInv == \A t \in Thread : pc[t] = "upsert" => to[t] <= bound[t]

(* Without a failure a save that is not in the row is on its way to it.    *)
RowFollows ==
    failed = {} /\ record > 0
        => \E t \in Thread : pc[t] \in {"bind", "upsert"} \/ (0 < to[t] /\ to[t] <= row)

StoreInv ==
    /\ StoreTypes /\ SnapshotTypes
    /\ SavesDiffer /\ Store!TimelineComplete /\ BoundInv /\ RowFollows

(* The bounds of the database are natural numbers.                         *)
LEMMA StoreBounds ==
    /\ MaxVersion \in Nat /\ MaxStoreTime \in Nat /\ MaxTaken \in Nat
    /\ Retention \in Nat /\ MaxSnapshots \in Nat /\ Store!Version = 0..MaxVersion
    BY ObserversAssumption DEF Store!StoreAssumption, Store!Version

(* An empty database is faithful.                                          *)
LEMMA StoreInitially == Store!Init => StoreInv
<1> SUFFICES ASSUME Store!Init PROVE StoreInv
    OBVIOUS
<1> USE StoreBounds DEF Store!Init, IsSaving
<1>1. StoreTypes /\ SnapshotTypes
    BY DEF StoreTypes, SnapshotTypes
<1>2. SavesDiffer /\ BoundInv /\ RowFollows
    BY DEF SavesDiffer, BoundInv, RowFollows
<1>3. Store!TimelineComplete
    BY DEF Store!TimelineComplete, Store!Saving
<1> QED
    BY <1>1, <1>2, <1>3 DEF StoreInv

(* The invariant is what the database promises.                            *)
LEMMA StorePromise == StoreInv => Store!StoreIsFaithful
<1> SUFFICES ASSUME StoreInv PROVE Store!StoreIsFaithful
    OBVIOUS
<1>1. Store!TypeOK
    BY DEF StoreInv, StoreTypes, SnapshotTypes, Store!TypeOK
<1>2. Store!RowLags
    BY DEF StoreInv, RowFollows, Store!RowLags
<1> QED
    BY <1>1, <1>2 DEF StoreInv, Store!StoreIsFaithful

(* Of a thread that leaves a save: the timeline has it or its failure does.*)
LEMMA SaveEnds ==
    ASSUME StoreInv, NEW t \in Thread, IsSaving(t),
           record' = record, to' = to, pc' = [pc EXCEPT ![t] = "idle"],
           \/ events' = events \cup {to[t]} /\ failed' = failed
           \/ events' = events /\ failed' = failed \cup {to[t]}
    PROVE  Store!TimelineComplete' /\ SavesDiffer'
<1> USE StoreBounds
<1>1. /\ record \in Nat /\ to \in [Thread -> Store!Version]
      /\ pc \in [Thread -> {"idle", "bind", "upsert", "event", "expire", "trim"}]
      /\ SavesDiffer /\ events = (1..record) \ (Store!Saving \cup failed)
    BY DEF StoreInv, StoreTypes, Store!TimelineComplete
<1>2. \A u \in Thread : IsSaving(u)' <=> (u # t /\ IsSaving(u))
    BY <1>1 DEF IsSaving
<1>3. Store!Saving = {to[u] : u \in {v \in Thread : IsSaving(v)}}
    BY DEF Store!Saving, IsSaving
<1>4. Store!Saving' = {to'[u] : u \in {v \in Thread : IsSaving(v)'}}
    BY DEF Store!Saving, IsSaving
<1>5. Store!Saving' = Store!Saving \ {to[t]}
    BY <1>1, <1>2, <1>3, <1>4 DEF SavesDiffer
<1>6. to[t] \in Store!Saving /\ to[t] \in 1..record /\ to[t] \notin failed
    BY <1>1, <1>3 DEF SavesDiffer
<1>7. Store!TimelineComplete'
    <2>1. Store!TimelineComplete' <=> events' = (1..record) \ (Store!Saving' \cup failed')
        BY DEF Store!TimelineComplete
    <2>2. CASE events' = events \cup {to[t]} /\ failed' = failed
        BY <1>1, <1>5, <1>6, <2>1, <2>2, Zenon
    <2>3. CASE events' = events /\ failed' = failed \cup {to[t]}
        BY <1>1, <1>5, <1>6, <2>1, <2>3, Zenon
    <2> QED
        BY <2>2, <2>3
<1>8. SavesDiffer'
    <2>1. \A u \in Thread : IsSaving(u)' => to'[u] \in 1..record' /\ to'[u] \notin failed'
        BY <1>1, <1>2 DEF SavesDiffer
    <2>2. \A u, v \in Thread : IsSaving(u)' /\ IsSaving(v)' /\ to'[u] = to'[v] => u = v
        BY <1>1, <1>2 DEF SavesDiffer
    <2>3. failed' \subseteq 1..record'
        BY <1>1, <1>6 DEF SavesDiffer
    <2> QED
        BY <2>1, <2>2, <2>3 DEF SavesDiffer
<1> QED
    BY <1>7, <1>8

(* Of a step that neither begins nor ends a save.                          *)
LEMMA SavesStay ==
    ASSUME StoreInv, \A u \in Thread : IsSaving(u)' <=> IsSaving(u),
           record' = record, to' = to, events' = events, failed' = failed
    PROVE  Store!TimelineComplete' /\ SavesDiffer'
<1>1. Store!Saving = {to[u] : u \in {v \in Thread : IsSaving(v)}}
    BY DEF Store!Saving, IsSaving
<1>2. Store!Saving' = {to'[u] : u \in {v \in Thread : IsSaving(v)'}}
    BY DEF Store!Saving, IsSaving
<1>3. Store!Saving' = Store!Saving
    BY <1>1, <1>2
<1>4. Store!TimelineComplete'
    BY <1>3 DEF StoreInv, Store!TimelineComplete
<1>5. SavesDiffer'
    BY DEF StoreInv, SavesDiffer
<1> QED
    BY <1>4, <1>5

(* A step of the database keeps the invariant.                             *)
LEMMA StoreStep == StoreInv /\ Store!Next => StoreInv'
<1> SUFFICES ASSUME StoreInv, Store!Next PROVE StoreInv'
    OBVIOUS
<1> USE StoreBounds
<1>0. /\ StoreTypes /\ SnapshotTypes /\ SavesDiffer /\ BoundInv /\ RowFollows
      /\ Store!TimelineComplete
      /\ pc \in [Thread -> {"idle", "bind", "upsert", "event", "expire", "trim"}]
      /\ to \in [Thread -> Store!Version] /\ bound \in [Thread -> Store!Version]
    BY DEF StoreInv, StoreTypes
<1>1. CASE Store!Tick
    <2>1. /\ UNCHANGED <<record, row, events, snapshots, taken, pc, to, bound, failed>>
          /\ now < MaxStoreTime /\ now' = now + 1
        BY <1>1 DEF Store!Tick
    <2>2. StoreTypes' /\ SnapshotTypes'
        BY <1>0, <2>1 DEF StoreTypes, SnapshotTypes
    <2>3. Store!TimelineComplete' /\ SavesDiffer'
        BY <2>1, SavesStay DEF IsSaving
    <2>4. BoundInv' /\ RowFollows'
        BY <1>0, <2>1 DEF BoundInv, RowFollows
    <2> QED
        BY <2>2, <2>3, <2>4 DEF StoreInv
<1>2. ASSUME NEW t \in Thread, Store!TransitionCommand(t) PROVE StoreInv'
    <2>1. /\ UNCHANGED <<now, row, events, snapshots, taken, bound, failed>>
          /\ pc[t] = "idle" /\ record < MaxVersion /\ record' = record + 1
          /\ to' = [to EXCEPT ![t] = record + 1] /\ pc' = [pc EXCEPT ![t] = "bind"]
        BY <1>2 DEF Store!TransitionCommand, Store!Goto
    <2>2. record \in Nat /\ record + 1 \in Store!Version
        BY <1>0, <2>1 DEF StoreTypes
    <2>3. StoreTypes' /\ SnapshotTypes'
        BY <1>0, <2>1, <2>2 DEF StoreTypes, SnapshotTypes
    <2>4. \A u \in Thread : IsSaving(u)' <=> (u = t \/ IsSaving(u))
        BY <1>0, <2>1 DEF IsSaving
    <2>5. ~IsSaving(t)
        BY <2>1 DEF IsSaving
    <2>6. to'[t] = record + 1 /\ \A u \in Thread : u # t => to'[u] = to[u]
        BY <1>0, <2>1
    <2>7. \A u \in Thread : IsSaving(u) => to[u] \in 1..record /\ to[u] \notin failed
        BY <1>0 DEF SavesDiffer
    <2>8. SavesDiffer'
        <3>1. failed \subseteq 1..record
            BY <1>0 DEF SavesDiffer
        <3>2. \A u \in Thread : IsSaving(u)' => to'[u] \in 1..record' /\ to'[u] \notin failed'
            BY <2>1, <2>2, <2>4, <2>6, <2>7, <3>1
        <3>3. ASSUME NEW u \in Thread, NEW v \in Thread, IsSaving(u)', IsSaving(v)', to'[u] = to'[v]
              PROVE  u = v
            <4>1. CASE u # t /\ v # t
                BY <1>0, <2>4, <2>6, <3>3, <4>1 DEF SavesDiffer
            <4>2. CASE u = t /\ v # t
                BY <2>2, <2>4, <2>6, <2>7, <3>3, <4>2
            <4>3. CASE u # t /\ v = t
                BY <2>2, <2>4, <2>6, <2>7, <3>3, <4>3
            <4> QED
                BY <4>1, <4>2, <4>3
        <3>4. failed' \subseteq 1..record'
            BY <2>1, <2>2, <3>1
        <3> QED
            BY <3>2, <3>3, <3>4 DEF SavesDiffer
    <2>9. Store!TimelineComplete'
        <3>1. Store!Saving = {to[u] : u \in {v \in Thread : IsSaving(v)}}
            BY DEF Store!Saving, IsSaving
        <3>2. Store!Saving' = {to'[u] : u \in {v \in Thread : IsSaving(v)'}}
            BY DEF Store!Saving, IsSaving
        <3>3. Store!Saving' = Store!Saving \cup {record + 1}
            BY <2>4, <2>5, <2>6, <3>1, <3>2
        <3>4. 1..(record + 1) = (1..record) \cup {record + 1} /\ record + 1 \notin 1..record
            BY <2>2
        <3>5. events = (1..record) \ (Store!Saving \cup failed)
            BY <1>0 DEF Store!TimelineComplete
        <3>6. events' = (1..record') \ (Store!Saving' \cup failed')
            BY <2>1, <3>3, <3>4, <3>5, Zenon
        <3> QED
            BY <3>6 DEF Store!TimelineComplete
    <2>10. BoundInv'
        BY <1>0, <2>1, <2>6 DEF BoundInv
    <2>11. RowFollows'
        BY <1>0, <2>1 DEF RowFollows
    <2> QED
        BY <2>3, <2>8, <2>9, <2>10, <2>11 DEF StoreInv
<1>3. ASSUME NEW t \in Thread, Store!BindValues(t) PROVE StoreInv'
    <2>1. /\ UNCHANGED <<now, record, row, events, snapshots, taken, to, failed>>
          /\ pc[t] = "bind" /\ bound' = [bound EXCEPT ![t] = record]
          /\ pc' = [pc EXCEPT ![t] = "upsert"]
        BY <1>3 DEF Store!BindValues, Store!Goto
    <2>2. StoreTypes' /\ SnapshotTypes'
        BY <1>0, <2>1 DEF StoreTypes, SnapshotTypes
    <2>3. Store!TimelineComplete' /\ SavesDiffer'
        <3>1. \A u \in Thread : IsSaving(u)' <=> IsSaving(u)
            BY <1>0, <2>1 DEF IsSaving
        <3> QED
            BY <2>1, <3>1, SavesStay
    <2>4. BoundInv'
        <3>1. to[t] <= record
            BY <1>0, <2>1 DEF SavesDiffer, IsSaving, StoreTypes
        <3> QED
            BY <1>0, <2>1, <3>1 DEF BoundInv
    <2>5. RowFollows'
        BY <1>0, <2>1 DEF RowFollows
    <2> QED
        BY <2>2, <2>3, <2>4, <2>5 DEF StoreInv
<1>4. ASSUME NEW t \in Thread, Store!UpsertCommand(t) PROVE StoreInv'
    <2>1. /\ UNCHANGED <<now, record, events, snapshots, taken, to, bound>> /\ pc[t] = "upsert"
        BY <1>4 DEF Store!UpsertCommand
    <2>2. CASE row' = bound[t] /\ pc' = [pc EXCEPT ![t] = "event"] /\ UNCHANGED failed
        <3>1. StoreTypes' /\ SnapshotTypes'
            BY <1>0, <2>1, <2>2 DEF StoreTypes, SnapshotTypes
        <3>2. Store!TimelineComplete' /\ SavesDiffer'
            <4>1. \A u \in Thread : IsSaving(u)' <=> IsSaving(u)
                BY <1>0, <2>1, <2>2 DEF IsSaving
            <4> QED
                BY <2>1, <2>2, <4>1, SavesStay
        <3>3. BoundInv'
            BY <1>0, <2>1, <2>2 DEF BoundInv
        <3>4. 0 < to'[t] /\ to'[t] <= row'
            BY <1>0, <2>1, <2>2 DEF SavesDiffer, BoundInv, IsSaving, StoreTypes
        <3>5. RowFollows'
            BY <3>4 DEF RowFollows
        <3> QED
            BY <3>1, <3>2, <3>3, <3>5 DEF StoreInv
    <2>3. CASE failed' = failed \cup {to[t]} /\ pc' = [pc EXCEPT ![t] = "idle"] /\ UNCHANGED row
        <3>1. to[t] \in 1..MaxVersion
            BY <1>0, <2>1 DEF SavesDiffer, IsSaving, StoreTypes
        <3>2. StoreTypes' /\ SnapshotTypes'
            BY <1>0, <2>1, <2>3, <3>1 DEF StoreTypes, SnapshotTypes
        <3>3. Store!TimelineComplete' /\ SavesDiffer'
            <4>1. IsSaving(t)
                BY <2>1 DEF IsSaving
            <4> QED
                BY <2>1, <2>3, <4>1, SaveEnds
        <3>4. BoundInv' /\ RowFollows'
            BY <1>0, <2>1, <2>3 DEF BoundInv, RowFollows
        <3> QED
            BY <3>2, <3>3, <3>4 DEF StoreInv
    <2> QED
        BY <1>4, <2>2, <2>3 DEF Store!UpsertCommand, Store!Goto
<1>5. ASSUME NEW t \in Thread, Store!RecordTransition(t) PROVE StoreInv'
    <2>1. /\ UNCHANGED <<now, record, row, snapshots, taken, to, bound>>
          /\ pc[t] = "event" /\ pc' = [pc EXCEPT ![t] = "idle"]
          /\ \/ events' = events \cup {to[t]} /\ failed' = failed
             \/ events' = events /\ failed' = failed \cup {to[t]}
        BY <1>5 DEF Store!RecordTransition, Store!Goto
    <2>2. IsSaving(t) /\ to[t] \in 1..MaxVersion
        BY <1>0, <2>1 DEF SavesDiffer, IsSaving, StoreTypes
    <2>3. StoreTypes' /\ SnapshotTypes'
        BY <1>0, <2>1, <2>2 DEF StoreTypes, SnapshotTypes
    <2>4. Store!TimelineComplete' /\ SavesDiffer'
        BY <2>1, <2>2, SaveEnds
    <2>5. BoundInv' /\ RowFollows'
        BY <1>0, <2>1 DEF BoundInv, RowFollows
    <2> QED
        BY <2>3, <2>4, <2>5 DEF StoreInv
<1>6. ASSUME NEW t \in Thread,
             \/ Store!RecordTelemetrySnapshot(t) \/ Store!ExpireSnapshots(t)
             \/ Store!TrimSnapshots(t) \/ Store!PruneFails(t)
      PROVE  StoreInv'
    <2>1. /\ UNCHANGED <<now, record, row, events, to, bound, failed>>
          /\ \E label \in {"idle", "expire", "trim"} : pc' = [pc EXCEPT ![t] = label]
          /\ pc[t] \in {"idle", "expire", "trim"}
        BY <1>6 DEF Store!RecordTelemetrySnapshot, Store!ExpireSnapshots, Store!TrimSnapshots,
                    Store!PruneFails, Store!Goto
    <2>2. SnapshotTypes'
        <3>1. CASE Store!RecordTelemetrySnapshot(t)
            <4>1. [id |-> taken + 1, at |-> now] \in Store!Snapshot /\ taken + 1 \in 0..MaxTaken
                BY <1>0, <3>1 DEF Store!RecordTelemetrySnapshot, StoreTypes, SnapshotTypes, Store!Snapshot
            <4> QED
                BY <1>0, <3>1, <4>1 DEF Store!RecordTelemetrySnapshot, SnapshotTypes
        <3>2. CASE ~Store!RecordTelemetrySnapshot(t)
            <4>1. snapshots' \subseteq snapshots /\ taken' = taken
                BY <1>6, <3>2 DEF Store!ExpireSnapshots, Store!TrimSnapshots, Store!PruneFails
            <4> QED
                BY <1>0, <4>1 DEF SnapshotTypes
        <3> QED
            BY <3>1, <3>2
    <2>3. StoreTypes'
        BY <1>0, <2>1 DEF StoreTypes
    <2>4. Store!TimelineComplete' /\ SavesDiffer'
        <3>1. \A u \in Thread : IsSaving(u)' <=> IsSaving(u)
            BY <1>0, <2>1 DEF IsSaving
        <3> QED
            BY <2>1, <3>1, SavesStay
    <2>5. BoundInv' /\ RowFollows'
        BY <1>0, <2>1 DEF BoundInv, RowFollows
    <2> QED
        BY <2>2, <2>3, <2>4, <2>5 DEF StoreInv
<1> QED
    BY <1>1, <1>2, <1>3, <1>4, <1>5, <1>6 DEF Store!Next

(* The timeline of a command misses no transition but the ones that are    *)
(* being saved or failed, and its row is never older than every one of the *)
(* last saves: audit_service.py, whatever threads run between two blocks.  *)
THEOREM StoreStaysFaithful == Spec => []StoreIsFaithful
<1> DEFINE Inv == part = "store" => StoreInv
<1>1. Init => Inv
    BY StoreInitially DEF Init
<1>2. Inv /\ [Next]_vars => Inv'
    <2> SUFFICES ASSUME Inv, [Next]_vars, part' = "store" PROVE StoreInv'
        OBVIOUS
    <2>1. CASE Next
        <3>1. part = "store" /\ Store!Next
            BY <2>1 DEF Next
        <3> QED
            BY <3>1, StoreStep
    <2>2. CASE UNCHANGED vars
        <3>1. /\ part = "store" /\ StoreInv /\ UNCHANGED now
              /\ UNCHANGED <<record, row, events, snapshots, taken, pc, to, bound, failed>>
            BY <2>2 DEF vars, store
        <3>2. Store!TimelineComplete' /\ SavesDiffer'
            BY <3>1, SavesStay DEF IsSaving
        <3> QED
            BY <3>1, <3>2 DEF StoreInv, StoreTypes, SnapshotTypes, BoundInv, RowFollows
    <2> QED
        BY <2>1, <2>2
<1>3. Inv => StoreIsFaithful
    BY StorePromise DEF StoreIsFaithful
<1> QED
    BY <1>1, <1>2, <1>3, PTL DEF Spec

-----------------------------------------------------------------------------
(* ---- the execution monitor ---- *)

(* What a goal is at the server; over, with no more to come; answered, if  *)
(* it was accepted.                                                        *)
GoalStates == {"new", "requested", "rejected"} \cup Monitor!Active \cup Monitor!Terminal
Over == Monitor!Terminal \cup {"rejected"}
Answered == Monitor!Active \cup Monitor!Terminal

(* The messages on the bus.                                                *)
Letter ==
    [kind : {"request"}, goal : Goal] \cup
    [kind : {"response"}, ok : BOOLEAN, stamp : 0..MaxTime] \cup
    [kind : {"status"}, list : [Goal -> GoalStates]]

(* What a message m about the goal o says is true.                         *)
IsTrue(m, o, srv, acc) ==
    /\ srv[o] # "new"
    /\ m.kind = "request" => m.goal = o
    /\ m.kind = "response" =>
          /\ m.ok => srv[o] \in Answered /\ acc[o] = m.stamp
          /\ ~m.ok => srv[o] = "rejected"
    /\ m.kind = "status" =>
          /\ m.list[o] \in Answered /\ srv[o] \in Answered
          /\ m.list[o] \in Monitor!Terminal => srv[o] = m.list[o]
          /\ \A h \in Goal : (h < o => m.list[h] \in Over) /\ (h > o => m.list[h] = "new")

(* m about o was sent before n about p.                                    *)
Precedes(m, o, n, p) ==
    /\ o <= p
    /\ o = p => /\ n.kind # "request"
                /\ m.kind # "request" => n.kind = "status"
                /\ m.kind = "status" /\ m.list[o] \in Monitor!Terminal => n.list[p] \in Monitor!Terminal

(* own gives each message on the bus the goal it is about: all are true,   *)
(* and in the order in which they were sent.                               *)
Chain(b, own, srv, acc) ==
    /\ own \in Seq(Goal) /\ Len(own) = Len(b)
    /\ \A i \in 1..Len(b) : IsTrue(b[i], own[i], srv, acc)
    /\ \A i, j \in 1..Len(b) : i < j => Precedes(b[i], own[i], b[j], own[j])

(* The messages with their goals, in no order.                             *)
Mail(b, own) == {<<b[i], own[i]>> : i \in 1..Len(b)}

(* A request or a response; or a status by which g is in S.                *)
Call(x) == x[1].kind # "status"
Says(x, g, S) == x[1].kind = "status" /\ x[2] = g /\ x[1].list[g] \in S

(* A goal is sent when those before it are over, and accepted in the past. *)
InOrder(srv) == \A g, h \in Goal : h < g /\ srv[g] # "new" => srv[h] \in Over
Clock == \A g \in Goal : accepted[g] <= now

(* What the monitor waits for: an answer that is still to come, and none   *)
(* of an earlier goal.                                                     *)
Expects(mail) ==
    pending # Monitor!None =>
       /\ server[pending] # "new"
       /\ server[pending] = "requested" \/ \E x \in mail : x[1].kind = "response" /\ x[2] = pending
       /\ \A x \in mail : Call(x) => x[2] >= pending /\ (x[1].kind = "request" => x[2] > pending)

(* What it follows was accepted, no later than it was told, and its end is *)
(* still to be heard.                                                      *)
Follows(mail) ==
    active # Monitor!Untracked =>
       /\ server[active.goal] \in Answered
       /\ accepted[active.goal] <= active.since /\ active.allowed >= DefaultAllowed
       /\ \A x \in mail : Call(x) => x[2] > active.goal
       /\ server[active.goal] \in Monitor!Terminal => \E x \in mail : Says(x, active.goal, Monitor!Terminal)

(* No goal was sent after g.                                               *)
Latest(g) == \A h \in Goal : h > g => server[h] = "new"

(* The outcome of g was reported, and nothing else is to be heard of it.   *)
Settled(mail, g) ==
    /\ server[g] \in Monitor!Terminal
    /\ IF server[g] = "succeeded" THEN successes[g] = 1 ELSE defeats[g] > 0 /\ failures > 0
    /\ active = Monitor!Untracked /\ pending = Monitor!None
    /\ \A x \in mail : Says(x, g, Monitor!Terminal)

(* Of the last goal that was accepted the monitor is to hear, or it        *)
(* follows it, or has told.                                                *)
Tells(mail) ==
    \A g \in Goal : server[g] \in Answered /\ Latest(g) =>
       (\E x \in mail : Says(x, g, Monitor!Active)) \/ active.goal = g \/ Settled(mail, g)

(* Nothing that is on its way or remembered can be counted for g again.    *)
Closed(mail, g) ==
    /\ active.goal # g /\ pending # g /\ server[g] \in Over
    /\ \A x \in mail : x[2] = g => Says(x, g, Monitor!Terminal)

(* A success is counted once, and C holds a goal of its own for every      *)
(* failure.  The alert may name another goal than the one that failed, so  *)
(* the failures are compared by their number alone.                        *)
Scores(mail, C) ==
    /\ \A g \in Goal : /\ successes[g] <= 1
                       /\ successes[g] = 1 => server[g] = "succeeded" /\ Closed(mail, g)
    /\ C \subseteq Monitor!Failed /\ Cardinality(C) = Monitor!Total(defeats)
    /\ failures <= Monitor!Total(defeats)
    /\ \A g \in C : Closed(mail, g)

(* What is still to come of a goal: its answer after its request, its end  *)
(* after anything else.                                                    *)
Mails(mail) ==
    \A x \in mail :
       /\ x[1].kind = "request" =>
             server[x[2]] = "requested" \/ \E y \in mail : y[1].kind = "response" /\ y[2] = x[2]
       /\ server[x[2]] \in Monitor!Terminal => \E y \in mail : Says(y, x[2], Monitor!Terminal)

(* What the monitor knows with the messages that it is still to hear.      *)
Knows(mail, C) == Mails(mail) /\ Expects(mail) /\ Follows(mail) /\ Tells(mail) /\ Scores(mail, C)

(* A sequence without its i-th element.                                    *)
Without(s, i) == SubSeq(s, 1, i - 1) \o SubSeq(s, i + 1, Len(s))
Skip(i, k) == IF k < i THEN k ELSE k + 1

(* What leaving out an element does.                                       *)
LEMMA RemoveIs ==
    ASSUME NEW S, NEW s \in Seq(S), NEW i \in 1..Len(s)
    PROVE  /\ Without(s, i) \in Seq(S) /\ Len(Without(s, i)) = Len(s) - 1
           /\ \A k \in 1..Len(Without(s, i)) :
                 Skip(i, k) \in 1..Len(s) /\ Skip(i, k) # i /\ Without(s, i)[k] = s[Skip(i, k)]
<1> DEFINE a == SubSeq(s, 1, i - 1)
           n == i + 1
           b == SubSeq(s, n, Len(s))
<1>1. Len(s) \in Nat /\ i \in Nat /\ i >= 1 /\ i <= Len(s)
    OBVIOUS
<1>2. a \in Seq(S) /\ Len(a) = i - 1 /\ \A k \in 1..(i - 1) : a[k] = s[k]
    <2>1. \A k \in 1..(i - 1) : s[k] \in S
        BY <1>1
    <2> QED
        BY <1>1, <2>1
<1>3. /\ b \in Seq(S) /\ Len(b) = Len(s) - i
      /\ \A k \in 1..(Len(s) - i) : b[k] = s[i + k]
    <2>1. \A k \in n..Len(s) : s[k] \in S
        BY <1>1
    <2>2. n \in 1..Len(s) + 1 /\ n \in Nat
        BY <1>1
    <2>3. /\ Len(s) - n + 1 = Len(s) - i
          /\ \A k \in 1..(Len(s) - i) : n + k - 1 = i + k
        BY <1>1
    <2> HIDE DEF n
    <2>4. /\ b \in Seq(S) /\ Len(b) = Len(s) - n + 1
          /\ \A k \in 1..Len(s) - n + 1 : b[k] = s[n + k - 1]
        BY <1>1, <2>1, <2>2
    <2> HIDE DEF b
    <2> QED
        BY <2>3, <2>4
<1>4. Without(s, i) = a \o b
    BY DEF Without
<1> HIDE DEF a, b, n
<1>5. a \o b \in Seq(S) /\ Len(a \o b) = Len(a) + Len(b)
      /\ \A k \in 1..Len(a) + Len(b) : (a \o b)[k] = IF k <= Len(a) THEN a[k] ELSE b[k - Len(a)]
    <2>1. a \in Seq(S) /\ b \in Seq(S)
        BY <1>2, <1>3
    <2>2. a \o b \in Seq(S)
        BY <2>1
    <2>3. Len(a \o b) = Len(a) + Len(b)
        BY <2>1
    <2>4. \A k \in 1..Len(a) + Len(b) : (a \o b)[k] = IF k <= Len(a) THEN a[k] ELSE b[k - Len(a)]
        BY <2>1
    <2> QED
        BY <2>2, <2>3, <2>4
<1>6. Len(a) + Len(b) = Len(s) - 1
    BY <1>1, <1>2, <1>3
<1>7. ASSUME NEW k \in 1..(Len(s) - 1)
      PROVE  Skip(i, k) \in 1..Len(s) /\ Skip(i, k) # i /\ (a \o b)[k] = s[Skip(i, k)]
    <2>1. CASE k < i
        <3>1. Skip(i, k) = k /\ k \in 1..(i - 1) /\ k <= Len(a)
            BY <1>1, <1>2, <2>1 DEF Skip
        <3>2. (a \o b)[k] = a[k]
            BY <1>5, <1>6, <3>1
        <3> QED
            BY <1>1, <1>2, <3>1, <3>2
    <2>2. CASE ~(k < i)
        <3>1. /\ Skip(i, k) = k + 1 /\ k - (i - 1) \in 1..(Len(s) - i)
              /\ ~(k <= i - 1) /\ i + (k - (i - 1)) = k + 1
            BY <1>1, <2>2 DEF Skip
        <3>2. (a \o b)[k] = b[k - (i - 1)]
            BY <1>2, <1>5, <1>6, <3>1
        <3>3. b[k - (i - 1)] = s[k + 1]
            BY <1>3, <3>1
        <3> QED
            BY <1>1, <2>2, <3>1, <3>2, <3>3
    <2> QED
        BY <2>1, <2>2
<1> QED
    BY <1>4, <1>5, <1>6, <1>7

(* What Append does.                                                       *)
LEMMA AppendIs ==
    ASSUME NEW S, NEW s \in Seq(S), NEW e \in S
    PROVE  /\ Append(s, e) \in Seq(S) /\ Len(Append(s, e)) = Len(s) + 1 /\ Len(s) \in Nat
           /\ Append(s, e)[Len(s) + 1] = e
           /\ \A k \in 1..Len(s) : Append(s, e)[k] = s[k]
    OBVIOUS

(* A true message that every other one precedes can be sent.               *)
LEMMA ChainGrows ==
    ASSUME NEW b \in Seq(Letter), NEW own, NEW srv, NEW acc, Chain(b, own, srv, acc),
           NEW m \in Letter, NEW g \in Goal, IsTrue(m, g, srv, acc),
           \A x \in Mail(b, own) : Precedes(x[1], x[2], m, g)
    PROVE  \E new : /\ Chain(Append(b, m), new, srv, acc)
                    /\ Mail(Append(b, m), new) = Mail(b, own) \cup {<<m, g>>}
<1> DEFINE c == Append(b, m)
           new == Append(own, g)
           n == Len(b)
<1>1. /\ own \in Seq(Goal) /\ Len(own) = n /\ n \in Nat
      /\ \A i \in 1..n : IsTrue(b[i], own[i], srv, acc)
      /\ \A i, j \in 1..n : i < j => Precedes(b[i], own[i], b[j], own[j])
    BY DEF Chain
<1>2. /\ c \in Seq(Letter) /\ Len(c) = n + 1 /\ c[n + 1] = m
      /\ \A k \in 1..n : c[k] = b[k]
    BY AppendIs
<1>3. /\ new \in Seq(Goal) /\ Len(new) = n + 1 /\ new[n + 1] = g
      /\ \A k \in 1..n : new[k] = own[k]
    BY <1>1, AppendIs
<1>4. \A k \in 1..n : Precedes(b[k], own[k], m, g)
    <2> SUFFICES ASSUME NEW k \in 1..n PROVE Precedes(b[k], own[k], m, g)
        OBVIOUS
    <2>1. <<b[k], own[k]>> \in Mail(b, own)
        BY DEF Mail
    <2> QED
        BY <2>1
<1> HIDE DEF c, new, n
<1>5. \A k \in 1..(n + 1) : k = n + 1 \/ k \in 1..n
    BY <1>1
<1>6. n + 1 \in 1..(n + 1) /\ \A k \in 1..n : k \in 1..(n + 1) /\ ~(n + 1 < k)
    BY <1>1
<1>7. \A i \in 1..Len(c) : IsTrue(c[i], new[i], srv, acc)
    BY <1>1, <1>2, <1>3, <1>5
<1>8. ASSUME NEW i \in 1..Len(c), NEW j \in 1..Len(c), i < j
      PROVE  Precedes(c[i], new[i], c[j], new[j])
    <2>1. i \in 1..n
        BY <1>1, <1>2, <1>8
    <2>2. CASE j = n + 1
        BY <1>2, <1>3, <1>4, <2>1, <2>2
    <2>3. CASE j \in 1..n
        BY <1>1, <1>2, <1>3, <1>8, <2>1, <2>3
    <2> QED
        BY <1>2, <1>5, <2>2, <2>3
<1>9. Chain(c, new, srv, acc)
    BY <1>2, <1>3, <1>7, <1>8 DEF Chain
<1>10. Mail(c, new) = Mail(b, own) \cup {<<m, g>>}
    <2>1. ASSUME NEW x \in Mail(c, new) PROVE x \in Mail(b, own) \cup {<<m, g>>}
        <3>1. PICK k \in 1..(n + 1) : x = <<c[k], new[k]>>
            BY <1>2 DEF Mail
        <3>2. CASE k = n + 1
            BY <1>2, <1>3, <3>1, <3>2
        <3>3. CASE k \in 1..n
            <4>1. x = <<b[k], own[k]>>
                BY <1>2, <1>3, <3>1, <3>3
            <4> QED
                BY <3>3, <4>1 DEF Mail, n
        <3> QED
            BY <1>5, <3>2, <3>3
    <2>2. ASSUME NEW x \in Mail(b, own) PROVE x \in Mail(c, new)
        <3>1. PICK k \in 1..n : x = <<b[k], own[k]>>
            BY DEF Mail, n
        <3>2. x = <<c[k], new[k]>> /\ k \in 1..Len(c)
            BY <1>2, <1>3, <1>6, <3>1
        <3> QED
            BY <3>2 DEF Mail
    <2>3. <<m, g>> \in Mail(c, new)
        BY <1>2, <1>3, <1>6 DEF Mail
    <2> QED
        BY <2>1, <2>2, <2>3
<1> QED
    BY <1>9, <1>10 DEF c

(* A message can be taken off the bus: what it preceded comes after it,    *)
(* and only the ones before it were passed over.                           *)
LEMMA ChainShrinks ==
    ASSUME NEW b \in Seq(Letter), NEW own, NEW srv, NEW acc, Chain(b, own, srv, acc),
           NEW i \in 1..Len(b)
    PROVE  \E new :
              /\ Chain(Without(b, i), new, srv, acc)
              /\ Mail(Without(b, i), new) \subseteq Mail(b, own)
              /\ \A x \in Mail(b, own) :
                    x # <<b[i], own[i]>> => x \in Mail(Without(b, i), new)
              /\ \A x \in Mail(Without(b, i), new) :
                    \/ Precedes(b[i], own[i], x[1], x[2])
                    \/ \E k \in 1..(i - 1) : x = <<b[k], own[k]>>
<1> DEFINE c == Without(b, i)
           new == Without(own, i)
           n == Len(b)
<1>1. /\ own \in Seq(Goal) /\ Len(own) = n /\ n \in Nat /\ i \in 1..n
      /\ \A k \in 1..n : IsTrue(b[k], own[k], srv, acc)
      /\ \A j, k \in 1..n : j < k => Precedes(b[j], own[j], b[k], own[k])
    BY DEF Chain
<1>2. c \in Seq(Letter) /\ Len(c) = n - 1
      /\ \A k \in 1..(n - 1) : Skip(i, k) \in 1..n /\ Skip(i, k) # i /\ c[k] = b[Skip(i, k)]
    <2>1. c \in Seq(Letter) /\ Len(c) = n - 1
        BY RemoveIs
    <2>2. \A k \in 1..Len(c) : Skip(i, k) \in 1..n /\ Skip(i, k) # i /\ c[k] = b[Skip(i, k)]
        BY RemoveIs
    <2> QED
        BY <2>1, <2>2
<1>3. /\ new \in Seq(Goal) /\ Len(new) = n - 1
      /\ \A k \in 1..(n - 1) : new[k] = own[Skip(i, k)]
    BY <1>1, RemoveIs
<1> HIDE DEF c, new, n
<1>4. \A j, k \in 1..(n - 1) : j < k => Skip(i, j) < Skip(i, k)
    BY <1>1 DEF Skip
<1>5. \A k \in 1..Len(c) : IsTrue(c[k], new[k], srv, acc)
    BY <1>1, <1>2, <1>3
<1>6. \A j, k \in 1..Len(c) : j < k => Precedes(c[j], new[j], c[k], new[k])
    <2> SUFFICES ASSUME NEW j \in 1..(n - 1), NEW k \in 1..(n - 1), j < k
                 PROVE  Precedes(c[j], new[j], c[k], new[k])
        BY <1>2
    <2>1. Skip(i, j) < Skip(i, k) /\ Skip(i, j) \in 1..n /\ Skip(i, k) \in 1..n
        BY <1>2, <1>4
    <2>2. Precedes(b[Skip(i, j)], own[Skip(i, j)], b[Skip(i, k)], own[Skip(i, k)])
        BY <1>1, <2>1
    <2> QED
        BY <1>2, <1>3, <2>2
<1>7. Chain(c, new, srv, acc)
    BY <1>2, <1>3, <1>5, <1>6 DEF Chain
<1>8. ASSUME NEW x \in Mail(c, new)
      PROVE  \E k \in 1..n : k # i /\ x = <<b[k], own[k]>>
    <2>1. PICK k \in 1..(n - 1) : x = <<c[k], new[k]>>
        BY <1>2 DEF Mail
    <2> QED
        BY <1>2, <1>3, <2>1
<1>9. Mail(c, new) \subseteq Mail(b, own)
    BY <1>8 DEF Mail, n
<1>10. ASSUME NEW x \in Mail(b, own), x # <<b[i], own[i]>> PROVE x \in Mail(c, new)
    <2>1. PICK k \in 1..n : x = <<b[k], own[k]>>
        BY DEF Mail, n
    <2>2. k # i
        BY <1>10, <2>1
    <2> DEFINE q == IF k < i THEN k ELSE k - 1
    <2>3. q \in 1..(n - 1) /\ Skip(i, q) = k
        BY <1>1, <2>2 DEF Skip
    <2> HIDE DEF q
    <2>4. x = <<c[q], new[q]>> /\ q \in 1..Len(c)
        BY <1>2, <1>3, <2>1, <2>3
    <2> QED
        BY <2>4 DEF Mail
<1>11. ASSUME NEW x \in Mail(c, new)
       PROVE  \/ Precedes(b[i], own[i], x[1], x[2])
              \/ \E k \in 1..(i - 1) : x = <<b[k], own[k]>>
    <2>1. PICK k \in 1..n : k # i /\ x = <<b[k], own[k]>>
        BY <1>8
    <2>2. CASE k < i
        <3>1. k \in 1..(i - 1)
            BY <1>1, <2>2
        <3> QED
            BY <2>1, <3>1
    <2>3. CASE ~(k < i)
        <3>1. i < k
            BY <1>1, <2>1, <2>3
        <3>2. Precedes(b[i], own[i], b[k], own[k])
            BY <1>1, <3>1
        <3>3. x[1] = b[k] /\ x[2] = own[k]
            BY <2>1
        <3> QED
            BY <3>2, <3>3
    <2> QED
        BY <2>2, <2>3
<1> QED
    BY <1>7, <1>9, <1>10, <1>11 DEF c

(* Induction over the naturals, with a set for what is shown.              *)
LEMMA Induction ==
    ASSUME NEW Good, 0 \in Good, \A n \in Nat : n \in Good => n + 1 \in Good
    PROVE  Nat \subseteq Good
<1> DEFINE Bad == {n \in Nat : n \notin Good}
           Segments == {1 .. n : n \in Bad}
<1>1. SUFFICES ASSUME Segments # {} PROVE FALSE
    OBVIOUS
<1>2. \A n \in Nat : IsFiniteSet(1 .. n)
    BY FS_Interval
<1>3. Segments \subseteq FiniteSubsetsOf(Nat)
    <2> SUFFICES ASSUME NEW n \in Bad PROVE 1 .. n \in FiniteSubsetsOf(Nat)
        OBVIOUS
    <2>1. 1 .. n \subseteq Nat
        OBVIOUS
    <2> QED
        BY <1>2, <2>1 DEF FiniteSubsetsOf
<1>4. PICK x \in Segments : \A y \in Segments : <<y, x>> \notin StrictSubsetOrdering(Nat)
    <2> HIDE DEF Segments
    <2> QED
        BY <1>1, <1>3, FS_StrictSubsetOrderingWellFounded, WFMin
<1>5. PICK n \in Bad : x = 1 .. n
    OBVIOUS
<1>6. n - 1 \in Bad
    OBVIOUS
<1>7. 1 .. (n - 1) \in Segments
    BY <1>6
<1>8. <<1 .. (n - 1), x>> \in StrictSubsetOrdering(Nat)
    <2>1. n >= 1
        OBVIOUS
    <2>2. /\ 1 .. (n - 1) \subseteq 1 .. n /\ n \in 1 .. n /\ n \notin 1 .. (n - 1)
          /\ 1 .. n \subseteq Nat
        BY <2>1
    <2>3. <<1 .. (n - 1), x>> \in (SUBSET Nat) \X (SUBSET Nat)
        BY <2>2, <1>5
    <2> QED
        BY <2>2, <2>3, <1>5, Zenon DEF StrictSubsetOrdering
<1> QED
    BY <1>4, <1>7, <1>8

(* f is the function that starts with base and goes on with G.             *)
Recurs(f, n, A, base, G) ==
    f \in [0 .. n -> A] /\ f = [k \in 0 .. n |-> IF k = 0 THEN base ELSE G[<<k, f[k - 1]>>]]

(* A recursive function on 0 .. n exists, whatever its step is.            *)
LEMMA Recursion ==
    ASSUME NEW A, NEW base \in A, NEW n \in Nat, NEW G \in [(1 .. n) \X A -> A]
    PROVE  \E f : Recurs(f, n, A, base, G)
<1> DEFINE Fine(m, f) == f[0] = base /\ \A k \in 1 .. m : f[k] = G[<<k, f[k - 1]>>]
           Good == {m \in Nat : m <= n => \E f \in [0 .. m -> A] : Fine(m, f)}
<1>1. 0 \in Good
    <2> DEFINE f == [k \in 0 .. 0 |-> base]
    <2>1. f \in [0 .. 0 -> A] /\ Fine(0, f)
        OBVIOUS
    <2> QED
        BY <2>1
<1>2. ASSUME NEW m \in Nat, m \in Good PROVE m + 1 \in Good
    <2> SUFFICES ASSUME m + 1 <= n PROVE \E f \in [0 .. m + 1 -> A] : Fine(m + 1, f)
        OBVIOUS
    <2>1. PICK f \in [0 .. m -> A] : Fine(m, f)
        BY <1>2
    <2> DEFINE g == [k \in 0 .. m + 1 |-> IF k = m + 1 THEN G[<<m + 1, f[m]>>] ELSE f[k]]
    <2>2. G[<<m + 1, f[m]>>] \in A
        <3>1. m + 1 \in 1 .. n /\ f[m] \in A
            OBVIOUS
        <3> QED
            BY <3>1
    <2>3. g \in [0 .. m + 1 -> A]
        BY <2>2
    <2>4. g[0] = base
        BY <2>1
    <2>5. ASSUME NEW k \in 1 .. m + 1 PROVE g[k] = G[<<k, g[k - 1]>>]
        <3>1. CASE k = m + 1
            <4>1. k - 1 = m /\ g[k - 1] = f[m] /\ g[k] = G[<<m + 1, f[m]>>]
                BY <3>1
            <4> QED
                BY <3>1, <4>1
        <3>2. CASE k # m + 1
            <4>1. k \in 1 .. m /\ g[k] = f[k] /\ g[k - 1] = f[k - 1]
                BY <3>2
            <4> QED
                BY <2>1, <4>1
        <3> QED
            BY <3>1, <3>2
    <2> HIDE DEF g
    <2> QED
        BY <2>3, <2>4, <2>5
<1>3. n \in Good
    <2> HIDE DEF Good
    <2> QED
        BY <1>1, <1>2, Induction
<1>4. PICK f \in [0 .. n -> A] : Fine(n, f)
    BY <1>3
<1>5. f = [k \in 0 .. n |-> IF k = 0 THEN base ELSE G[<<k, f[k - 1]>>]]
    <2> DEFINE h == [k \in 0 .. n |-> IF k = 0 THEN base ELSE G[<<k, f[k - 1]>>]]
    <2>1. \A k \in 0 .. n : f[k] = h[k]
        BY <1>4
    <2> QED
        BY <2>1
<1> QED
    BY <1>5 DEF Recurs

(* The module of the monitor counts as this one does.                      *)
LEMMA CardinalityIs == \A S : Monitor!Cardinality(S) = Cardinality(S)
    BY DEF Monitor!Cardinality, Cardinality

(* The bounds of the monitor are natural numbers, its goals are numbered.  *)
LEMMA MonitorBounds ==
    /\ Monitor!Cardinality(Goal) \in Nat /\ Goal = 1..Monitor!Cardinality(Goal)
    /\ DefaultAllowed \in Nat /\ MaxTime \in Nat /\ MaxBus \in Nat
    /\ Allowed \in [Goal -> Nat] /\ \A g \in Goal : Allowed[g] >= DefaultAllowed
    BY ObserversAssumption DEF Monitor!MonitorAssumption

(* r is the run of the sum in Total.                                       *)
Sums(r, f) ==
    /\ r \in [0..Monitor!Cardinality(Goal) -> Nat] /\ r[0] = 0
    /\ \A k \in 1..Monitor!Cardinality(Goal) : r[k] = r[k - 1] + f[k]
    /\ Monitor!Total(f) = r[Monitor!Cardinality(Goal)]

(* Total has such a run, however many goals there are.                     *)
LEMMA SumRuns ==
    ASSUME NEW f \in [Goal -> Nat]
    PROVE  \E r : Sums(r, f)
<1> DEFINE n == Monitor!Cardinality(Goal)
           G == [p \in (1..n) \X Nat |-> p[2] + f[p[1]]]
           Rec(x) == x = [k \in 0..n |-> IF k = 0 THEN 0 ELSE x[k - 1] + f[k]]
           r == CHOOSE x : Rec(x)
<1>1. n \in Nat /\ Goal = 1..n
    BY MonitorBounds
<1> HIDE DEF n
<1>2. G \in [(1..n) \X Nat -> Nat]
    BY <1>1
<1>3. \E x : Recurs(x, n, Nat, 0, G)
    <2> HIDE DEF G
    <2> QED
        BY <1>1, <1>2, Recursion
<1>4. PICK x \in [0..n -> Nat] : x = [k \in 0..n |-> IF k = 0 THEN 0 ELSE G[<<k, x[k - 1]>>]]
    <2> HIDE DEF G
    <2> QED
        BY <1>3 DEF Recurs
<1>5. ASSUME NEW k \in 1..n PROVE G[<<k, x[k - 1]>>] = x[k - 1] + f[k]
    <2>1. k - 1 \in 0..n /\ x[k - 1] \in Nat
        BY <1>1
    <2> QED
        BY <2>1
<1>6. Rec(x)
    <2>1. [k \in 0..n |-> IF k = 0 THEN 0 ELSE G[<<k, x[k - 1]>>]]
            = [k \in 0..n |-> IF k = 0 THEN 0 ELSE x[k - 1] + f[k]]
        <3>1. \A k \in 0..n : k # 0 => k \in 1..n
            BY <1>1
        <3> HIDE DEF G
        <3> QED
            BY <1>5, <3>1
    <2> QED
        BY <1>4, <2>1
<1>7. Rec(r)
    <2> HIDE DEF Rec
    <2> QED
        BY <1>6
<1>8. Monitor!Total(f) = r[n]
    BY DEF Monitor!Total, n
<1>9. r[0] = 0 /\ \A k \in 1..n : r[k] = r[k - 1] + f[k]
    <2> HIDE DEF r
    <2>1. 0 \in 0..n
        BY <1>1
    <2>2. r[0] = 0
        BY <1>7, <2>1
    <2>3. ASSUME NEW k \in 1..n PROVE r[k] = r[k - 1] + f[k]
        <3>1. k \in 0..n /\ k # 0
            BY <1>1
        <3> QED
            BY <1>7, <3>1
    <2> QED
        BY <2>2, <2>3
<1>10. r \in [0..n -> Nat]
    <2> DEFINE Good == {k \in Nat : k <= n => r[k] \in Nat}
    <2>1. 0 \in Good
        BY <1>9
    <2>2. ASSUME NEW k \in Nat, k \in Good PROVE k + 1 \in Good
        <3> HIDE DEF r
        <3> SUFFICES ASSUME k + 1 <= n PROVE r[k + 1] \in Nat
            OBVIOUS
        <3>1. k + 1 \in 1..n /\ (k + 1) - 1 = k /\ r[k] \in Nat
            BY <1>1, <2>2
        <3>2. f[k + 1] \in Nat
            BY <1>1, <3>1
        <3> QED
            BY <1>9, <3>1, <3>2
    <2>3. Nat \subseteq Good
        <3> HIDE DEF Good
        <3> QED
            BY <2>1, <2>2, Induction
    <2>4. \A k \in 0..n : r[k] \in Nat
        <3> HIDE DEF r
        <3> QED
            BY <1>1, <2>3
    <2>5. \E y : r = [k \in 0..n |-> y[k]]
        <3>1. r = [k \in 0..n |-> [j \in 0..n |-> IF j = 0 THEN 0 ELSE r[j - 1] + f[j]][k]]
            <4> HIDE DEF r
            <4> QED
                BY <1>7
        <3> QED
            BY <3>1
    <2> HIDE DEF r
    <2> QED
        BY <2>4, <2>5
<1> HIDE DEF r
<1> QED
    BY <1>8, <1>9, <1>10 DEF Sums, n

(* A total is a natural, and zero for nothing.                             *)
LEMMA TotalIs ==
    ASSUME NEW f \in [Goal -> Nat]
    PROVE  Monitor!Total(f) \in Nat /\ ((\A g \in Goal : f[g] = 0) => Monitor!Total(f) = 0)
<1> DEFINE n == Monitor!Cardinality(Goal)
<1>1. PICK r : Sums(r, f)
    BY SumRuns
<1>2. n \in Nat /\ Goal = 1..n
    BY MonitorBounds
<1>3. /\ r \in [0..n -> Nat] /\ r[0] = 0 /\ \A k \in 1..n : r[k] = r[k - 1] + f[k]
      /\ Monitor!Total(f) = r[n]
    BY <1>1 DEF Sums
<1> HIDE DEF n
<1>4. ASSUME \A g \in Goal : f[g] = 0 PROVE r[n] = 0
    <2> DEFINE Good == {k \in Nat : k <= n => r[k] = 0}
    <2>1. 0 \in Good
        BY <1>3
    <2>2. ASSUME NEW k \in Nat, k \in Good PROVE k + 1 \in Good
        <3> SUFFICES ASSUME k + 1 <= n PROVE r[k + 1] = 0
            OBVIOUS
        <3>1. k + 1 \in 1..n /\ (k + 1) - 1 = k /\ r[k] = 0
            BY <1>2, <2>2
        <3> QED
            BY <1>2, <1>3, <1>4, <3>1
    <2> HIDE DEF Good
    <2>3. n \in Good
        BY <1>2, <2>1, <2>2, Induction
    <2> QED
        BY <1>2, <2>3 DEF Good
<1> QED
    BY <1>2, <1>3, <1>4

(* One more for one goal is one more in total.                             *)
LEMMA TotalGrows ==
    ASSUME NEW f \in [Goal -> Nat], NEW g \in Goal, NEW h, h = [f EXCEPT ![g] = @ + 1]
    PROVE  h \in [Goal -> Nat] /\ Monitor!Total(h) = Monitor!Total(f) + 1
<1> DEFINE n == Monitor!Cardinality(Goal)
<1>0. h \in [Goal -> Nat] /\ h[g] = f[g] + 1 /\ \A k \in Goal : k # g => h[k] = f[k]
    OBVIOUS
<1>1. PICK r : Sums(r, f)
    BY SumRuns
<1>2. PICK q : Sums(q, h)
    BY <1>0, SumRuns
<1>3. n \in Nat /\ Goal = 1..n
    BY MonitorBounds
<1>4. /\ r \in [0..n -> Nat] /\ r[0] = 0 /\ \A k \in 1..n : r[k] = r[k - 1] + f[k]
      /\ Monitor!Total(f) = r[n]
    BY <1>1 DEF Sums
<1>5. /\ q \in [0..n -> Nat] /\ q[0] = 0 /\ \A k \in 1..n : q[k] = q[k - 1] + h[k]
      /\ Monitor!Total(h) = q[n]
    BY <1>2 DEF Sums
<1> HIDE DEF n
<1> DEFINE Good == {k \in Nat : k <= n => q[k] = r[k] + (IF k < g THEN 0 ELSE 1)}
<1>6. 0 \in Good
    BY <1>3, <1>4, <1>5
<1>7. ASSUME NEW k \in Nat, k \in Good PROVE k + 1 \in Good
    <2> SUFFICES ASSUME k + 1 <= n PROVE q[k + 1] = r[k + 1] + (IF k + 1 < g THEN 0 ELSE 1)
        OBVIOUS
    <2>1. /\ k + 1 \in 1..n /\ (k + 1) - 1 = k /\ k \in 0..n
          /\ q[k] = r[k] + (IF k < g THEN 0 ELSE 1)
        BY <1>3, <1>7
    <2>2. q[k + 1] = q[k] + h[k + 1] /\ r[k + 1] = r[k] + f[k + 1]
        BY <1>4, <1>5, <2>1
    <2>3. /\ q[k] \in Nat /\ r[k] \in Nat /\ h[k + 1] \in Nat /\ f[k + 1] \in Nat
          /\ g \in Nat
        <3>1. q[k] \in Nat /\ r[k] \in Nat
            BY <1>4, <1>5, <2>1
        <3>2. k + 1 \in Goal
            BY <1>3, <2>1
        <3>3. h[k + 1] \in Nat /\ f[k + 1] \in Nat
            BY <1>0, <3>2
        <3>4. g \in Nat
            BY <1>3
        <3> QED
            BY <3>1, <3>3, <3>4
    <2>4. h[k + 1] = IF k + 1 = g THEN f[k + 1] + 1 ELSE f[k + 1]
        BY <1>0, <1>3, <2>1
    <2> QED
        BY <2>1, <2>2, <2>3, <2>4
<1>8. n \in Good
    <2> HIDE DEF Good
    <2> QED
        BY <1>3, <1>6, <1>7, Induction
<1>9. q[n] = r[n] + 1
    BY <1>3, <1>8
<1> QED
    BY <1>0, <1>4, <1>5, <1>9

(* A status list that was sent when o went on: those before are over,      *)
(* those after are new.                                                    *)
ListOf(list, o) ==
    /\ list \in [Goal -> GoalStates] /\ o \in Goal /\ list[o] \in Answered
    /\ \A h \in Goal : (h < o => list[h] \in Over) /\ (h > o => list[h] = "new")

(* Such a list is read by a monitor that does not wait for o, and follows  *)
(* nothing that was before it.                                             *)
Heeds(list, o) ==
    /\ pending = o => list[o] \notin Monitor!Active
    /\ active # Monitor!Untracked => active.goal \in Goal /\ active.goal >= o

(* What the list then comes to: o is tracked, or found to have ended, or   *)
(* nothing is made of it.                                                  *)
Sees(list, o) ==
    IF active = Monitor!Untracked /\ list[o] \in Monitor!Active
    THEN [pending |-> pending, active |-> Monitor!Track(o, now, DefaultAllowed), done |-> FALSE]
    ELSE [pending |-> pending, active |-> active,
          done |-> active.goal = o /\ list[o] \in Monitor!Terminal]

(* What the monitor holds when it begins to read.                          *)
Begin == [pending |-> pending, active |-> active, done |-> FALSE]

(* Only the entry of o matters.                                            *)
LEMMA LookIs ==
    ASSUME NEW list, NEW o, ListOf(list, o), Heeds(list, o), NEW g \in Goal
    PROVE  /\ g < o => Monitor!Look(Begin, g, list) = Begin
           /\ g = o => Monitor!Look(Begin, g, list) = Sees(list, o)
           /\ g > o => Monitor!Look(Sees(list, o), g, list) = Sees(list, o)
<1>1. /\ list[o] \in Answered /\ o \in Goal /\ Goal = 1..Monitor!Cardinality(Goal)
      /\ Monitor!Cardinality(Goal) \in Nat
      /\ g < o => list[g] \in Over
      /\ g > o => list[g] = "new"
      /\ active # Monitor!Untracked => active.goal >= o
      /\ pending = o => list[o] \notin Monitor!Active
    BY MonitorBounds DEF ListOf, Heeds
<1>2. Monitor!Untracked.goal = 0 /\ (active = Monitor!Untracked => active.goal = 0)
    BY DEF Monitor!Untracked, Monitor!None
<1>3. \A s \in Monitor!Active : s \notin Monitor!Terminal /\ s # "new" /\ s # "rejected"
    BY DEF Monitor!Active, Monitor!Terminal
<1>4. ASSUME g < o PROVE Monitor!Look(Begin, g, list) = Begin
    <2>1. list[g] \notin Monitor!Active
        BY <1>1, <1>3, <1>4 DEF Over
    <2>2. active.goal # g
        BY <1>1, <1>2, <1>4
    <2> QED
        BY <2>1, <2>2 DEF Monitor!Look, Begin
<1>5. ASSUME g = o PROVE Monitor!Look(Begin, g, list) = Sees(list, o)
    <2>1. CASE active = Monitor!Untracked /\ list[o] \in Monitor!Active
        <3>1. list[o] \notin Monitor!Terminal /\ pending # o
            BY <1>1, <1>3, <2>1
        <3> DEFINE t == Monitor!Track(o, now, DefaultAllowed)
        <3> HIDE DEF t
        <3>2. Sees(list, o) = [pending |-> pending, active |-> t, done |-> FALSE]
            BY <2>1 DEF Sees, t
        <3>3. Monitor!Look(Begin, g, list) = [[Begin EXCEPT !.active = t] EXCEPT !.done = FALSE]
            BY <1>5, <2>1, <3>1 DEF Monitor!Look, Begin, t
        <3> QED
            BY <3>2, <3>3 DEF Begin
    <2>2. CASE ~(active = Monitor!Untracked /\ list[o] \in Monitor!Active)
        <3>1. Sees(list, o) = [pending |-> pending, active |-> active,
                               done |-> active.goal = o /\ list[o] \in Monitor!Terminal]
            BY <2>2 DEF Sees
        <3>2. Monitor!Look(Begin, g, list) = [Begin EXCEPT !.done = active.goal = o /\ list[o] \in Monitor!Terminal]
            BY <1>1, <1>5, <2>2 DEF Monitor!Look, Begin
        <3> QED
            BY <3>1, <3>2 DEF Begin
    <2> QED
        BY <2>1, <2>2
<1>6. ASSUME g > o PROVE Monitor!Look(Sees(list, o), g, list) = Sees(list, o)
    <2>1. list[g] \notin Monitor!Active /\ list[g] \notin Monitor!Terminal
        BY <1>1, <1>6 DEF Monitor!Active, Monitor!Terminal
    <2> DEFINE s == Sees(list, o)
    <2>2. /\ s.done \in BOOLEAN
          /\ s = [pending |-> s.pending, active |-> s.active, done |-> s.done]
        BY DEF Sees
    <2> HIDE DEF s
    <2>3. CASE s.done
        BY <2>3 DEF Monitor!Look, s
    <2>4. CASE ~s.done
        <3>1. Monitor!Look(s, g, list) = [s EXCEPT !.done = FALSE]
            BY <2>1, <2>4 DEF Monitor!Look
        <3>2. [s EXCEPT !.done = FALSE] = s
            BY <2>2, <2>4
        <3> QED
            BY <3>1, <3>2 DEF s
    <2> QED
        BY <2>3, <2>4
<1> QED
    BY <1>4, <1>5, <1>6

(* What reading a whole list does, for any number of goals.                *)
LEMMA ScanIs ==
    ASSUME NEW list, NEW o, ListOf(list, o), Heeds(list, o)
    PROVE  Monitor!Scan(list) = Sees(list, o)
<1> DEFINE n == Monitor!Cardinality(Goal)
           Rec(x) == x = [g \in 0..n |-> IF g = 0 THEN Begin ELSE Monitor!Look(x[g - 1], g, list)]
           f == [g \in 0..n |-> IF g < o THEN Begin ELSE Sees(list, o)]
           r == CHOOSE x : Rec(x)
<1>1. n \in Nat /\ Goal = 1..n /\ o \in 1..n
    BY MonitorBounds DEF ListOf
<1> HIDE DEF n
<1>2. ASSUME NEW g \in 1..n PROVE f[g] = Monitor!Look(f[g - 1], g, list)
    <2>1. /\ g < o => Monitor!Look(Begin, g, list) = Begin
          /\ g = o => Monitor!Look(Begin, g, list) = Sees(list, o)
          /\ g > o => Monitor!Look(Sees(list, o), g, list) = Sees(list, o)
        BY <1>1, LookIs
    <2>2. /\ f[g] = (IF g < o THEN Begin ELSE Sees(list, o))
          /\ f[g - 1] = (IF g - 1 < o THEN Begin ELSE Sees(list, o))
        BY <1>1
    <2> HIDE DEF f
    <2> QED
        BY <1>1, <2>1, <2>2
<1>3. Rec(f)
    <2>1. f[0] = Begin
        BY <1>1
    <2>2. \A g \in 0..n : f[g] = IF g = 0 THEN Begin ELSE Monitor!Look(f[g - 1], g, list)
        <3>1. \A g \in 0..n : g # 0 => g \in 1..n
            BY <1>1
        <3> HIDE DEF f
        <3> QED
            BY <1>2, <2>1, <3>1
    <2>3. \E y : f = [g \in 0..n |-> y[g]]
        <3>1. f = [g \in 0..n |-> f[g]]
            OBVIOUS
        <3> HIDE DEF f
        <3> QED
            BY <3>1
    <2> HIDE DEF f
    <2> QED
        BY <2>2, <2>3
<1>4. Rec(r)
    <2> HIDE DEF Rec, f
    <2> QED
        BY <1>3
<1>5. Monitor!Scan(list) = r[n]
    BY DEF Monitor!Scan, Begin, n
<1> HIDE DEF r, f
<1> DEFINE Good == {k \in Nat : k <= n => r[k] = f[k]}
<1>6. 0 \in Good
    BY <1>1, <1>3, <1>4
<1>7. ASSUME NEW k \in Nat, k \in Good PROVE k + 1 \in Good
    <2> SUFFICES ASSUME k + 1 <= n PROVE r[k + 1] = f[k + 1]
        OBVIOUS
    <2>1. /\ k + 1 \in 0..n /\ k + 1 # 0 /\ k + 1 \in 1..n /\ (k + 1) - 1 = k
          /\ r[k] = f[k]
        BY <1>1, <1>7
    <2>2. r[k + 1] = Monitor!Look(r[k], k + 1, list)
        BY <1>4, <2>1
    <2>3. f[k + 1] = Monitor!Look(f[k], k + 1, list)
        BY <1>2, <2>1
    <2> QED
        BY <2>1, <2>2, <2>3
<1>8. n \in Good
    <2> HIDE DEF Good
    <2> QED
        BY <1>1, <1>6, <1>7, Induction
<1>9. r[n] = f[n]
    BY <1>1, <1>8
<1>10. f[n] = Sees(list, o)
    BY <1>1 DEF f
<1> QED
    BY <1>5, <1>9, <1>10

(* The invariant: each message has a goal it is about.                     *)
MonitorInv ==
    /\ Monitor!TypeOK /\ bus \in Seq(Letter) /\ early = {} /\ InOrder(server)
    /\ Clock
    /\ \E own, C : Chain(bus, own, server, accepted) /\ Knows(Mail(bus, own), C)

(* The states of a goal.                                                   *)
LEMMA StatesDiffer ==
    /\ "new" \notin Answered /\ "new" \notin Over /\ "requested" \notin Answered
    /\ "requested" \notin Over
    /\ "rejected" \notin Answered /\ Monitor!Terminal \subseteq Over
    /\ Monitor!Terminal \subseteq Answered
    /\ Monitor!Active \subseteq Answered
    /\ \A s \in Monitor!Active : s \notin Over /\ s \notin Monitor!Terminal
    /\ \A s \in Answered : s \in Monitor!Active \/ s \in Monitor!Terminal
    /\ "succeeded" \in Monitor!Terminal /\ "rejected" \in Over
    BY DEF Answered, Over, Monitor!Active, Monitor!Terminal

(* A goal is a number, and not the one that stands for none.               *)
LEMMA NoGoal == ASSUME NEW g \in Goal PROVE g # Monitor!None /\ g # Monitor!Untracked.goal /\ g \in Nat
    BY MonitorBounds DEF Monitor!None, Monitor!Untracked

(* What a step of the world does to what the monitor knows: g goes on, and *)
(* what is said of it is put on the bus.                                   *)
GoesOn(g, mail, new) ==
    /\ \A h \in Goal : h # g => server'[h] = server[h] /\ accepted'[h] = accepted[h]
    /\ server[g] \notin Over /\ server'[g] # "new"
    /\ server[g] \in Answered => server'[g] \in Answered /\ accepted'[g] = accepted[g]
    /\ mail \subseteq new
    /\ \A x \in new : x \notin mail =>
          /\ x[2] = g
          /\ x[1].kind = "request" => server[g] = "new" /\ server'[g] = "requested"
          /\ Call(x) => server[g] \notin Answered
    /\ server'[g] \in Monitor!Terminal => \E x \in new : Says(x, g, Monitor!Terminal)
    /\ server[g] \notin Answered /\ server'[g] \in Answered => \E x \in new : Says(x, g, Monitor!Active)
    /\ server[g] = "requested" => \E x \in new : x[1].kind = "response" /\ x[2] = g

(* A step of the world keeps what the monitor knows.                       *)
LEMMA WorldKnows ==
    ASSUME NEW g \in Goal, NEW mail, NEW new, NEW C, Knows(mail, C), GoesOn(g, mail, new),
           InOrder(server), UNCHANGED Monitor!monitor, \A x \in mail : x[2] \in Goal,
           pending \in Goal \cup {Monitor!None}, active # Monitor!Untracked => active.goal \in Goal
    PROVE  Knows(new, C)'
<1>0. /\ UNCHANGED <<pending, active, failures, successes, defeats>>
      /\ \A h \in Goal : h \in Nat
    BY NoGoal DEF Monitor!monitor
<1>1. /\ \A h \in Goal : h # g => server'[h] = server[h] /\ accepted'[h] = accepted[h]
      /\ server[g] \notin Over /\ server'[g] # "new"
      /\ server[g] \in Answered => server'[g] \in Answered /\ accepted'[g] = accepted[g]
      /\ mail \subseteq new
      /\ \A x \in new : x \notin mail =>
            /\ x[2] = g
            /\ x[1].kind = "request" => server[g] = "new" /\ server'[g] = "requested"
            /\ Call(x) => server[g] \notin Answered
    BY DEF GoesOn
<1>2. /\ server'[g] \in Monitor!Terminal => \E x \in new : Says(x, g, Monitor!Terminal)
      /\ server[g] \notin Answered /\ server'[g] \in Answered => \E x \in new : Says(x, g, Monitor!Active)
      /\ server[g] = "requested" => \E x \in new : x[1].kind = "response" /\ x[2] = g
    BY DEF GoesOn
<1>3. \A h \in Goal : h > g => server[h] = "new" /\ server'[h] = "new"
    <2> SUFFICES ASSUME NEW h \in Goal, h > g PROVE server[h] = "new" /\ server'[h] = "new"
        OBVIOUS
    <2>1. server[h] # "new" => server[g] \in Over
        BY <1>0 DEF InOrder
    <2>2. h # g
        BY <1>0
    <2> QED
        BY <1>1, <2>1, <2>2
<1>4. Mails(new)'
    <2> SUFFICES ASSUME NEW x \in new
                 PROVE  /\ x[1].kind = "request" =>
                              \/ server'[x[2]] = "requested"
                              \/ \E y \in new : y[1].kind = "response" /\ y[2] = x[2]
                        /\ server'[x[2]] \in Monitor!Terminal => \E y \in new : Says(y, x[2], Monitor!Terminal)
        BY DEF Mails, Says
    <2>1. CASE x[2] = g
        <3>1. ASSUME x[1].kind = "request"
              PROVE  server'[g] = "requested" \/ \E y \in new : y[1].kind = "response" /\ y[2] = g
            <4>1. CASE x \notin mail
                BY <1>1, <3>1, <4>1
            <4>2. CASE x \in mail
                <5>1. server[g] = "requested" \/ \E y \in mail : y[1].kind = "response" /\ y[2] = g
                    BY <2>1, <3>1, <4>2 DEF Knows, Mails
                <5> QED
                    BY <1>1, <1>2, <5>1
            <4> QED
                BY <4>1, <4>2
        <3> QED
            BY <1>2, <2>1, <3>1
    <2>2. CASE x[2] # g
        <3>1. x \in mail /\ server'[x[2]] = server[x[2]]
            BY <1>1, <2>2
        <3>2. /\ x[1].kind = "request" =>
                    server[x[2]] = "requested" \/ \E y \in mail : y[1].kind = "response" /\ y[2] = x[2]
              /\ server[x[2]] \in Monitor!Terminal => \E y \in mail : Says(y, x[2], Monitor!Terminal)
            BY <3>1 DEF Knows, Mails
        <3> QED
            BY <1>1, <3>1, <3>2
    <2> QED
        BY <2>1, <2>2
<1>5. Expects(new)'
    <2> SUFFICES ASSUME pending # Monitor!None
                 PROVE  /\ server'[pending] # "new"
                        /\ \/ server'[pending] = "requested"
                           \/ \E x \in new : x[1].kind = "response" /\ x[2] = pending
                        /\ \A x \in new : Call(x) =>
                              x[2] >= pending /\ (x[1].kind = "request" => x[2] > pending)
        BY <1>0 DEF Expects, Call
    <2>1. /\ server[pending] # "new" /\ pending \in Goal
          /\ server[pending] = "requested" \/ \E x \in mail : x[1].kind = "response" /\ x[2] = pending
          /\ \A x \in mail : Call(x) => x[2] >= pending /\ (x[1].kind = "request" => x[2] > pending)
        BY DEF Knows, Expects
    <2>2. server'[pending] # "new"
        BY <1>1, <2>1
    <2>3. server'[pending] = "requested" \/ \E x \in new : x[1].kind = "response" /\ x[2] = pending
        <3>1. CASE pending = g
            BY <1>1, <1>2, <2>1, <3>1
        <3>2. CASE pending # g
            BY <1>1, <2>1, <3>2
        <3> QED
            BY <3>1, <3>2
    <2>4. pending <= g
        BY <1>0, <1>3, <2>1
    <2>5. ASSUME NEW x \in new, Call(x)
          PROVE  x[2] >= pending /\ (x[1].kind = "request" => x[2] > pending)
        <3>1. CASE x \in mail
            BY <2>1, <2>5, <3>1
        <3>2. CASE x \notin mail
            <4>1. x[2] = g /\ (x[1].kind = "request" => server[g] = "new")
                BY <1>1, <3>2
            <4>2. server[g] = "new" => pending # g
                BY <2>1
            <4> QED
                BY <1>0, <2>1, <2>4, <4>1, <4>2
        <3> QED
            BY <3>1, <3>2
    <2> QED
        BY <2>2, <2>3, <2>5
<1>6. Follows(new)'
    <2> DEFINE a == active.goal
    <2> SUFFICES ASSUME active # Monitor!Untracked
                 PROVE  /\ server'[a] \in Answered
                        /\ accepted'[a] <= active.since
                        /\ active.allowed >= DefaultAllowed
                        /\ \A x \in new : Call(x) => x[2] > a
                        /\ server'[a] \in Monitor!Terminal => \E x \in new : Says(x, a, Monitor!Terminal)
        BY <1>0 DEF Follows, Call, Says
    <2>1. /\ server[a] \in Answered /\ a \in Goal
          /\ accepted[a] <= active.since /\ active.allowed >= DefaultAllowed
          /\ \A x \in mail : Call(x) => x[2] > a
          /\ server[a] \in Monitor!Terminal => \E x \in mail : Says(x, a, Monitor!Terminal)
        BY DEF Knows, Follows
    <2> HIDE DEF a
    <2>2. server'[a] \in Answered /\ accepted'[a] <= active.since
        BY <1>1, <2>1
    <2>3. ASSUME NEW x \in new, Call(x) PROVE x[2] > a
        <3>1. CASE x \in mail
            BY <2>1, <2>3, <3>1
        <3>2. CASE x \notin mail
            <4>1. x[2] = g /\ server[g] \notin Answered
                BY <1>1, <2>3, <3>2
            <4>2. a <= g
                BY <1>0, <1>3, <2>1, StatesDiffer
            <4>3. a # g
                BY <2>1, <4>1
            <4> QED
                BY <1>0, <2>1, <4>1, <4>2, <4>3
        <3> QED
            BY <3>1, <3>2
    <2>4. ASSUME server'[a] \in Monitor!Terminal
          PROVE  \E x \in new : Says(x, a, Monitor!Terminal)
        <3>1. CASE a = g
            BY <1>2, <2>4, <3>1
        <3>2. CASE a # g
            BY <1>1, <2>1, <2>4, <3>2
        <3> QED
            BY <3>1, <3>2
    <2> QED
        BY <2>1, <2>2, <2>3, <2>4
<1>7. Tells(new)'
    <2> SUFFICES ASSUME NEW h \in Goal, server'[h] \in Answered, Latest(h)'
                 PROVE  (\E x \in new : Says(x, h, Monitor!Active)) \/ active.goal = h
        BY <1>0 DEF Tells, Says
    <2>1. h = g
        <3>1. ~(h > g)
            BY <1>3, StatesDiffer
        <3>2. ~(h < g)
            BY <1>0, <1>1 DEF Latest
        <3> QED
            BY <1>0, <3>1, <3>2
    <2>2. CASE server[g] \notin Answered
        BY <1>2, <2>1, <2>2
    <2>3. CASE server[g] \in Answered
        <3>1. Latest(g)
            BY <1>3 DEF Latest
        <3>2. (\E x \in mail : Says(x, g, Monitor!Active)) \/ active.goal = g \/ Settled(mail, g)
            BY <2>3, <3>1 DEF Knows, Tells
        <3>3. ~Settled(mail, g)
            BY <1>1, StatesDiffer DEF Settled
        <3> QED
            BY <1>1, <2>1, <3>2, <3>3
    <2> QED
        BY <2>2, <2>3
<1>8. ASSUME NEW h \in Goal, Closed(mail, h) PROVE Closed(new, h)' /\ h # g
    <2>1. /\ active.goal # h /\ pending # h /\ server[h] \in Over
          /\ \A x \in mail : x[2] = h => Says(x, h, Monitor!Terminal)
        BY <1>8 DEF Closed
    <2>2. h # g /\ server'[h] = server[h]
        BY <1>1, <2>1
    <2>3. \A x \in new : x[2] = h => Says(x, h, Monitor!Terminal)
        BY <1>1, <2>1, <2>2
    <2> QED
        BY <1>0, <2>1, <2>2, <2>3 DEF Closed, Says
<1>9. Scores(new, C)'
    <2>1. /\ \A h \in Goal : /\ successes[h] <= 1
                             /\ successes[h] = 1 => server[h] = "succeeded" /\ Closed(mail, h)
          /\ C \subseteq Monitor!Failed /\ Cardinality(C) = Monitor!Total(defeats)
          /\ failures <= Monitor!Total(defeats)
          /\ \A h \in C : Closed(mail, h)
        BY DEF Knows, Scores
    <2>2. \A h \in Goal : /\ successes'[h] <= 1
                          /\ successes'[h] = 1 => server'[h] = "succeeded" /\ Closed(new, h)'
        BY <1>0, <1>1, <1>8, <2>1
    <2>3. \A h \in C : h \in Goal /\ Closed(new, h)' /\ h # g /\ server'[h] = server[h]
        BY <1>1, <1>8, <2>1 DEF Monitor!Failed
    <2>4. C \subseteq Monitor!Failed'
        BY <2>1, <2>3 DEF Monitor!Failed
    <2>5. /\ Cardinality(C) = Monitor!Total(defeats')
          /\ failures' <= Monitor!Total(defeats')
        BY <1>0, <2>1
    <2> QED
        BY <2>2, <2>3, <2>4, <2>5 DEF Scores
<1> QED
    BY <1>4, <1>5, <1>6, <1>7, <1>9 DEF Knows

(* The goal g goes on, and those before it are over.                       *)
Moves(g) ==
    /\ \A h \in Goal : h # g => server'[h] = server[h] /\ accepted'[h] = accepted[h]
    /\ server[g] \notin Over /\ server'[g] # "new"
    /\ server[g] \in Answered => server'[g] \in Answered /\ accepted'[g] = accepted[g]
    /\ \A h \in Goal : h < g => server[h] \in Over

(* What is on its way is true.                                             *)
LEMMA MailTrue ==
    ASSUME NEW b \in Seq(Letter), NEW own, NEW srv, NEW acc, Chain(b, own, srv, acc),
           NEW x \in Mail(b, own)
    PROVE  x[1] \in Letter /\ x[2] \in Goal /\ IsTrue(x[1], x[2], srv, acc) /\ x = <<x[1], x[2]>>
<1>1. PICK i \in 1..Len(b) : x = <<b[i], own[i]>>
    BY DEF Mail
<1>2. b[i] \in Letter /\ own[i] \in Goal /\ IsTrue(b[i], own[i], srv, acc)
    BY DEF Chain
<1>3. x[1] = b[i] /\ x[2] = own[i]
    BY <1>1
<1> QED
    BY <1>1, <1>2, <1>3

(* What was said of a goal stays true when it goes on.                     *)
LEMMA TrueStays ==
    ASSUME NEW g \in Goal, Moves(g), NEW m, NEW o \in Goal, IsTrue(m, o, server, accepted)
    PROVE  IsTrue(m, o, server', accepted')
<1>1. CASE o # g
    BY <1>1 DEF Moves, IsTrue
<1>2. CASE o = g
    <2>1. server[g] # "rejected" /\ server[g] \notin Monitor!Terminal
        BY StatesDiffer DEF Moves
    <2> QED
        BY <1>2, <2>1 DEF Moves, IsTrue
<1> QED
    BY <1>1, <1>2

(* So does all that is on its way.                                         *)
LEMMA ChainStays ==
    ASSUME NEW g \in Goal, Moves(g), NEW b, NEW own, Chain(b, own, server, accepted)
    PROVE  Chain(b, own, server', accepted')
<1>1. /\ own \in Seq(Goal) /\ Len(own) = Len(b)
      /\ \A i \in 1..Len(b) : IsTrue(b[i], own[i], server, accepted)
      /\ \A i, j \in 1..Len(b) : i < j => Precedes(b[i], own[i], b[j], own[j])
    BY DEF Chain
<1>2. \A i \in 1..Len(b) : own[i] \in Goal
    BY <1>1
<1>3. \A i \in 1..Len(b) : IsTrue(b[i], own[i], server', accepted')
    BY <1>1, <1>2, TrueStays
<1> QED
    BY <1>1, <1>3 DEF Chain

(* Nothing that was sent is about a later goal than the last one.          *)
LEMMA NoneAfter ==
    ASSUME NEW g \in Goal, server[g] \notin Over, InOrder(server), NEW o \in Goal, server[o] # "new"
    PROVE  o <= g
<1>1. o \in Nat /\ g \in Nat
    BY NoGoal
<1>2. ~(g < o)
    BY DEF InOrder
<1> QED
    BY <1>1, <1>2

(* A status comes after everything that was sent.                          *)
LEMMA StatusFollows ==
    ASSUME NEW g \in Goal, NEW srv, NEW acc, NEW m, NEW o \in Goal, IsTrue(m, o, srv, acc), o <= g
    PROVE  Precedes(m, o, Monitor!Status(srv), g)
<1>1. Monitor!Status(srv).kind = "status" /\ Monitor!Status(srv).list = srv
    BY DEF Monitor!Status
<1>2. o = g /\ m.kind = "status" /\ m.list[o] \in Monitor!Terminal => srv[g] \in Monitor!Terminal
    BY DEF IsTrue
<1> QED
    BY <1>1, <1>2 DEF Precedes

(* A status says what the server holds.                                    *)
LEMMA StatusIsTrue ==
    ASSUME NEW g \in Goal, NEW srv \in [Goal -> GoalStates], NEW acc, srv[g] \in Answered, InOrder(srv),
           \A h \in Goal : h > g => srv[h] = "new"
    PROVE  IsTrue(Monitor!Status(srv), g, srv, acc) /\ Monitor!Status(srv) \in Letter
<1>1. Monitor!Status(srv) = [kind |-> "status", list |-> srv]
    BY DEF Monitor!Status
<1>2. Monitor!Status(srv).kind = "status" /\ Monitor!Status(srv).list = srv
    BY <1>1
<1>3. Monitor!Status(srv) \in Letter
    BY <1>1 DEF Letter
<1>4. srv[g] # "new"
    BY StatesDiffer
<1>5. \A h \in Goal : h < g => srv[h] \in Over
    BY <1>4 DEF InOrder
<1> QED
    BY <1>2, <1>3, <1>4, <1>5 DEF IsTrue

(* Goals go on in their order.                                             *)
LEMMA MovesInOrder ==
    ASSUME NEW g \in Goal, Moves(g), InOrder(server)
    PROVE  /\ InOrder(server') /\ \A h \in Goal : h > g => server[h] = "new" /\ server'[h] = "new"
<1>0. \A h \in Goal : h \in Nat
    BY NoGoal
<1>1. \A h \in Goal : h > g => server[h] = "new" /\ server'[h] = "new"
    <2> SUFFICES ASSUME NEW h \in Goal, h > g PROVE server[h] = "new" /\ server'[h] = "new"
        OBVIOUS
    <2>1. server[h] # "new" => server[g] \in Over
        BY <1>0 DEF InOrder
    <2>2. h # g
        BY <1>0
    <2> QED
        BY <2>1, <2>2 DEF Moves
<1>2. InOrder(server')
    <2> SUFFICES ASSUME NEW k \in Goal, NEW h \in Goal, h < k, server'[k] # "new"
                 PROVE  server'[h] \in Over
        BY DEF InOrder
    <2>1. CASE k = g
        BY <1>0, <2>1 DEF Moves
    <2>2. CASE k # g
        <3>1. server[k] # "new"
            BY <2>2 DEF Moves
        <3>2. server[h] \in Over
            BY <3>1 DEF InOrder
        <3> QED
            BY <3>2 DEF Moves
    <2> QED
        BY <2>1, <2>2
<1> QED
    BY <1>1, <1>2

(* A goal that goes on and says so keeps the invariant.                    *)
LEMMA WorldStep ==
    ASSUME NEW g \in Goal, Moves(g), Monitor!TypeOK, early = {}, InOrder(server), Clock,
           NEW own, NEW C, Chain(bus, own, server, accepted), bus \in Seq(Letter),
           Knows(Mail(bus, own), C),
           NEW new, Chain(bus', new, server', accepted'), bus' \in Seq(Letter), Len(bus') <= MaxBus,
           GoesOn(g, Mail(bus, own), Mail(bus', new)),
           server' \in [Goal -> GoalStates], accepted' \in [Goal -> 0..MaxTime], accepted'[g] <= now,
           UNCHANGED <<now, Monitor!monitor>>
    PROVE  MonitorInv'
<1>1. UNCHANGED <<now, state, pending, active, failures, alert, successes, defeats, early>>
    BY DEF Monitor!monitor
<1>2. Monitor!TypeOK'
    BY <1>1 DEF Monitor!TypeOK, GoalStates
<1>3. InOrder(server)'
    BY MovesInOrder
<1>4. Clock'
    BY <1>1 DEF Clock, Moves
<1>5. \A x \in Mail(bus, own) : x[2] \in Goal
    BY MailTrue
<1>6. /\ pending \in Goal \cup {Monitor!None}
      /\ (active # Monitor!Untracked => active.goal \in Goal)
    BY DEF Monitor!TypeOK, Monitor!TrackedGoal
<1>7. UNCHANGED Monitor!monitor
    BY <1>1 DEF Monitor!monitor
<1> PICK old, mail : old = Mail(bus, own) /\ mail = Mail(bus', new)
    OBVIOUS
<1>8. Knows(mail, C)'
    BY <1>5, <1>6, <1>7, WorldKnows
<1>9. Chain(bus, new, server, accepted)'
    OBVIOUS
<1>10. mail = Mail(bus, new)'
    OBVIOUS
<1>11. Knows(Mail(bus, new), C)'
    BY <1>8, <1>10
<1> QED
    BY <1>1, <1>2, <1>3, <1>4, <1>9, <1>11 DEF MonitorInv

(* What sending does.                                                      *)
LEMMA SendOne ==
    ASSUME bus \in Seq(Letter), NEW m \in Letter, Monitor!Send(<<m>>)
    PROVE  bus' = Append(bus, m) /\ bus' \in Seq(Letter) /\ Len(bus') <= MaxBus
<1>1. bus \o <<m>> = Append(bus, m)
    OBVIOUS
<1>2. Len(<<m>>) = 1
    OBVIOUS
<1> QED
    BY <1>1, <1>2, AppendIs DEF Monitor!Send

(* And sending two messages.                                               *)
LEMMA SendTwo ==
    ASSUME bus \in Seq(Letter), NEW m \in Letter, NEW n \in Letter, Monitor!Send(<<m, n>>)
    PROVE  /\ bus' = Append(Append(bus, m), n) /\ Append(bus, m) \in Seq(Letter)
           /\ bus' \in Seq(Letter) /\ Len(bus') <= MaxBus
<1>1. bus \o <<m, n>> = Append(Append(bus, m), n)
    OBVIOUS
<1>2. Len(<<m, n>>) = 2
    OBVIOUS
<1>3. /\ Append(bus, m) \in Seq(Letter) /\ Len(Append(bus, m)) = Len(bus) + 1
      /\ Len(bus) \in Nat
    BY AppendIs
<1>4. Append(Append(bus, m), n) \in Seq(Letter)
      /\ Len(Append(Append(bus, m), n)) = Len(Append(bus, m)) + 1
    BY <1>3, AppendIs
<1> QED
    BY <1>1, <1>2, <1>3, <1>4 DEF Monitor!Send

(* A goal is requested.                                                    *)
LEMMA RequestKeeps ==
    ASSUME MonitorInv, NEW g \in Goal, Monitor!RequestGoal(g)
    PROVE  MonitorInv'
<1>1. /\ Monitor!TypeOK /\ bus \in Seq(Letter) /\ early = {} /\ InOrder(server)
      /\ Clock
    BY DEF MonitorInv
<1>2. PICK own, C : Chain(bus, own, server, accepted) /\ Knows(Mail(bus, own), C)
    BY DEF MonitorInv
<1>3. /\ server[g] = "new" /\ \A h \in Goal : h < g => server[h] \in Monitor!Terminal \cup {"rejected"}
      /\ server' = [server EXCEPT ![g] = "requested"]
      /\ Monitor!Send(<<[kind |-> "request", goal |-> g]>>)
      /\ UNCHANGED <<now, accepted, Monitor!monitor>>
    BY DEF Monitor!RequestGoal
<1>4. server \in [Goal -> GoalStates] /\ accepted \in [Goal -> 0..MaxTime]
    BY <1>1 DEF Monitor!TypeOK, GoalStates
<1>5. server' \in [Goal -> GoalStates] /\ server'[g] = "requested"
      /\ \A h \in Goal : h # g => server'[h] = server[h]
    BY <1>3, <1>4 DEF GoalStates
<1>6. Moves(g)
    BY <1>3, <1>5, StatesDiffer DEF Moves, Over
<1> DEFINE m == [kind |-> "request", goal |-> g]
<1>7. m \in Letter /\ m.kind = "request" /\ m.goal = g
    BY DEF Letter
<1>8. IsTrue(m, g, server', accepted')
    BY <1>5, <1>7 DEF IsTrue
<1> HIDE DEF m
<1>9. bus' = Append(bus, m) /\ bus' \in Seq(Letter) /\ Len(bus') <= MaxBus
    BY <1>1, <1>3, <1>7, SendOne DEF m
<1>10. Chain(bus, own, server', accepted')
    BY <1>2, <1>6, ChainStays
<1>11. ASSUME NEW x \in Mail(bus, own) PROVE Precedes(x[1], x[2], m, g)
    <2>1. x[2] \in Goal /\ IsTrue(x[1], x[2], server, accepted)
        BY <1>1, <1>2, MailTrue
    <2>2. server[x[2]] # "new" /\ x[2] # g
        BY <1>3, <2>1 DEF IsTrue
    <2>3. x[2] <= g
        BY <1>1, <1>6, <2>1, <2>2, NoneAfter DEF Moves
    <2> QED
        BY <2>2, <2>3 DEF Precedes
<1>12. PICK new : /\ Chain(bus', new, server', accepted')
                  /\ Mail(bus', new) = Mail(bus, own) \cup {<<m, g>>}
    BY <1>1, <1>7, <1>8, <1>9, <1>10, <1>11, ChainGrows
<1>13. GoesOn(g, Mail(bus, own), Mail(bus', new))
    <2>1. \A x \in Mail(bus', new) : x \notin Mail(bus, own) => x = <<m, g>>
        BY <1>12
    <2>2. \A x : x = <<m, g>> => x[1] = m /\ x[2] = g
        OBVIOUS
    <2>3. \A x \in Mail(bus', new) : x \notin Mail(bus, own) => x[2] = g
        BY <2>1, <2>2
    <2>4. /\ server[g] \notin Answered /\ server[g] \notin Over
          /\ server[g] # "requested"
          /\ server'[g] \notin Answered /\ server'[g] \notin Monitor!Terminal
          /\ server'[g] # "new"
        BY <1>3, <1>5, StatesDiffer
    <2>5. Mail(bus, own) \subseteq Mail(bus', new)
        BY <1>12
    <2> QED
        BY <1>3, <1>5, <2>3, <2>4, <2>5 DEF GoesOn
<1>14. accepted' = accepted /\ accepted'[g] <= now
    BY <1>1, <1>3 DEF Clock
<1> QED
    BY <1>1, <1>2, <1>3, <1>4, <1>5, <1>6, <1>9, <1>12, <1>13, <1>14, WorldStep

(* g becomes s: what is common to the answers and the progress of a goal.  *)
LEMMA Becomes ==
    ASSUME MonitorInv, NEW g \in Goal, server[g] \notin Over, server[g] # "new",
           NEW s \in GoalStates, s # "new", server[g] \in Answered => s \in Answered,
           server' = [server EXCEPT ![g] = s],
           accepted' \in [Goal -> 0..MaxTime], server[g] \in Answered => accepted'[g] = accepted[g],
           \A h \in Goal : h # g => accepted'[h] = accepted[h]
    PROVE  /\ Moves(g) /\ server' \in [Goal -> GoalStates] /\ server'[g] = s
           /\ s \in Answered => IsTrue(Monitor!Status(server'), g, server', accepted') /\ Monitor!Status(server') \in Letter
           /\ \A o \in Goal : server[o] # "new" => o <= g
<1>1. Monitor!TypeOK /\ InOrder(server)
    BY DEF MonitorInv
<1>2. server \in [Goal -> GoalStates]
    BY <1>1 DEF Monitor!TypeOK, GoalStates
<1>3. server' \in [Goal -> GoalStates] /\ server'[g] = s /\ \A h \in Goal : h # g => server'[h] = server[h]
    BY <1>2
<1>4. \A h \in Goal : h < g => server[h] \in Over
    BY <1>1 DEF InOrder
<1>5. Moves(g)
    BY <1>3, <1>4 DEF Moves
<1>6. InOrder(server') /\ \A h \in Goal : h > g => server'[h] = "new"
    BY <1>1, <1>5, MovesInOrder
<1>7. s \in Answered => IsTrue(Monitor!Status(server'), g, server', accepted') /\ Monitor!Status(server') \in Letter
    BY <1>3, <1>6, StatusIsTrue
<1>8. \A o \in Goal : server[o] # "new" => o <= g
    BY <1>1, NoneAfter
<1> QED
    BY <1>3, <1>5, <1>7, <1>8

(* A goal goes on or ends.                                                 *)
LEMMA ProceedKeeps ==
    ASSUME MonitorInv, NEW g \in Goal, Monitor!ProceedGoal(g)
    PROVE  MonitorInv'
<1>1. /\ Monitor!TypeOK /\ bus \in Seq(Letter) /\ early = {} /\ InOrder(server)
      /\ Clock
    BY DEF MonitorInv
<1>2. PICK own, C : Chain(bus, own, server, accepted) /\ Knows(Mail(bus, own), C)
    BY DEF MonitorInv
<1>3. PICK s \in Answered :
         /\ \/ <<server[g], s>> \in {<<"accepted", "executing">>, <<"executing", "canceling">>}
            \/ server[g] \in {"executing", "canceling"} /\ s \in Monitor!Terminal
         /\ server' = [server EXCEPT ![g] = s]
         /\ Monitor!Send(<<Monitor!Status(server')>>)
    BY DEF Monitor!ProceedGoal, Answered
<1>4. /\ UNCHANGED <<now, accepted, Monitor!monitor>>
      /\ accepted \in [Goal -> 0..MaxTime]
    BY <1>1 DEF Monitor!ProceedGoal, Monitor!TypeOK
<1>5. /\ server[g] \in Monitor!Active /\ server[g] \in Answered
      /\ server[g] \notin Over /\ server[g] # "new"
      /\ server[g] # "requested" /\ s \in GoalStates /\ s # "new"
    BY <1>3 DEF Monitor!Active, Monitor!Terminal, Answered, Over, GoalStates
<1>6. /\ Moves(g) /\ server' \in [Goal -> GoalStates] /\ server'[g] = s
      /\ IsTrue(Monitor!Status(server'), g, server', accepted')
      /\ Monitor!Status(server') \in Letter
      /\ \A o \in Goal : server[o] # "new" => o <= g
    BY <1>3, <1>4, <1>5, Becomes
<1> DEFINE m == Monitor!Status(server')
<1>7. m \in Letter /\ m.kind = "status" /\ m.list = server'
    BY <1>6 DEF Monitor!Status
<1> HIDE DEF m
<1>9. bus' = Append(bus, m) /\ bus' \in Seq(Letter) /\ Len(bus') <= MaxBus
    BY <1>1, <1>3, <1>7, SendOne DEF m
<1>10. Chain(bus, own, server', accepted')
    BY <1>2, <1>6, ChainStays
<1>11. ASSUME NEW x \in Mail(bus, own) PROVE Precedes(x[1], x[2], m, g)
    <2>1. /\ x[2] \in Goal /\ IsTrue(x[1], x[2], server, accepted)
          /\ IsTrue(x[1], x[2], server', accepted')
        BY <1>1, <1>2, <1>10, MailTrue
    <2>2. x[2] <= g
        BY <1>6, <2>1 DEF IsTrue
    <2> QED
        BY <2>1, <2>2, StatusFollows DEF m
<1>12. PICK new : /\ Chain(bus', new, server', accepted')
                  /\ Mail(bus', new) = Mail(bus, own) \cup {<<m, g>>}
    BY <1>1, <1>6, <1>7, <1>9, <1>10, <1>11, ChainGrows DEF m
<1>13. GoesOn(g, Mail(bus, own), Mail(bus', new))
    <2>1. \A x \in Mail(bus', new) : x \notin Mail(bus, own) => x = <<m, g>>
        BY <1>12
    <2>2. \A x : x = <<m, g>> => x[1] = m /\ x[2] = g
        OBVIOUS
    <2>3. \A x \in Mail(bus', new) : x \notin Mail(bus, own) => x[2] = g /\ x[1].kind = "status"
        BY <1>7, <2>1, <2>2
    <2>4. server'[g] \in Monitor!Terminal => Says(<<m, g>>, g, Monitor!Terminal)
        BY <1>7 DEF Says
    <2>5. Mail(bus, own) \subseteq Mail(bus', new) /\ <<m, g>> \in Mail(bus', new)
        BY <1>12
    <2>6. \A h \in Goal : h # g => server'[h] = server[h] /\ accepted'[h] = accepted[h]
        BY <1>6 DEF Moves
    <2>7. \A x \in Mail(bus', new) : x \notin Mail(bus, own) => ~Call(x) /\ x[1].kind # "request"
        BY <2>3 DEF Call
    <2> QED
        BY <1>3, <1>4, <1>5, <1>6, <2>3, <2>4, <2>5, <2>6, <2>7 DEF GoesOn
<1>14. accepted'[g] <= now
    BY <1>1, <1>4 DEF Clock
<1> QED
    BY <1>1, <1>2, <1>4, <1>6, <1>9, <1>12, <1>13, <1>14, WorldStep

(* A response is the first that is said of a goal after its request.       *)
LEMMA ResponseFollows ==
    ASSUME NEW g \in Goal, server[g] = "requested", NEW m \in Letter,
           NEW o \in Goal, IsTrue(m, o, server, accepted), o <= g, NEW n, n.kind = "response"
    PROVE  Precedes(m, o, n, g)
<1>1. "requested" \notin Answered /\ (m.kind = "response" => m.ok \/ ~m.ok)
    BY StatesDiffer
<1>2. o = g => m.kind # "status" /\ m.kind # "response"
    BY <1>1 DEF IsTrue
<1>3. m.kind \in {"request", "response", "status"}
    BY DEF Letter
<1> QED
    BY <1>2, <1>3 DEF Precedes

(* A goal is refused or accepted.                                          *)
LEMMA AnswerKeeps ==
    ASSUME MonitorInv, NEW g \in Goal, Monitor!AnswerGoal(g)
    PROVE  MonitorInv'
<1>1. /\ Monitor!TypeOK /\ bus \in Seq(Letter) /\ early = {} /\ InOrder(server)
      /\ Clock
    BY DEF MonitorInv
<1>2. PICK own, C : Chain(bus, own, server, accepted) /\ Knows(Mail(bus, own), C)
    BY DEF MonitorInv
<1>3. /\ server[g] = "requested" /\ UNCHANGED <<now, Monitor!monitor>>
      /\ server[g] \notin Answered /\ server[g] \notin Over /\ server[g] # "new"
    BY StatesDiffer DEF Monitor!AnswerGoal
<1>4. accepted \in [Goal -> 0..MaxTime] /\ now \in 0..MaxTime
    BY <1>1 DEF Monitor!TypeOK
<1>5. CASE /\ server' = [server EXCEPT ![g] = "rejected"]
           /\ Monitor!Send(<<[kind |-> "response", ok |-> FALSE, stamp |-> now]>>)
           /\ UNCHANGED accepted
    <2>1. /\ "rejected" \in GoalStates /\ "rejected" # "new"
          /\ "rejected" \notin Answered
        BY StatesDiffer DEF GoalStates
    <2>2. /\ accepted' \in [Goal -> 0..MaxTime]
          /\ (\A h \in Goal : accepted'[h] = accepted[h])
        BY <1>4, <1>5
    <2>3. /\ Moves(g) /\ server' \in [Goal -> GoalStates] /\ server'[g] = "rejected"
          /\ \A o \in Goal : server[o] # "new" => o <= g
        BY <1>3, <1>5, <2>1, <2>2, Becomes
    <2> DEFINE m == [kind |-> "response", ok |-> FALSE, stamp |-> now]
    <2>4. m \in Letter /\ m.kind = "response" /\ ~m.ok
        BY <1>4 DEF Letter
    <2>5. bus' = Append(bus, m) /\ bus' \in Seq(Letter) /\ Len(bus') <= MaxBus
        <3> HIDE DEF m
        <3> QED
            BY <1>1, <1>5, <2>4, SendOne DEF m
    <2> HIDE DEF m
    <2>6. Chain(bus, own, server', accepted')
        BY <1>2, <2>3, ChainStays
    <2>7. IsTrue(m, g, server', accepted')
        BY <2>1, <2>3, <2>4 DEF IsTrue
    <2>8. ASSUME NEW x \in Mail(bus, own) PROVE Precedes(x[1], x[2], m, g)
        <3>1. /\ x[1] \in Letter /\ x[2] \in Goal
              /\ IsTrue(x[1], x[2], server, accepted)
            BY <1>1, <1>2, MailTrue
        <3>2. x[2] <= g
            BY <2>3, <3>1 DEF IsTrue
        <3> QED
            BY <1>3, <2>4, <3>1, <3>2, ResponseFollows
    <2>9. PICK new : /\ Chain(bus', new, server', accepted')
                     /\ Mail(bus', new) = Mail(bus, own) \cup {<<m, g>>}
        BY <1>1, <2>4, <2>5, <2>6, <2>7, <2>8, ChainGrows
    <2>10. GoesOn(g, Mail(bus, own), Mail(bus', new))
        <3>1. \A x : x = <<m, g>> => x[1] = m /\ x[2] = g
            OBVIOUS
        <3>2. \A x \in Mail(bus', new) :
                 x \notin Mail(bus, own) => x[2] = g /\ x[1].kind # "request"
            BY <2>4, <2>9, <3>1
        <3>3. /\ Mail(bus, own) \subseteq Mail(bus', new)
              /\ <<m, g>> \in Mail(bus', new)
            BY <2>9
        <3>4. \E x \in Mail(bus', new) : x[1].kind = "response" /\ x[2] = g
            BY <2>4, <3>1, <3>3
        <3>5. \A h \in Goal : h # g => server'[h] = server[h] /\ accepted'[h] = accepted[h]
            BY <2>3 DEF Moves
        <3>6. /\ server'[g] \notin Monitor!Terminal /\ server'[g] \notin Answered
              /\ server'[g] # "new"
            BY <2>1, <2>3, StatesDiffer
        <3> QED
            BY <1>3, <3>2, <3>3, <3>4, <3>5, <3>6 DEF GoesOn
    <2>11. accepted'[g] <= now
        BY <1>1, <1>5 DEF Clock
    <2> QED
        BY <1>1, <1>2, <1>3, <2>2, <2>3, <2>5, <2>9, <2>10, <2>11, WorldStep
<1>6. CASE /\ server' = [server EXCEPT ![g] = "accepted"]
           /\ accepted' = [accepted EXCEPT ![g] = now]
           /\ Monitor!Send(<<[kind |-> "response", ok |-> TRUE, stamp |-> now], Monitor!Status(server')>>)
    <2>1. "accepted" \in GoalStates /\ "accepted" # "new" /\ "accepted" \in Answered
          /\ "accepted" \in Monitor!Active /\ "accepted" \notin Monitor!Terminal
        BY DEF GoalStates, Monitor!Active, Answered, Monitor!Terminal
    <2>2. accepted' \in [Goal -> 0..MaxTime] /\ accepted'[g] = now
          /\ (\A h \in Goal : h # g => accepted'[h] = accepted[h])
        BY <1>4, <1>6
    <2>3. /\ Moves(g) /\ server' \in [Goal -> GoalStates] /\ server'[g] = "accepted"
          /\ IsTrue(Monitor!Status(server'), g, server', accepted')
          /\ Monitor!Status(server') \in Letter
          /\ \A o \in Goal : server[o] # "new" => o <= g
        BY <1>3, <1>6, <2>1, <2>2, Becomes
    <2> DEFINE m == [kind |-> "response", ok |-> TRUE, stamp |-> now]
               n == Monitor!Status(server')
    <2>4. m \in Letter /\ m.kind = "response" /\ m.ok /\ m.stamp = now
        BY <1>4 DEF Letter
    <2>5. /\ n \in Letter /\ n.kind = "status" /\ n.list = server'
          /\ IsTrue(n, g, server', accepted')
        BY <2>3 DEF Monitor!Status
    <2> HIDE DEF m, n
    <2>6. /\ bus' = Append(Append(bus, m), n) /\ Append(bus, m) \in Seq(Letter)
          /\ bus' \in Seq(Letter) /\ Len(bus') <= MaxBus
        BY <1>1, <1>6, <2>4, <2>5, SendTwo DEF m, n
    <2>7. Chain(bus, own, server', accepted')
        BY <1>2, <2>3, ChainStays
    <2>8. IsTrue(m, g, server', accepted')
        BY <2>1, <2>2, <2>3, <2>4 DEF IsTrue
    <2>9. ASSUME NEW x \in Mail(bus, own)
          PROVE  x[2] \in Goal /\ x[2] <= g /\ Precedes(x[1], x[2], m, g)
                 /\ IsTrue(x[1], x[2], server', accepted')
        <3>1. /\ x[1] \in Letter /\ x[2] \in Goal
              /\ IsTrue(x[1], x[2], server, accepted)
             /\ IsTrue(x[1], x[2], server', accepted')
            BY <1>1, <1>2, <2>7, MailTrue
        <3>2. x[2] <= g
            BY <2>3, <3>1 DEF IsTrue
        <3> QED
            BY <1>3, <2>4, <3>1, <3>2, ResponseFollows
    <2>10. PICK one : /\ Chain(Append(bus, m), one, server', accepted')
                      /\ Mail(Append(bus, m), one) = Mail(bus, own) \cup {<<m, g>>}
        BY <1>1, <2>4, <2>7, <2>8, <2>9, ChainGrows
    <2>11. \A x : x = <<m, g>> => x[1] = m /\ x[2] = g
        OBVIOUS
    <2>12. \A x : x = <<n, g>> => x[1] = n /\ x[2] = g
        OBVIOUS
    <2>13. ASSUME NEW x \in Mail(Append(bus, m), one)
           PROVE  Precedes(x[1], x[2], n, g)
        <3>1. x[2] \in Goal /\ IsTrue(x[1], x[2], server', accepted')
            BY <2>6, <2>10, MailTrue
        <3>2. x[2] <= g
            <4>1. g <= g
                BY NoGoal
            <4> QED
                BY <2>9, <2>10, <2>11, <4>1
        <3> QED
            BY <3>1, <3>2, StatusFollows DEF n
    <2>14. PICK new : /\ Chain(bus', new, server', accepted')
                      /\ Mail(bus', new) = Mail(bus, own) \cup {<<m, g>>} \cup {<<n, g>>}
        <3> DEFINE c == Append(bus, m)
        <3>1. /\ c \in Seq(Letter) /\ Chain(c, one, server', accepted')
              /\ \A x \in Mail(c, one) : Precedes(x[1], x[2], n, g)
              /\ Mail(c, one) = Mail(bus, own) \cup {<<m, g>>}
              /\ bus' = Append(c, n)
            BY <2>6, <2>10, <2>13
        <3> HIDE DEF c
        <3>2. \E new : /\ Chain(Append(c, n), new, server', accepted')
                       /\ Mail(Append(c, n), new) = Mail(c, one) \cup {<<n, g>>}
            BY <2>5, <3>1, ChainGrows
        <3> QED
            BY <3>1, <3>2
    <2>15. GoesOn(g, Mail(bus, own), Mail(bus', new))
        <3>1. \A x \in Mail(bus', new) :
                 x \notin Mail(bus, own) => x[2] = g /\ x[1].kind # "request"
            BY <2>4, <2>5, <2>11, <2>12, <2>14
        <3>2. /\ Mail(bus, own) \subseteq Mail(bus', new)
              /\ <<m, g>> \in Mail(bus', new)
              /\ <<n, g>> \in Mail(bus', new)
            BY <2>14
        <3>3. \E x \in Mail(bus', new) : x[1].kind = "response" /\ x[2] = g
            BY <2>4, <2>11, <3>2
        <3>4. Says(<<n, g>>, g, Monitor!Active)
            BY <2>1, <2>3, <2>5 DEF Says
        <3>5. \A h \in Goal : h # g => server'[h] = server[h] /\ accepted'[h] = accepted[h]
            BY <2>3 DEF Moves
        <3> QED
            BY <1>3, <2>1, <2>3, <3>1, <3>2, <3>3, <3>4, <3>5 DEF GoesOn
    <2>16. accepted'[g] <= now
        BY <1>4, <2>2
    <2> QED
        BY <1>1, <1>2, <1>3, <2>2, <2>3, <2>6, <2>14, <2>15, <2>16, WorldStep
<1> QED
    BY <1>5, <1>6 DEF Monitor!AnswerGoal

(* m about o is heard: new is what is left of mail.  What came before m    *)
(* and is left is a status that m, being none, was allowed to overtake.    *)
Off(mail, new, m, o) ==
    /\ <<m, o>> \in mail /\ new \subseteq mail
    /\ \A x \in mail : x # <<m, o>> => x \in new
    /\ \A x \in new : Precedes(m, o, x[1], x[2]) \/ (m.kind # "status" /\ x[1].kind = "status")
    /\ \A x \in mail : /\ x[1] \in Letter /\ x[2] \in Goal /\ IsTrue(x[1], x[2], server, accepted)
                       /\ x = <<x[1], x[2]>>

(* What hearing a message takes off the bus.                               *)
LEMMA HeardIs ==
    ASSUME NEW own, Chain(bus, own, server, accepted), bus \in Seq(Letter),
           NEW i \in DOMAIN bus, Monitor!Heard(i)
    PROVE  /\ \E new, o : /\ Chain(bus', new, server', accepted')
                          /\ Off(Mail(bus, own), Mail(bus', new), bus[i], o)
           /\ bus' \in Seq(Letter) /\ Len(bus') = Len(bus) - 1
           /\ UNCHANGED <<now, server, accepted, early>>
<1>1. i \in 1..Len(bus) /\ Len(bus) \in Nat
    OBVIOUS
<1>2. bus' = Without(bus, i) /\ UNCHANGED <<now, server, accepted, early>>
    BY DEF Monitor!Heard, Without, Monitor!world
<1>3. \A j \in 1..(i - 1) : bus[j].kind = "status" /\ bus[i].kind # "status"
    BY DEF Monitor!Heard, Monitor!Deliverable
<1>4. bus' \in Seq(Letter) /\ Len(bus') = Len(bus) - 1
    BY <1>1, <1>2, RemoveIs
<1>5. PICK new :
         /\ Chain(bus', new, server, accepted)
         /\ Mail(bus', new) \subseteq Mail(bus, own)
         /\ \A x \in Mail(bus, own) : x # <<bus[i], own[i]>> => x \in Mail(bus', new)
         /\ \A x \in Mail(bus', new) :
               \/ Precedes(bus[i], own[i], x[1], x[2])
               \/ \E k \in 1..(i - 1) : x = <<bus[k], own[k]>>
    BY <1>1, <1>2, ChainShrinks
<1>6. \A x \in Mail(bus', new) : \/ Precedes(bus[i], own[i], x[1], x[2])
                                 \/ bus[i].kind # "status" /\ x[1].kind = "status"
    <2> SUFFICES ASSUME NEW x \in Mail(bus', new), NEW k \in 1..(i - 1), x = <<bus[k], own[k]>>
                 PROVE  bus[i].kind # "status" /\ x[1].kind = "status"
        BY <1>5
    <2>1. x[1] = bus[k]
        OBVIOUS
    <2> QED
        BY <1>3, <2>1
<1>7. <<bus[i], own[i]>> \in Mail(bus, own)
    BY <1>1 DEF Mail
<1>8. \A x \in Mail(bus, own) :
         x[1] \in Letter /\ x[2] \in Goal /\ IsTrue(x[1], x[2], server, accepted) /\ x = <<x[1], x[2]>>
    BY MailTrue
<1>9. Off(Mail(bus, own), Mail(bus', new), bus[i], own[i])
    BY <1>5, <1>6, <1>7, <1>8 DEF Off
<1> QED
    BY <1>2, <1>4, <1>5, <1>9

(* What is to be heard is about goals that were sent.                      *)
LEMMA OffMail ==
    ASSUME NEW mail, NEW new, NEW m, NEW o, Off(mail, new, m, o)
    PROVE  \A x \in mail : x[2] \in Goal /\ server[x[2]] # "new"
    BY DEF Off, IsTrue

(* What is left after a status is of its goal only if that ended, or of a   *)
(* later one.                                                              *)
LEMMA OffStatus ==
    ASSUME NEW mail, NEW new, NEW m, NEW o, Off(mail, new, m, o), m.kind = "status"
    PROVE  /\ o \in Goal /\ new \subseteq mail /\ IsTrue(m, o, server, accepted)
           /\ \A x \in new : x[2] >= o /\ (x[2] = o /\ m.list[o] \in Monitor!Terminal =>
                                                Says(x, o, Monitor!Terminal))
<1>1. <<m, o>> \in mail /\ <<m, o>>[1] = m /\ <<m, o>>[2] = o
    BY DEF Off
<1>2. o \in Goal /\ new \subseteq mail /\ IsTrue(m, o, server, accepted)
    BY <1>1 DEF Off
<1>3. ASSUME NEW x \in new
      PROVE  x[2] >= o /\ (x[2] = o /\ m.list[o] \in Monitor!Terminal => Says(x, o, Monitor!Terminal))
    <2>1. x[2] \in Nat /\ o \in Nat
        BY <1>2, NoGoal DEF Off
    <2>2. Precedes(m, o, x[1], x[2])
        BY DEF Off
    <2> QED
        BY <2>1, <2>2 DEF Precedes, Says
<1> QED
    BY <1>2, <1>3

(* What is left after it: calls of later goals, and of o only what follows *)
(* m.                                                                      *)
LEMMA OffIs ==
    ASSUME NEW mail, NEW new, NEW m, NEW o, Off(mail, new, m, o)
    PROVE  /\ m \in Letter /\ o \in Goal /\ IsTrue(m, o, server, accepted)
           /\ <<m, o>> \in mail /\ new \subseteq mail
           /\ \A x \in mail : x \notin new => x[1] = m /\ x[2] = o
           /\ \A x \in mail : x[2] \in Goal /\ server[x[2]] # "new"
           /\ \A x \in new : Call(x) =>
                 /\ x[2] >= o /\ (x[1].kind = "request" => x[2] > o)
                 /\ m.kind # "request" => x[2] > o
           /\ m.kind = "status" => \A x \in new :
                 x[2] >= o /\ (x[2] = o /\ m.list[o] \in Monitor!Terminal => Says(x, o, Monitor!Terminal))
<1>1. <<m, o>>[1] = m /\ <<m, o>>[2] = o
    OBVIOUS
<1>2. <<m, o>> \in mail
    BY DEF Off
<1>3. m \in Letter /\ o \in Goal /\ IsTrue(m, o, server, accepted)
    BY <1>1, <1>2 DEF Off
<1>4. \A x \in mail : x \notin new => x[1] = m /\ x[2] = o
    BY <1>1 DEF Off
<1>5. \A x \in mail : x[2] \in Goal /\ server[x[2]] # "new"
    BY DEF Off, IsTrue
<1>6. ASSUME NEW x \in new, Call(x)
      PROVE  x[2] >= o /\ (x[1].kind = "request" => x[2] > o) /\ (m.kind # "request" => x[2] > o)
    <2>1. x[2] \in Nat /\ o \in Nat
        BY <1>3, NoGoal DEF Off
    <2>2. Precedes(m, o, x[1], x[2])
        BY <1>6 DEF Off, Call
    <2>3. /\ o <= x[2] /\ (o = x[2] => x[1].kind # "request" /\ (m.kind # "request" => x[1].kind = "status"))
        BY <2>2 DEF Precedes
    <2> QED
        BY <1>6, <2>1, <2>3 DEF Call
<1>7. ASSUME m.kind = "status", NEW x \in new
      PROVE  x[2] >= o /\ (x[2] = o /\ m.list[o] \in Monitor!Terminal => Says(x, o, Monitor!Terminal))
    BY <1>7, OffStatus
<1> QED
    BY <1>2, <1>3, <1>4, <1>5, <1>6, <1>7 DEF Off

(* What is left of the mail holds what becomes of the goals it is about.   *)
LEMMA MailsStays ==
    ASSUME NEW mail, NEW new, NEW m, NEW o, Off(mail, new, m, o), Mails(mail), server' = server
    PROVE  Mails(new)'
<1>1. /\ o \in Goal /\ <<m, o>> \in mail /\ new \subseteq mail
      /\ \A x \in mail : x \notin new => x[1] = m /\ x[2] = o
      /\ \A x \in new : Call(x) => (x[1].kind = "request" => x[2] > o)
      /\ m.kind = "status" => \A x \in new :
                 x[2] = o /\ m.list[o] \in Monitor!Terminal => Says(x, o, Monitor!Terminal)
    BY OffIs
<1> SUFFICES ASSUME NEW x \in new
             PROVE  /\ x[1].kind = "request" =>
                          server[x[2]] = "requested" \/ \E y \in new : y[1].kind = "response" /\ y[2] = x[2]
                    /\ server[x[2]] \in Monitor!Terminal => \E y \in new : Says(y, x[2], Monitor!Terminal)
    BY DEF Mails, Says
<1>2. /\ x[1].kind = "request" =>
           server[x[2]] = "requested" \/ \E y \in mail : y[1].kind = "response" /\ y[2] = x[2]
      /\ server[x[2]] \in Monitor!Terminal => \E y \in mail : Says(y, x[2], Monitor!Terminal)
    BY <1>1 DEF Mails
<1>3. ASSUME x[1].kind = "request", server[x[2]] # "requested"
      PROVE  \E y \in new : y[1].kind = "response" /\ y[2] = x[2]
    <2>1. PICK y \in mail : y[1].kind = "response" /\ y[2] = x[2]
        BY <1>2, <1>3
    <2>2. y \in new
        <3>1. x[2] > o
            BY <1>1, <1>3 DEF Call
        <3>2. x[2] # o
            <4>1. o \in Nat
                BY <1>1, NoGoal
            <4> QED
                BY <3>1, <4>1
        <3> QED
            BY <1>1, <2>1, <3>2
    <2> QED
        BY <2>1, <2>2
<1>4. ASSUME server[x[2]] \in Monitor!Terminal
      PROVE  \E y \in new : Says(y, x[2], Monitor!Terminal)
    <2>1. PICK y \in mail : Says(y, x[2], Monitor!Terminal)
        BY <1>2, <1>4
    <2>2. CASE y \in new
        BY <2>1, <2>2
    <2>3. CASE y \notin new
        <3>1. x[2] = o /\ m.kind = "status" /\ m.list[o] \in Monitor!Terminal
            BY <1>1, <2>1, <2>3 DEF Says
        <3> QED
            BY <1>1, <3>1
    <2> QED
        BY <2>2, <2>3
<1> QED
    BY <1>3, <1>4

(* Hearing a message keeps the invariant if it keeps what the monitor      *)
(* knows.                                                                  *)
LEMMA HearStep ==
    ASSUME MonitorInv, NEW own, NEW i \in DOMAIN bus, UNCHANGED <<now, server, accepted, early>>,
           bus' \in Seq(Letter), Chain(bus', own, server', accepted'),
           NEW new, new = Mail(bus', own), NEW C, Knows(new, C)', Monitor!TypeOK'
    PROVE  MonitorInv'
<1>1. early = {} /\ InOrder(server) /\ Clock
    BY DEF MonitorInv
<1>2. early' = {} /\ InOrder(server)' /\ Clock'
    BY <1>1 DEF Clock, InOrder
<1>3. new = Mail(bus, own)' /\ Chain(bus, own, server, accepted)'
    OBVIOUS
<1>4. Knows(Mail(bus, own), C)'
    BY <1>3
<1> QED
    BY <1>2, <1>3, <1>4 DEF MonitorInv

(* What stays true of what the monitor follows when no status is heard.    *)
LEMMA CallStays ==
    ASSUME NEW mail, NEW new, NEW m, NEW o, Off(mail, new, m, o), m.kind # "status",
           NEW C, Knows(mail, C), UNCHANGED <<server, accepted>>
    PROVE  /\ Mails(new)'
           /\ \A g, S : (\E x \in mail : Says(x, g, S)) => \E x \in new : Says(x, g, S)
           /\ \A g : Closed(mail, g) => g # o /\ \A x \in new : x[2] = g => Says(x, g, Monitor!Terminal)
           /\ \A g : ~Settled(mail, g)
           /\ active # Monitor!Untracked => o > active.goal
           /\ active' = active => Follows(new)'
<1>1. /\ o \in Goal /\ <<m, o>> \in mail /\ new \subseteq mail
      /\ \A x \in mail : x \notin new => x[1] = m /\ x[2] = o
    BY OffIs
<1>2. <<m, o>>[1] = m /\ <<m, o>>[2] = o
    OBVIOUS
<1>3. Mails(new)'
    BY MailsStays DEF Knows
<1>4. \A g : ~Says(<<m, o>>, g, Monitor!Terminal)
    BY <1>2 DEF Says
<1>5. ASSUME NEW g, NEW S, \E x \in mail : Says(x, g, S)
      PROVE  \E x \in new : Says(x, g, S)
    BY <1>1, <1>5 DEF Says
<1>6. ASSUME NEW g, Closed(mail, g)
      PROVE  g # o /\ \A x \in new : x[2] = g => Says(x, g, Monitor!Terminal)
    BY <1>1, <1>2, <1>4, <1>6 DEF Closed
<1>7. \A g : ~Settled(mail, g)
    BY <1>1, <1>4 DEF Settled
<1>8. active # Monitor!Untracked => o > active.goal
    BY <1>1, <1>2 DEF Knows, Follows, Call
<1>9. ASSUME active' = active PROVE Follows(new)'
    BY <1>1, <1>5, <1>9 DEF Knows, Follows, Call, Says
<1> QED
    BY <1>3, <1>5, <1>6, <1>7, <1>8, <1>9

(* A request that is heard is waited for.                                  *)
LEMMA RequestHeard ==
    ASSUME NEW mail, NEW new, NEW m, NEW o, Off(mail, new, m, o), m.kind = "request",
           NEW C, Knows(mail, C), UNCHANGED <<server, accepted>>,
           pending' = o, UNCHANGED <<active, failures, successes, defeats>>
    PROVE  Knows(new, C)'
<1>1. /\ o \in Goal /\ <<m, o>> \in mail /\ new \subseteq mail /\ server[o] # "new"
      /\ \A x \in mail : x \notin new => x[1] = m /\ x[2] = o
      /\ \A x \in new : Call(x) => x[2] >= o /\ (x[1].kind = "request" => x[2] > o)
    BY OffIs DEF IsTrue
<1>2. /\ Mails(new)' /\ Follows(new)'
      /\ \A g, S : (\E x \in mail : Says(x, g, S)) => \E x \in new : Says(x, g, S)
      /\ \A g : Closed(mail, g) => g # o /\ \A x \in new : x[2] = g => Says(x, g, Monitor!Terminal)
      /\ \A g : ~Settled(mail, g)
    BY CallStays
<1>3. Expects(new)'
    <2>1. <<m, o>>[1] = m /\ <<m, o>>[2] = o
        OBVIOUS
    <2>2. server[o] = "requested" \/ \E y \in mail : y[1].kind = "response" /\ y[2] = o
        BY <1>1, <2>1 DEF Knows, Mails
    <2>3. server[o] = "requested" \/ \E y \in new : y[1].kind = "response" /\ y[2] = o
        BY <1>1, <2>2
    <2> QED
        BY <1>1, <2>3 DEF Expects, Call
<1>4. Tells(new)'
    BY <1>2 DEF Knows, Tells, Latest, Says
<1>5. \A g : Closed(mail, g) => Closed(new, g)'
    BY <1>2 DEF Closed, Says
<1>6. Scores(new, C)'
    BY <1>5 DEF Knows, Scores, Monitor!Failed
<1> QED
    BY <1>2, <1>3, <1>4, <1>6 DEF Knows

(* A response that is heard answers the goal that is waited for.           *)
LEMMA ResponseIsMine ==
    ASSUME NEW mail, NEW new, NEW m, NEW o, Off(mail, new, m, o), m.kind = "response",
           Expects(mail), InOrder(server), pending \in Goal
    PROVE  pending = o
<1>1. /\ o \in Goal /\ <<m, o>> \in mail /\ new \subseteq mail /\ server[o] # "new"
      /\ \A x \in mail : x \notin new => x[1] = m /\ x[2] = o
      /\ \A x \in new : Call(x) => x[2] > o
    BY OffIs DEF IsTrue
<1>2. pending # Monitor!None /\ pending \in Nat /\ o \in Nat
    BY <1>1, NoGoal
<1>3. <<m, o>>[1] = m /\ <<m, o>>[2] = o
    OBVIOUS
<1>4. o >= pending
    BY <1>1, <1>2, <1>3 DEF Expects, Call
<1>5. ASSUME pending < o PROVE FALSE
    <2>1. server[pending] # "requested"
        BY <1>1, <1>5, StatesDiffer DEF InOrder
    <2>2. PICK y \in mail : y[1].kind = "response" /\ y[2] = pending
        BY <1>2, <2>1 DEF Expects
    <2>3. y \in new
        BY <1>1, <1>2, <1>5, <2>2
    <2>4. pending > o
        BY <1>1, <2>2, <2>3 DEF Call
    <2> QED
        BY <1>2, <1>5, <2>4
<1> QED
    BY <1>2, <1>4, <1>5

(* A response that was not waited for changes nothing.                     *)
LEMMA ResponseIgnored ==
    ASSUME NEW mail, NEW new, NEW m, NEW o, Off(mail, new, m, o), m.kind = "response",
           NEW C, Knows(mail, C), UNCHANGED <<server, accepted>>, pending = Monitor!None,
           UNCHANGED <<pending, active, failures, successes, defeats>>
    PROVE  Knows(new, C)'
<1>2. /\ Mails(new)' /\ Follows(new)'
      /\ \A g, S : (\E x \in mail : Says(x, g, S)) => \E x \in new : Says(x, g, S)
      /\ \A g : Closed(mail, g) => g # o /\ \A x \in new : x[2] = g => Says(x, g, Monitor!Terminal)
      /\ \A g : ~Settled(mail, g)
    BY CallStays
<1>3. Expects(new)'
    BY DEF Expects
<1>4. Tells(new)'
    BY <1>2 DEF Knows, Tells, Latest, Says
<1>5. \A g : Closed(mail, g) => Closed(new, g)'
    BY <1>2 DEF Closed, Says
<1>6. Scores(new, C)'
    BY <1>5 DEF Knows, Scores, Monitor!Failed
<1> QED
    BY <1>2, <1>3, <1>4, <1>6 DEF Knows

(* The goals that are told of when o was answered: a later one is told of  *)
(* by its status alone.                                                    *)
LEMMA TellsOthers ==
    ASSUME NEW mail, NEW new, NEW m, NEW o, Off(mail, new, m, o), m.kind = "response",
           NEW C, Knows(mail, C), UNCHANGED <<server, accepted>>,
           NEW g \in Goal, server[g] \in Answered, Latest(g), g # o
    PROVE  \E x \in new : Says(x, g, Monitor!Active)
<1>1. o \in Goal /\ server[o] # "new" /\ o \in Nat /\ g \in Nat /\ g # Monitor!None
    <2>1. o \in Goal /\ IsTrue(m, o, server, accepted)
        BY OffIs
    <2>2. server[o] # "new"
        BY <2>1 DEF IsTrue
    <2> QED
        BY <2>1, <2>2, NoGoal
<1>2. /\ \A S : (\E x \in mail : Says(x, g, S)) => \E x \in new : Says(x, g, S)
      /\ ~Settled(mail, g) /\ (active # Monitor!Untracked => o > active.goal)
    BY CallStays
<1>3. ~(o > g)
    BY <1>1 DEF Latest
<1>4. active.goal # g
    <2>1. active = Monitor!Untracked => active.goal = Monitor!None
        BY DEF Monitor!Untracked
    <2> QED
        BY <1>1, <1>2, <1>3, <2>1
<1>5. (\E x \in mail : Says(x, g, Monitor!Active)) \/ active.goal = g \/ Settled(mail, g)
    BY DEF Knows, Tells
<1> QED
    BY <1>2, <1>4, <1>5

(* A goal that was accepted is followed from the time of its acceptance.   *)
LEMMA AcceptanceHeard ==
    ASSUME NEW mail, NEW new, NEW m, NEW o, Off(mail, new, m, o), m.kind = "response", m.ok,
           NEW C, Knows(mail, C), UNCHANGED <<server, accepted>>,
           active' = Monitor!Track(o, m.stamp, Allowed[o]), pending' = Monitor!None,
           UNCHANGED <<failures, successes, defeats>>
    PROVE  Knows(new, C)'
<1>1. /\ o \in Goal /\ <<m, o>> \in mail /\ new \subseteq mail
      /\ \A x \in new : Call(x) => x[2] > o
      /\ server[o] \in Answered /\ accepted[o] = m.stamp /\ m \in Letter
    BY OffIs DEF IsTrue
<1>2. /\ Mails(new)'
      /\ \A g, S : (\E x \in mail : Says(x, g, S)) => \E x \in new : Says(x, g, S)
      /\ \A g : Closed(mail, g) => g # o /\ \A x \in new : x[2] = g => Says(x, g, Monitor!Terminal)
    BY CallStays
<1>3. active'.goal = o /\ active'.since = m.stamp /\ active'.allowed = Allowed[o]
    BY DEF Monitor!Track
<1>4. Expects(new)'
    BY DEF Expects
<1>5. Follows(new)'
    <2>1. <<m, o>>[2] = o
        OBVIOUS
    <2>2. server[o] \in Monitor!Terminal => \E x \in mail : Says(x, o, Monitor!Terminal)
        BY <1>1, <2>1 DEF Knows, Mails
    <2>3. accepted[o] <= m.stamp /\ Allowed[o] >= DefaultAllowed
        <3>1. m.stamp \in Nat
            BY <1>1, MonitorBounds DEF Letter
        <3> QED
            BY <1>1, <3>1, MonitorBounds
    <2> QED
        BY <1>1, <1>2, <1>3, <2>2, <2>3 DEF Follows, Call, Says
<1>6. Tells(new)'
    <2> SUFFICES ASSUME NEW g \in Goal, server[g] \in Answered, Latest(g), g # o
                 PROVE  \E x \in new : Says(x, g, Monitor!Active)
        BY <1>3 DEF Tells, Latest, Says
    <2> QED
        BY TellsOthers
<1>7. \A g \in Goal : Closed(mail, g) => Closed(new, g)'
    <2>1. \A g \in Goal : g # Monitor!None
        BY NoGoal
    <2> QED
        BY <1>2, <1>3, <2>1 DEF Closed, Says
<1>8. Scores(new, C)'
    BY <1>7 DEF Knows, Scores, Monitor!Failed
<1> QED
    BY <1>2, <1>4, <1>5, <1>6, <1>8 DEF Knows

(* One more failure is counted for a goal that failed, whichever goal the  *)
(* alert names.                                                            *)
LEMMA Defeat ==
    ASSUME NEW mail, NEW new, NEW C, NEW o \in Goal, Scores(mail, C), o \in Monitor!Failed, o \notin C,
           NEW a \in Goal, Monitor!FinalizeGoal(a, FALSE), server' = server,
           failures \in Nat, successes \in [Goal -> Nat], defeats \in [Goal -> Nat],
           \A g \in Goal : Closed(mail, g) => Closed(new, g)', Closed(new, o)'
    PROVE  Scores(new, C \cup {o})'
<1>1. /\ \A g \in Goal : /\ successes[g] <= 1
                         /\ successes[g] = 1 => server[g] = "succeeded" /\ Closed(mail, g)
      /\ C \subseteq Monitor!Failed /\ Cardinality(C) = Monitor!Total(defeats)
      /\ failures <= Monitor!Total(defeats)
      /\ \A g \in C : Closed(mail, g)
    BY DEF Scores
<1>2. /\ defeats' = [defeats EXCEPT ![a] = @ + 1] /\ failures' = failures + 1
      /\ successes' = successes
    BY DEF Monitor!FinalizeGoal
<1>3. /\ Monitor!Total(defeats') = Monitor!Total(defeats) + 1
      /\ Monitor!Total(defeats) \in Nat
    <2>1. \A f : f = [defeats EXCEPT ![a] = @ + 1] => Monitor!Total(f) = Monitor!Total(defeats) + 1
        BY TotalGrows
    <2> QED
        BY <1>2, <2>1, TotalIs
<1>4. Cardinality(C \cup {o}) = Cardinality(C) + 1
    <2>1. IsFiniteSet(Goal)
        BY MonitorBounds, FS_Interval
    <2>2. IsFiniteSet(C)
        BY <1>1, <2>1, FS_Subset DEF Monitor!Failed
    <2> QED
        BY <2>2, FS_AddElement
<1>5. C \cup {o} \subseteq Monitor!Failed'
    BY <1>1 DEF Monitor!Failed
<1>6. \A g \in C \cup {o} : Closed(new, g)'
    BY <1>1 DEF Monitor!Failed
<1>7. /\ Cardinality(C \cup {o}) = Monitor!Total(defeats')
      /\ failures' <= Monitor!Total(defeats')
    BY <1>1, <1>2, <1>3, <1>4
<1>8. \A g \in Goal : /\ successes'[g] <= 1
                      /\ successes'[g] = 1 => server'[g] = "succeeded" /\ Closed(new, g)'
    BY <1>1, <1>2
<1> QED
    BY <1>5, <1>6, <1>7, <1>8 DEF Scores

(* A refusal counts for the goal that was refused.                         *)
LEMMA RefusalHeard ==
    ASSUME NEW mail, NEW new, NEW m, NEW o, Off(mail, new, m, o), m.kind = "response", ~m.ok,
           NEW C, Knows(mail, C), UNCHANGED <<server, accepted>>,
           NEW a \in Goal, Monitor!FinalizeGoal(a, FALSE),
           failures \in Nat, successes \in [Goal -> Nat], defeats \in [Goal -> Nat]
    PROVE  Knows(new, C \cup {o})'
<1>1. /\ o \in Goal /\ <<m, o>> \in mail /\ new \subseteq mail
      /\ \A x \in new : Call(x) => x[2] > o
      /\ server[o] = "rejected"
    BY OffIs DEF IsTrue
<1>2. /\ Mails(new)'
      /\ \A g, S : (\E x \in mail : Says(x, g, S)) => \E x \in new : Says(x, g, S)
      /\ \A g : Closed(mail, g) => g # o /\ \A x \in new : x[2] = g => Says(x, g, Monitor!Terminal)
    BY CallStays
<1>3. active' = Monitor!Untracked /\ pending' = Monitor!None
    BY DEF Monitor!FinalizeGoal
<1>4. Expects(new)' /\ Follows(new)'
    BY <1>3 DEF Expects, Follows
<1>5. Tells(new)'
    <2> SUFFICES ASSUME NEW g \in Goal, server[g] \in Answered, Latest(g), g # o
                 PROVE  \E x \in new : Says(x, g, Monitor!Active)
        BY <1>1, StatesDiffer DEF Tells, Latest, Says
    <2> QED
        BY TellsOthers
<1>6. \A g \in Goal : g # Monitor!None /\ Monitor!Untracked.goal # g
    BY NoGoal
<1>7. \A g \in Goal : Closed(mail, g) => Closed(new, g)'
    BY <1>2, <1>3, <1>6 DEF Closed, Says
<1>8. Closed(new, o)'
    <2>1. ASSUME NEW x \in new, x[2] = o PROVE FALSE
        <3>1. IsTrue(x[1], x[2], server, accepted) /\ x[1] \in Letter
            BY <1>1 DEF Off
        <3>2. x[1].kind # "status"
            BY <1>1, <2>1, <3>1, StatesDiffer DEF IsTrue
        <3>3. o > o /\ o \in Nat
            BY <1>1, <2>1, <3>2, NoGoal DEF Call
        <3> QED
            BY <3>3
    <2> QED
        BY <1>1, <1>3, <1>6, <2>1, StatesDiffer DEF Closed
<1>9. o \notin C /\ o \in Monitor!Failed
    BY <1>1, <1>2 DEF Knows, Scores, Monitor!Failed
<1>10. Scores(new, C \cup {o})'
    <2>1. Scores(mail, C)
        BY DEF Knows
    <2> QED
        BY <1>1, <1>7, <1>8, <1>9, <2>1, Defeat
<1> QED
    BY <1>2, <1>4, <1>5, <1>10 DEF Knows

(* What a status about o says, and what the monitor made of o before.      *)
LEMMA StatusHeeded ==
    ASSUME NEW mail, NEW new, NEW m, NEW o, Off(mail, new, m, o), m.kind = "status",
           NEW C, Knows(mail, C), InOrder(server), active \in Monitor!TrackedGoal \cup {Monitor!Untracked}
    PROVE  ListOf(m.list, o) /\ Heeds(m.list, o) /\ pending # o
<1>1. /\ o \in Goal /\ <<m, o>> \in mail /\ m \in Letter
      /\ IsTrue(m, o, server, accepted)
      /\ \A x \in mail : x \notin new => x[1] = m /\ x[2] = o
      /\ \A x \in new : Call(x) => x[2] > o
      /\ \A x \in new : x[2] >= o
    BY OffIs
<1>2. /\ m.list[o] \in Answered /\ server[o] \in Answered
      /\ \A h \in Goal : (h < o => m.list[h] \in Over) /\ (h > o => m.list[h] = "new")
    BY <1>1 DEF IsTrue
<1>3. m.list \in [Goal -> GoalStates]
    BY <1>1 DEF Letter
<1>4. ListOf(m.list, o)
    BY <1>1, <1>2, <1>3 DEF ListOf
<1>5. o \in Nat /\ o # Monitor!None /\ ~(o > o)
    BY <1>1, NoGoal
<1>6. pending # o
    <2> SUFFICES ASSUME pending = o PROVE FALSE
        OBVIOUS
    <2>1. server[o] # "requested"
        BY <1>2, StatesDiffer
    <2>2. PICK y \in mail : y[1].kind = "response" /\ y[2] = o
        BY <1>5, <2>1 DEF Knows, Expects
    <2>3. y \in new
        BY <1>1, <2>2
    <2> QED
        BY <1>1, <1>5, <2>2, <2>3 DEF Call
<1>7. ASSUME active # Monitor!Untracked
      PROVE  active.goal \in Goal /\ active.goal >= o
    <2>1. active.goal \in Goal /\ active.goal \in Nat
        BY <1>7, NoGoal DEF Monitor!TrackedGoal
    <2>2. ASSUME active.goal < o PROVE FALSE
        <3>1. server[active.goal] \in Over
            BY <1>1, <1>2, <2>1, <2>2, StatesDiffer DEF InOrder
        <3>2. server[active.goal] \in Answered
            BY <1>7 DEF Knows, Follows
        <3>3. server[active.goal] \in Monitor!Terminal
            BY <3>1, <3>2, StatesDiffer DEF Over
        <3>4. PICK y \in mail : Says(y, active.goal, Monitor!Terminal)
            BY <1>7, <3>3 DEF Knows, Follows
        <3>5. y[2] = active.goal /\ y[2] # o
            BY <1>5, <2>1, <2>2, <3>4 DEF Says
        <3>6. y \in new
            BY <1>1, <3>5
        <3>7. y[2] >= o
            BY <1>1, <3>6
        <3> QED
            BY <1>5, <2>1, <2>2, <3>5, <3>7
    <2> QED
        BY <1>5, <2>1, <2>2
<1> QED
    BY <1>4, <1>6, <1>7 DEF Heeds

(* A status that is heard takes no call away and ends no goal but o.       *)
LEMMA StatusStays ==
    ASSUME NEW mail, NEW new, NEW m, NEW o, Off(mail, new, m, o), m.kind = "status",
           NEW C, Knows(mail, C), UNCHANGED <<server, accepted>>
    PROVE  /\ Mails(new)' /\ (pending' = pending => Expects(new)')
           /\ \A g, S : (\E x \in mail : Says(x, g, S)) =>
                 (\E x \in new : Says(x, g, S)) \/ (g = o /\ m.list[o] \in S)
           /\ \A g : Closed(mail, g) => /\ g = o => m.list[o] \in Monitor!Terminal
                                        /\ \A x \in new : x[2] = g => Says(x, g, Monitor!Terminal)
           /\ \A g : Settled(mail, g) => g = o /\ m.list[o] \in Monitor!Terminal
<1>1. /\ <<m, o>> \in mail /\ new \subseteq mail
      /\ \A x \in mail : x \notin new => x[1] = m /\ x[2] = o
    BY OffIs
<1>2. <<m, o>>[1] = m /\ <<m, o>>[2] = o
    OBVIOUS
<1>3. Mails(new)'
    BY MailsStays DEF Knows
<1>4. ASSUME pending' = pending PROVE Expects(new)'
    <2>1. \A p : (\E x \in mail : x[1].kind = "response" /\ x[2] = p)
                 => \E x \in new : x[1].kind = "response" /\ x[2] = p
        BY <1>1
    <2> QED
        BY <1>1, <1>4, <2>1 DEF Knows, Expects, Call
<1>5. ASSUME NEW g, NEW S, \E x \in mail : Says(x, g, S)
      PROVE  (\E x \in new : Says(x, g, S)) \/ (g = o /\ m.list[o] \in S)
    BY <1>1, <1>5 DEF Says
<1>6. ASSUME NEW g, Closed(mail, g)
      PROVE  /\ g = o => m.list[o] \in Monitor!Terminal
             /\ \A x \in new : x[2] = g => Says(x, g, Monitor!Terminal)
    BY <1>1, <1>2, <1>6 DEF Closed, Says
<1>7. ASSUME NEW g, Settled(mail, g) PROVE g = o /\ m.list[o] \in Monitor!Terminal
    BY <1>1, <1>2, <1>7 DEF Settled, Says
<1> QED
    BY <1>3, <1>4, <1>5, <1>6, <1>7

(* A goal that is first heard of by its status is followed from now.       *)
LEMMA FirstHeard ==
    ASSUME NEW mail, NEW new, NEW m, NEW o, Off(mail, new, m, o), m.kind = "status",
           NEW C, Knows(mail, C), UNCHANGED <<server, accepted>>,
           now \in Nat, accepted[o] <= now,
           active = Monitor!Untracked, m.list[o] \in Monitor!Active, active' = Monitor!Track(o, now, DefaultAllowed),
           UNCHANGED <<pending, failures, successes, defeats>>
    PROVE  Knows(new, C)'
<1>1. /\ o \in Goal /\ <<m, o>> \in mail /\ new \subseteq mail
      /\ server[o] \in Answered
      /\ \A x \in new : Call(x) => x[2] > o
    BY OffIs DEF IsTrue
<1>2. /\ Mails(new)' /\ Expects(new)'
      /\ \A g, S : (\E x \in mail : Says(x, g, S)) =>
            (\E x \in new : Says(x, g, S)) \/ (g = o /\ m.list[o] \in S)
      /\ \A g : Closed(mail, g) => /\ g = o => m.list[o] \in Monitor!Terminal
                                   /\ \A x \in new : x[2] = g => Says(x, g, Monitor!Terminal)
      /\ \A g : Settled(mail, g) => g = o /\ m.list[o] \in Monitor!Terminal
    BY StatusStays
<1>3. m.list[o] \notin Monitor!Terminal
    BY StatesDiffer
<1>4. active'.goal = o /\ active'.since = now /\ active'.allowed = DefaultAllowed
    BY DEF Monitor!Track
<1>5. Follows(new)'
    <2>1. <<m, o>>[2] = o
        OBVIOUS
    <2>2. server[o] \in Monitor!Terminal => \E x \in mail : Says(x, o, Monitor!Terminal)
        BY <1>1, <2>1 DEF Knows, Mails
    <2>3. DefaultAllowed >= DefaultAllowed
        BY MonitorBounds
    <2> QED
        BY <1>1, <1>2, <1>3, <1>4, <2>2, <2>3 DEF Follows, Call, Says
<1>6. Tells(new)'
    <2> SUFFICES ASSUME NEW g \in Goal, server[g] \in Answered, Latest(g), g # o
                 PROVE  \E x \in new : Says(x, g, Monitor!Active)
        BY <1>4 DEF Tells, Latest, Says
    <2>1. active.goal # g
        BY NoGoal
    <2>2. ~Settled(mail, g)
        BY <1>2
    <2>3. \E x \in mail : Says(x, g, Monitor!Active)
        BY <2>1, <2>2 DEF Knows, Tells
    <2> QED
        BY <1>2, <2>3
<1>7. \A g \in Goal : Closed(mail, g) => Closed(new, g)'
    BY <1>2, <1>3, <1>4 DEF Closed, Says
<1>8. Scores(new, C)'
    BY <1>7 DEF Knows, Scores, Monitor!Failed
<1> QED
    BY <1>2, <1>5, <1>6, <1>8 DEF Knows

(* A status that says nothing new changes nothing.                         *)
LEMMA NothingHeard ==
    ASSUME NEW mail, NEW new, NEW m, NEW o, Off(mail, new, m, o), m.kind = "status",
           NEW C, Knows(mail, C), UNCHANGED <<server, accepted>>,
           Heeds(m.list, o), ~(active = Monitor!Untracked /\ m.list[o] \in Monitor!Active),
           ~(active.goal = o /\ m.list[o] \in Monitor!Terminal),
           UNCHANGED <<active, pending, failures, successes, defeats>>
    PROVE  Knows(new, C)'
<1>1. o \in Goal /\ <<m, o>> \in mail /\ new \subseteq mail
    BY OffIs
<1>2. /\ Mails(new)' /\ Expects(new)'
      /\ \A g, S : (\E x \in mail : Says(x, g, S)) =>
            (\E x \in new : Says(x, g, S)) \/ (g = o /\ m.list[o] \in S)
      /\ \A g : Closed(mail, g) => /\ g = o => m.list[o] \in Monitor!Terminal
                                   /\ \A x \in new : x[2] = g => Says(x, g, Monitor!Terminal)
      /\ \A g : Settled(mail, g) => g = o /\ m.list[o] \in Monitor!Terminal
    BY StatusStays
<1>3. Follows(new)'
    BY <1>1, <1>2 DEF Knows, Follows, Call, Says
<1>4. ASSUME NEW g \in Goal, server[g] \in Answered, Latest(g)
      PROVE  (\E x \in new : Says(x, g, Monitor!Active)) \/ active.goal = g \/ Settled(new, g)'
    <2>1. (\E x \in mail : Says(x, g, Monitor!Active)) \/ active.goal = g \/ Settled(mail, g)
        BY <1>4 DEF Knows, Tells
    <2>2. CASE Settled(mail, g)
        <3>1. Settled(new, g)'
            BY <1>1, <2>2 DEF Settled, Says
        <3> QED
            BY <3>1
    <2>3. ASSUME g = o, m.list[o] \in Monitor!Active PROVE active.goal = g
        <3>1. active # Monitor!Untracked /\ active.goal \in Goal /\ active.goal >= o
            BY <2>3 DEF Heeds
        <3>2. server[active.goal] # "new"
            BY <3>1, StatesDiffer DEF Knows, Follows
        <3>3. ~(active.goal > g)
            BY <1>4, <3>1, <3>2 DEF Latest
        <3>4. active.goal \in Nat /\ g \in Nat
            BY <3>1, NoGoal
        <3> QED
            BY <2>3, <3>1, <3>3, <3>4
    <2> QED
        BY <1>2, <2>1, <2>2, <2>3
<1>5. Tells(new)'
    BY <1>4 DEF Tells, Latest, Says
<1>6. \A g \in Goal : Closed(mail, g) => Closed(new, g)'
    BY <1>2 DEF Closed, Says
<1>7. Scores(new, C)'
    BY <1>6 DEF Knows, Scores, Monitor!Failed
<1> QED
    BY <1>2, <1>3, <1>5, <1>7 DEF Knows

(* The monitor reports the end of g; it follows g.                         *)
Ends(m, g) == Monitor!FinalizeGoal(g, m.list[g] = "succeeded")

Tracks(g) == active # Monitor!Untracked /\ active.goal = g

(* Nothing but the end of the last goal is left to be heard of it.         *)
LEMMA EndSettles ==
    ASSUME NEW mail, NEW new, NEW m, NEW o, Off(mail, new, m, o), m.kind = "status",
           NEW C, Knows(mail, C), UNCHANGED <<server, accepted>>,
           Tracks(o), m.list[o] \in Monitor!Terminal,
           active' = Monitor!Untracked, pending' = Monitor!None,
           IF server[o] = "succeeded" THEN successes'[o] = 1 ELSE defeats'[o] > 0 /\ failures' > 0
    PROVE  Tells(new)'
<1>0. \A x \in mail : x[2] \in Goal /\ server[x[2]] # "new"
    BY OffMail
<1>1. /\ o \in Goal /\ new \subseteq mail /\ IsTrue(m, o, server, accepted)
      /\ \A x \in new : x[2] >= o /\ (x[2] = o /\ m.list[o] \in Monitor!Terminal => Says(x, o, Monitor!Terminal))
    BY OffStatus
<1>2. server[o] \in Monitor!Terminal
    BY <1>1 DEF IsTrue
<1>3. \A g, S : (\E x \in mail : Says(x, g, S)) =>
            (\E x \in new : Says(x, g, S)) \/ (g = o /\ m.list[o] \in S)
    BY StatusStays
<1>4. ASSUME NEW g \in Goal, server[g] \in Answered, Latest(g), g # o
      PROVE  \E x \in new : Says(x, g, Monitor!Active)
    <2>1. ~Settled(mail, g)
        BY DEF Settled, Tracks
    <2>2. \E x \in mail : Says(x, g, Monitor!Active)
        BY <1>4, <2>1 DEF Knows, Tells, Tracks
    <2> QED
        BY <1>3, <1>4, <2>2
<1>5. ASSUME Latest(o) PROVE Settled(new, o)'
    <2>1. ASSUME NEW x \in new PROVE Says(x, o, Monitor!Terminal)
        <3>1. x[2] \in Goal /\ server[x[2]] # "new" /\ x[2] >= o
            BY <1>0, <1>1
        <3>2. ~(x[2] > o)
            BY <1>5, <3>1 DEF Latest
        <3>3. x[2] \in Nat /\ o \in Nat
            BY <1>1, <3>1, NoGoal
        <3>4. x[2] = o
            BY <3>1, <3>2, <3>3
        <3> QED
            BY <1>1, <3>4
    <2> QED
        BY <1>2, <2>1 DEF Settled, Says
<1>6. \A g \in Goal : Latest(g)' => Latest(g)
    BY DEF Latest
<1> QED
    BY <1>4, <1>5, <1>6 DEF Tells, Says

(* The end of the goal that is followed counts for it.                     *)
LEMMA EndHeard ==
    ASSUME NEW mail, NEW new, NEW m, NEW o, Off(mail, new, m, o), m.kind = "status",
           NEW C, Knows(mail, C), UNCHANGED <<server, accepted>>,
           Tracks(o), m.list[o] \in Monitor!Terminal,
           Ends(m, o),
           failures \in Nat, successes \in [Goal -> Nat], defeats \in [Goal -> Nat]
    PROVE  \E D : Knows(new, D)'
<1>1. /\ o \in Goal /\ new \subseteq mail /\ IsTrue(m, o, server, accepted)
      /\ \A x \in new : x[2] = o /\ m.list[o] \in Monitor!Terminal => Says(x, o, Monitor!Terminal)
    BY OffStatus
<1>2. server[o] = m.list[o] /\ server[o] \in Monitor!Terminal
    BY <1>1 DEF IsTrue
<1>3. active' = Monitor!Untracked /\ pending' = Monitor!None
    BY DEF Ends, Monitor!FinalizeGoal
<1>4. Expects(new)' /\ Follows(new)'
    BY <1>3 DEF Expects, Follows
<1>5. Mails(new)'
    BY StatusStays
<1>6. \A g \in Goal : g # Monitor!None /\ Monitor!Untracked.goal # g
    BY NoGoal
<1>7. \A g : Closed(mail, g) => \A x \in new : x[2] = g => Says(x, g, Monitor!Terminal)
    BY StatusStays
<1>8. \A g \in Goal : Closed(mail, g) => Closed(new, g)'
    BY <1>3, <1>6, <1>7 DEF Closed, Says
<1>9. Closed(new, o)'
    BY <1>1, <1>2, <1>3, <1>6, StatesDiffer DEF Closed, Says
<1>10. Scores(mail, C) /\ ~Closed(mail, o)
    BY DEF Knows, Closed, Tracks
<1>11. CASE server[o] = "succeeded"
    <2>1. /\ successes' = [successes EXCEPT ![o] = @ + 1] /\ failures' = 0
          /\ defeats' = defeats
        BY <1>2, <1>11 DEF Ends, Monitor!FinalizeGoal
    <2>2. successes[o] <= 1 /\ successes[o] # 1 /\ successes[o] \in Nat
        BY <1>1, <1>10 DEF Scores
    <2>3. successes[o] = 0
        BY <2>2
    <2>4. successes'[o] = 1 /\ \A g \in Goal : g # o => successes'[g] = successes[g]
        BY <1>1, <2>1, <2>3
    <2>5. 0 <= Monitor!Total(defeats)
        BY TotalIs
    <2>6. \A g \in Goal : /\ successes'[g] <= 1
                          /\ successes'[g] = 1 => server'[g] = "succeeded" /\ Closed(new, g)'
        BY <1>8, <1>9, <1>10, <1>11, <2>4 DEF Scores
    <2>7. Scores(new, C)'
        BY <1>8, <1>10, <2>1, <2>5, <2>6 DEF Scores, Monitor!Failed
    <2>8. Tells(new)'
        BY <1>3, <1>11, <2>4, EndSettles
    <2>9. Knows(new, C)'
        BY <1>4, <1>5, <2>7, <2>8 DEF Knows
    <2> QED
        BY <2>9
<1>12. CASE server[o] # "succeeded"
    <2>1. Monitor!FinalizeGoal(o, FALSE)
        BY <1>2, <1>12 DEF Ends, Monitor!FinalizeGoal
    <2>2. defeats' = [defeats EXCEPT ![o] = @ + 1] /\ failures' = failures + 1
        BY <2>1 DEF Monitor!FinalizeGoal
    <2>3. defeats'[o] = defeats[o] + 1 /\ defeats[o] \in Nat
        BY <1>1, <2>2
    <2>4. defeats'[o] > 0 /\ failures' > 0
        BY <2>2, <2>3
    <2>5. o \in Monitor!Failed /\ o \notin C
        BY <1>1, <1>2, <1>10, <1>12 DEF Monitor!Failed, Monitor!Terminal, Scores
    <2>6. Scores(new, C \cup {o})'
        BY <1>1, <1>8, <1>9, <1>10, <2>1, <2>5, Defeat
    <2>7. Tells(new)'
        BY <1>3, <1>12, <2>4, EndSettles
    <2>8. Knows(new, C \cup {o})'
        BY <1>4, <1>5, <2>6, <2>7 DEF Knows
    <2> QED
        BY <2>8
<1> QED
    BY <1>11, <1>12

(* The monitor hears the i-th message, m about o.                          *)
Hears(i, old, new, m, o, C, own) ==
    /\ m = bus[i] /\ Off(old, new, m, o) /\ Knows(old, C)
    /\ new = Mail(bus', own) /\ Chain(bus', own, server', accepted')
    /\ bus' \in Seq(Letter) /\ Len(bus') <= MaxBus
    /\ UNCHANGED <<now, server, accepted, early>>

(* Whatever is heard is such a message.                                    *)
LEMMA Hearing ==
    ASSUME MonitorInv, NEW i \in DOMAIN bus, Monitor!Heard(i)
    PROVE  \E old, new, m, o, C, own : Hears(i, old, new, m, o, C, own)
<1>1. Monitor!TypeOK /\ bus \in Seq(Letter)
    BY DEF MonitorInv
<1>2. PICK own, C : Chain(bus, own, server, accepted) /\ Knows(Mail(bus, own), C)
    BY DEF MonitorInv
<1>3. /\ \E new, o : /\ Chain(bus', new, server', accepted')
                     /\ Off(Mail(bus, own), Mail(bus', new), bus[i], o)
      /\ bus' \in Seq(Letter) /\ Len(bus') = Len(bus) - 1
      /\ UNCHANGED <<now, server, accepted, early>>
    BY <1>1, <1>2, HeardIs
<1>4. PICK next, o : /\ Chain(bus', next, server', accepted')
                     /\ Off(Mail(bus, own), Mail(bus', next), bus[i], o)
    BY <1>3
<1>5. Len(bus') <= MaxBus
    <2>1. Len(bus) <= MaxBus /\ Len(bus) \in Nat /\ MaxBus \in Nat
        BY <1>1, MonitorBounds DEF Monitor!TypeOK
    <2> QED
        BY <1>3, <2>1
<1>6. Hears(i, Mail(bus, own), Mail(bus', next), bus[i], o, C, next)
    BY <1>2, <1>3, <1>4, <1>5 DEF Hears
<1> QED
    BY <1>6

(* Hearing it keeps the invariant with what it keeps of the knowledge.     *)
LEMMA HeardKeeps ==
    ASSUME MonitorInv, NEW i \in DOMAIN bus, NEW old, NEW new, NEW m, NEW o, NEW C, NEW own,
           Hears(i, old, new, m, o, C, own), NEW D, Knows(new, D)', Monitor!TypeOK'
    PROVE  MonitorInv'
    BY HearStep DEF Hears

(* SendGoalRequest keeps the invariant.                                    *)
LEMMA RequestKept ==
    ASSUME MonitorInv, NEW i \in DOMAIN bus, Monitor!SendGoalRequest(i)
    PROVE  MonitorInv'
<1>1. Monitor!TypeOK /\ bus \in Seq(Letter) /\ InOrder(server)
    BY DEF MonitorInv
<1>2. /\ bus[i].kind = "request" /\ Monitor!Heard(i) /\ pending' = bus[i].goal
      /\ UNCHANGED <<state, active, failures, alert, successes, defeats>>
    BY DEF Monitor!SendGoalRequest
<1>3. PICK old, new, m, o, C, own : Hears(i, old, new, m, o, C, own)
    BY <1>2, Hearing
<1>4. /\ m = bus[i] /\ Off(old, new, m, o) /\ Knows(old, C)
      /\ Len(bus') <= MaxBus /\ UNCHANGED <<now, server, accepted, early>>
    BY <1>3 DEF Hears
<1>5. m.goal = o /\ o \in Goal
    <2>1. Off(old, new, m, o)
        BY <1>4
    <2>2. IsTrue(m, o, server, accepted) /\ o \in Goal
        BY <2>1, OffIs
    <2> QED
        BY <1>2, <1>4, <2>2 DEF IsTrue
<1>6. Knows(new, C)'
    BY <1>2, <1>4, <1>5, RequestHeard
<1>7. Monitor!TypeOK'
    BY <1>1, <1>2, <1>4, <1>5 DEF Monitor!TypeOK
<1> QED
    BY <1>3, <1>6, <1>7, HeardKeeps

(* SendGoalResponse keeps the invariant.                                   *)
LEMMA ResponseKept ==
    ASSUME MonitorInv, NEW i \in DOMAIN bus, Monitor!SendGoalResponse(i)
    PROVE  MonitorInv'
<1>1. Monitor!TypeOK /\ bus \in Seq(Letter) /\ InOrder(server)
    BY DEF MonitorInv
<1>2. bus[i].kind = "response" /\ Monitor!Heard(i)
    BY DEF Monitor!SendGoalResponse
<1>3. PICK old, new, m, o, C, own : Hears(i, old, new, m, o, C, own)
    BY <1>2, Hearing
<1>4. /\ m = bus[i] /\ Off(old, new, m, o) /\ Knows(old, C)
      /\ Len(bus') <= MaxBus /\ UNCHANGED <<now, server, accepted, early>>
    BY <1>3 DEF Hears
<1>5. m \in Letter /\ o \in Goal /\ m.kind = "response"
    <2>1. Off(old, new, m, o)
        BY <1>4
    <2>2. m \in Letter /\ o \in Goal
        BY <2>1, OffIs
    <2> QED
        BY <1>2, <1>4, <2>2
<1>6. pending # Monitor!None => pending = o
    <2> SUFFICES ASSUME pending # Monitor!None PROVE pending = o
        OBVIOUS
    <2>1. pending \in Goal
        BY <1>1 DEF Monitor!TypeOK
    <2>2. Expects(old)
        BY <1>4 DEF Knows
    <2> QED
        BY <1>1, <1>4, <1>5, <2>1, <2>2, ResponseIsMine
<1>7. CASE /\ pending = Monitor!None
           /\ UNCHANGED <<state, pending, active, failures, alert, successes, defeats>>
    <2>1. Knows(new, C)'
        BY <1>4, <1>5, <1>7, ResponseIgnored
    <2>2. Monitor!TypeOK'
        BY <1>1, <1>4, <1>7 DEF Monitor!TypeOK
    <2> QED
        BY <1>3, <2>1, <2>2, HeardKeeps
<1>8. CASE /\ pending # Monitor!None /\ bus[i].ok
           /\ active' = Monitor!Promoted(bus[i].stamp)
           /\ pending' = Monitor!None /\ state' = "EXECUTING"
           /\ UNCHANGED <<failures, alert, successes, defeats>>
    <2>1. active' = Monitor!Track(o, m.stamp, Allowed[o]) /\ m.ok
        BY <1>4, <1>6, <1>8 DEF Monitor!Promoted
    <2>2. Knows(new, C)'
        BY <1>4, <1>5, <1>8, <2>1, AcceptanceHeard
    <2>3. active' \in Monitor!TrackedGoal /\ active' # Monitor!Untracked
        <3>1. m.stamp \in 0..MaxTime
            BY <1>5 DEF Letter
        <3>2. o # Monitor!Untracked.goal
            BY <1>5, NoGoal
        <3> QED
            BY <1>5, <2>1, <3>1, <3>2 DEF Monitor!Track, Monitor!TrackedGoal
    <2>4. Monitor!TypeOK'
        BY <1>1, <1>4, <1>8, <2>3 DEF Monitor!TypeOK
    <2> QED
        BY <1>3, <2>2, <2>4, HeardKeeps
<1>9. CASE /\ pending # Monitor!None /\ ~bus[i].ok
           /\ Monitor!FinalizeGoal(IF active = Monitor!Untracked THEN pending ELSE active.goal, FALSE)
    <2> DEFINE a == IF active = Monitor!Untracked THEN pending ELSE active.goal
    <2>1. a \in Goal
        BY <1>1, <1>9 DEF Monitor!TypeOK, Monitor!TrackedGoal
    <2>2. Monitor!FinalizeGoal(a, FALSE) /\ ~m.ok
        BY <1>4, <1>9
    <2> HIDE DEF a
    <2>3. /\ failures \in Nat /\ successes \in [Goal -> Nat]
          /\ defeats \in [Goal -> Nat]
        BY <1>1 DEF Monitor!TypeOK
    <2>4. Knows(new, C \cup {o})'
        BY <1>4, <1>5, <2>1, <2>2, <2>3, RefusalHeard
    <2>5. Monitor!TypeOK'
        <3>1. /\ defeats' = [defeats EXCEPT ![a] = @ + 1]
              /\ failures' = failures + 1
              /\ alert' = IF failures' >= 3 THEN "threshold" ELSE "failed"
              /\ successes' = successes
              /\ state' = "IDLE" /\ active' = Monitor!Untracked
              /\ pending' = Monitor!None
            BY <2>2 DEF Monitor!FinalizeGoal
        <3>2. defeats' \in [Goal -> Nat] /\ failures' \in Nat
            <4>1. /\ defeats' = [defeats EXCEPT ![a] = @ + 1]
                  /\ failures' = failures + 1
                BY <3>1
            <4>2. defeats' \in [Goal -> Nat]
                BY <2>1, <2>3, <4>1
            <4> QED
                BY <2>3, <4>1, <4>2
        <3>3. alert' \in {"idle", "completed", "failed", "threshold", "overdue"}
            BY <3>1
        <3> QED
            BY <1>1, <1>4, <3>1, <3>2, <3>3 DEF Monitor!TypeOK
    <2> QED
        BY <1>3, <2>4, <2>5, HeardKeeps
<1> QED
    BY <1>7, <1>8, <1>9 DEF Monitor!SendGoalResponse

(* finalize_goal keeps the types.                                          *)
LEMMA FinalizeTypes ==
    ASSUME Monitor!TypeOK, NEW g \in Goal, NEW ok \in BOOLEAN, Monitor!FinalizeGoal(g, ok),
           Len(bus') <= MaxBus, UNCHANGED <<now, server, accepted, early>>
    PROVE  Monitor!TypeOK'
<1>1. failures \in Nat /\ successes \in [Goal -> Nat] /\ defeats \in [Goal -> Nat]
    BY DEF Monitor!TypeOK
<1>2. state' = "IDLE" /\ active' = Monitor!Untracked /\ pending' = Monitor!None
    BY DEF Monitor!FinalizeGoal
<1>3. CASE ok
    <2>1. /\ successes' = [successes EXCEPT ![g] = @ + 1]
          /\ failures' = 0 /\ alert' = "completed" /\ defeats' = defeats
        BY <1>3 DEF Monitor!FinalizeGoal
    <2>2. successes' \in [Goal -> Nat]
        BY <1>1, <2>1
    <2> QED
        BY <1>1, <1>2, <2>1, <2>2 DEF Monitor!TypeOK
<1>4. CASE ~ok
    <2>1. /\ defeats' = [defeats EXCEPT ![g] = @ + 1] /\ failures' = failures + 1
          /\ alert' = (IF failures' >= 3 THEN "threshold" ELSE "failed")
          /\ successes' = successes
        BY <1>4 DEF Monitor!FinalizeGoal
    <2>2. defeats' \in [Goal -> Nat]
        BY <1>1, <2>1
    <2>3. failures' \in Nat
        BY <1>1, <2>1
    <2>4. alert' \in {"idle", "completed", "failed", "threshold", "overdue"}
        BY <2>1
    <2> QED
        BY <1>1, <1>2, <2>1, <2>2, <2>3, <2>4 DEF Monitor!TypeOK
<1> QED
    BY <1>3, <1>4

(* HearStatus keeps the invariant.                                         *)
LEMMA StatusKept ==
    ASSUME MonitorInv, NEW i \in DOMAIN bus, Monitor!HearStatus(i)
    PROVE  MonitorInv'
<1>1. Monitor!TypeOK /\ bus \in Seq(Letter) /\ InOrder(server) /\ Clock
    BY DEF MonitorInv
<1>2. bus[i].kind = "status" /\ Monitor!Heard(i)
    BY DEF Monitor!HearStatus
<1>3. PICK old, new, m, o, C, own : Hears(i, old, new, m, o, C, own)
    BY <1>2, Hearing
<1>4. /\ m = bus[i] /\ Off(old, new, m, o) /\ Knows(old, C)
      /\ Len(bus') <= MaxBus /\ UNCHANGED <<now, server, accepted, early>>
    BY <1>3 DEF Hears
<1>5. Off(old, new, m, o) /\ m.kind = "status"
    BY <1>2, <1>4
<1>6. o \in Goal /\ m \in Letter
    BY <1>5, OffIs
<1>7. active \in Monitor!TrackedGoal \cup {Monitor!Untracked}
    BY <1>1 DEF Monitor!TypeOK
<1>8. ListOf(m.list, o) /\ Heeds(m.list, o) /\ pending # o
    BY <1>1, <1>4, <1>5, <1>7, StatusHeeded
<1>9. Monitor!Reading(m.list) = Sees(m.list, o)
    BY <1>8, ScanIs DEF Monitor!Reading
<1>10. PICK s : /\ s = Sees(m.list, o)
                /\ s.done => Monitor!FinalizeGoal(s.active.goal, m.list[s.active.goal] = "succeeded")
                /\ ~s.done => /\ pending' = s.pending /\ active' = s.active
                              /\ state' = IF s.active = Monitor!Untracked THEN state ELSE "EXECUTING"
                              /\ UNCHANGED <<failures, alert, successes, defeats>>
    BY <1>4, <1>9 DEF Monitor!HearStatus
<1>11. now \in Nat /\ now \in 0..MaxTime /\ accepted[o] <= now
    BY <1>1, <1>6, MonitorBounds DEF Monitor!TypeOK, Clock
<1>12. CASE active = Monitor!Untracked /\ m.list[o] \in Monitor!Active
    <2>1. /\ s.pending = pending /\ s.active = Monitor!Track(o, now, DefaultAllowed)
          /\ ~s.done
        BY <1>10, <1>12 DEF Sees
    <2>2. /\ Monitor!Track(o, now, DefaultAllowed) \in Monitor!TrackedGoal
          /\ Monitor!Track(o, now, DefaultAllowed) # Monitor!Untracked
        <3>1. o # Monitor!Untracked.goal
            BY <1>6, NoGoal
        <3> QED
            BY <1>6, <1>11, <3>1 DEF Monitor!Track, Monitor!TrackedGoal
    <2>3. /\ pending' = pending /\ active' = Monitor!Track(o, now, DefaultAllowed)
          /\ state' = "EXECUTING"
          /\ UNCHANGED <<failures, alert, successes, defeats>>
        BY <1>10, <2>1, <2>2
    <2>4. Knows(new, C)'
        BY <1>4, <1>5, <1>11, <1>12, <2>3, FirstHeard
    <2>5. Monitor!TypeOK'
        BY <1>1, <1>4, <2>2, <2>3 DEF Monitor!TypeOK
    <2> QED
        BY <1>3, <2>4, <2>5, HeardKeeps
<1>13. CASE ~(active = Monitor!Untracked /\ m.list[o] \in Monitor!Active)
    <2>1. /\ s.pending = pending /\ s.active = active
          /\ s.done <=> active.goal = o /\ m.list[o] \in Monitor!Terminal
        <3>1. s = [pending |-> pending, active |-> active,
                   done |-> active.goal = o /\ m.list[o] \in Monitor!Terminal]
            BY <1>10, <1>13 DEF Sees
        <3> QED
            BY <3>1
    <2>2. CASE active.goal = o /\ m.list[o] \in Monitor!Terminal
        <3>1. Ends(m, o)
            <4>1. Monitor!FinalizeGoal(s.active.goal, m.list[s.active.goal] = "succeeded")
                BY <1>10, <2>1, <2>2
            <4>2. s.active.goal = o
                BY <2>1, <2>2
            <4> QED
                BY <4>1, <4>2, Zenon DEF Ends
        <3>2. active # Monitor!Untracked
            BY <1>6, <2>2, NoGoal
        <3>3. /\ failures \in Nat /\ successes \in [Goal -> Nat]
              /\ defeats \in [Goal -> Nat]
            BY <1>1 DEF Monitor!TypeOK
        <3>4. Tracks(o) /\ m.list[o] \in Monitor!Terminal
            BY <2>2, <3>2 DEF Tracks
        <3>5. \E D : Knows(new, D)'
            BY <1>4, <1>5, <3>1, <3>3, <3>4, EndHeard
        <3>6. Monitor!TypeOK'
            <4>1. PICK ok \in BOOLEAN : Monitor!FinalizeGoal(o, ok)
                BY <3>1 DEF Ends
            <4> QED
                BY <1>1, <1>4, <1>6, <4>1, FinalizeTypes
        <3> QED
            BY <1>3, <3>5, <3>6, HeardKeeps
    <2>3. CASE ~(active.goal = o /\ m.list[o] \in Monitor!Terminal)
        <3>1. /\ pending' = pending /\ active' = active
              /\ state' = IF active = Monitor!Untracked THEN state ELSE "EXECUTING"
              /\ UNCHANGED <<failures, alert, successes, defeats>>
            BY <1>10, <2>1, <2>3
        <3>2. Knows(new, C)'
            BY <1>4, <1>5, <1>8, <1>13, <2>3, <3>1, NothingHeard
        <3>3. Monitor!TypeOK'
            BY <1>1, <1>4, <3>1 DEF Monitor!TypeOK
        <3> QED
            BY <1>3, <3>2, <3>3, HeardKeeps
    <2> QED
        BY <2>2, <2>3
<1> QED
    BY <1>12, <1>13

(* The knowledge does not depend on the warning, the alert or the clock.   *)
LEMMA KnowsStays ==
    ASSUME NEW mail, NEW C, Knows(mail, C), UNCHANGED <<server, accepted>>,
           UNCHANGED <<pending, failures, successes, defeats>>,
           active'.goal = active.goal, active'.since = active.since,
           active'.allowed = active.allowed, active' = Monitor!Untracked <=> active = Monitor!Untracked
    PROVE  Knows(mail, C)'
<1>1. Mails(mail)' /\ Expects(mail)'
    BY DEF Knows, Mails, Expects, Call, Says
<1>2. Follows(mail)'
    BY DEF Knows, Follows, Call, Says
<1>3. \A g : (Settled(mail, g) => Settled(mail, g)') /\ (Closed(mail, g) => Closed(mail, g)')
    BY DEF Settled, Closed, Says
<1>4. Tells(mail)'
    BY <1>3 DEF Knows, Tells, Latest, Says
<1>5. Scores(mail, C)'
    BY <1>3 DEF Knows, Scores, Monitor!Failed
<1> QED
    BY <1>1, <1>2, <1>4, <1>5 DEF Knows

(* A step of the monitor or of the clock that hears nothing.               *)
LEMMA QuietKept ==
    ASSUME MonitorInv, Monitor!TypeOK', early' = {}, UNCHANGED <<server, accepted, bus>>,
           now' = now \/ now' = now + 1,
           UNCHANGED <<pending, failures, successes, defeats>>,
           active'.goal = active.goal, active'.since = active.since,
           active'.allowed = active.allowed, active' = Monitor!Untracked <=> active = Monitor!Untracked
    PROVE  MonitorInv'
<1>1. Monitor!TypeOK /\ bus \in Seq(Letter) /\ InOrder(server) /\ Clock
    BY DEF MonitorInv
<1>2. PICK own, C : Chain(bus, own, server, accepted) /\ Knows(Mail(bus, own), C)
    BY DEF MonitorInv
<1>3. PICK mail : mail = Mail(bus, own)
    OBVIOUS
<1>4. Knows(mail, C)'
    BY <1>2, <1>3, KnowsStays
<1>5. Chain(bus', own, server', accepted') /\ mail = Mail(bus', own)
    BY <1>2, <1>3
<1>6. Clock'
    <2>1. \A g \in Goal : accepted[g] \in Nat /\ now \in Nat
        BY <1>1, MonitorBounds DEF Monitor!TypeOK
    <2> QED
        BY <1>1, <2>1 DEF Clock
<1>7. InOrder(server)' /\ (bus \in Seq(Letter))'
    BY <1>1
<1>8. mail = Mail(bus, own)' /\ Chain(bus, own, server, accepted)'
    BY <1>5
<1>9. Knows(Mail(bus, own), C)'
    BY <1>4, <1>8
<1> QED
    BY <1>6, <1>7, <1>8, <1>9 DEF MonitorInv

(* Time passes.                                                            *)
LEMMA TickKept ==
    ASSUME MonitorInv, Monitor!Tick
    PROVE  MonitorInv'
<1>1. Monitor!TypeOK /\ early = {}
    BY DEF MonitorInv
<1>2. /\ now < MaxTime /\ now' = now + 1 /\ UNCHANGED <<server, accepted, bus>>
      /\ UNCHANGED <<state, pending, active, failures, alert, successes, defeats, early>>
    BY DEF Monitor!Tick, Monitor!monitor
<1>3. now' \in 0..MaxTime
    BY <1>1, <1>2, MonitorBounds DEF Monitor!TypeOK
<1>4. Monitor!TypeOK'
    BY <1>1, <1>2, <1>3 DEF Monitor!TypeOK
<1> QED
    BY <1>1, <1>2, <1>4, QuietKept

(* A goal that is warned of is overdue by the clock of the server, too.    *)
LEMMA TimeoutKept ==
    ASSUME MonitorInv, Monitor!CheckTimeout
    PROVE  MonitorInv'
<1>1. Monitor!TypeOK /\ early = {}
    BY DEF MonitorInv
<1>2. /\ active # Monitor!Untracked /\ Monitor!Overdue
      /\ active' = [active EXCEPT !.warned = TRUE] /\ alert' = "overdue"
      /\ early' = IF now - accepted[active.goal] > DefaultAllowed THEN early
                  ELSE early \cup {active.goal}
      /\ UNCHANGED <<now, server, accepted, bus, state, pending, failures, successes, defeats>>
    BY DEF Monitor!CheckTimeout, Monitor!world
<1>3. active \in Monitor!TrackedGoal
    BY <1>1, <1>2 DEF Monitor!TypeOK
<1>4. /\ active' \in Monitor!TrackedGoal /\ active'.goal = active.goal
      /\ active'.since = active.since
      /\ active'.allowed = active.allowed
    BY <1>2, <1>3 DEF Monitor!TrackedGoal
<1>5. active' # Monitor!Untracked
    <2>1. active'.goal # Monitor!Untracked.goal
        BY <1>4, NoGoal DEF Monitor!TrackedGoal
    <2> QED
        BY <2>1
<1>6. now - accepted[active.goal] > DefaultAllowed
    <2>1. PICK own, C : Knows(Mail(bus, own), C)
        BY DEF MonitorInv
    <2>2. accepted[active.goal] <= active.since /\ active.allowed >= DefaultAllowed
        BY <1>2, <2>1 DEF Knows, Follows
    <2>3. active.goal \in Goal /\ active.since \in Nat /\ active.allowed \in Nat
        <3>1. \A g \in Goal : Allowed[g] \in Nat
            BY MonitorBounds
        <3> QED
            BY <1>3, <3>1, MonitorBounds DEF Monitor!TrackedGoal
    <2>4. accepted[active.goal] \in Nat /\ now \in Nat
        BY <1>1, <2>3, MonitorBounds DEF Monitor!TypeOK
    <2>5. now - active.since > active.allowed
        BY <1>2 DEF Monitor!Overdue
    <2> QED
        BY <2>2, <2>3, <2>4, <2>5, MonitorBounds
<1>7. Monitor!TypeOK' /\ early' = {}
    BY <1>1, <1>2, <1>4, <1>5, <1>6 DEF Monitor!TypeOK
<1> QED
    BY <1>2, <1>4, <1>5, <1>7, QuietKept

(* The heartbeat changes the alert alone.                                  *)
LEMMA HeartbeatKept ==
    ASSUME MonitorInv, Monitor!PublishHeartbeat
    PROVE  MonitorInv'
<1>1. Monitor!TypeOK /\ early = {}
    BY DEF MonitorInv
<1>2. /\ alert' = IF state = "IDLE" THEN "idle" ELSE alert
      /\ UNCHANGED <<now, server, accepted, bus, state, pending, active>>
      /\ UNCHANGED <<failures, successes, defeats, early>>
    BY DEF Monitor!PublishHeartbeat, Monitor!world
<1>3. Monitor!TypeOK'
    BY <1>1, <1>2 DEF Monitor!TypeOK
<1> QED
    BY <1>1, <1>2, <1>3, QuietKept

(* Nothing is known at first.                                              *)
LEMMA MonitorStarts == ASSUME Monitor!Init PROVE MonitorInv
<1>1. Monitor!TypeOK
    BY MonitorBounds DEF Monitor!Init, Monitor!TypeOK
<1>2. bus = <<>> /\ bus \in Seq(Letter) /\ early = {}
    BY DEF Monitor!Init
<1>3. InOrder(server)
    BY DEF Monitor!Init, InOrder
<1>4. Clock
    BY MonitorBounds DEF Monitor!Init, Clock
<1>5. Len(bus) = 0 /\ <<>> \in Seq(Goal) /\ Len(<<>>) = 0
    BY <1>2
<1>6. Chain(bus, <<>>, server, accepted)
    BY <1>5 DEF Chain
<1>7. Mail(bus, <<>>) = {}
    BY <1>5 DEF Mail
<1>8. Mails({}) /\ Expects({}) /\ Follows({})
    BY DEF Mails, Expects, Follows, Monitor!Init
<1>9. Tells({})
    BY StatesDiffer DEF Tells, Monitor!Init
<1>10. Scores({}, {})
    <2>1. Cardinality({}) = 0
        BY FS_EmptySet
    <2>2. defeats \in [Goal -> Nat] /\ \A g \in Goal : defeats[g] = 0
        BY DEF Monitor!Init
    <2>3. Monitor!Total(defeats) = 0 /\ failures = 0
        BY <2>2, TotalIs DEF Monitor!Init
    <2>4. \A g \in Goal : successes[g] = 0
        BY DEF Monitor!Init
    <2> QED
        BY <2>1, <2>3, <2>4 DEF Scores
<1>11. Knows(Mail(bus, <<>>), {})
    BY <1>7, <1>8, <1>9, <1>10 DEF Knows
<1> QED
    BY <1>1, <1>2, <1>3, <1>4, <1>6, <1>11 DEF MonitorInv

(* Every step of the monitor and of the world keeps the invariant.         *)
LEMMA MonitorKept ==
    ASSUME MonitorInv, Monitor!Next \/ UNCHANGED Monitor!vars
    PROVE  MonitorInv'
<1>1. CASE \E g \in Goal : Monitor!RequestGoal(g) \/ Monitor!AnswerGoal(g) \/ Monitor!ProceedGoal(g)
    BY <1>1, RequestKeeps, AnswerKeeps, ProceedKeeps
<1>2. CASE Monitor!Deliver
    BY <1>2, RequestKept, ResponseKept, StatusKept DEF Monitor!Deliver
<1>3. CASE UNCHANGED Monitor!vars
    <2>1. UNCHANGED <<now, server, accepted, bus, state, pending, active, failures, alert,
                      successes, defeats, early>>
        BY <1>3 DEF Monitor!vars
    <2>2. Monitor!TypeOK /\ early = {}
        BY DEF MonitorInv
    <2>3. Monitor!TypeOK'
        BY <2>1, <2>2 DEF Monitor!TypeOK
    <2> QED
        BY <2>1, <2>2, <2>3, QuietKept
<1> QED
    BY <1>1, <1>2, <1>3, TickKept, TimeoutKept, HeartbeatKept DEF Monitor!Next

(* With nothing left to hear the monitor has told of the last goal.        *)
LEMMA MonitorSettled ==
    ASSUME MonitorInv, bus = <<>>, \A g \in Goal : Monitor!Ended(g)
    PROVE  /\ state = "IDLE" /\ pending = Monitor!None
           /\ \A g \in Goal : (\A h \in Goal : h <= g) =>
                 \/ server[g] = "succeeded" /\ successes[g] = 1
                 \/ server[g] = "rejected"
                 \/ server[g] # "succeeded" /\ defeats[g] > 0 /\ failures > 0
<1>1. Monitor!TypeOK
    BY DEF MonitorInv
<1>2. PICK own, C : Chain(bus, own, server, accepted) /\ Knows(Mail(bus, own), C)
    BY DEF MonitorInv
<1>3. \A x : x \notin Mail(bus, own)
    BY DEF Mail
<1> PICK mail : mail = Mail(bus, own)
    OBVIOUS
<1>4. Knows(mail, C) /\ \A x : x \notin mail
    BY <1>2, <1>3
<1>5. \A g \in Goal : server[g] \in Over /\ server[g] # "requested" /\ g # Monitor!None
    BY NoGoal, StatesDiffer DEF Monitor!Ended, Over
<1>6. pending = Monitor!None
    BY <1>1, <1>4, <1>5 DEF Knows, Expects, Monitor!TypeOK
<1>7. active = Monitor!Untracked
    <2> SUFFICES ASSUME active # Monitor!Untracked PROVE FALSE
        OBVIOUS
    <2>1. active.goal \in Goal
        BY <1>1 DEF Monitor!TypeOK, Monitor!TrackedGoal
    <2>2. server[active.goal] \in Answered
        BY <1>4 DEF Knows, Follows
    <2>3. server[active.goal] \in Monitor!Terminal
        BY <1>5, <2>1, <2>2, StatesDiffer DEF Over
    <2> QED
        BY <1>4, <2>3 DEF Knows, Follows
<1>8. ASSUME NEW g \in Goal, \A h \in Goal : h <= g, server[g] # "rejected"
      PROVE  IF server[g] = "succeeded" THEN successes[g] = 1 ELSE defeats[g] > 0 /\ failures > 0
    <2>1. server[g] \in Answered
        BY <1>5, <1>8, StatesDiffer DEF Over
    <2>2. Latest(g)
        <3>1. \A h \in Goal : h \in Nat
            BY NoGoal
        <3> QED
            BY <1>8, <3>1 DEF Latest
    <2>3. active.goal # g
        BY <1>7, NoGoal
    <2>4. Settled(mail, g)
        BY <1>4, <2>1, <2>2, <2>3 DEF Knows, Tells
    <2> QED
        BY <2>4 DEF Settled
<1>9. state = "IDLE"
    BY <1>1, <1>7 DEF Monitor!TypeOK
<1> QED
    BY <1>6, <1>8, <1>9

(* The invariant is what the monitor promises.                             *)
LEMMA MonitorTells ==
    ASSUME MonitorInv
    PROVE  Monitor!MonitorIsTruthful
<1>1. Monitor!TypeOK /\ early = {}
    BY DEF MonitorInv
<1>2. PICK own, C : Chain(bus, own, server, accepted) /\ Knows(Mail(bus, own), C)
    BY DEF MonitorInv
<1>3. /\ \A g \in Goal : successes[g] <= 1 /\ (successes[g] = 1 => server[g] = "succeeded")
      /\ C \subseteq Monitor!Failed /\ Cardinality(C) = Monitor!Total(defeats)
      /\ failures <= Monitor!Total(defeats)
    BY <1>2 DEF Knows, Scores
<1>4. Monitor!SuccessIsReal
    BY <1>3 DEF Monitor!SuccessIsReal
<1>5. Monitor!FailuresAreReal
    <2>1. IsFiniteSet(Goal) /\ Monitor!Failed \subseteq Goal
        BY MonitorBounds, FS_Interval DEF Monitor!Failed
    <2>2. IsFiniteSet(Monitor!Failed)
        BY <2>1, FS_Subset
    <2>3. Cardinality(C) <= Cardinality(Monitor!Failed)
        BY <1>3, <2>2, FS_Subset
    <2> QED
        BY <1>3, <2>3, CardinalityIs DEF Monitor!FailuresAreReal
<1>6. Monitor!ActiveWasAccepted
    BY <1>2 DEF Knows, Follows, Monitor!ActiveWasAccepted, Answered
<1>7. Monitor!NoEarlyWarning
    BY <1>1 DEF Monitor!NoEarlyWarning
<1>8. Monitor!MonitorSettles
    <2> SUFFICES ASSUME bus = <<>>, \A g \in Goal : Monitor!Ended(g)
                 PROVE  /\ state = "IDLE" /\ pending = Monitor!None
                        /\ \A g \in Goal : (\A h \in Goal : h <= g) =>
                              CASE server[g] = "succeeded" -> successes[g] = 1
                                [] server[g] = "rejected" -> TRUE
                                [] OTHER -> defeats[g] > 0 /\ failures > 0
        BY DEF Monitor!MonitorSettles
    <2>1. /\ state = "IDLE" /\ pending = Monitor!None
          /\ \A g \in Goal : (\A h \in Goal : h <= g) =>
                \/ server[g] = "succeeded" /\ successes[g] = 1
                \/ server[g] = "rejected"
                \/ server[g] # "succeeded" /\ defeats[g] > 0 /\ failures > 0
        BY MonitorSettled
    <2> QED
        BY <2>1
<1> QED
    BY <1>1, <1>4, <1>5, <1>6, <1>7, <1>8 DEF Monitor!MonitorIsTruthful

(* What the execution monitor reports did happen: it tells of no success   *)
(* that was not one and of none twice, counts no more failures than goals  *)
(* were refused, cancelled or aborted, tracks no goal that was not accepted*)
(* and warns of none too early; and when all is over and heard it has told *)
(* of the last goal.  It hears requests, responses and status lists, of any*)
(* number of goals, and a status may be overtaken by a call.               *)
THEOREM MonitorStaysTruthful == Spec => []MonitorIsTruthful
<1> DEFINE Inv == part = "monitor" => MonitorInv
<1>1. Init => Inv
    BY MonitorStarts DEF Init
<1>2. Inv /\ [Next]_vars => Inv'
    <2> SUFFICES ASSUME Inv, [Next]_vars, part' = "monitor" PROVE MonitorInv'
        OBVIOUS
    <2>1. CASE Next
        <3>1. part = "monitor" /\ Monitor!Next
            BY <2>1 DEF Next
        <3> QED
            BY <3>1, MonitorKept
    <2>2. CASE UNCHANGED vars
        <3>1. part = "monitor" /\ MonitorInv /\ UNCHANGED Monitor!vars
            BY <2>2 DEF vars, monitor, Monitor!vars
        <3> QED
            BY <3>1, MonitorKept
    <2> QED
        BY <2>1, <2>2
<1>3. Inv => MonitorIsTruthful
    BY MonitorTells DEF MonitorIsTruthful
<1> QED
    BY <1>1, <1>2, <1>3, PTL DEF Spec
================================================================================
