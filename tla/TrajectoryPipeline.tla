------------------------- MODULE TrajectoryPipeline -------------------------
(***************************************************************************)
(* The points of one ExecuteMotion goal: from the trajectories MoveIt      *)
(* plans, through the merge of a blended sequence, the point budget with   *)
(* its split or downsampling, the contract and the quality gate, to the    *)
(* segments hw_adapter runs one after the other.                           *)
(*                                                                         *)
(* A posture is <<arm, wrist, flange>> in degrees: a joint of J1-J3, one   *)
(* of J4-J5, and J6, which turns without end.  A point is [pos, t].        *)
(***************************************************************************)
EXTENDS Integers, SequencesExt

CONSTANTS
    Postures,       \* postures that plans and jogs go through
    Yoshikawa,      \* manipulability of each
    Primitives,     \* of the goals
    MaxPoints,      \* bound on the points MoveIt plans
    SafeBudget,     \* safe_budget_points (180)
    HardLimit,      \* kMaxTrajectoryPoints (200)
    MaxSignFlips,   \* kMaxConsecutiveSignFlips (5)
    SampleEvery,    \* of the manipulability guard (5)
    Floor           \* of the manipulability guard

PipelineAssumption ==
    /\ Postures \subseteq Int \X Int \X Int
    /\ Floor \in Nat
    /\ Yoshikawa \in [Postures -> Nat]
    /\ SafeBudget \in Nat /\ HardLimit \in Nat
    /\ 2 <= SafeBudget /\ SafeBudget <= HardLimit
    /\ MaxSignFlips \in Nat
    /\ SampleEvery \in Nat \ {0}

VARIABLES
    leg,            \* what is done next
    primitive,      \* dispatch_primitive
    parts,          \* what MoveIt planned
    planned,        \* the trajectory that is handed on
    segments,       \* what is dispatched
    sent,           \* segments that have been run
    arm,            \* where the arm is
    driven,         \* history: the postures it was driven through
    halted,         \* an interrupt
    verdict         \* [result, why]

pipeline ==
    <<leg, primitive, parts, planned, segments, sent, arm, driven, halted, verdict>>

Pending == [result |-> "pending", why |-> ""]

PipelineInit ==
    /\ leg = "plan"
    /\ primitive \in Primitives
    /\ arm \in Postures
    /\ parts = <<<<[pos |-> arm, t |-> 0]>>>>
    /\ planned = <<>>
    /\ segments = <<>>
    /\ sent = 0
    /\ driven = <<>>
    /\ halted = FALSE
    /\ verdict = Pending

-----------------------------------------------------------------------------
Least(a, b) == IF a <= b THEN a ELSE b
Most(a, b) == IF a >= b THEN a ELSE b
Size(a) == IF a < 0 THEN -a ELSE a
Positions(points) == [i \in 1 .. Len(points) |-> points[i].pos]

(* The shortest way round, for J6.                                         *)
Unwrapped(d) == IF d > 180 THEN d - 360 ELSE IF d < -180 THEN d + 360 ELSE d

Turn(p, q, j) == IF j = 3 THEN Unwrapped(q[j] - p[j]) ELSE q[j] - p[j]

(* max_delta_for_joint                                                     *)
MaxTurn == <<25, 45, 30>>

Smooth(p, q) == \A j \in 1 .. 3 : Size(Turn(p, q, j)) <= MaxTurn[j]

Turns(points, j) ==
    [i \in 1 .. Len(points) - 1 |-> Turn(points[i].pos, points[i + 1].pos, j)]

(* The latest turn, the reversals in a row up to it and the most of them.  *)
AtRest == [last |-> 0, n |-> 0, worst |-> 0]
Turned(s, d) ==
    IF d = 0 THEN s
    ELSE LET n == IF s.last * d < 0 THEN s.n + 1 ELSE 0
         IN  [last |-> d, n |-> n, worst |-> Most(s.worst, n)]

(* The most reversals in a row of a joint; a pause does not end a row.     *)
Reversals(points, j) == FoldLeft(Turned, AtRest, Turns(points, j)).worst

(* WristFlipGuard; its cumulative rotation has no limits configured.       *)
WristOk(points) ==
    /\ \A i \in 1 .. Len(points) - 1 : Smooth(points[i].pos, points[i + 1].pos)
    /\ \A j \in 2 .. 3 : Reversals(points, j) <= MaxSignFlips

JointLimit == <<170, 180, 180>>

(* JointPositionGuard                                                      *)
LimitsOk(points) ==
    \A i \in 1 .. Len(points), j \in 1 .. 3 :
        Size(points[i].pos[j]) <= JointLimit[j]

Samples(n) == {i \in 2 .. n : i = n \/ (i - 1) % SampleEvery = 0}

(* ManipulabilityGuard: from below the floor a motion may only improve on  *)
(* where it starts, and must end above.                                    *)
ManipulabilityOk(points) ==
    LET W(i) == Yoshikawa[points[i].pos] IN
    IF W(1) < Floor
    THEN /\ \A i \in Samples(Len(points)) : W(i) >= W(1)
         /\ \A i \in Samples(Len(points)) : i = Len(points) => W(i) >= Floor
    ELSE \A i \in Samples(Len(points)) : W(i) >= Floor

TimesOk(points) ==
    /\ \A i \in 1 .. Len(points) - 1 : points[i].t < points[i + 1].t
    /\ points[Len(points)].t > 0

(* QualityGate.validate_plan, without the fraction.                        *)
QualityOk(points) ==
    /\ Len(points) >= 2
    /\ TimesOk(points)
    /\ WristOk(points)
    /\ LimitsOk(points)
    /\ ManipulabilityOk(points)
    /\ Len(points) <= HardLimit

-----------------------------------------------------------------------------
(* TrajectoryAssembler::merge                                              *)

Shift(points, by) == [i \in 1 .. Len(points) |-> [points[i] EXCEPT !.t = @ + by]]

Put(out, p) ==
    Append(out, IF out # <<>> /\ p.t <= Last(out).t
                THEN [p EXCEPT !.t = Last(out).t + 1] ELSE p)

(* The first point of a part is left out where the one before it is there. *)
Joined(out, part) ==
    FoldLeft(Put, out,
             IF out # <<>> /\ Last(out).pos = Head(part).pos
             THEN Tail(part) ELSE part)

(* The parts one after the other; a part's time counts from its start.     *)
NoParts == [out |-> <<>>, offset |-> 0]
Join(s, part) ==
    [out |-> Joined(s.out, Shift(part, s.offset)), offset |-> s.offset + Last(part).t]

Merged == FoldLeft(Join, NoParts, parts).out

-----------------------------------------------------------------------------
(* The budget.                                                             *)

GeometrySensitive == {"LIN", "CIRC", "MOVE_REL", "CARTESIAN_PATH"}

(* Mutant: a segment starts after the end of the one before.               *)
Split_NoOverlap(points) ==
    [s \in 1 .. (Len(points) + SafeBudget - 1) \div SafeBudget |->
        LET piece == SubSeq(points, (s - 1) * SafeBudget + 1,
                            Least(Len(points), s * SafeBudget))
        IN  Shift(piece, -Head(piece).t)]

(* split_trajectory_for_dispatch: a segment starts at the end of the one   *)
(* before, with its clock at zero.                                         *)
Split(points) ==
    [s \in 1 .. (Len(points) + SafeBudget - 3) \div (SafeBudget - 1) |->
        LET piece == SubSeq(points, (s - 1) * (SafeBudget - 1) + 1,
                            Least(Len(points), s * (SafeBudget - 1) + 1))
        IN  Shift(piece, -Head(piece).t)]

(* Rounds i * (n - 1) / (m - 1), halves up.                                *)
Index(i, n, m) == (2 * i * (n - 1) + m - 1) \div (2 * (m - 1))

(* downsample_to_max_points                                                *)
Downsampled(points) ==
    [k \in 1 .. SafeBudget |-> points[Index(k - 1, Len(points), SafeBudget) + 1]]

Mitigated ==
    IF Len(planned) <= SafeBudget THEN <<planned>>
    ELSE IF primitive \in GeometrySensitive THEN Split(planned)
    ELSE <<Downsampled(planned)>>

(* validate_mitigated_segments_contract                                    *)
ContractOk(pieces) ==
    /\ Head(Head(pieces)).pos = Head(planned).pos
    /\ Last(Last(pieces)).pos = Last(planned).pos
    /\ \A s \in 1 .. Len(pieces) : TimesOk(pieces[s])
    /\ \A s \in 1 .. Len(pieces) - 1 : Last(pieces[s]).pos = Head(pieces[s + 1]).pos

-----------------------------------------------------------------------------
Finish(result, why) ==
    /\ leg' = "done"
    /\ verdict' = [result |-> result, why |-> why]

Points == FoldLeft(LAMBDA n, part : n + Len(part), 0, parts)

(* External: MoveIt plans a point more, at times with a clock that stands. *)
PlanPoint(p, dt) ==
    /\ leg = "plan"
    /\ Points < MaxPoints
    /\ LET n == Len(parts) IN
       parts' = [parts EXCEPT ![n] = Append(@, [pos |-> p, t |-> Last(@).t + dt])]
    /\ UNCHANGED <<leg, primitive, planned, segments, sent, arm, driven, halted, verdict>>

(* External: the next trajectory of a blended sequence, from its end or    *)
(* from a point after it.                                                  *)
PlanPart(p) ==
    /\ leg = "plan"
    /\ primitive = "BLENDED_SEQUENCE"
    /\ Points < MaxPoints
    /\ parts' = Append(parts, <<[pos |-> p, t |-> 0]>>)
    /\ UNCHANGED <<leg, primitive, planned, segments, sent, arm, driven, halted, verdict>>

(* The plan is complete.  A blended one is merged, and timed again.  The   *)
(* joint positions are looked at before points are dropped.                *)
Assemble ==
    /\ leg = "plan"
    /\ planned' = (IF primitive = "BLENDED_SEQUENCE" THEN Merged ELSE parts[1])
    /\ IF primitive = "BLENDED_SEQUENCE" /\ Len(planned') > HardLimit
       THEN Finish("aborted", "merge")
       ELSE IF ~LimitsOk(planned') THEN Finish("aborted", "joint position guard")
       ELSE /\ leg' = IF primitive = "BLENDED_SEQUENCE" THEN "retime" ELSE "budget"
            /\ UNCHANGED verdict
    /\ UNCHANGED <<primitive, parts, segments, sent, arm, driven, halted>>

(* External: Ruckig or TOTG gives the merged points new times, or fails.   *)
Retime ==
    /\ leg = "retime"
    /\ \/ Finish("aborted", "time parameterization") /\ UNCHANGED planned
       \/ /\ planned' = [i \in 1 .. Len(planned) |-> [planned[i] EXCEPT !.t = 10 * (i - 1)]]
          /\ leg' = "budget"
          /\ UNCHANGED verdict
    /\ UNCHANGED <<primitive, parts, segments, sent, arm, driven, halted>>

(* Every segment passes before the first is sent.                          *)
GateOk(pieces) == \A s \in 1 .. Len(pieces) : QualityOk(pieces[s])

(* A plan whose only point is where it starts is done.                     *)
Mitigate ==
    /\ leg = "budget"
    /\ IF Len(planned) = 1
       THEN Finish("succeeded", "no-op") /\ UNCHANGED segments
       ELSE LET pieces == Mitigated IN
            /\ segments' = pieces
            /\ IF ~ContractOk(pieces) THEN Finish("aborted", "contract")
               ELSE IF ~GateOk(pieces) THEN Finish("aborted", "gate")
               ELSE leg' = "send" /\ UNCHANGED verdict
    /\ UNCHANGED <<primitive, parts, planned, sent, arm, driven, halted>>

SendSegment ==
    /\ leg = "send"
    /\ IF halted THEN Finish("canceled", "") ELSE leg' = "preflight" /\ UNCHANGED verdict
    /\ UNCHANGED <<primitive, parts, planned, segments, sent, arm, driven, halted>>

Segment == segments[sent + 1]

(* Mutant: a jog at the last moment goes unnoticed.                        *)
CommitOk_Preflight == TRUE

(* evaluate_start_state_gate, before and after the controller is there.    *)
PreflightOk == arm = Head(Segment).pos
CommitOk == arm = Head(Segment).pos

Preflight ==
    /\ leg = "preflight"
    /\ IF PreflightOk THEN leg' = "commit" /\ UNCHANGED verdict
       ELSE Finish("aborted", "start state")
    /\ UNCHANGED <<primitive, parts, planned, segments, sent, arm, driven, halted>>

(* The postures of the segment, after where the arm is.                    *)
Driven(points) ==
    LET path == IF arm = Head(points).pos THEN Positions(points)
                ELSE <<arm>> \o Positions(points)
    IN  driven \o (IF driven # <<>> /\ Last(driven) = Head(path) THEN Tail(path) ELSE path)

(* The controller runs the segment, breaks it off, or takes none of it.    *)
Commit ==
    /\ leg = "commit"
    /\ \/ /\ Finish("aborted", "start state or controller")
          /\ UNCHANGED <<sent, arm, driven>>
       \/ /\ CommitOk
          /\ \E n \in 1 .. Len(Segment) - 1 :
                /\ arm' = Segment[n].pos
                /\ driven' = Driven(SubSeq(Segment, 1, n))
          /\ Finish("aborted", "controller")
          /\ UNCHANGED sent
       \/ /\ CommitOk
          /\ arm' = Last(Segment).pos
          /\ driven' = Driven(Segment)
          /\ sent' = sent + 1
          /\ IF sent + 1 = Len(segments) THEN Finish("succeeded", "")
             ELSE leg' = "send" /\ UNCHANGED verdict
    /\ UNCHANGED <<primitive, parts, planned, segments, halted>>

(* External: a jog; a STOP or a cancellation.                              *)
JogArm(p) ==
    /\ leg \in {"budget", "send", "preflight", "commit"}
    /\ arm' = p
    /\ UNCHANGED <<leg, primitive, parts, planned, segments, sent, driven, halted, verdict>>

Halt ==
    /\ leg \in {"send", "preflight", "commit"}
    /\ halted' = TRUE
    /\ UNCHANGED <<leg, primitive, parts, planned, segments, sent, arm, driven, verdict>>

PipelineNext ==
    \/ \E p \in Postures, dt \in {0, 10} : PlanPoint(p, dt)
    \/ \E p \in Postures : PlanPart(p)
    \/ Assemble \/ Retime \/ Mitigate \/ SendSegment \/ Preflight \/ Commit
    \/ \E p \in Postures : JogArm(p)
    \/ Halt

PipelineSpec == PipelineInit /\ [][PipelineNext]_pipeline

-----------------------------------------------------------------------------
(* A goal that succeeds was driven along the planned path: a straight or a *)
(* curved one through every point, in pieces or not; another one through   *)
(* some of its points in their order, and both ends.                       *)
RunsThePath ==
    verdict.result = "succeeded" /\ verdict.why # "no-op" =>
        LET path == Positions(planned) IN
        IF primitive \in {"LIN", "CIRC", "MOVE_REL", "CARTESIAN_PATH"}
        THEN driven = path
        ELSE /\ Head(driven) = Head(path) /\ Last(driven) = Last(path)
             /\ \E f \in [1 .. Len(driven) -> 1 .. Len(path)] :
                   /\ \A i \in 1 .. Len(driven) : driven[i] = path[f[i]]
                   /\ \A i \in 1 .. Len(driven) - 1 : f[i] < f[i + 1]

(* No two postures the arm is driven through, one after the other, lie     *)
(* further apart than the wrist flip guard allows: not where points were   *)
(* dropped, not at a boundary of two segments, and not where a jog moved   *)
(* the arm meanwhile.                                                      *)
NoJump == \A i \in 1 .. Len(driven) - 1 : Smooth(driven[i], driven[i + 1])

(* A goal ends in no singular posture.                                     *)
EndsDexterous ==
    verdict.result = "succeeded" /\ verdict.why # "no-op" => Yoshikawa[arm] >= Floor

Healthy(points) ==
    /\ Len(points) >= 2
    /\ TimesOk(points) /\ WristOk(points) /\ LimitsOk(points)
    /\ \A i \in 1 .. Len(points) : Yoshikawa[points[i].pos] >= Floor

(* A sound straight or curved plan is never refused for being long: its    *)
(* pieces satisfy the contract and the gate.                               *)
LengthIsNoFault ==
    primitive \in GeometrySensitive /\ planned # <<>> /\ Healthy(planned) =>
        verdict.why \notin {"contract", "gate"}

(* A merge loses no point of its parts and no order in time.               *)
MergeKeepsThePath ==
    leg = "retime" =>
        /\ \A i \in 1 .. Len(planned) - 1 : planned[i].t < planned[i + 1].t
        /\ \A k \in 1 .. Len(parts) : \A i \in 1 .. Len(parts[k]) :
              \E n \in 1 .. Len(planned) : planned[n].pos = parts[k][i].pos
        /\ Last(planned).pos = Last(Last(parts)).pos

(* A plan is driven as it was planned, or not at all: its length and its   *)
(* parts make no difference, and it does not end in a singular posture.    *)
DrivesThePlan == RunsThePath /\ LengthIsNoFault /\ MergeKeepsThePath /\ EndsDexterous
=============================================================================
