-------------------------- MODULE MCMotionCommands --------------------------
(* Two dozen commands for TLC, good and bad, in three places; the plans of *)
(* a few postures.                                                         *)
EXTENDS MotionCommands

InA == <<100, 200, 300>>
InB == <<100, 200, 155>>
Low == <<100, 200, 60>>      \* in the keepout zone over the floor
Wide == <<500, 200, 300>>    \* outside the bounds, in no zone
Nowhere == <<100, Gate!NoNumber, 300>>

MCPlaces == {InA, InB, Low}
MCHome == InA
MCFractions == {0, 50, 60, 75, 92, 100}

MCPostures == {<<0, 0, 0>>, <<20, 0, 0>>, <<20, 40, 0>>, <<0, 0, -20>>, <<40, 0, 0>>}
MCYoshikawa == [p \in MCPostures |-> IF p = <<40, 0, 0>> THEN 4 ELSE 10]
MCPrimitives == {"LIN", "PTP", "BLENDED_SEQUENCE"}

Command(prim) ==
    [prim |-> prim, vel |-> Gate!Absent, acc |-> Gate!Absent,
     extended |-> FALSE, frame |-> "", delta |-> Gate!Malformed,
     planner |-> "", joints |-> FALSE, target |-> Gate!Malformed,
     waypoints |-> <<>>, steps |-> <<>>]

To(prim, p) == [Command(prim) EXCEPT !.target = p]
By(d) == [Command("MOVE_REL") EXCEPT !.delta = d]
Path(points, planner) ==
    [Command("CARTESIAN_PATH") EXCEPT !.waypoints = points, !.planner = planner]
Arc(via, p) == [To("CIRC", p) EXCEPT !.waypoints = <<via>>]
Step(prim, blend, p) ==
    [prim |-> prim, blend |-> blend, vel |-> Gate!Absent, acc |-> Gate!Absent,
     planner |-> "PILZ_LIN", target |-> p]
Blend(blend, p) ==
    [Command("BLENDED_SEQUENCE") EXCEPT
        !.steps = <<Step("LIN", 20, InB), Step("LIN", blend, p)>>]

TwoDozen ==
    {To("LIN", InB), To("LIN", Low), To("LIN", Wide), To("LIN", Nowhere),
     [To("LIN", InA) EXCEPT !.vel = 90],
     [To("LIN", InA) EXCEPT !.vel = Gate!NaN, !.acc = 30],
     [To("PTP", InB) EXCEPT !.acc = 90],
     To("PTP", InB), [Command("PTP") EXCEPT !.joints = TRUE],
     By(<<0, 0, -50>>), By(<<0, 0, -145>>), By(<<0, 0, -240>>),
     [By(<<0, 100, 0>>) EXCEPT !.vel = 90],
     Arc(InB, InA), Arc(Low, InB),
     Path(<<InB, InA>>, "PILZ_LIN"), Path(<<Low, InA>>, "PILZ_LIN"),
     Path(<<InA>>, ""), Blend(0, InA), Blend(10, InA), Blend(0, Wide),
     Command("HOME"), Command("MOVE_JOINT"), Command("STOP")}

MCStatuses ==
    {[in_error |-> "FALSE", e_stopped |-> "UNKNOWN", drives_powered |-> "TRUE",
      motion_possible |-> "TRUE"],
     [in_error |-> "TRUE", e_stopped |-> "FALSE", drives_powered |-> "TRUE",
      motion_possible |-> "TRUE"]}

\* TLC evaluates a definition of this module once, what replaces a constant
\* every time.
MCCommands == TwoDozen
=============================================================================
