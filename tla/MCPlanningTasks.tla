-------------------------- MODULE MCPlanningTasks --------------------------
(***************************************************************************)
(* The speed optimizer's state machine, beside problems for the functions  *)
(* of the planning tasks: an initial state either starts the optimizer or  *)
(* poses one problem, whose answer an invariant compares with a reference. *)
(***************************************************************************)
EXTENDS OpenSpaceSpeedOptimizer, OpenSpaceStraightPath, PathHistory, ReedsShepp

VARIABLE problem \* for which task, and what; or NoProblem

\* The EP30, in units of 5 cm.
EP30 == [front |-> 72, back |-> 18, half_width |-> 18]

Topic == INSTANCE Topics

NoProblem == [task |-> "none"]

-----------------------------------------------------------------------------
(* Geometry *)

Lattice(n) == [x : -n .. n, y : -n .. n]

Segments(n) == [start : Lattice(n), end : Lattice(n)]

Rectangle(x1, y1, x2, y2) == <<Vec(x1, y2), Vec(x1, y1), Vec(x2, y1), Vec(x2, y2)>>

Rectangles(n) ==
  {Rectangle(r[1], r[2], r[3], r[4]) :
     r \in {q \in (0 .. n) \X (0 .. n) \X (0 .. n) \X (0 .. n) : q[1] < q[3] /\ q[2] < q[4]}}

\* The unit squares of a rectangle, named by their lower left corners.
Squares(r) == {c \in Lattice(4) : /\ r[2].x <= c.x /\ c.x < r[4].x
                                  /\ r[2].y <= c.y /\ c.y < r[4].y}

\* An angled polygon, clockwise, and the two rectangles it consists of.
Angled == <<Vec(0, 0), Vec(0, 4), Vec(2, 4), Vec(2, 2), Vec(4, 2), Vec(4, 0)>>
InAngled(p) == p.x \in 0 .. 4 /\ p.y \in 0 .. 4 /\ (p.x <= 2 \/ p.y <= 2)

\* The segments have ranges in common, and neither lies on one side of the other.
Across(s, o) ==
  LET side(p) == CrossProd(Along(s), Minus(p, s.start))
  IN ~(side(o.start) * side(o.end) > 0)

Meet(s, o) ==
  /\ Overlapping(s.start.x, s.end.x, o.start.x, o.end.x)
  /\ Overlapping(s.start.y, s.end.y, o.start.y, o.end.y)
  /\ Across(s, o) /\ Across(o, s)

\* The square of the distance of a point to a box.
FromBox(p, hl, hw) ==
  LET beyond(x, half) == Greater(Greater(x, -x) - half, 0)
  IN Fraction(beyond(p.x, hl) * beyond(p.x, hl) + beyond(p.y, hw) * beyond(p.y, hw), 1)

BoxReference(s, hl, hw) ==
  IF MeetsBox(s, hl, hw) THEN Zero
  ELSE Least({FromBox(s.start, hl, hw), FromBox(s.end, hl, hw)} \cup
               {SegmentDistance(Vec(x, y), s) : x \in {-hl, hl}, y \in {-hw, hw}})

SameFraction(f, g) == LessEq(f, g) /\ LessEq(g, f)

SegmentProblems == {[task |-> "segment", s |-> s] : s \in Segments(3)}
RectangleProblems == {[task |-> "rectangle", r |-> r] : r \in Rectangles(3)}

(* The geometry that collision checks and the region rest on: Box2d's      *)
(* table of cases finds the distance from a segment to a box, whatever the *)
(* box's heading (it is 0 exactly if they meet); segments intersect if and *)
(* only if they meet; the ray of IsPointIn counts as it should; and the    *)
(* overlap of two polygons, of any orientation, has the area they share.   *)
GeometryIsRight ==
  /\ problem.task = "segment" =>
       LET s == problem.s
       IN /\ \A q \in 0 .. 3 :
               LET turned == Segment(Rotated(s.start, q), Rotated(s.end, q))
                   box == Box(Vec(0, 0), q, 2, 1)
               IN /\ SameFraction(BoxDistance(box, turned), BoxReference(s, 2, 1))
                  /\ BoxHasOverlap(box, turned) <=> MeetsBox(s, 2, 1)
          /\ s \in Segments(1) =>
               \A o \in Segments(1) : HasIntersect(s, o) <=> Meet(s, o)
          /\ \A p \in {s.start, s.end} :
               LET at == Vec(p.x + 2, p.y + 2)
               IN PolygonPointIn(Angled, at) <=> InAngled(at)
  /\ problem.task = "rectangle" =>
       \A o \in Rectangles(3) :
         LET a == problem.r
             flipped == <<o[4], o[3], o[2], o[1]>>
             both == Cardinality(Squares(a) \cap Squares(o))
             either == Cardinality(Squares(a) \cup Squares(o))
         IN SameFraction(IoU(Polygon(a), Polygon(flipped)), Fraction(both, either))

-----------------------------------------------------------------------------
(* The region of interest *)

\* Lots along either axis, also too short or too narrow a one, labelled from any
\* corner and in either direction.
LotCorners == {Rectangle(0, 0, 48, 108), Rectangle(0, 0, 108, 48),
               Rectangle(0, 0, 120, 48), Rectangle(0, 0, 48, 88), Rectangle(0, 0, 32, 108)}

Labels(r) ==
  {[i \in 1 .. 4 |-> r[((i + k - 1) % 4) + 1]] : k \in 0 .. 3} \cup
  {[i \in 1 .. 4 |-> r[((k - i) % 4) + 1]] : k \in 4 .. 7}

Sizes(r) == LET w == r[4].x - r[1].x
                d == r[1].y - r[2].y
            IN {<<w, d>>, <<d, w>>}

Lots == UNION {UNION {UNION {
  {[type |-> type, width |-> size[1], depth |-> size[2], vertices |-> v] :
     size \in Sizes(r)} : v \in Labels(r)} : r \in LotCorners} :
  type \in {"VERTICAL", "LATERAL"}}

\* Where the vehicle stands: beside the lot, beyond an end of it, or driven by.
Positions == {Vec(-60, 160), Vec(150, 170), Vec(-60, -80), Vec(170, 20)}

LotProblems ==
  {[task |-> "lot", lot |-> lot, pose |-> Roi!Pose(p, q)] :
     lot \in Lots, p \in Positions, q \in {0, 1}}

Answer(lot, pose) == Roi!Process(Roi!NewDecider, lot, pose)

\* Messages with the lots beside the one that was asked for, which is number 1:
\* sound ones, and such as lack a corner, an area or a size.
PointsOf(v, positions) ==
  [i \in DOMAIN positions |-> [p |-> v[((i - 1) % Len(v)) + 1], position |-> positions[i], finite |-> TRUE]]

Positions4 == <<"TOP_LEFT", "BOTTOM_LEFT", "BOTTOM_RIGHT", "TOP_RIGHT">>

Message(seq, v, positions, width) ==
  [parking_seq |-> seq, type |-> "VERTICAL", hmi_width |-> width, hmi_depth |-> 108,
   pts_enu |-> <<>>, pts_vrf |-> PointsOf(v, positions)]

Shifted(v, d) == [i \in DOMAIN v |-> Plus(v[i], d)]

Upright(d) == Shifted(Rectangle(0, 0, 48, 108), d)

\* Several points of one position, of which the last one counts.
Relabelled == Positions4 \o <<"TOP_LEFT">>

OtherLots ==
  {Message(2, Upright(Vec(48, 0)), Positions4, 48),
   Message(3, Upright(Vec(-96, 0)), Relabelled, 48),
   Message(4, Upright(Vec(0, 380)), Positions4, 48),
   Message(5, Upright(Vec(96, 0)), <<"TOP_LEFT", "BOTTOM_LEFT", "TOP_RIGHT", "TOP_RIGHT">>, 48),
   Message(6, Upright(Vec(144, 0)), Positions4, 0),
   Message(7, <<Vec(0, 0), Vec(1, 0), Vec(2, 0), Vec(3, 0)>>, Positions4, 48)}

CandidateProblems ==
  {[task |-> "candidates", pose |-> Roi!Pose(p, q), distance |-> distance,
    lots |-> <<Message(1, Upright(Vec(0, 0)), Positions4, 48)>> \o others] :
     p \in {Vec(-60, 160), Vec(150, 170), Vec(20, 240)}, q \in {0, 1}, distance \in {200, 6000},
     others \in {o \in [1 .. 3 -> OtherLots] : \A i, j \in 1 .. 3 : o[i] = o[j] => i = j}}

Standing(id, x) ==
  [id |-> id, type |-> "BOX", is_dynamic |-> FALSE, center |-> Vec(x, 100), heading |-> 0,
   length |-> 20, width |-> 20, velocity |-> Vec(0, 0), finite |-> TRUE]

\* The region of an answer holds the start and the goal.
SpansManeuver(a, pose) == Roi!SpansManeuver(a.bounds, a.origin, pose, a.goal)

\* All of the lots, or one beside the first.
Told(lots, k) == IF k = 1 THEN lots ELSE <<lots[1], lots[k]>>

Regions(q, lots) == PrePlanRegions(lots, 1, q.pose, <<Standing(1, q.distance)>>)

(* A lot that passes the size check holds the whole vehicle at the goal,   *)
(* but for the depth buffer by which it keeps off the opening, whatever    *)
(* corner the labels start from; the region that is handed to the search   *)
(* holds the start and the goal, and the opening is the one the vehicle    *)
(* stands before.  The regions of the other lots of a message are as good, *)
(* though one decider with its memory serves them all: each has its goal   *)
(* in a sound lot of its own that was not asked for, and whether a lot has *)
(* one does not depend on the lots before it.                              *)
RegionHoldsManeuver ==
  /\ problem.task = "lot" =>
       /\ Roi!LotHoldsVehicle(Roi!NewDecider, problem.lot, problem.pose)
       /\ \A a \in {Answer(problem.lot, problem.pose)} :
            a.ok /\ a.sensed => SpansManeuver(a, problem.pose)
  /\ problem.task = "candidates" =>
       \A regions \in {[k \in 1 .. 4 |-> Regions(problem, Told(problem.lots, k))]} :
         /\ \A r \in Range(regions[1]) :
              /\ SpansManeuver(r, problem.pose)
              /\ \E lot \in Range(problem.lots) :
                   /\ lot.parking_seq \in 2 .. 4 /\ Range(r.vertices) = {c.p : c \in Range(lot.pts_vrf)}
                   /\ Roi!Holds(Range(r.vertices), r.goal)
         /\ \A r, o \in Range(regions[1]) : r.goal = o.goal => r = o
         /\ Len(regions[1]) = Cardinality({k \in 2 .. 4 : regions[k] # <<>>})
         /\ problem.distance = 6000 => regions[1] = <<>>

(* IsParkLotInRightSide, "whether the lot is on the vehicle's right"       *)
(* (open_space_roi_decider.h:243): so it is when a vehicle that drives     *)
(* along the lot's opening has the lot on its right.                       *)
RightSideIsRight ==
  problem.task = "lot" =>
    \A a \in {Answer(problem.lot, problem.pose)} : a.ok =>
      LET v == a.vertices
          left(p) == Roi!ENUToVRF(p, problem.pose).y
      IN /\ (\A i \in DOMAIN v : left(v[i]) < 0) => a.right
         /\ (\A i \in DOMAIN v : left(v[i]) > 0) => ~a.right

-----------------------------------------------------------------------------
(* Speed curves *)

Pieces == [a : {-1, 0, 1}, t : {1, 2, 3}]

PieceLists == UNION {[1 .. n -> Pieces] : n \in 1 .. 3}

CurveProblems ==
  {[task |-> "curve", v |-> v, pieces |-> p] : v \in 0 .. 2, p \in PieceLists}

\* For steps no longer than a piece: from knot to knot Discrete goes on by one piece at
\* most.
KnotsAgree(curve, pieces) ==
  \A unit \in 1 .. 3 : (\A i \in DOMAIN pieces : unit <= pieces[i].t) => KnotsLieOn(curve, unit)

LimitProblems == {[task |-> "limits", limits |-> l] : l \in UNION {[1 .. n -> 1 .. 3] : n \in 1 .. 6}}

\* In a second the least acceleration reaches the least speed.
SpeedBounds == [min_speed |-> 24, max_speed |-> 48, unit_speed |-> 24,
                min_acc |-> 1, max_acc |-> 2, unit_acc |-> 1, min_dec |-> 1, max_dec |-> 2]

SampleProblems ==
  {[task |-> "sample", query |->
      [v |-> v, dist |-> 48 * d, accelerates |-> accelerates, bounds |-> SpeedBounds,
       max_deceleration |-> 4, second |-> 24]] :
     v \in {0, 12, 24, 36, 48}, d \in 0 .. 60, accelerates \in BOOLEAN}

(* Every sampled curve drives exactly the way to the end of the path and   *)
(* stops there, without a jump of the speed; a vehicle that can stop in    *)
(* time is never left without a curve, by which it would be told to brake  *)
(* although nothing is in its way; the limits the curves are rated by are  *)
(* smoothed over all of the places around each, which the queue of         *)
(* SmoothSpeedLimits keeps track of; and however the curves are dealt out  *)
(* to threads, the one that is chosen is a cheapest one.  What is left of  *)
(* a curve, and its knots, are those of the whole curve.                   *)
ChosenCurveStops ==
  /\ problem.task = "curve" =>
       LET curve == Curve(problem.v, problem.pieces)
       IN Forward(curve) => RestAgrees(curve) /\ KnotsAgree(curve, problem.pieces)
  /\ problem.task = "sample" =>
       WholeWays(problem.query) /\ SampledCurvesStop(problem.query)
  /\ problem.task = "limits" =>
       /\ \A window \in 1 .. 3 : LimitsAreLeast(problem.limits, window)
       /\ \A threads \in {1, 4, 5} : CheapestIsChosen(problem.limits, 4, threads)

-----------------------------------------------------------------------------
(* Trajectories *)

\* Curves that end in a standstill, as the sampled ones do.
SlowPieces == [a : {-1, 0, 1}, t : {2, 3, 4}]

Stopping == {q \in [v : 0 .. 2, pieces : UNION {[1 .. n -> SlowPieces] : n \in 1 .. 3}] :
               LET curve == Curve(q.v, q.pieces)
               IN Forward(curve) /\ curve.end_v = 0 /\ curve.end_s2 > 0}

\* The vertices of a path lie VertexGap apart.
VertexGap == 6

\* Round a corner after two gaps, whose heading turns in the third; or straight on
\* along the axis where headings change their sign.
Vertex(shape, i) ==
  IF shape = "corner"
  THEN IF i <= 3 THEN PathPoint(VertexGap * (i - 1), 0, 0, 0)
       ELSE PathPoint(VertexGap * 2, VertexGap * (i - 3), 12, 0)
  ELSE PathPoint(-VertexGap * (i - 1), 0, IF i % 2 = 1 THEN 21 ELSE -21, 0)

PathOf(shape, n) == NormalizeDiscretizedPath([i \in 1 .. n |-> Vertex(shape, i)])

DriveProblems ==
  {[task |-> "drive", v |-> q.v, pieces |-> q.pieces, shape |-> shape, forward |-> forward] :
     q \in Stopping, shape \in {"corner", "around"}, forward \in BOOLEAN}

\* Brake from v, with dec at least, on a path of a length.
BrakeProblems ==
  {[task |-> "brake", v |-> v, length |-> length, max |-> most, forward |-> forward] :
     v \in 1 .. 6, length \in 1 .. 40, most \in 1 .. 3, forward \in BOOLEAN}

\* The heading does not jump.
TurnsSteadily(trajectory) ==
  \A i \in 2 .. Len(trajectory) :
    LET way == trajectory[i].point.s - trajectory[i-1].point.s
    IN NormalizeAngle(trajectory[i].point.theta - trajectory[i-1].point.theta) \in -2 * way .. 2 * way

\* The path is cut at the reserve before a collision at its last vertex, and the
\* curve's end is the place to stop.
DriveEnds(curve, path, reserve, shape, forward) ==
  \A cut \in {CutOffPath(path, Len(path), reserve)} :
    /\ CutsBefore(path, Len(path), reserve) /\ PathLength(cut) = curve.end_s2
    /\ DrivesCurve(curve, cut, forward, 2)
    /\ \A trajectory \in {CombinePathAndSpeed(forward, cut, Discrete(curve, 2), 2)} :
         /\ TurnsSteadily(trajectory)
         /\ shape = "around" =>
              \A published \in {FromSpeedOptimizer(trajectory, "GEAR_DRIVE", path[1])} :
                \A i \in DOMAIN trajectory : published.points[i].s = trajectory[i].point.s

DriveOnPath(curve, shape, forward) ==
  LET gaps == curve.end_s2 \div VertexGap + 1
  IN DriveEnds(curve, PathOf(shape, gaps + 1), gaps * VertexGap - curve.end_s2, shape, forward)

(* The trajectory of a chosen curve begins at the begin of the path and    *)
(* comes to rest where the path was cut off before the collision, on a     *)
(* path with corners and whose headings wrap, in either direction of       *)
(* driving; and braking, when there is no such curve, stays on the path.   *)
TrajectoryStopsInTime ==
  /\ problem.task = "drive" =>
       DriveOnPath(Curve(problem.v, problem.pieces), problem.shape, problem.forward)
  /\ problem.task = "brake" =>
       \A dec \in {BackUpDeceleration(problem.v, problem.length, problem.max)} :
         \* whole numbers stand for all of them
         dec > 0 /\ problem.v % dec = 0
           /\ (dec = problem.max \/ dec * problem.length = problem.v * problem.v) =>
           BrakesOnPath(problem.v, dec,
             NormalizeDiscretizedPath(<<PathPoint(0, 0, 0, 0), PathPoint(problem.length, 0, 0, 0)>>),
             problem.forward, 2)

(* What the optimizer chooses, and what is driven of it, stops in time.    *)
DrivesStopInTime == ChosenCurveStops /\ TrajectoryStopsInTime

\* Frames of direct commands.
FramesOfCommands ==
  {[mode |-> mode, distance |-> 3 * p.x,
    vehicle |-> [x |-> p.x, y |-> p.y, heading |-> q, gear |-> state[1], v |-> state[2]]] :
     mode \in {"DIRECT_FORWARD", "DIRECT_BACKWARD"},
     <<p, q>> \in {<<Vec(0, 0), 0>>, <<Vec(3, 1), 0>>, <<Vec(2, -1), 1>>, <<Vec(4, 0), 2>>},
     state \in {<<"GEAR_DRIVE", 1>>, <<"GEAR_REVERSE", 0>>, <<"GEAR_DRIVE", -1>>}}

DirectProblems == {[task |-> "direct"]}

-----------------------------------------------------------------------------
(* The splice *)

\* A path that starts at a place and goes on in steps of 12, each along an axis.
Walk(p, turns) ==
  LET at[i \in 1 .. Len(turns) + 1] ==
        IF i = 1 THEN p ELSE Plus(at[i-1], Scaled(12, UnitVec(turns[i-1])))
  IN NormalizeDiscretizedPath(
       [i \in 1 .. Len(turns) + 1 |->
          PathPoint(at[i].x, at[i].y, 12 * turns[IF i = 1 THEN 1 ELSE i - 1], 0)])

Drive(path) == [path |-> path, gear |-> "GEAR_DRIVE"]
Reverse_(path) == [path |-> path, gear |-> "GEAR_REVERSE"]

Maneuvers ==
  { << Drive(Walk(Vec(0, 0), <<0, 0, 0>>)) >>,
    << Drive(Walk(Vec(0, 0), <<0, 0, 1, 1>>)) >>,
    << Drive(Walk(Vec(0, 0), <<0, 0, 0>>)), Reverse_(Walk(Vec(36, 0), <<3, 3>>)) >>,
    << Drive(Walk(Vec(0, 36), <<0>>)), Reverse_(Walk(Vec(12, 36), <<3, 3, 2>>)) >>,
    << Drive(Walk(Vec(24, 0), <<0>>)), Drive(<<>>), Reverse_(Walk(Vec(36, 0), <<2, 2, 2>>)) >>,
    << Drive(<<PathPoint(0, 0, 0, 0)>>) >> }

Remembered == <<Standing(1, 0), Standing(2, 200)>>

\* The other obstacles, and a list that is refused as a whole.
Reordered == <<Standing(2, 200), Standing(1, 0)>>
Moved == <<Standing(1, 2), Standing(2, 200)>>

\* The last list is refused as a whole.
ObstaclesOfMaps == {Remembered, Reordered, Moved, <<Standing(1, 2), [Standing(2, 200) EXCEPT !.width = 0]>>}

\* A frame at a place along or beside the paths, for a lot.
FrameAt(x, y, lot) ==
  [parking_seq |-> lot, end_pose |-> Roi!Pose(Vec(0, 0), 0), start |-> PathPoint(6 * x, 6 * y, 0, 0),
   speed_replan |-> FALSE, collision_risk |-> FALSE]

\* Everywhere for one lot, and in some places for another, with a goal that has moved
\* and with the warnings.
FramesOfMaps ==
  {FrameAt(x, y, 1) : x \in -1 .. 7, y \in {-5, -1, 0, 1, 3, 5, 7}} \cup
  UNION {{[f EXCEPT !.parking_seq = 2], [f EXCEPT !.end_pose.x = 1],
          [f EXCEPT !.speed_replan = TRUE], [f EXCEPT !.collision_risk = TRUE]} :
           f \in {FrameAt(x, y, 1) : x \in {0, 2}, y \in {0, 1}}}

SpliceProblems == {[task |-> "splice"]}

-----------------------------------------------------------------------------
(* Reeds-Shepp paths *)

Arcs(types, lengths) == Word(types, [i \in DOMAIN lengths |-> Arc(lengths[i])])

\* Words that lead forward, left first, of each family but CCSC, which has none that leads
\* to its goal.
Primitives ==
  {Word(<<"L", "S", last>>, <<Arc(t), Line(u), Arc(v)>>) :
     last \in {"L", "R"}, t \in {1, 3, 5}, u \in {0, 2}, v \in {2, 3}}
  \cup {Arcs(<<"L", "R", "L">>, <<t, u, v>>) : t \in {1, 3}, u \in {-4, -2}, v \in {-3, 2}}
  \cup {Arcs(<<"L", "R", "L", "R">>, <<t, u, -u, v>>) : t \in {1, 2}, u \in {0, 1}, v \in {-3, -1}}
  \cup {Word(<<"L", "R", "S", "L", "R">>,
                <<Arc(t), Arc(-3), Line(u), Arc(-3), Arc(2)>>) :
          t \in {1, 3}, u \in {-2, 0}}

\* The arc between two lines is driven forwards.
Bends == {Word(<<"S", "L", "S">>, <<Line(t), Arc(u), Line(v)>>) :
            t \in {-1, 2}, u \in {1, 5}, v \in {-1, 1}}

WordProblems ==
  {[task |-> "word", word |-> Used(Ways[i], w)] : i \in DOMAIN Ways, w \in Primitives}
  \cup {[task |-> "word", word |-> Used(Ways[i], w)] : i \in {1, 3}, w \in Bends}

PathLengths == {-16, -15, -1, 2, 15, 17}

\* No direction is driven for less than five steps (FLAGS_each_rs_length).
StationProblems ==
  {q \in {[task |-> "stations", lengths |-> l, step |-> 3] :
            l \in UNION {[1 .. n -> PathLengths] : n \in 1 .. 4}} :
     ShortestSegment(Word(<< >>, [i \in DOMAIN q.lengths |-> Arc(q.lengths[i])])) >= 15 * 355}

(* Every word of the library ends at the goal it was found for, mirrored   *)
(* and driven backwards as it may be; those of CCSC need not, as they take *)
(* the parameters of CCCC, but there is always a shorter one beside them:  *)
(* so the chosen word arrives, the final comparison with the goal refuses  *)
(* nothing, and no word of any other family would have been shorter.  Its  *)
(* stations find room and follow it to its end.                            *)
ShortestWordArrives ==
  /\ problem.task = "word" =>
       \A g \in {End(problem.word)} :
         /\ WordsArrive(g)
         /\ \E best \in ShortestRSP(g, FALSE) :
              LeadsTo(best, g) /\ TotalLength(best) <= TotalLength(problem.word)
  /\ problem.task = "stations" => StationsFollow(problem.lengths, problem.step)

-----------------------------------------------------------------------------
(* Messages *)

MessageProblems == [task : {"message"}, class : DOMAIN Topic!Classes, elements : 0 .. 2]

\* A sample whose every member has a value of its own, with so many elements in each
\* of its lists.
RECURSIVE Filled(_, _, _)
Filled(class, elements, own) ==
  [m \in DOMAIN class.members |->
     LET here == 32 * own + (CHOOSE i \in DOMAIN class.written : class.written[i] = m)
         kind == class.members[m]
     IN CASE kind.is = "plain" -> here
          [] kind.is = "nested" -> Filled(kind.class, elements, here)
          [] kind.is = "list" -> [i \in 1 .. elements |-> Filled(kind.class, elements, 4 * here + i)]]

\* An obstacle by what tells it apart.
Sides == {-1, 0, 3, Topic!Infinite}
Sightings == [id : {7}, type : {0, 3, 6}, length : Sides, width : {2}, is_dynamic : {0, 1}]
             \cup [id : {8}, type : {5}, length : {2}, width : Sides, is_dynamic : {0}]

ReportProblems ==
  LET some == {o \in Sightings : o.is_dynamic = 0 /\ o.type \in {3, 5}}
  IN [task : {"report"}, is_valid : {0, 1},
      sent : {<<o>> : o \in Sightings} \cup some \X some
             \cup {[i \in 1 .. n |-> o] : n \in {0, 128, 129}, o \in {s \in some : s.length = s.width}}]

Report(q) ==
  [Topic!Created(Topic!ObstacleArray) EXCEPT
     !.is_valid = q.is_valid,
     !.obstacles = [i \in DOMAIN q.sent |->
                      [m \in DOMAIN Topic!ObstacleMembers |->
                         IF m \in DOMAIN q.sent[i] THEN q.sent[i][m] ELSE 10 + i]]]

SeenAsSent(q, scene) ==
  \A i \in DOMAIN q.sent : \A o \in {q.sent[i]} :
    /\ scene[i].id = o.id /\ scene[i].length = o.length /\ scene[i].width = o.width
    /\ scene[i].is_dynamic <=> o.is_dynamic = 1
    /\ scene[i].type = CASE o.type = 0 -> "UNKNOWN" [] o.type = 3 -> "PEDESTRIAN"
                          [] o.type = 5 -> "VEHICLE" [] OTHER -> "UNKNOWN"

(* A reader has every member of every message as the writer had it, the    *)
(* lists as long as they were (size bounds of the data types are left      *)
(* out), none of it what memory held before, and the next one begins where *)
(* it ends; and the planning sees the obstacles of a report as they were   *)
(* sent, all of them, or none: never some, and never those of an earlier   *)
(* report.                                                                 *)
SamplesSurviveTheWire ==
  /\ problem.task = "message" =>
       \A class \in {Topic!Classes[problem.class]} :
         \A sample \in {Filled(class, problem.elements, 1)} :
           \A after \in {<<[width |-> "8", value |-> 5]>>} :
             Topic!Read(class, Topic!Write(class, sample) \o after) = [value |-> sample, rest |-> after]
  /\ problem.task = "report" =>
       \A before \in {<<Topic!ForPlanning(Filled(Topic!Obstacle, 0, 1))>>} :
         \A scene \in {Topic!HandleObstacleSample(before, Topic!Delivered(Topic!ObstacleArray, Report(problem)))} :
           IF /\ problem.is_valid = 1 /\ Len(problem.sent) <= 128
              /\ \A o \in Range(problem.sent) : {o.length, o.width} \subseteq {2, 3}
           THEN Len(scene) = Len(problem.sent) /\ SeenAsSent(problem, scene)
           ELSE scene = <<>>

-----------------------------------------------------------------------------
Problems == SegmentProblems \cup RectangleProblems \cup LotProblems \cup CandidateProblems
            \cup CurveProblems \cup LimitProblems \cup SampleProblems \cup DriveProblems \cup BrakeProblems
            \cup DirectProblems \cup SpliceProblems \cup WordProblems \cup StationProblems
            \cup MessageProblems \cup ReportProblems

\* A problem is posed while the optimizer has not started.
MCInit ==
  /\ Init /\ StraightInit /\ HistoryInit
  /\ problem \in {NoProblem} \cup Problems
  /\ problem # NoProblem => ~wait_for_replan

DriveOn == problem = NoProblem /\ Execute /\ UNCHANGED <<problem, straight_vars, history_vars>>

NewSession == problem = NoProblem /\ Reset /\ UNCHANGED <<problem, straight_vars, history_vars>>

\* The task of direct commands is to drive one frame after the other.
DriveDirect == problem.task = "direct" /\ StraightNext /\ UNCHANGED <<vars, problem, history_vars>>

\* So is it of the remembered path.
KeepPath == problem.task = "splice" /\ HistoryNext /\ UNCHANGED <<vars, problem, straight_vars>>

\* Any other problem, once it is answered, makes way for the optimizer.
PutAside ==
  /\ problem.task \notin {"none", "direct", "splice"}
  /\ problem' = NoProblem
  /\ UNCHANGED <<vars, straight_vars, history_vars>>

all_vars == <<vars, problem, straight_vars, history_vars>>

MCSpec == MCInit /\ [][DriveOn \/ NewSession \/ DriveDirect \/ KeepPath \/ PutAside]_all_vars
                 /\ WF_all_vars(DriveOn)

=============================================================================
