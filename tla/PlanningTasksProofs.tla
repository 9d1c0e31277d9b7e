------------------------ MODULE PlanningTasksProofs ------------------------
(***************************************************************************)
(* What the planning tasks answer, for all their inputs: the straight      *)
(* paths of the direct commands, whatever frames come and go; the rest of  *)
(* a remembered path that the next plan is spliced to, whatever the path   *)
(* and the pose of the vehicle are; the speed curves, their choice and the *)
(* limits they keep to; the trajectories made of a path and a curve; and   *)
(* the states of the speed optimizer, for every length of a path, every    *)
(* threshold and every time between two frames.                            *)
(*                                                                         *)
(* Paths are as long as they like, so the facts about them are by          *)
(* induction: over a set of numbers, of which LeastNumber finds the least. *)
(***************************************************************************)
EXTENDS OpenSpaceSpeedOptimizer, OpenSpaceStraightPath, PathHistory, FiniteSetTheorems, SequenceTheorems,
        WellFoundedInduction, TLAPS

WholePoints == [x : Int, y : Int]

Fractions == [num : Int, den : Nat \ {0}]

SamePlace(p, q) == p.x = q.x /\ p.y = q.y

-----------------------------------------------------------------------------
(* Numbers *)

\* Sets of numbers have a least one, so what holds of 0 and of every successor holds
\* of all.
LEMMA LeastNumber ==
  ASSUME NEW S \in SUBSET Nat, S # {}
  PROVE  \E n \in S : \A m \in S : n <= m
<1>1. IsWellFoundedOn(OpToRel(<, Nat), Nat)
  BY NatLessThanWellFounded
<1>2. PICK n \in S : \A m \in S : ~(<<m, n>> \in OpToRel(<, Nat))
  BY <1>1, WFMin
<1>3. \A m \in S : ~(m < n)
  BY <1>2 DEF OpToRel
<1> QED BY <1>3

\* What holds of 0 and, with a number, of the next one holds of all.
LEMMA SetInduction ==
  ASSUME NEW S \in SUBSET Nat, 0 \in S, \A n \in S : n + 1 \in S
  PROVE  S = Nat
<1> SUFFICES ASSUME Nat \ S # {} PROVE FALSE
  OBVIOUS
<1>1. PICK n \in Nat \ S : \A m \in Nat \ S : n <= m
  BY LeastNumber
<1>2. n # 0 /\ n - 1 \in Nat /\ n - 1 \in S
  BY <1>1
<1> QED BY <1>1, <1>2

-----------------------------------------------------------------------------
(* The path along a line *)

\* Headings that are quarter turns lead along an axis, the next one across it.
LEMMA UnitVecs ==
  ASSUME NEW q \in Int
  PROVE  \/ UnitVec(q) = Vec(1, 0) /\ UnitVec(q + 1) = Vec(0, 1)
         \/ UnitVec(q) = Vec(0, 1) /\ UnitVec(q + 1) = Vec(-1, 0)
         \/ UnitVec(q) = Vec(-1, 0) /\ UnitVec(q + 1) = Vec(0, -1)
         \/ UnitVec(q) = Vec(0, -1) /\ UnitVec(q + 1) = Vec(1, 0)
<1>1. q % 4 \in 0 .. 3 /\ (q + 1) % 4 = (IF q % 4 = 3 THEN 0 ELSE (q % 4) + 1)
  OBVIOUS
<1>2. \A k \in 0 .. 3 : k = 0 \/ k = 1 \/ k = 2 \/ k = 3
  OBVIOUS
<1> DEFINE axes == <<Vec(1, 0), Vec(0, 1), Vec(-1, 0), Vec(0, -1)>>
<1>3. axes[1] = Vec(1, 0) /\ axes[2] = Vec(0, 1) /\ axes[3] = Vec(-1, 0) /\ axes[4] = Vec(0, -1)
  OBVIOUS
<1>4. UnitVec(q) = axes[(q % 4) + 1] /\ UnitVec(q + 1) = axes[((q + 1) % 4) + 1]
  BY DEF UnitVec
<1> HIDE DEF axes
<1> QED BY <1>1, <1>2, <1>3, <1>4

Lines == [has_last_mode : BOOLEAN, last_mode : DirectModes,
          original_point : WholePoints, original_direction : Int]

\* In integers, with a and b for the direction of a line: every point of it is on
\* it, its foot is beside a point, and a step leads along.
LEMMA StaysOnLine ==
  ASSUME NEW a \in Int, NEW b \in Int, NEW t \in Int, NEW k \in Int
  PROVE  (t * a + k * a) * (-b) + (t * b + k * b) * a = 0
OBVIOUS

LEMMA FootIsBeside ==
  ASSUME NEW a \in Int, NEW b \in Int, a * a + b * b = 1, NEW x \in Int, NEW y \in Int
  PROVE  ((x * a + y * b) * a - x) * a + ((x * a + y * b) * b - y) * b = 0
<1> DEFINE t == x * a + y * b
<1>1. (t * a - x) * a + (t * b - y) * b = t * (a * a + b * b) - (x * a + y * b)
  OBVIOUS
<1>2. t * (a * a + b * b) = t /\ t \in Int
  OBVIOUS
<1> QED BY <1>1, <1>2

LEMMA StepsAlong ==
  ASSUME NEW a \in Int, NEW b \in Int, NEW d \in Int, a * a + b * b = 1
  PROVE  (d * a) * a + (d * b) * b = d
<1>1. (d * a) * a + (d * b) * b = d * (a * a + b * b)
  OBVIOUS
<1> QED BY <1>1

\* A direct command moves no farther than the longest distance.
LEMMA DirectLengths ==
  ASSUME NEW requested \in Int
  PROVE  DirectMoveLength(requested) \in 0 .. MaxLength
BY StraightAssumption DEF DirectMoveLength

(* A point of a direct path is its multiple of a step beyond the foot. *)
LEMMA PathLeadsAlong ==
  ASSUME NEW l \in Lines, NEW start, start.x \in Int, start.y \in Int,
         NEW pose, pose.x \in Int, pose.y \in Int,
         l.original_point = Vec(pose.x, pose.y), l.original_direction = pose.heading,
         NEW direction \in {1, -1}, NEW length \in Nat
  PROVE  LeadsAlong(DirectMovingPath(l, start, direction, length), start, pose, direction)
<1> DEFINE along == UnitVec(l.original_direction)
           across == UnitVec(l.original_direction + 1)
           foot == Plus(l.original_point,
                        Scaled(InnerProd(Minus(start, l.original_point), along), along))
           path == DirectMovingPath(l, start, direction, length)
           beyond(i) == direction * StepSize * (i - 1)
<1>1. StepSize \in Nat \ {0} /\ length \div StepSize \in Nat
  BY StraightAssumption
<1>2. /\ DOMAIN path = 1 .. length \div StepSize + 1
      /\ \A i \in DOMAIN path : /\ path[i].x = foot.x + beyond(i) * along.x
                                /\ path[i].y = foot.y + beyond(i) * along.y
  BY <1>1 DEF DirectMovingPath, PathPoint, Plus, Scaled, Vec
<1>3. Len(path) = length \div StepSize + 1
  BY <1>1, <1>2 DEF DirectMovingPath
<1>4. \A i \in DOMAIN path : i \in Int /\ beyond(i) \in Int /\ beyond(1) = 0
  BY <1>1, <1>2
<1>5. \A i \in 2 .. Len(path) : beyond(i) = beyond(i-1) + direction * StepSize
  <2>1. \A d, i \in Int : d * (i - 1) = d * ((i - 1) - 1) + d
    OBVIOUS
  <2>2. direction * StepSize \in Int
    BY <1>1
  <2>3. Len(path) \in Int /\ \A i \in 2 .. Len(path) : i \in Int
    BY <1>1, <1>3
  <2> QED BY <2>1, <2>2, <2>3
<1>6. l.original_direction \in Int
  BY DEF Lines
<1>7. \E a, b \in Int : /\ a * a + b * b = 1
                       /\ along = Vec(a, b) /\ across = Vec(-b, a)
  <2>1. \A a, b \in {-1, 0, 1} : (a = 0 <=> b # 0) => a * a + b * b = 1
    OBVIOUS
  <2> QED BY <1>6, <2>1, UnitVecs
<1>8. PICK a \in Int, b \in Int : /\ a * a + b * b = 1
                                /\ along = Vec(a, b) /\ across = Vec(-b, a)
  BY <1>7
<1> HIDE DEF along, across
<1> DEFINE dx == start.x - pose.x
           dy == start.y - pose.y
           t == dx * a + dy * b
           ta == t * a
           tb == t * b
<1>9. foot.x = pose.x + ta /\ foot.y = pose.y + tb
  BY <1>8 DEF Plus, Scaled, InnerProd, Minus, Vec
<1>13. dx \in Int /\ dy \in Int /\ dx = start.x - pose.x /\ dy = start.y - pose.y
  OBVIOUS
<1>14. t \in Int /\ t = dx * a + dy * b
  BY <1>13
<1>15. ta \in Int /\ tb \in Int
  BY <1>14
<1> HIDE DEF foot, path, beyond, dx, dy, t, ta, tb
<1>10. ASSUME NEW i \in DOMAIN path
       PROVE  InnerProd(Minus(path[i], pose), across) = 0
  <2> DEFINE k == beyond(i)
             ka == k * a
             kb == k * b
  <2>1. k \in Int
    BY <1>4
  <2>2. path[i].x = foot.x + ka /\ path[i].y = foot.y + kb
    BY <1>2, <1>8 DEF Vec
  <2>3. ka \in Int /\ kb \in Int
    BY <2>1
  <2>4. (ta + ka) * (-b) + (tb + kb) * a = 0
    BY <1>14, <2>1, StaysOnLine DEF ta, tb
  <2> HIDE DEF k, ka, kb
  <2>5. path[i].x - pose.x = ta + ka /\ path[i].y - pose.y = tb + kb
    BY <1>9, <1>15, <2>2, <2>3
  <2> QED BY <1>8, <2>4, <2>5 DEF InnerProd, Minus, Vec
<1>11. InnerProd(Minus(path[1], start), along) = 0
  <2>1. 1 \in DOMAIN path /\ beyond(1) = 0
    BY <1>1, <1>2, <1>4
  <2>2. path[1].x = foot.x + 0 * a /\ path[1].y = foot.y + 0 * b
    BY <1>2, <1>8, <2>1 DEF Vec
  <2>3. path[1].x = foot.x /\ path[1].y = foot.y
    BY <1>9, <1>15, <2>2
  <2>4. path[1].x - start.x = ta - dx /\ path[1].y - start.y = tb - dy
    BY <1>9, <1>13, <1>15, <2>3
  <2>5. (ta - dx) * a + (tb - dy) * b = 0
    <3>1. \A x, y \in Int : ((x * a + y * b) * a - x) * a + ((x * a + y * b) * b - y) * b = 0
      BY <1>8, FootIsBeside
    <3>2. dx \in Int /\ dy \in Int
      BY <1>13
    <3> QED BY <3>1, <3>2 DEF t, ta, tb
  <2> QED BY <1>8, <2>4, <2>5 DEF InnerProd, Minus, Vec
<1>12. ASSUME NEW i \in 2 .. Len(path)
       PROVE  InnerProd(Minus(path[i], path[i-1]), along) = direction * StepSize
  <2> DEFINE k == beyond(i-1)
             d == direction * StepSize
             da == d * a
             db == d * b
             ka == k * a
             kb == k * b
  <2>1. k \in Int /\ d \in Int /\ beyond(i) = k + d
    <3>1. i \in DOMAIN path /\ i - 1 \in DOMAIN path
      BY <1>1, <1>2, <1>3
    <3>2. d \in Int
      BY <1>1
    <3> QED BY <1>4, <1>5, <3>1, <3>2
  <2>2. /\ path[i-1].x = foot.x + ka /\ path[i-1].y = foot.y + kb
        /\ path[i].x = foot.x + (k + d) * a /\ path[i].y = foot.y + (k + d) * b
    <3>1. i \in DOMAIN path /\ i - 1 \in DOMAIN path
      BY <1>1, <1>2, <1>3
    <3> HIDE DEF d
    <3> QED BY <1>2, <1>8, <2>1, <3>1 DEF Vec
  <2>3. (k + d) * a = ka + da /\ (k + d) * b = kb + db /\ {ka, kb, da, db} \subseteq Int
    <3> HIDE DEF k, d
    <3> QED BY <2>1
  <2>4. da * a + db * b = d
    BY <1>8, <2>1, StepsAlong
  <2> HIDE DEF k, d, ka, kb, da, db
  <2>5. path[i].x - path[i-1].x = da /\ path[i].y - path[i-1].y = db
    <3>1. path[i].x = foot.x + (ka + da) /\ path[i].y = foot.y + (kb + db)
      BY <2>2, <2>3
    <3>2. ka \in Int /\ kb \in Int /\ da \in Int /\ db \in Int
      BY <2>3
    <3>4. foot.x \in Int /\ foot.y \in Int
      BY <1>9, <1>15
    <3>3. path[i-1].x = foot.x + ka /\ path[i-1].y = foot.y + kb
      BY <2>2
    <3>5. \A f, u, v \in Int : (f + (u + v)) - (f + u) = v
      OBVIOUS
    <3>6. /\ (foot.x + (ka + da)) - (foot.x + ka) = da
          /\ (foot.y + (kb + db)) - (foot.y + kb) = db
      <4> DEFINE fx == foot.x
                 fy == foot.y
      <4>1. fx \in Int /\ fy \in Int
        BY <3>4
      <4> HIDE DEF fx, fy
      <4>2. (fx + (ka + da)) - (fx + ka) = da /\ (fy + (kb + db)) - (fy + kb) = db
        BY <3>2, <3>5, <4>1
      <4> QED BY Zenon, <4>2 DEF fx, fy
    <3> HIDE DEF path, foot
    <3> QED BY Zenon, <3>1, <3>3, <3>6
  <2>6. InnerProd(Minus(path[i], path[i-1]), along) = da * a + db * b
    BY <1>8, <2>5 DEF InnerProd, Minus, Vec
  <2> QED BY <2>4, <2>6 DEF d
<1> QED BY <1>10, <1>11, <1>12 DEF LeadsAlong, along, across, path

\* The path stops less than a step before the length that was asked for.
LEMMA PathReaches ==
  ASSUME NEW l \in Lines, NEW start, NEW direction, NEW length \in Nat
  PROVE  LET reach == PathLength(DirectMovingPath(l, start, direction, length))
         IN reach \in Nat /\ reach <= length /\ length < reach + StepSize
<1> DEFINE n == length \div StepSize
           path == DirectMovingPath(l, start, direction, length)
<1>1. StepSize \in Nat \ {0} /\ n \in Nat /\ StepSize * n <= length /\ length < StepSize * n + StepSize
  BY StraightAssumption
<1>2. DOMAIN path = 1 .. n + 1 /\ \A i \in 1 .. n + 1 : path[i].s = StepSize * (i - 1)
  BY DEF DirectMovingPath, PathPoint
<1>3. path # << >> /\ Len(path) = n + 1
  <2>1. Len(path) = n + 1
    BY <1>1, <1>2 DEF DirectMovingPath
  <2> HIDE DEF path, n
  <2> QED BY <1>1, <2>1
<1> HIDE DEF path, n
<1>4. path[n + 1].s = StepSize * n /\ path[1].s = 0
  BY <1>1, <1>2
<1>5. PathLength(path) = StepSize * n
  BY <1>1, <1>3, <1>4 DEF PathLength
<1> QED BY <1>1, <1>5 DEF path

-----------------------------------------------------------------------------
(* The inductive invariant *)

StraightType ==
  /\ line \in Lines
  /\ driven \in Seq(DirectFrames)

\* The line is that of the drive that goes on.
LineBegan ==
  IF driven = << >> THEN line = NoLine
  ELSE /\ line.has_last_mode /\ line.last_mode = driven[Len(driven)].mode
       /\ \E i \in DOMAIN driven :
            /\ Began(i)
            /\ line.original_point = Vec(driven[i].vehicle.x, driven[i].vehicle.y)
            /\ line.original_direction = driven[i].vehicle.heading

StraightInv == StraightType /\ LineBegan /\ DirectKeepsLine

\* What a frame is made of.
LEMMA FramesAre ==
  ASSUME NEW frame \in DirectFrames
  PROVE  /\ frame.mode \in DirectModes /\ frame.distance \in Int
         /\ frame.vehicle.x \in Int /\ frame.vehicle.y \in Int
         /\ frame.vehicle.heading \in Int /\ frame.vehicle.v \in Int
BY StraightAssumption

\* A stop is needed unless the vehicle may drive.
LEMMA MayDriveUnlessStop ==
  ASSUME NEW frame \in DirectFrames
  PROVE  /\ MayDrive(frame.mode, frame.vehicle) <=> ~NeedStopDecision(frame.mode, frame.vehicle)
         /\ MayDrive(frame.mode, frame.vehicle) => frame.vehicle.gear = TargetGear(frame.mode)
BY FramesAre DEF MayDrive, NeedStopDecision, TargetGear, MovingDirection, DirectModes

LEMMA StraightInitInv == StraightInit => StraightInv
BY DEF StraightInit, StraightInv, StraightType, LineBegan, DirectKeepsLine, NoLine, NoAnswer,
       Lines, DirectModes, WholePoints, Vec

LEMMA StopFirstStep ==
  ASSUME StraightInv, NEW frame \in DirectFrames, StopFirst(frame)
  PROVE  StraightInv'
<1>1. StraightType' /\ LineBegan'
  BY DEF StraightInv, StopFirst, StraightType, LineBegan, Began
<1>2. DirectKeepsLine'
  <2>1. ~MayDrive(frame.mode, frame.vehicle)
    BY MayDriveUnlessStop DEF StopFirst
  <2>2. answer'.frame = frame /\ answer'.is_stop_path
        /\ \A i \in DOMAIN answer'.path : /\ answer'.path[i].x = frame.vehicle.x
                                        /\ answer'.path[i].y = frame.vehicle.y
    BY DEF StopFirst, Answered, StopPath, PathPoint
  <2> QED BY <2>1, <2>2 DEF DirectKeepsLine
<1> QED BY <1>1, <1>2 DEF StraightInv

LEMMA LeadOnStep ==
  ASSUME StraightInv, NEW frame \in DirectFrames, LeadOn(frame)
  PROVE  StraightInv'
<1> DEFINE now == frame.vehicle
           n == Len(driven)
<1>1. driven \in Seq(DirectFrames) /\ n \in Nat /\ line \in Lines /\ LineBegan
  BY DEF StraightInv, StraightType
<1>2. /\ driven' = Append(driven, frame) /\ driven' \in Seq(DirectFrames)
      /\ Len(driven') = n + 1 /\ driven'[n+1] = frame /\ driven' # << >>
      /\ \A i \in 1 .. n : driven'[i] = driven[i]
      /\ DOMAIN driven' = 1 .. n + 1 /\ DOMAIN driven = 1 .. n
  BY <1>1 DEF LeadOn
<1>3. line' = LineOf(frame) /\ line' \in Lines
  BY <1>1, FramesAre DEF LeadOn, LineOf, Lines, WholePoints, Vec
<1>4. line'.has_last_mode /\ line'.last_mode = frame.mode
  BY <1>1, <1>3 DEF LineOf, Lines
<1>5. PICK i \in DOMAIN driven' :
             /\ Began(i)'
             /\ line'.original_point = Vec(driven'[i].vehicle.x, driven'[i].vehicle.y)
             /\ line'.original_direction = driven'[i].vehicle.heading
  <2>1. CASE driven # << >> /\ driven[n].mode = frame.mode
    <3>1. line' = line
      BY <1>1, <1>3, <2>1 DEF LineBegan, LineOf
    <3>2. PICK i \in DOMAIN driven :
             /\ Began(i)
             /\ line.original_point = Vec(driven[i].vehicle.x, driven[i].vehicle.y)
             /\ line.original_direction = driven[i].vehicle.heading
      BY <1>1, <2>1 DEF LineBegan
    <3>3. i \in 1 .. n /\ driven[i].mode = frame.mode
      BY <1>1, <1>2, <2>1, <3>2 DEF Began
    <3>4. Began(i)'
      BY <1>1, <1>2, <3>2, <3>3 DEF Began
    <3> QED BY <1>2, <3>1, <3>2, <3>3, <3>4
  <2>2. CASE driven = << >> \/ driven[n].mode # frame.mode
    <3>1. /\ line'.original_point = Vec(now.x, now.y)
          /\ line'.original_direction = now.heading
      BY <1>1, <1>3, <2>2 DEF LineBegan, LineOf, NoLine
    <3>2. driven # << >> => n > 0 /\ n \in 1 .. n
      BY <1>1
    <3>3. driven = << >> => n = 0
      OBVIOUS
    <3>4. PICK k \in Nat : k = n + 1
      BY <1>1
    <3>5. \A j \in k .. Len(driven') : driven'[j].mode = driven'[k].mode
      <4>1. \A j \in k .. k : j = k
        OBVIOUS
      <4> QED BY <1>2, <3>4, <4>1
    <3>6. k > 1 => driven'[k-1].mode # driven'[k].mode
      <4> SUFFICES ASSUME k > 1 PROVE driven'[k-1].mode # driven'[k].mode
        OBVIOUS
      <4>1. n > 0 /\ k - 1 = n /\ n \in 1 .. n
        BY <1>1, <3>4
      <4>2. driven # << >>
        BY <3>3, <4>1
      <4>3. driven'[n] = driven[n]
        BY <1>2, <4>1
      <4> QED BY <1>2, <2>2, <3>4, <4>1, <4>2, <4>3
    <3>7. Began(k)'
      BY <3>5, <3>6 DEF Began
    <3>8. k \in DOMAIN driven' /\ driven'[k] = frame
      BY <1>1, <1>2, <3>4
    <3> QED BY <3>1, <3>7, <3>8
  <2> QED BY <2>1, <2>2
<1>6. StraightType' /\ LineBegan'
  BY <1>2, <1>3, <1>4, <1>5 DEF StraightType, LineBegan
<1>7. DirectKeepsLine'
  <2> DEFINE length == DirectMoveLength(frame.distance)
             direction == MovingDirection(frame.mode)
             path == DirectMovingPath(line', now, direction, length)
             pose == driven'[i].vehicle
  <2>1. MayDrive(frame.mode, now) /\ now.gear = TargetGear(frame.mode)
    BY MayDriveUnlessStop DEF LeadOn
  <2>2. /\ answer'.frame = frame /\ answer'.path = path
        /\ ~answer'.is_stop_path /\ answer'.gear = now.gear
    BY <2>1 DEF LeadOn, Answered
  <2>3. direction \in {1, -1} /\ direction = IF frame.mode = "DIRECT_FORWARD" THEN 1 ELSE -1
    BY DEF MovingDirection
  <2>4. length \in Nat /\ length <= MaxLength
        /\ (frame.distance <= 0 => length = DefaultLength)
        /\ (frame.distance \in 1 .. MaxLength => length = frame.distance)
    BY FramesAre, StraightAssumption DEF DirectMoveLength
  <2> HIDE DEF path, length, direction
  <2>5. LeadsAlong(path, now, pose, direction)
    <3>1. pose.x \in Int /\ pose.y \in Int /\ now.x \in Int /\ now.y \in Int
      BY <1>2, <1>5, FramesAre
    <3> QED BY <1>3, <1>5, <2>3, <2>4, <3>1, PathLeadsAlong DEF path
  <2>6. PathLength(path) <= length /\ length < PathLength(path) + StepSize
    BY <1>3, <2>4, PathReaches DEF path
  <2>7. driven' # << >> /\ driven'[Len(driven')] = frame
    BY <1>2
  <2> DEFINE reach == PathLength(path) .. PathLength(path) + StepSize - 1
  <2>8. PathLength(path) \in Int /\ StepSize \in Nat /\ DefaultLength \in Nat /\ MaxLength \in Nat
    BY <1>3, <2>4, PathReaches, StraightAssumption DEF path
  <2>9. length \in reach /\ PathLength(path) <= MaxLength
    BY <2>4, <2>6, <2>8
  <2>10. /\ frame.distance <= 0 => DefaultLength \in reach
         /\ frame.distance \in 1 .. MaxLength => frame.distance \in reach
    BY <2>4, <2>9
  <2> HIDE DEF reach, pose
  <2> QED BY <1>5, <2>1, <2>2, <2>3, <2>5, <2>7, <2>9, <2>10 DEF DirectKeepsLine, reach, pose
<1> QED BY <1>6, <1>7 DEF StraightInv

LEMMA StraightNextInv == StraightInv /\ [StraightNext]_straight_vars => StraightInv'
<1> SUFFICES ASSUME StraightInv, [StraightNext]_straight_vars PROVE StraightInv'
  OBVIOUS
<1>1. CASE ResetLine
  BY <1>1, StraightInitInv
  DEF ResetLine, StraightInv, StraightType, LineBegan, DirectKeepsLine, NoLine, NoAnswer,
      Lines, DirectModes, WholePoints, Vec
<1>2. CASE UNCHANGED straight_vars
  BY <1>2 DEF straight_vars, StraightInv, StraightType, LineBegan, DirectKeepsLine, Began
<1> QED BY <1>1, <1>2, StopFirstStep, LeadOnStep DEF StraightNext

(* A direct command leads along the line where it began, for every         *)
(* sequence of frames and every length and step.                           *)
THEOREM DirectPathsKeepTheirLine == StraightSpec => []DirectKeepsLine
<1>1. StraightInv => DirectKeepsLine
  BY DEF StraightInv
<1> QED BY <1>1, StraightInitInv, StraightNextInv, PTL DEF StraightSpec

-----------------------------------------------------------------------------
(* Fractions *)

\* Fractions are ordered: of two, one is not above the other.
LEMMA LessEqTotal ==
  ASSUME NEW f \in Fractions, NEW g \in Fractions
  PROVE  LessEq(f, g) \/ LessEq(g, f)
<1>1. \A a, b \in Int : a <= b \/ b <= a
  OBVIOUS
<1>2. f.num * g.den \in Int /\ g.num * f.den \in Int
  BY DEF Fractions
<1> QED BY <1>1, <1>2 DEF LessEq

LEMMA Cancels ==
  ASSUME NEW y \in Nat \ {0}, NEW p \in Int, NEW q \in Int, y * p <= y * q
  PROVE  p <= q
<1> SUFFICES ASSUME p - (q + 1) \in Nat PROVE FALSE
  OBVIOUS
<1>1. PICK r \in Nat : r = p - (q + 1)
  OBVIOUS
<1>2. p = (q + 1) + r
  BY <1>1
<1>3. y * p = y * q + y + y * r
  BY <1>2
<1>4. y * r \in Nat /\ y * q \in Int /\ y * p \in Int
  OBVIOUS
<1> QED BY <1>3, <1>4

LEMMA ExactQuotient ==
  ASSUME NEW e \in Int, NEW n \in Nat \ {0}
  PROVE  (e * n) \div n = e
OBVIOUS

LEMMA ProductsTransitive ==
  ASSUME NEW a \in Int, NEW b \in Int, NEW c \in Int,
         NEW x \in Nat \ {0}, NEW y \in Nat \ {0}, NEW z \in Nat \ {0},
         a * y <= b * x, b * z <= c * y
  PROVE  a * z <= c * x
<1>1. (a * y) * z <= (b * x) * z /\ (b * z) * x <= (c * y) * x
  OBVIOUS
<1>2. y * (a * z) <= y * (c * x)
  BY <1>1
<1>3. a * z \in Int /\ c * x \in Int
  OBVIOUS
<1> QED BY <1>2, <1>3, Cancels

\* The order of the fractions is transitive.
LEMMA LessEqTransitive ==
  ASSUME NEW f \in Fractions, NEW g \in Fractions, NEW h \in Fractions,
         LessEq(f, g), LessEq(g, h)
  PROVE  LessEq(f, h)
BY ProductsTransitive DEF LessEq, Fractions

\* Of finitely many fractions there is a first least one.
LEMMA FirstLeast ==
  ASSUME NEW N \in Nat, NEW d \in [1 .. N -> Fractions],
         NEW S \in SUBSET (1 .. N), S # {}
  PROVE  \E i \in S : \A j \in S : LessEq(d[i], d[j]) /\ (LessEq(d[j], d[i]) => i <= j)
<1> DEFINE first(T, i) == \A j \in T : LessEq(d[i], d[j]) /\ (LessEq(d[j], d[i]) => i <= j)
           P == {m \in Nat : \A T \in SUBSET (1 .. N) :
                   (T \subseteq 1 .. m /\ T # {}) => \E i \in T : first(T, i)}
<1>1. 0 \in P
  <2>1. 1 .. 0 = {}
    OBVIOUS
  <2>2. \A T : T \subseteq 1 .. 0 => T = {}
    BY <2>1
  <2> HIDE DEF first
  <2> QED BY <2>2
<1>2. ASSUME NEW m \in P PROVE m + 1 \in P
  <2> SUFFICES ASSUME NEW T \in SUBSET (1 .. N), T \subseteq 1 .. m + 1, T # {}
               PROVE  \E i \in T : first(T, i)
    BY <1>2
  <2> DEFINE R == T \ {m + 1}
  <2>1. R \subseteq 1 .. m
    BY <1>2
  <2>2. \A i \in T : i \in Int /\ d[i] \in Fractions /\ LessEq(d[i], d[i])
    BY LessEqTotal
  <2>3. CASE m + 1 \notin T
    <3>1. T = R
      BY <2>3
    <3> QED BY <1>2, <2>1, <3>1
  <2>4. CASE m + 1 \in T /\ R = {}
    <3>1. T = {m + 1}
      BY <2>4
    <3> QED BY <2>2, <3>1
  <2>5. CASE m + 1 \in T /\ R # {}
    <3>1. PICK i \in R : first(R, i)
      BY <1>2, <2>1, <2>5
    <3>2. \A j \in R : j < m + 1 /\ j \in T
      BY <1>2, <2>1
    <3>3. CASE LessEq(d[i], d[m+1])
      <4>1. first(T, i)
        BY <2>2, <3>1, <3>2, <3>3
      <4> QED BY <4>1
    <3>4. CASE ~LessEq(d[i], d[m+1])
      <4>1. LessEq(d[m+1], d[i])
        BY <2>2, <2>5, <3>2, <3>4, LessEqTotal
      <4>2. \A j \in R : LessEq(d[m+1], d[j])
        BY <2>2, <2>5, <3>1, <3>2, <4>1, LessEqTransitive
      <4>3. \A j \in R : ~LessEq(d[j], d[m+1])
        BY <2>2, <2>5, <3>1, <3>2, <3>4, LessEqTransitive
      <4>4. first(T, m + 1)
        BY <2>2, <2>5, <4>2, <4>3
      <4> QED BY <2>5, <4>4
    <3> QED BY <3>3, <3>4
  <2> QED BY <2>3, <2>4, <2>5
<1>3. P = Nat
  <2> HIDE DEF P
  <2>1. P \in SUBSET Nat
    BY DEF P
  <2> QED BY <1>1, <1>2, <2>1, SetInduction
<1> QED BY <1>3

-----------------------------------------------------------------------------
(* The distance of a point to a segment *)

\* In integers, for a point at (px, py) from the start of a segment along (vx, vy).
LEMMA Lagrange ==
  ASSUME NEW px \in Int, NEW py \in Int, NEW vx \in Int, NEW vy \in Int
  PROVE  (px * vy - py * vx) * (px * vy - py * vx) <= (px * px + py * py) * (vx * vx + vy * vy)
<1> DEFINE cross == px * vy - py * vx
           proj == px * vx + py * vy
<1>1. cross * cross + proj * proj = (px * px + py * py) * (vx * vx + vy * vy)
  OBVIOUS
<1>2. proj \in Int /\ cross \in Int
  OBVIOUS
<1> HIDE DEF cross, proj
<1>3. proj * proj >= 0 /\ proj * proj \in Int /\ cross * cross \in Int
  BY <1>2
<1>4. cross * cross <= (px * px + py * py) * (vx * vx + vy * vy)
  BY <1>1, <1>3
<1> QED BY <1>4 DEF cross

LEMMA CrossOfEnd ==
  ASSUME NEW px \in Int, NEW py \in Int, NEW vx \in Int, NEW vy \in Int
  PROVE  (px - vx) * vy - (py - vy) * vx = px * vy - py * vx
OBVIOUS

LEMMA SquaresApart ==
  ASSUME NEW px \in Int, NEW py \in Int, NEW vx \in Int, NEW vy \in Int
  PROVE  (px - vx) * (px - vx) + (py - vy) * (py - vy)
           = (px * px + py * py) - 2 * (px * vx + py * vy) + (vx * vx + vy * vy)
OBVIOUS

\* Along an axis the distance is whole.
LEMMA LengthOnAxis ==
  ASSUME NEW v \in WholePoints, v.x = 0 \/ v.y = 0, v.x # 0 \/ v.y # 0
  PROVE  /\ Length(v) \in Nat \ {0}
         /\ v.x = 0 => Length(v) \in {v.y, -v.y}
         /\ v.y = 0 => Length(v) \in {v.x, -v.x}
<1> DEFINE along(q) == InnerProd(v, UnitVec(q)) > 0 /\ CrossProd(v, UnitVec(q)) = 0
           axes == <<Vec(1, 0), Vec(0, 1), Vec(-1, 0), Vec(0, -1)>>
<1>1. /\ UnitVec(0) = Vec(1, 0) /\ UnitVec(1) = Vec(0, 1)
      /\ UnitVec(2) = Vec(-1, 0) /\ UnitVec(3) = Vec(0, -1)
  BY DEF UnitVec
<1>2. \E q \in 0 .. 3 : along(q)
  <2>1. v.x \in Int /\ v.y \in Int
    BY DEF WholePoints
  <2>2. v.x > 0 /\ v.y = 0 => along(0)
    BY <1>1, <2>1 DEF InnerProd, CrossProd, Vec
  <2>3. v.x = 0 /\ v.y > 0 => along(1)
    BY <1>1, <2>1 DEF InnerProd, CrossProd, Vec
  <2>4. v.x < 0 /\ v.y = 0 => along(2)
    BY <1>1, <2>1 DEF InnerProd, CrossProd, Vec
  <2>5. v.x = 0 /\ v.y < 0 => along(3)
    BY <1>1, <2>1 DEF InnerProd, CrossProd, Vec
  <2> QED BY <2>1, <2>2, <2>3, <2>4, <2>5
<1>3. Angle(v) \in 0 .. 3 /\ along(Angle(v))
  BY <1>2 DEF Angle
<1>4. PICK q \in 0 .. 3 : q = Angle(v)
  BY <1>3
<1>5. q = 0 \/ q = 1 \/ q = 2 \/ q = 3
  OBVIOUS
<1>6. \E a, b \in {-1, 0, 1} : UnitVec(q) = Vec(a, b) /\ (a = 0 <=> b # 0)
  BY <1>1, <1>5
<1>7. PICK a \in {-1, 0, 1}, b \in {-1, 0, 1} : UnitVec(q) = Vec(a, b) /\ (a = 0 <=> b # 0)
  BY <1>6
<1>8. Length(v) = v.x * a + v.y * b /\ Length(v) > 0
  BY <1>3, <1>4, <1>7 DEF Length, InnerProd, Vec
<1>9. v.x \in Int /\ v.y \in Int
  BY DEF WholePoints
<1>10. CASE v.x = 0
  <2>1. v.x * a = 0
    BY <1>7, <1>10
  <2>2. b = 1 \/ b = -1
    BY <1>7, <1>8, <1>9, <1>10, <2>1
  <2> QED BY <1>8, <1>9, <1>10, <2>1, <2>2
<1>11. CASE v.y = 0
  <2>1. v.y * b = 0
    BY <1>7, <1>11
  <2>2. a = 1 \/ a = -1
    BY <1>7, <1>8, <1>9, <1>11, <2>1
  <2> QED BY <1>8, <1>9, <1>11, <2>1, <2>2
<1> QED BY <1>10, <1>11

\* The distance of a point to a segment is a fraction, and at most that to either end.
LEMMA DistanceIsFraction ==
  ASSUME NEW p, p.x \in Int, p.y \in Int, NEW s,
         s.start.x \in Int, s.start.y \in Int, s.end.x \in Int, s.end.y \in Int
  PROVE  /\ SegmentDistance(p, s) \in Fractions
         /\ LessEq(SegmentDistance(p, s), Fraction(DistanceSquareTo(p, s.start), 1))
         /\ LessEq(SegmentDistance(p, s), Fraction(DistanceSquareTo(p, s.end), 1))
<1> DEFINE px == p.x - s.start.x
           py == p.y - s.start.y
           vx == s.end.x - s.start.x
           vy == s.end.y - s.start.y
           proj == px * vx + py * vy
           cross == px * vy - py * vx
           len == vx * vx + vy * vy
           near == px * px + py * py
           far == (px - vx) * (px - vx) + (py - vy) * (py - vy)
<1>1. px \in Int /\ py \in Int /\ vx \in Int /\ vy \in Int
  OBVIOUS
<1>2. /\ InnerProd(Minus(p, s.start), Along(s)) = proj
      /\ CrossProd(Minus(p, s.start), Along(s)) = cross
      /\ LengthSquare(Along(s)) = len
      /\ DistanceSquareTo(p, s.start) = near
  BY DEF InnerProd, Minus, Along, CrossProd, LengthSquare, DistanceSquareTo, Vec
<1>3. DistanceSquareTo(p, s.end) = far
  <2>1. px - vx = p.x - s.end.x /\ py - vy = p.y - s.end.y
    OBVIOUS
  <2> QED BY <2>1 DEF InnerProd, Minus, LengthSquare, DistanceSquareTo, Vec
<1>4. Along(s) = [x |-> vx, y |-> vy]
  BY DEF Along, Minus, Vec
<1> HIDE DEF px, py, vx, vy
<1>5. proj \in Int /\ cross \in Int /\ len \in Nat /\ near \in Nat /\ far \in Nat
  BY <1>1
<1>6. far = near - 2 * proj + len
  BY <1>1, SquaresApart
<1>7. cross * cross <= near * len
  BY <1>1, Lagrange
<1>8. cross * cross <= far * len
  <2>1. (px - vx) * vy - (py - vy) * vx = cross
    BY <1>1, CrossOfEnd
  <2>2. px - vx \in Int /\ py - vy \in Int
    BY <1>1
  <2> QED BY <1>1, <2>1, <2>2, Lagrange
<1> HIDE DEF proj, cross, len, near, far
<1>9. CASE len = 0 \/ proj <= 0
  <2>1. SegmentDistance(p, s) = [num |-> near, den |-> 1]
    BY <1>2, <1>9 DEF SegmentDistance, Fraction
  <2>2. near <= far
    <3>1. len = 0 => vx = 0 /\ vy = 0
      BY <1>1 DEF len
    <3>2. vx = 0 /\ vy = 0 => proj = 0
      BY <1>1 DEF proj
    <3> QED BY <1>5, <1>6, <1>9, <3>1, <3>2
  <2> QED BY <1>2, <1>3, <1>5, <2>1, <2>2 DEF Fractions, LessEq, Fraction
<1>10. CASE ~(len = 0 \/ proj <= 0) /\ proj >= len
  <2>1. SegmentDistance(p, s) = [num |-> far, den |-> 1]
    BY <1>2, <1>3, <1>10 DEF SegmentDistance, Fraction
  <2>2. far <= near
    BY <1>5, <1>6, <1>10
  <2> QED BY <1>2, <1>3, <1>5, <2>1, <2>2 DEF Fractions, LessEq, Fraction
<1>11. CASE ~(len = 0 \/ proj <= 0) /\ ~(proj >= len) /\ ~(0 \in {vx, vy})
  <2>1. SegmentDistance(p, s) = [num |-> cross * cross, den |-> len]
    BY <1>2, <1>4, <1>11 DEF SegmentDistance, Fraction
  <2>2. cross * cross \in Int /\ len \in Nat \ {0}
    BY <1>5, <1>11
  <2>3. cross * cross * 1 <= near * len /\ cross * cross * 1 <= far * len
    BY <1>7, <1>8, <2>2
  <2> QED BY <1>2, <1>3, <2>1, <2>2, <2>3 DEF Fractions, LessEq, Fraction
<1>12. CASE ~(len = 0 \/ proj <= 0) /\ ~(proj >= len) /\ 0 \in {vx, vy}
  <2> DEFINE L == Length(Along(s))
             d == cross \div L
  <2>1. SegmentDistance(p, s) = [num |-> d * d, den |-> 1]
    BY <1>2, <1>4, <1>12 DEF SegmentDistance, Fraction
  <2>2. d \in Int /\ d * d <= near /\ d * d <= far
    <3>1. /\ L \in Nat \ {0}
          /\ vx = 0 => L \in {vy, -vy}
          /\ vy = 0 => L \in {vx, -vx}
      <4>1. vx # 0 \/ vy # 0
        BY <1>12 DEF len
      <4>2. Along(s) \in WholePoints
        BY <1>1, <1>4 DEF WholePoints
      <4> QED BY <1>4, <1>12, <4>1, <4>2, LengthOnAxis
    <3> HIDE DEF L
    <3>2. \E e \in Int : cross = e * L /\ len = L * L
      <4>1. CASE vx = 0
        <5>1. cross = px * vy /\ len = vy * vy
          BY <1>1, <4>1 DEF cross, len
        <5>2. CASE L = vy
          BY <1>1, <5>1, <5>2
        <5>3. CASE L = -vy
          <6>1. vy = -L /\ -px \in Int /\ px * (-L) = (-px) * L /\ (-L) * (-L) = L * L
            BY <1>1, <3>1, <5>3
          <6> QED BY <5>1, <6>1
        <5> QED BY <3>1, <4>1, <5>2, <5>3
      <4>2. CASE vy = 0
        <5>1. cross = (-py) * vx /\ len = vx * vx /\ -py \in Int
          BY <1>1, <4>2 DEF cross, len
        <5>2. CASE L = vx
          BY <1>1, <5>1, <5>2
        <5>3. CASE L = -vx
          <6>1. vx = -L /\ (-py) * (-L) = py * L /\ (-L) * (-L) = L * L
            BY <1>1, <3>1, <5>3
          <6> QED BY <1>1, <5>1, <6>1
        <5> QED BY <3>1, <4>2, <5>2, <5>3
      <4> QED BY <1>12, <4>1, <4>2
    <3>3. PICK e \in Int : cross = e * L /\ len = L * L
      BY <3>2
    <3>4. d = e
      BY <3>1, <3>3, ExactQuotient
    <3>5. L * L \in Nat \ {0}
      BY <3>1
    <3>6. (L * L) * (e * e) = cross * cross
      BY <3>1, <3>3
    <3>7. (L * L) * (e * e) <= (L * L) * near /\ (L * L) * (e * e) <= (L * L) * far
      BY <1>5, <1>7, <1>8, <3>3, <3>5, <3>6
    <3>8. e * e <= near /\ e * e <= far
      <4>1. e * e \in Int
        OBVIOUS
      <4> QED BY <1>5, <3>5, <3>7, <4>1, Cancels
    <3> QED BY <3>4, <3>8
  <2> HIDE DEF d
  <2>3. d * d \in Int
    BY <2>2
  <2> QED BY <1>2, <1>3, <1>5, <2>1, <2>2, <2>3 DEF Fractions, LessEq, Fraction
<1> QED BY <1>9, <1>10, <1>11, <1>12

-----------------------------------------------------------------------------
(* The pieces of a path *)

LEMMA PathPointsAre ==
  ASSUME NEW path \in Seq(PathPoints), NEW i \in 1 .. Len(path)
  PROVE  path[i] \in PathPoints /\ path[i].x \in Int /\ path[i].y \in Int
<1>1. path[i] \in PathPoints
  OBVIOUS
<1> QED BY <1>1 DEF PathPoints

LEMMA SquaresZero ==
  ASSUME NEW a \in Int, NEW b \in Int, ~(a * a + b * b > 0)
  PROVE  a = 0 /\ b = 0
<1>1. \A c \in Int : c * c >= 0 /\ (c > 0 => c * c > 0) /\ (-c > 0 => c * c > 0)
  OBVIOUS
<1>2. a * a \in Int /\ b * b \in Int
  OBVIOUS
<1> QED BY <1>1, <1>2

\* A point is no farther from a piece of a path than from its ends.
LEMMA PieceDistances ==
  ASSUME NEW path \in Seq(PathPoints), NEW p, p.x \in Int, p.y \in Int, NEW i \in 1 .. Len(path) - 1
  PROVE  LET d == SegmentDistance(p, PathPiece(path, i))
         IN /\ d \in Fractions
            /\ LessEq(d, Fraction(DistanceSquareTo(p, path[i]), 1))
            /\ LessEq(d, Fraction(DistanceSquareTo(p, path[i+1]), 1))
<1>1. i \in 1 .. Len(path) /\ i + 1 \in 1 .. Len(path)
  OBVIOUS
<1>2. PathPiece(path, i).start = path[i] /\ PathPiece(path, i).end = path[i+1]
  BY DEF PathPiece, Segment
<1> QED BY <1>1, <1>2, PathPointsAre, DistanceIsFraction

\* A piece without length begins and ends at one place.
LEMMA NoPiece ==
  ASSUME NEW path \in Seq(PathPoints), NEW i \in 1 .. Len(path) - 1, i \notin PathPieces(path)
  PROVE  SamePlace(path[i], path[i+1])
<1> DEFINE dx == path[i+1].x - path[i].x
           dy == path[i+1].y - path[i].y
<1>1. /\ path[i].x \in Int /\ path[i].y \in Int
      /\ path[i+1].x \in Int /\ path[i+1].y \in Int
  BY PathPointsAre
<1>2. ~(dx * dx + dy * dy > 0)
  BY DEF PathPieces, PathPiece, Segment, Along, Minus, LengthSquare, InnerProd, Vec
<1>3. dx = 0 /\ dy = 0
  <2>1. dx \in Int /\ dy \in Int
    BY <1>1
  <2> HIDE DEF dx, dy
  <2> QED BY <1>2, <2>1, SquaresZero
<1> QED BY <1>1, <1>3 DEF SamePlace

\* The place stays along pieces without length.
LEMMA PlaceStays ==
  ASSUME NEW path \in Seq(PathPoints), NEW a \in 1 .. Len(path), NEW b \in a .. Len(path),
         \A m \in a .. b - 1 : m \notin PathPieces(path)
  PROVE  SamePlace(path[a], path[b])
<1> DEFINE S == {m \in a .. b : ~SamePlace(path[a], path[m])}
<1> SUFFICES ASSUME S # {} PROVE FALSE
  BY DEF SamePlace
<1>1. PICK n \in S : \A m \in S : n <= m
  <2>1. S \in SUBSET Nat
    OBVIOUS
  <2> QED BY <2>1, LeastNumber
<1>2. n # a
  BY <1>1 DEF SamePlace
<1>3. n - 1 \in a .. b - 1 /\ n - 1 \in a .. b /\ n - 1 \in 1 .. Len(path) - 1 /\ (n - 1) + 1 = n
  BY <1>1, <1>2
<1>4. n - 1 \notin S
  BY <1>1, <1>3
<1>5. SamePlace(path[a], path[n-1])
  BY <1>3, <1>4
<1>6. SamePlace(path[n-1], path[n])
  BY <1>3, NoPiece
<1> QED BY <1>1, <1>5, <1>6 DEF SamePlace

\* A piece without length lies at an end of one that has a length.
LEMMA PieceBeside ==
  ASSUME NEW path \in Seq(PathPoints), PathPieces(path) # {},
         NEW j \in 1 .. Len(path) - 1, j \notin PathPieces(path)
  PROVE  \E k \in PathPieces(path) : SamePlace(path[j], path[k]) \/ SamePlace(path[j], path[k+1])
<1> DEFINE Pieces == PathPieces(path)
<1>1. Pieces \subseteq 1 .. Len(path) - 1 /\ Len(path) \in Nat
  BY DEF PathPieces
<1> HIDE DEF Pieces
<1>2. CASE \E k \in Pieces : k > j
  <2> DEFINE S == {k \in Pieces : k > j}
  <2>1. PICK k \in S : \A m \in S : k <= m
    <3>1. S \subseteq Nat
      <4>1. S \subseteq Pieces
        OBVIOUS
      <4>2. \A n \in 1 .. Len(path) - 1 : n \in Nat
        OBVIOUS
      <4> HIDE DEF S
      <4> QED BY <1>1, <4>1, <4>2
    <3>2. S # {}
      BY <1>2
    <3> HIDE DEF S
    <3> QED BY <3>1, <3>2, LeastNumber
  <2>2. \A m \in j .. k - 1 : m \notin Pieces
    <3>1. \A m \in j + 1 .. k - 1 : m \notin S /\ m > j
      BY <1>1, <2>1
    <3>2. \A m \in j .. k - 1 : m = j \/ m \in j + 1 .. k - 1
      BY <1>1, <2>1
    <3> QED BY <3>1, <3>2 DEF Pieces
  <2>3. k \in j .. Len(path) /\ j \in 1 .. Len(path)
    BY <1>1, <2>1
  <2>4. SamePlace(path[j], path[k])
    BY <2>2, <2>3, PlaceStays DEF Pieces
  <2> QED BY <2>1, <2>4 DEF Pieces
<1>3. CASE ~\E k \in Pieces : k > j
  <2> DEFINE S == {n \in Nat : \E k \in Pieces : n = j - k}
  <2>1. PICK n \in S : \A m \in S : n <= m
    <3>1. PICK k \in Pieces : TRUE
      BY DEF Pieces
    <3>2. j - k \in S
      BY <1>1, <1>3, <3>1
    <3>3. S \in SUBSET Nat /\ S # {}
      BY <3>2
    <3> QED BY <3>3, LeastNumber
  <2>2. PICK k \in Pieces : n = j - k
    BY <2>1
  <2>3. k \in 1 .. Len(path) - 1 /\ k < j
    BY <1>1, <1>3, <2>2 DEF Pieces
  <2>4. \A m \in k + 1 .. j - 1 : m \notin Pieces
    <3> SUFFICES ASSUME NEW m \in k + 1 .. j - 1, m \in Pieces PROVE FALSE
      OBVIOUS
    <3>1. j - m \in S /\ j - m < n
      BY <2>2, <2>3
    <3> QED BY <2>1, <2>2, <2>3, <3>1
  <2>5. SamePlace(path[k+1], path[j])
    <3>1. k + 1 \in 1 .. Len(path) /\ j \in k + 1 .. Len(path)
      BY <1>1, <2>3
    <3> QED BY <2>4, <3>1, PlaceStays DEF Pieces
  <2> QED BY <2>2, <2>5 DEF Pieces, SamePlace
<1> QED BY <1>2, <1>3

\* NearestPiece finds a piece that has a length, and none of all the pieces is nearer.
LEMMA NearestIsNearest ==
  ASSUME NEW path \in Seq(PathPoints), NEW p, p.x \in Int, p.y \in Int, PathPieces(path) # {},
         NEW i, i = NearestPiece(path, p)
  PROVE  /\ i \in PathPieces(path) /\ i \in 1 .. Len(path) - 1
         /\ \A j \in 1 .. Len(path) - 1 :
              LessEq(SegmentDistance(p, PathPiece(path, i)), SegmentDistance(p, PathPiece(path, j)))
<1> DEFINE N == Len(path) - 1
           d == [j \in 1 .. N |-> SegmentDistance(p, PathPiece(path, j))]
           Pieces == PathPieces(path)
<1>1. Pieces \subseteq 1 .. N /\ Pieces # {} /\ N \in Nat
  BY DEF PathPieces
<1>2. d \in [1 .. N -> Fractions]
  BY PieceDistances
<1>3. \E k \in Pieces : \A j \in Pieces : LessEq(d[k], d[j]) /\ (LessEq(d[j], d[k]) => k <= j)
  <2> HIDE DEF N, d, Pieces
  <2> QED BY <1>1, <1>2, FirstLeast
<1>4. i \in Pieces /\ \A j \in Pieces : LessEq(d[i], d[j])
  <2>1. i = CHOOSE k \in Pieces : \A j \in Pieces :
              LessEq(d[k], d[j]) /\ (LessEq(d[j], d[k]) => k <= j)
    <3>1. \A k \in Pieces : d[k] = SegmentDistance(p, PathPiece(path, k))
      BY <1>1
    <3> QED BY <3>1 DEF NearestPiece
  <2> QED BY <1>3, <2>1
<1>5. ASSUME NEW j \in 1 .. N, j \notin Pieces PROVE LessEq(d[i], d[j])
  <2>1. PICK k \in Pieces : SamePlace(path[j], path[k]) \/ SamePlace(path[j], path[k+1])
    BY <1>1, <1>5, PieceBeside
  <2>2. SamePlace(path[j], path[j+1])
    BY <1>5, NoPiece
  <2> DEFINE here == Fraction(DistanceSquareTo(p, path[j]), 1)
  <2>3. LessEq(d[k], here)
    <3>1. LessEq(d[k], Fraction(DistanceSquareTo(p, path[k]), 1))
          /\ LessEq(d[k], Fraction(DistanceSquareTo(p, path[k+1]), 1))
      BY <1>1, PieceDistances
    <3>2. \A q : SamePlace(path[j], q) => DistanceSquareTo(p, q) = DistanceSquareTo(p, path[j])
      BY DEF SamePlace, DistanceSquareTo, LengthSquare, Minus, InnerProd, Vec
    <3> QED BY <2>1, <3>1, <3>2
  <2>4. d[j] = here
    <3>1. LengthSquare(Along(PathPiece(path, j))) = 0
      <4>1. path[j].x \in Int /\ path[j].y \in Int
        BY <1>1, PathPointsAre
      <4> QED BY <2>2, <4>1 DEF SamePlace, LengthSquare, Along, PathPiece, Segment, Minus, InnerProd, Vec
    <3>2. PathPiece(path, j).start = path[j]
      BY DEF PathPiece, Segment
    <3> QED BY <3>1, <3>2 DEF SegmentDistance
  <2>5. LessEq(d[i], d[k]) /\ d[i] \in Fractions /\ d[k] \in Fractions /\ d[j] \in Fractions
    BY <1>1, <1>2, <1>4
  <2> HIDE DEF d, here
  <2> QED BY <2>3, <2>4, <2>5, LessEqTransitive
<1>6. \A j \in 1 .. N : LessEq(d[i], d[j])
  BY <1>4, <1>5
<1> QED BY <1>1, <1>4, <1>6

-----------------------------------------------------------------------------
(* The way along a path *)

\* The root of a number, rounded down, is not beyond a number whose next square is.
LEMMA RootExists ==
  ASSUME NEW d \in Nat, NEW m \in Nat, d < (m + 1) * (m + 1)
  PROVE  \E n \in 0 .. m : n * n <= d /\ d < (n + 1) * (n + 1)
<1> DEFINE S == {n \in Nat : d < (n + 1) * (n + 1)}
<1>1. PICK n \in S : \A k \in S : n <= k
  <2>1. S \subseteq Nat /\ S # {}
    OBVIOUS
  <2> HIDE DEF S
  <2> QED BY <2>1, LeastNumber
<1>2. n \in 0 .. m
  BY <1>1
<1>3. n * n <= d
  <2>1. CASE n = 0
    BY <2>1
  <2>2. CASE n # 0
    <3>1. n - 1 \in Nat /\ n - 1 \notin S /\ (n - 1) + 1 = n
      BY <1>1, <2>2
    <3> QED BY <3>1
  <2> QED BY <2>1, <2>2
<1> QED BY <1>1, <1>2, <1>3

LEMMA SquareOfSum ==
  ASSUME NEW a \in Nat, NEW b \in Nat
  PROVE  a * a + b * b < (a + b + 1) * (a + b + 1)
<1>1. (a + b + 1) * (a + b + 1) = a * a + b * b + 2 * (a * b) + 2 * a + 2 * b + 1
  OBVIOUS
<1>2. a * b \in Nat /\ a * a \in Nat /\ b * b \in Nat
  OBVIOUS
<1> QED BY <1>1, <1>2

LEMMA SquareOfSize ==
  ASSUME NEW a \in Int
  PROVE  (-a) * (-a) = a * a
OBVIOUS

\* PointDistance finds a distance, which is positive between two places.
LEMMA PointDistanceIs ==
  ASSUME NEW p, NEW q, p.x \in Int, p.y \in Int, q.x \in Int, q.y \in Int
  PROVE  PointDistance(p, q) \in Nat /\ (~SamePlace(p, q) => PointDistance(p, q) > 0)
<1> DEFINE dx == p.x - q.x
           dy == p.y - q.y
           size(n) == IF n < 0 THEN -n ELSE n
           d == DistanceSquareTo(p, q)
           a == size(dx)
           b == size(dy)
<1>1. dx \in Int /\ dy \in Int
  OBVIOUS
<1>2. d = dx * dx + dy * dy
  BY DEF DistanceSquareTo, LengthSquare, Minus, InnerProd, Vec
<1>3. PointDistance(p, q) = CHOOSE n \in 0 .. a + b : n * n <= d /\ d < (n + 1) * (n + 1)
  BY DEF PointDistance
<1>4. SamePlace(p, q) <=> dx = 0 /\ dy = 0
  BY DEF SamePlace
<1> HIDE DEF d, dx, dy
<1>5. a \in Nat /\ b \in Nat /\ a * a = dx * dx /\ b * b = dy * dy
  BY <1>1, SquareOfSize
<1> HIDE DEF a, b
<1>6. d \in Nat /\ d < (a + b + 1) * (a + b + 1)
  <2>1. a * a \in Nat /\ b * b \in Nat
    BY <1>5
  <2> QED BY <1>2, <1>5, <2>1, SquareOfSum
<1>7. \E n \in 0 .. a + b : n * n <= d /\ d < (n + 1) * (n + 1)
  <2>1. a + b \in Nat
    BY <1>5
  <2> QED BY <1>6, <2>1, RootExists
<1>8. PICK n \in 0 .. a + b : n = PointDistance(p, q) /\ n * n <= d /\ d < (n + 1) * (n + 1)
  BY <1>3, <1>7
<1>9. n = 0 => d = 0
  BY <1>6, <1>8
<1>10. d = 0 => dx = 0 /\ dy = 0
  BY <1>1, <1>2, SquaresZero
<1> QED BY <1>4, <1>5, <1>8, <1>9, <1>10

\* The ways that NormalizeDiscretizedPath counts add up the distances.
LEMMA WaysExist ==
  ASSUME NEW N \in Nat, NEW d \in [1 .. N -> Nat]
  PROVE  \E w \in [1 .. N -> Nat] : w = [i \in 1 .. N |-> IF i = 1 THEN 0 ELSE w[i-1] + d[i]]
<1> DEFINE ways(m, w) == \A i \in 1 .. m : w[i] = IF i = 1 THEN 0 ELSE w[i-1] + d[i]
           P == {m \in Nat : m <= N => \E w \in [1 .. m -> Nat] : ways(m, w)}
<1>1. 0 \in P
  <2>1. 1 .. 0 = {}
    OBVIOUS
  <2>2. [i \in 1 .. 0 |-> 0] \in [1 .. 0 -> Nat]
    OBVIOUS
  <2>3. ways(0, [i \in 1 .. 0 |-> 0])
    BY <2>1
  <2> HIDE DEF ways
  <2> QED BY <2>2, <2>3
<1>2. ASSUME NEW m \in P PROVE m + 1 \in P
  <2>0. m \in Nat
    OBVIOUS
  <2> SUFFICES ASSUME m + 1 <= N PROVE \E w \in [1 .. m + 1 -> Nat] : ways(m + 1, w)
    <3> HIDE DEF ways
    <3> QED BY <2>0
  <2>1. PICK v \in [1 .. m -> Nat] : ways(m, v)
    BY <1>2, <2>0
  <2> DEFINE w == [i \in 1 .. m + 1 |-> IF i <= m THEN v[i] ELSE IF i = 1 THEN 0 ELSE v[m] + d[i]]
  <2>2. w \in [1 .. m + 1 -> Nat]
    <3> SUFFICES ASSUME NEW i \in 1 .. m + 1
                 PROVE  (IF i <= m THEN v[i] ELSE IF i = 1 THEN 0 ELSE v[m] + d[i]) \in Nat
      OBVIOUS
    <3>1. CASE i <= m
      <4>1. i \in 1 .. m
        BY <2>0, <3>1
      <4> QED BY <2>1, <3>1, <4>1
    <3>2. CASE ~(i <= m) /\ i # 1
      <4>1. m \in 1 .. m /\ i \in 1 .. N
        BY <2>0, <3>2
      <4> QED BY <2>1, <3>2, <4>1
    <3> QED BY <3>1, <3>2
  <2>3. ways(m + 1, w)
    <3> SUFFICES ASSUME NEW i \in 1 .. m + 1
                 PROVE  w[i] = IF i = 1 THEN 0 ELSE w[i-1] + d[i]
      OBVIOUS
    <3>1. i = 1 \/ (i - 1 \in 1 .. m /\ i - 1 <= m /\ i - 1 \in 1 .. m + 1)
      <4> HIDE DEF w
      <4> QED BY <2>0
    <3>2. CASE i <= m
      <4>1. i \in 1 .. m
        BY <2>0, <3>2
      <4> QED BY <2>1, <3>1, <3>2, <4>1
    <3>3. CASE ~(i <= m)
      <4>1. i = m + 1
        BY <2>0, <3>3
      <4> QED BY <3>1, <3>3, <4>1, <2>0
    <3> QED BY <3>2, <3>3
  <2> QED BY <2>2, <2>3
<1>3. P = Nat
  <2> HIDE DEF P
  <2>1. P \in SUBSET Nat
    BY DEF P
  <2> QED BY <1>1, <1>2, <2>1, SetInduction
<1>4. PICK w \in [1 .. N -> Nat] : ways(N, w)
  <2>1. N \in P
    <3> HIDE DEF P
    <3> QED BY <1>3
  <2> HIDE DEF ways
  <2> QED BY <2>1
<1>5. w = [i \in 1 .. N |-> IF i = 1 THEN 0 ELSE w[i-1] + d[i]]
  BY <1>4
<1> QED BY <1>5

\* NormalizeDiscretizedPath keeps the places and counts the ways anew.
LEMMA NormalizedPath ==
  ASSUME NEW path \in Seq(PathPoints), NEW new, new = NormalizeDiscretizedPath(path)
  PROVE  /\ new \in Seq(PathPoints) /\ Len(new) = Len(path)
         /\ \A i \in 1 .. Len(path) : new[i].x = path[i].x /\ new[i].y = path[i].y
         /\ Len(path) > 0 => new[1].s = 0
         /\ WaysGrow(new)
         /\ \A i \in 2 .. Len(path) : new[i-1].s <= new[i].s
<1>p. PICK N \in Nat : N = Len(path)
  OBVIOUS
<1>q. /\ DOMAIN path = 1 .. N
      /\ \A i \in 1 .. N : path[i].x \in Int /\ path[i].y \in Int /\ path[i].theta \in Int
  <2>1. \A i \in 1 .. N : path[i] \in PathPoints
    BY <1>p
  <2> QED BY <1>p, <2>1 DEF PathPoints
<1> DEFINE d == [i \in 1 .. N |-> IF i = 1 THEN 0 ELSE PointDistance(path[i-1], path[i])]
           F(w) == [i \in DOMAIN path |->
                      IF i = 1 THEN 0 ELSE w[i-1] + PointDistance(path[i-1], path[i])]
           way == CHOOSE w : w = F(w)
<1>1. \A i \in 1 .. N : i = 1 \/ i - 1 \in 1 .. N
  OBVIOUS
<1>2. d \in [1 .. N -> Nat]
  <2>1. \A i \in 1 .. N : i = 1 \/ PointDistance(path[i-1], path[i]) \in Nat
    BY <1>1, <1>q, PointDistanceIs
  <2> QED BY <2>1
<1>3. PICK w \in [1 .. N -> Nat] : w = [i \in 1 .. N |-> IF i = 1 THEN 0 ELSE w[i-1] + d[i]]
  <2> HIDE DEF d
  <2> QED BY <1>2, WaysExist
<1>4. w = F(w)
  <2>1. \A i \in 1 .. N : i = 1 \/ d[i] = PointDistance(path[i-1], path[i])
    OBVIOUS
  <2>2. [i \in 1 .. N |-> IF i = 1 THEN 0 ELSE w[i-1] + d[i]] = F(w)
    <3> HIDE DEF d
    <3> QED BY <1>q, <2>1
  <2> QED BY <1>3, <2>2
<1>5. way = F(way)
  <2> HIDE DEF F
  <2> QED BY <1>4
<1>6. new = [i \in DOMAIN path |->
               PathPoint(path[i].x, path[i].y, NormalizeAngle(path[i].theta), way[i])]
  BY DEF NormalizeDiscretizedPath
<1>7. \A i \in 1 .. N : way[i] = IF i = 1 THEN 0 ELSE way[i-1] + PointDistance(path[i-1], path[i])
  BY <1>5, <1>q
<1> HIDE DEF way
<1>8. \A i \in 1 .. N : way[i] \in Nat
  <2> DEFINE P == {n \in Nat : n < N => way[n + 1] \in Nat}
  <2>1. 0 \in P
    <3>1. N > 0 => way[1] = 0
      BY <1>7
    <3> QED BY <3>1
  <2>2. ASSUME NEW n \in P PROVE n + 1 \in P
    <3>1. n + 1 < N => n + 2 \in 1 .. N /\ n + 2 # 1 /\ (n + 2) - 1 = n + 1
      OBVIOUS
    <3>2. n + 1 < N => way[n + 2] = way[n + 1] + d[n + 2]
      BY <1>7, <3>1
    <3>3. n + 1 < N => d[n + 2] \in Nat
      BY <1>2, <3>1
    <3>4. n + 1 < N => way[n + 2] \in Nat
      BY <3>2, <3>3
    <3>5. (n + 1) + 1 = n + 2
      OBVIOUS
    <3> QED BY <3>4, <3>5
  <2>3. P = Nat
    <3> HIDE DEF P
    <3>1. P \in SUBSET Nat
      BY DEF P
    <3> QED BY <2>1, <2>2, <3>1, SetInduction
  <2>4. \A i \in 1 .. N : i - 1 \in P /\ i - 1 < N /\ (i - 1) + 1 = i
    <3> HIDE DEF P
    <3> QED BY <2>3
  <2> QED BY <2>4
<1>9. new \in Seq(PathPoints) /\ Len(new) = N
  <2>1. \A i \in 1 .. N : NormalizeAngle(path[i].theta) \in Int
    BY <1>q DEF NormalizeAngle, Turn48
  <2>2. new \in [1 .. N -> PathPoints]
    BY <1>6, <1>8, <1>q, <2>1 DEF PathPoint, PathPoints
  <2> QED BY <2>2
<1>10. \A i \in 1 .. N : new[i].x = path[i].x /\ new[i].y = path[i].y /\ new[i].s = way[i]
  BY <1>6, <1>q DEF PathPoint
<1>11. N > 0 => new[1].s = 0
  BY <1>7, <1>10
<1>12. WaysGrow(new)
  <2> SUFFICES ASSUME NEW i \in 2 .. N
               PROVE  \/ new[i].s > new[i-1].s
                      \/ new[i].x = new[i-1].x /\ new[i].y = new[i-1].y
    BY <1>9 DEF WaysGrow
  <2>1. i \in 1 .. N /\ i - 1 \in 1 .. N /\ i # 1
    OBVIOUS
  <2>2. way[i] = way[i-1] + PointDistance(path[i-1], path[i])
    BY <1>7, <2>1
  <2>3. CASE SamePlace(path[i-1], path[i])
    BY <1>10, <2>1, <2>3 DEF SamePlace
  <2>4. CASE ~SamePlace(path[i-1], path[i])
    <3>1. PointDistance(path[i-1], path[i]) \in Nat /\ PointDistance(path[i-1], path[i]) > 0
      BY <1>q, <2>1, <2>4, PointDistanceIs
    <3>2. way[i-1] \in Nat
      BY <1>8, <2>1
    <3> QED BY <1>10, <2>1, <2>2, <3>1, <3>2
  <2> QED BY <2>3, <2>4
<1>13. \A i \in 2 .. N : new[i-1].s <= new[i].s
  <2> SUFFICES ASSUME NEW i \in 2 .. N PROVE new[i-1].s <= new[i].s
    OBVIOUS
  <2>1. i \in 1 .. N /\ i - 1 \in 1 .. N /\ i # 1
    OBVIOUS
  <2>2. way[i] = way[i-1] + d[i] /\ d[i] \in Nat
    BY <1>2, <1>7, <2>1
  <2>3. way[i-1] \in Nat
    BY <1>8, <2>1
  <2> HIDE DEF d
  <2>4. way[i-1] <= way[i]
    BY <2>2, <2>3
  <2> QED BY <1>10, <2>1, <2>4
<1> QED BY <1>p, <1>9, <1>10, <1>11, <1>12, <1>13

\* What RebaseWarmStartPath makes of a path from one of its points on.
LEMMA RebasedPath ==
  ASSUME NEW path \in Seq(PathPoints), NEW start \in PathPoints,
         NEW next \in 2 .. Len(path), NEW rest, rest = Rebased(start, path, next)
  PROVE  /\ rest \in Seq(PathPoints) /\ Len(rest) = Len(path) - next + 1
         /\ GoesOnBehind(rest, start, path, next)
         /\ WaysGrow(rest)
         /\ rest[1].s = 0
<1> DEFINE tail == SubSeq(path, next + 1, Len(path))
           N == Len(path) - next + 1
           P == <<start>> \o tail
<1>1. N \in Nat /\ N > 0 /\ Len(path) \in Nat
  OBVIOUS
<1>2. tail \in Seq(PathPoints) /\ Len(tail) = N - 1
      /\ \A i \in 1 .. N - 1 : tail[i] = path[next + i]
  OBVIOUS
<1> HIDE DEF tail
<1>3. DOMAIN P = 1 .. N /\ P[1] = start /\ \A i \in 2 .. N : P[i] = tail[i-1]
  BY <1>1, <1>2
<1>4. \A i \in 2 .. N : P[i] = path[next + i - 1] /\ next + i - 1 \in 1 .. Len(path)
  <2> SUFFICES ASSUME NEW i \in 2 .. N
               PROVE  P[i] = path[next + i - 1] /\ next + i - 1 \in 1 .. Len(path)
    OBVIOUS
  <2>1. i - 1 \in 1 .. N - 1 /\ next + (i - 1) = next + i - 1 /\ next + i - 1 \in 1 .. Len(path)
    BY <1>1
  <2> QED BY <1>2, <1>3, <2>1
<1>5. P \in Seq(PathPoints) /\ Len(P) = N
  BY <1>1, <1>2
<1>6. rest = NormalizeDiscretizedPath(P)
  BY DEF Rebased, tail
<1> HIDE DEF P
<1>7. /\ rest \in Seq(PathPoints) /\ Len(rest) = N
      /\ \A i \in 1 .. N : rest[i].x = P[i].x /\ rest[i].y = P[i].y
      /\ rest[1].s = 0
      /\ WaysGrow(rest)
  <2>1. /\ rest \in Seq(PathPoints) /\ Len(rest) = Len(P)
        /\ \A i \in 1 .. Len(P) : rest[i].x = P[i].x /\ rest[i].y = P[i].y
        /\ Len(P) > 0 => rest[1].s = 0
        /\ WaysGrow(rest)
    BY <1>5, <1>6, NormalizedPath
  <2> QED BY <1>1, <1>5, <2>1
<1>8. 1 \in 1 .. N /\ \A i \in 2 .. N : i \in 1 .. N
  BY <1>1
<1>9. GoesOnBehind(rest, start, path, next)
  BY <1>3, <1>4, <1>7, <1>8 DEF GoesOnBehind
<1> QED BY <1>7, <1>9

\* The point that ProjectPointToPathGeometry names ends the nearest piece of the path.
LEMMA FootIsJustBeyond ==
  ASSUME NEW path \in Seq(PathPoints), NEW p, p.x \in Int, p.y \in Int, PathPieces(path) # {},
         Projection(path, p).next <= Len(path)
  PROVE  /\ Projection(path, p).next \in 2 .. Len(path)
         /\ JustBeyond(path, Projection(path, p).next, p)
<1> DEFINE i == NearestPiece(path, p)
           s == PathPiece(path, i)
           next == Projection(path, p).next
           behind == InnerProd(Minus(p, s.start), Along(s)) >= LengthSquare(Along(s))
           d(j) == SegmentDistance(p, PathPiece(path, j))
<1>1. /\ i \in PathPieces(path) /\ i \in 1 .. Len(path) - 1
      /\ \A j \in 1 .. Len(path) - 1 : LessEq(d(i), d(j))
  BY NearestIsNearest
<1>2. next = IF behind THEN i + 2 ELSE i + 1
  BY DEF Projection
<1>3. next \in 2 .. Len(path)
  <2> HIDE DEF i
  <2>1. Len(path) \in Nat
    OBVIOUS
  <2> QED BY <1>1, <1>2, <2>1
<1>4. CASE ~behind
  <2>1. next - 1 = i
    BY <1>1, <1>2, <1>4
  <2> QED BY <1>1, <1>3, <2>1 DEF JustBeyond
<1>5. CASE behind
  <2>1. next - 1 = i + 1 /\ i + 1 \in 1 .. Len(path) - 1
    <3> HIDE DEF i
    <3>1. Len(path) \in Nat
      OBVIOUS
    <3> QED BY <1>1, <1>2, <1>3, <1>5, <3>1
  <2>2. LengthSquare(Along(s)) > 0
    BY <1>1 DEF PathPieces
  <2>3. d(i) = Fraction(DistanceSquareTo(p, path[i+1]), 1)
    <3> DEFINE len == LengthSquare(Along(s))
               proj == InnerProd(Minus(p, s.start), Along(s))
    <3>1. len \in Int /\ proj \in Int
      <4>1. /\ path[i].x \in Int /\ path[i].y \in Int
            /\ path[i+1].x \in Int /\ path[i+1].y \in Int
        BY <1>1, <2>1, PathPointsAre
      <4>2. p.x \in Int /\ p.y \in Int
        OBVIOUS
      <4> DEFINE px == p.x - path[i].x
                 py == p.y - path[i].y
                 vx == path[i+1].x - path[i].x
                 vy == path[i+1].y - path[i].y
      <4>3. len = vx * vx + vy * vy /\ proj = px * vx + py * vy
        BY DEF LengthSquare, InnerProd, Along, Minus, Vec, PathPiece, Segment
      <4>4. px \in Int /\ py \in Int /\ vx \in Int /\ vy \in Int
        <5> HIDE DEF i
        <5> QED BY <4>1, <4>2
      <4> HIDE DEF px, py, vx, vy, len, proj
      <4> QED BY <4>3, <4>4
    <3>2. len # 0 /\ ~(proj <= 0) /\ proj >= len
      <4> HIDE DEF s
      <4> QED BY <1>5, <2>2, <3>1
    <3>3. s.end = path[i+1]
      BY DEF PathPiece, Segment
    <3> HIDE DEF i
    <3> QED BY <3>2, <3>3 DEF SegmentDistance
  <2>4. LessEq(d(i+1), d(i)) /\ d(i+1) \in Fractions
    BY <2>1, <2>3, PieceDistances
  <2>5. \A j \in 1 .. Len(path) - 1 : d(j) \in Fractions
    BY PieceDistances
  <2>6. \A j \in 1 .. Len(path) - 1 : LessEq(d(i+1), d(j))
    <3> HIDE DEF d, i
    <3> QED BY <1>1, <2>4, <2>5, LessEqTransitive
  <2> QED BY <1>3, <2>1, <2>6 DEF JustBeyond
<1> QED BY <1>3, <1>4, <1>5

\* A rest that is of use goes on behind the nearest piece and is long enough.
LEMMA RestIs ==
  ASSUME NEW path \in Seq(PathPoints), NEW start \in PathPoints,
         NEW rest, rest = RestOf(path, start), rest # <<>>
  PROVE  /\ \E n \in 2 .. Len(path) :
              GoesOnBehind(rest, start, path, n) /\ JustBeyond(path, n, start)
         /\ WaysGrow(rest)
         /\ Len(rest) > 1 /\ rest \in Seq(PathPoints)
         /\ rest[Len(rest)].s >= kMinWarmStartLength
         /\ PathLength(rest) >= kMinWarmStartLength
<1> DEFINE next == Projection(path, start).next
<1>1. PathPieces(path) # {} /\ rest = Rest(path, start, Projection(path, start))
  BY DEF RestOf
<1>2. /\ next <= Len(path)
      /\ rest = Rebased(start, path, next)
      /\ PathLength(rest) >= kMinWarmStartLength
  BY <1>1 DEF Rest
<1>3. next \in 2 .. Len(path) /\ JustBeyond(path, next, start)
  BY <1>1, <1>2, FootIsJustBeyond DEF PathPoints
<1>4. /\ rest \in Seq(PathPoints) /\ Len(rest) = Len(path) - next + 1
      /\ GoesOnBehind(rest, start, path, next)
      /\ WaysGrow(rest)
      /\ rest[1].s = 0
  <2> HIDE DEF next
  <2> QED BY <1>2, <1>3, RebasedPath
<1>5. PathLength(rest) = rest[Len(rest)].s - 0
  BY <1>4 DEF PathLength
<1>6. Len(rest) \in 1 .. Len(rest) /\ Len(rest) \in Nat
  <2> HIDE DEF next
  <2>1. Len(path) \in Nat
    OBVIOUS
  <2> QED BY <1>3, <1>4, <2>1
<1>7. rest[Len(rest)].s \in Int
  <2>1. rest[Len(rest)] \in PathPoints
    BY <1>4, <1>6
  <2> QED BY <2>1 DEF PathPoints
<1>8. rest[Len(rest)].s >= kMinWarmStartLength
  BY <1>2, <1>5, <1>7
<1>9. Len(rest) # 1
  BY <1>4, <1>8 DEF kMinWarmStartLength
<1>10. Len(rest) > 1
  <2> DEFINE k == Len(rest)
  <2>1. k \in Nat /\ k # 0 /\ k # 1
    BY <1>6, <1>9
  <2> HIDE DEF k
  <2>2. k > 1
    BY <2>1
  <2> QED BY <2>2 DEF k
<1> QED BY <1>2, <1>3, <1>4, <1>8, <1>10

-----------------------------------------------------------------------------
(* The splice *)

\* Obstacles with one signature are the same boxes.
LEMMA SignatureFixesBoxes ==
  ASSUME NEW obstacles, NEW seen, ObstacleSignature(obstacles) = ObstacleSignature(seen)
  PROVE  ObstacleBoxes(obstacles) = ObstacleBoxes(seen)
<1> DEFINE sign(o) ==
             <<o.id, o.type, o.is_dynamic, o.center, o.heading, o.length, o.width, o.velocity>>
<1>1. /\ ObstacleSignature(obstacles) = [i \in DOMAIN obstacles |-> sign(obstacles[i])]
      /\ ObstacleSignature(seen) = [i \in DOMAIN seen |-> sign(seen[i])]
  BY DEF ObstacleSignature
<1>2. \A o, q : sign(o) = sign(q) => /\ o.center = q.center /\ o.heading = q.heading
                                     /\ o.length = q.length /\ o.width = q.width
  OBVIOUS
<1> HIDE DEF sign
<1>3. DOMAIN obstacles = DOMAIN seen /\ \A i \in DOMAIN seen : sign(obstacles[i]) = sign(seen[i])
  BY <1>1
<1> QED BY <1>2, <1>3 DEF ObstacleBoxes

\* Nothing but its place keeps the vehicle from a history that it warm-starts with.
LEMMA WarmReasons ==
  ASSUME NEW past, NEW parking_seq, NEW end_pose, NEW start, NEW obstacles,
         NEW speed_replan \in BOOLEAN, NEW collision_risk \in BOOLEAN,
         ShouldUseHistoryWarmStart(ReplanReasons(past, parking_seq, end_pose, start, obstacles,
                                                 speed_replan, collision_risk))
  PROVE  /\ past.has_history
         /\ past.path_id = parking_seq /\ past.end_pose = end_pose
         /\ ~speed_replan /\ ~collision_risk
         /\ past.signature = ObstacleSignature(obstacles)
<1> DEFINE fits == past.has_history /\ HasUsablePath(past.segments)
           reasons == ReplanReasons(past, parking_seq, end_pose, start, obstacles,
                                    speed_replan, collision_risk)
<1>1. "TRACE_REPLAN" \in reasons => fits
  BY Zenon DEF ReplanReasons
<1>2. fits /\ ~(past.path_id = parking_seq /\ past.end_pose = end_pose)
        => "TARGET_UPDATE" \in reasons
  BY DEF ReplanReasons
<1>3. fits /\ past.signature # ObstacleSignature(obstacles)
        => "BLOCK_BY_STATIC_OBSTACLE" \in reasons
  BY DEF ReplanReasons
<1>4. speed_replan => "REPLAN_FOR_SPEED_WARN" \in reasons
  BY DEF ReplanReasons
<1>5. collision_risk => "DYNAMIC_REPLAN" \in reasons
  BY DEF ReplanReasons
<1>6. /\ "TRACE_REPLAN" \in reasons
      /\ "TARGET_UPDATE" \notin reasons /\ "BLOCK_BY_STATIC_OBSTACLE" \notin reasons
      /\ "DYNAMIC_REPLAN" \notin reasons /\ "REPLAN_FOR_SPEED_WARN" \notin reasons
  BY DEF ShouldUseHistoryWarmStart
<1>7. fits => past.has_history
  OBVIOUS
<1> HIDE DEF reasons, fits
<1> QED BY <1>1, <1>2, <1>3, <1>4, <1>5, <1>6, <1>7

\* A warm start is nothing, or the rest of one of the remembered segments.
LEMMA WarmStartIs ==
  ASSUME NEW past, past.segments \in Seq(PathSegments), NEW start, NEW reasons,
         NEW warm, warm = WarmStart(past, start, reasons)
  PROVE  \/ warm.path = <<>> /\ warm.gear = "GEAR_NONE"
         \/ /\ ShouldUseHistoryWarmStart(reasons)
            /\ \E k \in DOMAIN past.segments :
                 /\ warm.path = RestOf(past.segments[k].path, start) /\ warm.path # <<>>
                 /\ warm.gear = past.segments[k].gear
<1> DEFINE useful == {i \in DOMAIN past.segments :
                        RestOf(past.segments[i].path, start) # <<>>}
           first == CHOOSE i \in useful : \A j \in useful : i <= j
<1>1. CASE ~HasUsablePath(past.segments) \/ ~ShouldUseHistoryWarmStart(reasons) \/ useful = {}
  BY <1>1 DEF WarmStart
<1>2. CASE ~(~HasUsablePath(past.segments) \/ ~ShouldUseHistoryWarmStart(reasons) \/ useful = {})
  <2>1. warm = [path |-> RestOf(past.segments[first].path, start),
                gear |-> past.segments[first].gear]
    BY <1>2 DEF WarmStart
  <2>2. first \in useful
    <3>1. useful \subseteq Nat /\ useful # {}
      <4>1. DOMAIN past.segments \subseteq Nat
        <5>1. DOMAIN past.segments = 1 .. Len(past.segments)
          OBVIOUS
        <5>2. \A n \in 1 .. Len(past.segments) : n \in Nat
          OBVIOUS
        <5> QED BY <5>1, <5>2
      <4> QED BY <1>2, <4>1
    <3>2. \E i \in useful : \A j \in useful : i <= j
      <4> HIDE DEF useful
      <4> QED BY <3>1, LeastNumber
    <3> QED BY <3>2
  <2>3. /\ first \in DOMAIN past.segments
        /\ RestOf(past.segments[first].path, start) # <<>>
    <3> HIDE DEF first
    <3> QED BY <2>2
  <2> HIDE DEF first
  <2> QED BY <1>2, <2>1, <2>3
<1> QED BY <1>1, <1>2

\* What a frame asks for is spliced to the history if it has a warm start.
LEMMA InputFollowsHistory ==
  ASSUME NEW past, past.segments \in Seq(PathSegments),
         NEW seen, past.signature = ObstacleSignature(seen),
         NEW frame, frame.start \in PathPoints,
         frame.speed_replan \in BOOLEAN, frame.collision_risk \in BOOLEAN,
         NEW obstacles, NEW reasons,
         reasons = ReplanReasons(past, frame.parking_seq, frame.end_pose, frame.start,
                                 obstacles, frame.speed_replan, frame.collision_risk),
         NEW input, input = PlanInput(past, frame.start, reasons)
  PROVE  /\ input.warm_start.path # <<>> =>
              /\ StillWanted(past, frame, obstacles, seen)
              /\ SplicedTo(past.segments, frame.start, input.warm_start.path,
                           input.warm_start.gear)
         /\ input.strategy.is_trace_adjust <=> input.warm_start.path # <<>>
         /\ input.strategy.init_moving_direction # 0 <=> input.warm_start.path # <<>>
<1> DEFINE start == frame.start
           warm == WarmStart(past, start, reasons)
           rest == warm.path
<1>1. /\ input.warm_start = warm
      /\ input.strategy.is_trace_adjust = TraceAdjustEnabled(reasons, rest)
      /\ input.strategy.init_moving_direction =
           IF Len(rest) > 1 THEN GearToMovingDirection(warm.gear) ELSE 0
  BY DEF PlanInput, Planned, PathStrategy
<1>2. CASE rest = <<>>
  <2>1. Len(rest) = 0
    <3> HIDE DEF rest
    <3> QED BY <1>2
  <2>2. ~input.strategy.is_trace_adjust /\ input.strategy.init_moving_direction = 0
    <3> HIDE DEF rest, warm
    <3>1. ~TraceAdjustEnabled(reasons, rest)
      BY <2>1 DEF TraceAdjustEnabled
    <3> QED BY <1>1, <2>1, <3>1
  <2> QED BY <1>1, <1>2, <2>2
<1>3. CASE rest # <<>>
  <2>1. PICK k \in DOMAIN past.segments :
               /\ rest = RestOf(past.segments[k].path, start)
               /\ warm.gear = past.segments[k].gear
    BY <1>3, WarmStartIs
  <2>2. ShouldUseHistoryWarmStart(reasons)
    BY <1>3, WarmStartIs
  <2>3. StillWanted(past, frame, obstacles, seen)
    BY <2>2, WarmReasons, SignatureFixesBoxes DEF StillWanted
  <2>4. /\ past.segments[k].path \in Seq(PathPoints)
        /\ past.segments[k].gear \in {"GEAR_DRIVE", "GEAR_REVERSE"}
    <3>1. past.segments[k] \in PathSegments
      OBVIOUS
    <3> QED BY <3>1 DEF PathSegments
  <2>5. /\ \E n \in 2 .. Len(past.segments[k].path) :
             /\ GoesOnBehind(rest, start, past.segments[k].path, n)
             /\ JustBeyond(past.segments[k].path, n, start)
        /\ WaysGrow(rest)
        /\ Len(rest) > 1
        /\ rest[Len(rest)].s >= kMinWarmStartLength
        /\ PathLength(rest) >= kMinWarmStartLength
    <3> HIDE DEF rest
    <3> QED BY <1>3, <2>1, <2>4, RestIs
  <2>6. input.strategy.is_trace_adjust
    <3> HIDE DEF rest, warm
    <3> QED BY <1>1, <2>2, <2>5 DEF TraceAdjustEnabled
  <2>7. input.strategy.init_moving_direction # 0
    <3>1. GearToMovingDirection(warm.gear) \in {1, -1}
      BY <2>1, <2>4 DEF GearToMovingDirection
    <3> HIDE DEF rest, warm
    <3> QED BY <1>1, <2>5, <3>1
  <2> HIDE DEF warm
  <2>8. SplicedTo(past.segments, start, rest, warm.gear)
    BY <2>1, <2>5 DEF SplicedTo
  <2> QED BY <1>1, <1>3, <2>3, <2>6, <2>7, <2>8
<1> QED BY <1>2, <1>3

\* Nothing speaks against a history that is reused.
LEMMA ReusedIsWanted ==
  ASSUME NEW past, NEW seen, past.signature = ObstacleSignature(seen),
         NEW frame, frame.speed_replan \in BOOLEAN, frame.collision_risk \in BOOLEAN,
         NEW obstacles,
         ReplanReasons(past, frame.parking_seq, frame.end_pose, frame.start,
                       obstacles, frame.speed_replan, frame.collision_risk) = {}
  PROVE  StillWanted(past, frame, obstacles, seen)
<1> DEFINE reasons == ReplanReasons(past, frame.parking_seq, frame.end_pose, frame.start,
                                    obstacles, frame.speed_replan, frame.collision_risk)
           fits == past.has_history /\ HasUsablePath(past.segments)
<1>1. ~fits => "NO_VALID_PATH" \in reasons
  BY DEF ReplanReasons
<1>2. fits /\ ~(past.path_id = frame.parking_seq /\ past.end_pose = frame.end_pose)
        => "TARGET_UPDATE" \in reasons
  BY DEF ReplanReasons
<1>3. fits /\ past.signature # ObstacleSignature(obstacles)
        => "BLOCK_BY_STATIC_OBSTACLE" \in reasons
  BY DEF ReplanReasons
<1>4. frame.speed_replan => "REPLAN_FOR_SPEED_WARN" \in reasons
  BY DEF ReplanReasons
<1>5. frame.collision_risk => "DYNAMIC_REPLAN" \in reasons
  BY DEF ReplanReasons
<1>6. reasons = {}
  OBVIOUS
<1> HIDE DEF reasons
<1>7. /\ fits /\ past.path_id = frame.parking_seq /\ past.end_pose = frame.end_pose
      /\ ~frame.speed_replan /\ ~frame.collision_risk
      /\ past.signature = ObstacleSignature(obstacles)
  <2> HIDE DEF fits
  <2> QED BY <1>1, <1>2, <1>3, <1>4, <1>5, <1>6
<1> QED BY <1>7, SignatureFixesBoxes DEF StillWanted

\* The inductive invariant: the history has the signature of the obstacles its path was
\* planned with, and until the answer nothing changes that the question was about.
HistoryFits ==
  /\ path_provider.segments \in Seq(PathSegments)
  /\ path_provider.signature = ObstacleSignature(planned_with)
  /\ attempt.kind \in {"reuse", "plan"} => attempt.frame \in ParkingFrames
  /\ attempt.kind = "reuse" =>
       Reasons(attempt.frame) = {} /\ attempt.segments = path_provider.segments
  /\ attempt.kind = "plan" =>
       attempt.input = PlanInput(path_provider, attempt.frame.start, Reasons(attempt.frame))

\* A history that has just been forgotten, or recorded, fits.
LEMMA EmptySignature == ObstacleSignature(<<>>) = <<>>
BY DEF ObstacleSignature

LEMMA HistoryBegins == HistoryInit => HistoryFits
BY EmptySignature DEF HistoryInit, HistoryFits, NoPath, NoAttempt

LEMMA HistoryKeepsFitting == HistoryFits /\ [HistoryNext]_history_vars => HistoryFits'
<1> SUFFICES ASSUME HistoryFits, [HistoryNext]_history_vars PROVE HistoryFits'
  OBVIOUS
<1>1. ASSUME NEW input \in ObstacleInputs, SeeObstacles(input) PROVE HistoryFits'
  BY <1>1 DEF SeeObstacles, HistoryFits, NoAttempt
<1>2. CASE ClearObstacles
  BY <1>2 DEF ClearObstacles, HistoryFits, NoAttempt
<1>3. ASSUME NEW frame \in ParkingFrames, ReuseHistory(frame) PROVE HistoryFits'
  <2>1. Reasons(frame)' = Reasons(frame)
    BY <1>3 DEF ReuseHistory, Reasons
  <2> QED BY <1>3, <2>1 DEF ReuseHistory, HistoryFits, Reasons
<1>4. ASSUME NEW frame \in ParkingFrames, AskForPath(frame) PROVE HistoryFits'
  BY <1>4 DEF AskForPath, HistoryFits, Reasons
<1>5. ASSUME NEW segments \in PathAnswers, RememberPath(segments) PROVE HistoryFits'
  <2>1. segments \in Seq(PathSegments)
    BY HistoryAssumption
  <2> QED BY <1>5, <2>1 DEF RememberPath, HistoryFits, NoAttempt
<1>6. CASE ForgetPath
  BY <1>6, EmptySignature DEF ForgetPath, HistoryFits, NoPath, NoAttempt
<1>7. CASE UNCHANGED history_vars
  BY <1>7 DEF history_vars, HistoryFits, Reasons
<1> QED BY <1>1, <1>2, <1>3, <1>4, <1>5, <1>6, <1>7 DEF HistoryNext

LEMMA FittingSplicesFollow == HistoryFits => SpliceFollowsHistory
<1> SUFFICES ASSUME HistoryFits PROVE SpliceFollowsHistory
  OBVIOUS
<1>1. \A f \in ParkingFrames : /\ f.start \in PathPoints
                               /\ f.speed_replan \in BOOLEAN /\ f.collision_risk \in BOOLEAN
  BY HistoryAssumption
<1>2. CASE attempt.kind = "reuse"
  <2>1. attempt.frame.speed_replan \in BOOLEAN /\ attempt.frame.collision_risk \in BOOLEAN
    BY <1>1, <1>2 DEF HistoryFits
  <2>2. StillWanted(path_provider, attempt.frame, runtime_obstacles, planned_with)
    BY <1>2, <2>1, ReusedIsWanted DEF HistoryFits, Reasons
  <2> QED BY <1>2, <2>2 DEF HistoryFits, SpliceFollowsHistory
<1>3. CASE attempt.kind = "plan"
  <2> DEFINE frame == attempt.frame
  <2>1. /\ frame.start \in PathPoints
        /\ frame.speed_replan \in BOOLEAN /\ frame.collision_risk \in BOOLEAN
    BY <1>1, <1>3 DEF HistoryFits
  <2>2. /\ path_provider.segments \in Seq(PathSegments)
        /\ path_provider.signature = ObstacleSignature(planned_with)
        /\ attempt.input = PlanInput(path_provider, frame.start, Reasons(frame))
    BY <1>3 DEF HistoryFits
  <2>3. Reasons(frame) = ReplanReasons(path_provider, frame.parking_seq, frame.end_pose, frame.start,
                                       runtime_obstacles, frame.speed_replan, frame.collision_risk)
    BY DEF Reasons
  <2> HIDE DEF frame
  <2>4. LET rest == attempt.input.warm_start.path
        IN /\ rest # <<>> =>
                /\ StillWanted(path_provider, frame, runtime_obstacles, planned_with)
                /\ SplicedTo(path_provider.segments, frame.start, rest, attempt.input.warm_start.gear)
           /\ attempt.input.strategy.is_trace_adjust <=> rest # <<>>
           /\ attempt.input.strategy.init_moving_direction # 0 <=> rest # <<>>
    BY <2>1, <2>2, <2>3, InputFollowsHistory
  <2> QED BY <1>3, <2>4 DEF SpliceFollowsHistory, frame
<1>4. CASE attempt.kind \notin {"reuse", "plan"}
  BY <1>4 DEF SpliceFollowsHistory
<1> QED BY <1>2, <1>3, <1>4

(* A remembered path is used only while nothing but the place of the       *)
(* vehicle speaks against it, for every sequence of frames, obstacles,     *)
(* answers and resets; and what is spliced to it goes on from the vehicle  *)
(* behind the nearest part of one of its segments, however long they are.  *)
THEOREM SplicesFollowTheHistory == HistorySpec => []SpliceFollowsHistory
<1>1. HistorySpec => []HistoryFits
  BY HistoryBegins, HistoryKeepsFitting, PTL DEF HistorySpec
<1> QED BY <1>1, FittingSplicesFollow, PTL

-----------------------------------------------------------------------------
(* The choice of a curve *)

\* In integers: the block of an index is that of one of the threads.
LEMMA BlockOfIndex ==
  ASSUME NEW size \in Nat, NEW threads \in Nat \ {0}, NEW i \in 1 .. size
  PROVE  \E n \in 0 .. threads - 1 : i \in Block(size, threads, n)
<1> DEFINE count == size \div threads + 1
           n == (i - 1) \div count
           end == (n + 1) * count
<1>1. count \in Nat \ {0} /\ size < threads * count
  <2>1. size \div threads \in Nat /\ size < threads * (size \div threads) + threads
    OBVIOUS
  <2>2. threads * (size \div threads + 1) = threads * (size \div threads) + threads
    OBVIOUS
  <2> QED BY <2>1, <2>2
<1>2. n \in Nat /\ n * count <= i - 1 /\ i - 1 < (n + 1) * count
  <2> HIDE DEF count
  <2>1. \A a \in Nat : /\ a \div count \in Nat /\ (a \div count) * count <= a
                       /\ a < ((a \div count) + 1) * count
    BY <1>1
  <2>2. i - 1 \in Nat
    OBVIOUS
  <2> QED BY <2>1, <2>2
<1>3. Block(size, threads, n) = n * count + 1 .. (IF end < size THEN end ELSE size)
  BY DEF Block
<1> HIDE DEF count, n
<1>4. n < threads
  <2> SUFFICES ASSUME n >= threads PROVE FALSE
    BY <1>2
  <2>1. n * count >= threads * count
    BY <1>1, <1>2
  <2> QED BY <1>1, <1>2, <2>1
<1>5. n * count \in Int /\ end \in Int
  BY <1>1, <1>2
<1>6. i \in Block(size, threads, n)
  <2> HIDE DEF end
  <2>1. i <= end /\ n * count + 1 <= i
    BY <1>2, <1>5 DEF end
  <2> QED BY <1>3, <1>5, <2>1
<1> QED BY <1>2, <1>4, <1>6

\* A block has only indices of curves.
LEMMA BlockIsWithin ==
  ASSUME NEW size \in Nat, NEW threads \in Nat \ {0}, NEW n \in Nat
  PROVE  Block(size, threads, n) \subseteq 1 .. size
<1>1. n * (size \div threads + 1) \in Nat /\ (n + 1) * (size \div threads + 1) \in Nat
  <2>1. size \div threads + 1 \in Nat
    OBVIOUS
  <2> QED BY <2>1
<1> QED BY <1>1 DEF Block

\* The slot of a block: no curve, or one as cheap as any of the block.
LEMMA SlotOfBlock ==
  ASSUME NEW most \in Nat, NEW size \in Nat, NEW costs \in [1 .. size -> 0 .. most - 1],
         NEW block \in SUBSET (1 .. size), NEW slot, slot = BestOfBlock(costs, most, block)
  PROVE  /\ block = {} => slot.cost = most
         /\ block # {} => /\ slot.index \in 1 .. size /\ slot.cost = costs[slot.index]
                          /\ \A j \in block : slot.cost <= costs[j]
<1> DEFINE cheap == {i \in block : costs[i] < most /\ \A j \in block : costs[i] <= costs[j]}
           first == CHOOSE i \in cheap : \A j \in cheap : i <= j
<1>1. slot = IF cheap = {} THEN [index |-> 1, cost |-> most]
             ELSE [index |-> first, cost |-> costs[first]]
  BY DEF BestOfBlock
<1>2. CASE block = {}
  BY <1>1, <1>2
<1>3. CASE block # {}
  <2> DEFINE paid == {costs[i] : i \in block}
  <2>1. \E c \in paid : \A d \in paid : c <= d
    <3>1. paid \subseteq Nat
      <4>1. \A i \in block : costs[i] \in 0 .. most - 1
        OBVIOUS
      <4>2. \A c \in 0 .. most - 1 : c \in Nat
        OBVIOUS
      <4> QED BY <4>1, <4>2
    <3>2. paid # {}
      BY <1>3
    <3> HIDE DEF paid
    <3> QED BY <3>1, <3>2, LeastNumber
  <2>2. PICK i \in block : \A j \in block : costs[i] <= costs[j]
    BY <2>1
  <2>3. i \in cheap
    BY <2>2
  <2>4. cheap \subseteq Nat /\ cheap # {}
    <3>1. \A k \in 1 .. size : k \in Nat
      OBVIOUS
    <3> QED BY <2>3, <3>1
  <2>5. \E k \in cheap : \A j \in cheap : k <= j
    <3> HIDE DEF cheap
    <3> QED BY <2>4, LeastNumber
  <2>6. first \in cheap
    <3> HIDE DEF cheap
    <3> QED BY <2>5
  <2>7. first \in block /\ \A j \in block : costs[first] <= costs[j]
    <3> HIDE DEF first
    <3> QED BY <2>6
  <2> HIDE DEF first
  <2>8. slot.index = first /\ slot.cost = costs[first]
    BY <1>1, <2>4
  <2> QED BY <1>3, <2>7, <2>8
<1> QED BY <1>2, <1>3

(* However many threads share the curves and however many curves there     *)
(* are, when each costs less than the cost that a slot begins with, the    *)
(* chosen curve is one of them and none is cheaper (GetBestCurveIdx and    *)
(* FindBestSamplesFromIndex).                                              *)
THEOREM CheapestCurveIsChosen ==
  ASSUME NEW most \in Nat, NEW costs \in Seq(0 .. most - 1), costs # <<>>,
         NEW sample_thread_size \in Int
  PROVE  CheapestIsChosen(costs, most, sample_thread_size)
<1> DEFINE size == Len(costs)
           threads == Threads(sample_thread_size)
           block(n) == Block(size, threads, n)
           slots == {BestOfBlock(costs, most, block(n)) : n \in 0 .. threads - 1}
           least == {s \in slots : \A o \in slots : s.cost <= o.cost}
<1>1. size \in Nat \ {0} /\ costs \in [1 .. size -> 0 .. most - 1] /\ DOMAIN costs = 1 .. size
  OBVIOUS
<1>2. threads \in Nat \ {0}
  BY DEF Threads, MinThreads
<1>3. BestCurves(costs, most, sample_thread_size) = {s.index : s \in least}
  BY DEF BestCurves
<1> HIDE DEF size, threads
<1>4. \A n \in 0 .. threads - 1 : block(n) \in SUBSET (1 .. size)
  BY <1>1, <1>2, BlockIsWithin
<1> HIDE DEF block
<1>5. \A n \in 0 .. threads - 1 :
        LET slot == BestOfBlock(costs, most, block(n))
        IN /\ block(n) = {} => slot.cost = most
           /\ block(n) # {} => /\ slot.index \in 1 .. size /\ slot.cost = costs[slot.index]
                               /\ \A j \in block(n) : slot.cost <= costs[j]
  BY <1>1, <1>4, SlotOfBlock
<1>6. \A j \in 1 .. size : \E s \in slots : s.cost <= costs[j]
  <2> TAKE j \in 1 .. size
  <2>1. PICK n \in 0 .. threads - 1 : j \in block(n)
    BY <1>1, <1>2, BlockOfIndex DEF block
  <2> QED BY <1>5, <2>1
<1>7. \A s \in slots : s.cost = most \/ (s.index \in 1 .. size /\ s.cost = costs[s.index])
  BY <1>5
<1>8. \A s \in slots : s.cost \in Nat
  <2>1. \A i \in 1 .. size : costs[i] \in Nat
    BY <1>1
  <2> HIDE DEF slots
  <2> QED BY <1>7, <2>1
<1>9. slots # {}
  BY <1>1, <1>6
<1> HIDE DEF slots
<1>10. least # {}
  <2> DEFINE paid == {s.cost : s \in slots}
  <2>1. paid \subseteq Nat /\ paid # {}
    BY <1>8, <1>9
  <2>2. PICK c \in paid : \A d \in paid : c <= d
    <3> HIDE DEF paid
    <3> QED BY <2>1, LeastNumber
  <2>3. PICK s \in slots : s.cost = c
    BY <2>2
  <2>4. s \in least
    BY <2>2, <2>3
  <2> QED BY <2>4
<1>11. ASSUME NEW s \in least
       PROVE  s.index \in DOMAIN costs /\ \A j \in DOMAIN costs : costs[s.index] <= costs[j]
  <2>1. \A i \in 1 .. size : costs[i] \in Nat /\ costs[i] < most
    BY <1>1
  <2>2. \A j \in 1 .. size : s.cost <= costs[j]
    <3> TAKE j \in 1 .. size
    <3>1. PICK o \in slots : o.cost <= costs[j]
      BY <1>6
    <3>2. s.cost <= o.cost /\ s.cost \in Nat /\ o.cost \in Nat
      BY <1>8
    <3> QED BY <2>1, <3>1, <3>2
  <2>3. s.cost # most
    <3>1. 1 \in 1 .. size /\ s.cost \in Nat
      BY <1>1, <1>8
    <3> QED BY <2>1, <2>2, <3>1
  <2>4. s.index \in 1 .. size /\ s.cost = costs[s.index]
    BY <1>7, <2>3
  <2> QED BY <1>1, <2>2, <2>4
<1> HIDE DEF least
<1> QED BY <1>3, <1>10, <1>11 DEF CheapestIsChosen

-----------------------------------------------------------------------------
(* The queue of SmoothSpeedLimits *)

\* A queue of indices from low to high, which ascend with their limits; each index
\* from low to high has one of them behind it whose limit is not above its own.
IsQueue(limits, low, high, queue) ==
  /\ queue \in Seq(1 .. Len(limits))
  /\ \A k \in 1 .. Len(queue) : low <= queue[k] /\ queue[k] <= high
  /\ \A a, b \in 1 .. Len(queue) :
       a < b => queue[a] < queue[b] /\ limits[queue[a]] < limits[queue[b]]
  /\ \A j \in low .. high :
       \E k \in 1 .. Len(queue) : j <= queue[k] /\ limits[queue[k]] <= limits[j]

\* From where a limit is kept.
Low(window, i) == IF i - 2 * window > 1 THEN i - 2 * window ELSE 1

\* Up to where a limit has been pushed.
High(limits, i) == IF i < Len(limits) THEN i ELSE Len(limits)

\* The first elements of a sequence.
LEMMA PrefixIs ==
  ASSUME NEW S, NEW s \in Seq(S), NEW k \in 0 .. Len(s)
  PROVE  /\ SubSeq(s, 1, k) \in Seq(S) /\ Len(SubSeq(s, 1, k)) = k
         /\ \A a \in 1 .. k : SubSeq(s, 1, k)[a] = s[a]
<1>1. 1 \in 1 .. Len(s) + 1 /\ k \in 1 - 1 .. Len(s) /\ k - 1 + 1 = k
  OBVIOUS
<1>2. \A a \in 1 .. k : 1 + a - 1 = a
  OBVIOUS
<1> QED BY <1>1, <1>2, SubSeqProperties

\* The pushed index pops those at the back with a limit not below its own.
LEMMA KeptExists ==
  ASSUME NEW limits \in Seq(Int), NEW i \in 1 .. Len(limits),
         NEW queue \in Seq(1 .. Len(limits))
  PROVE  \E k \in 0 .. Len(queue) :
           /\ \A j \in k + 1 .. Len(queue) : limits[i] <= limits[queue[j]]
           /\ k > 0 => limits[queue[k]] < limits[i]
<1> DEFINE back(k) == \A j \in k + 1 .. Len(queue) : limits[i] <= limits[queue[j]]
           S == {k \in Nat : k <= Len(queue) /\ back(k)}
<1>1. Len(queue) \in S
  OBVIOUS
<1>2. PICK k \in S : \A m \in S : k <= m
  <2>1. S \subseteq Nat /\ S # {}
    BY <1>1
  <2> HIDE DEF S
  <2> QED BY <2>1, LeastNumber
<1>3. k \in 0 .. Len(queue) /\ back(k)
  OBVIOUS
<1>4. CASE k > 0 /\ ~(limits[queue[k]] < limits[i])
  <2>1. queue[k] \in 1 .. Len(limits) /\ k \in 1 .. Len(queue)
    BY <1>3, <1>4
  <2>2. limits[i] <= limits[queue[k]]
    <3>1. limits[queue[k]] \in Int /\ limits[i] \in Int
      BY <2>1
    <3> QED BY <1>4, <3>1
  <2>3. back(k - 1)
    <3>1. \A j \in (k - 1) + 1 .. Len(queue) : j = k \/ j \in k + 1 .. Len(queue)
      BY <1>3
    <3> QED BY <1>3, <2>2, <3>1
  <2>4. k - 1 \in S
    <3>1. k - 1 \in Nat /\ k - 1 <= Len(queue)
      BY <1>3, <1>4
    <3> HIDE DEF back
    <3> QED BY <2>3, <3>1
  <2>5. k <= k - 1
    <3> HIDE DEF S
    <3> QED BY <1>2, <2>4
  <2> QED BY <1>3, <2>5
<1> QED BY <1>3, <1>4

\* The queue that an index has been pushed to.
LEMMA PushedQueue ==
  ASSUME NEW limits \in Seq(Int), NEW i \in 1 .. Len(limits), NEW low \in 1 .. i,
         NEW queue, IsQueue(limits, low, i - 1, queue)
  PROVE  IsQueue(limits, low, i, Pushed(limits, i, queue))
<1> DEFINE n == Len(limits)
<1>1. queue \in Seq(1 .. n) /\ Len(queue) \in Nat
  BY DEF IsQueue
<1>2. PICK k \in 0 .. Len(queue) :
             /\ \A j \in k + 1 .. Len(queue) : limits[i] <= limits[queue[j]]
             /\ k > 0 => limits[queue[k]] < limits[i]
             /\ Pushed(limits, i, queue) = Append(SubSeq(queue, 1, k), i)
  BY <1>1, KeptExists DEF Pushed
<1> DEFINE new == Append(SubSeq(queue, 1, k), i)
<1>3. /\ new \in Seq(1 .. n) /\ Len(new) = k + 1 /\ new[k+1] = i
      /\ \A a \in 1 .. k : new[a] = queue[a] /\ a \in 1 .. Len(queue)
  <2>1. SubSeq(queue, 1, k) \in Seq(1 .. n) /\ Len(SubSeq(queue, 1, k)) = k
        /\ \A a \in 1 .. k : SubSeq(queue, 1, k)[a] = queue[a] /\ a \in 1 .. Len(queue)
    <3>1. \A a \in 1 .. k : a \in 1 .. Len(queue)
      BY <1>1
    <3> HIDE DEF n
    <3> QED BY <1>1, <3>1, PrefixIs
  <2>2. k \in Nat /\ \A a \in 1 .. k : a \in 1 .. k + 1
    BY <1>1
  <2> QED BY <2>1, <2>2
<1> HIDE DEF new
<1>4. \A a \in 1 .. k + 1 : a \in 1 .. k \/ a = k + 1
  OBVIOUS
<1>5. \A a \in 1 .. n : limits[a] \in Int
  OBVIOUS
<1>6. \A a \in 1 .. Len(queue) : queue[a] \in 1 .. n /\ low <= queue[a] /\ queue[a] <= i - 1
  <2>1. \A a \in 1 .. Len(queue) : queue[a] \in 1 .. n
    BY <1>1
  <2>2. \A a \in 1 .. Len(queue) : low <= queue[a] /\ queue[a] <= i - 1
    BY Zenon DEF IsQueue
  <2> HIDE DEF n
  <2> QED BY <2>1, <2>2
<1>7. \A a \in 1 .. k + 1 : low <= new[a] /\ new[a] <= i
  <2> TAKE a \in 1 .. k + 1
  <2>1. CASE a = k + 1
    BY <1>3, <2>1
  <2>2. CASE a \in 1 .. k
    <3>1. new[a] = queue[a] /\ a \in 1 .. Len(queue)
      BY <1>3, <2>2
    <3>2. queue[a] \in Int /\ low <= queue[a] /\ queue[a] <= i - 1
      BY <1>6, <3>1
    <3> QED BY <3>1, <3>2
  <2> QED BY <1>4, <2>1, <2>2
<1>8. \A a \in 1 .. k : new[a] < i /\ limits[new[a]] < limits[i]
  <2> TAKE a \in 1 .. k
  <2>1. k \in 1 .. Len(queue) /\ a \in 1 .. Len(queue) /\ k > 0
    BY <1>1
  <2>2. queue[a] < i /\ limits[queue[k]] < limits[i]
    BY <1>2, <1>6, <2>1
  <2>3. limits[queue[a]] \in Int /\ limits[queue[k]] \in Int /\ limits[i] \in Int
    BY <1>5, <1>6, <2>1
  <2>4. a = k \/ limits[queue[a]] < limits[queue[k]]
    BY <2>1 DEF IsQueue
  <2>5. limits[queue[a]] < limits[i]
    BY <2>2, <2>3, <2>4
  <2> QED BY <1>3, <2>2, <2>5
<1>9. \A a, b \in 1 .. k + 1 : a < b => new[a] < new[b] /\ limits[new[a]] < limits[new[b]]
  <2> SUFFICES ASSUME NEW a \in 1 .. k + 1, NEW b \in 1 .. k + 1, a < b
               PROVE  new[a] < new[b] /\ limits[new[a]] < limits[new[b]]
    OBVIOUS
  <2>1. a \in 1 .. k
    OBVIOUS
  <2>2. CASE b = k + 1
    BY <1>3, <1>8, <2>1, <2>2
  <2>3. CASE b \in 1 .. k
    <3>1. queue[a] < queue[b] /\ limits[queue[a]] < limits[queue[b]]
      BY <1>3, <2>1, <2>3 DEF IsQueue
    <3> QED BY <1>3, <2>1, <2>3, <3>1
  <2> QED BY <1>4, <2>2, <2>3
<1>10. ASSUME NEW j \in low .. i
       PROVE  \E a \in 1 .. k + 1 : j <= new[a] /\ limits[new[a]] <= limits[j]
  <2>0. j \in 1 .. n /\ k + 1 \in 1 .. k + 1 /\ limits[j] \in Int /\ limits[i] \in Int
    BY <1>5
  <2>1. CASE j = i
    BY <1>3, <2>0, <2>1
  <2>2. CASE j \in low .. i - 1
    <3>1. PICK m \in 1 .. Len(queue) : j <= queue[m] /\ limits[queue[m]] <= limits[j]
      BY <2>2 DEF IsQueue
    <3>2. CASE m \in 1 .. k
      <4>1. m \in 1 .. k + 1
        BY <3>2
      <4> QED BY <1>3, <3>1, <3>2, <4>1
    <3>3. CASE m \in k + 1 .. Len(queue)
      <4>1. limits[queue[m]] \in Int
        BY <1>5, <1>6
      <4>2. limits[i] <= limits[j]
        BY <1>2, <2>0, <3>1, <3>3, <4>1
      <4>3. j <= i
        BY <2>2
      <4> QED BY <1>3, <2>0, <4>2, <4>3
    <3> QED BY <3>2, <3>3
  <2> QED BY <2>1, <2>2
<1>11. IsQueue(limits, low, i, new)
  BY <1>3, <1>7, <1>9, <1>10 DEF IsQueue
<1> QED BY <1>2, <1>11 DEF new

\* The queue whose front is out of the window.
LEMMA FrontPopped ==
  ASSUME NEW limits \in Seq(Int), NEW low \in Nat \ {0}, NEW high \in 1 .. Len(limits), low < high,
         NEW queue, IsQueue(limits, low, high, queue), Head(queue) < low + 1
  PROVE  IsQueue(limits, low + 1, high, Tail(queue))
<1> DEFINE n == Len(limits)
           new == Tail(queue)
<1>1. queue \in Seq(1 .. n) /\ Len(queue) \in Nat
  BY DEF IsQueue
<1>2. queue # <<>> /\ Len(queue) > 0
  <2>1. low \in low .. high
    OBVIOUS
  <2>2. \E k \in 1 .. Len(queue) : TRUE
    BY <2>1 DEF IsQueue
  <2> QED BY <1>1, <2>2
<1>3. /\ new \in Seq(1 .. n) /\ Len(new) = Len(queue) - 1
      /\ \A a \in 1 .. Len(queue) - 1 : new[a] = queue[a+1] /\ a + 1 \in 1 .. Len(queue)
      /\ Head(queue) = queue[1] /\ 1 \in 1 .. Len(queue)
  BY <1>1, <1>2
<1> HIDE DEF new
<1>4. \A a \in 1 .. Len(queue) : queue[a] \in 1 .. n /\ low <= queue[a] /\ queue[a] <= high
  <2>1. \A a \in 1 .. Len(queue) : queue[a] \in 1 .. n
    BY <1>1
  <2> QED BY <2>1 DEF IsQueue
<1>5. queue[1] = low
  BY <1>3, <1>4
<1>6. \A a \in 1 .. Len(queue) - 1 : low + 1 <= new[a] /\ new[a] <= high
  <2> TAKE a \in 1 .. Len(queue) - 1
  <2>1. 1 < a + 1 /\ a + 1 \in 1 .. Len(queue) /\ new[a] = queue[a+1]
    BY <1>3
  <2>2. queue[1] < queue[a+1]
    BY <1>3, <2>1 DEF IsQueue
  <2> QED BY <1>4, <1>5, <2>1, <2>2
<1>7. \A a, b \in 1 .. Len(queue) - 1 :
        a < b => new[a] < new[b] /\ limits[new[a]] < limits[new[b]]
  <2> SUFFICES ASSUME NEW a \in 1 .. Len(queue) - 1, NEW b \in 1 .. Len(queue) - 1, a < b
               PROVE  new[a] < new[b] /\ limits[new[a]] < limits[new[b]]
    OBVIOUS
  <2>1. a + 1 \in 1 .. Len(queue) /\ b + 1 \in 1 .. Len(queue)
        /\ new[a] = queue[a+1] /\ new[b] = queue[b+1]
    BY <1>3
  <2>2. a + 1 < b + 1
    BY <1>1
  <2> QED BY <2>1, <2>2 DEF IsQueue
<1>8. ASSUME NEW j \in low + 1 .. high
      PROVE  \E a \in 1 .. Len(queue) - 1 : j <= new[a] /\ limits[new[a]] <= limits[j]
  <2>1. PICK k \in 1 .. Len(queue) : j <= queue[k] /\ limits[queue[k]] <= limits[j]
    <3>1. j \in low .. high
      OBVIOUS
    <3> QED BY <3>1 DEF IsQueue
  <2>2. k # 1
    BY <1>5, <2>1
  <2>3. k - 1 \in 1 .. Len(queue) - 1 /\ new[k-1] = queue[k]
    <3>1. k - 1 \in 1 .. Len(queue) - 1 /\ (k - 1) + 1 = k
      BY <1>1, <2>2
    <3> QED BY <1>3, <3>1
  <2> QED BY <2>1, <2>3
<1> QED BY <1>3, <1>6, <1>7, <1>8 DEF IsQueue, new

\* What an index makes of the queue before it.
LEMMA QueueStep ==
  ASSUME NEW limits \in Seq(Int), NEW window \in Nat, NEW i \in 1 .. Len(limits) + window,
         Len(limits) > 0,
         NEW queue, IsQueue(limits, Low(window, i - 1), High(limits, i - 1), queue)
  PROVE  IsQueue(limits, Low(window, i), High(limits, i), Queue(limits, window, i, queue))
<1> DEFINE n == Len(limits)
           low == Low(window, i - 1)
           all == IF i <= n THEN Pushed(limits, i, queue) ELSE queue
<1>0. n \in Nat /\ n > 0 /\ i \in Nat /\ i <= n + window /\ i > 0
  OBVIOUS
<1>1. /\ low \in Nat \ {0} /\ low <= i /\ low <= High(limits, i) /\ High(limits, i) \in 1 .. n
      /\ Low(window, i) \in {low, low + 1} /\ Low(window, i) <= High(limits, i)
      /\ Low(window, i) = low + 1 => low = i - 1 - 2 * window
      /\ Low(window, i) >= i - 2 * window
      /\ Low(window, i) = 1 \/ Low(window, i) = i - 2 * window
  BY <1>0 DEF Low, High
<1>2. IsQueue(limits, low, High(limits, i), all)
  <2>1. CASE i <= n
    <3>1. High(limits, i - 1) = i - 1 /\ High(limits, i) = i /\ low \in 1 .. i /\ i \in 1 .. n
      BY <1>0, <1>1, <2>1 DEF High
    <3>2. IsQueue(limits, low, i - 1, queue)
      BY <3>1
    <3> HIDE DEF low
    <3> QED BY <2>1, <3>1, <3>2, PushedQueue
  <2>2. CASE ~(i <= n)
    <3>1. High(limits, i - 1) = n /\ High(limits, i) = n
      BY <1>0, <2>2 DEF High
    <3> QED BY <2>2, <3>1
  <2> QED BY <2>1, <2>2
<1>3. Queue(limits, window, i, queue) = IF Head(all) < i - 2 * window THEN Tail(all) ELSE all
  BY DEF Queue
<1> HIDE DEF all, low
<1>4. /\ all \in Seq(1 .. n) /\ Len(all) \in Nat
      /\ \A k \in 1 .. Len(all) : all[k] \in 1 .. n /\ low <= all[k] /\ all[k] <= High(limits, i)
  BY <1>2 DEF IsQueue
<1>5. Len(all) > 0 /\ Head(all) = all[1] /\ 1 \in 1 .. Len(all)
  <2>1. low \in low .. High(limits, i)
    BY <1>1
  <2>2. \E k \in 1 .. Len(all) : TRUE
    BY <1>2, <2>1 DEF IsQueue
  <2> QED BY <1>4, <2>2
<1>6. CASE Head(all) < i - 2 * window
  <2>1. low <= Head(all) /\ Head(all) \in Int
    BY <1>4, <1>5
  <2>2. Low(window, i) = low + 1 /\ Head(all) < low + 1 /\ low < High(limits, i)
    BY <1>0, <1>1, <1>6, <2>1
  <2>3. IsQueue(limits, low + 1, High(limits, i), Tail(all))
    BY <1>1, <1>2, <2>2, FrontPopped
  <2> QED BY <1>3, <1>6, <2>2, <2>3
<1>7. CASE ~(Head(all) < i - 2 * window)
  <2>1. \A k \in 1 .. Len(all) : Low(window, i) <= all[k]
    <3> TAKE k \in 1 .. Len(all)
    <3>1. all[1] <= all[k]
      <4>1. k = 1 \/ 1 < k
        OBVIOUS
      <4>2. all[1] < all[k] \/ k = 1
        BY <1>2, <1>5, <4>1 DEF IsQueue
      <4> QED BY <1>4, <1>5, <4>2
    <3>2. all[1] \in Int /\ all[k] \in Int /\ i - 2 * window <= all[1] /\ low <= all[k]
          /\ 1 <= all[k]
      <4>1. all[1] \in 1 .. n /\ all[k] \in 1 .. n /\ low <= all[k]
        BY <1>4, <1>5
      <4>2. i \in Int /\ window \in Int /\ all[1] \in Int /\ all[k] \in Int /\ 1 <= all[k]
        BY <1>0, <4>1
      <4>3. ~(all[1] < i - 2 * window)
        BY <1>5, <1>7
      <4> QED BY <4>1, <4>2, <4>3
    <3> QED BY <1>0, <1>1, <3>1, <3>2
  <2>2. \A j \in Low(window, i) .. High(limits, i) : j \in low .. High(limits, i)
    BY <1>1
  <2>3. IsQueue(limits, Low(window, i), High(limits, i), all)
    BY <1>2, <1>4, <2>1, <2>2 DEF IsQueue
  <2> QED BY <1>3, <1>7, <2>3
<1> QED BY <1>6, <1>7

\* There are the queues of all the indices.
LEMMA QueuesExist ==
  ASSUME NEW limits \in Seq(Int), NEW window \in Nat, NEW N \in Nat
  PROVE  \E q : /\ q = [i \in 1 .. N |-> q[i]]
                /\ \A i \in 1 .. N : q[i] = Queue(limits, window, i, IF i = 1 THEN <<>> ELSE q[i-1])
<1> DEFINE step(i, q) == Queue(limits, window, i, q)
           from(q, m) == \A i \in 1 .. m : q[i] = step(i, IF i = 1 THEN <<>> ELSE q[i-1])
           P == {m \in Nat : \E q : from(q, m)}
<1> HIDE DEF step
<1>1. 0 \in P
  <2>1. from(<<>>, 0)
    OBVIOUS
  <2> HIDE DEF from
  <2> QED BY <2>1
<1>2. ASSUME NEW m \in P PROVE m + 1 \in P
  <2>1. PICK q : from(q, m)
    OBVIOUS
  <2> DEFINE r == [i \in 1 .. m + 1 |-> IF i <= m THEN q[i] ELSE step(i, IF i = 1 THEN <<>> ELSE q[m])]
  <2>2. from(r, m + 1)
    <3> SUFFICES ASSUME NEW i \in 1 .. m + 1
                 PROVE  r[i] = step(i, IF i = 1 THEN <<>> ELSE r[i-1])
      OBVIOUS
    <3>1. m \in Nat /\ (i = 1 \/ (i - 1 \in 1 .. m + 1 /\ i - 1 <= m))
      <4> HIDE DEF r
      <4> QED OBVIOUS
    <3>2. i = 1 \/ r[i-1] = q[i-1]
      BY <3>1
    <3>3. CASE i <= m
      <4>1. i \in 1 .. m
        BY <3>1, <3>3
      <4>2. r[i] = q[i]
        BY <3>3
      <4> HIDE DEF r
      <4> QED BY <2>1, <3>2, <4>1, <4>2
    <3>4. CASE ~(i <= m)
      <4>1. i = m + 1 /\ i - 1 = m
        BY <3>1, <3>4
      <4>2. r[i] = step(i, IF i = 1 THEN <<>> ELSE q[m])
        BY <3>4
      <4> HIDE DEF r
      <4> QED BY <3>2, <4>1, <4>2
    <3> QED BY <3>3, <3>4
  <2> HIDE DEF from, r
  <2> QED BY <2>2
<1>3. P = Nat
  <2> HIDE DEF P
  <2>1. P \in SUBSET Nat
    BY DEF P
  <2> QED BY <1>1, <1>2, <2>1, SetInduction
<1>4. PICK q : from(q, N)
  <2>1. N \in P
    <3> HIDE DEF P
    <3> QED BY <1>3
  <2> HIDE DEF from
  <2> QED BY <2>1
<1> DEFINE r == [i \in 1 .. N |-> q[i]]
<1>5. \A i \in 1 .. N : i = 1 \/ i - 1 \in 1 .. N
  OBVIOUS
<1>6. from(r, N)
  BY <1>4, <1>5
<1>7. r = [i \in 1 .. N |-> r[i]]
  OBVIOUS
<1> HIDE DEF r
<1> QED BY <1>6, <1>7 DEF step

\* In integers: the window around a place.
LEMMA WindowBounds ==
  ASSUME NEW n \in Nat, NEW i \in 1 .. n, NEW window \in Nat,
         NEW low, low = IF i - window > 1 THEN i - window ELSE 1,
         NEW high, high = IF i + window < n THEN i + window ELSE n
  PROVE  /\ low \in Nat \ {0} /\ high \in 1 .. n /\ low <= high
         /\ i - window <= low /\ high <= i + window
         /\ \A j \in 1 .. n : i - window <= j /\ j <= i + window => j \in low .. high
OBVIOUS

(* Whatever the limits and the window are, the smoothed limit of a place   *)
(* is the least one of its window: the queue of SmoothSpeedLimits, which   *)
(* pops at its back the indices that cannot be least any more and at its   *)
(* front the one that leaves the window, has it at its front.              *)
THEOREM SmoothedLimitsAreLeast ==
  ASSUME NEW limits \in Seq(Int), NEW window \in Nat
  PROVE  LimitsAreLeast(limits, window)
<1> DEFINE n == Len(limits)
           F(q) == [i \in 1 .. n + window |->
                      Queue(limits, window, i, IF i = 1 THEN <<>> ELSE q[i-1])]
           queue == CHOOSE q : q = F(q)
           smooth == SmoothSpeedLimits(limits, window)
<1>0. n \in Nat /\ n + window \in Nat /\ DOMAIN limits = 1 .. n /\ \A i \in 1 .. n : limits[i] \in Int
  OBVIOUS
<1>1. smooth = [i \in 1 .. n |-> limits[Head(queue[i + window])]]
  BY DEF SmoothSpeedLimits
<1>2. queue = F(queue)
  <2>1. \E q : q = F(q)
    <3>1. PICK N \in Nat : N = n + window
      BY <1>0
    <3>2. PICK q : /\ q = [i \in 1 .. N |-> q[i]]
                   /\ \A i \in 1 .. N :
                        q[i] = Queue(limits, window, i, IF i = 1 THEN <<>> ELSE q[i-1])
      BY QueuesExist
    <3>3. q = F(q)
      BY <3>1, <3>2
    <3> HIDE DEF F
    <3> QED BY <3>3
  <2> HIDE DEF F
  <2> QED BY <2>1
<1>3. \A i \in 1 .. n + window :
        queue[i] = Queue(limits, window, i, IF i = 1 THEN <<>> ELSE queue[i-1])
  BY <1>2
<1> HIDE DEF queue
<1>4. ASSUME n > 0
      PROVE  \A i \in 1 .. n + window : IsQueue(limits, Low(window, i), High(limits, i), queue[i])
  <2> DEFINE good(i) == IsQueue(limits, Low(window, i), High(limits, i), queue[i])
             P == {m \in Nat : m + 1 <= n + window => good(m + 1)}
  <2>1. 0 \in P
    <3>1. Low(window, 0) = 1 /\ High(limits, 0) = 0
      BY <1>0, <1>4 DEF Low, High
    <3>2. IsQueue(limits, 1, 0, <<>>)
      BY <1>0 DEF IsQueue
    <3>3. 1 \in 1 .. n + window /\ 1 - 1 = 0
      BY <1>0, <1>4
    <3>4. good(1)
      BY <1>3, <1>4, <3>1, <3>2, <3>3, QueueStep
    <3> HIDE DEF good
    <3> QED BY <3>4
  <2>2. ASSUME NEW m \in P PROVE m + 1 \in P
    <3>0. m \in Nat /\ m + 1 \in Nat
      OBVIOUS
    <3> SUFFICES ASSUME (m + 1) + 1 <= n + window PROVE good((m + 1) + 1)
      <4> HIDE DEF good
      <4> QED BY <3>0
    <3>1. PICK k \in 1 .. n + window : k = (m + 1) + 1
      BY <1>0, <3>0
    <3>2. k - 1 = m + 1 /\ k # 1 /\ m + 1 <= n + window
      BY <1>0, <3>0, <3>1
    <3>3. good(k - 1)
      BY <2>2, <3>0, <3>2
    <3>4. good(k)
      BY <1>3, <1>4, <3>2, <3>3, QueueStep
    <3> QED BY <3>1, <3>4
  <2>3. P = Nat
    <3> HIDE DEF P
    <3>1. P \in SUBSET Nat
      BY DEF P
    <3> QED BY <2>1, <2>2, <3>1, SetInduction
  <2> HIDE DEF good
  <2>4. \A i \in 1 .. n + window : i - 1 \in P /\ (i - 1) + 1 <= n + window /\ (i - 1) + 1 = i
    <3> HIDE DEF P
    <3> QED BY <1>0, <2>3
  <2>5. \A i \in 1 .. n + window : good(i)
    BY <2>4
  <2> QED BY <2>5 DEF good
<1>5. ASSUME NEW i \in 1 .. n
      PROVE  \E first \in 1 .. n :
               /\ i - window <= first /\ first <= i + window /\ smooth[i] = limits[first]
               /\ \A j \in 1 .. n : i - window <= j /\ j <= i + window => smooth[i] <= limits[j]
  <2> DEFINE q == queue[i + window]
             low == Low(window, i + window)
             high == High(limits, i + window)
             first == Head(q)
  <2>1. n > 0 /\ i + window \in 1 .. n + window
    BY <1>0
  <2>2. IsQueue(limits, low, high, q)
    BY <1>4, <2>1
  <2>3. /\ low \in Nat \ {0} /\ high \in 1 .. n /\ low <= high
        /\ i - window <= low /\ high <= i + window
        /\ \A j \in 1 .. n : i - window <= j /\ j <= i + window => j \in low .. high
    <3>1. /\ low = IF i - window > 1 THEN i - window ELSE 1
          /\ high = IF i + window < n THEN i + window ELSE n
      BY <1>0, <2>1 DEF Low, High
    <3> HIDE DEF low, high
    <3> HIDE DEF n
    <3> QED BY <1>0, <3>1, WindowBounds
  <2>4. smooth[i] = limits[first]
    BY <1>1
  <2> HIDE DEF q, low, high
  <2>5. q \in Seq(1 .. n) /\ Len(q) \in Nat
    BY <2>2 DEF IsQueue
  <2>6. Len(q) > 0 /\ first = q[1] /\ 1 \in 1 .. Len(q)
    <3>1. low \in low .. high
      BY <2>3
    <3>2. \E k \in 1 .. Len(q) : TRUE
      BY <2>2, <3>1 DEF IsQueue
    <3> QED BY <2>5, <3>2
  <2> HIDE DEF first
  <2>7. first \in 1 .. n /\ low <= first /\ first <= high
    BY <2>2, <2>5, <2>6 DEF IsQueue
  <2>8. \A j \in low .. high : limits[first] <= limits[j]
    <3> TAKE j \in low .. high
    <3>1. PICK k \in 1 .. Len(q) : j <= q[k] /\ limits[q[k]] <= limits[j]
      BY <2>2 DEF IsQueue
    <3>2. k = 1 \/ limits[q[1]] < limits[q[k]]
      <4>1. k = 1 \/ 1 < k
        OBVIOUS
      <4> QED BY <2>2, <2>6, <4>1 DEF IsQueue
    <3>3. q[k] \in 1 .. n /\ j \in 1 .. n
      BY <2>3, <2>5
    <3>4. limits[q[k]] \in Int /\ limits[first] \in Int /\ limits[j] \in Int
      BY <1>0, <2>7, <3>3
    <3> QED BY <2>6, <3>1, <3>2, <3>4
  <2> QED BY <1>0, <2>3, <2>4, <2>7, <2>8
<1>6. Len(smooth) = n
  BY <1>0, <1>1
<1> HIDE DEF smooth
<1>7. ASSUME NEW i \in 1 .. n
      PROVE  LET around == {j \in DOMAIN limits : i - window <= j /\ j <= i + window}
             IN /\ \E j \in around : smooth[i] = limits[j]
                /\ \A j \in around : smooth[i] <= limits[j]
  BY <1>0, <1>5
<1> QED BY <1>0, <1>6, <1>7 DEF LimitsAreLeast, smooth

-----------------------------------------------------------------------------
(* The knots of a curve *)

\* Each of N values is made from the last one.
StepsFrom(q, f, s, N) == \A i \in 1 .. N : q[i] = f[<<i, IF i = 1 THEN s ELSE q[i-1]>>]

\* A function may be defined from each number to the next.
LEMMA StepsExist ==
  ASSUME NEW S, NEW f \in [Nat \X S -> S], NEW s \in S, NEW N \in Nat
  PROVE  \E q \in [1 .. N -> S] : StepsFrom(q, f, s, N)
<1> DEFINE from(q, m) == \A i \in 1 .. m : q[i] = f[<<i, IF i = 1 THEN s ELSE q[i-1]>>]
           P == {m \in Nat : \E q \in [1 .. m -> S] : from(q, m)}
<1>1. 0 \in P
  <2>1. [i \in 1 .. 0 |-> s] \in [1 .. 0 -> S]
    OBVIOUS
  <2>2. from([i \in 1 .. 0 |-> s], 0)
    OBVIOUS
  <2> HIDE DEF from
  <2> QED BY <2>1, <2>2
<1>2. ASSUME NEW m \in P PROVE m + 1 \in P
  <2>1. PICK q \in [1 .. m -> S] : from(q, m)
    OBVIOUS
  <2> DEFINE last == IF m = 0 THEN s ELSE q[m]
             r == [i \in 1 .. m + 1 |-> IF i <= m THEN q[i] ELSE f[<<i, last>>]]
  <2>2. m \in Nat /\ m + 1 \in Nat /\ last \in S
    OBVIOUS
  <2>3. r \in [1 .. m + 1 -> S]
    <3> SUFFICES ASSUME NEW i \in 1 .. m + 1
                 PROVE  (IF i <= m THEN q[i] ELSE f[<<i, last>>]) \in S
      OBVIOUS
    <3> HIDE DEF last
    <3>1. f[<<i, last>>] \in S
      BY <2>2
    <3>2. i <= m => q[i] \in S
      BY <2>2
    <3> QED BY <3>1, <3>2
  <2>4. from(r, m + 1)
    <3> SUFFICES ASSUME NEW i \in 1 .. m + 1
                 PROVE  r[i] = f[<<i, IF i = 1 THEN s ELSE r[i-1]>>]
      OBVIOUS
    <3>1. i = 1 \/ (i - 1 \in 1 .. m + 1 /\ i - 1 <= m)
      <4> HIDE DEF r
      <4> QED BY <2>2
    <3>2. i = 1 \/ r[i-1] = q[i-1]
      BY <3>1
    <3>3. CASE i <= m
      <4>1. i \in 1 .. m
        BY <2>2, <3>3
      <4>2. r[i] = q[i]
        BY <3>3
      <4> HIDE DEF r
      <4> QED BY <2>1, <3>2, <4>1, <4>2
    <3>4. CASE ~(i <= m)
      <4>1. i = m + 1 /\ i - 1 = m
        BY <2>2, <3>4
      <4>2. r[i] = f[<<i, last>>]
        BY <3>4
      <4>3. last = IF i = 1 THEN s ELSE r[i-1]
        BY <2>2, <3>2, <4>1
      <4> HIDE DEF r, last
      <4> QED BY <4>2, <4>3
    <3> QED BY <3>3, <3>4
  <2> HIDE DEF from, r
  <2> QED BY <2>2, <2>3, <2>4
<1>3. P = Nat
  <2> HIDE DEF P
  <2>1. P \in SUBSET Nat
    BY DEF P
  <2> QED BY <1>1, <1>2, <2>1, SetInduction
<1>4. N \in P
  <2> HIDE DEF P
  <2> QED BY <1>3
<1> HIDE DEF from
<1>5. \E q \in [1 .. N -> S] : from(q, N)
  BY <1>4
<1> QED BY <1>5 DEF from, StepsFrom

\* Of speed curves, on whole units.
CurvePieces == [a : Int, t : Nat \ {0}]
CurveOrigins == [s2 : Int, v : Int, a : Int, t : Nat]

\* The origin of the next piece.
NextOrigin(o, t, a) ==
  [s2 |-> o.s2 + ((o.v + o.a * t) + o.v) * t, v |-> o.v + o.a * t, a |-> a, t |-> o.t + t]

\* Pieces lead from origins to origins.
LEMMA NextIsOrigin ==
  ASSUME NEW o \in CurveOrigins, NEW t \in Nat, NEW a \in Int
  PROVE  NextOrigin(o, t, a) \in CurveOrigins
<1>1. o.s2 \in Int /\ o.v \in Int /\ o.a \in Int /\ o.t \in Nat
  BY DEF CurveOrigins
<1>2. o.a * t \in Int
  BY <1>1
<1> DEFINE w == o.v + o.a * t
<1>3. w \in Int
  BY <1>1, <1>2
<1>4. (w + o.v) * t \in Int
  <2> HIDE DEF w
  <2>1. w + o.v \in Int
    BY <1>1, <1>3
  <2> QED BY <2>1
<1>5. o.s2 + (w + o.v) * t \in Int
  <2> HIDE DEF w
  <2> QED BY <1>1, <1>4
<1>6. o.t + t \in Nat
  BY <1>1
<1> QED BY <1>3, <1>5, <1>6 DEF NextOrigin, CurveOrigins

\* The recursion of Init: the first origin is the start, each other one comes of the
\* piece before it.
LEMMA OriginsAre ==
  ASSUME NEW v \in Int, NEW pieces \in Seq(CurvePieces), pieces # <<>>
  PROVE  /\ Origins(v, pieces) \in [1 .. Len(pieces) -> CurveOrigins]
         /\ Origins(v, pieces)[1] = [s2 |-> 0, v |-> v, a |-> pieces[1].a, t |-> 0]
         /\ \A i \in 2 .. Len(pieces) :
              Origins(v, pieces)[i] = NextOrigin(Origins(v, pieces)[i-1], pieces[i-1].t, pieces[i].a)
<1> DEFINE n == Len(pieces)
           s == [s2 |-> 0, v |-> v, a |-> pieces[1].a, t |-> 0]
           step(i, o) == IF i = 1 THEN s ELSE NextOrigin(o, pieces[i-1].t, pieces[i].a)
           f == [x \in Nat \X CurveOrigins |-> IF x[1] \in 1 .. n THEN step(x[1], x[2]) ELSE s]
<1>1. n \in Nat /\ 1 \in 1 .. n
  OBVIOUS
<1>2. \A i \in 1 .. n : pieces[i].a \in Int /\ pieces[i].t \in Nat
  <2>1. \A i \in 1 .. n : pieces[i] \in CurvePieces
    OBVIOUS
  <2> HIDE DEF n
  <2> QED BY <2>1 DEF CurvePieces
<1>3. s \in CurveOrigins
  BY <1>1, <1>2 DEF CurveOrigins
<1> HIDE DEF n, s
<1>4. f \in [Nat \X CurveOrigins -> CurveOrigins]
  <2> SUFFICES ASSUME NEW i \in Nat, NEW o \in CurveOrigins, i \in 1 .. n, i # 1
               PROVE  NextOrigin(o, pieces[i-1].t, pieces[i].a) \in CurveOrigins
    BY <1>3
  <2>1. i - 1 \in 1 .. n
    BY <1>1
  <2> QED BY <1>2, <2>1, NextIsOrigin
<1>5. PICK q \in [1 .. n -> CurveOrigins] : StepsFrom(q, f, s, n)
  <2> HIDE DEF f
  <2> QED BY <1>1, <1>3, <1>4, StepsExist
<1>6. ASSUME NEW i \in 1 .. n
      PROVE  q[i] = step(i, q[i-1])
  <2>1. i \in Nat /\ (i = 1 \/ i - 1 \in 1 .. n)
    BY <1>1
  <2>2. (IF i = 1 THEN s ELSE q[i-1]) \in CurveOrigins
    BY <1>3, <2>1
  <2>3. f[<<i, IF i = 1 THEN s ELSE q[i-1]>>] = step(i, IF i = 1 THEN s ELSE q[i-1])
    BY <2>1, <2>2
  <2> HIDE DEF f
  <2>4. i = 1 \/ (IF i = 1 THEN s ELSE q[i-1]) = q[i-1]
    OBVIOUS
  <2> QED BY <1>5, <2>3, <2>4 DEF StepsFrom
<1> DEFINE body(g) == [i \in 1 .. n |-> step(i, g[i-1])]
<1>7. q = body(q)
  BY <1>6
<1> DEFINE origin == CHOOSE g : g = body(g)
<1>8. origin = body(origin)
  <2> HIDE DEF body
  <2> QED BY <1>7
<1>9. Origins(v, pieces) = origin
  BY DEF Origins, NextOrigin, n, s
<1> HIDE DEF origin
<1>10. ASSUME NEW i \in 1 .. n
       PROVE  origin[i] = step(i, origin[i-1])
  <2> HIDE DEF step
  <2> QED BY <1>8
<1>11. origin = [i \in 1 .. n |-> origin[i]]
  <2> HIDE DEF step
  <2> QED BY <1>8
<1> DEFINE P == {m \in Nat : m \in 1 .. n => origin[m] = q[m]}
<1>12. 0 \in P
  OBVIOUS
<1>13. ASSUME NEW m \in P PROVE m + 1 \in P
  <2>1. CASE m + 1 \in 1 .. n
    <3>1. m + 1 = 1 \/ m \in 1 .. n
      BY <1>1, <2>1
    <3>2. origin[m + 1] = step(m + 1, origin[m])
      <4>1. (m + 1) - 1 = m
        OBVIOUS
      <4> HIDE DEF step
      <4> QED BY <1>10, <2>1, <4>1
    <3>3. q[m + 1] = step(m + 1, q[m])
      <4>1. (m + 1) - 1 = m
        OBVIOUS
      <4> HIDE DEF step
      <4> QED BY <1>6, <2>1, <4>1
    <3> QED BY <3>1, <3>2, <3>3
  <2> QED BY <2>1
<1>14. P = Nat
  <2> HIDE DEF P
  <2>1. P \in SUBSET Nat
    BY DEF P
  <2> QED BY <1>12, <1>13, <2>1, SetInduction
<1>15. \A i \in 1 .. n : origin[i] = q[i]
  <2> HIDE DEF P
  <2>1. \A i \in 1 .. n : i \in P
    BY <1>14
  <2> QED BY <2>1 DEF P
<1>16. origin = q
  <2> HIDE DEF step
  <2> QED BY <1>11, <1>15
<1>17. q[1] = s
  BY <1>1, <1>6
<1>18. \A i \in 2 .. n : q[i] = NextOrigin(q[i-1], pieces[i-1].t, pieces[i].a)
  <2> SUFFICES ASSUME NEW i \in 2 .. n PROVE q[i] = NextOrigin(q[i-1], pieces[i-1].t, pieces[i].a)
    OBVIOUS
  <2>1. i \in 1 .. n /\ i # 1
    BY <1>1
  <2> QED BY <1>6, <2>1
<1> QED BY <1>9, <1>16, <1>17, <1>18 DEF n, s

\* The origins of a curve, and its end after them.
Node(c, i) ==
  IF i <= Len(c.origins) THEN c.origins[i]
  ELSE [s2 |-> c.end_s2, v |-> c.end_v, a |-> 0, t |-> c.total_t]

\* A piece meets the next one, not before a step has passed.
Meet(o, next, unit) ==
  next.t >= o.t + unit /\ next.s2 = Way(next.t - o.t, o) /\ next.v = Speed(next.t - o.t, o)

\* A curve whose pieces meet.
Joined(c, unit) ==
  /\ c.origins \in Seq(CurveOrigins) /\ Len(c.origins) \in Nat \ {0}
  /\ \A i \in 1 .. Len(c.origins) + 1 : Node(c, i) \in CurveOrigins
  /\ Node(c, 1).t = 0
  /\ \A i \in 1 .. Len(c.origins) : Meet(Node(c, i), Node(c, i + 1), unit)

\* The way of Init is the one EvaluateFast computes.
LEMMA NextMeets ==
  ASSUME NEW o \in CurveOrigins, NEW t \in Nat, NEW a \in Int, NEW unit \in Nat, unit <= t
  PROVE  Meet(o, NextOrigin(o, t, a), unit)
<1>1. o.s2 \in Int /\ o.v \in Int /\ o.a \in Int /\ o.t \in Nat
  BY DEF CurveOrigins
<1>2. (o.t + t) - o.t = t
  BY <1>1
<1> DEFINE p == o.a * t
<1>3. p \in Int
  BY <1>1
<1>4. (p + 2 * o.v) * t = ((o.v + p) + o.v) * t
  <2> HIDE DEF p
  <2>1. p + 2 * o.v = (o.v + p) + o.v
    BY <1>1, <1>3
  <2> QED BY <2>1
<1>5. (p + 2 * o.v) * t \in Int
  <2> HIDE DEF p
  <2>1. p + 2 * o.v \in Int
    BY <1>1, <1>3
  <2> QED BY <2>1
<1>6. (p + 2 * o.v) * t + o.s2 = o.s2 + ((o.v + p) + o.v) * t
  <2> DEFINE w == (p + 2 * o.v) * t
  <2>1. w \in Int /\ w = ((o.v + p) + o.v) * t
    BY <1>4, <1>5
  <2> HIDE DEF w
  <2>2. w + o.s2 = o.s2 + w
    BY <1>1, <2>1
  <2> QED BY <2>1, <2>2 DEF w
<1>7. p + o.v = o.v + p
  <2> HIDE DEF p
  <2> QED BY <1>1, <1>3
<1>8. o.t + t >= o.t + unit
  BY <1>1
<1>9. Way(t, o) = (p + 2 * o.v) * t + o.s2 /\ Speed(t, o) = p + o.v
  BY DEF Way, Speed
<1>10. NextOrigin(o, t, a).t = o.t + t
       /\ NextOrigin(o, t, a).s2 = o.s2 + ((o.v + p) + o.v) * t
       /\ NextOrigin(o, t, a).v = o.v + p
  BY DEF NextOrigin
<1> HIDE DEF p
<1> QED BY <1>2, <1>6, <1>7, <1>8, <1>9, <1>10 DEF Meet

\* The pieces of a curve meet, the last one the end of the curve.
LEMMA CurveIsJoined ==
  ASSUME NEW v \in Int, NEW pieces \in Seq(CurvePieces), pieces # <<>>,
         NEW unit \in Nat \ {0}, \A i \in DOMAIN pieces : unit <= pieces[i].t
  PROVE  Joined(Curve(v, pieces), unit)
<1> DEFINE n == Len(pieces)
           k == Origins(v, pieces)
           c == Curve(v, pieces)
           end == NextOrigin(k[n], pieces[n].t, 0)
<1>1. n \in Nat \ {0} /\ n \in 1 .. n /\ 1 \in 1 .. n /\ DOMAIN pieces = 1 .. n
  OBVIOUS
<1>2. k \in [1 .. n -> CurveOrigins] /\ k[1].t = 0
  <2>1. k \in [1 .. n -> CurveOrigins]
    BY OriginsAre
  <2>2. k[1] = [s2 |-> 0, v |-> v, a |-> pieces[1].a, t |-> 0]
    BY OriginsAre
  <2> QED BY <2>1, <2>2
<1>3. \A i \in 2 .. n : k[i] = NextOrigin(k[i-1], pieces[i-1].t, pieces[i].a)
  BY OriginsAre
<1>4. c.origins = k /\ c.end_s2 = end.s2 /\ c.end_v = end.v /\ c.total_t = end.t
  BY DEF Curve, NextOrigin
<1>5. end.a = 0 /\ end = [s2 |-> end.s2, v |-> end.v, a |-> 0, t |-> end.t]
  BY DEF NextOrigin
<1> HIDE DEF n, k, c, end
<1>6. Len(c.origins) = n
  BY <1>1, <1>2, <1>4
<1>7. \A i \in 1 .. n : Node(c, i) = k[i]
  BY <1>1, <1>4, <1>6 DEF Node
<1>8. Node(c, n + 1) = end
  BY <1>1, <1>4, <1>5, <1>6 DEF Node
<1>9. \A i \in 1 .. n : pieces[i].a \in Int /\ pieces[i].t \in Nat /\ unit <= pieces[i].t
  <2>1. \A i \in 1 .. n : pieces[i] \in CurvePieces
    BY <1>1
  <2> QED BY <1>1, <2>1 DEF CurvePieces
<1>10. end \in CurveOrigins
  BY <1>1, <1>2, <1>9, NextIsOrigin DEF end
<1>11. \A i \in 1 .. n + 1 : Node(c, i) \in CurveOrigins
  BY <1>1, <1>2, <1>7, <1>8, <1>10
<1>12. ASSUME NEW i \in 1 .. n
       PROVE  Meet(Node(c, i), Node(c, i + 1), unit)
  <2>1. CASE i = n
    BY <1>1, <1>2, <1>7, <1>8, <1>9, <2>1, NextMeets DEF end
  <2>2. CASE i # n
    <3>1. i + 1 \in 2 .. n /\ i + 1 \in 1 .. n /\ (i + 1) - 1 = i
      BY <1>1, <2>2
    <3>2. k[i + 1] = NextOrigin(k[i], pieces[i].t, pieces[i + 1].a)
      BY <1>3, <3>1
    <3>3. k[i] \in CurveOrigins /\ pieces[i].t \in Nat /\ pieces[i + 1].a \in Int /\ unit <= pieces[i].t
      BY <1>2, <1>9, <3>1
    <3> QED BY <1>7, <3>1, <3>2, <3>3, NextMeets
  <2> QED BY <2>1, <2>2
<1>13. c.origins \in Seq(CurveOrigins)
  BY <1>1, <1>2, <1>4
<1> QED BY <1>1, <1>2, <1>6, <1>7, <1>11, <1>12, <1>13 DEF Joined, c

\* The nodes of a curve are a step apart at least.
LEMMA TimesGrow ==
  ASSUME NEW c, NEW unit \in Nat \ {0}, Joined(c, unit),
         NEW i \in 1 .. Len(c.origins) + 1, NEW j \in 1 .. Len(c.origins) + 1, i < j
  PROVE  Node(c, i).t + unit <= Node(c, j).t
<1> DEFINE n == Len(c.origins)
           T(m) == Node(c, m).t
           P == {m \in Nat : i + 1 + m <= n + 1 => T(i) + unit <= T(i + 1 + m)}
<1>1. n \in Nat \ {0}
  BY DEF Joined
<1>2. \A m \in 1 .. n + 1 : T(m) \in Nat
  <2>1. \A m \in 1 .. n + 1 : Node(c, m) \in CurveOrigins
    BY DEF Joined
  <2> QED BY <2>1 DEF CurveOrigins
<1>3. \A m \in 1 .. n : T(m) + unit <= T(m + 1)
  <2>1. \A m \in 1 .. n : Meet(Node(c, m), Node(c, m + 1), unit)
    BY DEF Joined
  <2>2. \A m \in 1 .. n : m \in 1 .. n + 1 /\ m + 1 \in 1 .. n + 1
    BY <1>1
  <2>3. \A m \in 1 .. n : T(m + 1) >= T(m) + unit
    BY <2>1 DEF Meet
  <2> HIDE DEF T, n
  <2> QED BY <1>2, <2>2, <2>3
<1> HIDE DEF n, T
<1>4. 0 \in P
  <2>1. i + 1 <= n + 1 => i \in 1 .. n
    BY <1>1 DEF n
  <2>2. i + 1 + 0 = i + 1
    OBVIOUS
  <2> QED BY <1>3, <2>1, <2>2
<1>5. ASSUME NEW m \in P PROVE m + 1 \in P
  <2> SUFFICES ASSUME i + 1 + (m + 1) <= n + 1 PROVE T(i) + unit <= T(i + 1 + (m + 1))
    OBVIOUS
  <2> DEFINE l == i + 1 + m
  <2>1. l \in 1 .. n /\ l + 1 \in 1 .. n + 1 /\ l <= n + 1 /\ i + 1 + (m + 1) = l + 1 /\ i \in 1 .. n + 1 /\ l \in 1 .. n + 1
    BY <1>1 DEF n
  <2>2. T(i) + unit <= T(l)
    BY <2>1
  <2> HIDE DEF l
  <2>3. T(i) + unit <= T(l + 1)
    BY <1>2, <1>3, <2>1, <2>2
  <2> QED BY <2>1, <2>3
<1>6. P = Nat
  <2> HIDE DEF P
  <2>1. P \in SUBSET Nat
    BY DEF P
  <2> QED BY <1>4, <1>5, <2>1, SetInduction
<1>7. j - i - 1 \in Nat /\ i + 1 + (j - i - 1) = j /\ j <= n + 1
  BY <1>1 DEF n
<1>8. j - i - 1 \in P
  <2> HIDE DEF P
  <2> QED BY <1>6, <1>7
<1> QED BY <1>7, <1>8 DEF T

\* A time in a piece.
Within(c, i, t) == Node(c, i).t <= t /\ t <= Node(c, i + 1).t

\* Which piece a time lies in, decides where the curve is then.
LEMMA AtIs ==
  ASSUME NEW c, NEW unit \in Nat \ {0}, Joined(c, unit),
         NEW i \in 1 .. Len(c.origins), NEW t \in Nat, Within(c, i, t)
  PROVE  At(c, t) = StateAt(Node(c, i), t)
<1> DEFINE n == Len(c.origins)
           begun == {m \in 1 .. n : c.origins[m].t <= t}
           last == CHOOSE m \in begun : \A l \in begun : l <= m
<1>1. n \in Nat \ {0} /\ i \in 1 .. n + 1 /\ i + 1 \in 1 .. n + 1
  BY DEF Joined
<1>2. \A m \in 1 .. n : c.origins[m] = Node(c, m) /\ m \in 1 .. n + 1
  BY <1>1 DEF Node
<1>3. At(c, t) = StateAt(Node(c, last), t) \/ last \notin 1 .. n
  <2> HIDE DEF last
  <2>1. SUFFICES ASSUME last \in 1 .. n PROVE At(c, t) = StateAt(Node(c, last), t)
    OBVIOUS
  <2>2. c.origins[last] = Node(c, last)
    BY <1>2, <2>1
  <2> QED BY <2>2 DEF At, StateAt, last
<1>4. \A m \in 1 .. n + 1 : Node(c, m).t \in Nat
  <2>1. \A m \in 1 .. n + 1 : Node(c, m) \in CurveOrigins
    BY DEF Joined
  <2> QED BY <2>1 DEF CurveOrigins
<1> HIDE DEF n
<1>5. i \in begun
  BY <1>2 DEF Within, n
<1>6. \A m \in begun : m <= i + 1 /\ (m = i + 1 => t = Node(c, i + 1).t)
  <2> SUFFICES ASSUME NEW m \in begun PROVE m <= i + 1 /\ (m = i + 1 => t = Node(c, i + 1).t)
    OBVIOUS
  <2>1. m \in 1 .. n + 1 /\ Node(c, m).t <= t /\ t <= Node(c, i + 1).t /\ m \in 1 .. n
    BY <1>2 DEF Within, n
  <2>2. Node(c, m).t \in Nat /\ Node(c, i + 1).t \in Nat
    BY <1>1, <1>4, <2>1
  <2>3. m > i + 1 => FALSE
    <3>1. m > i + 1 => Node(c, i + 1).t + unit <= Node(c, m).t
      BY <1>1, <2>1, TimesGrow DEF n
    <3> QED BY <2>1, <2>2, <3>1
  <2>4. m \in Int /\ i \in Int
    BY <1>1
  <2>5. m <= i + 1
    BY <2>3, <2>4
  <2>6. m = i + 1 => t = Node(c, i + 1).t
    BY <2>1, <2>2
  <2> QED BY <2>5, <2>6
<1>7. CASE i + 1 \in begun
  <2>1. last = i + 1
    <3> HIDE DEF begun
    <3>1. begun \subseteq Int
      BY DEF begun
    <3>2. \A m \in begun : m <= i + 1
      BY <1>6
    <3>3. \A m \in begun : (\A l \in begun : l <= m) => m = i + 1
      BY <1>7, <3>1, <3>2
    <3>4. last \in begun /\ \A l \in begun : l <= last
      BY <1>7, <3>2
    <3> QED BY <3>3, <3>4
  <2>2. t = Node(c, i + 1).t /\ i + 1 \in 1 .. n
    BY <1>6, <1>7
  <2>3. At(c, t) = StateAt(Node(c, i + 1), t)
    BY <1>3, <2>1, <2>2
  <2>4. Meet(Node(c, i), Node(c, i + 1), unit)
    BY DEF Joined
  <2> DEFINE o == Node(c, i + 1)
  <2>5. o.s2 \in Int /\ o.v \in Int /\ o.a \in Int /\ o.t \in Nat
    <3>1. o \in CurveOrigins
      BY <1>1 DEF Joined, n
    <3> QED BY <3>1 DEF CurveOrigins
  <2>6. Way(t - o.t, o) = o.s2 /\ Speed(t - o.t, o) = o.v
    <3> HIDE DEF o
    <3>1. t - o.t = 0
      BY <2>2, <2>5 DEF o
    <3>2. (o.a * 0 + 2 * o.v) * 0 + o.s2 = o.s2 /\ o.a * 0 + o.v = o.v
      BY <2>5
    <3> QED BY <3>1, <3>2 DEF Way, Speed
  <2>7. o.s2 = Way(t - Node(c, i).t, Node(c, i)) /\ o.v = Speed(t - Node(c, i).t, Node(c, i))
    BY <2>2, <2>4 DEF Meet
  <2> HIDE DEF o
  <2>8. StateAt(o, t) = StateAt(Node(c, i), t)
    BY <2>6, <2>7 DEF StateAt
  <2> QED BY <2>3, <2>8 DEF o
<1>8. CASE i + 1 \notin begun
  <2>1. last = i
    <3> HIDE DEF begun
    <3>1. begun \subseteq Int /\ i \in Int
      BY DEF begun
    <3>2. \A m \in begun : m <= i
      BY <1>6, <1>8, <3>1
    <3>3. \A m \in begun : (\A l \in begun : l <= m) => m = i
      BY <1>5, <3>1, <3>2
    <3>4. last \in begun /\ \A l \in begun : l <= last
      BY <1>5, <3>2
    <3> QED BY <3>3, <3>4
  <2> HIDE DEF last
  <2> QED BY <1>3, <2>1 DEF n
<1> QED BY <1>7, <1>8

\* In whole numbers: a piece with speeds not below 0 at both ends has none below 0 in
\* between.
LEMMA SpeedInPiece ==
  ASSUME NEW a \in Int, NEW v \in Nat, NEW d \in Nat, a * d + v >= 0, NEW x \in 0 .. d
  PROVE  a * x + v >= 0
<1>1. CASE a >= 0
  <2>1. a * x >= 0
    BY <1>1
  <2> QED BY <2>1
<1>2. CASE a < 0
  <2>1. a * x >= a * d
    BY <1>2
  <2>2. a * x \in Int /\ a * d \in Int
    OBVIOUS
  <2> QED BY <2>1, <2>2
<1> QED BY <1>1, <1>2

\* In whole numbers: between two times of a piece with speeds not below 0, the way
\* grows.
LEMMA WayInPiece ==
  ASSUME NEW a \in Int, NEW v \in Nat, NEW x \in Int, NEW y \in Int, x <= y,
         a * x + v >= 0, a * y + v >= 0
  PROVE  (a * x + 2 * v) * x <= (a * y + 2 * v) * y
<1> DEFINE u == a * x + v
           w == a * y + v
           z == y - x
<1>1. u \in Nat /\ w \in Nat /\ z \in Nat
  OBVIOUS
<1>2. (u + w) * z \in Nat
  <2> HIDE DEF u, w, z
  <2>1. u + w \in Nat
    BY <1>1
  <2> DEFINE k == u + w
  <2>2. k \in Nat
    BY <2>1
  <2> HIDE DEF k
  <2>3. k * z \in Nat
    BY <1>1, <2>2
  <2> QED BY <2>3 DEF k
<1>3. (u + w) * z = (a * y + 2 * v) * y - (a * x + 2 * v) * x
  OBVIOUS
<1>4. (a * y + 2 * v) * y \in Int /\ (a * x + 2 * v) * x \in Int
  OBVIOUS
<1> DEFINE far == (a * y + 2 * v) * y
           near == (a * x + 2 * v) * x
<1> HIDE DEF far, near, u, w, z
<1>5. far - near \in Nat /\ far \in Int /\ near \in Int
  BY <1>2, <1>3, <1>4 DEF far, near
<1>6. near <= far
  BY <1>5
<1> QED BY <1>6 DEF far, near

\* The last whole step before an end.
LEMMA StepsBefore ==
  ASSUME NEW total \in Nat, NEW unit \in Nat \ {0}
  PROVE  /\ total \div unit \in Nat
         /\ (total \div unit) * unit <= total
         /\ total < (total \div unit) * unit + unit
<1> DEFINE q == total \div unit
           r == total % unit
<1>1. total = unit * q + r /\ q \in Int /\ r \in 0 .. unit - 1
  OBVIOUS
<1> HIDE DEF q, r
<1> DEFINE p == unit * q
<1>2. p \in Int /\ p = q * unit
  BY <1>1
<1>3. q < 0 => p <= 0 - unit
  BY <1>1
<1>4. q >= 0
  <2> HIDE DEF p
  <2>1. total = p + r
    BY <1>1 DEF p
  <2> QED BY <1>1, <1>2, <1>3, <2>1
<1>5. p <= total /\ total < p + unit
  <2>1. total = p + r
    BY <1>1
  <2> HIDE DEF p
  <2> QED BY <1>1, <1>2, <2>1
<1> HIDE DEF p
<1> QED BY <1>1, <1>2, <1>4, <1>5 DEF q

\* In whole numbers: more steps take longer.
LEMMA StepsGrow ==
  ASSUME NEW i \in Nat, NEW j \in Nat, i <= j, NEW unit \in Nat
  PROVE  i * unit <= j * unit
OBVIOUS

\* In whole numbers: one step more.
LEMMA NextStep ==
  ASSUME NEW i \in Nat, NEW unit \in Nat
  PROVE  (i + 1) * unit = i * unit + unit
OBVIOUS

-----------------------------------------------------------------------------
(* How Discrete goes from piece to piece *)

\* How many whole steps a curve takes.
Whole(c, unit) == c.total_t \div unit + 1

\* The piece of a knot, after that of the last one.
PieceStep(c, unit, i, last) ==
  IF last < Len(c.origins) /\ c.origins[last + 1].t < (i - 1) * unit THEN last + 1 ELSE last

PieceSteps(c, unit, g) ==
  [i \in 1 .. Whole(c, unit) |-> PieceStep(c, unit, i, IF i = 1 THEN 1 ELSE g[i-1])]

PieceOf(c, unit) == CHOOSE g : g = PieceSteps(c, unit, g)

\* A knot of Discrete, before its order has been checked.
KnotOf(c, unit, i) == StateAt(c.origins[PieceOf(c, unit)[i]], (i - 1) * unit)

\* Discrete in terms of the pieces it goes through.
LEMMA DiscreteIs ==
  ASSUME NEW c, NEW unit
  PROVE  Discrete(c, unit) =
           LET m == Whole(c, unit)
               knot == [i \in 1 .. m |-> KnotOf(c, unit, i)]
               short == knot[m].t < c.total_t /\ knot[m].s2 < c.end_s2
           IN IF \E i \in 2 .. m : knot[i-1].s2 > knot[i].s2 THEN <<>>
              ELSE IF short
              THEN Append(knot, [t |-> c.total_t, s2 |-> c.end_s2, v |-> c.end_v])
              ELSE knot
BY DEF Discrete, KnotOf, PieceOf, PieceSteps, PieceStep, Whole, StateAt

\* The recursion of Discrete over its pieces has a solution.
LEMMA PiecesExist ==
  ASSUME NEW c, NEW unit \in Nat, Whole(c, unit) \in Nat
  PROVE  PieceOf(c, unit) = PieceSteps(c, unit, PieceOf(c, unit))
<1> DEFINE m == Whole(c, unit)
           f == [x \in Nat \X Nat |-> PieceStep(c, unit, x[1], x[2])]
<1>1. f \in [Nat \X Nat -> Nat]
  BY DEF PieceStep
<1> HIDE DEF m
<1>2. PICK q \in [1 .. m -> Nat] : StepsFrom(q, f, 1, m)
  <2> HIDE DEF f
  <2>1. 1 \in Nat
    OBVIOUS
  <2> QED BY <1>1, <2>1, StepsExist DEF m
<1>3. ASSUME NEW i \in 1 .. m
      PROVE  q[i] = PieceStep(c, unit, i, IF i = 1 THEN 1 ELSE q[i-1])
  <2>1. i \in Nat /\ (i = 1 \/ i - 1 \in 1 .. m)
    BY DEF m
  <2> DEFINE last == IF i = 1 THEN 1 ELSE q[i-1]
  <2>2. last \in Nat
    BY <2>1
  <2>3. q[i] = f[<<i, last>>]
    <3> HIDE DEF f
    <3> QED BY <1>2 DEF StepsFrom
  <2> HIDE DEF last
  <2>4. f[<<i, last>>] = PieceStep(c, unit, i, last)
    BY <2>1, <2>2
  <2> QED BY <2>3, <2>4 DEF last
<1>4. q = PieceSteps(c, unit, q)
  BY <1>3 DEF PieceSteps, m
<1> QED BY <1>4 DEF PieceOf

\* The times of the knots are those of the curve; the last whole one is less than a
\* step before its end.
LEMMA WholeSteps ==
  ASSUME NEW c, NEW unit \in Nat \ {0}, Joined(c, unit)
  PROVE  /\ Whole(c, unit) \in Nat \ {0} /\ c.total_t \in Nat
         /\ Node(c, Len(c.origins) + 1) = [s2 |-> c.end_s2, v |-> c.end_v, a |-> 0, t |-> c.total_t]
         /\ \A i \in 1 .. Whole(c, unit) : (i - 1) * unit \in Nat /\ (i - 1) * unit <= c.total_t
         /\ c.total_t < (Whole(c, unit) - 1) * unit + unit
<1> DEFINE n == Len(c.origins)
           m == Whole(c, unit)
           T(l) == (l - 1) * unit
<1>1. n \in Nat \ {0}
  BY DEF Joined
<1>2. Node(c, n + 1) = [s2 |-> c.end_s2, v |-> c.end_v, a |-> 0, t |-> c.total_t]
  BY <1>1 DEF Node
<1>3. c.total_t \in Nat
  <2>1. n + 1 \in 1 .. n + 1
    BY <1>1
  <2>2. Node(c, n + 1) \in CurveOrigins
    BY <2>1 DEF Joined
  <2> QED BY <1>2, <2>2 DEF CurveOrigins
<1>4. m - 1 = c.total_t \div unit /\ m \in Nat \ {0} /\ m - 1 \in Nat
  <2>1. c.total_t \div unit \in Nat
    BY <1>3, StepsBefore
  <2> QED BY <2>1 DEF Whole
<1>5. T(m) <= c.total_t /\ c.total_t < T(m) + unit
  BY <1>3, <1>4, StepsBefore
<1>6. ASSUME NEW l \in 1 .. m PROVE T(l) \in Nat /\ T(l) <= c.total_t
  <2> HIDE DEF m
  <2>1. l - 1 \in Nat /\ m - 1 \in Nat /\ l - 1 <= m - 1
    BY <1>4
  <2>2. (l - 1) * unit <= (m - 1) * unit
    BY <2>1, StepsGrow
  <2>3. T(l) \in Nat /\ T(m) \in Int
    BY <2>1
  <2>4. T(l) <= T(m)
    BY <2>2
  <2> HIDE DEF T
  <2> QED BY <1>3, <1>5, <2>3, <2>4
<1> QED BY <1>2, <1>3, <1>4, <1>5, <1>6

\* Each piece comes of the last one.
LEMMA NextPiece ==
  ASSUME NEW c, NEW unit \in Nat \ {0}, Joined(c, unit), NEW i \in 1 .. Whole(c, unit)
  PROVE  PieceOf(c, unit)[i] = PieceStep(c, unit, i, IF i = 1 THEN 1 ELSE PieceOf(c, unit)[i-1])
<1> DEFINE p == PieceOf(c, unit)
<1>1. Whole(c, unit) \in Nat
  BY WholeSteps
<1>2. p = PieceSteps(c, unit, p)
  BY <1>1, PiecesExist
<1> HIDE DEF p
<1> QED BY <1>2 DEF PieceSteps, p

\* Discrete is never more than one piece behind, so its piece holds its time.
LEMMA PiecesHoldTimes ==
  ASSUME NEW c, NEW unit \in Nat \ {0}, Joined(c, unit), NEW i \in 1 .. Whole(c, unit)
  PROVE  /\ PieceOf(c, unit)[i] \in 1 .. Len(c.origins)
         /\ Within(c, PieceOf(c, unit)[i], (i - 1) * unit)
<1> DEFINE n == Len(c.origins)
           m == Whole(c, unit)
           p == PieceOf(c, unit)
           T(l) == (l - 1) * unit
           good(l) == p[l] \in 1 .. n /\ Within(c, p[l], T(l))
           P == {l \in Nat : l + 1 \in 1 .. m => good(l + 1)}
<1>1. n \in Nat \ {0}
  BY DEF Joined
<1>2. \A l \in 1 .. n + 1 : Node(c, l).t \in Nat
  <2>1. \A l \in 1 .. n + 1 : Node(c, l) \in CurveOrigins
    BY DEF Joined
  <2> QED BY <2>1 DEF CurveOrigins
<1>3. \A l \in 1 .. n : c.origins[l] = Node(c, l)
  BY <1>1 DEF Node
<1>4. /\ Node(c, n + 1).t = c.total_t /\ c.total_t \in Nat /\ m \in Nat
      /\ \A l \in 1 .. m : T(l) \in Nat /\ T(l) <= c.total_t
  <2>1. Node(c, n + 1) = [s2 |-> c.end_s2, v |-> c.end_v, a |-> 0, t |-> c.total_t]
    BY WholeSteps
  <2>2. \A l \in 1 .. m : T(l) \in Nat /\ T(l) <= c.total_t
    BY WholeSteps
  <2>3. m \in Nat /\ c.total_t \in Nat
    BY WholeSteps
  <2> QED BY <2>1, <2>2, <2>3
<1>5. \A l \in 1 .. m : p[l] = PieceStep(c, unit, l, IF l = 1 THEN 1 ELSE p[l-1])
  BY NextPiece
<1> HIDE DEF m, p, n
<1>6. Node(c, 1).t = 0 /\ \A l \in 1 .. n : Node(c, l).t + unit <= Node(c, l + 1).t
  <2>1. ASSUME NEW l \in 1 .. n PROVE Node(c, l).t + unit <= Node(c, l + 1).t
    <3>1. l \in 1 .. n + 1 /\ l + 1 \in 1 .. n + 1 /\ l < l + 1
      BY <1>1
    <3> QED BY <3>1, TimesGrow DEF n
  <2> QED BY <2>1 DEF Joined
<1>7. 0 \in P
  <2> SUFFICES ASSUME 1 \in 1 .. m PROVE good(1)
    OBVIOUS
  <2>1. T(1) = 0
    OBVIOUS
  <2>2. p[1] = PieceStep(c, unit, 1, 1)
    BY <1>5
  <2>3. 1 < n => c.origins[1 + 1].t \in Nat
    <3>1. 1 < n => 1 + 1 \in 1 .. n /\ 1 + 1 \in 1 .. n + 1
      BY <1>1
    <3> QED BY <1>2, <1>3, <3>1
  <2>4. p[1] = 1
    <3>1. PieceStep(c, unit, 1, 1) =
            IF 1 < n /\ c.origins[1 + 1].t < T(1) THEN 1 + 1 ELSE 1
      BY DEF PieceStep, n
    <3> HIDE DEF T
    <3> QED BY <2>1, <2>2, <2>3, <3>1
  <2>5. 1 \in 1 .. n /\ 1 \in 1 .. n + 1 /\ 1 + 1 \in 1 .. n + 1
    BY <1>1
  <2>6. Node(c, 1 + 1).t \in Nat
    BY <1>2, <2>5
  <2>7. 0 <= Node(c, 1 + 1).t
    BY <2>6
  <2> QED BY <1>6, <2>1, <2>4, <2>5, <2>7 DEF Within
<1>8. ASSUME NEW l \in P PROVE l + 1 \in P
  <2> SUFFICES ASSUME (l + 1) + 1 \in 1 .. m PROVE good((l + 1) + 1)
    OBVIOUS
  <2> DEFINE k == (l + 1) + 1
             old == p[l + 1]
  <2>1. k \in 1 .. m /\ l + 1 \in 1 .. m /\ k # 1 /\ k - 1 = l + 1 /\ k \in Nat
    BY <1>4
  <2>2. good(l + 1)
    BY <2>1
  <2>3. T(k) = T(l + 1) + unit
    <3>1. (l + 1) * unit = l * unit + unit
      BY NextStep
    <3>2. k - 1 = l + 1 /\ (l + 1) - 1 = l
      OBVIOUS
    <3> HIDE DEF k
    <3> QED BY <3>1, <3>2
  <2>4. p[k] = PieceStep(c, unit, k, old)
    <3> HIDE DEF k
    <3> QED BY <1>5, <2>1
  <2>5. T(k) \in Nat /\ T(k) <= c.total_t /\ T(l + 1) \in Nat
    <3> HIDE DEF k, T
    <3> QED BY <1>4, <2>1
  <2>6. old \in 1 .. n /\ old \in 1 .. n + 1 /\ old + 1 \in 1 .. n + 1
        /\ Node(c, old).t <= T(l + 1) /\ T(l + 1) <= Node(c, old + 1).t
    <3>1. old \in 1 .. n
      BY <2>2
    <3>2. old \in 1 .. n + 1 /\ old + 1 \in 1 .. n + 1
      BY <1>1, <3>1
    <3>3. Node(c, old).t <= T(l + 1) /\ T(l + 1) <= Node(c, old + 1).t
      BY <2>2 DEF Within
    <3> QED BY <3>1, <3>2, <3>3
  <2>7. Node(c, old).t \in Nat /\ Node(c, old + 1).t \in Nat
    BY <1>2, <2>6
  <2> HIDE DEF T, k, old
  <2>8. CASE old < n /\ Node(c, old + 1).t < T(k)
    <3>1. old + 1 \in 1 .. n /\ (old + 1) + 1 \in 1 .. n + 1
      BY <1>1, <2>6, <2>8
    <3>2. c.origins[old + 1].t = Node(c, old + 1).t
      BY <1>3, <3>1
    <3>3. p[k] = old + 1
      BY <2>4, <2>8, <3>2 DEF PieceStep, n, T
    <3>4. Node(c, old + 1).t + unit <= Node(c, (old + 1) + 1).t
      BY <1>6, <3>1
    <3>5. Node(c, (old + 1) + 1).t \in Nat
      BY <1>2, <3>1
    <3>6. T(k) <= Node(c, (old + 1) + 1).t /\ Node(c, old + 1).t <= T(k)
      BY <2>3, <2>5, <2>6, <2>7, <2>8, <3>4, <3>5
    <3> QED BY <3>1, <3>3, <3>6 DEF Within, k
  <2>9. CASE ~(old < n /\ Node(c, old + 1).t < T(k))
    <3>1. old < n => c.origins[old + 1].t = Node(c, old + 1).t
      <4>1. old < n => old + 1 \in 1 .. n
        BY <1>1, <2>6
      <4> QED BY <1>3, <4>1
    <3>2. p[k] = old
      BY <2>4, <2>9, <3>1 DEF PieceStep, n, T
    <3>3. T(k) <= Node(c, old + 1).t
      <4>1. CASE old < n
        BY <2>5, <2>7, <2>9, <4>1
      <4>2. CASE ~(old < n)
        <5>1. old = n
          BY <1>1, <2>6, <4>2
        <5> QED BY <1>4, <2>5, <5>1
      <4> QED BY <4>1, <4>2
    <3>4. Node(c, old).t <= T(k)
      BY <2>3, <2>5, <2>6, <2>7
    <3> QED BY <2>6, <3>2, <3>3, <3>4 DEF Within, k
  <2> QED BY <2>8, <2>9
<1>9. P = Nat
  <2> HIDE DEF P
  <2>1. P \in SUBSET Nat
    BY DEF P
  <2> QED BY <1>7, <1>8, <2>1, SetInduction
<1>10. i - 1 \in Nat /\ (i - 1) + 1 = i
  BY <1>4 DEF m
<1>11. i - 1 \in P
  <2> HIDE DEF P
  <2> QED BY <1>9, <1>10
<1> QED BY <1>10, <1>11 DEF m, n, p

\* Within a piece the way only grows.
LEMMA PlacesGrow ==
  ASSUME NEW c, NEW unit \in Nat \ {0}, Joined(c, unit), Forward(c),
         NEW i \in 1 .. Len(c.origins), NEW x \in Nat, NEW y \in Nat, x <= y,
         Within(c, i, x), Within(c, i, y)
  PROVE  StateAt(Node(c, i), x).s2 <= StateAt(Node(c, i), y).s2
<1> DEFINE o == Node(c, i)
           next == Node(c, i + 1)
           d == next.t - o.t
           xx == x - o.t
           yy == y - o.t
<1>1. Len(c.origins) \in Nat \ {0} /\ i \in 1 .. Len(c.origins) + 1 /\ i + 1 \in 1 .. Len(c.origins) + 1
  BY DEF Joined
<1>2. o \in CurveOrigins /\ next \in CurveOrigins /\ Meet(o, next, unit)
  BY <1>1 DEF Joined
<1>3. o.v >= 0 /\ next.v >= 0
  <2>1. \A m \in 1 .. Len(c.origins) + 1 : Node(c, m).v >= 0
    <3> SUFFICES ASSUME NEW m \in 1 .. Len(c.origins) + 1 PROVE Node(c, m).v >= 0
      OBVIOUS
    <3>1. m <= Len(c.origins) => m \in DOMAIN c.origins
      <4>1. c.origins \in Seq(CurveOrigins)
        BY DEF Joined
      <4>2. DOMAIN c.origins = 1 .. Len(c.origins)
        BY <4>1
      <4> QED BY <1>1, <4>2
    <3> QED BY <3>1 DEF Forward, Node
  <2> QED BY <1>1, <2>1
<1> HIDE DEF o, next
<1>4. o.s2 \in Int /\ o.v \in Nat /\ o.a \in Int /\ o.t \in Nat /\ next.t \in Nat /\ next.v \in Nat
  BY <1>2, <1>3 DEF CurveOrigins
<1>5. o.t <= x /\ x <= next.t /\ o.t <= y /\ y <= next.t
  BY DEF Within, o, next
<1>6. d \in Nat /\ xx \in 0 .. d /\ yy \in 0 .. d /\ xx <= yy /\ xx \in Int /\ yy \in Int
  BY <1>4, <1>5
<1>7. o.a * d + o.v >= 0
  <2>1. next.v = Speed(d, o)
    BY <1>2 DEF Meet
  <2> HIDE DEF d
  <2>2. Speed(d, o) = o.a * d + o.v
    BY DEF Speed
  <2> QED BY <1>3, <2>1, <2>2
<1> HIDE DEF d, xx, yy
<1>8. o.a * xx + o.v >= 0 /\ o.a * yy + o.v >= 0
  BY <1>4, <1>6, <1>7, SpeedInPiece
<1>9. (o.a * xx + 2 * o.v) * xx <= (o.a * yy + 2 * o.v) * yy
  BY <1>4, <1>6, <1>8, WayInPiece
<1> DEFINE near == (o.a * xx + 2 * o.v) * xx
           far == (o.a * yy + 2 * o.v) * yy
<1>10. near \in Int /\ far \in Int
  <2>1. ASSUME NEW z \in Int PROVE (o.a * z + 2 * o.v) * z \in Int
    <3> DEFINE w == o.a * z
    <3>1. w \in Int
      BY <1>4
    <3> HIDE DEF w
    <3> DEFINE u == w + 2 * o.v
    <3>2. u \in Int
      BY <1>4, <3>1
    <3> HIDE DEF u
    <3>3. u * z \in Int
      BY <3>2
    <3> QED BY <3>3 DEF u, w
  <2> QED BY <1>6, <2>1
<1>11. StateAt(o, x).s2 = near + o.s2 /\ StateAt(o, y).s2 = far + o.s2
  BY DEF StateAt, Way, xx, yy
<1>12. near <= far
  BY <1>9
<1> HIDE DEF near, far
<1>13. near + o.s2 <= far + o.s2
  BY <1>4, <1>10, <1>12
<1> QED BY <1>11, <1>13 DEF o

\* Ways are whole.
LEMMA StateIsWhole ==
  ASSUME NEW o \in CurveOrigins, NEW z \in Nat
  PROVE  StateAt(o, z).s2 \in Int
<1> SUFFICES Way(z - o.t, o) \in Int
  BY DEF StateAt
<1>1. o.s2 \in Int /\ o.v \in Int /\ o.a \in Int /\ o.t \in Nat /\ z - o.t \in Int
  BY DEF CurveOrigins
<1>2. \A a, v, l, s \in Int : (a * l + 2 * v) * l + s \in Int
  OBVIOUS
<1> QED BY <1>1, <1>2 DEF Way

\* The way a curve has made at two times.
LEMMA CurvesGrow ==
  ASSUME NEW c, NEW unit \in Nat \ {0}, Joined(c, unit), Forward(c),
         NEW i \in 1 .. Len(c.origins), NEW j \in 1 .. Len(c.origins), j \in {i, i + 1},
         NEW x \in Nat, NEW y \in Nat, x <= y, Within(c, i, x), Within(c, j, y)
  PROVE  StateAt(Node(c, i), x).s2 <= StateAt(Node(c, j), y).s2
<1>1. CASE j = i
  BY <1>1, PlacesGrow
<1>2. CASE j = i + 1
  <2> DEFINE t == Node(c, i + 1).t
             here == Node(c, i)
             next == Node(c, i + 1)
  <2>1. i + 1 \in 1 .. Len(c.origins) + 1 /\ i \in 1 .. Len(c.origins) + 1
    BY <1>2 DEF Joined
  <2>2. here \in CurveOrigins /\ next \in CurveOrigins
    BY <2>1 DEF Joined
  <2>3. t \in Nat /\ here.t \in Nat
    BY <2>2 DEF CurveOrigins
  <2>4. x <= t /\ t <= y /\ here.t <= x
    BY <1>2 DEF Within
  <2>5. Within(c, i, t) /\ Within(c, j, t)
    <3>1. here.t <= t
      <4> HIDE DEF t
      <4>1. here.t \in Nat /\ x \in Nat
        BY <2>3
      <4> QED BY <2>3, <2>4, <4>1
    <3>2. y <= Node(c, j + 1).t
      BY DEF Within
    <3>3. Node(c, j + 1).t \in Nat
      <4>1. j + 1 \in 1 .. Len(c.origins) + 1
        BY DEF Joined
      <4>2. Node(c, j + 1) \in CurveOrigins
        BY <4>1 DEF Joined
      <4> QED BY <4>2 DEF CurveOrigins
    <3>4. t <= Node(c, j + 1).t
      <4> HIDE DEF t
      <4> QED BY <2>3, <2>4, <3>2, <3>3
    <3>5. t <= t
      BY <2>3
    <3> QED BY <1>2, <3>1, <3>4, <3>5 DEF Within
  <2>6. StateAt(here, t) = StateAt(next, t)
    <3>1. At(c, t) = StateAt(Node(c, i), t)
      BY <2>3, <2>5, AtIs
    <3>2. At(c, t) = StateAt(Node(c, j), t)
      BY <2>3, <2>5, AtIs
    <3> QED BY <1>2, <3>1, <3>2
  <2>7. StateAt(here, x).s2 <= StateAt(here, t).s2
    BY <2>3, <2>4, <2>5, PlacesGrow
  <2>8. StateAt(next, t).s2 <= StateAt(next, y).s2
    BY <1>2, <2>3, <2>4, <2>5, PlacesGrow
  <2> DEFINE one == StateAt(here, x).s2
             two == StateAt(here, t).s2
             three == StateAt(next, y).s2
  <2>9. one \in Int /\ two \in Int /\ three \in Int
    BY <2>2, <2>3, StateIsWhole
  <2>10. one <= two /\ two <= three
    BY <2>6, <2>7, <2>8
  <2> HIDE DEF one, two, three
  <2>11. one <= three
    BY <2>9, <2>10
  <2> QED BY <1>2, <2>11 DEF one, three
<1> QED BY <1>1, <1>2

\* The last whole step lies in the last piece.
LEMMA LastPiece ==
  ASSUME NEW c, NEW unit \in Nat \ {0}, Joined(c, unit)
  PROVE  PieceOf(c, unit)[Whole(c, unit)] = Len(c.origins)
<1> DEFINE n == Len(c.origins)
           m == Whole(c, unit)
           p == PieceOf(c, unit)[m]
           t == (m - 1) * unit
<1>1. n \in Nat \ {0}
  BY DEF Joined
<1>2. m \in 1 .. m /\ m \in Nat /\ c.total_t \in Nat /\ Node(c, n + 1).t = c.total_t
      /\ t \in Nat /\ c.total_t < t + unit
  <2>1. m \in Nat \ {0} /\ c.total_t \in Nat /\ c.total_t < t + unit
    BY WholeSteps
  <2>2. Node(c, n + 1).t = c.total_t
    <3>1. Node(c, n + 1) = [s2 |-> c.end_s2, v |-> c.end_v, a |-> 0, t |-> c.total_t]
      BY WholeSteps
    <3> QED BY <3>1
  <2>3. m \in 1 .. m
    BY <2>1
  <2>4. t \in Nat
    BY <2>3, WholeSteps
  <2> QED BY <2>1, <2>2, <2>3, <2>4
<1>3. p \in 1 .. n /\ Within(c, p, t)
  BY <1>2, PiecesHoldTimes
<1> HIDE DEF n, m, p, t
<1>4. CASE p # n
  <2>1. p + 1 \in 1 .. n + 1 /\ n + 1 \in 1 .. n + 1 /\ p + 1 < n + 1
    BY <1>1, <1>3, <1>4
  <2>2. Node(c, p + 1).t + unit <= Node(c, n + 1).t
    BY <2>1, TimesGrow DEF n
  <2>3. Node(c, p + 1).t \in Nat
    <3>1. Node(c, p + 1) \in CurveOrigins
      BY <2>1 DEF Joined, n
    <3> QED BY <3>1 DEF CurveOrigins
  <2>4. t <= Node(c, p + 1).t
    BY <1>3 DEF Within
  <2> QED BY <1>2, <2>2, <2>3, <2>4
<1> QED BY <1>4 DEF n, m, p

\* The knots of any curve of pieces that meet.
LEMMA JoinedKnots ==
  ASSUME NEW c, NEW unit \in Nat \ {0}, Joined(c, unit), Forward(c)
  PROVE  KnotsLieOn(c, unit)
<1> DEFINE n == Len(c.origins)
           m == Whole(c, unit)
           p == PieceOf(c, unit)
           T(i) == (i - 1) * unit
           K(i) == KnotOf(c, unit, i)
           end == [t |-> c.total_t, s2 |-> c.end_s2, v |-> c.end_v]
           all == [i \in 1 .. m |-> K(i)]
<1>1. n \in Nat \ {0}
  BY DEF Joined
<1>2. /\ m \in Nat \ {0} /\ m \in 1 .. m /\ c.total_t \in Nat
      /\ Node(c, n + 1) = [s2 |-> c.end_s2, v |-> c.end_v, a |-> 0, t |-> c.total_t]
      /\ \A i \in 1 .. m : T(i) \in Nat /\ T(i) <= c.total_t
      /\ c.total_t < T(m) + unit
  BY WholeSteps
<1>3. \A i \in 1 .. m : p[i] \in 1 .. n /\ Within(c, p[i], T(i))
  BY PiecesHoldTimes
<1>4. \A i \in 1 .. m : p[i] = PieceStep(c, unit, i, IF i = 1 THEN 1 ELSE p[i-1])
  BY NextPiece
<1>5. p[m] = n
  BY LastPiece
<1>6. \A i \in 1 .. n : Node(c, i) = c.origins[i] /\ Node(c, i) \in CurveOrigins
  BY <1>1 DEF Node, Joined
<1>7. \A i \in 1 .. m : K(i) = StateAt(Node(c, p[i]), T(i))
  BY <1>3, <1>6 DEF KnotOf
<1> HIDE DEF n, m, p, T, K
<1>8. \A i \in 1 .. m : K(i) = At(c, T(i)) /\ K(i).t = T(i)
  <2> SUFFICES ASSUME NEW i \in 1 .. m PROVE K(i) = At(c, T(i)) /\ K(i).t = T(i)
    OBVIOUS
  <2>1. p[i] \in 1 .. Len(c.origins) /\ T(i) \in Nat /\ Within(c, p[i], T(i))
    BY <1>2, <1>3 DEF n
  <2>2. At(c, T(i)) = StateAt(Node(c, p[i]), T(i))
    BY <2>1, AtIs
  <2> QED BY <1>7, <2>2 DEF StateAt
<1>9. \A i \in 2 .. m : K(i-1).s2 <= K(i).s2
  <2> SUFFICES ASSUME NEW i \in 2 .. m PROVE K(i-1).s2 <= K(i).s2
    OBVIOUS
  <2>1. i \in 1 .. m /\ i - 1 \in 1 .. m /\ i # 1
    BY <1>2
  <2>2. p[i] \in {p[i-1], p[i-1] + 1}
    BY <1>4, <2>1 DEF PieceStep
  <2>3. T(i-1) \in Nat /\ T(i) \in Nat /\ T(i-1) <= T(i)
    <3>1. T(i-1) \in Nat /\ T(i) \in Nat
      BY <1>2, <2>1
    <3>2. i - 1 \in Nat /\ (i - 1) - 1 \in Nat /\ (i - 1) - 1 <= i - 1
      BY <1>2
    <3>3. T(i-1) <= T(i)
      BY <3>2, StepsGrow DEF T
    <3> QED BY <3>1, <3>3
  <2>4. StateAt(Node(c, p[i-1]), T(i-1)).s2 <= StateAt(Node(c, p[i]), T(i)).s2
    BY <1>3, <2>1, <2>2, <2>3, CurvesGrow DEF n
  <2> QED BY <1>7, <2>1, <2>4
<1>10. \A i \in 2 .. m : K(i-1).t < K(i).t
  <2> SUFFICES ASSUME NEW i \in 2 .. m PROVE K(i-1).t < K(i).t
    OBVIOUS
  <2>1. i \in 1 .. m /\ i - 1 \in 1 .. m /\ i - 2 \in Nat
    BY <1>2
  <2>2. ((i - 2) + 1) * unit = (i - 2) * unit + unit
    BY <2>1, NextStep
  <2>3. (i - 2) + 1 = i - 1 /\ (i - 1) - 1 = i - 2
    BY <1>2
  <2>4. T(i) = T(i-1) + unit
    BY <2>2, <2>3 DEF T
  <2>5. T(i-1) \in Nat
    BY <1>2, <2>1
  <2> QED BY <1>8, <2>1, <2>4, <2>5
<1>11. At(c, c.total_t) = end /\ StateAt(Node(c, n), c.total_t) = end
  <2>1. n \in 1 .. Len(c.origins)
    BY <1>1 DEF n
  <2>2. Meet(Node(c, n), Node(c, n + 1), unit)
    BY <2>1 DEF Joined
  <2>3. StateAt(Node(c, n), c.total_t) = end
    BY <1>2, <2>2 DEF Meet, StateAt
  <2>4. Within(c, n, c.total_t)
    <3>1. Within(c, n, T(m)) /\ T(m) \in Nat /\ T(m) <= c.total_t
      BY <1>2, <1>3, <1>5
    <3>2. Node(c, n).t \in Nat
      <4>1. Node(c, n) \in CurveOrigins
        BY <1>6, <2>1 DEF n
      <4> QED BY <4>1 DEF CurveOrigins
    <3>3. Node(c, n).t <= T(m)
      BY <3>1 DEF Within
    <3>4. Node(c, n).t <= c.total_t
      BY <1>2, <3>1, <3>2, <3>3
    <3>5. Node(c, n + 1).t = c.total_t
      BY <1>2
    <3> QED BY <1>2, <3>4, <3>5 DEF Within
  <2>5. At(c, c.total_t) = StateAt(Node(c, n), c.total_t)
    BY <1>2, <2>1, <2>4, AtIs
  <2> QED BY <2>3, <2>5
<1>12. K(m).s2 <= c.end_s2
  <2>1. n \in 1 .. Len(c.origins)
    BY <1>1 DEF n
  <2>2. T(m) \in Nat /\ T(m) <= c.total_t /\ Within(c, n, T(m))
    BY <1>2, <1>3, <1>5
  <2>3. Within(c, n, c.total_t)
    <3>2. Node(c, n).t \in Nat
      <4>1. Node(c, n) \in CurveOrigins
        BY <1>6, <2>1 DEF n
      <4> QED BY <4>1 DEF CurveOrigins
    <3>3. Node(c, n).t <= T(m)
      BY <2>2 DEF Within
    <3>4. Node(c, n).t <= c.total_t
      BY <1>2, <2>2, <3>2, <3>3
    <3>5. Node(c, n + 1).t = c.total_t
      BY <1>2
    <3> QED BY <1>2, <3>4, <3>5 DEF Within
  <2>4. StateAt(Node(c, n), T(m)).s2 <= StateAt(Node(c, n), c.total_t).s2
    BY <1>2, <2>1, <2>2, <2>3, PlacesGrow
  <2> QED BY <1>2, <1>5, <1>7, <1>11, <2>4
<1>13. K(m).s2 \in Int /\ c.end_s2 \in Int /\ \A i \in 1 .. m : K(i).s2 \in Int
  <2>1. \A i \in 1 .. m : K(i).s2 \in Int
    <3> SUFFICES ASSUME NEW i \in 1 .. m PROVE K(i).s2 \in Int
      OBVIOUS
    <3>1. Node(c, p[i]) \in CurveOrigins /\ T(i) \in Nat
      BY <1>2, <1>3, <1>6
    <3> QED BY <1>7, <3>1, StateIsWhole
  <2>2. c.end_s2 \in Int
    <3>1. n \in 1 .. n
      BY <1>1
    <3>2. Node(c, n) \in CurveOrigins
      BY <1>6, <3>1
    <3> QED BY <1>2, <1>11, <3>2, StateIsWhole
  <2> QED BY <1>2, <2>1, <2>2
<1> DEFINE short == K(m).t < c.total_t /\ K(m).s2 < c.end_s2
<1>14. Discrete(c, unit) = IF short THEN Append(all, end) ELSE all
  <2>1. \A i \in 1 .. m : all[i] = K(i)
    OBVIOUS
  <2>2. ~\E i \in 2 .. m : all[i-1].s2 > all[i].s2
    <3> SUFFICES ASSUME NEW i \in 2 .. m PROVE ~(all[i-1].s2 > all[i].s2)
      OBVIOUS
    <3>1. i \in 1 .. m /\ i - 1 \in 1 .. m
      BY <1>2
    <3>2. K(i-1).s2 <= K(i).s2 /\ K(i-1).s2 \in Int /\ K(i).s2 \in Int
      BY <1>9, <1>13, <3>1
    <3> HIDE DEF all
    <3> QED BY <2>1, <3>1, <3>2
  <2>3. all[m] = K(m)
    BY <1>2
  <2>4. Discrete(c, unit) =
          IF \E i \in 2 .. m : all[i-1].s2 > all[i].s2 THEN <<>>
          ELSE IF all[m].t < c.total_t /\ all[m].s2 < c.end_s2
          THEN Append(all, end)
          ELSE all
    BY DiscreteIs DEF m, K
  <2> HIDE DEF all
  <2> QED BY <2>2, <2>3, <2>4
<1>15. all \in Seq({K(i) : i \in 1 .. m}) /\ Len(all) = m /\ \A i \in 1 .. m : all[i] = K(i)
  BY <1>2
<1> HIDE DEF all
<1>16. \A i \in 1 .. m : K(i) = At(c, K(i).t) /\ K(i).t <= c.total_t
  BY <1>2, <1>8
<1>17. CASE ~short
  <2>1. K(m).s2 = c.end_s2
    <3>1. CASE K(m).s2 < c.end_s2
      <4>1. T(m) = c.total_t
        BY <1>2, <1>8, <1>17, <3>1
      <4> QED BY <1>2, <1>8, <1>11, <4>1
    <3> QED BY <1>12, <1>13, <3>1
  <2>2. Discrete(c, unit) = all /\ DOMAIN all = 1 .. m
    BY <1>14, <1>15, <1>17
  <2>3. \A i \in 2 .. m : all[i-1].t < all[i].t /\ all[i-1].s2 <= all[i].s2
    <3>1. \A i \in 2 .. m : i \in 1 .. m /\ i - 1 \in 1 .. m
      BY <1>2
    <3> QED BY <1>9, <1>10, <1>15, <3>1
  <2> QED BY <1>2, <1>8, <1>15, <1>16, <2>1, <2>2, <2>3 DEF KnotsLieOn, m, T, Whole
<1>18. CASE short
  <2> DEFINE knots == Append(all, end)
  <2>1. Discrete(c, unit) = knots
    BY <1>14, <1>18
  <2>2. Len(knots) = m + 1 /\ DOMAIN knots = 1 .. m + 1 /\ knots[m + 1] = end
        /\ \A i \in 1 .. m : knots[i] = K(i)
    <3>1. Len(knots) = Len(all) + 1 /\ knots[Len(all) + 1] = end
          /\ \A i \in 1 .. Len(all) : knots[i] = all[i]
      BY <1>15, AppendProperties
    <3>2. DOMAIN knots = 1 .. Len(all) + 1
      BY <1>15
    <3> HIDE DEF knots, end
    <3> QED BY <1>15, <3>1, <3>2
  <2> HIDE DEF knots
  <2>3. \A i \in 1 .. m + 1 : i \in 1 .. m \/ i = m + 1
    BY <1>2
  <2>4. end.t = c.total_t /\ end.s2 = c.end_s2 /\ end = At(c, end.t) /\ end.t <= c.total_t
    BY <1>2, <1>11
  <2> HIDE DEF end
  <2>5. \A i \in DOMAIN knots : knots[i] = At(c, knots[i].t) /\ knots[i].t <= c.total_t
    BY <1>16, <2>2, <2>3, <2>4
  <2>6. \A i \in 1 .. m : knots[i].t = T(i)
    BY <1>8, <2>2
  <2>7. ASSUME NEW i \in 2 .. m + 1 PROVE knots[i-1].t < knots[i].t /\ knots[i-1].s2 <= knots[i].s2
    <3>1. i - 1 \in 1 .. m /\ (i \in 2 .. m \/ i = m + 1)
      BY <1>2
    <3>2. CASE i \in 2 .. m
      <4>1. i \in 1 .. m
        BY <3>2, <1>2
      <4> QED BY <1>9, <1>10, <2>2, <3>1, <3>2, <4>1
    <3>3. CASE i = m + 1
      <4>1. i - 1 = m
        BY <1>2, <3>3
      <4> QED BY <1>2, <1>12, <1>18, <2>2, <2>4, <3>3, <4>1
    <3> QED BY <3>1, <3>2, <3>3
  <2>8. knots[Len(knots)].s2 = c.end_s2 /\ Len(knots) >= m
    BY <1>2, <2>2, <2>4
  <2> QED BY <2>1, <2>2, <2>5, <2>6, <2>7, <2>8 DEF KnotsLieOn, m, T, Whole
<1> QED BY <1>17, <1>18

(* Whatever the pieces of a curve are that never goes backwards, and       *)
(* however many: if no piece is shorter than the step, Discrete delivers   *)
(* points of the curve, at every whole step and in order, up to its end.   *)
THEOREM KnotsAreOfTheCurve ==
  ASSUME NEW v \in Int, NEW pieces \in Seq(CurvePieces), pieces # <<>>,
         NEW unit \in Nat \ {0}, \A i \in DOMAIN pieces : unit <= pieces[i].t,
         Forward(Curve(v, pieces))
  PROVE  KnotsLieOn(Curve(v, pieces), unit)
<1> DEFINE c == Curve(v, pieces)
<1>1. Joined(c, unit) /\ Forward(c)
  BY CurveIsJoined
<1> HIDE DEF c
<1>2. KnotsLieOn(c, unit)
  BY <1>1, JoinedKnots
<1> QED BY <1>2 DEF c

-----------------------------------------------------------------------------
(* The rest of a curve *)

\* The pieces that have begun, the last of which counts.
Begun(origins, t) == {i \in 1 .. Len(origins) : origins[i].t <= t}
LastOf(S) == CHOOSE n \in S : \A m \in S : m <= n

\* Bounded sets of numbers have a last one.
LEMMA LastExists ==
  ASSUME NEW n \in Nat, NEW S \in SUBSET (1 .. n), S # {}
  PROVE  LastOf(S) \in S
<1> DEFINE U == {u \in Nat : \A m \in S : m <= u}
<1>1. S \subseteq Nat /\ n \in U
  OBVIOUS
<1>2. PICK u \in U : \A w \in U : u <= w
  <2> HIDE DEF U
  <2>1. U \in SUBSET Nat
    BY DEF U
  <2> QED BY <1>1, <2>1, LeastNumber
<1>3. u \in S
  <2> SUFFICES ASSUME u \notin S PROVE FALSE
    OBVIOUS
  <2>1. \A m \in S : m \in Nat /\ m <= u /\ m # u
    BY <1>1
  <2>2. u \in Nat /\ u # 0
    <3>1. \E m \in S : m \in 1 .. n
      OBVIOUS
    <3> QED BY <2>1, <3>1
  <2>3. u - 1 \in U
    <3>1. u - 1 \in Nat
      BY <2>2
    <3>2. \A m \in S : m <= u - 1
      BY <2>1, <2>2
    <3> QED BY <3>1, <3>2
  <2>4. u <= u - 1
    <3> HIDE DEF U
    <3> QED BY <1>2, <2>3
  <2> QED BY <2>2, <2>4
<1>4. \A m \in S : m <= u
  OBVIOUS
<1> HIDE DEF U
<1> QED BY <1>3, <1>4 DEF LastOf

\* Of a curve that starts at 0, what is left at a time in its first piece.
LEMMA JoinedRest ==
  ASSUME NEW c, Joined(c, 1), Node(c, 1).s2 = 0
  PROVE  RestAgrees(c)
<1> DEFINE n == Len(c.origins)
           most == IF n = 1 THEN 0 ELSE c.origins[2].t
<1>1. n \in Nat \ {0} /\ 1 \in 1 .. n /\ c.origins \in Seq(CurveOrigins)
  BY DEF Joined
<1>2. \A i \in 1 .. n : c.origins[i] = Node(c, i) /\ c.origins[i] \in CurveOrigins
  BY <1>1 DEF Node, Joined
<1>3. \A i \in 1 .. n : /\ c.origins[i].s2 \in Int /\ c.origins[i].v \in Int
                        /\ c.origins[i].a \in Int /\ c.origins[i].t \in Nat
  BY <1>2 DEF CurveOrigins
<1>4. c.origins[1].t = 0 /\ c.origins[1].s2 = 0
  BY <1>1, <1>2 DEF Joined
<1>5. c.total_t \in Nat /\ c.end_s2 \in Int
  <2>1. Node(c, n + 1) = [s2 |-> c.end_s2, v |-> c.end_v, a |-> 0, t |-> c.total_t]
    BY <1>1 DEF Node
  <2>2. Node(c, n + 1) \in CurveOrigins
    BY <1>1 DEF Joined
  <2>3. Node(c, n + 1).t \in Nat /\ Node(c, n + 1).s2 \in Int
    BY <2>2 DEF CurveOrigins
  <2>4. Node(c, n + 1).t = c.total_t /\ Node(c, n + 1).s2 = c.end_s2
    BY <2>1
  <2> QED BY <2>3, <2>4
<1>6. n # 1 => \A i \in 2 .. n : c.origins[2].t <= c.origins[i].t
  <2> SUFFICES ASSUME n # 1, NEW i \in 2 .. n PROVE c.origins[2].t <= c.origins[i].t
    OBVIOUS
  <2>1. 2 \in 1 .. n + 1 /\ i \in 1 .. n + 1 /\ 2 \in 1 .. n /\ i \in 1 .. n /\ (i = 2 \/ 2 < i)
    <3> HIDE DEF n
    <3>1. n \in Nat /\ i \in Nat /\ 2 <= i /\ i <= n
      BY <1>1
    <3> QED BY <3>1
  <2>2. 2 < i => Node(c, 2).t + 1 <= Node(c, i).t
    BY <2>1, TimesGrow
  <2>3. c.origins[2].t \in Nat /\ c.origins[i].t \in Nat
    BY <1>3, <2>1
  <2> HIDE DEF n
  <2> QED BY <1>2, <2>1, <2>2, <2>3
<1>7. most \in Nat
  <2>1. n # 1 => 2 \in 1 .. n
    <3> HIDE DEF n, most
    <3> QED BY <1>1
  <2> QED BY <1>3, <2>1
<1> HIDE DEF n, most
<1> SUFFICES ASSUME NEW dt \in 0 .. most
             PROVE  LET rest == UpdateOriginByDiffTime(c, dt)
                        begin == At(c, dt)
                    IN /\ rest.total_t = c.total_t - dt
                       /\ rest.end_s2 = c.end_s2 - begin.s2
                       /\ \A t \in 0 .. rest.total_t :
                            LET now == At(c, t + dt)
                            IN At(rest, t) = [t |-> t, s2 |-> now.s2 - begin.s2, v |-> now.v]
  BY DEF RestAgrees, most, n
<1> DEFINE o == c.origins[1]
           begin == At(c, dt)
           rest == UpdateOriginByDiffTime(c, dt)
<1>8. dt \in Nat /\ dt <= most
  BY <1>7
<1>9. begin = StateAt(o, dt)
  <2>1. Within(c, 1, dt)
    <3>1. Node(c, 1).t <= dt
      BY <1>1, <1>2, <1>4, <1>8
    <3>2. CASE n = 1
      <4>1. dt = 0
        BY <1>8, <3>2 DEF most
      <4>2. Node(c, 1 + 1).t = c.total_t
        BY <1>1, <3>2 DEF Node, n
      <4> QED BY <1>5, <3>1, <4>1, <4>2 DEF Within
    <3>3. CASE n # 1
      <4>1. 2 \in 1 .. n /\ 1 + 1 = 2
        BY <1>1, <3>3
      <4>2. Node(c, 1 + 1).t = most
        BY <1>2, <3>3, <4>1 DEF most
      <4> QED BY <1>8, <3>1, <4>2 DEF Within
    <3> QED BY <3>2, <3>3
  <2>2. 1 \in 1 .. Len(c.origins)
    BY <1>1 DEF n
  <2> QED BY <1>1, <1>2, <1>8, <2>1, <2>2, AtIs
<1>10. o.v \in Int /\ o.a \in Int /\ o.t = 0 /\ o.s2 = 0
  BY <1>1, <1>3, <1>4
<1>11. begin.s2 = Way(dt, o) /\ dt - o.t = dt
  <2>1. dt - o.t = dt
    BY <1>8, <1>10
  <2> HIDE DEF o, begin
  <2> QED BY <1>9, <2>1 DEF StateAt
<1> DEFINE diff == Way(dt, o)
<1>12. diff \in Int
  <2> HIDE DEF o
  <2>1. o.a * dt \in Int
    BY <1>8, <1>10
  <2>2. o.a * dt + 2 * o.v \in Int
    BY <1>10, <2>1
  <2>3. (o.a * dt + 2 * o.v) * dt \in Int
    BY <1>8, <2>2
  <2> QED BY <1>10, <2>3 DEF Way
<1> DEFINE new(i) == IF i = 1 THEN [s2 |-> 0, v |-> Speed(dt, o), a |-> o.a, t |-> 0]
                     ELSE [c.origins[i] EXCEPT !.s2 = @ - diff, !.t = @ - dt]
<1>13. /\ rest.total_t = c.total_t - dt /\ rest.end_s2 = c.end_s2 - diff
       /\ Len(rest.origins) = n
       /\ dt = 0 => rest = c
       /\ dt # 0 => \A i \in 1 .. n : rest.origins[i] = new(i)
  <2>1. CASE dt = 0
    <3>1. rest = c
      BY <2>1 DEF UpdateOriginByDiffTime
    <3>2. diff = 0
      <4> HIDE DEF rest
      <4>1. o.a * 0 = 0 /\ (0 + 2 * o.v) * 0 = 0
        BY <1>10
      <4> HIDE DEF o
      <4> QED BY <1>10, <2>1, <4>1 DEF Way
    <3> HIDE DEF rest, diff
    <3> QED BY <1>5, <2>1, <3>1, <3>2 DEF n
  <2>2. CASE dt # 0
    <3>1. n # 1 /\ 2 \in 1 .. n /\ dt > 0 /\ dt <= c.origins[2].t
      <4>1. n # 1 /\ most = c.origins[2].t
        BY <1>8, <2>2 DEF most
      <4> QED BY <1>1, <1>8, <2>2, <4>1
    <3>2. \A i \in 2 .. n : c.origins[i].t >= dt
      <4> SUFFICES ASSUME NEW i \in 2 .. n PROVE c.origins[i].t >= dt
        OBVIOUS
      <4>1. c.origins[2].t <= c.origins[i].t
        BY <1>6, <3>1
      <4>2. i \in 1 .. n
        BY <1>1
      <4>3. c.origins[2].t \in Nat /\ c.origins[i].t \in Nat
        BY <1>3, <3>1, <4>2
      <4> QED BY <1>8, <3>1, <4>1, <4>3
    <3> DEFINE low(k) == /\ \A i \in 1 .. k : c.origins[i].t < dt
                         /\ \A i \in k + 1 .. n : c.origins[i].t >= dt
    <3>3. \A k \in 0 .. n : low(k) <=> k = 1
      <4>1. low(1)
        <5>1. \A i \in 1 .. 1 : i = 1
          OBVIOUS
        <5> QED BY <1>4, <3>1, <3>2, <5>1
      <4> SUFFICES ASSUME NEW k \in 0 .. n, low(k) PROVE k = 1
        BY <4>1
      <4>2. k # 0
        <5> SUFFICES ASSUME k = 0 PROVE FALSE
          OBVIOUS
        <5>1. 1 \in k + 1 .. n
          BY <1>1
        <5>2. c.origins[1].t >= dt
          BY <5>1
        <5> QED BY <1>4, <1>8, <3>1, <5>2
      <4>3. ~(k >= 2)
        <5> SUFFICES ASSUME k >= 2 PROVE FALSE
          OBVIOUS
        <5>1. 2 \in 1 .. k
          BY <1>1
        <5>2. c.origins[2].t < dt
          BY <5>1
        <5>3. c.origins[2].t \in Nat
          BY <1>3, <3>1
        <5> QED BY <1>8, <3>1, <5>2, <5>3
      <4> QED BY <1>1, <4>2, <4>3
    <3>4. LowerBoundOf(c.origins, dt) = 1
      <4>1. LowerBoundOf(c.origins, dt) = CHOOSE k \in 0 .. n : low(k)
        BY DEF LowerBoundOf, n
      <4>2. 1 \in 0 .. n
        BY <1>1
      <4> HIDE DEF low
      <4> QED BY <3>3, <4>1, <4>2
    <3> DEFINE later == SubSeq(c.origins, 2, n)
    <3>5. later \in Seq(CurveOrigins) /\ Len(later) = n - 1
          /\ \A i \in 1 .. n - 1 : later[i] = c.origins[i + 1]
      <4>1. 2 - 1 <= n /\ n = Len(c.origins) /\ 2 \in 1 .. n + 1 /\ n \in Nat
        BY <1>1 DEF n
      <4>2. later \in Seq(CurveOrigins) /\ Len(later) = n - 1
        BY <1>1, <3>1, <4>1
      <4>3. ASSUME NEW i \in 1 .. n - 1 PROVE later[i] = c.origins[i + 1]
        <5>1. later[i] = c.origins[2 + i - 1]
          BY <1>1, <3>1, <4>1
        <5>2. 2 + i - 1 = i + 1
          BY <1>1
        <5> QED BY <5>1, <5>2
      <4> QED BY <4>2, <4>3
    <3> HIDE DEF later
    <3>6. later # <<>> /\ dt > 0
      BY <1>1, <3>1, <3>5
    <3> DEFINE tail == [i \in 1 .. Len(later) |-> [later[i] EXCEPT !.s2 = @ - diff, !.t = @ - dt]]
               first == [s2 |-> 0, v |-> Speed(dt, o), a |-> o.a, t |-> 0]
    <3>7. rest = [origins |-> << first >> \o tail, end_v |-> c.end_v,
                  end_s2 |-> c.end_s2 - diff, total_t |-> c.total_t - dt]
      <4>1. 1 + 1 = 2 /\ ~(dt <= 0) /\ 1 # 0
        BY <1>8, <3>1
      <4> HIDE DEF o, diff
      <4>2. later = SubSeq(c.origins, 1 + 1, Len(c.origins))
        BY <4>1 DEF later, n
      <4> QED BY <3>4, <3>6, <4>1, <4>2 DEF UpdateOriginByDiffTime, o, diff
    <3> HIDE DEF first, rest
    <3>8. rest.origins = << first >> \o tail /\ rest.end_s2 = c.end_s2 - diff /\ rest.total_t = c.total_t - dt
      BY <3>7
    <3>9. Len(tail) = n - 1 /\ \A i \in 1 .. n - 1 :
             tail[i] = [c.origins[i + 1] EXCEPT !.s2 = @ - diff, !.t = @ - dt]
      <4> HIDE DEF diff
      <4>1. Len(tail) = Len(later) /\ \A i \in 1 .. Len(later) : tail[i] = [later[i] EXCEPT !.s2 = @ - diff, !.t = @ - dt]
        BY <3>5
      <4> HIDE DEF tail
      <4> QED BY <3>5, <4>1
    <3>10. tail \in Seq(Range(tail))
      <4>1. n - 1 \in Nat
        BY <1>1
      <4> HIDE DEF diff
      <4>2. tail \in [1 .. n - 1 -> Range(tail)]
        <5>1. DOMAIN tail = 1 .. n - 1
          BY <3>5
        <5>2. tail = [i \in DOMAIN tail |-> tail[i]]
          OBVIOUS
        <5> HIDE DEF tail
        <5> QED BY <5>1, <5>2 DEF Range
      <4> HIDE DEF tail
      <4> QED BY <4>1, <4>2
    <3> HIDE DEF tail
    <3>11. Len(rest.origins) = n /\ rest.origins[1] = first
           /\ \A i \in 2 .. n : rest.origins[i] = tail[i - 1]
      <4>1. << first >> \in Seq({first}) /\ Len(<< first >>) = 1 /\ << first >>[1] = first
        OBVIOUS
      <4> DEFINE all == << first >> \o tail
      <4>2. Len(all) = 1 + Len(tail)
            /\ all[1] = first /\ \A i \in 1 .. Len(tail) : all[i + 1] = tail[i]
        BY <3>10, <4>1
      <4> HIDE DEF all
      <4>3. \A i \in 2 .. n : i - 1 \in 1 .. n - 1 /\ (i - 1) + 1 = i
        BY <1>1
      <4>4. 1 + (n - 1) = n
        BY <1>1
      <4> QED BY <3>8, <3>9, <4>2, <4>3, <4>4 DEF all
    <3>12. ASSUME NEW i \in 1 .. n PROVE rest.origins[i] = new(i)
      <4>1. CASE i = 1
        BY <3>11, <4>1 DEF first
      <4>2. CASE i # 1
        <5>1. i \in 2 .. n /\ i - 1 \in 1 .. n - 1 /\ (i - 1) + 1 = i
          BY <1>1, <4>2
        <5> HIDE DEF diff
        <5> QED BY <3>9, <3>11, <4>2, <5>1
      <4> QED BY <4>1, <4>2
    <3> QED BY <2>2, <3>8, <3>11, <3>12
  <2> QED BY <2>1, <2>2
<1> HIDE DEF rest
<1>14. ASSUME NEW t \in Nat
       PROVE  LET now == At(c, t + dt)
              IN At(rest, t) = [t |-> t, s2 |-> now.s2 - begin.s2, v |-> now.v]
  <2> DEFINE S == Begun(c.origins, t + dt)
             i == LastOf(S)
  <2>1. t + dt \in Nat /\ \A k \in 1 .. n : k \in Int
    BY <1>8
  <2>2. i \in 1 .. n
    <3>1. S \in SUBSET (1 .. n) /\ 1 \in S
      <4> QED BY <1>1, <1>4, <2>1 DEF Begun, n
    <3>2. n \in Nat /\ S # {}
      BY <1>1, <3>1
    <3> HIDE DEF S
    <3>3. LastOf(S) \in S
      BY <3>1, <3>2, LastExists
    <3> QED BY <3>1, <3>3
  <2>3. At(c, t + dt) = StateAt(c.origins[i], t + dt)
    BY DEF At, Begun, LastOf, n
  <2>4. CASE dt = 0
    <3>1. rest = c /\ t + dt = t
      BY <1>8, <1>13, <2>4
    <3>2. begin.s2 = 0
      <4>1. o.a * 0 = 0 /\ (0 + 2 * o.v) * 0 = 0
        BY <1>10
      <4> HIDE DEF o, begin
      <4> QED BY <1>10, <1>11, <2>4, <4>1 DEF Way
    <3> HIDE DEF begin
    <3> DEFINE now == At(c, t)
    <3>3. now = StateAt(c.origins[i], t)
      BY <2>3, <3>1
    <3> HIDE DEF i
    <3>4. now.t = t /\ now.s2 \in Int /\ now = [t |-> t, s2 |-> now.s2, v |-> now.v]
      <4>1. now.s2 \in Int
        BY <1>2, <2>2, <3>3, StateIsWhole
      <4> HIDE DEF now
      <4>2. now = [t |-> t, s2 |-> now.s2, v |-> now.v] /\ now.t = t
        BY <3>3 DEF StateAt
      <4> QED BY <4>1, <4>2
    <3> HIDE DEF now
    <3>5. now.s2 - begin.s2 = now.s2
      BY <3>2, <3>4
    <3> QED BY <3>1, <3>4, <3>5 DEF now
  <2>5. CASE dt # 0
    <3>1. \A k \in 1 .. n : rest.origins[k] = new(k)
      BY <1>13, <2>5
    <3> HIDE DEF diff, o
    <3>2. Begun(rest.origins, t) = S
      <4>1. ASSUME NEW k \in 1 .. n
            PROVE  rest.origins[k].t <= t <=> c.origins[k].t <= t + dt
        <5>1. CASE k = 1
          <6>1. rest.origins[k] = [s2 |-> 0, v |-> Speed(dt, o), a |-> o.a, t |-> 0]
            BY <3>1, <5>1
          <6>3. rest.origins[k].t = 0
            BY <6>1
          <6> QED BY <1>4, <2>1, <5>1, <6>3
        <5>2. CASE k # 1
          <6>1. rest.origins[k] = [c.origins[k] EXCEPT !.s2 = @ - diff, !.t = @ - dt]
            BY <3>1, <5>2
          <6>2. c.origins[k] \in CurveOrigins
            BY <1>2
          <6>3. rest.origins[k].t = c.origins[k].t - dt
            BY <6>1, <6>2 DEF CurveOrigins
          <6>4. c.origins[k].t \in Nat
            BY <1>3
          <6> QED BY <1>8, <6>3, <6>4
        <5> QED BY <5>1, <5>2
      <4>2. Len(rest.origins) = n
        BY <1>13
      <4> QED BY <4>1, <4>2 DEF Begun, n
    <3>3. At(rest, t) = StateAt(rest.origins[i], t)
      <4>1. At(rest, t) = StateAt(rest.origins[LastOf(Begun(rest.origins, t))], t)
        BY DEF At, Begun, LastOf
      <4> HIDE DEF S
      <4> QED BY <3>2, <4>1
    <3> HIDE DEF i
    <3> DEFINE e == rest.origins[i]
               d == c.origins[i]
    <3>4. d.v \in Int /\ d.a \in Int /\ d.t \in Nat /\ d.s2 \in Int
      BY <1>3, <2>2
    <3>5. /\ Way(t - e.t, e) = Way((t + dt) - d.t, d) - diff
          /\ Speed(t - e.t, e) = Speed((t + dt) - d.t, d)
      <4>1. CASE i = 1
        <5>1. e = [s2 |-> 0, v |-> Speed(dt, o), a |-> o.a, t |-> 0] /\ d = o
          BY <2>2, <3>1, <4>1 DEF o
        <5> HIDE DEF e, d
        <5>2. e.s2 = 0 /\ e.v = o.a * dt + o.v /\ e.a = o.a /\ e.t = 0
          BY <5>1 DEF Speed
        <5>3. t - 0 = t /\ (t + dt) - 0 = t + dt
          BY <1>8
        <5>4. Way(t - e.t, e) = (o.a * t + 2 * (o.a * dt + o.v)) * t + 0
              /\ Speed(t - e.t, e) = o.a * t + (o.a * dt + o.v)
          BY <5>2, <5>3 DEF Way, Speed
        <5>5. Way((t + dt) - d.t, d) = (o.a * (t + dt) + 2 * o.v) * (t + dt) + 0
              /\ Speed((t + dt) - d.t, d) = o.a * (t + dt) + o.v
          BY <1>10, <5>1, <5>3 DEF Way, Speed
        <5>6. diff = (o.a * dt + 2 * o.v) * dt + 0
          BY <1>10 DEF diff, Way
        <5> DEFINE a == o.a
                   v == o.v
        <5>7. a \in Int /\ v \in Int /\ dt \in Int
          BY <1>8, <1>10
        <5> HIDE DEF a, v
        <5>8. (a * t + 2 * (a * dt + v)) * t + 0
              = ((a * (t + dt) + 2 * v) * (t + dt) + 0) - ((a * dt + 2 * v) * dt + 0)
          BY <5>7
        <5>9. a * t + (a * dt + v) = a * (t + dt) + v
          BY <5>7
        <5> QED BY <5>4, <5>5, <5>6, <5>8, <5>9 DEF a, v
      <4>2. CASE i # 1
        <5>1. e = [d EXCEPT !.s2 = @ - diff, !.t = @ - dt] /\ d \in CurveOrigins
          BY <1>2, <2>2, <3>1, <4>2
        <5> HIDE DEF e, d
        <5>2. e.s2 = d.s2 - diff /\ e.v = d.v /\ e.a = d.a /\ e.t = d.t - dt
          BY <5>1 DEF CurveOrigins
        <5>3. t - (d.t - dt) = (t + dt) - d.t
          BY <1>8, <3>4
        <5> DEFINE x == (t + dt) - d.t
                   w == (d.a * x + 2 * d.v) * x
        <5>4. x \in Int
          BY <1>8, <3>4
        <5> HIDE DEF x
        <5>5. w \in Int
          <6>1. d.a * x \in Int
            BY <3>4, <5>4
          <6>2. d.a * x + 2 * d.v \in Int
            BY <3>4, <6>1
          <6> QED BY <5>4, <6>2
        <5>6. Way(t - e.t, e) = w + (d.s2 - diff) /\ Speed(t - e.t, e) = d.a * x + d.v
          BY <5>2, <5>3 DEF Way, Speed, x
        <5>7. Way((t + dt) - d.t, d) = w + d.s2 /\ Speed((t + dt) - d.t, d) = d.a * x + d.v
          BY DEF Way, Speed, x
        <5> HIDE DEF w
        <5>8. w + (d.s2 - diff) = (w + d.s2) - diff
          BY <1>12, <3>4, <5>5
        <5> QED BY <5>6, <5>7, <5>8
      <4> QED BY <4>1, <4>2
    <3> DEFINE now == At(c, t + dt)
    <3>6. now.s2 = Way((t + dt) - d.t, d) /\ now.v = Speed((t + dt) - d.t, d)
      BY <2>3 DEF StateAt
    <3>7. begin.s2 = diff
      BY <1>11 DEF diff
    <3> HIDE DEF now, e, d, begin
    <3>8. At(rest, t) = [t |-> t, s2 |-> now.s2 - begin.s2, v |-> now.v]
      BY <3>3, <3>5, <3>6, <3>7 DEF StateAt, e
    <3> QED BY <3>8 DEF now
  <2> QED BY <2>4, <2>5
<1>15. \A t \in 0 .. rest.total_t : t \in Nat
  <2>1. c.total_t - dt \in Int
    BY <1>5, <1>8
  <2>2. rest.total_t \in Int
    BY <1>13, <2>1
  <2> QED BY <2>2
<1>16. rest.end_s2 = c.end_s2 - begin.s2 /\ rest.total_t = c.total_t - dt
  BY <1>11, <1>13
<1> HIDE DEF begin, diff
<1> QED BY <1>14, <1>15, <1>16 DEF rest, begin

(* Whatever the pieces of a curve are, and however many: while the time    *)
(* lies in the first of them, UpdateOriginByDiffTime leaves a curve that   *)
(* goes on as the whole one does from then, as fast, as far and as long.   *)
THEOREM RestIsOfTheCurve ==
  ASSUME NEW v \in Int, NEW pieces \in Seq(CurvePieces), pieces # <<>>
  PROVE  RestAgrees(Curve(v, pieces))
<1> DEFINE c == Curve(v, pieces)
<1>1. \A i \in DOMAIN pieces : 1 <= pieces[i].t
  <2>1. \A i \in DOMAIN pieces : pieces[i] \in CurvePieces
    OBVIOUS
  <2> QED BY <2>1 DEF CurvePieces
<1>2. Joined(c, 1)
  BY <1>1, CurveIsJoined
<1>3. Node(c, 1).s2 = 0
  <2>1. c.origins = Origins(v, pieces)
    BY DEF Curve
  <2>2. Origins(v, pieces)[1] = [s2 |-> 0, v |-> v, a |-> pieces[1].a, t |-> 0]
    BY OriginsAre
  <2>3. 1 <= Len(c.origins)
    BY <1>2 DEF Joined
  <2> HIDE DEF c
  <2> QED BY <2>1, <2>2, <2>3 DEF Node
<1> HIDE DEF c
<1>4. RestAgrees(c)
  BY <1>2, <1>3, JoinedRest
<1> QED BY <1>4 DEF c

-----------------------------------------------------------------------------
(* The legs that are sampled *)

\* What is sampled for, on whole units.
SampleBounds ==
  [min_speed : Nat \ {0}, max_speed : Nat \ {0}, unit_speed : Nat \ {0},
   min_acc : Nat \ {0}, max_acc : Nat \ {0}, unit_acc : Nat \ {0},
   min_dec : Nat \ {0}, max_dec : Nat \ {0}]
SampleQueries ==
  [v : Nat, dist : Nat, accelerates : BOOLEAN, bounds : SampleBounds,
   max_deceleration : Nat, second : Nat]

\* A division without a rest.
Exact(n, d) == n = d * (n \div d)

\* The candidates are positive; the greatest is one of them, and so is the least.
LEMMA StepsAre ==
  ASSUME NEW least \in Nat \ {0}, NEW most \in Nat \ {0}, NEW unit \in Nat \ {0}
  PROVE  /\ Steps(least, most, unit) \subseteq Nat \ {0} /\ most \in Steps(least, most, unit)
         /\ least <= most => least \in Steps(least, most, unit)
<1>1. Steps(least, most, unit) \subseteq Nat \ {0}
  <2> SUFFICES ASSUME NEW i \in 0 .. (most - least - 1) \div unit
               PROVE  least + unit * i \in Nat \ {0}
    BY DEF Steps
  <2>1. i \in Nat
    OBVIOUS
  <2>2. unit * i \in Nat
    BY <2>1
  <2> QED BY <2>2
<1>2. most \in Steps(least, most, unit)
  BY DEF Steps
<1>3. ASSUME least < most PROVE least \in Steps(least, most, unit)
  <2>1. most - least - 1 \in Nat
    BY <1>3
  <2>2. (most - least - 1) \div unit \in Nat
    BY <2>1, StepsBefore
  <2>3. 0 \in 0 .. (most - least - 1) \div unit /\ least + unit * 0 = least
    BY <2>2
  <2> QED BY <2>3 DEF Steps
<1> QED BY <1>1, <1>2, <1>3

LEMMA CandidatesAre ==
  ASSUME NEW b \in SampleBounds
  PROVE  /\ CandidateMinAccs(b) \subseteq Nat \ {0} /\ b.max_dec \in CandidateMinAccs(b)
         /\ CandidateMaxAccs(b) \subseteq Nat /\ b.max_acc \in CandidateMaxAccs(b)
         /\ CandidateMaxV(b) \subseteq Nat \ {0}
         /\ b.min_speed <= b.max_speed => b.min_speed \in CandidateMaxV(b)
<1>1. /\ b.min_speed \in Nat \ {0} /\ b.max_speed \in Nat \ {0} /\ b.unit_speed \in Nat \ {0}
      /\ b.min_acc \in Nat \ {0} /\ b.max_acc \in Nat \ {0} /\ b.unit_acc \in Nat \ {0}
      /\ b.min_dec \in Nat \ {0} /\ b.max_dec \in Nat \ {0}
  BY DEF SampleBounds
<1>2. CandidateMinAccs(b) \subseteq Nat \ {0} /\ b.max_dec \in CandidateMinAccs(b)
  BY <1>1, StepsAre DEF CandidateMinAccs
<1>3. CandidateMaxAccs(b) \subseteq Nat /\ b.max_acc \in CandidateMaxAccs(b)
  <2>1. Steps(b.min_acc, b.max_acc, b.unit_acc) \subseteq Nat \ {0}
        /\ b.max_acc \in Steps(b.min_acc, b.max_acc, b.unit_acc)
    BY <1>1, StepsAre
  <2> QED BY <2>1 DEF CandidateMaxAccs
<1>4. CandidateMaxV(b) \subseteq Nat \ {0}
      /\ (b.min_speed <= b.max_speed => b.min_speed \in CandidateMaxV(b))
  BY <1>1, StepsAre DEF CandidateMaxV
<1> QED BY <1>2, <1>3, <1>4

\* The way of one, two and three legs.
LEMMA WayOfLegs ==
  ASSUME NEW legs, Len(legs) \in {1, 2, 3}, \A i \in 1 .. Len(legs) : legs[i].s \in Int
  PROVE  WayOf(legs) = IF Len(legs) = 1 THEN legs[1].s
                       ELSE IF Len(legs) = 2 THEN legs[1].s + legs[2].s
                       ELSE legs[1].s + legs[2].s + legs[3].s
<1> DEFINE n == Len(legs)
           body(g) == [i \in 0 .. n |-> IF i = 0 THEN 0 ELSE g[i-1] + legs[i].s]
           way == CHOOSE g : g = body(g)
           one == legs[1].s
           two == one + legs[2].s
           three == two + legs[3].s
           q == [i \in 0 .. n |-> IF i = 0 THEN 0 ELSE IF i = 1 THEN one ELSE IF i = 2 THEN two ELSE three]
<1>1. WayOf(legs) = way[n]
  BY DEF WayOf
<1>2. n \in {1, 2, 3}
  OBVIOUS
<1> HIDE DEF n
<1>3. 1 \in 1 .. n /\ (n \in {2, 3} => 2 \in 1 .. n) /\ (n = 3 => 3 \in 1 .. n)
  BY <1>2
<1>4. legs[1].s \in Int /\ (n \in {2, 3} => legs[2].s \in Int) /\ (n = 3 => legs[3].s \in Int)
  BY <1>3 DEF n
<1>5. q = body(q)
  <2> SUFFICES ASSUME NEW i \in 0 .. n
               PROVE  q[i] = IF i = 0 THEN 0 ELSE q[i-1] + legs[i].s
    <3> HIDE DEF one, two, three
    <3> QED OBVIOUS
  <2>1. i \in {0, 1, 2, 3} /\ (i # 0 => i - 1 \in 0 .. n)
    BY <1>2
  <2>2. CASE i = 0
    BY <2>2
  <2>3. CASE i = 1
    <3>1. q[i-1] = 0 /\ q[i] = one
      BY <2>1, <2>3
    <3> HIDE DEF q
    <3> QED BY <1>4, <2>3, <3>1
  <2>4. CASE i = 2
    <3>1. q[i-1] = one /\ q[i] = two
      BY <2>1, <2>4
    <3> HIDE DEF q
    <3> QED BY <2>4, <3>1
  <2>5. CASE i = 3
    <3>1. q[i-1] = two /\ q[i] = three
      BY <2>1, <2>5
    <3> HIDE DEF q
    <3> QED BY <2>5, <3>1
  <2> QED BY <2>1, <2>2, <2>3, <2>4, <2>5
<1>6. way = body(way)
  <2> HIDE DEF body, q
  <2> QED BY <1>5
<1> HIDE DEF way
<1>7. \A i \in 0 .. n : way[i] = IF i = 0 THEN 0 ELSE way[i-1] + legs[i].s
  BY <1>6
<1>8. 0 \in 0 .. n /\ 1 \in 0 .. n /\ (n \in {2, 3} => 2 \in 0 .. n) /\ (n = 3 => 3 \in 0 .. n)
  BY <1>2
<1>9. way[0] = 0
  BY <1>7, <1>8
<1>10. way[1] = legs[1].s
  <2>1. way[1] = way[1-1] + legs[1].s
    BY <1>7, <1>8
  <2>2. 1 - 1 = 0
    OBVIOUS
  <2> QED BY <1>4, <1>9, <2>1, <2>2
<1>11. n \in {2, 3} => way[2] = legs[1].s + legs[2].s
  <2>1. 2 - 1 = 1 /\ 2 # 0
    OBVIOUS
  <2> QED BY <1>7, <1>8, <1>10, <2>1
<1>12. n = 3 => way[3] = legs[1].s + legs[2].s + legs[3].s
  <2>1. 3 - 1 = 2 /\ 3 # 0
    OBVIOUS
  <2> QED BY <1>7, <1>8, <1>11, <2>1
<1> QED BY <1>1, <1>2, <1>10, <1>11, <1>12 DEF n

\* Legs that follow each other from a speed to a stop.
Stopping(legs, from2, dist) ==
  /\ WayOf(legs) = dist
  /\ legs[1].from2 = from2 /\ legs[Len(legs)].to2 = 0
  /\ \A i \in 2 .. Len(legs) : legs[i].from2 = legs[i-1].to2

LEMMA OneLegStops ==
  ASSUME NEW f, NEW s \in Int
  PROVE  Stopping(<<Leg(f, 0, s)>>, f, s)
<1> DEFINE legs == <<Leg(f, 0, s)>>
<1>1. Len(legs) = 1 /\ legs[1] = Leg(f, 0, s)
  OBVIOUS
<1> HIDE DEF legs
<1>2. legs[1].s = s /\ legs[1].from2 = f /\ legs[1].to2 = 0
  BY <1>1 DEF Leg
<1>3. 2 .. 1 = {} /\ \A i \in 1 .. 1 : i = 1
  OBVIOUS
<1>4. WayOf(legs) = s
  BY <1>1, <1>2, <1>3, WayOfLegs
<1> QED BY <1>1, <1>2, <1>3, <1>4 DEF Stopping, legs

LEMMA TwoLegsStop ==
  ASSUME NEW f, NEW p, NEW s \in Int, NEW r \in Int
  PROVE  Stopping(<<Leg(f, p, s), Leg(p, 0, r)>>, f, s + r)
<1> DEFINE legs == <<Leg(f, p, s), Leg(p, 0, r)>>
<1>1. Len(legs) = 2 /\ legs[1] = Leg(f, p, s) /\ legs[2] = Leg(p, 0, r)
  OBVIOUS
<1> HIDE DEF legs
<1>2. /\ legs[1].s = s /\ legs[1].from2 = f /\ legs[1].to2 = p
      /\ legs[2].s = r /\ legs[2].from2 = p /\ legs[2].to2 = 0
  BY <1>1 DEF Leg
<1>3. \A i \in 2 .. 2 : i = 2 /\ i - 1 = 1
  OBVIOUS
<1>4. \A i \in 1 .. 2 : i = 1 \/ i = 2
  OBVIOUS
<1>5. WayOf(legs) = s + r
  <2>1. \A i \in 1 .. Len(legs) : legs[i].s \in Int
    BY <1>1, <1>2, <1>4
  <2>2. WayOf(legs) = IF Len(legs) = 1 THEN legs[1].s
                      ELSE IF Len(legs) = 2 THEN legs[1].s + legs[2].s
                      ELSE legs[1].s + legs[2].s + legs[3].s
    <3>1. Len(legs) \in {1, 2, 3}
      BY <1>1
    <3> QED BY <2>1, <3>1, WayOfLegs
  <2> QED BY <1>1, <1>2, <2>2
<1> QED BY <1>1, <1>2, <1>3, <1>5 DEF Stopping, legs

LEMMA ThreeLegsStop ==
  ASSUME NEW f, NEW p, NEW s \in Int, NEW r \in Int, NEW l \in Int
  PROVE  Stopping(<<Leg(f, p, s), Leg(p, p, r), Leg(p, 0, l)>>, f, s + r + l)
<1> DEFINE legs == <<Leg(f, p, s), Leg(p, p, r), Leg(p, 0, l)>>
<1>1. Len(legs) = 3 /\ legs[1] = Leg(f, p, s) /\ legs[2] = Leg(p, p, r) /\ legs[3] = Leg(p, 0, l)
  OBVIOUS
<1> HIDE DEF legs
<1>2. /\ legs[1].s = s /\ legs[1].from2 = f /\ legs[1].to2 = p
      /\ legs[2].s = r /\ legs[2].from2 = p /\ legs[2].to2 = p
      /\ legs[3].s = l /\ legs[3].from2 = p /\ legs[3].to2 = 0
  BY <1>1 DEF Leg
<1>3. \A i \in 2 .. 3 : (i = 2 /\ i - 1 = 1) \/ (i = 3 /\ i - 1 = 2)
  OBVIOUS
<1>4. \A i \in 1 .. 3 : i = 1 \/ i = 2 \/ i = 3
  OBVIOUS
<1>5. WayOf(legs) = s + r + l
  <2>1. \A i \in 1 .. Len(legs) : legs[i].s \in Int
    BY <1>1, <1>2, <1>4
  <2>2. WayOf(legs) = IF Len(legs) = 1 THEN legs[1].s
                      ELSE IF Len(legs) = 2 THEN legs[1].s + legs[2].s
                      ELSE legs[1].s + legs[2].s + legs[3].s
    <3>1. Len(legs) \in {1, 2, 3}
      BY <1>1
    <3> QED BY <2>1, <3>1, WayOfLegs
  <2> QED BY <1>1, <1>2, <2>2
<1> QED BY <1>1, <1>2, <1>3, <1>5 DEF Stopping, legs


\* What CalStParamsDirectly makes of its parameters when nothing is rounded: the way k to a
\* stop and the way m from max_v to a stop, what is left before, and how z shares that out
\* between a gain of speed and a loss.
KnownLegs(q, acc, max_v, v2, max2, k, m, rest, up, z, peak2, legs) ==
  /\ k \in Nat /\ m \in Nat
  /\ rest <= 0 => legs = IF v2 <= 2 * q.dist * q.max_deceleration THEN <<Leg(v2, 0, q.dist)>> ELSE <<>>
  /\ rest > 0 /\ q.v > max_v => legs = <<Leg(v2, max2, k - m), Leg(max2, max2, rest), Leg(max2, 0, m)>>
  /\ rest > 0 /\ q.v = max_v => legs = <<Leg(v2, v2, rest), Leg(v2, 0, k)>>
  /\ rest > 0 /\ q.v < max_v /\ acc = 0 => legs \in {<<>>, <<Leg(v2, v2, rest), Leg(v2, 0, k)>>}
  /\ rest > 0 /\ q.v < max_v /\ acc # 0 /\ rest > up + (m - k) =>
       legs = <<Leg(v2, max2, up), Leg(max2, max2, rest - up - (m - k)), Leg(max2, 0, m)>>
  /\ rest > 0 /\ q.v < max_v /\ acc # 0 /\ ~(rest > up + (m - k)) =>
       z \in Int /\ legs = <<Leg(v2, peak2, z), Leg(peak2, 0, k + rest - z)>>

LegsKnown(q, acc, dec, max_v) ==
  LET v2 == q.v * q.v
      max2 == max_v * max_v
      k == v2 \div (2 * dec)
      rest == q.dist - k
      z == (dec * rest) \div (acc + dec)
  IN KnownLegs(q, acc, max_v, v2, max2, k, max2 \div (2 * dec), rest, (max2 - v2) \div (2 * acc),
               z, v2 + 2 * acc * z, CalStParamsDirectly(q, acc, dec, max_v))

LEMMA LegsAre ==
  ASSUME NEW q, q.v \in Nat, q.dist \in Nat, NEW acc \in Nat, NEW dec \in Nat \ {0},
         NEW max_v \in Nat \ {0},
         Exact(q.v * q.v, 2 * dec), Exact(max_v * max_v, 2 * dec),
         acc # 0 => Exact(dec * (q.dist - (q.v * q.v) \div (2 * dec)), acc + dec)
  PROVE  LegsKnown(q, acc, dec, max_v)
<1> DEFINE v2 == q.v * q.v
           max2 == max_v * max_v
           two == 2 * dec
           k == v2 \div two
           m == max2 \div two
           rest == q.dist - k
           up == (max2 - v2) \div (2 * acc)
           z == (dec * rest) \div (acc + dec)
           peak2 == v2 + 2 * acc * z
           legs == CalStParamsDirectly(q, acc, dec, max_v)
<1>1. v2 \in Nat /\ max2 \in Nat /\ two \in Nat \ {0}
  OBVIOUS
<1>2. v2 = two * k /\ max2 = two * m
  BY DEF Exact
<1>3. k \in Nat /\ m \in Nat
  <2> HIDE DEF v2, max2, two
  <2> QED BY <1>1, StepsBefore
<1>4. SlowDown(v2, max2, dec) = Leg(v2, max2, k - m) /\ SlowDown(max2, v2, dec) = Leg(max2, v2, m - k)
  <2>1. SlowDown(v2, max2, dec) = Leg(v2, max2, (v2 - max2) \div two)
        /\ SlowDown(max2, v2, dec) = Leg(max2, v2, (max2 - v2) \div two)
    BY DEF SlowDown
  <2> HIDE DEF v2, max2, two, k, m
  <2>2. v2 - max2 = (k - m) * two /\ max2 - v2 = (m - k) * two
    BY <1>1, <1>2, <1>3
  <2>3. k - m \in Int /\ m - k \in Int
    BY <1>3
  <2> DEFINE d == k - m
             e == m - k
  <2>4. (d * two) \div two = d /\ (e * two) \div two = e
    <3> HIDE DEF d, e
    <3>1. d \in Int /\ e \in Int
      BY <2>3 DEF d, e
    <3> QED BY <1>1, <3>1, ExactQuotient
  <2> QED BY <2>1, <2>2, <2>4
<1>5. SlowDown(v2, 0, dec) = Leg(v2, 0, k) /\ SlowDown(max2, 0, dec) = Leg(max2, 0, m)
  <2>1. SlowDown(v2, 0, dec) = Leg(v2, 0, (v2 - 0) \div two)
        /\ SlowDown(max2, 0, dec) = Leg(max2, 0, (max2 - 0) \div two)
    BY DEF SlowDown
  <2>2. v2 - 0 = v2 /\ max2 - 0 = max2
    BY <1>1
  <2> QED BY <2>1, <2>2
<1>6. rest \in Int
  BY <1>3
<1>7. acc # 0 => /\ z \in Int
                 /\ (2 * acc * dec * rest) \div (acc + dec) = 2 * acc * z
                 /\ SpeedUp(v2, peak2, acc) = Leg(v2, peak2, z)
                 /\ SlowDown(peak2, 0, dec) = Leg(peak2, 0, k + rest - z)
  <2> SUFFICES ASSUME acc # 0
               PROVE /\ z \in Int
                     /\ (2 * acc * dec * rest) \div (acc + dec) = 2 * acc * z
                     /\ SpeedUp(v2, peak2, acc) = Leg(v2, peak2, z)
                     /\ SlowDown(peak2, 0, dec) = Leg(peak2, 0, k + rest - z)
    OBVIOUS
  <2> DEFINE s == acc + dec
             y == 2 * acc
  <2>1. s \in Nat \ {0} /\ y \in Nat \ {0} /\ acc \in Nat \ {0}
    OBVIOUS
  <2>2. dec * rest = s * z
    BY DEF Exact
  <2>3. z \in Int
    <3> HIDE DEF rest
    <3>1. dec * rest \in Int
      BY <1>6
    <3> DEFINE p == dec * rest
    <3> HIDE DEF p, s
    <3>2. p \div s \in Int
      BY <2>1, <3>1 DEF p
    <3> QED BY <3>2 DEF p, s
  <2> HIDE DEF z, rest, v2, k
  <2>4. 2 * acc * dec * rest = (y * z) * s
    <3>1. 2 * acc * dec * rest = y * (dec * rest)
      BY <1>6
    <3>2. y * (s * z) = (y * z) * s
      <4> HIDE DEF y, s
      <4> QED BY <2>1, <2>3
    <3> QED BY <2>2, <3>1, <3>2
  <2>5. y * z \in Int /\ y * z = 2 * acc * z
    BY <2>3
  <2>6. (2 * acc * dec * rest) \div s = y * z
    <3> DEFINE p == y * z
    <3>1. p \in Int
      BY <2>5
    <3> HIDE DEF p, s
    <3>2. (p * s) \div s = p
      BY <2>1, <3>1, ExactQuotient
    <3> QED BY <2>4, <3>2 DEF p
  <2>7. peak2 \in Int /\ peak2 - v2 = z * y
    BY <1>1, <2>3, <2>5
  <2>8. SpeedUp(v2, peak2, acc) = Leg(v2, peak2, z)
    <3>1. SpeedUp(v2, peak2, acc) = Leg(v2, peak2, (peak2 - v2) \div y)
      BY DEF SpeedUp
    <3> HIDE DEF peak2, y
    <3>2. (z * y) \div y = z
      BY <2>1, <2>3, ExactQuotient
    <3> QED BY <2>7, <3>1, <3>2
  <2>9. peak2 - 0 = (k + rest - z) * two
    <3>1. acc * z = dec * (rest - z)
      <4>1. acc * z \in Int /\ dec * z \in Int /\ dec * rest \in Int
        BY <1>6, <2>3
      <4>2. s * z = acc * z + dec * z /\ dec * (rest - z) = dec * rest - dec * z
        BY <1>6, <2>3
      <4> QED BY <2>2, <4>1, <4>2
    <3>2. 2 * acc * z = 2 * (dec * (rest - z))
      BY <2>3, <3>1
    <3>3. peak2 = two * k + 2 * (dec * (rest - z))
      BY <1>2, <3>2
    <3>4. two * k + 2 * (dec * (rest - z)) = (k + rest - z) * two
      BY <1>3, <1>6, <2>3
    <3> QED BY <2>7, <3>3, <3>4
  <2>10. SlowDown(peak2, 0, dec) = Leg(peak2, 0, k + rest - z)
    <3>1. SlowDown(peak2, 0, dec) = Leg(peak2, 0, (peak2 - 0) \div two)
      BY DEF SlowDown
    <3> DEFINE d == k + rest - z
    <3>2. d \in Int
      BY <1>3, <1>6, <2>3
    <3> HIDE DEF d, two, peak2
    <3>3. (d * two) \div two = d
      BY <1>1, <3>2, ExactQuotient
    <3>4. peak2 - 0 = d * two
      BY <2>9 DEF d
    <3> QED BY <3>1, <3>3, <3>4 DEF d
  <2> QED BY <2>3, <2>5, <2>6, <2>8, <2>10
<1>8. SpeedUp(v2, max2, acc).s = up /\ SlowDown(max2, v2, dec).s = m - k
      /\ SpeedUp(v2, max2, acc) = Leg(v2, max2, up)
  <2>1. SpeedUp(v2, max2, acc) = Leg(v2, max2, up)
    BY DEF SpeedUp
  <2> HIDE DEF up, v2, max2
  <2> QED BY <1>4, <2>1 DEF Leg
<1>9. legs = IF rest <= 0
     THEN IF v2 <= 2 * q.dist * q.max_deceleration THEN <<Leg(v2, 0, q.dist)>> ELSE <<>>
     ELSE IF q.v > max_v
     THEN <<SlowDown(v2, max2, dec), Leg(max2, max2, rest), SlowDown(max2, 0, dec)>>
     ELSE IF q.v = max_v
     THEN <<Leg(v2, v2, rest), SlowDown(v2, 0, dec)>>
     ELSE IF acc = 0
     THEN IF ~q.accelerates /\ (max_v - q.v) * 10 < 3 * q.second * q.bounds.min_acc
          THEN <<Leg(v2, v2, rest), SlowDown(v2, 0, dec)>>
          ELSE <<>>
     ELSE IF rest > SpeedUp(v2, max2, acc).s + SlowDown(max2, v2, dec).s
     THEN <<SpeedUp(v2, max2, acc),
            Leg(max2, max2, rest - SpeedUp(v2, max2, acc).s - SlowDown(max2, v2, dec).s), SlowDown(max2, 0, dec)>>
     ELSE <<SpeedUp(v2, v2 + (2 * acc * dec * rest) \div (acc + dec), acc),
            SlowDown(v2 + (2 * acc * dec * rest) \div (acc + dec), 0, dec)>>
  BY DEF CalStParamsDirectly
<1>10. acc # 0 => v2 + (2 * acc * dec * rest) \div (acc + dec) = peak2
  BY <1>7
<1> HIDE DEF legs, z, rest, k, m, peak2, v2, max2, up
<1>11. /\ rest <= 0 => legs = IF v2 <= 2 * q.dist * q.max_deceleration THEN <<Leg(v2, 0, q.dist)>> ELSE <<>>
       /\ rest > 0 /\ q.v > max_v => legs = <<Leg(v2, max2, k - m), Leg(max2, max2, rest), Leg(max2, 0, m)>>
       /\ rest > 0 /\ q.v = max_v => legs = <<Leg(v2, v2, rest), Leg(v2, 0, k)>>
  <2>1. rest <= 0 => legs = IF v2 <= 2 * q.dist * q.max_deceleration THEN <<Leg(v2, 0, q.dist)>> ELSE <<>>
    BY <1>6, <1>9
  <2>2. rest > 0 /\ q.v > max_v => legs = <<Leg(v2, max2, k - m), Leg(max2, max2, rest), Leg(max2, 0, m)>>
    BY <1>4, <1>5, <1>6, <1>9
  <2>3. rest > 0 /\ q.v = max_v => legs = <<Leg(v2, v2, rest), Leg(v2, 0, k)>>
    BY <1>5, <1>6, <1>9
  <2> QED BY <2>1, <2>2, <2>3
<1>12. rest > 0 /\ q.v < max_v /\ acc = 0 => legs \in {<<>>, <<Leg(v2, v2, rest), Leg(v2, 0, k)>>}
  BY <1>5, <1>6, <1>9
<1>13. rest > 0 /\ q.v < max_v /\ acc # 0 /\ rest > up + (m - k) =>
          legs = <<Leg(v2, max2, up), Leg(max2, max2, rest - up - (m - k)), Leg(max2, 0, m)>>
  BY <1>5, <1>6, <1>8, <1>9
<1>14. rest > 0 /\ q.v < max_v /\ acc # 0 /\ ~(rest > up + (m - k)) =>
          legs = <<Leg(v2, peak2, z), Leg(peak2, 0, k + rest - z)>>
  BY <1>6, <1>7, <1>8, <1>9, <1>10
<1>15. acc # 0 => z \in Int
  BY <1>7
<1>16. KnownLegs(q, acc, max_v, v2, max2, k, m, rest, up, z, peak2, legs)
  BY <1>3, <1>11, <1>12, <1>13, <1>14, <1>15 DEF KnownLegs
<1> QED BY <1>16 DEF LegsKnown, k, m, rest, legs, v2, max2, up, z, peak2

\* Legs that are known follow each other to a stop at the end of the way.
LEMMA KnownLegsStop ==
  ASSUME NEW q, q.v \in Nat, q.dist \in Nat, NEW acc \in Nat, NEW max_v \in Nat, NEW v2, NEW max2,
         NEW k, NEW m, NEW rest, rest = q.dist - k, NEW up, acc # 0 => up \in Int, NEW z, NEW peak2,
         q.v = max_v => v2 = max2,
         NEW legs, legs # <<>>,
         KnownLegs(q, acc, max_v, v2, max2, k, m, rest, up, z, peak2, legs)
  PROVE  Stopping(legs, v2, q.dist)
<1>1. k \in Nat /\ m \in Nat /\ rest \in Int
  BY DEF KnownLegs
<1>2. CASE rest <= 0
  <2>1. legs = <<Leg(v2, 0, q.dist)>>
    BY <1>2 DEF KnownLegs
  <2>2. q.dist \in Int
    OBVIOUS
  <2> QED BY <2>1, <2>2, OneLegStops
<1>3. CASE rest > 0 /\ q.v > max_v
  <2>1. legs = <<Leg(v2, max2, k - m), Leg(max2, max2, rest), Leg(max2, 0, m)>>
    BY <1>3 DEF KnownLegs
  <2> DEFINE s == k - m
  <2>2. s \in Int /\ s + rest + m = q.dist
    BY <1>1
  <2> HIDE DEF s
  <2>3. Stopping(<<Leg(v2, max2, s), Leg(max2, max2, rest), Leg(max2, 0, m)>>, v2, s + rest + m)
    BY <1>1, <2>2, ThreeLegsStop
  <2> QED BY <2>1, <2>2, <2>3 DEF s
<1>4. ASSUME legs = <<Leg(v2, v2, rest), Leg(v2, 0, k)>> PROVE Stopping(legs, v2, q.dist)
  <2>1. Stopping(<<Leg(v2, v2, rest), Leg(v2, 0, k)>>, v2, rest + k)
    BY <1>1, TwoLegsStop
  <2>2. rest + k = q.dist
    BY <1>1
  <2> QED BY <1>4, <2>1, <2>2
<1>5. CASE rest > 0 /\ q.v = max_v
  BY <1>4, <1>5 DEF KnownLegs
<1>6. CASE rest > 0 /\ q.v < max_v /\ acc = 0
  BY <1>4, <1>6 DEF KnownLegs
<1>7. CASE rest > 0 /\ q.v < max_v /\ acc # 0 /\ rest > up + (m - k)
  <2>1. legs = <<Leg(v2, max2, up), Leg(max2, max2, rest - up - (m - k)), Leg(max2, 0, m)>>
    BY <1>7 DEF KnownLegs
  <2> DEFINE r == rest - up - (m - k)
  <2>2. up \in Int /\ r \in Int /\ up + r + m = q.dist
    BY <1>1, <1>7
  <2> HIDE DEF r
  <2>3. Stopping(<<Leg(v2, max2, up), Leg(max2, max2, r), Leg(max2, 0, m)>>, v2, up + r + m)
    BY <1>1, <2>2, ThreeLegsStop
  <2> QED BY <2>1, <2>2, <2>3 DEF r
<1>8. CASE rest > 0 /\ q.v < max_v /\ acc # 0 /\ ~(rest > up + (m - k))
  <2>1. z \in Int /\ legs = <<Leg(v2, peak2, z), Leg(peak2, 0, k + rest - z)>>
    BY <1>8 DEF KnownLegs
  <2> DEFINE r == k + rest - z
  <2>2. r \in Int /\ z + r = q.dist
    BY <1>1, <2>1
  <2> HIDE DEF r
  <2>3. Stopping(<<Leg(v2, peak2, z), Leg(peak2, 0, r)>>, v2, z + r)
    BY <2>1, <2>2, TwoLegsStop
  <2> QED BY <2>1, <2>2, <2>3 DEF r
<1> QED BY <1>1, <1>2, <1>3, <1>5, <1>6, <1>7, <1>8

\* What the parameters of a query are known to make, whichever the candidates are.
LEMMA CandidatesAreKnown ==
  ASSUME NEW q \in SampleQueries, WholeWays(q),
         NEW acc \in CandidateMaxAccs(q.bounds), NEW dec \in CandidateMinAccs(q.bounds),
         NEW max_v \in CandidateMaxV(q.bounds)
  PROVE  /\ acc \in Nat /\ dec \in Nat \ {0} /\ max_v \in Nat \ {0}
         /\ LegsKnown(q, acc, dec, max_v)
<1>1. q.v \in Nat /\ q.dist \in Nat /\ q.bounds \in SampleBounds
  BY DEF SampleQueries
<1>2. acc \in Nat /\ dec \in Nat \ {0} /\ max_v \in Nat \ {0}
  BY <1>1, CandidatesAre
<1>3. Exact(q.v * q.v, 2 * dec) /\ Exact(max_v * max_v, 2 * dec)
  BY DEF WholeWays, Exact
<1>4. acc # 0 => Exact(dec * (q.dist - (q.v * q.v) \div (2 * dec)), acc + dec)
  BY DEF WholeWays, Exact
<1> QED BY <1>1, <1>2, <1>3, <1>4, LegsAre

\* Every curve that is sampled stops at the end of the way.
LEMMA SampledStop ==
  ASSUME NEW q \in SampleQueries, WholeWays(q), NEW legs \in SampleProcess(q)
  PROVE  Stopping(legs, q.v * q.v, q.dist)
<1>1. q.v \in Nat /\ q.dist \in Nat /\ q.bounds \in SampleBounds
  BY DEF SampleQueries
<1>2. PICK max_v \in CandidateMaxV(q.bounds) : legs \in CurvesUseMaxV(q, max_v)
  BY DEF SampleProcess
<1>3. q.bounds.max_acc \in CandidateMaxAccs(q.bounds)
  BY <1>1, CandidatesAre
<1>4. PICK acc \in CandidateMaxAccs(q.bounds), dec \in CandidateMinAccs(q.bounds) :
        legs = CalStParamsDirectly(q, acc, dec, max_v) /\ IsTShapeParamsValid(q, legs)
  BY <1>2, <1>3 DEF CurvesUseMaxV
<1>5. legs # <<>>
  BY <1>4 DEF IsTShapeParamsValid
<1>6. acc \in Nat /\ dec \in Nat \ {0} /\ max_v \in Nat \ {0} /\ LegsKnown(q, acc, dec, max_v)
  <2>1. acc \in Nat /\ dec \in Nat \ {0} /\ max_v \in Nat \ {0}
    BY CandidatesAreKnown
  <2>2. LegsKnown(q, acc, dec, max_v)
    BY CandidatesAreKnown
  <2> QED BY <2>1, <2>2
<1> DEFINE v2 == q.v * q.v
           max2 == max_v * max_v
           k == v2 \div (2 * dec)
           m == max2 \div (2 * dec)
           rest == q.dist - k
           up == (max2 - v2) \div (2 * acc)
           z == (dec * rest) \div (acc + dec)
           peak2 == v2 + 2 * acc * z
<1>7. KnownLegs(q, acc, max_v, v2, max2, k, m, rest, up, z, peak2, legs)
  BY <1>4, <1>6 DEF LegsKnown
<1>8. acc # 0 => up \in Int
  <2> SUFFICES ASSUME acc # 0 PROVE up \in Int
    OBVIOUS
  <2> DEFINE n == max2 - v2
             y == 2 * acc
  <2>1. n \in Int /\ y \in Nat \ {0}
    BY <1>1, <1>6
  <2> HIDE DEF n, y
  <2>2. n \div y \in Int
    BY <2>1
  <2> QED BY <2>2 DEF n, y
<1>9. q.v = max_v => v2 = max2
  OBVIOUS
<1>10. rest = q.dist - k
  OBVIOUS
<1> HIDE DEF v2, max2, k, m, rest, up, z, peak2
<1>11. Stopping(legs, v2, q.dist)
  BY <1>1, <1>5, <1>6, <1>7, <1>8, <1>9, <1>10, KnownLegsStop
<1> QED BY <1>11 DEF v2

-----------------------------------------------------------------------------
(* Which sampled legs are valid *)

\* What makes a curve of one, two or three legs a valid one.
Ends(from2, to2, s, b) ==
  /\ from2 \in Nat /\ to2 \in Nat /\ s \in Nat \ {0}
  /\ to2 - from2 <= 2 * s * b.max_acc /\ from2 - to2 <= 2 * s * b.max_dec

Slow(peak2, b) ==
  peak2 \in Nat \ {0} /\ peak2 <= b.min_speed * b.min_speed /\ peak2 <= b.max_speed * b.max_speed

LEMMA ValidLeg ==
  ASSUME NEW b, NEW f, NEW p, NEW s, Ends(f, p, s, b)
  PROVE  /\ Leg(f, p, s).s > 0
         /\ Leg(f, p, s).to2 - Leg(f, p, s).from2 <= 2 * Leg(f, p, s).s * b.max_acc
         /\ Leg(f, p, s).from2 - Leg(f, p, s).to2 <= 2 * Leg(f, p, s).s * b.max_dec
<1> DEFINE leg == Leg(f, p, s)
<1>1. leg.s = s /\ leg.from2 = f /\ leg.to2 = p
  BY DEF Leg
<1> HIDE DEF leg
<1>2. /\ leg.s > 0 /\ leg.to2 - leg.from2 <= 2 * leg.s * b.max_acc
      /\ leg.from2 - leg.to2 <= 2 * leg.s * b.max_dec
  BY <1>1 DEF Ends
<1> QED BY <1>2 DEF leg

LEMMA ValidOne ==
  ASSUME NEW q \in SampleQueries, NEW f, NEW s, Ends(f, 0, s, q.bounds)
  PROVE  IsTShapeParamsValid(q, <<Leg(f, 0, s)>>)
<1> DEFINE legs == <<Leg(f, 0, s)>>
<1>1. legs # <<>> /\ Len(legs) = 1 /\ DOMAIN legs = 1 .. 1 /\ legs[1] = Leg(f, 0, s)
  OBVIOUS
<1> HIDE DEF legs
<1>2. \A i \in DOMAIN legs :
          /\ legs[i].s > 0
          /\ legs[i].to2 - legs[i].from2 <= 2 * legs[i].s * q.bounds.max_acc
          /\ legs[i].from2 - legs[i].to2 <= 2 * legs[i].s * q.bounds.max_dec
  <2> SUFFICES ASSUME NEW i \in DOMAIN legs
               PROVE  /\ legs[i].s > 0
                      /\ legs[i].to2 - legs[i].from2 <= 2 * legs[i].s * q.bounds.max_acc
                      /\ legs[i].from2 - legs[i].to2 <= 2 * legs[i].s * q.bounds.max_dec
    OBVIOUS
  <2>1. legs[i] = Leg(f, 0, s)
    BY <1>1
  <2> QED BY <2>1, ValidLeg
<1>3. IsTShapeParamsValid(q, legs)
  BY <1>1, <1>2 DEF IsTShapeParamsValid
<1> QED BY <1>3 DEF legs

LEMMA ValidTwo ==
  ASSUME NEW q \in SampleQueries, NEW f, NEW p, NEW s, NEW r, Ends(f, p, s, q.bounds),
         Ends(p, 0, r, q.bounds), Slow(p, q.bounds)
  PROVE  IsTShapeParamsValid(q, <<Leg(f, p, s), Leg(p, 0, r)>>)
<1> DEFINE legs == <<Leg(f, p, s), Leg(p, 0, r)>>
<1>1. legs # <<>> /\ Len(legs) = 2 /\ DOMAIN legs = 1 .. 2 /\ legs[1] = Leg(f, p, s) /\ legs[2] = Leg(p, 0, r)
  OBVIOUS
<1> HIDE DEF legs
<1>2. \A i \in DOMAIN legs :
          /\ legs[i].s > 0
          /\ legs[i].to2 - legs[i].from2 <= 2 * legs[i].s * q.bounds.max_acc
          /\ legs[i].from2 - legs[i].to2 <= 2 * legs[i].s * q.bounds.max_dec
  <2> SUFFICES ASSUME NEW i \in DOMAIN legs
               PROVE  /\ legs[i].s > 0
                      /\ legs[i].to2 - legs[i].from2 <= 2 * legs[i].s * q.bounds.max_acc
                      /\ legs[i].from2 - legs[i].to2 <= 2 * legs[i].s * q.bounds.max_dec
    OBVIOUS
  <2>1. legs[i] = Leg(f, p, s) \/ legs[i] = Leg(p, 0, r)
    BY <1>1
  <2>2. CASE legs[i] = Leg(f, p, s)
    BY <2>2, ValidLeg
  <2>3. CASE legs[i] = Leg(p, 0, r)
    BY <2>3, ValidLeg
  <2> QED BY <2>1, <2>2, <2>3
<1>3. legs[1].to2 = p
  BY <1>1 DEF Leg
<1>4. p > 0 /\ p <= q.bounds.max_speed * q.bounds.max_speed /\ ~(p > q.bounds.min_speed * q.bounds.min_speed)
  <2>1. q.bounds.min_speed \in Nat
    BY DEF SampleQueries, SampleBounds
  <2> DEFINE min2 == q.bounds.min_speed * q.bounds.min_speed
  <2>2. min2 \in Nat
    BY <2>1
  <2>3. p \in Nat \ {0} /\ p <= min2 /\ p <= q.bounds.max_speed * q.bounds.max_speed
    BY DEF Slow
  <2> HIDE DEF min2
  <2>4. p > 0 /\ ~(p > min2)
    BY <2>2, <2>3
  <2> QED BY <2>3, <2>4 DEF min2
<1>5. IsTShapeParamsValid(q, legs)
  BY <1>1, <1>2, <1>3, <1>4 DEF IsTShapeParamsValid
<1> QED BY <1>5 DEF legs

LEMMA ValidThree ==
  ASSUME NEW q \in SampleQueries, NEW f, NEW p, NEW s, NEW r, NEW l, Ends(f, p, s, q.bounds),
         Ends(p, p, r, q.bounds), Ends(p, 0, l, q.bounds), Slow(p, q.bounds)
  PROVE  IsTShapeParamsValid(q, <<Leg(f, p, s), Leg(p, p, r), Leg(p, 0, l)>>)
<1> DEFINE legs == <<Leg(f, p, s), Leg(p, p, r), Leg(p, 0, l)>>
<1>1. legs # <<>> /\ Len(legs) = 3 /\ DOMAIN legs = 1 .. 3
      /\ legs[1] = Leg(f, p, s) /\ legs[2] = Leg(p, p, r) /\ legs[3] = Leg(p, 0, l)
  OBVIOUS
<1> HIDE DEF legs
<1>2. \A i \in DOMAIN legs :
          /\ legs[i].s > 0
          /\ legs[i].to2 - legs[i].from2 <= 2 * legs[i].s * q.bounds.max_acc
          /\ legs[i].from2 - legs[i].to2 <= 2 * legs[i].s * q.bounds.max_dec
  <2> SUFFICES ASSUME NEW i \in DOMAIN legs
               PROVE  /\ legs[i].s > 0
                      /\ legs[i].to2 - legs[i].from2 <= 2 * legs[i].s * q.bounds.max_acc
                      /\ legs[i].from2 - legs[i].to2 <= 2 * legs[i].s * q.bounds.max_dec
    OBVIOUS
  <2>1. legs[i] = Leg(f, p, s) \/ legs[i] = Leg(p, p, r) \/ legs[i] = Leg(p, 0, l)
    BY <1>1
  <2>2. CASE legs[i] = Leg(f, p, s)
    BY <2>2, ValidLeg
  <2>3. CASE legs[i] = Leg(p, p, r)
    BY <2>3, ValidLeg
  <2>4. CASE legs[i] = Leg(p, 0, l)
    BY <2>4, ValidLeg
  <2> QED BY <2>1, <2>2, <2>3, <2>4
<1>3. legs[1].to2 = p
  BY <1>1 DEF Leg
<1>4. p > 0 /\ p <= q.bounds.max_speed * q.bounds.max_speed /\ ~(p > q.bounds.min_speed * q.bounds.min_speed)
  <2>1. q.bounds.min_speed \in Nat
    BY DEF SampleQueries, SampleBounds
  <2> DEFINE min2 == q.bounds.min_speed * q.bounds.min_speed
  <2>2. min2 \in Nat
    BY <2>1
  <2>3. p \in Nat \ {0} /\ p <= min2 /\ p <= q.bounds.max_speed * q.bounds.max_speed
    BY DEF Slow
  <2> HIDE DEF min2
  <2>4. p > 0 /\ ~(p > min2)
    BY <2>2, <2>3
  <2> QED BY <2>3, <2>4 DEF min2
<1>5. IsTShapeParamsValid(q, legs)
  BY <1>1, <1>2, <1>3, <1>4 DEF IsTShapeParamsValid
<1> QED BY <1>5 DEF legs

\* In whole numbers: the squares and the products of larger numbers are larger.
LEMMA SquaresGrow ==
  ASSUME NEW a \in Nat, NEW b \in Nat
  PROVE  (a <= b => a * a <= b * b) /\ (a < b => a * a < b * b)
<1>1. a <= b => a * a <= a * b /\ a * b <= b * b
  OBVIOUS
<1>2. a < b => a * a <= a * b /\ a * b < b * b
  OBVIOUS
<1>3. a * a \in Nat /\ a * b \in Nat /\ b * b \in Nat
  OBVIOUS
<1> QED BY <1>1, <1>2, <1>3

LEMMA FactorsGrow ==
  ASSUME NEW d \in Nat \ {0}, NEW a \in Int, NEW b \in Int, d * a < d * b
  PROVE  a < b
<1>1. a >= b => d * a >= d * b
  OBVIOUS
<1>2. d * a \in Int /\ d * b \in Int
  OBVIOUS
<1> QED BY <1>1, <1>2

\* In whole numbers: how fast the vehicle gets when the way before the braking is shared
\* between a gain by a and a loss by d.
LEMMA PeakIsBounded ==
  ASSUME NEW a \in Nat \ {0}, NEW d \in Nat \ {0}, NEW rest \in Int, NEW z \in Int,
         NEW up \in Int, NEW down \in Int, NEW w \in Int,
         d * rest = (a + d) * z, w = 2 * a * up, w = 2 * d * down, rest <= up + down
  PROVE  2 * a * z <= w
<1>1. 2 * a * (d * rest) <= 2 * a * (d * (up + down))
  <2>1. d * rest <= d * (up + down)
    OBVIOUS
  <2> DEFINE x == d * rest
             y == d * (up + down)
  <2>2. x \in Int /\ y \in Int
    OBVIOUS
  <2> HIDE DEF x, y
  <2>3. x <= y
    BY <2>1 DEF x, y
  <2>4. 2 * a * x <= 2 * a * y
    BY <2>2, <2>3
  <2> QED BY <2>4 DEF x, y
<1>2. 2 * a * (d * (up + down)) = (a + d) * w
  <2>1. 2 * a * (d * (up + down)) = d * (2 * a * up) + a * (2 * d * down)
    OBVIOUS
  <2>2. d * w + a * w = (a + d) * w
    OBVIOUS
  <2> QED BY <2>1, <2>2
<1>3. 2 * a * ((a + d) * z) = (a + d) * (2 * a * z)
  OBVIOUS
<1> DEFINE s == a + d
           p == 2 * a * z
<1>4. s \in Nat \ {0} /\ p \in Int /\ s * p <= s * w
  BY <1>1, <1>2, <1>3
<1> HIDE DEF s, p
<1>5. p <= w
  BY <1>4, Cancels
<1> QED BY <1>5 DEF p

\* Which known legs are valid ones, if the greatest acceleration and deceleration are
\* taken and the least of the greatest speeds.
LEMMA KnownLegsAreValid ==
  ASSUME NEW q \in SampleQueries, NEW v2 \in Nat, NEW max2 \in Nat \ {0},
         NEW max_v \in Nat \ {0}, max_v = q.bounds.min_speed, max2 = max_v * max_v, v2 = q.v * q.v,
         q.bounds.min_speed <= q.bounds.max_speed, q.bounds.max_dec <= q.max_deceleration,
         q.dist > 0, v2 <= 2 * q.bounds.max_dec * q.dist,
         NEW k, NEW m, NEW rest, NEW up, NEW z, NEW peak2, NEW legs,
         v2 = 2 * q.bounds.max_dec * k, max2 = 2 * q.bounds.max_dec * m, rest = q.dist - k,
         up \in Int, max2 - v2 = 2 * q.bounds.max_acc * up,
         q.bounds.max_dec * rest = (q.bounds.max_acc + q.bounds.max_dec) * z,
         peak2 = v2 + 2 * q.bounds.max_acc * z,
         KnownLegs(q, q.bounds.max_acc, max_v, v2, max2, k, m, rest, up, z, peak2, legs)
  PROVE  IsTShapeParamsValid(q, legs)
<1> DEFINE b == q.bounds
           a == b.max_acc
           d == b.max_dec
<1>1. a \in Nat \ {0} /\ d \in Nat \ {0} /\ q.dist \in Nat \ {0} /\ q.v \in Nat
      /\ q.max_deceleration \in Nat /\ b.max_speed \in Nat /\ b \in SampleBounds /\ a # 0
  BY DEF SampleQueries, SampleBounds
<1>2. k \in Nat /\ m \in Nat /\ rest \in Int
  BY <1>1 DEF KnownLegs
<1> HIDE DEF a, d, b
<1>3. m > 0
  <2> SUFFICES ASSUME m = 0 PROVE FALSE
    BY <1>2
  <2>1. 2 * d * 0 = 0
    BY <1>1
  <2> QED BY <2>1 DEF d, b
<1>4. /\ \A s \in Nat : 2 * s * a \in Nat /\ 2 * s * d \in Nat
      /\ \A s \in Nat : 2 * s * d = 2 * d * s /\ 2 * s * a = 2 * a * s
  BY <1>1
<1>5. \A p \in Nat, s \in Nat \ {0} : p = 2 * d * s => Ends(p, 0, s, b)
  <2> SUFFICES ASSUME NEW p \in Nat, NEW s \in Nat \ {0}, p = 2 * d * s PROVE Ends(p, 0, s, b)
    OBVIOUS
  <2>1. 2 * s * a \in Nat /\ 2 * s * d = p
    BY <1>4
  <2>2. 0 - p <= 2 * s * a /\ p - 0 <= 2 * s * d
    BY <2>1
  <2> QED BY <2>2 DEF Ends, a, d
<1>6. Slow(max2, b) /\ \A p \in Nat \ {0} : p <= max2 => Slow(p, b)
  <2>1. max2 <= b.max_speed * b.max_speed
    BY <1>1, SquaresGrow DEF b
  <2>2. max2 = b.min_speed * b.min_speed
    BY DEF b
  <2> DEFINE top == b.max_speed * b.max_speed
  <2>3. top \in Nat
    BY <1>1
  <2> HIDE DEF top
  <2>4. \A p \in Nat \ {0} : p <= max2 => p <= top
    BY <2>1, <2>3 DEF top
  <2> QED BY <2>1, <2>2, <2>4 DEF Slow, top
<1>7. Ends(max2, 0, m, b)
  BY <1>2, <1>3, <1>5 DEF d, b
<1>8. \A p \in Nat, s \in Nat \ {0} : Ends(p, p, s, b)
  <2> SUFFICES ASSUME NEW p \in Nat, NEW s \in Nat \ {0} PROVE Ends(p, p, s, b)
    OBVIOUS
  <2>1. 2 * s * a \in Nat /\ 2 * s * d \in Nat
    BY <1>4
  <2>2. p - p <= 2 * s * a /\ p - p <= 2 * s * d
    BY <2>1
  <2> QED BY <2>2 DEF Ends, a, d
<1>9. CASE rest <= 0
  <2>1. v2 <= 2 * q.dist * q.max_deceleration
    <3>1. 2 * d * q.dist <= 2 * q.dist * q.max_deceleration
      BY <1>1 DEF d, b
    <3> DEFINE x == 2 * d * q.dist
               y == 2 * q.dist * q.max_deceleration
    <3>2. x \in Int /\ y \in Int
      BY <1>1
    <3>3. v2 <= x
      BY DEF d, b
    <3> HIDE DEF x, y
    <3>4. v2 <= y
      BY <3>1, <3>2, <3>3 DEF x, y
    <3> QED BY <3>4 DEF y
  <2>2. legs = <<Leg(v2, 0, q.dist)>>
    BY <1>9, <2>1 DEF KnownLegs
  <2>3. Ends(v2, 0, q.dist, b)
    <3>1. 2 * q.dist * a \in Nat /\ 2 * q.dist * d = 2 * d * q.dist
      BY <1>1, <1>4
    <3>2. v2 <= 2 * q.dist * d /\ 2 * q.dist * d \in Nat
      BY <1>1, <1>4, <3>1 DEF d, b
    <3>3. 0 - v2 <= 2 * q.dist * a /\ v2 - 0 <= 2 * q.dist * d
      BY <3>1, <3>2
    <3> QED BY <1>1, <3>3 DEF Ends, a, d
  <2> QED BY <2>2, <2>3, ValidOne DEF b
<1>10. CASE rest > 0 /\ q.v > max_v
  <2>1. legs = <<Leg(v2, max2, k - m), Leg(max2, max2, rest), Leg(max2, 0, m)>>
    BY <1>10 DEF KnownLegs
  <2> DEFINE s == k - m
             e == 2 * d
  <2>2. max2 < v2
    BY <1>1, <1>10, SquaresGrow
  <2>3. e \in Nat \ {0} /\ max2 = e * m /\ v2 = e * k
    BY <1>1 DEF d, b
  <2>4. s \in Nat \ {0}
    <3> HIDE DEF e
    <3>1. m < k
      BY <1>2, <2>2, <2>3, FactorsGrow
    <3> QED BY <1>2, <3>1
  <2>5. Ends(v2, max2, s, b)
    <3>1. v2 - max2 = 2 * s * d
      BY <1>1, <1>2, <2>3
    <3> HIDE DEF s, e
    <3>2. 2 * s * a \in Nat
      BY <1>4, <2>4
    <3>3. max2 - v2 <= 2 * s * a
      BY <2>2, <3>2
    <3>4. v2 - max2 \in Int
      OBVIOUS
    <3>5. v2 - max2 <= 2 * s * d
      BY <3>1, <3>4
    <3> QED BY <2>4, <3>3, <3>5 DEF Ends, a, d
  <2>6. Ends(max2, max2, rest, b)
    BY <1>2, <1>8, <1>10
  <2> HIDE DEF s, e
  <2> QED BY <1>6, <1>7, <2>1, <2>5, <2>6, ValidThree DEF b, s
<1>11. CASE rest > 0 /\ q.v = max_v
  <2>1. legs = <<Leg(v2, v2, rest), Leg(v2, 0, k)>>
    BY <1>11 DEF KnownLegs
  <2>2. v2 = max2
    BY <1>11
  <2>3. k > 0
    <3> SUFFICES ASSUME k = 0 PROVE FALSE
      BY <1>2
    <3>1. 2 * d * 0 = 0
      BY <1>1
    <3> QED BY <2>2, <3>1 DEF d, b
  <2>4. Ends(v2, 0, k, b)
    BY <1>2, <1>5, <2>3 DEF d, b
  <2>5. Ends(v2, v2, rest, b)
    BY <1>2, <1>8, <1>11
  <2> QED BY <1>6, <2>1, <2>2, <2>4, <2>5, ValidTwo DEF b
<1>12. q.v < max_v => v2 < max2
  BY <1>1, SquaresGrow
<1>13. CASE rest > 0 /\ q.v < max_v /\ rest > up + (m - k)
  <2> DEFINE r == rest - up - (m - k)
             e == 2 * a
  <2>1. legs = <<Leg(v2, max2, up), Leg(max2, max2, r), Leg(max2, 0, m)>>
    BY <1>1, <1>13 DEF KnownLegs, a, b
  <2>2. r \in Nat \ {0}
    BY <1>2, <1>13
  <2> HIDE DEF r
  <2>3. e \in Nat \ {0} /\ max2 - v2 = e * up /\ max2 - v2 > 0 /\ max2 - v2 \in Int
    BY <1>1, <1>12, <1>13 DEF a, b
  <2>4. up > 0
    <3> HIDE DEF e
    <3>1. e * 0 = 0
      BY <2>3
    <3>2. e * 0 < e * up
      BY <2>3, <3>1
    <3>3. 0 \in Int
      OBVIOUS
    <3> QED BY <2>3, <3>2, <3>3, FactorsGrow
  <2>5. Ends(v2, max2, up, b)
    <3>1. up \in Nat /\ up # 0 /\ e * up = 2 * up * a
      BY <1>4, <2>4
    <3>2. 2 * up * d \in Nat
      BY <1>4, <3>1
    <3> HIDE DEF e
    <3>3. max2 - v2 <= 2 * up * a /\ v2 - max2 <= 2 * up * d
      BY <2>3, <3>1, <3>2
    <3> QED BY <3>1, <3>3 DEF Ends, a, d
  <2>6. Ends(max2, max2, r, b)
    BY <1>8, <2>2
  <2> QED BY <1>6, <1>7, <2>1, <2>5, <2>6, ValidThree DEF b
<1>14. CASE rest > 0 /\ q.v < max_v /\ ~(rest > up + (m - k))
  <2>1. z \in Int /\ legs = <<Leg(v2, peak2, z), Leg(peak2, 0, k + rest - z)>>
    BY <1>1, <1>14 DEF KnownLegs, a, b
  <2> DEFINE r == k + rest - z
             s == a + d
             g == 2 * a * z
  <2>2. d * rest = s * z
    BY DEF a, b, d
  <2>3. s \in Nat \ {0} /\ s * z = a * z + d * z /\ d * rest \in Int /\ a * z \in Int /\ d * z \in Int
    BY <1>1, <1>2, <2>1
  <2>4. z > 0
    <3>1. d * rest > 0
      BY <1>1, <1>2, <1>14
    <3> HIDE DEF s
    <3>2. s * 0 = 0 /\ 0 \in Int
      BY <2>3
    <3>3. s * 0 < s * z
      BY <2>2, <2>3, <3>1, <3>2
    <3> QED BY <2>1, <2>3, <3>2, <3>3, FactorsGrow
  <2>5. a * z > 0
    BY <1>1, <2>1, <2>4
  <2>6. rest - z > 0 /\ d * (rest - z) = a * z
    <3>1. d * z < d * rest
      <4> HIDE DEF s
      <4> QED BY <2>2, <2>3, <2>5
    <3>2. z < rest
      BY <1>1, <1>2, <2>1, <3>1, FactorsGrow
    <3>3. d * (rest - z) = d * rest - d * z
      BY <1>1, <1>2, <2>1
    <3> HIDE DEF s
    <3> QED BY <1>2, <2>1, <2>2, <2>3, <3>2, <3>3
  <2>7. r \in Nat \ {0} /\ z \in Nat \ {0}
    BY <1>2, <2>1, <2>4, <2>6
  <2>8. g \in Nat \ {0} /\ g = 2 * (a * z) /\ peak2 = v2 + g
    <3>1. g = 2 * (a * z)
      BY <1>1, <2>1
    <3>2. peak2 = v2 + g
      BY DEF a, b
    <3> DEFINE h == a * z
    <3>3. h \in Int /\ h > 0 /\ g = 2 * h
      BY <2>3, <2>5, <3>1
    <3> HIDE DEF h, g
    <3>4. g \in Nat \ {0}
      BY <3>3
    <3>5. g = 2 * (a * z)
      BY <3>3 DEF h
    <3> QED BY <3>2, <3>4, <3>5
  <2>9. peak2 \in Nat \ {0} /\ peak2 - v2 = g
    <3> HIDE DEF g
    <3> QED BY <2>8
  <2>10. peak2 = 2 * d * r
    <3>1. 2 * d * r = 2 * d * k + 2 * (d * (rest - z))
      BY <1>1, <1>2, <2>1
    <3>2. v2 = 2 * d * k
      BY DEF b, d
    <3> QED BY <2>6, <2>8, <3>1, <3>2
  <2>11. peak2 <= max2
    <3> DEFINE w == max2 - v2
               down == m - k
    <3>1. w \in Int /\ down \in Int /\ w = 2 * a * up /\ d * rest = (a + d) * z
      BY <1>2, <2>2 DEF a, b
    <3>2. w = 2 * d * down
      <4>1. 2 * d * (m - k) = 2 * d * m - 2 * d * k
        BY <1>1, <1>2
      <4>2. max2 = 2 * d * m /\ v2 = 2 * d * k
        BY DEF b, d
      <4> QED BY <4>1, <4>2
    <3>3. rest <= up + down
      BY <1>2, <1>14
    <3> HIDE DEF w, down
    <3>4. 2 * a * z <= w
      BY <1>1, <1>2, <2>1, <3>1, <3>2, <3>3, PeakIsBounded
    <3>5. g <= max2 - v2
      BY <3>4 DEF w
    <3> HIDE DEF g
    <3> QED BY <2>8, <3>5
  <2>12. Ends(v2, peak2, z, b)
    <3>1. 2 * z * a = g /\ 2 * z * d \in Nat
      BY <1>4, <2>7
    <3> HIDE DEF g
    <3>2. peak2 - v2 <= 2 * z * a /\ v2 - peak2 <= 2 * z * d
      BY <2>8, <2>9, <3>1
    <3> QED BY <2>7, <2>9, <3>2 DEF Ends, a, d
  <2>13. Ends(peak2, 0, r, b)
    BY <1>5, <2>7, <2>9, <2>10
  <2> HIDE DEF r
  <2>14. Slow(peak2, b)
    BY <1>6, <2>9, <2>11
  <2>15. legs = <<Leg(v2, peak2, z), Leg(peak2, 0, r)>>
    BY <2>1 DEF r
  <2> QED BY <2>12, <2>13, <2>14, <2>15, ValidTwo DEF b
<1>15. rest <= 0 \/ rest > 0
  BY <1>2
<1>16. q.v > max_v \/ q.v = max_v \/ q.v < max_v
  <2> DEFINE v == q.v
  <2>1. \A x, y \in Nat : x > y \/ x = y \/ x < y
    OBVIOUS
  <2>2. v \in Nat /\ max_v \in Nat
    BY <1>1
  <2> QED BY <2>1, <2>2
<1> QED BY <1>9, <1>10, <1>11, <1>13, <1>14, <1>15, <1>16

\* A vehicle that can stop in time finds a curve.
LEMMA SomeCurveIsSampled ==
  ASSUME NEW q \in SampleQueries, WholeWays(q), q.bounds.min_speed <= q.bounds.max_speed,
         q.bounds.max_dec <= q.max_deceleration,
         q.dist > 0, q.v * q.v <= 2 * q.bounds.max_dec * q.dist
  PROVE  SampleProcess(q) # {}
<1> DEFINE max_v == q.bounds.min_speed
           acc == q.bounds.max_acc
           dec == q.bounds.max_dec
           v2 == q.v * q.v
           max2 == max_v * max_v
           k == v2 \div (2 * dec)
           m == max2 \div (2 * dec)
           rest == q.dist - k
           up == (max2 - v2) \div (2 * acc)
           z == (dec * rest) \div (acc + dec)
           peak2 == v2 + 2 * acc * z
           legs == CalStParamsDirectly(q, acc, dec, max_v)
<1>1. /\ q.v \in Nat /\ q.dist \in Nat /\ q.bounds \in SampleBounds
      /\ acc \in Nat \ {0} /\ dec \in Nat \ {0} /\ max_v \in Nat \ {0}
  BY DEF SampleQueries, SampleBounds
<1>2. acc \in CandidateMaxAccs(q.bounds) /\ dec \in CandidateMinAccs(q.bounds)
      /\ max_v \in CandidateMaxV(q.bounds)
  BY <1>1, CandidatesAre
<1>3. LegsKnown(q, acc, dec, max_v)
  BY <1>2, CandidatesAreKnown
<1>4. KnownLegs(q, acc, max_v, v2, max2, k, m, rest, up, z, peak2, legs)
  BY <1>3 DEF LegsKnown
<1>5. v2 = 2 * dec * k /\ max2 = 2 * dec * m /\ max2 - v2 = 2 * acc * up
      /\ dec * rest = (acc + dec) * z
  <2>1. acc \in CandidateMaxAccs(q.bounds) \ {0}
    BY <1>1, <1>2
  <2> QED BY <1>2, <2>1 DEF WholeWays
<1>6. v2 \in Nat /\ max2 \in Nat \ {0}
  <2>1. v2 \in Nat
    BY <1>1
  <2>2. max2 \in Nat \ {0}
    BY <1>1
  <2> QED BY <2>1, <2>2
<1>7. up \in Int
  <2> DEFINE n == max2 - v2
             y == 2 * acc
  <2>1. n \in Int /\ y \in Nat \ {0}
    BY <1>1, <1>6
  <2> HIDE DEF n, y
  <2>2. n \div y \in Int
    BY <2>1
  <2> QED BY <2>2 DEF n, y
<1>8. rest = q.dist - k /\ peak2 = v2 + 2 * acc * z /\ max2 = max_v * max_v /\ v2 = q.v * q.v
      /\ max_v = q.bounds.min_speed /\ v2 <= 2 * q.bounds.max_dec * q.dist
  OBVIOUS
<1> HIDE DEF v2, max2, k, m, rest, up, z, peak2, legs
<1>9. IsTShapeParamsValid(q, legs)
  BY <1>1, <1>4, <1>5, <1>6, <1>7, <1>8, KnownLegsAreValid
<1>10. legs \in CurvesUseMaxV(q, max_v)
  BY <1>2, <1>9 DEF CurvesUseMaxV, legs
<1>11. q.dist # 0
  BY <1>1
<1> QED BY <1>2, <1>10, <1>11 DEF SampleProcess

(* Whatever the speed, the way and the bounds, as long as the ways are     *)
(* whole numbers: every sampled curve drives exactly the way and stops     *)
(* there without a jump of the speed; and if the vehicle brakes as hard as *)
(* the curves ask for, it is never left without one when it can stop in    *)
(* time (SampleProcess).                                                   *)
THEOREM SampledCurvesAlwaysStop ==
  ASSUME NEW q \in SampleQueries, WholeWays(q), q.bounds.min_speed <= q.bounds.max_speed,
         q.bounds.max_dec <= q.max_deceleration
  PROVE  SampledCurvesStop(q)
<1>1. \A legs \in SampleProcess(q) : Stopping(legs, q.v * q.v, q.dist)
  BY SampledStop
<1>2. q.dist > 0 /\ q.v * q.v <= 2 * q.bounds.max_dec * q.dist => SampleProcess(q) # {}
  BY SomeCurveIsSampled
<1> QED BY <1>1, <1>2 DEF SampledCurvesStop, Stopping

-----------------------------------------------------------------------------
(* The knots and the path *)

\* Knots of a speed curve.
Knots == [t : Nat, s2 : Int, v : Int]

\* A path evaluated at a way that lies on it reaches just there.
LEMMA EvaluateReaches ==
  ASSUME NEW path \in Seq(PathPoints), path # <<>>, path[1].s = 0,
         NEW s \in Nat, s <= PathLength(path)
  PROVE  /\ Evaluate(path, s).s = s
         /\ s = 0 => Evaluate(path, s) = path[1]
<1> DEFINE n == Len(path)
           S == {i \in Nat : i \in 1 .. n /\ path[i].s >= s}
<1>1. n \in Nat \ {0} /\ DOMAIN path = 1 .. n /\ 1 \in 1 .. n /\ n \in 1 .. n
  OBVIOUS
<1>2. \A i \in 1 .. n : path[i].s \in Int
  BY <1>1, PathPointsAre DEF PathPoints
<1>3. path[n].s >= s
  <2>1. PathLength(path) = path[n].s - path[1].s
    BY DEF PathLength
  <2> DEFINE e == path[n].s
  <2>2. e \in Int /\ PathLength(path) = e - 0
    BY <1>1, <1>2, <2>1
  <2> HIDE DEF e, n
  <2>3. e >= s
    BY <2>2
  <2> QED BY <2>3 DEF e
<1>4. PICK i \in S : \A m \in S : i <= m
  <2>1. n \in S
    BY <1>1, <1>3
  <2> HIDE DEF S
  <2>2. S \in SUBSET Nat
    BY DEF S
  <2> QED BY <2>1, <2>2, LeastNumber
<1>5. i \in 1 .. n /\ i \in Nat /\ path[i].s >= s
  OBVIOUS
<1>6. \A j \in 1 .. i - 1 : path[j].s < s
  <2> SUFFICES ASSUME NEW j \in 1 .. i - 1 PROVE path[j].s < s
    OBVIOUS
  <2> HIDE DEF n
  <2>1. j \in 1 .. n /\ j \in Nat /\ j < i
    BY <1>1, <1>5
  <2>2. j \notin S
    <3> HIDE DEF S
    <3> QED BY <1>4, <1>5, <2>1
  <2>3. ~(path[j].s >= s)
    BY <2>1, <2>2
  <2> QED BY <1>2, <2>1, <2>3
<1> HIDE DEF S
<1>7. i \in LowerBound(path, s)
  BY <1>1, <1>5, <1>6 DEF LowerBound
<1>8. PICK k \in LowerBound(path, s) : k = CHOOSE m \in LowerBound(path, s) : TRUE
  BY <1>7
<1>9. k \in 1 .. n /\ path[k].s >= s /\ \A j \in 1 .. k - 1 : path[j].s < s
  BY <1>1 DEF LowerBound
<1>10. Evaluate(path, s) = IF k = 1 THEN path[1] ELSE Between(path[k-1], path[k], s)
  BY <1>7, <1>8 DEF Evaluate
<1> HIDE DEF n
<1>11. CASE k = 1
  <2>1. s = 0
    BY <1>9, <1>11
  <2> QED BY <1>10, <1>11, <2>1
<1>12. CASE k # 1
  <2>1. 1 \in 1 .. k - 1
    BY <1>1, <1>9, <1>12
  <2>2. s # 0
    BY <1>9, <2>1
  <2> QED BY <1>10, <1>12, <2>2 DEF Between, PathPoint
<1> QED BY <1>11, <1>12

\* Between knots in order the profile of a knot's own time is the knot.
LEMMA EvaluateAtKnot ==
  ASSUME NEW knots \in Seq(Knots), NEW n \in Nat, n = Len(knots),
         \A i \in 2 .. n : knots[i-1].t < knots[i].t,
         NEW i \in 1 .. n
  PROVE  EvaluateByTime(knots, knots[i].t) = knots[i]
<1>1. \A j \in 1 .. n : knots[j] \in Knots
  OBVIOUS
<1>2. \A j \in 1 .. n : knots[j].t \in Nat /\ knots[j].s2 \in Int /\ knots[j].v \in Int
                        /\ knots[j] = [t |-> knots[j].t, s2 |-> knots[j].s2, v |-> knots[j].v]
  BY <1>1 DEF Knots
<1> DEFINE P == {m \in Nat : m \in 1 .. n => \A j \in 1 .. m - 1 : knots[j].t < knots[m].t}
<1>3. 0 \in P
  OBVIOUS
<1>4. ASSUME NEW m \in P PROVE m + 1 \in P
  <2> SUFFICES ASSUME m + 1 \in 1 .. n, NEW j \in 1 .. (m + 1) - 1
               PROVE  knots[j].t < knots[m+1].t
    OBVIOUS
  <2>1. m \in 1 .. n /\ m + 1 \in 2 .. n /\ j \in 1 .. n /\ (j = m \/ j \in 1 .. m - 1)
    OBVIOUS
  <2>2. knots[m].t < knots[m+1].t
    <3>1. (m + 1) - 1 = m
      OBVIOUS
    <3> QED BY <2>1, <3>1
  <2>3. j = m \/ knots[j].t < knots[m].t
    BY <2>1
  <2>4. knots[j].t \in Nat /\ knots[m].t \in Nat /\ knots[m+1].t \in Nat
    BY <1>2, <2>1
  <2> QED BY <2>2, <2>3, <2>4
<1>5. P = Nat
  <2> HIDE DEF P
  <2>1. P \in SUBSET Nat
    BY DEF P
  <2> QED BY <1>3, <1>4, <2>1, SetInduction
<1>6. \A m \in 1 .. n, j \in 1 .. n : j < m => knots[j].t < knots[m].t
  <2> SUFFICES ASSUME NEW m \in 1 .. n, NEW j \in 1 .. n, j < m PROVE knots[j].t < knots[m].t
    OBVIOUS
  <2>1. m \in P
    <3> HIDE DEF P
    <3> QED BY <1>5
  <2>2. j \in 1 .. m - 1
    OBVIOUS
  <2> QED BY <2>1, <2>2
<1> HIDE DEF P
<1> DEFINE first(k) == knots[k].t >= knots[i].t /\ \A j \in 1 .. k - 1 : knots[j].t < knots[i].t
<1>7. first(i)
  <2>1. knots[i].t >= knots[i].t
    <3>1. knots[i].t \in Nat
      BY <1>2
    <3>2. \A t \in Nat : t >= t
      OBVIOUS
    <3> HIDE DEF first
    <3> QED BY <3>1, <3>2
  <2>2. \A j \in 1 .. i - 1 : j \in 1 .. n /\ j < i
    OBVIOUS
  <2> QED BY <1>6, <2>1, <2>2
<1>8. \A k \in 1 .. n : first(k) => k = i
  <2> SUFFICES ASSUME NEW k \in 1 .. n, first(k), k # i PROVE FALSE
    OBVIOUS
  <2>1. CASE k < i
    <3>1. knots[k].t < knots[i].t /\ knots[k].t >= knots[i].t
      BY <1>6, <2>1
    <3>2. knots[k].t \in Nat /\ knots[i].t \in Nat
      BY <1>2
    <3> HIDE DEF first
    <3> QED BY <3>1, <3>2
  <2>2. CASE k > i
    <3>1. i \in 1 .. k - 1
      BY <2>2
    <3>2. knots[i].t < knots[i].t
      BY <3>1
    <3>3. knots[i].t \in Nat
      BY <1>2
    <3> HIDE DEF first
    <3> QED BY <3>2, <3>3
  <2>3. k < i \/ k > i
    OBVIOUS
  <2> QED BY <2>1, <2>2, <2>3
<1>9. DOMAIN knots = 1 .. n
  OBVIOUS
<1>10. (CHOOSE k \in DOMAIN knots : first(k)) = i
  <2> HIDE DEF first
  <2> QED BY <1>7, <1>8, <1>9
<1>11. EvaluateByTime(knots, knots[i].t) =
         IF i = 1 THEN knots[1]
         ELSE LET p0 == knots[i-1]
                  p1 == knots[i]
              IN [t |-> knots[i].t, s2 |-> lerp(p0.s2, p0.t, p1.s2, p1.t, knots[i].t),
                  v |-> lerp(p0.v, p0.t, p1.v, p1.t, knots[i].t)]
  BY <1>10 DEF EvaluateByTime, first
<1> HIDE DEF first
<1>12. ASSUME NEW a \in Int, NEW b \in Int, NEW t0 \in Nat, NEW t1 \in Nat, t0 < t1
       PROVE  lerp(a, t0, b, t1, t1) = b
  <2> DEFINE d == t1 - t0
             e == b - a
  <2>1. d \in Nat \ {0} /\ e \in Int /\ ~(d < 0) /\ t1 # t0
    BY <1>12
  <2>2. (e * d) \div d = e
    <3> HIDE DEF d, e
    <3> QED BY <2>1, ExactQuotient
  <2>3. lerp(a, t0, b, t1, t1) = a + e
    BY <2>1, <2>2 DEF lerp, Share, Quotient
  <2> QED BY <2>3
<1>13. CASE i = 1
  BY <1>11, <1>13
<1>14. CASE i # 1
  <2>1. i \in 2 .. n /\ i - 1 \in 1 .. n
    BY <1>14
  <2>2. knots[i-1].t < knots[i].t
    BY <2>1
  <2> DEFINE p == knots[i-1]
             q == knots[i]
  <2>3. p.t \in Nat /\ p.s2 \in Int /\ p.v \in Int
    BY <1>2, <2>1
  <2>4. q.t \in Nat /\ q.s2 \in Int /\ q.v \in Int /\ q = [t |-> q.t, s2 |-> q.s2, v |-> q.v]
    BY <1>2
  <2>5. EvaluateByTime(knots, q.t) =
          [t |-> q.t, s2 |-> lerp(p.s2, p.t, q.s2, q.t, q.t), v |-> lerp(p.v, p.t, q.v, q.t, q.t)]
    BY <1>11, <1>14
  <2>6. p.t < q.t
    BY <2>2
  <2> HIDE DEF p, q
  <2>7. lerp(p.s2, p.t, q.s2, q.t, q.t) = q.s2
    BY <1>12, <2>3, <2>4, <2>6
  <2>8. lerp(p.v, p.t, q.v, q.t, q.t) = q.v
    BY <1>12, <2>3, <2>4, <2>6
  <2>9. EvaluateByTime(knots, q.t) = q
    BY <2>4, <2>5, <2>7, <2>8
  <2> QED BY <2>9 DEF q
<1> QED BY <1>13, <1>14

\* Knots in order, of which the first ones are at whole steps and the last one is less
\* than a step beyond those.
Stepped(knots, unit, size) ==
  /\ knots \in Seq(Knots) /\ Len(knots) >= 2 /\ size \in 1 .. Len(knots)
  /\ \A i \in 1 .. size : knots[i].t = (i - 1) * unit
  /\ \A i \in 2 .. Len(knots) : knots[i-1].t < knots[i].t
  /\ knots[Len(knots)].t < (size - 1) * unit + unit

\* What CombinePathAndSpeed takes for the knot of a step: after the last step, the end.
StepKnot(knots, unit, size, i) ==
  IF i <= size THEN knots[i] ELSE [knots[Len(knots)] EXCEPT !.t = size * unit]

\* The point of a trajectory at a knot.
StepPoint(forward, path, k) ==
  [point |-> Evaluate(path, k.s2), t |-> k.t, v |-> IF forward THEN k.v ELSE -k.v]

\* A trajectory of the first m steps, that ends with the path.
Combined(trajectory, forward, path, knots, unit, size, m) ==
  /\ trajectory = [i \in 1 .. m |-> StepPoint(forward, path, StepKnot(knots, unit, size, i))]
  /\ \A i \in 1 .. m : StepKnot(knots, unit, size, i).s2 <= PathLength(path)
  /\ m = size + 1 \/ ~(StepKnot(knots, unit, size, m + 1).s2 <= PathLength(path))

\* How many steps there are.
LEMMA StepsOfKnots ==
  ASSUME NEW knots, NEW unit \in Nat \ {0}, NEW size, Stepped(knots, unit, size)
  PROVE  (knots[Len(knots)].t - knots[1].t) \div unit + 1 = size
<1> DEFINE n == Len(knots)
           last == knots[n].t
           k == size - 1
<1>1. n \in Nat /\ size \in 1 .. n /\ 1 \in 1 .. n /\ n \in 1 .. n /\ 1 \in 1 .. size
  BY DEF Stepped
<1>2. \A i \in 1 .. n : knots[i].t \in Nat
  <2>1. \A i \in 1 .. n : knots[i] \in Knots
    BY DEF Stepped
  <2> QED BY <2>1 DEF Knots
<1>3. knots[1].t = 0
  <2>1. (1 - 1) * unit = 0
    OBVIOUS
  <2>2. knots[1].t = (1 - 1) * unit
    BY <1>1 DEF Stepped
  <2> QED BY <2>1, <2>2
<1>4. k * unit <= last
  <2>1. knots[size].t = k * unit
    BY <1>1 DEF Stepped
  <2> DEFINE P == {m \in Nat : m \in size .. n => knots[size].t <= knots[m].t}
  <2>2. 0 \in P
    BY <1>1
  <2>3. ASSUME NEW m \in P PROVE m + 1 \in P
    <3> SUFFICES ASSUME m + 1 \in size .. n PROVE knots[size].t <= knots[m+1].t
      OBVIOUS
    <3> HIDE DEF n
    <3>1. CASE m + 1 = size
      BY <1>1, <1>2, <3>1
    <3>2. CASE m + 1 # size
      <4>1. m \in size .. n /\ m \in 1 .. n /\ m + 1 \in 2 .. n /\ (m + 1) - 1 = m /\ m + 1 \in 1 .. n
        BY <1>1, <3>2
      <4>2. knots[m].t < knots[m+1].t
        BY <4>1 DEF Stepped, n
      <4>3. knots[size].t <= knots[m].t
        BY <4>1
      <4>4. knots[size].t \in Nat /\ knots[m].t \in Nat /\ knots[m+1].t \in Nat
        BY <1>1, <1>2, <4>1
      <4> QED BY <4>2, <4>3, <4>4
    <3> QED BY <3>1, <3>2
  <2>4. P = Nat
    <3> HIDE DEF P
    <3>1. P \in SUBSET Nat
      BY DEF P
    <3> QED BY <2>2, <2>3, <3>1, SetInduction
  <2>5. n \in P /\ n \in size .. n
    <3> HIDE DEF P
    <3> QED BY <1>1, <2>4
  <2> QED BY <2>1, <2>5
<1>5. last < k * unit + unit
  BY DEF Stepped
<1>6. last \in Nat /\ k \in Nat
  BY <1>1, <1>2
<1> HIDE DEF k, last
<1>7. last \div unit = k
  <2> DEFINE q == last \div unit
  <2>1. q \in Nat /\ q * unit <= last /\ last < q * unit + unit
    BY <1>6, StepsBefore
  <2> HIDE DEF q
  <2>2. ASSUME NEW x \in Nat, NEW y \in Nat, x < y PROVE x * unit + unit <= y * unit
    <3>1. (x + 1) * unit <= y * unit
      BY <2>2, StepsGrow
    <3>2. (x + 1) * unit = x * unit + unit
      OBVIOUS
    <3> QED BY <3>1, <3>2
  <2>3. q * unit \in Nat /\ k * unit \in Nat
    BY <1>6, <2>1
  <2>4. ~(q < k)
    <3>1. q < k => q * unit + unit <= k * unit
      BY <1>6, <2>1, <2>2
    <3> QED BY <1>4, <1>6, <2>1, <2>3, <3>1
  <2>5. ~(k < q)
    <3>1. k < q => k * unit + unit <= q * unit
      BY <1>6, <2>1, <2>2
    <3> QED BY <1>5, <1>6, <2>1, <2>3, <3>1
  <2> QED BY <1>6, <2>1, <2>4, <2>5 DEF q
<1>8. last - knots[1].t = last
  BY <1>3, <1>6
<1>9. (last - knots[1].t) \div unit + 1 = k + 1
  BY <1>7, <1>8
<1>10. k + 1 = size
  BY <1>1 DEF k
<1> QED BY <1>9, <1>10 DEF last

\* Knots at whole steps and a path make a trajectory of the first of them.
LEMMA KnotsAndPath ==
  ASSUME NEW knots, NEW unit \in Nat \ {0}, NEW size, Stepped(knots, unit, size),
         NEW path, NEW forward
  PROVE  \E m \in 0 .. size + 1 :
           Combined(CombinePathAndSpeed(forward, path, knots, unit), forward, path, knots, unit, size, m)
<1> DEFINE n == Len(knots)
           here(i) == StepKnot(knots, unit, size, i)
           on(i) == here(i).s2 <= PathLength(path)
           at(i) == IF i <= size THEN EvaluateByTime(knots, (i - 1) * unit)
                    ELSE [knots[n] EXCEPT !.t = size * unit]
           within == {i \in 1 .. size + 1 : \A j \in 1 .. i : at(j).s2 <= PathLength(path)}
           S == {i \in Nat : i \in 1 .. size + 1 /\ ~on(i)}
<1>1. n \in Nat /\ size \in 1 .. n /\ size \in Nat
  BY DEF Stepped
<1>2. \A i \in 1 .. size + 1 : at(i) = here(i)
  <2> SUFFICES ASSUME NEW i \in 1 .. size + 1 PROVE at(i) = here(i)
    OBVIOUS
  <2>1. CASE i <= size
    <3>1. i \in 1 .. n /\ i \in 1 .. size
      BY <1>1, <2>1
    <3>2. knots[i].t = (i - 1) * unit
      BY <3>1 DEF Stepped
    <3>3. EvaluateByTime(knots, knots[i].t) = knots[i]
      <4>1. knots \in Seq(Knots) /\ \A h \in 2 .. n : knots[h-1].t < knots[h].t
        BY DEF Stepped
      <4>2. n = Len(knots)
        OBVIOUS
      <4> HIDE DEF n
      <4> QED BY <1>1, <3>1, <4>1, <4>2, EvaluateAtKnot
    <3> QED BY <2>1, <3>2, <3>3 DEF StepKnot
  <2>2. CASE ~(i <= size)
    BY <2>2 DEF StepKnot
  <2> QED BY <2>1, <2>2
<1>3. within = {i \in 1 .. size + 1 : \A j \in 1 .. i : on(j)}
  <2>1. \A i \in 1 .. size + 1 : \A j \in 1 .. i : j \in 1 .. size + 1
    BY <1>1
  <2> HIDE DEF at, here
  <2> QED BY <1>2, <2>1
<1> DEFINE point(i) == StepPoint(forward, path, here(i))
<1>4. CombinePathAndSpeed(forward, path, knots, unit)
        = [i \in 1 .. Cardinality(within) |->
             [point |-> Evaluate(path, at(i).s2), t |-> at(i).t,
              v |-> IF forward THEN at(i).v ELSE -at(i).v]]
  <2> DEFINE step(z, i) == IF i <= z THEN EvaluateByTime(knots, (i - 1) * unit)
                           ELSE [knots[Len(knots)] EXCEPT !.t = z * unit]
             all(z) == [i \in 1 .. Cardinality({h \in 1 .. z + 1 :
                                                 \A j \in 1 .. h : step(z, j).s2 <= PathLength(path)}) |->
                          [point |-> Evaluate(path, step(z, i).s2), t |-> step(z, i).t,
                           v |-> IF forward THEN step(z, i).v ELSE -step(z, i).v]]
             z == (knots[Len(knots)].t - knots[1].t) \div unit + 1
  <2>1. ~(Len(knots) < 2)
    BY <1>1 DEF Stepped
  <2>2. CombinePathAndSpeed(forward, path, knots, unit) = IF Len(knots) < 2 THEN <<>> ELSE all(z)
    BY DEF CombinePathAndSpeed
  <2>3. z = size
    BY StepsOfKnots
  <2> HIDE DEF z
  <2>4. CombinePathAndSpeed(forward, path, knots, unit) = all(size)
    BY <2>1, <2>2, <2>3
  <2> QED BY <2>4
<1>5. \E m \in 0 .. size + 1 : within = 1 .. m /\ (m = size + 1 \/ ~on(m + 1)) /\ \A i \in 1 .. m : on(i)
  <2> HIDE DEF within, on, n, at, here, point
  <2>1. CASE S = {}
    <3>1. \A i \in 1 .. size + 1 : on(i)
      BY <1>1, <2>1
    <3>2. within = 1 .. size + 1
      BY <1>1, <1>3, <3>1
    <3>3. size + 1 \in 0 .. size + 1
      BY <1>1
    <3> QED BY <3>1, <3>2, <3>3
  <2>2. CASE S # {}
    <3>1. PICK l \in S : \A m \in S : l <= m
      <4> HIDE DEF S
      <4>1. S \in SUBSET Nat
        BY DEF S
      <4> QED BY <2>2, <4>1, LeastNumber
    <3>2. l \in 1 .. size + 1 /\ ~on(l) /\ l \in Nat
      OBVIOUS
    <3>3. \A i \in 1 .. l - 1 : on(i)
      <4> SUFFICES ASSUME NEW i \in 1 .. l - 1 PROVE on(i)
        OBVIOUS
      <4>1. i \in 1 .. size + 1 /\ i \in Nat /\ ~(l <= i)
        BY <1>1, <3>2
      <4> QED BY <3>1, <4>1
    <3>4. within = 1 .. l - 1
      <4>1. \A i \in 1 .. size + 1 : i < l => \A j \in 1 .. i : on(j)
        BY <3>2, <3>3
      <4>2. \A i \in 1 .. size + 1 : ~(i < l) => l \in 1 .. i
        BY <1>1, <3>2
      <4> QED BY <1>1, <1>3, <3>2, <4>1, <4>2
    <3>5. l - 1 \in 0 .. size + 1 /\ (l - 1) + 1 = l
      BY <1>1, <3>2
    <3> QED BY <3>2, <3>3, <3>4, <3>5
  <2> QED BY <2>1, <2>2
<1>6. PICK m \in 0 .. size + 1 : within = 1 .. m /\ (m = size + 1 \/ ~on(m + 1)) /\ \A i \in 1 .. m : on(i)
  BY <1>5
<1>7. Cardinality(within) = m
  <2>1. m \in Int /\ 1 \in Int
    BY <1>1
  <2>2. Cardinality(1 .. m) = IF 1 > m THEN 0 ELSE m - 1 + 1
    BY <2>1, FS_Interval
  <2>3. (IF 1 > m THEN 0 ELSE m - 1 + 1) = m
    BY <1>1
  <2> HIDE DEF within
  <2> QED BY <1>6, <2>2, <2>3
<1>8. \A i \in 1 .. m : at(i) = here(i)
  <2>1. \A i \in 1 .. m : i \in 1 .. size + 1
    BY <1>1
  <2> HIDE DEF at, here
  <2> QED BY <1>2, <2>1
<1> HIDE DEF within, at, here, n
<1>9. CombinePathAndSpeed(forward, path, knots, unit) = [i \in 1 .. m |-> point(i)]
  <2>1. \A i \in 1 .. m :
          [point |-> Evaluate(path, at(i).s2), t |-> at(i).t,
           v |-> IF forward THEN at(i).v ELSE -at(i).v] = point(i)
    BY <1>8 DEF StepPoint
  <2> HIDE DEF point
  <2> QED BY <1>4, <1>7, <2>1
<1> QED BY <1>6, <1>9 DEF Combined, here

\* What never falls from one to the next is never less later.
LEMMA Climbs ==
  ASSUME NEW n \in Nat, NEW f \in [1 .. n -> Int], \A h \in 2 .. n : f[h-1] <= f[h],
         NEW i \in 1 .. n, NEW j \in 1 .. n, i <= j
  PROVE  f[i] <= f[j]
<1> DEFINE P == {m \in Nat : m \in i .. n => f[i] <= f[m]}
<1>1. 0 \in P
  OBVIOUS
<1>2. ASSUME NEW m \in P PROVE m + 1 \in P
  <2> SUFFICES ASSUME m + 1 \in i .. n PROVE f[i] <= f[m+1]
    OBVIOUS
  <2>1. CASE m + 1 = i
    BY <2>1
  <2>2. CASE m + 1 # i
    <3>1. m \in i .. n /\ m + 1 \in 2 .. n /\ (m + 1) - 1 = m
      BY <2>2
    <3>2. f[m] <= f[m+1] /\ f[i] <= f[m]
      BY <3>1
    <3>3. f[i] \in Int /\ f[m] \in Int /\ f[m+1] \in Int
      BY <3>1
    <3> HIDE DEF P
    <3> QED BY <3>2, <3>3
  <2> QED BY <2>1, <2>2
<1>3. P = Nat
  <2> HIDE DEF P
  <2>1. P \in SUBSET Nat
    BY DEF P
  <2> QED BY <1>1, <1>2, <2>1, SetInduction
<1>4. j \in P /\ j \in i .. n
  <2> HIDE DEF P
  <2> QED BY <1>3
<1> QED BY <1>4

\* The knots of a drive begin at its begin, never go back, and never at a speed below zero.
Onward(knots) ==
  /\ knots[1].s2 = 0
  /\ \A i \in 1 .. Len(knots) : knots[i].v \in Nat
  /\ \A i \in 2 .. Len(knots) : knots[i-1].s2 <= knots[i].s2

\* The knots of the steps do so as well.
LEMMA StepKnotsAre ==
  ASSUME NEW knots, NEW unit \in Nat \ {0}, NEW size, Stepped(knots, unit, size), Onward(knots)
  PROVE  /\ StepKnot(knots, unit, size, 1) = knots[1]
         /\ \A i \in 1 .. size + 1 :
              LET k == StepKnot(knots, unit, size, i)
              IN /\ k.t = (i - 1) * unit /\ k.s2 \in Nat /\ k.v \in Nat
                 /\ k.s2 <= knots[Len(knots)].s2
                 /\ i \in 2 .. size + 1 => StepKnot(knots, unit, size, i - 1).s2 <= k.s2
<1> DEFINE n == Len(knots)
           last == knots[n]
           f == [i \in 1 .. n |-> knots[i].s2]
           end == [last EXCEPT !.t = size * unit]
           k(i) == StepKnot(knots, unit, size, i)
<1>1. n \in Nat /\ size \in 1 .. n /\ 1 \in 1 .. n /\ n \in 1 .. n /\ size \in Nat /\ size > 0
  BY DEF Stepped
<1>2. \A i \in 1 .. n : knots[i] \in Knots
  BY DEF Stepped
<1>3. \A i \in 1 .. n : knots[i].s2 \in Int /\ knots[i].v \in Nat
  <2>1. \A i \in 1 .. n : knots[i].s2 \in Int
    BY <1>2 DEF Knots
  <2>2. \A i \in 1 .. n : knots[i].v \in Nat
    BY DEF Onward
  <2> QED BY <2>1, <2>2
<1>4. \A h \in 2 .. n : knots[h-1].s2 <= knots[h].s2
  BY DEF Onward
<1>5. f \in [1 .. n -> Int]
  BY <1>3
<1>6. \A i \in 1 .. n : f[i] = knots[i].s2
  OBVIOUS
<1>7. end.t = size * unit /\ end.s2 = last.s2 /\ end.v = last.v
  <2>1. last = [t |-> last.t, s2 |-> last.s2, v |-> last.v]
    BY <1>1, <1>2 DEF Knots
  <2> QED BY <2>1
<1>8. \A i \in 1 .. size + 1 : k(i) = IF i <= size THEN knots[i] ELSE end
  BY DEF StepKnot
<1> HIDE DEF n, f, last, end, k
<1>9. \A i, j \in 1 .. n : i <= j => knots[i].s2 <= knots[j].s2
  <2> SUFFICES ASSUME NEW i \in 1 .. n, NEW j \in 1 .. n, i <= j PROVE f[i] <= f[j]
    BY <1>6
  <2>1. \A h \in 2 .. n : f[h-1] <= f[h]
    <3> SUFFICES ASSUME NEW h \in 2 .. n PROVE f[h-1] <= f[h]
      OBVIOUS
    <3>1. h \in 1 .. n /\ h - 1 \in 1 .. n
      BY <1>1
    <3> QED BY <1>4, <1>6, <3>1
  <2> QED BY <1>1, <1>5, <2>1, Climbs
<1>10. \A i \in 1 .. n : knots[i].s2 \in Nat
  <2> SUFFICES ASSUME NEW i \in 1 .. n PROVE knots[i].s2 \in Nat
    OBVIOUS
  <2>1. knots[1].s2 <= knots[i].s2
    BY <1>1, <1>9
  <2>2. knots[1].s2 = 0
    BY DEF Onward
  <2>3. knots[i].s2 \in Int
    BY <1>3
  <2> QED BY <2>1, <2>2, <2>3
<1>11. last = knots[n]
  BY DEF last
<1>12. ASSUME NEW i \in 1 .. size + 1
       PROVE  /\ k(i).t = (i - 1) * unit /\ k(i).s2 \in Nat /\ k(i).v \in Nat
              /\ k(i).s2 <= last.s2
              /\ i \in 2 .. size + 1 => k(i - 1).s2 <= k(i).s2
  <2>1. CASE i <= size
    <3>1. i \in 1 .. size /\ i \in 1 .. n /\ i <= n
      BY <1>1, <2>1
    <3>2. k(i) = knots[i]
      BY <1>8, <2>1
    <3>3. knots[i].t = (i - 1) * unit
      BY <3>1 DEF Stepped
    <3>4. i \in 2 .. size + 1 => k(i - 1).s2 <= k(i).s2
      <4> SUFFICES ASSUME i \in 2 .. size + 1 PROVE k(i - 1).s2 <= k(i).s2
        OBVIOUS
      <4>1. i - 1 \in 1 .. size + 1 /\ i - 1 <= size /\ i \in 2 .. n
        BY <1>1, <2>1
      <4>2. k(i - 1) = knots[i-1]
        BY <1>8, <4>1
      <4>3. knots[i-1].s2 <= knots[i].s2
        BY <1>4, <4>1
      <4> QED BY <3>2, <4>2, <4>3
    <3>5. knots[i].s2 <= knots[n].s2
      BY <1>1, <1>9, <3>1
    <3> QED BY <1>3, <1>10, <1>11, <3>1, <3>2, <3>3, <3>4, <3>5
  <2>2. CASE ~(i <= size)
    <3>1. i = size + 1 /\ i - 1 = size /\ size \in 1 .. size + 1
      BY <1>1, <2>2
    <3>2. k(i) = end
      BY <1>8, <2>2
    <3>3. k(i - 1) = knots[size]
      BY <1>1, <1>8, <3>1
    <3>4. knots[size].s2 <= knots[n].s2
      BY <1>1, <1>9
    <3>5. last.s2 \in Nat /\ last.v \in Nat
      BY <1>1, <1>3, <1>10, <1>11
    <3>6. last.s2 <= last.s2
      BY <3>5
    <3> QED BY <1>7, <1>11, <3>1, <3>2, <3>3, <3>4, <3>5, <3>6
  <2> QED BY <2>1, <2>2
<1>13. k(1) = knots[1]
  <2>1. 1 \in 1 .. size + 1 /\ 1 <= size
    BY <1>1
  <2> QED BY <1>8, <2>1
<1> QED BY <1>12, <1>13 DEF k, last, n

\* The points of a trajectory, in terms of its knots.
LEMMA PointsOfSteps ==
  ASSUME NEW knots, NEW unit \in Nat \ {0}, NEW size, Stepped(knots, unit, size), Onward(knots),
         NEW path \in Seq(PathPoints), path # <<>>, path[1].s = 0, NEW forward \in BOOLEAN,
         NEW m \in 1 .. size + 1, NEW trajectory,
         Combined(trajectory, forward, path, knots, unit, size, m)
  PROVE  /\ Len(trajectory) = m /\ DOMAIN trajectory = 1 .. m /\ trajectory # <<>>
         /\ trajectory[1].point = path[1]
         /\ \A i \in 1 .. m :
              LET k == StepKnot(knots, unit, size, i)
              IN /\ trajectory[i].t = (i - 1) * unit
                 /\ trajectory[i].v = IF forward THEN k.v ELSE -k.v
                 /\ trajectory[i].point.s = k.s2
<1> DEFINE k(i) == StepKnot(knots, unit, size, i)
           point(i) == StepPoint(forward, path, k(i))
<1>1. size \in Nat \ {0} /\ 1 \in 1 .. m /\ m \in Nat
  BY DEF Stepped
<1>2. trajectory = [i \in 1 .. m |-> point(i)]
  BY DEF Combined
<1> HIDE DEF point
<1>3. Len(trajectory) = m /\ DOMAIN trajectory = 1 .. m /\ \A i \in 1 .. m : trajectory[i] = point(i)
  BY <1>1, <1>2
<1>4. trajectory # <<>>
  BY <1>1, <1>3
<1>5. \A i \in 1 .. m : k(i).t = (i - 1) * unit /\ k(i).s2 \in Nat /\ k(i).s2 <= PathLength(path)
  <2> SUFFICES ASSUME NEW i \in 1 .. m
               PROVE  k(i).t = (i - 1) * unit /\ k(i).s2 \in Nat /\ k(i).s2 <= PathLength(path)
    OBVIOUS
  <2>1. i \in 1 .. size + 1
    BY <1>1
  <2>2. k(i).t = (i - 1) * unit /\ k(i).s2 \in Nat
    BY <2>1, StepKnotsAre
  <2>3. k(i).s2 <= PathLength(path)
    BY DEF Combined
  <2> QED BY <2>2, <2>3
<1>6. k(1).s2 = 0
  <2>1. k(1) = knots[1]
    BY StepKnotsAre
  <2> QED BY <2>1 DEF Onward
<1> HIDE DEF k
<1>7. ASSUME NEW i \in 1 .. m
      PROVE  /\ point(i).t = (i - 1) * unit
             /\ point(i).v = IF forward THEN k(i).v ELSE -k(i).v
             /\ point(i).point = Evaluate(path, k(i).s2)
             /\ point(i).point.s = k(i).s2
  <2>1. Evaluate(path, k(i).s2).s = k(i).s2
    BY <1>5, EvaluateReaches
  <2>2. /\ point(i).t = k(i).t
        /\ point(i).v = IF forward THEN k(i).v ELSE -k(i).v
        /\ point(i).point = Evaluate(path, k(i).s2)
    BY DEF point, StepPoint
  <2> QED BY <1>5, <2>1, <2>2
<1>8. trajectory[1].point = path[1]
  <2>1. Evaluate(path, k(1).s2) = path[1]
    <3>1. 0 <= PathLength(path)
      BY <1>1, <1>5, <1>6
    <3>2. Evaluate(path, 0) = path[1]
      BY <3>1, EvaluateReaches
    <3> QED BY <1>6, <3>2
  <2> QED BY <1>1, <1>3, <1>7, <2>1
<1>9. \A i \in 1 .. m : /\ trajectory[i].t = (i - 1) * unit
                        /\ trajectory[i].v = IF forward THEN k(i).v ELSE -k(i).v
                        /\ trajectory[i].point.s = k(i).s2
  BY <1>3, <1>7
<1> QED BY <1>3, <1>4, <1>8, <1>9 DEF k

\* A trajectory of such knots keeps to its path.
LEMMA KnotsKeepToPath ==
  ASSUME NEW knots, NEW unit \in Nat \ {0}, NEW size, Stepped(knots, unit, size), Onward(knots),
         NEW path \in Seq(PathPoints), path # <<>>, path[1].s = 0, NEW forward \in BOOLEAN,
         NEW m \in 1 .. size + 1, NEW trajectory,
         Combined(trajectory, forward, path, knots, unit, size, m)
  PROVE  KeepsToPath(path, trajectory, forward, unit)
<1> DEFINE k(i) == StepKnot(knots, unit, size, i)
<1>1. size \in Nat \ {0} /\ m \in Nat
  BY DEF Stepped
<1>2. Len(trajectory) = m /\ DOMAIN trajectory = 1 .. m /\ trajectory # <<>> /\ trajectory[1].point = path[1]
  BY PointsOfSteps
<1>3. \A i \in 1 .. m : /\ trajectory[i].t = (i - 1) * unit
                        /\ trajectory[i].v = IF forward THEN k(i).v ELSE -k(i).v
                        /\ trajectory[i].point.s = k(i).s2
  BY PointsOfSteps
<1>4. \A i \in 1 .. m : k(i).v \in Nat /\ k(i).s2 <= PathLength(path)
  <2> SUFFICES ASSUME NEW i \in 1 .. m PROVE k(i).v \in Nat /\ k(i).s2 <= PathLength(path)
    OBVIOUS
  <2>1. i \in 1 .. size + 1
    BY <1>1
  <2>2. k(i).v \in Nat
    BY <2>1, StepKnotsAre
  <2> QED BY <2>2 DEF Combined
<1>5. \A i \in 2 .. m : k(i - 1).s2 <= k(i).s2
  <2> SUFFICES ASSUME NEW i \in 2 .. m PROVE k(i - 1).s2 <= k(i).s2
    OBVIOUS
  <2>1. i \in 1 .. size + 1 /\ i \in 2 .. size + 1
    BY <1>1
  <2> QED BY <2>1, StepKnotsAre
<1> HIDE DEF k
<1>6. \A i \in 1 .. m : (i - 1) * unit = unit * (i - 1)
  BY <1>1
<1>7. \A x \in Nat : x >= 0 /\ -x <= 0
  OBVIOUS
<1>8. ASSUME NEW i \in DOMAIN trajectory
      PROVE  /\ trajectory[i].t = unit * (i - 1)
             /\ IF forward THEN trajectory[i].v >= 0 ELSE trajectory[i].v <= 0
             /\ trajectory[i].point.s <= PathLength(path)
  <2> DEFINE x == k(i).v
  <2>1. i \in 1 .. m
    BY <1>2
  <2>2. x \in Nat /\ trajectory[i].v = IF forward THEN x ELSE -x
    BY <1>3, <1>4, <2>1
  <2>3. trajectory[i].t = unit * (i - 1)
    BY <1>3, <1>6, <2>1
  <2>4. trajectory[i].point.s <= PathLength(path)
    BY <1>3, <1>4, <2>1
  <2> HIDE DEF x
  <2>5. x >= 0 /\ -x <= 0
    BY <1>7, <2>2
  <2>6. IF forward THEN trajectory[i].v >= 0 ELSE trajectory[i].v <= 0
    BY <2>2, <2>5
  <2> QED BY <2>3, <2>4, <2>6
<1>9. ASSUME NEW i \in 2 .. Len(trajectory)
      PROVE  trajectory[i-1].point.s <= trajectory[i].point.s
  <2>1. i \in 2 .. m /\ i \in 1 .. m /\ i - 1 \in 1 .. m
    BY <1>1, <1>2
  <2>2. trajectory[i-1].point.s = k(i - 1).s2 /\ trajectory[i].point.s = k(i).s2
    BY <1>3, <2>1
  <2> QED BY <1>5, <2>1, <2>2
<1> QED BY <1>2, <1>8, <1>9 DEF KeepsToPath

-----------------------------------------------------------------------------
(* Trajectories of curves *)

\* A piece that ends at rest and makes no way any more is at rest.
LEMMA StandsStill ==
  ASSUME NEW a \in Int, NEW v \in Nat, NEW d \in Nat, NEW x \in 0 .. d, a * d + v = 0,
         (a * x + 2 * v) * x = (a * d + 2 * v) * d
  PROVE  a * x + v = 0
<1> DEFINE e == d - x
           p == a * e
<1>1. e \in Nat /\ x \in Nat /\ d = x + e /\ p \in Int
  OBVIOUS
<1>2. a * d = a * x + p /\ a * x \in Int
  BY <1>1
<1>3. v = 0 - a * x - p
  <2> HIDE DEF p
  <2> QED BY <1>1, <1>2
<1>4. (a * x + 2 * v) * x = (a * x) * x + 2 * (v * x)
  BY <1>1
<1>5. (a * d + 2 * v) * d = v * d
  <2> DEFINE y == a * d
             z == y + 2 * v
  <2>1. y \in Int /\ y + v = 0
    BY <1>1
  <2> HIDE DEF y
  <2>2. z = v
    BY <2>1
  <2> QED BY <2>2
<1>6. v * d = v * x + v * e
  BY <1>1
<1>7. v * x = 0 - (a * x) * x - p * x /\ v * e = 0 - (a * x) * e - p * e
  <2> DEFINE q == a * x
  <2>1. q \in Int
    BY <1>1
  <2> HIDE DEF p, q
  <2>2. v = 0 - q - p
    BY <1>3 DEF q
  <2>3. \A y \in Int : (0 - q - p) * y = 0 - q * y - p * y
    BY <1>1, <2>1
  <2>4. v * x = 0 - q * x - p * x
    BY <1>1, <2>2, <2>3
  <2>5. v * e = 0 - q * e - p * e
    <3> HIDE DEF e
    <3> QED BY <1>1, <2>2, <2>3
  <2> QED BY <2>4, <2>5 DEF q
<1>8. (a * x) * e = p * x
  BY <1>1
<1>9. p * e = 0
  <2> DEFINE s == (a * x) * x
             t == p * x
             w == p * e
             vx == v * x
             ve == v * e
  <2>1. s \in Int /\ t \in Int /\ w \in Int /\ vx \in Int /\ ve \in Int
    BY <1>1
  <2>2. s + 2 * vx = vx + ve
    BY <1>4, <1>5, <1>6
  <2>3. vx = 0 - s - t /\ ve = 0 - t - w
    BY <1>7, <1>8
  <2> HIDE DEF s, t, w, vx, ve
  <2>4. w = 0
    BY <2>1, <2>2, <2>3
  <2> QED BY <2>4 DEF w
<1>10. p = 0
  <2>1. CASE e = 0
    BY <1>1, <2>1
  <2>2. CASE e # 0
    <3> HIDE DEF p, e
    <3>1. p > 0 => p * e > 0
      BY <1>1, <2>2
    <3>2. p < 0 => p * e < 0
      BY <1>1, <2>2
    <3>3. p > 0 \/ p < 0 \/ p = 0
      BY <1>1
    <3> QED BY <1>9, <3>1, <3>2, <3>3
  <2> QED BY <2>1, <2>2
<1> DEFINE q == a * x
<1>11. q \in Int /\ q + v = 0 - p
  <2> HIDE DEF p
  <2> QED BY <1>1, <1>2, <1>3
<1> HIDE DEF p
<1> QED BY <1>10, <1>11

\* A curve that never goes backwards is never slower than a standstill within a piece,
\* and once it ends at rest and has no way left, it is at rest.
LEMMA SpeedsStayUp ==
  ASSUME NEW c, NEW unit \in Nat \ {0}, Joined(c, unit), Forward(c),
         NEW i \in 1 .. Len(c.origins), NEW t \in Nat, Within(c, i, t)
  PROVE  /\ StateAt(Node(c, i), t).v \in Nat
         /\ i = Len(c.origins) /\ c.end_v = 0 /\ StateAt(Node(c, i), t).s2 = c.end_s2 =>
              StateAt(Node(c, i), t).v = 0
<1> DEFINE n == Len(c.origins)
           o == Node(c, i)
           next == Node(c, i + 1)
           a == o.a
           v == o.v
           s == o.s2
           x == t - o.t
           d == next.t - o.t
<1>1. n \in Nat \ {0} /\ i \in 1 .. n + 1 /\ i + 1 \in 1 .. n + 1
  BY DEF Joined
<1>2. o \in CurveOrigins /\ next \in CurveOrigins
  BY <1>1 DEF Joined
<1>3. o.t \in Nat /\ next.t \in Nat /\ a \in Int /\ o.v \in Int /\ s \in Int /\ next.v \in Int /\ next.s2 \in Int
  BY <1>2 DEF CurveOrigins
<1>4. Meet(o, next, unit)
  BY DEF Joined
<1>5. o.t <= t /\ t <= next.t
  BY DEF Within
<1>6. \A j \in 1 .. n + 1 : Node(c, j).v >= 0
  <2> SUFFICES ASSUME NEW j \in 1 .. n + 1 PROVE Node(c, j).v >= 0
    OBVIOUS
  <2>1. CASE j <= n
    <3>1. j \in DOMAIN c.origins
      BY <1>1, <2>1 DEF Joined
    <3> QED BY <2>1, <3>1 DEF Node, Forward
  <2>2. CASE ~(j <= n)
    BY <2>2 DEF Node, Forward
  <2> QED BY <2>1, <2>2
<1>7. v \in Nat /\ next.v >= 0
  <2>1. o.v >= 0 /\ next.v >= 0
    BY <1>1, <1>6
  <2> HIDE DEF o, next
  <2> QED BY <1>3, <2>1
<1>8. next.v = a * d + v /\ next.s2 = (a * d + 2 * v) * d + s
  BY <1>4 DEF Meet, Way, Speed
<1>9. StateAt(o, t).v = a * x + v /\ StateAt(o, t).s2 = (a * x + 2 * v) * x + s
  BY DEF StateAt, Way, Speed
<1>10. d \in Nat /\ x \in 0 .. d
  <2> HIDE DEF o, next
  <2> QED BY <1>3, <1>5
<1> HIDE DEF o, next, a, v, s, x, d
<1>11. a * x + v >= 0
  BY <1>3, <1>7, <1>8, <1>10, SpeedInPiece
<1>12. a * x + v \in Nat
  <2> DEFINE q == a * x + v
  <2>1. q \in Int
    BY <1>3, <1>7, <1>10
  <2>2. q >= 0
    BY <1>11
  <2> HIDE DEF q
  <2>3. q \in Nat
    BY <2>1, <2>2
  <2> QED BY <2>3 DEF q
<1>13. ASSUME i = n, c.end_v = 0, StateAt(o, t).s2 = c.end_s2
       PROVE  a * x + v = 0
  <2>1. next = [s2 |-> c.end_s2, v |-> c.end_v, a |-> 0, t |-> c.total_t]
    BY <1>1, <1>13, WholeSteps DEF next
  <2>2. next.v = 0 /\ next.s2 = c.end_s2
    BY <1>13, <2>1
  <2>3. a * d + v = 0
    BY <1>8, <2>2
  <2>4. (a * x + 2 * v) * x = (a * d + 2 * v) * d
    <3> DEFINE y == (a * x + 2 * v) * x
               z == (a * d + 2 * v) * d
    <3>1. y \in Int /\ z \in Int
      BY <1>3, <1>7, <1>10
    <3>2. y + s = z + s
      BY <1>8, <1>9, <1>13, <2>2
    <3> HIDE DEF y, z
    <3>3. y = z
      BY <1>3, <3>1, <3>2
    <3> QED BY <3>3 DEF y, z
  <2> QED BY <1>3, <1>7, <1>10, <2>3, <2>4, StandsStill
<1> QED BY <1>9, <1>12, <1>13 DEF o, n

\* The knots of a curve that never goes backwards and ends at rest.
LEMMA KnotsOfDrives ==
  ASSUME NEW c, NEW unit \in Nat \ {0}, Joined(c, unit), Forward(c), c.end_v = 0,
         Node(c, 1).s2 = 0
  PROVE  /\ Stepped(Discrete(c, unit), unit, Whole(c, unit)) /\ Onward(Discrete(c, unit))
         /\ Discrete(c, unit)[Len(Discrete(c, unit))].s2 = c.end_s2
         /\ Discrete(c, unit)[Len(Discrete(c, unit))].v = 0
         /\ \A i \in 1 .. Whole(c, unit) :
              Discrete(c, unit)[i] = At(c, (i - 1) * unit)
<1> DEFINE n == Len(c.origins)
           m == Whole(c, unit)
           knots == Discrete(c, unit)
           knot == [i \in 1 .. m |-> KnotOf(c, unit, i)]
           short == knot[m].t < c.total_t /\ knot[m].s2 < c.end_s2
           end == [t |-> c.total_t, s2 |-> c.end_s2, v |-> c.end_v]
           p(i) == PieceOf(c, unit)[i]
           N == Len(knots)
<1>1. m \in Nat \ {0} /\ m \in 1 .. m /\ 1 \in 1 .. m /\ c.total_t \in Nat /\ n \in Nat \ {0}
  <2>1. m \in Nat \ {0} /\ c.total_t \in Nat
    BY WholeSteps
  <2>2. n \in Nat \ {0}
    BY DEF Joined
  <2> HIDE DEF m, n
  <2> QED BY <2>1, <2>2
<1>2. KnotsLieOn(c, unit)
  BY JoinedKnots
<1>3. /\ N >= m
      /\ \A i \in DOMAIN knots : knots[i] = At(c, knots[i].t) /\ knots[i].t <= c.total_t
      /\ \A i \in 1 .. m : knots[i].t = (i - 1) * unit
      /\ \A i \in 2 .. N : knots[i-1].t < knots[i].t /\ knots[i-1].s2 <= knots[i].s2
      /\ knots[N].s2 = c.end_s2
  BY <1>2 DEF KnotsLieOn, Whole
<1>4. \A i \in 1 .. m : /\ KnotOf(c, unit, i) \in Knots /\ KnotOf(c, unit, i).v \in Nat
                        /\ i = m /\ KnotOf(c, unit, i).s2 = c.end_s2 => KnotOf(c, unit, i).v = 0
  <2> SUFFICES ASSUME NEW i \in 1 .. m
               PROVE  /\ KnotOf(c, unit, i) \in Knots /\ KnotOf(c, unit, i).v \in Nat
                      /\ i = m /\ KnotOf(c, unit, i).s2 = c.end_s2 => KnotOf(c, unit, i).v = 0
    OBVIOUS
  <2> DEFINE t == (i - 1) * unit
             o == Node(c, p(i))
  <2>1. p(i) \in 1 .. n /\ Within(c, p(i), t)
    BY PiecesHoldTimes
  <2>2. t \in Nat
    BY WholeSteps
  <2>3. o \in CurveOrigins
    <3>1. p(i) \in 1 .. n + 1
      BY <1>1, <2>1
    <3> QED BY <3>1 DEF Joined
  <2>4. KnotOf(c, unit, i) = StateAt(o, t)
    BY <1>1, <2>1 DEF KnotOf, Node
  <2>5. i = m => p(i) = n
    BY LastPiece
  <2> HIDE DEF t, n, m, p
  <2>6. StateAt(o, t).v \in Nat
    BY <2>1, <2>2, SpeedsStayUp DEF n
  <2>7. p(i) = n /\ StateAt(o, t).s2 = c.end_s2 => StateAt(o, t).v = 0
    BY <2>1, <2>2, SpeedsStayUp DEF n
  <2>8. StateAt(o, t).s2 \in Int
    BY <2>2, <2>3, StateIsWhole
  <2>9. StateAt(o, t) = [t |-> t, s2 |-> StateAt(o, t).s2, v |-> StateAt(o, t).v]
    BY DEF StateAt
  <2>10. StateAt(o, t) \in Knots
    BY <2>2, <2>6, <2>8, <2>9 DEF Knots
  <2> QED BY <2>4, <2>5, <2>6, <2>7, <2>10
<1>5. knot \in [1 .. m -> Knots]
  BY <1>4
<1>6. end \in Knots
  <2>1. Node(c, n + 1) \in CurveOrigins
    BY <1>1 DEF Joined
  <2>2. Node(c, n + 1) = [s2 |-> c.end_s2, v |-> c.end_v, a |-> 0, t |-> c.total_t]
    BY WholeSteps
  <2>3. c.end_s2 \in Int /\ c.end_v \in Int
    BY <2>1, <2>2 DEF CurveOrigins
  <2> QED BY <1>1, <2>3 DEF Knots
<1>7. knots = knot \/ knots = Append(knot, end)
  <2>1. knots = IF \E i \in 2 .. m : knot[i-1].s2 > knot[i].s2 THEN <<>>
                ELSE IF short THEN Append(knot, end) ELSE knot
    BY DiscreteIs
  <2>2. knots # <<>>
    <3>1. knots = <<>> => N = 0
      OBVIOUS
    <3> HIDE DEF m, N
    <3> QED BY <1>1, <1>3, <3>1
  <2> HIDE DEF knots, knot, short, end
  <2> QED BY <2>1, <2>2
<1>8. knot \in Seq(Knots) /\ Len(knot) = m
  <2> HIDE DEF m, knot
  <2> QED BY <1>1, <1>5
<1> HIDE DEF end, m
<1>9. \A i \in 1 .. m : knot[i] = KnotOf(c, unit, i)
  OBVIOUS
<1> HIDE DEF knot
<1>10. knots \in Seq(Knots) /\ N \in Nat /\ DOMAIN knots = 1 .. N
  <2> HIDE DEF knots, N
  <2>1. Append(knot, end) \in Seq(Knots)
    BY <1>6, <1>8
  <2> QED BY <1>7, <1>8, <2>1 DEF N
<1>11. \A i \in 1 .. N : i \in 1 .. m \/ (i = N /\ N = m + 1 /\ knots[i] = end)
  <2> HIDE DEF knots, N
  <2>1. CASE knots = knot
    BY <1>8, <2>1 DEF N
  <2>2. CASE knots = Append(knot, end)
    <3>1. N = m + 1 /\ knots[m+1] = end
      BY <1>1, <1>6, <1>8, <2>2 DEF N
    <3> QED BY <1>1, <3>1
  <2> QED BY <1>7, <2>1, <2>2
<1>12. \A i \in 1 .. m : knots[i] = knot[i]
  <2> HIDE DEF knots
  <2>1. \A i \in 1 .. m : Append(knot, end)[i] = knot[i]
    BY <1>1, <1>6, <1>8
  <2> QED BY <1>7, <2>1
<1> HIDE DEF knots
<1>13. N >= 2 /\ m \in 1 .. N
  <2>1. unit <= c.total_t
    <3>1. Meet(Node(c, 1), Node(c, 2), unit) /\ Node(c, 1).t = 0 /\ 1 \in 1 .. n
      BY <1>1 DEF Joined
    <3> DEFINE t2 == Node(c, 2).t
               tn == Node(c, n + 1).t
    <3>2. t2 >= 0 + unit
      BY <3>1 DEF Meet
    <3>3. t2 \in Nat /\ tn \in Nat /\ tn = c.total_t
      <4>1. Node(c, 2) \in CurveOrigins /\ Node(c, n + 1) \in CurveOrigins
        BY <1>1 DEF Joined
      <4>2. Node(c, n + 1) = [s2 |-> c.end_s2, v |-> c.end_v, a |-> 0, t |-> c.total_t]
        BY WholeSteps
      <4>3. tn = c.total_t
        BY <4>2
      <4> QED BY <4>1, <4>3 DEF CurveOrigins
    <3>4. n = 1 \/ t2 + unit <= tn
      <4> HIDE DEF n
      <4>1. n # 1 => 2 \in 1 .. n + 1 /\ n + 1 \in 1 .. n + 1 /\ 2 < n + 1
        BY <1>1
      <4> QED BY <4>1, TimesGrow DEF n
    <3>5. n = 1 => t2 = tn
      OBVIOUS
    <3> HIDE DEF t2, tn, n
    <3> QED BY <3>2, <3>3, <3>4, <3>5
  <2>2. m >= 2
    <3>1. c.total_t < (m - 1) * unit + unit
      BY WholeSteps DEF m
    <3>2. m = 1 => (m - 1) * unit = 0
      OBVIOUS
    <3> QED BY <1>1, <2>1, <3>1, <3>2
  <2> HIDE DEF N
  <2> QED BY <1>1, <1>3, <1>10, <2>2
<1>14. \A i \in 1 .. N : knots[i].v \in Nat
  <2> SUFFICES ASSUME NEW i \in 1 .. N PROVE knots[i].v \in Nat
    OBVIOUS
  <2>1. CASE i \in 1 .. m
    BY <1>4, <1>9, <1>12, <2>1
  <2>2. CASE knots[i] = end
    BY <2>2 DEF end
  <2> QED BY <1>11, <2>1, <2>2
<1>15. knots[1].s2 = 0
  <2>1. knots[1] = KnotOf(c, unit, 1)
    BY <1>1, <1>9, <1>12
  <2>2. KnotOf(c, unit, 1) = StateAt(Node(c, p(1)), (1 - 1) * unit)
    <3>1. p(1) \in 1 .. n
      BY <1>1, PiecesHoldTimes DEF m
    <3> QED BY <1>1, <3>1 DEF KnotOf, Node
  <2>3. p(1) = 1
    <3>1. p(1) \in 1 .. n /\ Within(c, p(1), (1 - 1) * unit)
      BY <1>1, PiecesHoldTimes DEF m
    <3>2. (1 - 1) * unit = 0
      OBVIOUS
    <3>3. Node(c, p(1)).t <= 0
      BY <3>1, <3>2 DEF Within
    <3>4. p(1) # 1 => Node(c, 1).t + unit <= Node(c, p(1)).t
      <4> HIDE DEF p
      <4>1. p(1) # 1 => 1 \in 1 .. n + 1 /\ p(1) \in 1 .. n + 1 /\ 1 < p(1)
        BY <1>1, <3>1
      <4> HIDE DEF n
      <4> QED BY <4>1, TimesGrow DEF n
    <3>5. Node(c, 1).t = 0 /\ Node(c, p(1)).t \in Nat
      <4>1. p(1) \in 1 .. n + 1
        BY <1>1, <3>1
      <4>2. Node(c, p(1)) \in CurveOrigins
        BY <4>1 DEF Joined
      <4> QED BY <4>2 DEF Joined, CurveOrigins
    <3> HIDE DEF p
    <3> QED BY <3>3, <3>4, <3>5
  <2> DEFINE o == Node(c, 1)
  <2>4. (1 - 1) * unit = 0
    OBVIOUS
  <2>5. knots[1].s2 = Way(0 - o.t, o) /\ o.t = 0 /\ o.s2 = 0
    BY <2>1, <2>2, <2>3, <2>4 DEF StateAt, Joined
  <2>6. o.a \in Int /\ o.v \in Int
    <3>1. 1 \in 1 .. n + 1
      BY <1>1
    <3>2. o \in CurveOrigins
      BY <3>1 DEF Joined
    <3> QED BY <3>2 DEF CurveOrigins
  <2>7. Way(0 - o.t, o) = (o.a * (0 - 0) + 2 * o.v) * (0 - 0) + 0
    BY <2>5 DEF Way
  <2> HIDE DEF o
  <2>8. (o.a * (0 - 0) + 2 * o.v) * (0 - 0) + 0 = 0
    BY <2>6
  <2> QED BY <2>5, <2>7, <2>8
<1>16. Onward(knots)
  BY <1>3, <1>14, <1>15 DEF Onward, knots
<1>17. knots[N].v = 0
  <2>1. N \in 1 .. N
    <3> HIDE DEF N
    <3> QED BY <1>10, <1>13
  <2>2. CASE knots[N] = end
    BY <2>2 DEF end
  <2>3. CASE N \in 1 .. m
    <3>1. N = m
      <4> HIDE DEF N
      <4> QED BY <1>1, <1>10, <1>13, <2>3
    <3>2. knots[N] = KnotOf(c, unit, m)
      BY <1>1, <1>9, <1>12, <3>1
    <3>3. KnotOf(c, unit, m).s2 = c.end_s2
      BY <1>3, <3>2 DEF knots
    <3> QED BY <1>1, <1>4, <3>2, <3>3
  <2> QED BY <1>11, <2>1, <2>2, <2>3
<1>18. knots[N].t < (m - 1) * unit + unit
  <2>1. N \in DOMAIN knots
    <3> HIDE DEF N
    <3> QED BY <1>10, <1>13
  <2>2. knots[N].t <= c.total_t
    BY <1>3, <2>1 DEF knots
  <2>3. c.total_t < (m - 1) * unit + unit
    BY WholeSteps DEF m
  <2>4. knots[N].t \in Nat
    <3> HIDE DEF N
    <3>1. knots[N] \in Knots
      BY <1>10, <2>1
    <3> QED BY <3>1 DEF Knots
  <2>5. (m - 1) * unit + unit \in Int
    BY <1>1
  <2> QED BY <1>1, <2>2, <2>3, <2>4, <2>5
<1>19. Stepped(knots, unit, m)
  <2>1. \A i \in 2 .. N : knots[i-1].t < knots[i].t
    BY <1>3 DEF knots
  <2>2. \A i \in 1 .. m : knots[i].t = (i - 1) * unit
    BY <1>3 DEF knots
  <2> QED BY <1>10, <1>13, <1>18, <2>1, <2>2 DEF Stepped
<1>20. \A i \in 1 .. m : knots[i] = At(c, (i - 1) * unit)
  <2> SUFFICES ASSUME NEW i \in 1 .. m PROVE knots[i] = At(c, (i - 1) * unit)
    OBVIOUS
  <2>1. i \in DOMAIN knots
    <3> HIDE DEF N
    <3> QED BY <1>1, <1>10, <1>13
  <2>2. knots[i] = At(c, knots[i].t) /\ knots[i].t = (i - 1) * unit
    BY <1>3, <2>1 DEF knots
  <2> QED BY <2>2
<1>21. knots[N].s2 = c.end_s2
  BY <1>3 DEF knots
<1> QED BY <1>16, <1>17, <1>19, <1>20, <1>21 DEF knots, m

\* A path as long as a curve, or longer, takes all of its knots.
LEMMA JoinedDrives ==
  ASSUME NEW c, NEW unit \in Nat \ {0}, Joined(c, unit), Forward(c), c.end_v = 0,
         Node(c, 1).s2 = 0,
         NEW path \in Seq(PathPoints), path # <<>>, path[1].s = 0, c.end_s2 <= PathLength(path),
         NEW forward \in BOOLEAN
  PROVE  DrivesCurve(c, path, forward, unit)
<1> DEFINE knots == Discrete(c, unit)
           size == Whole(c, unit)
           trajectory == CombinePathAndSpeed(forward, path, knots, unit)
           k(i) == StepKnot(knots, unit, size, i)
<1>1. Stepped(knots, unit, size) /\ Onward(knots)
  BY KnotsOfDrives
<1>2. knots[Len(knots)].s2 = c.end_s2 /\ knots[Len(knots)].v = 0
      /\ \A i \in 1 .. size : knots[i] = At(c, (i - 1) * unit)
  BY KnotsOfDrives
<1>3. size \in Nat \ {0} /\ c.total_t \in Nat /\ c.total_t < (size - 1) * unit + unit
  BY WholeSteps
<1>4. c.end_s2 \in Int /\ PathLength(path) \in Int
  <2>1. Node(c, Len(c.origins) + 1) \in CurveOrigins
    BY DEF Joined
  <2>2. Node(c, Len(c.origins) + 1) = [s2 |-> c.end_s2, v |-> c.end_v, a |-> 0, t |-> c.total_t]
    BY WholeSteps
  <2>3. c.end_s2 \in Int
    BY <2>1, <2>2 DEF CurveOrigins
  <2>4. 1 \in 1 .. Len(path) /\ Len(path) \in 1 .. Len(path)
    OBVIOUS
  <2>5. path[1].s \in Int /\ path[Len(path)].s \in Int
    BY <2>4, PathPointsAre DEF PathPoints
  <2>6. PathLength(path) = path[Len(path)].s - path[1].s
    BY DEF PathLength
  <2> QED BY <2>3, <2>5, <2>6
<1> HIDE DEF size
<1>5. \A i \in 1 .. size + 1 :
        /\ k(i).t = (i - 1) * unit /\ k(i).s2 \in Nat /\ k(i).v \in Nat /\ k(i).s2 <= PathLength(path)
  <2> SUFFICES ASSUME NEW i \in 1 .. size + 1
               PROVE  /\ k(i).t = (i - 1) * unit /\ k(i).s2 \in Nat /\ k(i).v \in Nat
                      /\ k(i).s2 <= PathLength(path)
    OBVIOUS
  <2> HIDE DEF knots
  <2>1. /\ k(i).t = (i - 1) * unit /\ k(i).s2 \in Nat /\ k(i).v \in Nat
        /\ k(i).s2 <= knots[Len(knots)].s2
    BY <1>1, StepKnotsAre
  <2> HIDE DEF k
  <2>2. k(i).s2 <= PathLength(path)
    BY <1>2, <1>4, <2>1
  <2> QED BY <2>1, <2>2
<1> HIDE DEF knots
<1>6. PICK m \in 0 .. size + 1 : Combined(trajectory, forward, path, knots, unit, size, m)
  BY <1>1, KnotsAndPath
<1>7. m = size + 1 /\ m \in 1 .. size + 1
  <2>1. m = size + 1 \/ ~(k(m + 1).s2 <= PathLength(path))
    BY <1>6 DEF Combined
  <2>2. m = size + 1 \/ m + 1 \in 1 .. size + 1
    BY <1>3, <1>6
  <2> HIDE DEF k
  <2>3. m = size + 1
    BY <1>5, <2>1, <2>2
  <2> QED BY <1>3, <2>3
<1> HIDE DEF trajectory
<1>8. KeepsToPath(path, trajectory, forward, unit)
  BY <1>1, <1>6, <1>7, KnotsKeepToPath
<1>9. Len(trajectory) = m /\ DOMAIN trajectory = 1 .. m
  BY <1>1, <1>6, <1>7, PointsOfSteps
<1>10. \A i \in 1 .. m : /\ trajectory[i].t = (i - 1) * unit
                         /\ trajectory[i].v = IF forward THEN k(i).v ELSE -k(i).v
                         /\ trajectory[i].point.s = k(i).s2
  BY <1>1, <1>6, <1>7, PointsOfSteps
<1>11. k(size + 1).s2 = c.end_s2 /\ k(size + 1).v = 0
  <2>1. ~(size + 1 <= size)
    BY <1>3
  <2>2. k(size + 1) = [knots[Len(knots)] EXCEPT !.t = size * unit]
    BY <2>1 DEF StepKnot
  <2>3. knots[Len(knots)] \in Knots
    <3>1. knots \in Seq(Knots) /\ Len(knots) >= 2
      BY <1>1 DEF Stepped
    <3> QED BY <3>1
  <2>4. knots[Len(knots)] = [t |-> knots[Len(knots)].t, s2 |-> knots[Len(knots)].s2,
                             v |-> knots[Len(knots)].v]
    BY <2>3 DEF Knots
  <2>5. k(size + 1).s2 = knots[Len(knots)].s2 /\ k(size + 1).v = knots[Len(knots)].v
    BY <2>2, <2>4
  <2> QED BY <1>2, <2>5
<1>12. \A i \in 1 .. size : k(i) = At(c, (i - 1) * unit)
  <2>1. \A i \in 1 .. size : i <= size
    BY <1>3
  <2>2. \A i \in 1 .. size : k(i) = knots[i]
    BY <2>1 DEF StepKnot
  <2> HIDE DEF k
  <2> QED BY <1>2, <2>2
<1> HIDE DEF k
<1>13. StopsAt(c.end_s2, trajectory)
  <2>1. m \in 1 .. m
    BY <1>3, <1>7
  <2>2. trajectory[m].point.s = c.end_s2
    BY <1>7, <1>10, <1>11, <2>1
  <2> DEFINE z == k(size + 1).v
  <2>3. trajectory[m].v = IF forward THEN z ELSE -z
    BY <1>7, <1>10, <2>1
  <2>4. z = 0
    BY <1>11
  <2> HIDE DEF z
  <2>5. -z = 0
    <3> DEFINE y == -z
    <3>1. z \in Int
      BY <2>4
    <3>2. y \in Int /\ y + z = 0
      BY <3>1
    <3> HIDE DEF y
    <3>3. y = 0
      BY <2>4, <3>1, <3>2
    <3> QED BY <3>3 DEF y
  <2> QED BY <1>9, <2>2, <2>3, <2>4, <2>5 DEF StopsAt
<1>14. ASSUME NEW i \in DOMAIN trajectory, trajectory[i].t <= c.total_t
       PROVE  LET now == At(c, trajectory[i].t)
              IN /\ trajectory[i].point.s = now.s2
                 /\ trajectory[i].v = IF forward THEN now.v ELSE -now.v
  <2>1. i \in 1 .. m /\ i \in 1 .. size + 1 /\ trajectory[i].t = (i - 1) * unit
    BY <1>7, <1>9, <1>10
  <2>2. i \in 1 .. size
    <3> SUFFICES ASSUME i = size + 1 PROVE FALSE
      BY <1>3, <2>1
    <3>1. (i - 1) * unit = (size - 1) * unit + unit
      BY <1>3
    <3>2. (size - 1) * unit + unit \in Int
      BY <1>3
    <3> QED BY <1>3, <1>14, <2>1, <3>1, <3>2
  <2>3. k(i) = At(c, trajectory[i].t)
    BY <1>12, <2>1, <2>2
  <2> QED BY <1>10, <2>1, <2>3
<1> QED BY <1>8, <1>13, <1>14 DEF DrivesCurve, trajectory, knots

\* What is interpolated between whole numbers is whole.
LEMMA LerpIsWhole ==
  ASSUME NEW a \in Int, NEW t0 \in Int, NEW b \in Int, NEW t1 \in Int, NEW t \in Int
  PROVE  lerp(a, t0, b, t1, t) \in Int
<1> DEFINE d == t1 - t0
           e == (b - a) * (t - t0)
<1>1. CASE t1 = t0
  BY <1>1 DEF lerp
<1>2. CASE t1 # t0
  <2>1. d \in Int /\ d # 0 /\ e \in Int
    BY <1>2
  <2>2. lerp(a, t0, b, t1, t) = a + (IF d < 0 THEN (-e) \div (-d) ELSE e \div d)
    BY <1>2 DEF lerp, Share, Quotient
  <2> HIDE DEF d, e
  <2>3. d < 0 => (-e) \div (-d) \in Int
    <3>1. d < 0 => -d \in Nat \ {0} /\ -e \in Int
      BY <2>1
    <3> QED BY <3>1
  <2>4. ~(d < 0) => e \div d \in Int
    <3>1. ~(d < 0) => d \in Nat \ {0}
      BY <2>1
    <3> QED BY <2>1, <3>1
  <2>5. (IF d < 0 THEN (-e) \div (-d) ELSE e \div d) \in Int
    BY <2>3, <2>4
  <2> QED BY <2>2, <2>5
<1> QED BY <1>1, <1>2

\* An angle stays one.
LEMMA AnglesAreWhole ==
  ASSUME NEW a \in Int
  PROVE  NormalizeAngle(a) \in Int
BY DEF NormalizeAngle, Turn48

\* The angle between two is whole.
LEMMA SlerpIsWhole ==
  ASSUME NEW a0 \in Int, NEW t0 \in Int, NEW a1 \in Int, NEW t1 \in Int, NEW t \in Int
  PROVE  slerp(a0, t0, a1, t1, t) \in Int
<1> DEFINE from == NormalizeAngle(a0)
           d == NormalizeAngle(a1) - from
           arc == IF 2 * d > Turn48 THEN d - Turn48
                  ELSE IF 2 * d < -Turn48 THEN d + Turn48 ELSE d
           share == Share(0, arc, t - t0, t1 - t0)
<1>1. from \in Int /\ NormalizeAngle(a1) \in Int
  BY AnglesAreWhole
<1>2. d \in Int
  <2> HIDE DEF from
  <2> QED BY <1>1
<1> HIDE DEF d, from
<1>3. arc \in Int
  BY <1>2 DEF Turn48
<1> HIDE DEF arc
<1>4. CASE t1 = t0
  BY <1>4, AnglesAreWhole DEF slerp
<1>5. CASE t1 # t0
  <2>1. 0 \in Int
    OBVIOUS
  <2>2. lerp(0, t0, arc, t1, t) \in Int
    BY <1>3, <2>1, LerpIsWhole
  <2>3. lerp(0, t0, arc, t1, t) = 0 + share
    BY <1>5 DEF lerp
  <2>4. share \in Int
    <3>1. t - t0 \in Int /\ t1 - t0 \in Int /\ t1 - t0 # 0
      BY <1>5
    <3> DEFINE w == t1 - t0
               e == (arc - 0) * (t - t0)
    <3>2. e \in Int /\ w \in Int /\ w # 0
      BY <1>3, <3>1
    <3>3. share = IF w < 0 THEN (-e) \div (-w) ELSE e \div w
      BY DEF Share, Quotient
    <3> HIDE DEF w, e, share
    <3>4. w < 0 => -w \in Nat \ {0} /\ -e \in Int
      BY <3>2
    <3>5. ~(w < 0) => w \in Nat \ {0}
      BY <3>2
    <3>6. w < 0 => (-e) \div (-w) \in Int
      BY <3>4
    <3>7. ~(w < 0) => e \div w \in Int
      BY <3>2, <3>5
    <3> QED BY <3>3, <3>6, <3>7
  <2> HIDE DEF share
  <2>5. from + share \in Int
    BY <1>1, <2>4
  <2>6. slerp(a0, t0, a1, t1, t) = NormalizeAngle(from + share)
    BY <1>5 DEF slerp, share, arc, d, from
  <2> QED BY <2>5, <2>6, AnglesAreWhole
<1> QED BY <1>4, <1>5

\* Points between points of a path are points of paths.
LEMMA BetweenIsPoint ==
  ASSUME NEW p \in PathPoints, NEW q \in PathPoints, NEW s \in Int
  PROVE  Between(p, q, s) \in PathPoints
<1>1. p.x \in Int /\ p.y \in Int /\ p.theta \in Int /\ p.s \in Int
  BY DEF PathPoints
<1>2. q.x \in Int /\ q.y \in Int /\ q.theta \in Int /\ q.s \in Int
  BY DEF PathPoints
<1> DEFINE x == lerp(p.x, p.s, q.x, q.s, s)
           y == lerp(p.y, p.s, q.y, q.s, s)
           theta == slerp(p.theta, p.s, q.theta, q.s, s)
<1>3. x \in Int
  BY <1>1, <1>2, LerpIsWhole
<1>4. y \in Int
  BY <1>1, <1>2, LerpIsWhole
<1>5. theta \in Int
  BY <1>1, <1>2, SlerpIsWhole
<1>6. Between(p, q, s) = [x |-> x, y |-> y, theta |-> theta, s |-> s]
  BY DEF Between, PathPoint
<1> HIDE DEF x, y, theta
<1> QED BY <1>3, <1>4, <1>5, <1>6 DEF PathPoints

\* What CutOffPathByCollisionInfo leaves of a path whose ways are counted from its begin.
LEMMA CutPath ==
  ASSUME NEW path \in Seq(PathPoints), path # <<>>, path[1].s = 0,
         \A i \in 2 .. Len(path) : path[i-1].s <= path[i].s,
         NEW index \in 1 .. Len(path), NEW reserve \in Nat
  PROVE  CutsBefore(path, index, reserve) /\ CutOffPath(path, index, reserve) \in Seq(PathPoints)
<1> DEFINE n == Len(path)
           cut == CutOffPath(path, index, reserve)
           here == path[index].s
           stop == IF here < reserve THEN 0 ELSE here - reserve
           f == [i \in 1 .. n |-> path[i].s]
           S == {i \in Nat : i \in 1 .. n /\ path[i].s >= stop}
<1>1. n \in Nat \ {0} /\ index \in 1 .. n /\ 1 \in 1 .. n /\ n \in 1 .. n /\ index <= n /\ DOMAIN path = 1 .. n
  OBVIOUS
<1>2. \A i \in 1 .. n : path[i] \in PathPoints /\ path[i].s \in Int
  <2>1. \A i \in 1 .. n : path[i] \in PathPoints
    OBVIOUS
  <2> QED BY <2>1 DEF PathPoints
<1>3. f \in [1 .. n -> Int] /\ \A i \in 1 .. n : f[i] = path[i].s
  BY <1>2
<1> HIDE DEF n, f
<1>4. \A i, j \in 1 .. n : i <= j => path[i].s <= path[j].s
  <2> SUFFICES ASSUME NEW i \in 1 .. n, NEW j \in 1 .. n, i <= j PROVE f[i] <= f[j]
    BY <1>3
  <2>1. \A h \in 2 .. n : f[h-1] <= f[h]
    <3> SUFFICES ASSUME NEW h \in 2 .. n PROVE f[h-1] <= f[h]
      OBVIOUS
    <3>1. h \in 1 .. n /\ h - 1 \in 1 .. n
      BY <1>1
    <3>2. path[h-1].s <= path[h].s
      BY DEF n
    <3> QED BY <1>3, <3>1, <3>2
  <2> QED BY <1>1, <1>3, <2>1, Climbs
<1>5. here \in Nat /\ here <= path[n].s /\ path[n].s \in Int
  <2>1. path[1].s <= path[index].s
    BY <1>1, <1>4
  <2>2. here <= path[n].s
    BY <1>1, <1>4
  <2>3. path[index].s \in Int /\ path[n].s \in Int
    BY <1>1, <1>2
  <2> QED BY <2>1, <2>2, <2>3
<1>6. PathLength(path) = path[n].s
  <2> DEFINE e == path[n].s
  <2>1. PathLength(path) = e - 0
    BY DEF PathLength, n
  <2> HIDE DEF e
  <2>2. e - 0 = e
    BY <1>5 DEF e
  <2> QED BY <2>1, <2>2 DEF e
<1>7. stop \in Nat /\ stop <= here
  <2> HIDE DEF here
  <2> QED BY <1>5
<1>8. stop = IF here - reserve < 0 THEN 0 ELSE here - reserve
  <2> HIDE DEF here
  <2> QED BY <1>5
<1>9. CutOffPath(path, index, reserve) =
        LET k == CHOOSE m \in LowerBound(path, stop) : TRUE
        IN IF k = 1 THEN SubSeq(path, 1, 1) ELSE Append(SubSeq(path, 1, k - 1), Evaluate(path, stop))
  BY DEF CutOffPath
<1> HIDE DEF stop
<1>10. path[index].s >= stop
  <2> HIDE DEF here
  <2>1. here >= stop
    BY <1>5, <1>7
  <2> QED BY <2>1 DEF here
<1>11. PICK i \in S : \A m \in S : i <= m
  <2>1. index \in S
    BY <1>1, <1>10
  <2> HIDE DEF S
  <2>2. S \in SUBSET Nat
    BY DEF S
  <2> QED BY <2>1, <2>2, LeastNumber
<1>12. i \in 1 .. n /\ i \in Nat /\ path[i].s >= stop
  OBVIOUS
<1>13. i \in LowerBound(path, stop)
  <2>1. \A j \in 1 .. i - 1 : path[j].s < stop
    <3> SUFFICES ASSUME NEW j \in 1 .. i - 1 PROVE path[j].s < stop
      OBVIOUS
    <3>1. j \in 1 .. n /\ j \in Nat /\ j < i
      BY <1>1, <1>12
    <3>2. j \notin S
      <4> HIDE DEF S
      <4> QED BY <1>11, <1>12, <3>1
    <3>3. ~(path[j].s >= stop)
      BY <3>1, <3>2
    <3>4. path[j].s \in Int
      BY <1>2, <3>1
    <3> HIDE DEF S
    <3> QED BY <1>7, <3>3, <3>4
  <2> HIDE DEF S
  <2> QED BY <1>1, <1>12, <2>1 DEF LowerBound
<1> HIDE DEF S
<1>14. PICK k \in LowerBound(path, stop) : k = CHOOSE m \in LowerBound(path, stop) : TRUE
  BY <1>13
<1>15. k \in 1 .. n /\ path[k].s >= stop /\ \A j \in 1 .. k - 1 : path[j].s < stop
  BY <1>1 DEF LowerBound
<1>16. cut = IF k = 1 THEN SubSeq(path, 1, 1)
             ELSE Append(SubSeq(path, 1, k - 1), Evaluate(path, stop))
  BY <1>9, <1>14
<1> HIDE DEF cut, here
<1>17. /\ cut \in Seq(PathPoints) /\ cut # <<>> /\ cut[1] = path[1]
       /\ \A j \in 1 .. Len(cut) - 1 : cut[j] = path[j]
       /\ cut[Len(cut)].s = stop
  <2>1. CASE k = 1
    <3>1. 1 \in 0 .. Len(path)
      BY <1>1 DEF n
    <3>2. SubSeq(path, 1, 1) \in Seq(PathPoints) /\ Len(SubSeq(path, 1, 1)) = 1
          /\ SubSeq(path, 1, 1)[1] = path[1]
      <4>1. 1 \in 1 .. 1
        OBVIOUS
      <4> QED BY <3>1, <4>1, PrefixIs
    <3>3. stop = 0
      BY <1>7, <1>15, <2>1
    <3>4. cut \in Seq(PathPoints) /\ Len(cut) = 1 /\ cut[1] = path[1]
      BY <1>16, <2>1, <3>2
    <3>5. cut # <<>> /\ 1 .. Len(cut) - 1 = {}
      <4>1. Len(cut) - 1 = 0 /\ 1 .. 0 = {}
        BY <3>4
      <4>2. cut = <<>> => Len(cut) = 0
        OBVIOUS
      <4>3. Len(cut) = 1
        BY <3>4
      <4>4. cut # <<>>
        BY <4>2, <4>3
      <4> QED BY <4>1, <4>4
    <3>6. cut[1].s = 0
      BY <3>4
    <3> QED BY <3>3, <3>4, <3>5, <3>6
  <2>2. CASE k # 1
    <3> DEFINE e == Evaluate(path, stop)
               head == SubSeq(path, 1, k - 1)
    <3>1. k - 1 \in 0 .. Len(path) /\ k - 1 \in Nat \ {0} /\ 1 \in 1 .. k - 1 /\ k - 1 \in 1 .. n
      BY <1>1, <1>15, <2>2 DEF n
    <3>2. head \in Seq(PathPoints) /\ Len(head) = k - 1 /\ \A j \in 1 .. k - 1 : head[j] = path[j]
      BY <3>1, PrefixIs
    <3>3. e.s = stop
      <4>1. stop <= PathLength(path)
        BY <1>5, <1>6, <1>7
      <4> QED BY <1>7, <4>1, EvaluateReaches
    <3>4. e \in PathPoints
      <4>1. PICK l \in LowerBound(path, stop) : l = CHOOSE m \in LowerBound(path, stop) : TRUE
        BY <1>13
      <4>2. l \in 1 .. n
        BY <1>1, <4>1 DEF LowerBound
      <4>3. e = IF l = 1 THEN path[1] ELSE Between(path[l-1], path[l], stop)
        BY <1>13, <4>1 DEF Evaluate
      <4>4. l = 1 \/ l - 1 \in 1 .. n
        BY <1>1, <4>2
      <4>5. l # 1 => Between(path[l-1], path[l], stop) \in PathPoints
        <5> SUFFICES ASSUME l # 1 PROVE Between(path[l-1], path[l], stop) \in PathPoints
          OBVIOUS
        <5>1. path[l-1] \in PathPoints /\ path[l] \in PathPoints
          BY <1>2, <4>2, <4>4
        <5>2. stop \in Int
          BY <1>7
        <5> QED BY <5>1, <5>2, BetweenIsPoint
      <4>6. path[1] \in PathPoints
        BY <1>1, <1>2
      <4> QED BY <4>3, <4>5, <4>6
    <3>5. cut = Append(head, e)
      BY <1>16, <2>2
    <3> HIDE DEF e, head
    <3>6. cut \in Seq(PathPoints) /\ Len(cut) = k /\ cut[k] = e /\ \A j \in 1 .. k - 1 : cut[j] = head[j]
      <4>1. Len(head) + 1 = k
        BY <1>15, <3>1, <3>2
      <4>2. Append(head, e) \in Seq(PathPoints) /\ Len(Append(head, e)) = Len(head) + 1
            /\ Append(head, e)[Len(head) + 1] = e
        BY <3>2, <3>4
      <4>3. \A j \in 1 .. Len(head) : Append(head, e)[j] = head[j]
        BY <3>2, <3>4
      <4> QED BY <3>2, <3>5, <4>1, <4>2, <4>3
    <3>7. cut[1] = path[1]
      BY <3>1, <3>2, <3>6
    <3>8. cut # <<>>
      BY <1>15, <3>6
    <3> QED BY <3>2, <3>3, <3>6, <3>7, <3>8
  <2> QED BY <2>1, <2>2
<1>18. PathLength(cut) = stop
  <2>1. PathLength(cut) = cut[Len(cut)].s - cut[1].s
    BY <1>17 DEF PathLength
  <2>2. PathLength(cut) = stop - 0
    BY <1>17, <2>1
  <2>3. stop - 0 = stop
    BY <1>7
  <2> QED BY <2>2, <2>3
<1> QED BY <1>8, <1>17, <1>18 DEF CutsBefore, cut, here

(* Whatever the pieces of a curve are that never goes backwards and ends   *)
(* at rest, and whatever the path and where on it the collision is: if the *)
(* curve is not longer than what is left of the path, the trajectory is on *)
(* that at each time where the curve is, in the direction of the gear, and *)
(* comes to rest at the end of the curve, which lies at the reserve before *)
(* the collision at most (CutOffPathByCollisionInfo, CombinePathAndSpeed). *)
THEOREM DrivesEndBeforeTheCollision ==
  ASSUME NEW points \in Seq(PathPoints), points # <<>>, NEW index \in 1 .. Len(points), NEW reserve \in Nat,
         NEW path, path = NormalizeDiscretizedPath(points),
         NEW v \in Int, NEW pieces \in Seq(CurvePieces), pieces # <<>>,
         NEW unit \in Nat \ {0}, \A i \in DOMAIN pieces : unit <= pieces[i].t,
         Forward(Curve(v, pieces)), Curve(v, pieces).end_v = 0,
         Curve(v, pieces).end_s2 <= PathLength(CutOffPath(path, index, reserve)),
         NEW forward \in BOOLEAN
  PROVE  /\ CutsBefore(path, index, reserve)
         /\ DrivesCurve(Curve(v, pieces), CutOffPath(path, index, reserve), forward, unit)
<1> DEFINE c == Curve(v, pieces)
           cut == CutOffPath(path, index, reserve)
<1>1. Joined(c, unit)
  BY CurveIsJoined
<1>2. Node(c, 1).s2 = 0
  <2>1. c.origins = Origins(v, pieces)
    BY DEF Curve
  <2>2. Origins(v, pieces)[1] = [s2 |-> 0, v |-> v, a |-> pieces[1].a, t |-> 0]
    BY OriginsAre
  <2>3. 1 <= Len(c.origins)
    BY <1>1 DEF Joined
  <2> HIDE DEF c
  <2> QED BY <2>1, <2>2, <2>3 DEF Node
<1>3. Forward(c) /\ c.end_v = 0 /\ c.end_s2 <= PathLength(cut)
  OBVIOUS
<1> HIDE DEF c
<1>4. Len(points) > 0
  OBVIOUS
<1>5. /\ path \in Seq(PathPoints) /\ Len(path) = Len(points) /\ path[1].s = 0
      /\ \A i \in 2 .. Len(points) : path[i-1].s <= path[i].s
  BY <1>4, NormalizedPath
<1>6. path # <<>> /\ index \in 1 .. Len(path) /\ \A i \in 2 .. Len(path) : path[i-1].s <= path[i].s
  BY <1>4, <1>5
<1>7. CutsBefore(path, index, reserve) /\ cut \in Seq(PathPoints)
  BY <1>5, <1>6, CutPath
<1>8. cut # <<>> /\ cut[1].s = 0
  BY <1>5, <1>7 DEF CutsBefore
<1> HIDE DEF cut
<1>9. DrivesCurve(c, cut, forward, unit)
  BY <1>1, <1>2, <1>3, <1>7, <1>8, JoinedDrives
<1> QED BY <1>7, <1>9 DEF c, cut

-----------------------------------------------------------------------------
(* Braking *)

\* A knot of a braking from v by dec.
BrakeKnot(v, dec, length, t) ==
  IF t = v \div dec THEN [t |-> t, s2 |-> length, v |-> 0]
  ELSE [t |-> t, s2 |-> (2 * v - dec * t) * t, v |-> v - dec * t]

\* The last knots are the first beyond the path, or that of the standstill.
Brakes(knots, v, dec, length, unit, N) ==
  /\ knots = [i \in 1 .. N |-> BrakeKnot(v, dec, length, (i - 1) * unit)]
  /\ \A j \in 1 .. N - 1 : BrakeKnot(v, dec, length, (j - 1) * unit).s2 <= length
  /\ N = (v \div dec) \div unit + 1 \/ ~(BrakeKnot(v, dec, length, (N - 1) * unit).s2 <= length)

\* How many knots there are.
LEMMA BrakesSomewhere ==
  ASSUME NEW v \in Nat \ {0}, NEW dec \in Nat \ {0}, NEW length, NEW unit \in Nat \ {0}
  PROVE  \E N \in 1 .. (v \div dec) \div unit + 1 :
           Brakes(BackUpKnots(v, dec, length, unit), v, dec, length, unit, N)
<1> DEFINE k == (v \div dec) \div unit + 1
           knot(t) == BrakeKnot(v, dec, length, t)
           on(j) == knot((j - 1) * unit).s2 <= length
           within == {n \in 1 .. k : \A j \in 1 .. n - 1 : on(j)}
           S == {j \in Nat : j \in 1 .. k /\ ~on(j)}
<1>1. k \in Nat \ {0}
  <2>1. v \div dec \in Nat
    BY StepsBefore
  <2>2. (v \div dec) \div unit \in Nat
    BY <2>1, StepsBefore
  <2> QED BY <2>2
<1>2. BackUpKnots(v, dec, length, unit) = [i \in 1 .. Cardinality(within) |-> knot((i - 1) * unit)]
  BY DEF BackUpKnots, BrakeKnot
<1>3. \E N \in 1 .. k : within = 1 .. N /\ (\A j \in 1 .. N - 1 : on(j)) /\ (N = k \/ ~on(N))
  <2> HIDE DEF k, on, knot
  <2>1. CASE S = {}
    <3>1. \A j \in 1 .. k : on(j)
      BY <1>1, <2>1
    <3>2. \A n \in 1 .. k : \A j \in 1 .. n - 1 : j \in 1 .. k
      BY <1>1
    <3>3. within = 1 .. k
      BY <3>1, <3>2
    <3>4. k \in 1 .. k
      BY <1>1
    <3> HIDE DEF within, S
    <3> QED BY <3>1, <3>2, <3>3, <3>4
  <2>2. CASE S # {}
    <3>1. PICK l \in S : \A j \in S : l <= j
      <4> HIDE DEF S
      <4>1. S \in SUBSET Nat
        BY DEF S
      <4> QED BY <2>2, <4>1, LeastNumber
    <3>2. l \in 1 .. k /\ ~on(l) /\ l \in Nat
      OBVIOUS
    <3>3. \A j \in 1 .. l - 1 : on(j)
      <4> SUFFICES ASSUME NEW j \in 1 .. l - 1 PROVE on(j)
        OBVIOUS
      <4>1. j \in 1 .. k /\ j \in Nat /\ ~(l <= j)
        BY <1>1, <3>2
      <4> QED BY <3>1, <4>1
    <3>4. within = 1 .. l
      <4>1. \A n \in 1 .. k : n <= l => \A j \in 1 .. n - 1 : j \in 1 .. l - 1
        BY <3>2
      <4>2. \A n \in 1 .. k : ~(n <= l) => l \in 1 .. n - 1
        BY <3>2
      <4>3. \A n \in 1 .. k : n \in within <=> n <= l
        BY <3>2, <3>3, <4>1, <4>2
      <4>4. within \subseteq 1 .. k
        OBVIOUS
      <4> HIDE DEF within, S
      <4>5. 1 .. l \subseteq 1 .. k /\ \A n \in 1 .. k : n \in 1 .. l <=> n <= l
        BY <1>1, <3>2
      <4>6. \A n \in 1 .. k : n \in within <=> n \in 1 .. l
        BY <4>3, <4>5
      <4> HIDE DEF k
      <4>7. \A n : n \in within <=> n \in 1 .. l
        BY <4>4, <4>5, <4>6
      <4> QED BY <4>7
    <3> HIDE DEF within, S
    <3> QED BY <3>2, <3>3, <3>4
  <2> QED BY <2>1, <2>2
<1>4. PICK N \in 1 .. k : within = 1 .. N /\ (\A j \in 1 .. N - 1 : on(j)) /\ (N = k \/ ~on(N))
  BY <1>3
<1>5. Cardinality(within) = N
  <2>1. N \in Int /\ 1 \in Int
    BY <1>1
  <2>2. Cardinality(1 .. N) = IF 1 > N THEN 0 ELSE N - 1 + 1
    BY <2>1, FS_Interval
  <2>3. (IF 1 > N THEN 0 ELSE N - 1 + 1) = N
    BY <1>1
  <2> HIDE DEF within
  <2> QED BY <1>4, <2>2, <2>3
<1> HIDE DEF within, S
<1>6. BackUpKnots(v, dec, length, unit) = [i \in 1 .. N |-> knot((i - 1) * unit)]
  BY <1>2, <1>5
<1> QED BY <1>4, <1>6 DEF Brakes

\* The way and the speed of a braking, up to the standstill.
LEMMA BrakingGoesOn ==
  ASSUME NEW T \in Nat \ {0}, NEW dec \in Nat \ {0}, NEW v, v = dec * T, NEW t \in 0 .. T
  PROVE  /\ (2 * v - dec * t) * t \in Nat /\ v - dec * t \in 0 .. v
         /\ (2 * v - dec * t) * t <= dec * (T * T)
         /\ t = T => v - dec * t = 0
         /\ \A u \in t .. T : (2 * v - dec * t) * t <= (2 * v - dec * u) * u
                              /\ v - dec * u <= v - dec * t
<1>1. \A u \in 0 .. T : /\ v - dec * u = dec * (T - u)
                        /\ (2 * v - dec * u) * u = dec * ((2 * T - u) * u)
  OBVIOUS
<1>2. \A p, q \in Int : p <= q => dec * p <= dec * q
  OBVIOUS
<1>3. \A u \in t .. T : u \in 0 .. T /\ T - u <= T - t /\ (2 * T - t) * t <= (2 * T - u) * u
  <2> SUFFICES ASSUME NEW u \in t .. T
               PROVE  u \in 0 .. T /\ T - u <= T - t /\ (2 * T - t) * t <= (2 * T - u) * u
    OBVIOUS
  <2>1. u \in 0 .. T /\ T - u <= T - t
    OBVIOUS
  <2>2. PICK d \in Nat : d = u - t
    OBVIOUS
  <2>3. PICK e \in Nat : e = T - u
    OBVIOUS
  <2>4. u = t + d /\ T = t + d + e /\ t \in Nat
    BY <2>2, <2>3
  <2>5. 2 * T - t = t + d + d + e + e /\ 2 * T - u = t + d + e + e
    BY <2>4
  <2>6. (t + d + e + e) * (t + d) = (t + d + d + e + e) * t + d * (d + e + e)
    BY <2>4
  <2>7. d * (d + e + e) \in Nat /\ (t + d + d + e + e) * t \in Nat
    BY <2>4
  <2>8. (2 * T - t) * t = (t + d + d + e + e) * t
    BY <2>5
  <2>9. (2 * T - u) * u = (t + d + e + e) * (t + d)
    BY <2>4, <2>5
  <2>10. (2 * T - t) * t <= (2 * T - u) * u
    <3> DEFINE x == (t + d + d + e + e) * t
               y == d * (d + e + e)
    <3>1. x \in Nat /\ y \in Nat /\ (2 * T - t) * t = x /\ (2 * T - u) * u = x + y
      BY <2>6, <2>7, <2>8, <2>9
    <3> HIDE DEF x, y
    <3> QED BY <3>1
  <2> QED BY <2>1, <2>10
<1>4. T \in t .. T /\ (2 * T - T) * T = T * T
  OBVIOUS
<1>5. \A u \in 0 .. T : (2 * T - u) * u \in Nat /\ T - u \in Nat
  OBVIOUS
<1>6. \A p \in Nat : dec * p \in Nat
  OBVIOUS
<1>7. t \in t .. T /\ t \in 0 .. T
  OBVIOUS
<1>8. (2 * v - dec * t) * t \in Nat
  <2>1. dec * ((2 * T - t) * t) \in Nat
    BY <1>5, <1>6, <1>7
  <2> QED BY <1>1, <1>7, <2>1
<1>9. (2 * v - dec * t) * t <= dec * (T * T)
  <2> DEFINE p == (2 * T - t) * t
             q == T * T
  <2>1. p <= q /\ p \in Int /\ q \in Int
    BY <1>3, <1>4, <1>5, <1>7
  <2>2. (2 * v - dec * t) * t = dec * p
    BY <1>1, <1>7
  <2> HIDE DEF p, q
  <2>3. dec * p <= dec * q
    BY <1>2, <2>1
  <2> QED BY <2>2, <2>3 DEF q
<1>10. ASSUME NEW u \in t .. T
       PROVE  (2 * v - dec * t) * t <= (2 * v - dec * u) * u /\ v - dec * u <= v - dec * t
  <2> DEFINE p == (2 * T - t) * t
             q == (2 * T - u) * u
             g == T - t
             h == T - u
  <2>1. u \in 0 .. T /\ p <= q /\ p \in Int /\ q \in Int /\ h <= g /\ g \in Int /\ h \in Int
    BY <1>3, <1>5, <1>7
  <2>2. (2 * v - dec * t) * t = dec * p /\ (2 * v - dec * u) * u = dec * q
    BY <1>1, <1>7, <2>1
  <2>3. v - dec * u = dec * h /\ v - dec * t = dec * g
    BY <1>1, <1>7, <2>1
  <2> HIDE DEF p, q, g, h
  <2>4. dec * p <= dec * q /\ dec * h <= dec * g
    BY <1>2, <2>1
  <2> QED BY <2>2, <2>3, <2>4
<1>11. v - dec * t \in 0 .. v
  <2> DEFINE g == T - t
             w == dec * t
  <2>1. v - w = dec * g /\ g \in Nat
    BY <1>1, <1>5, <1>7
  <2>2. w \in Nat /\ dec * g \in Nat /\ v \in Nat
    <3> HIDE DEF g
    <3>1. dec * g \in Nat
      BY <1>6, <2>1
    <3>2. t \in Nat
      OBVIOUS
    <3> QED BY <1>6, <3>1, <3>2
  <2> DEFINE x == dec * g
  <2> HIDE DEF g, w
  <2>3. v - w = x /\ x \in Nat
    BY <2>1, <2>2
  <2> HIDE DEF x
  <2>4. v - w \in 0 .. v
    BY <2>2, <2>3
  <2> QED BY <2>4 DEF w
<1>12. t = T => v - dec * t = 0
  OBVIOUS
<1> QED BY <1>8, <1>9, <1>10, <1>11, <1>12

\* A time of whole steps is as many of them.
LEMMA ExactSteps ==
  ASSUME NEW total \in Nat, NEW unit \in Nat \ {0}, total % unit = 0
  PROVE  total = (total \div unit) * unit
OBVIOUS

\* The knots of a braking, the last of which may be beyond the path.
LEMMA BrakeKnotsAre ==
  ASSUME NEW v \in Nat \ {0}, NEW dec \in Nat \ {0}, v = dec * (v \div dec), NEW length \in Nat,
         NEW unit \in Nat \ {0}, NEW N \in 1 .. (v \div dec) \div unit + 1, N >= 2, NEW knots,
         Brakes(knots, v, dec, length, unit, N)
  PROVE  /\ Stepped(knots, unit, N) /\ Onward(knots) /\ Len(knots) = N
         /\ \A i \in 1 .. N : knots[i] = BrakeKnot(v, dec, length, (i - 1) * unit) /\ knots[i].v \in 0 .. v
         /\ \A i \in 2 .. N : knots[i].v <= knots[i-1].v
<1> DEFINE T == v \div dec
           knot(t) == BrakeKnot(v, dec, length, t)
<1>1. T \in Nat \ {0} /\ N \in Nat
  <2>1. T \in Nat
    BY StepsBefore
  <2>2. dec * 0 = 0
    OBVIOUS
  <2>3. T # 0
    <3> HIDE DEF T
    <3> SUFFICES ASSUME T = 0 PROVE FALSE
      OBVIOUS
    <3>1. v = dec * 0
      BY DEF T
    <3> QED BY <2>2, <3>1
  <2>4. N \in Nat
    OBVIOUS
  <2> QED BY <2>1, <2>3, <2>4
<1>2. v = dec * T
  OBVIOUS
<1>3. \A i \in 1 .. N : (i - 1) * unit \in Nat /\ (i - 1) * unit <= T
  <2> SUFFICES ASSUME NEW i \in 1 .. N PROVE (i - 1) * unit \in Nat /\ (i - 1) * unit <= T
    OBVIOUS
  <2> DEFINE q == T \div unit
  <2>1. q \in Nat /\ q * unit <= T
    BY <1>1, StepsBefore
  <2>2. N \in 1 .. q + 1
    OBVIOUS
  <2> HIDE DEF q, T
  <2>3. i - 1 \in Nat /\ i - 1 <= q
    BY <2>1, <2>2
  <2>4. (i - 1) * unit <= q * unit
    BY <2>1, <2>3, StepsGrow
  <2>5. (i - 1) * unit \in Nat /\ q * unit \in Nat
    BY <2>1, <2>3
  <2> QED BY <1>1, <2>1, <2>4, <2>5
<1>4. knots = [i \in 1 .. N |-> knot((i - 1) * unit)]
  BY DEF Brakes
<1>5. \A i \in 1 .. N - 1 : knot((i - 1) * unit).s2 <= length
  BY DEF Brakes
<1>6. \A t : knot(t) = IF t = T THEN [t |-> t, s2 |-> length, v |-> 0]
                       ELSE [t |-> t, s2 |-> (2 * v - dec * t) * t, v |-> v - dec * t]
  BY DEF BrakeKnot
<1> HIDE DEF T, knot
<1>7. \A t \in 0 .. T : knot(t).t = t /\ knot(t).s2 \in Nat /\ knot(t).v \in 0 .. v
                        /\ knot(t) \in Knots
  <2> SUFFICES ASSUME NEW t \in 0 .. T
               PROVE  knot(t).t = t /\ knot(t).s2 \in Nat /\ knot(t).v \in 0 .. v /\ knot(t) \in Knots
    OBVIOUS
  <2> DEFINE s == (2 * v - dec * t) * t
             w == v - dec * t
  <2>1. s \in Nat /\ w \in 0 .. v
    BY <1>1, <1>2, BrakingGoesOn
  <2>2. t \in Nat /\ 0 \in 0 .. v /\ 0 \in Int
    OBVIOUS
  <2>3. knot(t) = IF t = T THEN [t |-> t, s2 |-> length, v |-> 0] ELSE [t |-> t, s2 |-> s, v |-> w]
    BY <1>6
  <2> HIDE DEF s, w
  <2>4. w \in Int
    BY <2>1
  <2> QED BY <2>1, <2>2, <2>3, <2>4 DEF Knots
<1>8. Len(knots) = N /\ DOMAIN knots = 1 .. N /\ \A i \in 1 .. N : knots[i] = knot((i - 1) * unit)
  BY <1>1, <1>4
<1>9. \A i \in 1 .. N : (i - 1) * unit \in 0 .. T
  BY <1>1, <1>3
<1>10. knots \in Seq(Knots)
  <2>1. \A i \in 1 .. N : knot((i - 1) * unit) \in Knots
    BY <1>7, <1>9
  <2>2. knots \in [1 .. N -> Knots]
    BY <1>4, <2>1
  <2> QED BY <1>1, <2>2
<1>11. \A i \in 1 .. N : knots[i].t = (i - 1) * unit /\ knots[i].v \in 0 .. v /\ knots[i].s2 \in Nat
  BY <1>7, <1>8, <1>9
<1>12. ASSUME NEW i \in 2 .. N
       PROVE  knots[i-1].t < knots[i].t /\ knots[i-1].s2 <= knots[i].s2 /\ knots[i].v <= knots[i-1].v
  <2> DEFINE t == ((i - 1) - 1) * unit
             u == (i - 1) * unit
             s == (2 * v - dec * t) * t
             z == (2 * v - dec * u) * u
             w == v - dec * t
             y == v - dec * u
  <2>1. i \in 1 .. N /\ i - 1 \in 1 .. N /\ i - 1 \in 1 .. N - 1
    BY <1>1
  <2>2. t \in 0 .. T /\ u \in 0 .. T
    BY <1>9, <2>1
  <2>3. u = t + unit /\ t \in Nat
    <3>1. u = t + unit
      BY <1>1
    <3> HIDE DEF t, u
    <3> QED BY <1>1, <2>2, <3>1
  <2>4. knots[i-1] = knot(t) /\ knots[i] = knot(u)
    BY <1>8, <2>1
  <2>5. knot(t).s2 <= length
    BY <1>5, <2>1
  <2> HIDE DEF t, u
  <2>6. t < u /\ t # T /\ u \in t .. T /\ t < T
    BY <1>1, <2>2, <2>3
  <2>7. s <= z /\ y <= w /\ w \in 0 .. v
    BY <1>1, <1>2, <2>2, <2>6, BrakingGoesOn
  <2>8. knot(t) = [t |-> t, s2 |-> s, v |-> w]
    BY <1>6, <2>6
  <2>9. u # T => knot(u) = [t |-> u, s2 |-> z, v |-> y]
    BY <1>6
  <2>10. u = T => knot(u) = [t |-> u, s2 |-> length, v |-> 0]
    BY <1>6
  <2> HIDE DEF s, z, w, y
  <2>11. knot(t).s2 <= knot(u).s2 /\ knot(u).v <= knot(t).v
    <3>1. CASE u # T
      BY <2>7, <2>8, <2>9, <3>1
    <3>2. CASE u = T
      <4>1. 0 <= w
        BY <2>7
      <4> QED BY <2>5, <2>8, <2>10, <3>2, <4>1
    <3> QED BY <3>1, <3>2
  <2>12. knot(t).t = t /\ knot(u).t = u
    BY <1>7, <2>2
  <2> QED BY <2>4, <2>6, <2>11, <2>12
<1>13. knots[N].t < (N - 1) * unit + unit
  <2>1. N \in 1 .. N
    BY <1>1
  <2> DEFINE x == (N - 1) * unit
  <2>2. knots[N].t = x /\ x \in Nat
    BY <1>3, <1>11, <2>1
  <2> HIDE DEF x
  <2>3. x < x + unit
    BY <2>2
  <2> QED BY <2>2, <2>3 DEF x
<1>14. Stepped(knots, unit, N)
  <2>1. N \in 1 .. N /\ N >= 2
    BY <1>1
  <2> QED BY <1>8, <1>10, <1>11, <1>12, <1>13, <2>1 DEF Stepped
<1>15. knots[1].s2 = 0
  <2>1. 1 \in 1 .. N /\ (1 - 1) * unit = 0
    BY <1>1
  <2>2. knots[1] = knot(0)
    BY <1>8, <2>1
  <2>3. knot(0) = [t |-> 0, s2 |-> (2 * v - dec * 0) * 0, v |-> v - dec * 0]
    BY <1>1, <1>6
  <2>4. (2 * v - dec * 0) * 0 = 0
    OBVIOUS
  <2> QED BY <2>2, <2>3, <2>4
<1>16. Onward(knots)
  <2>1. \A i \in 1 .. Len(knots) : knots[i].v \in Nat
    BY <1>8, <1>11
  <2> QED BY <1>8, <1>12, <1>15, <2>1 DEF Onward
<1> QED BY <1>8, <1>11, <1>12, <1>14, <1>16 DEF knot

\* The braking takes the whole path, and its standstill falls on a step.
TakesThePath(v, dec, length, unit) == dec * length = v * v /\ (v \div dec) % unit = 0

\* The vehicle stands at the end of the path.
AtTheEnd(knot, length) == knot.s2 = length /\ knot.v = 0

\* A braking within the path ends at its end.
LEMMA BrakingReachesTheEnd ==
  ASSUME NEW v \in Nat \ {0}, NEW dec \in Nat \ {0}, v = dec * (v \div dec), NEW length \in Nat,
         NEW unit \in Nat \ {0}, NEW N \in 1 .. (v \div dec) \div unit + 1, NEW knots,
         Brakes(knots, v, dec, length, unit, N),
         TakesThePath(v, dec, length, unit)
  PROVE  AtTheEnd(BrakeKnot(v, dec, length, (N - 1) * unit), length)
<1>0. dec * length = v * v /\ (v \div dec) % unit = 0
  BY DEF TakesThePath
<1> DEFINE T == v \div dec
           q == T \div unit
           t == (N - 1) * unit
           knot == BrakeKnot(v, dec, length, t)
<1>1. T \in Nat
  BY StepsBefore
<1>2. v = dec * T
  OBVIOUS
<1>3. q \in Nat /\ q * unit = T
  <2>1. q \in Nat
    BY <1>1, StepsBefore
  <2>2. T % unit = 0
    BY <1>0
  <2> HIDE DEF T
  <2>3. T = (T \div unit) * unit
    BY <1>1, <2>2, ExactSteps
  <2> QED BY <2>1, <2>3
<1>4. T # 0
  <2> SUFFICES ASSUME T = 0 PROVE FALSE
    OBVIOUS
  <2>1. dec * 0 = 0
    OBVIOUS
  <2> HIDE DEF T
  <2>2. v = 0
    BY <1>2, <2>1
  <2> QED BY <2>2
<1>5. length = dec * (T * T)
  <2>1. v * v = dec * (dec * (T * T))
    <3> HIDE DEF T
    <3> QED BY <1>1, <1>2
  <2> DEFINE w == dec * (T * T)
  <2>2. w \in Int /\ dec * w = dec * length
    BY <1>0, <1>1, <2>1
  <2> HIDE DEF w, T
  <2>3. dec * w <= dec * length /\ dec * length <= dec * w
    BY <2>2
  <2>4. w <= length /\ length <= w
    <3>1. w <= length
      BY <2>2, <2>3, Cancels
    <3>2. length <= w
      BY <2>2, <2>3, Cancels
    <3> QED BY <3>1, <3>2
  <2>5. w = length
    BY <2>2, <2>4
  <2> QED BY <2>5 DEF w
<1>6. knot = IF t = T THEN [t |-> t, s2 |-> length, v |-> 0]
             ELSE [t |-> t, s2 |-> (2 * v - dec * t) * t, v |-> v - dec * t]
  BY DEF BrakeKnot
<1>7. N = q + 1 \/ ~(knot.s2 <= length)
  BY DEF Brakes
<1>8. N \in 1 .. q + 1
  OBVIOUS
<1> HIDE DEF T, q, knot
<1>9. t \in Nat /\ t <= T
  <2>1. N - 1 \in Nat /\ N - 1 <= q
    BY <1>3, <1>8
  <2>2. (N - 1) * unit <= q * unit
    BY <1>3, <2>1, StepsGrow
  <2>3. (N - 1) * unit \in Nat
    BY <2>1
  <2> QED BY <1>3, <2>2, <2>3
<1>10. N = q + 1 => t = T
  <2>1. N = q + 1 => N - 1 = q
    BY <1>3
  <2> QED BY <1>3, <2>1
<1> HIDE DEF t
<1>11. t = T
  <2> SUFFICES ASSUME t # T PROVE FALSE
    OBVIOUS
  <2> DEFINE s == (2 * v - dec * t) * t
  <2>1. t \in 0 .. T
    BY <1>1, <1>9
  <2>2. s <= dec * (T * T)
    BY <1>1, <1>2, <1>4, <2>1, BrakingGoesOn
  <2>3. knot.s2 = s
    BY <1>6
  <2> HIDE DEF s
  <2>4. knot.s2 <= length
    BY <1>5, <2>2, <2>3
  <2> QED BY <1>7, <1>10, <2>4
<1>12. knot.s2 = length /\ knot.v = 0
  BY <1>6, <1>11
<1> QED BY <1>12 DEF knot, t, AtTheEnd

\* A braking keeps to its path, never gains speed, and ends where it should.
LEMMA BrakingKeepsToPath ==
  ASSUME NEW v \in Nat \ {0}, NEW dec \in Nat \ {0}, v = dec * (v \div dec), NEW unit \in Nat \ {0},
         NEW path \in Seq(PathPoints), path # <<>>, path[1].s = 0, PathLength(path) \in Nat,
         NEW forward \in BOOLEAN
  PROVE  BrakesOnPath(v, dec, path, forward, unit)
<1> DEFINE length == PathLength(path)
           knots == BackUpKnots(v, dec, length, unit)
           trajectory == CombinePathAndSpeed(forward, path, knots, unit)
<1> SUFFICES ASSUME trajectory # <<>>
             PROVE  /\ KeepsToPath(path, trajectory, forward, unit)
                    /\ \A i \in DOMAIN trajectory : trajectory[i].v \in -v .. v
                    /\ \A i \in 2 .. Len(trajectory) :
                         trajectory[i].v * trajectory[i].v <= trajectory[i-1].v * trajectory[i-1].v
                    /\ dec * length = v * v /\ (v \div dec) % unit = 0 => StopsAt(length, trajectory)
  BY DEF BrakesOnPath
<1>1. PICK N \in 1 .. (v \div dec) \div unit + 1 : Brakes(knots, v, dec, length, unit, N)
  BY BrakesSomewhere
<1>2. N \in Nat /\ N >= 1
  <2>1. v \div dec \in Nat
    BY StepsBefore
  <2>2. (v \div dec) \div unit \in Nat
    BY <2>1, StepsBefore
  <2> QED BY <2>2
<1>3. Len(knots) = N
  <2> HIDE DEF knots
  <2>1. knots = [i \in 1 .. N |-> BrakeKnot(v, dec, length, (i - 1) * unit)]
    BY <1>1 DEF Brakes
  <2> QED BY <1>2, <2>1
<1>4. N >= 2
  <2> SUFFICES ASSUME N < 2 PROVE FALSE
    BY <1>2
  <2>1. CombinePathAndSpeed(forward, path, knots, unit) = <<>>
    <3> HIDE DEF knots
    <3>1. Len(knots) < 2
      BY <1>3
    <3> QED BY <3>1 DEF CombinePathAndSpeed
  <2> QED BY <2>1
<1> HIDE DEF knots, length
<1>5. length \in Nat
  BY DEF length
<1>6. Stepped(knots, unit, N) /\ Onward(knots)
  BY <1>1, <1>4, <1>5, BrakeKnotsAre
<1>7. /\ \A i \in 1 .. N : knots[i] = BrakeKnot(v, dec, length, (i - 1) * unit) /\ knots[i].v \in 0 .. v
      /\ \A i \in 2 .. N : knots[i].v <= knots[i-1].v
  BY <1>1, <1>4, <1>5, BrakeKnotsAre
<1> DEFINE k(i) == StepKnot(knots, unit, N, i)
<1>8. PICK m \in 0 .. N + 1 : Combined(trajectory, forward, path, knots, unit, N, m)
  BY <1>6, KnotsAndPath
<1>9. m \in 1 .. N + 1
  <2> SUFFICES ASSUME m = 0 PROVE FALSE
    BY <1>2, <1>8
  <2>1. trajectory = [i \in 1 .. m |-> StepPoint(forward, path, k(i))]
    BY <1>8 DEF Combined
  <2>2. 1 .. m = {}
    BY <1>8
  <2> HIDE DEF trajectory, k
  <2>3. trajectory = [i \in {} |-> StepPoint(forward, path, k(i))]
    BY <2>1, <2>2
  <2>4. trajectory = <<>>
    BY <2>3
  <2> QED BY <2>4 DEF trajectory
<1> HIDE DEF trajectory
<1>10. KeepsToPath(path, trajectory, forward, unit)
  BY <1>6, <1>8, <1>9, KnotsKeepToPath
<1>11. Len(trajectory) = m /\ DOMAIN trajectory = 1 .. m
  BY <1>6, <1>8, <1>9, PointsOfSteps
<1>12. \A i \in 1 .. m : /\ trajectory[i].v = IF forward THEN k(i).v ELSE -k(i).v
                         /\ trajectory[i].point.s = k(i).s2
  BY <1>6, <1>8, <1>9, PointsOfSteps
<1>13. k(N + 1).s2 = knots[N].s2 /\ k(N + 1).v = knots[N].v
  <2>1. ~(N + 1 <= N)
    BY <1>2
  <2>2. k(N + 1) = [knots[N] EXCEPT !.t = N * unit]
    BY <1>3, <2>1 DEF StepKnot
  <2>3. knots[N] \in Knots
    <3>1. knots \in Seq(Knots) /\ N \in 1 .. Len(knots)
      BY <1>2, <1>3, <1>6 DEF Stepped
    <3> QED BY <3>1
  <2>4. knots[N] = [t |-> knots[N].t, s2 |-> knots[N].s2, v |-> knots[N].v]
    BY <2>3 DEF Knots
  <2> QED BY <2>2, <2>4
<1>14. \A i \in 1 .. N : k(i) = knots[i]
  <2>1. \A i \in 1 .. N : i <= N
    BY <1>2
  <2> QED BY <2>1 DEF StepKnot
<1> HIDE DEF k
<1>15. \A i \in 1 .. N + 1 : k(i).v \in 0 .. v
  <2> SUFFICES ASSUME NEW i \in 1 .. N + 1 PROVE k(i).v \in 0 .. v
    OBVIOUS
  <2>1. i \in 1 .. N \/ i = N + 1
    BY <1>2
  <2>2. N \in 1 .. N
    BY <1>2
  <2> QED BY <1>7, <1>13, <1>14, <2>1, <2>2
<1>16. \A i \in 2 .. N + 1 : k(i).v <= k(i - 1).v
  <2> SUFFICES ASSUME NEW i \in 2 .. N + 1 PROVE k(i).v <= k(i - 1).v
    OBVIOUS
  <2>1. CASE i \in 2 .. N
    <3>1. i \in 1 .. N /\ i - 1 \in 1 .. N
      BY <1>2, <2>1
    <3>2. k(i) = knots[i] /\ k(i - 1) = knots[i-1]
      BY <1>14, <3>1
    <3> QED BY <1>7, <2>1, <3>2
  <2>2. CASE i = N + 1
    <3>1. i - 1 = N /\ N \in 1 .. N
      BY <1>2, <2>2
    <3> DEFINE x == knots[N].v
    <3>2. k(i).v = x /\ k(i - 1).v = x
      BY <1>13, <1>14, <2>2, <3>1
    <3>3. x \in 0 .. v
      BY <1>7, <3>1
    <3> HIDE DEF x
    <3>4. x <= x
      BY <3>3
    <3> QED BY <3>2, <3>4
  <2>3. i \in 2 .. N \/ i = N + 1
    BY <1>2
  <2> QED BY <2>1, <2>2, <2>3
<1>17. \A x \in 0 .. v : x \in -v .. v /\ -x \in -v .. v
  OBVIOUS
<1>18. \A x, y \in 0 .. v : x <= y => x * x <= y * y /\ (-x) * (-x) <= (-y) * (-y)
  <2> SUFFICES ASSUME NEW x \in 0 .. v, NEW y \in 0 .. v, x <= y
               PROVE  x * x <= y * y /\ (-x) * (-x) <= (-y) * (-y)
    OBVIOUS
  <2>1. x \in Nat /\ y \in Nat
    OBVIOUS
  <2>2. x * x <= y * y
    BY <2>1
  <2>3. (-x) * (-x) = x * x /\ (-y) * (-y) = y * y
    BY <2>1
  <2> QED BY <2>2, <2>3
<1>19. ASSUME NEW i \in DOMAIN trajectory PROVE trajectory[i].v \in -v .. v
  <2> DEFINE x == k(i).v
  <2>1. i \in 1 .. m /\ i \in 1 .. N + 1
    BY <1>2, <1>9, <1>11
  <2>2. x \in 0 .. v /\ trajectory[i].v = IF forward THEN x ELSE -x
    BY <1>12, <1>15, <2>1
  <2> HIDE DEF x
  <2> QED BY <1>17, <2>2
<1>20. ASSUME NEW i \in 2 .. Len(trajectory)
       PROVE  trajectory[i].v * trajectory[i].v <= trajectory[i-1].v * trajectory[i-1].v
  <2> DEFINE x == k(i).v
             y == k(i - 1).v
  <2>1. i \in 1 .. m /\ i - 1 \in 1 .. m /\ i \in 1 .. N + 1 /\ i - 1 \in 1 .. N + 1 /\ i \in 2 .. N + 1
    BY <1>2, <1>9, <1>11
  <2>2. trajectory[i].v = IF forward THEN x ELSE -x
    BY <1>12, <2>1
  <2>3. trajectory[i-1].v = IF forward THEN y ELSE -y
    BY <1>12, <2>1
  <2>4. x \in 0 .. v /\ y \in 0 .. v /\ x <= y
    BY <1>15, <1>16, <2>1
  <2> HIDE DEF x, y
  <2>5. x * x <= y * y /\ (-x) * (-x) <= (-y) * (-y)
    BY <1>18, <2>4
  <2> QED BY <2>2, <2>3, <2>5
<1>21. ASSUME dec * length = v * v, (v \div dec) % unit = 0
       PROVE  StopsAt(length, trajectory)
  <2>1. N \in 1 .. N
    BY <1>2
  <2>2. knots[N].s2 = length /\ knots[N].v = 0
    <3>1. knots[N] = BrakeKnot(v, dec, length, (N - 1) * unit)
      BY <1>7, <2>1
    <3>2. TakesThePath(v, dec, length, unit)
      BY <1>21 DEF TakesThePath
    <3>3. AtTheEnd(BrakeKnot(v, dec, length, (N - 1) * unit), length)
      BY <1>1, <1>5, <3>2, BrakingReachesTheEnd
    <3>4. AtTheEnd(knots[N], length)
      BY <3>1, <3>3
    <3> QED BY <3>4 DEF AtTheEnd
  <2>3. m = N + 1
    <3>1. m = N + 1 \/ ~(k(m + 1).s2 <= length)
      BY <1>8 DEF Combined, k, length
    <3>2. \A i \in 1 .. N + 1 : k(i).s2 <= length
      <4> SUFFICES ASSUME NEW i \in 1 .. N + 1 PROVE k(i).s2 <= length
        OBVIOUS
      <4>1. k(i).s2 <= knots[Len(knots)].s2
        BY <1>6, StepKnotsAre DEF k
      <4> QED BY <1>3, <2>2, <4>1
    <3>3. m = N + 1 \/ m + 1 \in 1 .. N + 1
      BY <1>2, <1>8
    <3> QED BY <3>1, <3>2, <3>3
  <2>4. m \in 1 .. m
    BY <1>2, <2>3
  <2> DEFINE z == k(N + 1).v
  <2>5. trajectory[m].point.s = length
    BY <1>12, <1>13, <2>2, <2>3, <2>4
  <2>6. trajectory[m].v = IF forward THEN z ELSE -z
    BY <1>12, <2>3, <2>4
  <2>7. z = 0
    BY <1>13, <2>2
  <2> HIDE DEF z
  <2>8. -z = 0
    <3> DEFINE y == -z
    <3>1. z \in Int
      BY <2>7
    <3>2. y \in Int /\ y + z = 0
      BY <3>1
    <3> HIDE DEF y
    <3>3. y = 0
      BY <2>7, <3>1, <3>2
    <3> QED BY <3>3 DEF y
  <2> QED BY <1>11, <2>5, <2>6, <2>7, <2>8 DEF StopsAt
<1> QED BY <1>10, <1>19, <1>20, <1>21

(* Whatever the speed and the path are, and however hard the vehicle       *)
(* brakes, for a whole number of seconds: the trajectory of a braking      *)
(* keeps to the path and never gains speed, and it comes to rest at the    *)
(* end of the path if the path is long enough for it and the standstill    *)
(* falls on a step (GenerateBackUpTrajectory).                             *)
THEOREM BrakingEndsOnThePath ==
  ASSUME NEW points \in Seq(PathPoints), points # <<>>,
         NEW path, path = NormalizeDiscretizedPath(points),
         NEW v \in Nat \ {0}, NEW dec \in Nat \ {0}, v = dec * (v \div dec), NEW unit \in Nat \ {0},
         NEW forward \in BOOLEAN
  PROVE  BrakesOnPath(v, dec, path, forward, unit)
<1>1. Len(points) > 0
  OBVIOUS
<1>2. /\ path \in Seq(PathPoints) /\ Len(path) = Len(points) /\ path[1].s = 0
      /\ \A i \in 2 .. Len(points) : path[i-1].s <= path[i].s
  BY <1>1, NormalizedPath
<1>3. path # <<>>
  BY <1>1, <1>2
<1>4. PathLength(path) \in Nat
  <2> DEFINE n == Len(path)
             f == [i \in 1 .. n |-> path[i].s]
             e == path[n].s
  <2>1. n \in Nat /\ 1 \in 1 .. n /\ n \in 1 .. n
    BY <1>1, <1>2
  <2>2. \A i \in 1 .. n : path[i].s \in Int
    BY <1>2, PathPointsAre DEF PathPoints
  <2>3. f \in [1 .. n -> Int] /\ \A i \in 1 .. n : f[i] = path[i].s
    BY <2>2
  <2>4. \A h \in 2 .. n : path[h-1].s <= path[h].s
    BY <1>2
  <2>5. PathLength(path) = e - path[1].s
    BY <1>3 DEF PathLength
  <2> HIDE DEF n, f
  <2>6. \A h \in 2 .. n : f[h-1] <= f[h]
    <3> SUFFICES ASSUME NEW h \in 2 .. n PROVE f[h-1] <= f[h]
      OBVIOUS
    <3>1. h \in 1 .. n /\ h - 1 \in 1 .. n
      BY <2>1
    <3> QED BY <2>3, <2>4, <3>1
  <2>7. 1 <= n
    BY <2>1
  <2>8. f[1] <= f[n]
    BY <2>1, <2>3, <2>6, <2>7, Climbs
  <2>9. e \in Int /\ f[1] = 0 /\ f[n] = e
    BY <1>2, <2>1, <2>2, <2>3
  <2> HIDE DEF e
  <2>10. e \in Nat /\ PathLength(path) = e - 0
    BY <1>2, <2>5, <2>8, <2>9
  <2> QED BY <2>10
<1> QED BY <1>2, <1>3, <1>4, BrakingKeepsToPath

-----------------------------------------------------------------------------
(* The speed optimizer *)

\* What FromInit, FromWaitReplan and FromWaitObstacle answer.
Decision == [stage : Stages, start : 0 .. AgeCap, init : 0 .. AgeCap, obstacle : 0 .. AgeCap]

\* A path is waited for only if waiting is enabled, and the clock that ends a wait
\* is no older than the last frame that saw the way blocked, but where the clock was
\* not started.
ClocksAgree ==
  /\ stage = "WAITREPLAN" => wait_for_replan /\ replan_to_init <= blocked
  /\ stage = "WAITOBSTACLE" /\ ~fresh => obstacle_start <= blocked

-----------------------------------------------------------------------------
(* An age stays an age and does not overtake another.                      *)
LEMMA AgeStaysAge ==
  ASSUME NEW age \in 0 .. AgeCap, NEW dt \in Elapsed
  PROVE Older(age, dt) \in 0 .. AgeCap
BY SpeedAssumption DEF SpeedAssumption, Older, AtMost

LEMMA AgesKeepOrder ==
  ASSUME NEW age \in 0 .. AgeCap, NEW other \in 0 .. AgeCap, NEW dt \in Elapsed, age <= other
  PROVE Older(age, dt) <= Older(other, dt)
BY SpeedAssumption DEF SpeedAssumption, Older, AtMost

(* The candidate path of a frame has one of the lengths.                   *)
LEMMA FramesAreTyped ==
  ASSUME NEW f \in Frames
  PROVE /\ f.gear \in {"D", "R"} /\ f.still \in BOOLEAN /\ f.extension \in BOOLEAN
        /\ f.collision \in {"FUSION", "STATIC", "MOVING", "NO"}
        /\ f.distance \in Lengths
<1>1. PICK len \in Lengths :
        \E gear \in {"D", "R"}, still \in BOOLEAN, extension \in BOOLEAN,
           static \in Points(len), moving \in Points(len) :
          f = Frame(gear, still, extension, len, static, moving)
  BY DEF Frames
<1>2. PICK gear \in {"D", "R"}, still \in BOOLEAN, extension \in BOOLEAN,
           static \in Points(len), moving \in Points(len) :
             f = Frame(gear, still, extension, len, static, moving)
  BY <1>1
<1>3. Lengths \subseteq Nat /\ len # None
  BY SpeedAssumption DEF SpeedAssumption, None
<1>4. FirstCollision(len, static, moving) \in Lengths
  <2> DEFINE S == {len, static, moving} \ {None}
  <2>1. S \subseteq Lengths /\ len \in S
    BY <1>3 DEF Points
  <2>2. \E n \in S : \A m \in S : n <= m
    <3>1. CASE static = None /\ moving = None
      BY <3>1, <1>3, <2>1
    <3>2. CASE static # None /\ moving = None
      BY <3>2, <1>3, <2>1 DEF Points
    <3>3. CASE static = None /\ moving # None
      BY <3>3, <1>3, <2>1 DEF Points
    <3>4. CASE static # None /\ moving # None
      <4>1. static \in Lengths /\ moving \in Lengths
        BY <3>4 DEF Points
      <4>2. CASE static <= moving
        <5>1. static <= len
          BY <3>4 DEF Points
        <5> QED
          BY <4>1, <4>2, <5>1, <1>3, <3>4
      <4>3. CASE moving <= static
        <5>1. moving <= len
          BY <3>4 DEF Points
        <5> QED
          BY <4>1, <4>3, <5>1, <1>3, <3>4
      <4> QED
        BY <4>1, <4>2, <4>3, <1>3
    <3> QED
      BY <3>1, <3>2, <3>3, <3>4
  <2> QED
    BY <2>1, <2>2 DEF FirstCollision
<1>5. CollisionType(static, moving) \in {"FUSION", "STATIC", "MOVING", "NO"}
  BY DEF CollisionType
<1> QED
  BY <1>2, <1>4, <1>5 DEF Frame

(* Whatever the stage, the decision is one, and the stage before a frame   *)
(* that drives is the one InitInteractiveStage leaves.                     *)
LEMMA DecisionsAreTyped ==
  ASSUME TypeOK, NEW f \in Frames, NEW rpa \in BOOLEAN, NEW dt \in Elapsed
  PROVE /\ FrameStage(f.gear) \in {"INIT", "WAITREPLAN", "WAITOBSTACLE"}
        /\ stage \in {"WAITREPLAN", "WAITOBSTACLE"} => FrameStage(f.gear) = stage
        /\ UpdateInteractiveStage(FrameStage(f.gear), f, rpa, dt) \in Decision
<1>1. /\ Older(replan_start, dt) \in 0 .. AgeCap /\ Older(replan_to_init, dt) \in 0 .. AgeCap
      /\ Older(obstacle_start, dt) \in 0 .. AgeCap /\ 0 \in 0 .. AgeCap
  BY AgeStaysAge, SpeedAssumption DEF TypeOK, SpeedAssumption
<1>2. /\ FrameStage(f.gear) \in {"INIT", "WAITREPLAN", "WAITOBSTACLE"}
      /\ stage \in {"WAITREPLAN", "WAITOBSTACLE"} => FrameStage(f.gear) = stage
  BY FramesAreTyped DEF FrameStage, TypeOK, Stages
<1>3. FromInit(f, dt) \in Decision
  BY <1>1 DEF FromInit, Decision, Stages
<1>4. FromWaitReplan(f, rpa, dt) \in Decision
  BY <1>1 DEF FromWaitReplan, Decision, Stages
<1>5. FromWaitObstacle(f, dt) \in Decision
  BY <1>1 DEF FromWaitObstacle, Decision, Stages
<1> QED
  BY <1>2, <1>3, <1>4, <1>5 DEF UpdateInteractiveStage

-----------------------------------------------------------------------------
(* Types *)

(* A frame the path handle sees keeps the types of what it changes.        *)
LEMMA ProcessKeepsTypes ==
  ASSUME TypeOK, NEW f \in Frames, NEW rpa \in BOOLEAN, NEW dt \in Elapsed,
         NEW new, new = UpdateInteractiveStage(FrameStage(f.gear), f, rpa, dt),
         Process(f, dt, new)
  PROVE /\ wait_for_replan' \in BOOLEAN /\ stage' \in Stages
        /\ replan_start' \in 0 .. AgeCap /\ replan_to_init' \in 0 .. AgeCap
        /\ obstacle_start' \in 0 .. AgeCap /\ blocked' \in 0 .. AgeCap
        /\ wait_count' \in 0 .. WaitCount + 1 /\ safe_count' \in 0 .. SafeCount + 1
        /\ middle' \in BOOLEAN /\ last_forward' \in {"none", "forward", "backward"}
        /\ fresh' \in BOOLEAN
<1>1. new \in Decision
  BY DecisionsAreTyped
<1>2. Older(blocked, dt) \in 0 .. AgeCap /\ 0 \in 0 .. AgeCap
  BY AgeStaysAge, SpeedAssumption DEF TypeOK, SpeedAssumption
<1>3. /\ wait_for_replan' \in BOOLEAN /\ stage' \in Stages
      /\ replan_start' \in 0 .. AgeCap /\ replan_to_init' \in 0 .. AgeCap
      /\ obstacle_start' \in 0 .. AgeCap /\ blocked' \in 0 .. AgeCap
  BY <1>1, <1>2 DEF Process, Decision, TypeOK
<1>4. /\ wait_count' \in 0 .. WaitCount + 1 /\ safe_count' \in 0 .. SafeCount + 1
  BY SpeedAssumption DEF Process, UpdateMiddleBuffer, AtMost, TypeOK, SpeedAssumption
<1>5. middle' \in BOOLEAN
  BY DEF Process, UpdateMiddleBuffer
<1>6. last_forward' \in {"none", "forward", "backward"}
  BY DEF Process, UpdateMiddleBuffer, Direction
<1>7. fresh' \in BOOLEAN
  BY DEF Process
<1> QED
  BY <1>3, <1>4, <1>5, <1>6, <1>7

Outputs == [kind : {"none", "stop", "sample", "backup"}, reach : Lengths \cup {0},
            replan : BOOLEAN, seen : BOOLEAN, clear : BOOLEAN]

(* An output that says what was seen of the path is one.                   *)
LEMMA OutputsAreTyped ==
  ASSUME NEW f \in Frames, NEW new \in Decision, NEW kind \in {"stop", "sample", "backup"},
         NEW reach \in Lengths
  PROVE /\ [Seen(f, new) EXCEPT !.kind = kind] \in Outputs
        /\ [Seen(f, new) EXCEPT !.kind = kind, !.reach = reach] \in Outputs
<1>1. RestoreRunning(f) \in BOOLEAN /\ Collides(f) \in BOOLEAN
  BY DEF RestoreRunning, Collides
<1> QED
  BY <1>1 DEF Seen, NoOutput, Outputs

LEMMA InitIsTyped == Init => TypeOK
<1> SUFFICES ASSUME Init PROVE TypeOK
  OBVIOUS
<1>1. /\ 0 \in 0 .. AgeCap /\ AgeCap \in 0 .. AgeCap
      /\ 0 \in 0 .. WaitCount + 1 /\ 0 \in 0 .. SafeCount + 1
  BY SpeedAssumption DEF SpeedAssumption
<1>2. wait_for_replan \in BOOLEAN
  BY SpeedAssumption DEF SpeedAssumption, Init
<1>3. out \in Outputs
  BY DEF Init, NoOutput, Outputs
<1> QED
  BY <1>1, <1>2, <1>3 DEF Init, TypeOK, Stages, Outputs

(* Every step keeps the types.                                             *)
LEMMA StepIsTyped == TypeOK /\ [Next]_vars => TypeOK'
<1> SUFFICES ASSUME TypeOK, [Next]_vars PROVE TypeOK'
  OBVIOUS
<1>1. ASSUME NEW dt \in Elapsed, NEW gear \in {"D", "R", "P"}, PreCheckStop(gear, dt)
      PROVE TypeOK'
  <2>1. stage' \in Stages
    BY <1>1 DEF PreCheckStop, FrameStage, TypeOK, Stages
  <2>2. /\ replan_start' \in 0 .. AgeCap /\ replan_to_init' \in 0 .. AgeCap
        /\ obstacle_start' \in 0 .. AgeCap /\ blocked' \in 0 .. AgeCap
    BY <1>1, AgeStaysAge DEF PreCheckStop, TypeOK
  <2>3. out' \in Outputs
    BY <1>1 DEF PreCheckStop, Stop, NoOutput, Outputs
  <2> QED
    BY <1>1, <2>1, <2>2, <2>3 DEF PreCheckStop, buffer, TypeOK, Outputs
<1>2. ASSUME NEW dt \in Elapsed, NEW f \in Frames, NEW rpa \in BOOLEAN, WaitingStop(f, rpa, dt)
      PROVE TypeOK'
  <2> DEFINE new == UpdateInteractiveStage(FrameStage(f.gear), f, rpa, dt)
  <2>1. new \in Decision
    BY DecisionsAreTyped
  <2>2. out' = [Seen(f, new) EXCEPT !.kind = "stop"]
    BY <1>2 DEF WaitingStop
  <2>3. Process(f, dt, new) /\ last_curve' = None
    BY <1>2 DEF WaitingStop
  <2> HIDE DEF new
  <2>4. out' \in Outputs
    BY <2>1, <2>2, OutputsAreTyped, SpeedAssumption DEF SpeedAssumption
  <2> QED
    BY <2>3, <2>4, ProcessKeepsTypes DEF TypeOK, Outputs, new
<1>3. ASSUME NEW dt \in Elapsed, NEW f \in Frames,
             SampledDrive(f, dt) \/ BackUpDrive(f, dt) \/ NoDrive(f, dt)
      PROVE TypeOK'
  <2> DEFINE new == UpdateInteractiveStage(FrameStage(f.gear), f, FALSE, dt)
  <2>1. new \in Decision
    BY DecisionsAreTyped
  <2>2. CandidateLength(f) \in Lengths
    BY FramesAreTyped DEF CandidateLength
  <2>3. \/ \E kind \in {"sample", "backup"}, reach \in Lengths :
              out' = [Seen(f, new) EXCEPT !.kind = kind, !.reach = reach]
        \/ out' = [Seen(f, new) EXCEPT !.kind = "stop"]
    BY <1>3, <2>2 DEF SampledDrive, BackUpDrive, NoDrive
  <2>4. Process(f, dt, new) /\ last_curve' \in Lengths \cup {None}
    BY <1>3, <2>2 DEF SampledDrive, BackUpDrive, NoDrive
  <2> HIDE DEF new
  <2>5. out' \in Outputs
    <3>1. ASSUME NEW kind \in {"sample", "backup"}, NEW reach \in Lengths
          PROVE [Seen(f, new) EXCEPT !.kind = kind, !.reach = reach] \in Outputs
      BY <2>1, OutputsAreTyped
    <3>2. [Seen(f, new) EXCEPT !.kind = "stop"] \in Outputs
      BY <2>1, <2>2, OutputsAreTyped
    <3> QED
      BY <2>3, <3>1, <3>2
  <2> QED
    BY <2>4, <2>5, ProcessKeepsTypes DEF TypeOK, Outputs, new
<1>4. CASE Reset
  BY <1>4 DEF Reset, clocks, buffer, TypeOK, Stages, NoOutput, None
<1>5. CASE UNCHANGED vars
  BY <1>5 DEF vars, clocks, buffer, history, TypeOK
<1> QED
  BY <1>1, <1>2, <1>3, <1>4, <1>5 DEF Next, Execute

(* Every variable of the optimizer stays in its type.                      *)
THEOREM OptimizerIsWellTyped == Spec => []TypeOK
BY InitIsTyped, StepIsTyped, PTL DEF Spec

-----------------------------------------------------------------------------
(* What the optimizer remembers, and what it asks for *)

(* A curve that is remembered was delivered.                               *)
THEOREM DeliveredIsRemembered == Spec => []RemembersDelivered
<1>1. Init => RemembersDelivered
  BY DEF Init, RemembersDelivered
<1>2. RemembersDelivered /\ [Next]_vars => RemembersDelivered'
  <2> SUFFICES ASSUME RemembersDelivered, [Next]_vars PROVE RemembersDelivered'
    OBVIOUS
  <2>1. ASSUME NEW dt \in Elapsed, NEW gear \in {"D", "R", "P"}, PreCheckStop(gear, dt)
        PROVE RemembersDelivered'
    BY <2>1 DEF PreCheckStop, RemembersDelivered
  <2>2. ASSUME NEW dt \in Elapsed, NEW f \in Frames, NEW rpa \in BOOLEAN, WaitingStop(f, rpa, dt)
        PROVE RemembersDelivered'
    BY <2>2 DEF WaitingStop, RemembersDelivered
  <2>3. ASSUME NEW dt \in Elapsed, NEW f \in Frames, SampledDrive(f, dt)
        PROVE RemembersDelivered'
    <3>1. /\ last_curve' = CandidateLength(f)
          /\ out'.kind = "sample" /\ out'.reach = CandidateLength(f)
      BY <2>3 DEF SampledDrive, Seen, NoOutput
    <3> QED
      BY <3>1 DEF RemembersDelivered
  <2>4. ASSUME NEW dt \in Elapsed, NEW f \in Frames, BackUpDrive(f, dt) \/ NoDrive(f, dt)
        PROVE RemembersDelivered'
    BY <2>4 DEF BackUpDrive, NoDrive, RemembersDelivered
  <2>5. CASE Reset
    BY <2>5 DEF Reset, RemembersDelivered
  <2>6. CASE UNCHANGED vars
    BY <2>6 DEF vars, RemembersDelivered
  <2> QED
    BY <2>1, <2>2, <2>3, <2>4, <2>5, <2>6 DEF Next, Execute
<1> QED
  BY <1>1, <1>2, PTL DEF Spec

(* What a decision to wait for a path rests on: either the wait begins, or *)
(* it goes on within the patience.                                         *)
LEMMA WaitForReplan ==
  ASSUME TypeOK, NEW f \in Frames, NEW rpa \in BOOLEAN, NEW dt \in Elapsed,
         UpdateInteractiveStage(FrameStage(f.gear), f, rpa, dt).stage = "WAITREPLAN"
  PROVE /\ wait_for_replan \/ stage = "WAITREPLAN"
        /\ UpdateInteractiveStage(FrameStage(f.gear), f, rpa, dt).start <= ReplanPatience(rpa)
<1>1. /\ FrameStage(f.gear) \in {"INIT", "WAITREPLAN", "WAITOBSTACLE"}
      /\ FrameStage(f.gear) = "WAITREPLAN" => stage = "WAITREPLAN"
  BY DecisionsAreTyped DEF FrameStage
<1>2. Older(replan_start, dt) \in 0 .. AgeCap /\ ReplanPatience(rpa) \in Nat
  BY AgeStaysAge, SpeedAssumption DEF TypeOK, SpeedAssumption, ReplanPatience
<1>3. CASE FrameStage(f.gear) = "INIT"
  <2>1. UpdateInteractiveStage(FrameStage(f.gear), f, rpa, dt) = FromInit(f, dt)
    BY <1>3 DEF UpdateInteractiveStage
  <2> QED
    BY <2>1, <1>2 DEF FromInit
<1>4. CASE FrameStage(f.gear) = "WAITREPLAN"
  <2>1. UpdateInteractiveStage(FrameStage(f.gear), f, rpa, dt) = FromWaitReplan(f, rpa, dt)
    BY <1>4 DEF UpdateInteractiveStage
  <2> QED
    BY <2>1, <1>1, <1>2, <1>4 DEF FromWaitReplan
<1>5. CASE FrameStage(f.gear) = "WAITOBSTACLE"
  <2>1. UpdateInteractiveStage(FrameStage(f.gear), f, rpa, dt) = FromWaitObstacle(f, dt)
    BY <1>5 DEF UpdateInteractiveStage
  <2> QED
    BY <2>1 DEF FromWaitObstacle
<1> QED
  BY <1>1, <1>3, <1>4, <1>5

-----------------------------------------------------------------------------
(* The clocks *)

(* A frame the path handle sees keeps the clocks in agreement, and one     *)
(* that ends a wait has found the way clear.                               *)
LEMMA ProcessKeepsClocks ==
  ASSUME TypeOK, ClocksAgree, NEW f \in Frames, NEW rpa \in BOOLEAN, NEW dt \in Elapsed,
         NEW new, new = UpdateInteractiveStage(FrameStage(f.gear), f, rpa, dt),
         Process(f, dt, new)
  PROVE /\ ClocksAgree'
        /\ stage \in {"WAITREPLAN", "WAITOBSTACLE"} /\ stage' \in {"RUNNING", "INIT"}
             => RestoreRunning(f) /\ (blocked' > MinWait \/ fresh)
<1>1. /\ FrameStage(f.gear) \in {"INIT", "WAITREPLAN", "WAITOBSTACLE"}
      /\ stage \in {"WAITREPLAN", "WAITOBSTACLE"} => FrameStage(f.gear) = stage
      /\ FrameStage(f.gear) \in {"WAITREPLAN", "WAITOBSTACLE"} => FrameStage(f.gear) = stage
  BY DecisionsAreTyped DEF FrameStage
<1>2. /\ MinWait \in Nat /\ 0 \in 0 .. AgeCap
      /\ Older(replan_to_init, dt) \in 0 .. AgeCap /\ Older(obstacle_start, dt) \in 0 .. AgeCap
      /\ Older(blocked, dt) \in 0 .. AgeCap
  BY AgeStaysAge, SpeedAssumption DEF TypeOK, SpeedAssumption
<1>3. /\ stage' = new.stage /\ replan_to_init' = new.init /\ obstacle_start' = new.obstacle
      /\ blocked' = (IF RestoreRunning(f) THEN Older(blocked, dt) ELSE 0)
      /\ fresh' = /\ new.stage = "WAITOBSTACLE"
                  /\ FrameStage(f.gear) = "INIT" \/ (fresh /\ RestoreRunning(f))
      /\ wait_for_replan' = wait_for_replan
  BY DEF Process
<1>4. new.stage = "WAITREPLAN" => wait_for_replan
  BY WaitForReplan DEF ClocksAgree
<1>5. CASE FrameStage(f.gear) = "INIT"
  <2>1. new = FromInit(f, dt)
    BY <1>5 DEF UpdateInteractiveStage
  <2>2. new.stage = "WAITREPLAN" => new.init = 0
    BY <2>1 DEF FromInit
  <2>3. blocked' \in 0 .. AgeCap
    BY <1>2, <1>3
  <2> QED
    BY <1>1, <1>2, <1>3, <1>4, <1>5, <2>2, <2>3 DEF ClocksAgree
<1>6. CASE FrameStage(f.gear) = "WAITREPLAN"
  <2>1. new = FromWaitReplan(f, rpa, dt)
    BY <1>6 DEF UpdateInteractiveStage
  <2>2. stage = "WAITREPLAN" /\ replan_to_init <= blocked
    BY <1>1, <1>6 DEF ClocksAgree
  <2>3. Older(replan_to_init, dt) <= Older(blocked, dt)
    BY <2>2, AgesKeepOrder DEF TypeOK
  <2>4. new.init = (IF RestoreRunning(f) THEN Older(replan_to_init, dt) ELSE 0)
    BY <2>1 DEF FromWaitReplan
  <2>5. /\ new.stage \in {"INIT", "WAITREPLAN", "WAITOBSTACLE"}
        /\ new.stage = "INIT" => new.init > MinWait
        /\ new.stage = "WAITOBSTACLE" => new.obstacle = 0
    BY <2>1, <2>4 DEF FromWaitReplan
  <2>6. new.init <= blocked'
    BY <1>2, <1>3, <2>3, <2>4
  <2>7. ClocksAgree'
    BY <1>2, <1>3, <1>4, <2>5, <2>6 DEF ClocksAgree
  <2> QED
    BY <1>2, <1>3, <2>2, <2>4, <2>5, <2>6, <2>7
<1>7. CASE FrameStage(f.gear) = "WAITOBSTACLE"
  <2>1. new = FromWaitObstacle(f, dt)
    BY <1>7 DEF UpdateInteractiveStage
  <2>2. stage = "WAITOBSTACLE" /\ (~fresh => obstacle_start <= blocked)
    BY <1>1, <1>7 DEF ClocksAgree
  <2>3. ~fresh => Older(obstacle_start, dt) <= Older(blocked, dt)
    BY <2>2, AgesKeepOrder DEF TypeOK
  <2>4. new.obstacle = (IF RestoreRunning(f) THEN Older(obstacle_start, dt) ELSE 0)
    BY <2>1 DEF FromWaitObstacle
  <2>5. /\ new.stage \in {"RUNNING", "WAITOBSTACLE"}
        /\ new.stage = "RUNNING" => new.obstacle > MinWait
    BY <2>1, <2>4 DEF FromWaitObstacle
  <2>6. ~fresh \/ ~RestoreRunning(f) => new.obstacle <= blocked'
    BY <1>2, <1>3, <2>3, <2>4
  <2>7. ClocksAgree'
    BY <1>2, <1>3, <1>7, <2>5, <2>6 DEF ClocksAgree
  <2> QED
    BY <1>2, <1>3, <2>2, <2>4, <2>5, <2>6, <2>7
<1> QED
  BY <1>1, <1>5, <1>6, <1>7

(* Every step keeps the clocks in agreement.                               *)
LEMMA StepKeepsClocks == TypeOK /\ ClocksAgree /\ [Next]_vars => ClocksAgree'
<1> SUFFICES ASSUME TypeOK, ClocksAgree, [Next]_vars PROVE ClocksAgree'
  OBVIOUS
<1>1. ASSUME NEW dt \in Elapsed, NEW gear \in {"D", "R", "P"}, PreCheckStop(gear, dt)
      PROVE ClocksAgree'
  <2>1. /\ replan_to_init' = Older(replan_to_init, dt) /\ obstacle_start' = Older(obstacle_start, dt)
        /\ blocked' = Older(blocked, dt) /\ wait_for_replan' = wait_for_replan
        /\ stage' = FrameStage(gear) /\ (fresh' <=> (fresh /\ stage' = stage))
    BY <1>1 DEF PreCheckStop
  <2>2. stage' \in {"WAITREPLAN", "WAITOBSTACLE"} => stage' = stage
    BY <2>1 DEF FrameStage
  <2>3. stage = "WAITREPLAN" => Older(replan_to_init, dt) <= Older(blocked, dt)
    BY AgesKeepOrder DEF ClocksAgree, TypeOK
  <2>4. stage = "WAITOBSTACLE" /\ ~fresh => Older(obstacle_start, dt) <= Older(blocked, dt)
    BY AgesKeepOrder DEF ClocksAgree, TypeOK
  <2> QED
    BY <2>1, <2>2, <2>3, <2>4 DEF ClocksAgree
<1>2. ASSUME NEW dt \in Elapsed, NEW f \in Frames, NEW rpa \in BOOLEAN, WaitingStop(f, rpa, dt)
      PROVE ClocksAgree'
  BY <1>2, ProcessKeepsClocks DEF WaitingStop
<1>3. ASSUME NEW dt \in Elapsed, NEW f \in Frames,
             SampledDrive(f, dt) \/ BackUpDrive(f, dt) \/ NoDrive(f, dt)
      PROVE ClocksAgree'
  BY <1>3, ProcessKeepsClocks DEF SampledDrive, BackUpDrive, NoDrive
<1>4. CASE Reset
  BY <1>4 DEF Reset, ClocksAgree
<1>5. CASE UNCHANGED vars
  BY <1>5 DEF vars, clocks, history, ClocksAgree
<1> QED
  BY <1>1, <1>2, <1>3, <1>4, <1>5 DEF Next, Execute

(* The clocks agree.                                                       *)
THEOREM ClocksStayInAgreement == Spec => [](TypeOK /\ ClocksAgree)
<1>1. Init => TypeOK /\ ClocksAgree
  BY InitIsTyped DEF Init, ClocksAgree
<1>2. TypeOK /\ ClocksAgree /\ [Next]_vars => (TypeOK /\ ClocksAgree)'
  BY StepIsTyped, StepKeepsClocks
<1> QED
  BY <1>1, <1>2, PTL DEF Spec

(* A vehicle that waits is sent on only once the way was clear for the     *)
(* minimal time, or nothing but the first frame of the wait saw anything   *)
(* in the way.                                                             *)
THEOREM WaitsEndInTheClear == Spec => WaitsUntilClear
<1>1. ASSUME TypeOK, ClocksAgree, [Next]_vars,
             stage \in {"WAITREPLAN", "WAITOBSTACLE"}, stage' \in {"RUNNING", "INIT"}, out'.seen
      PROVE out'.clear /\ (blocked' > MinWait \/ fresh)
  <2>1. ASSUME NEW dt \in Elapsed, NEW f \in Frames, NEW rpa \in BOOLEAN, WaitingStop(f, rpa, dt)
        PROVE out'.clear /\ (blocked' > MinWait \/ fresh)
    <3>1. out'.clear = RestoreRunning(f)
      BY <2>1 DEF WaitingStop, Seen, NoOutput
    <3> QED
      BY <1>1, <2>1, <3>1, ProcessKeepsClocks DEF WaitingStop
  <2>2. ASSUME NEW dt \in Elapsed, NEW f \in Frames,
               SampledDrive(f, dt) \/ BackUpDrive(f, dt) \/ NoDrive(f, dt)
        PROVE out'.clear /\ (blocked' > MinWait \/ fresh)
    <3>1. out'.clear = RestoreRunning(f)
      BY <2>2 DEF SampledDrive, BackUpDrive, NoDrive, Seen, NoOutput
    <3> QED
      BY <1>1, <2>2, <3>1, ProcessKeepsClocks DEF SampledDrive, BackUpDrive, NoDrive
  <2>3. ASSUME NEW dt \in Elapsed, NEW gear \in {"D", "R", "P"}, PreCheckStop(gear, dt)
        PROVE FALSE
    BY <1>1, <2>3 DEF PreCheckStop, Stop, NoOutput
  <2>4. ~Reset /\ ~UNCHANGED vars
    BY <1>1 DEF Reset, NoOutput, vars
  <2> QED
    BY <1>1, <2>1, <2>2, <2>3, <2>4 DEF Next, Execute
<1>2. TypeOK /\ ClocksAgree /\ [Next]_vars =>
        [ /\ stage \in {"WAITREPLAN", "WAITOBSTACLE"}
          /\ stage' \in {"RUNNING", "INIT"}
          /\ out'.seen
          => out'.clear /\ (blocked' > MinWait \/ fresh) ]_vars
  BY <1>1
<1> QED
  BY <1>2, ClocksStayInAgreement, PTL DEF Spec, WaitsUntilClear

(* Speed planning asks for a new path only with a stop, only if that is    *)
(* configured, and within its patience.                                    *)
THEOREM ReplansAreBounded == Spec => []ReplanIsBounded
<1>1. Init => ReplanIsBounded
  BY DEF Init, NoOutput, ReplanIsBounded
<1>2. TypeOK /\ ClocksAgree /\ ReplanIsBounded /\ [Next]_vars => ReplanIsBounded'
  <2> SUFFICES ASSUME TypeOK, ClocksAgree, ReplanIsBounded, [Next]_vars PROVE ReplanIsBounded'
    OBVIOUS
  <2>1. ASSUME NEW dt \in Elapsed, NEW f \in Frames, NEW rpa \in BOOLEAN, WaitingStop(f, rpa, dt)
        PROVE ReplanIsBounded'
    <3> DEFINE new == UpdateInteractiveStage(FrameStage(f.gear), f, rpa, dt)
    <3>1. /\ out'.kind = "stop" /\ (out'.replan => new.stage = "WAITREPLAN")
          /\ replan_start' = new.start /\ wait_for_replan' = wait_for_replan
      BY <2>1 DEF WaitingStop, Process, Seen, NoOutput
    <3>2. new.stage = "WAITREPLAN" => wait_for_replan /\ new.start <= ReplanPatience(rpa)
      BY WaitForReplan DEF ClocksAgree
    <3> HIDE DEF new
    <3> QED
      BY <3>1, <3>2 DEF ReplanIsBounded, ReplanPatience
  <2>2. ASSUME NEW dt \in Elapsed, NEW f \in Frames,
               SampledDrive(f, dt) \/ BackUpDrive(f, dt) \/ NoDrive(f, dt)
        PROVE ReplanIsBounded'
    <3>1. ~out'.replan
      BY <2>2 DEF SampledDrive, BackUpDrive, NoDrive, Seen, NoOutput
    <3> QED
      BY <3>1 DEF ReplanIsBounded
  <2>3. ASSUME NEW dt \in Elapsed, NEW gear \in {"D", "R", "P"}, PreCheckStop(gear, dt)
        PROVE ReplanIsBounded'
    BY <2>3 DEF PreCheckStop, Stop, NoOutput, ReplanIsBounded
  <2>4. CASE Reset
    BY <2>4 DEF Reset, NoOutput, ReplanIsBounded
  <2>5. CASE UNCHANGED vars
    BY <2>5 DEF vars, clocks, ReplanIsBounded
  <2> QED
    BY <2>1, <2>2, <2>3, <2>4, <2>5 DEF Next, Execute
<1> QED
  BY <1>1, <1>2, ClocksStayInAgreement, PTL DEF Spec
=============================================================================
