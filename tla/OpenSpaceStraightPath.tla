------------------------ MODULE OpenSpaceStraightPath ------------------------
(***************************************************************************)
(* OpenSpaceStraightPathProvider: the paths of direct commands.  It        *)
(* remembers the line it leads the vehicle along, from the frame in which  *)
(* the direction changed until the next change or reset.  A frame has the  *)
(* mode of the command, the distance it asks for and the vehicle, whose    *)
(* heading is along an axis.                                               *)
(***************************************************************************)
EXTENDS Trajectories

CONSTANTS
  DirectFrames,  \* the frames that come
  StepSize,      \* interpolation_step_size
  StopPoints,    \* the points of a stop path
  DefaultLength, \* direct_move_length
  MaxLength,     \* kMaxDirectMoveLength
  MaxDriven      \* bound on the frames that drive between two resets

DirectModes == {"DIRECT_FORWARD", "DIRECT_BACKWARD"}

\* What is not positive or not finite is asked for as 0.
ASSUME StraightAssumption ==
  /\ DirectFrames \subseteq [mode : DirectModes, distance : Int,
                             vehicle : [x : Int, y : Int, heading : Int, gear : STRING, v : Int]]
  /\ StepSize \in Nat \ {0}
  /\ StopPoints \in Nat \ {0}
  /\ DefaultLength \in Nat /\ MaxLength \in Nat /\ DefaultLength <= MaxLength
  /\ MaxDriven \in Nat

VARIABLES
  line,   \* the members of the provider
  answer, \* the last frame and what it was answered
  driven  \* history: the frames since the last reset that were led along a line

straight_vars == <<line, answer, driven>>

NoLine == [has_last_mode |-> FALSE, last_mode |-> "DIRECT_FORWARD",
           original_point |-> Vec(0, 0), original_direction |-> 0]

NoAnswer == [answered |-> FALSE]

MovingDirection(mode) == IF mode = "DIRECT_FORWARD" THEN 1 ELSE -1
TargetGear(mode) == IF mode = "DIRECT_FORWARD" THEN "GEAR_DRIVE" ELSE "GEAR_REVERSE"

\* SelectDirectDistance and ResolveDirectMoveLength
DirectMoveLength(requested) ==
  IF requested <= 0 THEN DefaultLength ELSE IF requested < MaxLength THEN requested ELSE MaxLength

\* A whole speed is a standstill only if it is 0.
NeedStopDecision(mode, vehicle) ==
  \/ vehicle.gear # TargetGear(mode)
  \/ vehicle.v * MovingDirection(mode) < 0

\* Mutant: the line is that of the first command.
KeepsFirstLine(frame) ==
  IF line.has_last_mode THEN [line EXCEPT !.last_mode = frame.mode]
  ELSE [has_last_mode |-> TRUE, last_mode |-> frame.mode,
        original_point |-> Vec(frame.vehicle.x, frame.vehicle.y),
        original_direction |-> frame.vehicle.heading]

\* A new direction starts a line at the pose of the vehicle.
LineOf(frame) ==
  IF line.has_last_mode /\ line.last_mode = frame.mode THEN line
  ELSE [has_last_mode |-> TRUE, last_mode |-> frame.mode,
        original_point |-> Vec(frame.vehicle.x, frame.vehicle.y),
        original_direction |-> frame.vehicle.heading]

\* GenerateDirectMovingPath, from the foot of the start point on a line.
DirectMovingPath(l, start_point, direction, direct_move_length) ==
  LET along == UnitVec(l.original_direction)
      foot == Plus(l.original_point,
                   Scaled(InnerProd(Minus(start_point, l.original_point), along), along))
  IN [i \in 1 .. direct_move_length \div StepSize + 1 |->
        LET p == Plus(foot, Scaled(direction * StepSize * (i - 1), along))
        IN PathPoint(p.x, p.y, NormalizeAngle(12 * l.original_direction), StepSize * (i - 1))]

Answered(frame, path, is_stop_path) ==
  [answered |-> TRUE, frame |-> frame, path |-> path, gear |-> TargetGear(frame.mode),
   is_stop_path |-> is_stop_path]

\* Process, if the vehicle has to stop first
StopFirst(frame) ==
  /\ NeedStopDecision(frame.mode, frame.vehicle)
  /\ answer' = Answered(frame,
                      StopPath([x |-> frame.vehicle.x, y |-> frame.vehicle.y,
                                theta |-> 12 * frame.vehicle.heading], StopPoints),
                      TRUE)
  /\ UNCHANGED <<line, driven>>

\* Process, if it may drive
LeadOn(frame) ==
  /\ ~NeedStopDecision(frame.mode, frame.vehicle)
  /\ Len(driven) < MaxDriven
  /\ line' = LineOf(frame)
  /\ answer' = Answered(frame,
                      DirectMovingPath(line', frame.vehicle, MovingDirection(frame.mode),
                                       DirectMoveLength(frame.distance)),
                      FALSE)
  /\ driven' = Append(driven, frame)

\* Reset, with the planning state of the adapter
ResetLine ==
  /\ line' = NoLine
  /\ answer' = NoAnswer
  /\ driven' = << >>

StraightInit == line = NoLine /\ answer = NoAnswer /\ driven = << >>

StraightNext == (\E frame \in DirectFrames : StopFirst(frame) \/ LeadOn(frame)) \/ ResetLine

StraightSpec == StraightInit /\ [][StraightNext]_straight_vars

-----------------------------------------------------------------------------
(* Properties *)

\* Frame i is the first one that was driven in its mode after any in the other.
Began(i) ==
  /\ \A j \in i .. Len(driven) : driven[j].mode = driven[i].mode
  /\ i > 1 => driven[i-1].mode # driven[i].mode

\* The path leads from beside the vehicle along the line through the pose of another
\* vehicle, in one direction of it and step by step.
LeadsAlong(path, vehicle, pose, direction) ==
  LET along == UnitVec(pose.heading)
      across == UnitVec(pose.heading + 1)
  IN /\ \A i \in DOMAIN path : InnerProd(Minus(path[i], pose), across) = 0
     /\ InnerProd(Minus(path[1], vehicle), along) = 0
     /\ \A i \in 2 .. Len(path) :
          InnerProd(Minus(path[i], path[i-1]), along) = direction * StepSize

\* The mode's gear is in, and the vehicle does not roll the other way.
MayDrive(mode, vehicle) ==
  IF mode = "DIRECT_FORWARD" THEN vehicle.gear = "GEAR_DRIVE" /\ vehicle.v >= 0
  ELSE vehicle.gear = "GEAR_REVERSE" /\ vehicle.v <= 0

(* A direct path lies on the line where its drive began, in its direction, *)
(* from beside the vehicle on and as long as was asked for, but for a      *)
(* step, whatever stops came between; and a vehicle that rolls the other   *)
(* way or has another gear, and only such a one, is told to stop where it  *)
(* is (Process and GenerateDirectMovingPath).                              *)
DirectKeepsLine ==
  answer.answered =>
    LET mode == answer.frame.mode
        now == answer.frame.vehicle
        asked == answer.frame.distance
        length == PathLength(answer.path)
        reach == length .. length + StepSize - 1
    IN IF MayDrive(mode, now)
       THEN /\ ~answer.is_stop_path /\ answer.gear = now.gear
            /\ driven # << >> /\ driven[Len(driven)] = answer.frame
            /\ asked <= 0 => DefaultLength \in reach
            /\ asked \in 1 .. MaxLength => asked \in reach
            /\ length <= MaxLength
            /\ \E i \in DOMAIN driven :
                 Began(i) /\ LeadsAlong(answer.path, now, driven[i].vehicle,
                                        IF mode = "DIRECT_FORWARD" THEN 1 ELSE -1)
       ELSE /\ answer.is_stop_path
            /\ \A i \in DOMAIN answer.path : answer.path[i].x = now.x /\ answer.path[i].y = now.y
=============================================================================
