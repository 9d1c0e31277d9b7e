------------------------ MODULE OpenSpacePathPartition ------------------------
(***************************************************************************)
(* OpenSpacePathPartition: each planning frame hands it the path of the    *)
(* path provider, and it decides what to follow: that path, the one it     *)
(* followed before (history_path_), or nothing.  It keeps its place on the *)
(* path, goes on to the next segment where the gear changes, and says when *)
(* the destination is reached.  One Execute is one action, for the stage   *)
(* calls it under its mutex.  Geometry is known by what it answers: which  *)
(* point of a segment the vehicle matches, how far the gear shift point    *)
(* is, whether the pose fits.  Indices start at 1.                         *)
(***************************************************************************)
EXTENDS Integers, Sequences

CONSTANTS
  Routes,           \* what the path provider can answer, as segments
  GearShiftLimit,   \* kApaGearShiftLimit
  MaxShifts,        \* bound: where the count of gear changes stops
  MaxTick,          \* bound: how far the clock advances between two frames
  \* Times, in units of that clock.
  ColdStart,        \* cold_start_response_time_threshold
  WarmStart,        \* warm_start_response_time_threshold
  YawReplan,        \* yaw_error_replan_time_threshold
  LongTime          \* 0.1 s * destination_long_time_count

Moving == {"D", "R"}              \* the gears of a segment
Gears  == Moving \cup {"P"}       \* the gears that are published

ASSUME PartitionAssumption ==
  /\ Routes \subseteq Seq([points : Nat \ {0}, gear : Moving]) \ {<<>>}
  /\ {GearShiftLimit, MaxShifts, MaxTick, ColdStart, WarmStart, YawReplan, LongTime} \subseteq Nat

VARIABLES
  history,      \* history_path_: the path followed and the place on it
  warm,         \* is_warm_start_
  reached,      \* is_veh_reach_destination_
  braked,       \* is_veh_prefinish_brake_saftisfied_
  gear_shift,   \* gear_shift_: the gear last driven in, the changes so far
  age,          \* the time since frozen_near_end_time_,
                \* yaw_track_abnormal_start_time_ and frozen_time_
  pub_gear,     \* last_published_gear of the stage
  out,          \* what the last frame decided
  moved         \* history: the vehicle moved in a frame since the last reset

vars == <<history, warm, reached, braked, gear_shift, age, pub_gear, out, moved>>

NoPath == [segments |-> <<>>, path_idx |-> 0, point_idx |-> 0]

Last(path) == Len(path.segments)
Segment(path) == path.segments[path.path_idx]

\* The places on a route: a segment, and a point of it.
Places(route) ==
  UNION {{[segments |-> route, path_idx |-> i, point_idx |-> j] :
            j \in 1 .. route[i].points} : i \in 1 .. Len(route)}

Paths == UNION {Places(route) : route \in Routes}

Decisions == {"TASK_FINISH", "PREPARE_FINISH", "NO_VALID_PATH",
              "CHOOSE_HISTORY_PATH", "CHOOSE_NEW_PATH"}

NoOutput == [decision |-> "none", gear |-> "P", standing |-> TRUE]

NoAge == [near_end |-> 0, yaw |-> 0, frozen |-> 0]

TypeOK ==
  /\ history \in Paths \cup {NoPath}
  /\ {warm, reached, braked, moved} \subseteq BOOLEAN
  /\ gear_shift \in [gear : Gears, count : 0 .. MaxShifts]
  /\ age \in [near_end : Nat, yaw : Nat, frozen : Nat]
  /\ pub_gear \in Gears
  /\ out \in [decision : Decisions \cup {"none"}, gear : Gears, standing : BOOLEAN]

Init ==
  /\ history = NoPath
  /\ warm = FALSE /\ reached = FALSE /\ braked = FALSE /\ moved = FALSE
  /\ gear_shift = [gear |-> "P", count |-> 0]
  /\ age = NoAge
  /\ pub_gear = "P"
  /\ out = NoOutput

\* ResetPlanningState of the stage, which resets the partition with the rest.
Reset ==
  /\ history' = NoPath
  /\ warm' = FALSE /\ reached' = FALSE /\ braked' = FALSE /\ moved' = FALSE
  /\ gear_shift' = [gear |-> "P", count |-> 0]
  /\ age' = NoAge
  /\ pub_gear' = "P"
  /\ out' = NoOutput

-----------------------------------------------------------------------------
(* What the frame begins with. *)

AtMost(limit, n) == IF n < limit THEN n ELSE limit

\* UpdateParam.  `stopped': the speed plan has stopped for an obstacle.
UpdateParam(standing, gear, stopped, tick) ==
  [standing |-> standing,
   gear     |-> gear,
   warm     |-> (warm /\ gear = pub_gear) \/ ~standing,
   near_end |-> IF gear # pub_gear \/ stopped \/ ~standing
                THEN 0
                ELSE AtMost(ColdStart + WarmStart + 1, age.near_end + tick),
   yaw      |-> AtMost(YawReplan, age.yaw + tick),
   frozen   |-> IF standing THEN AtMost(LongTime, age.frozen + tick) ELSE 0]

\* The states a vehicle and the clock can be in when a frame begins.
Frames == {UpdateParam(standing, gear, stopped, tick) :
             standing, stopped \in BOOLEAN, gear \in Gears \cup {"N"}, tick \in 0 .. MaxTick}

-----------------------------------------------------------------------------
(* Where the vehicle is on a path. *)

\* The ways on from a matched point: [path, executable status].
Stay(path, status) == [path |-> path, status |-> status]

AtTail(path) == path.point_idx = Segment(path).points

\* A gear shift is looked at by a standing vehicle on a segment that is not
\* the last, unless it is in the next gear already and has some way to go.
ConsidersShift(path, frame) ==
  /\ path.path_idx < Last(path)
  /\ frame.standing
  /\ path.segments[path.path_idx + 1].gear # frame.gear \/ AtTail(path)

\* The next segment is entered at a point that matches, or at its first one.
NextSegment(path) ==
  {[path EXCEPT !.path_idx = @ + 1, !.point_idx = j] :
     j \in 1 .. path.segments[path.path_idx + 1].points}

\* AbleToGearShift at the shift point: a large yaw error holds it up, for a while.
AtShiftPoint(path, frame) ==
  {Stay(next, {}) : next \in NextSegment(path)}
    \cup (IF frame.yaw < YawReplan THEN {Stay(path, {"LARGE_YAW_ERROR"})} ELSE {})

\* AbleToGearShift a little before it: a vehicle that waits is told to move up.
NearShiftPoint(path, frame) ==
  {Stay(path, IF frame.near_end > (IF frame.warm THEN WarmStart ELSE ColdStart)
              THEN {"TOO_SHORT_TO_LAUNCH"} ELSE {})}

\* UpdatePathMatchIdx; the tail of a segment is its shift point.
UpdatePathMatchIdx(path, frame) ==
  IF ~ConsidersShift(path, frame) THEN {Stay(path, {})}
  ELSE AtShiftPoint(path, frame)
         \cup (IF AtTail(path) THEN {}
               ELSE NearShiftPoint(path, frame) \cup {Stay(path, {})})

\* Mutant of MatchedPoints: the search starts at the beginning of the segment.
MatchedPointsFromStart(path) == 1 .. Segment(path).points

\* GetPathMatchIdx: a point of the current segment, never one before the last match.
MatchedPoints(path) == path.point_idx .. Segment(path).points

\* PathMatch, where it succeeds.
PathMatch(path, frame) ==
  UNION {UpdatePathMatchIdx([path EXCEPT !.point_idx = j], frame) : j \in MatchedPoints(path)}

-----------------------------------------------------------------------------
(* Which path to follow. *)

NoMatch == [path |-> NoPath, status |-> {}, gear_shift_num |-> 0]
Matched(alternative) == alternative.path # NoPath

\* gear_shift_num is an uint8.
Alternative(match, risk, shifts) ==
  [path |-> match.path, status |-> match.status \cup risk,
   gear_shift_num |-> (gear_shift.count + shifts) % 256]

\* A replan of the speed plan marks the history, which it was made from.
HistoryAlternatives(frame, replan) ==
  {NoMatch} \cup
  (IF history = NoPath THEN {} ELSE
   {Alternative(match, IF replan THEN {"COLLISION_RISK"} ELSE {},
                Last(match.path) - match.path.path_idx) : match \in PathMatch(history, frame)})

NewAlternatives(frame) ==
  {NoMatch} \cup
  UNION {{Alternative(match, {}, IF gear_shift.gear = route[1].gear
                                 THEN Len(route) - 1 ELSE Len(route)) :
            match \in PathMatch([segments |-> route, path_idx |-> 1, point_idx |-> 1], frame)} :
           route \in Routes}

\* What PathDecider accepts where there is nothing to choose from.
Acceptable(status) == status \in {{}, {"TOO_SHORT_TO_LAUNCH"}, {"COLLISION_RISK"}}

\* PathDecider of a history and a new path that can both be driven; `target':
\* the path provider says TARGET_UPDATE, `clearer': the history is free of
\* collisions for longer.
PrefersNew(old, new, target, clearer) ==
  \/ new.gear_shift_num <= old.gear_shift_num
  \/ new.gear_shift_num <= GearShiftLimit /\ (target \/ ~clearer)

\* PathDecider of two paths: the executable one, a new one that is too short.
PathDecider(old, new, target, clearer) ==
  CASE old.status = {} /\ new.status = {} ->
         IF PrefersNew(old, new, target, clearer) THEN "new" ELSE "history"
    [] old.status = {} /\ new.status # {} -> "history"
    [] new.status = {} /\ old.status # {} -> "new"
    [] OTHER -> IF new.status = {"TOO_SHORT_TO_LAUNCH"} THEN "new" ELSE "none"

Only(alternative, which) ==
  IF Acceptable(alternative.status) THEN which ELSE "none"

Choice(old, new, target, clearer) ==
  CASE Matched(old) /\ Matched(new)  -> PathDecider(old, new, target, clearer)
    [] Matched(old) /\ ~Matched(new) -> Only(old, "history")
    [] ~Matched(old) /\ Matched(new) -> Only(new, "new")
    [] OTHER                         -> "none"

\* SetStopPath: the vehicle holds, and what was left of the path comes after.
StopPath(gear, reserved) ==
  [path_idx |-> 1, point_idx |-> 1,
   segments |-> <<[points |-> 1, gear |-> gear]>>
                  \o SubSeq(reserved.segments, reserved.path_idx + 1, Last(reserved))]

\* The decision, the path that goes with it, and whether a yaw error is why.
Verdict(old, new, target, clearer) ==
  LET choice == Choice(old, new, target, clearer)
      front  == IF Matched(old) THEN old ELSE new
      back   == IF Matched(new) THEN new ELSE old
  IN CASE choice = "history" ->
            [decision |-> "CHOOSE_HISTORY_PATH", path |-> old.path, yaw |-> FALSE]
       [] choice = "new" ->
            [decision |-> "CHOOSE_NEW_PATH", path |-> new.path, yaw |-> FALSE]
       [] choice = "none" ->
            [decision |-> "NO_VALID_PATH", path |-> StopPath(pub_gear, front.path),
             yaw |-> "LARGE_YAW_ERROR" \in back.status]

Verdicts(frame, replan) ==
  {Verdict(old, new, target, clearer) :
     old \in HistoryAlternatives(frame, replan), new \in NewAlternatives(frame),
     target, clearer \in BOOLEAN}

-----------------------------------------------------------------------------
(* Whether it is over. *)

\* IsTaskFinish counts the gears the vehicle is driven in.
GearShift(gear) ==
  IF gear \notin Moving \/ gear = gear_shift.gear THEN gear_shift
  ELSE [gear |-> gear,
        count |-> IF gear_shift.gear = "P" THEN gear_shift.count
                  ELSE AtMost(MaxShifts, gear_shift.count + 1)]

\* IsAdcExecuteLastPartPath
LastPart(path, frame) == path.path_idx = Last(path) /\ Segment(path).gear = frame.gear

\* UpdateFinishStatusBasedOnStatus of a moving vehicle: it backs onto the pose
\* of the lot, or is about to stop in a lateral lot.
MovingStatus(frame) ==
  {"VEHICEL_MOVING", "PREFINISH_BRAKING"}
    \cup (IF frame.gear = "R" THEN {"COLLISION_FINISH"} ELSE {})

\* Mutant of StandingStatus: a vehicle that never moved may have arrived.
StandingStatusFromStart(path, frame) ==
  IF braked THEN {"REACH_TARGET"}
  ELSE {"LARGE_ANGLE", "FAR_AWAY"}
         \cup (IF LastPart(path, frame) THEN {"REACH_TARGET"} ELSE {})

\* ... and of a standing one, at any distance and angle to the lot.
StandingStatus(path, frame) ==
  IF braked THEN {"REACH_TARGET"}
  ELSE {"LARGE_ANGLE", "FAR_AWAY"}
         \cup (IF LastPart(path, frame) /\ frame.frozen >= LongTime THEN {"OVER_TIME"} ELSE {})
         \cup (IF LastPart(path, frame) /\ frame.warm THEN {"REACH_TARGET"} ELSE {})

\* Mutant of FinishStatuses: the vehicle is looked at again in every frame.
FinishStatusesAnew(path, frame) ==
  IF frame.standing THEN StandingStatus(path, frame) ELSE MovingStatus(frame)

\* Once the destination is reached nothing is looked at any more.
FinishStatuses(path, frame) ==
  IF reached THEN {"REACH_TARGET"}
  ELSE IF frame.standing THEN StandingStatus(path, frame) ELSE MovingStatus(frame)

Success == {"REACH_TARGET", "COLLISION_FINISH"}

-----------------------------------------------------------------------------
(* The frame. *)

\* What every decision keeps and publishes.  `rest': more than a little of the
\* published segment is left, which restarts the wait near its end.
Publish(frame, decision, path, yaw) ==
  /\ warm' = frame.warm
  /\ gear_shift' = GearShift(frame.gear)
  /\ \E rest \in (IF AtTail(path) THEN {FALSE} ELSE BOOLEAN) :
       age' = [near_end |-> IF rest THEN 0 ELSE frame.near_end,
               yaw |-> IF yaw THEN frame.yaw ELSE 0, frozen |-> frame.frozen]
  /\ pub_gear' = Segment(path).gear
  /\ moved' = (moved \/ ~frame.standing)
  /\ out' = [decision |-> decision, gear |-> Segment(path).gear, standing |-> frame.standing]

\* Braking for the destination is over when it was followed to the end.
TaskFinish(frame, status) ==
  /\ Publish(frame, "TASK_FINISH", StopPath("P", NoPath), FALSE)
  /\ reached' = TRUE
  /\ braked' = (braked /\ (reached \/ status # "REACH_TARGET"))
  /\ UNCHANGED history

PrepareFinish(frame, verdict) ==
  /\ Publish(frame, "PREPARE_FINISH", verdict.path, FALSE)
  /\ braked' = TRUE
  /\ UNCHANGED <<history, reached>>

NoValidPath(frame, verdict) ==
  /\ verdict.decision = "NO_VALID_PATH"
  /\ Publish(frame, "NO_VALID_PATH", verdict.path, verdict.yaw)
  /\ UNCHANGED <<history, reached, braked>>

\* A published segment of a single point is refused by RunPathPartition, and
\* the stage resets: that is Reset.
Follow(frame, verdict) ==
  /\ verdict.decision # "NO_VALID_PATH"
  /\ Publish(frame, verdict.decision, verdict.path, FALSE)
  /\ history' = verdict.path
  /\ UNCHANGED <<reached, braked>>

Decide(frame, verdict, status) ==
  CASE status \in Success -> TaskFinish(frame, status)
    [] status = "PREFINISH_BRAKING" -> PrepareFinish(frame, verdict)
    [] status = "OVER_TIME" -> Reset
    [] OTHER -> NoValidPath(frame, verdict) \/ Follow(frame, verdict)

\* RunPathPartition of a frame whose path provider has answered; `replan': the
\* speed plan of the last frame asked for a new path.
Execute ==
  \E frame \in Frames, replan \in BOOLEAN :
    \E verdict \in Verdicts(frame, replan) :
      \E status \in FinishStatuses(verdict.path, frame) :
        Decide(frame, verdict, status)

\* Another branch of Process publishes a gear: the straight path of a direct
\* command, after which planning may go on.
DirectControl ==
  /\ pub_gear' \in Moving
  /\ UNCHANGED <<history, warm, reached, braked, gear_shift, age, out, moved>>

Next == Execute \/ DirectControl \/ Reset

Spec == Init /\ [][Next]_vars

-----------------------------------------------------------------------------
(* Safety. *)

(* A destination is only reached by a vehicle that has moved since the     *)
(* planning state was last reset: nothing that is kept, and no pose,       *)
(* finishes a mission that has not begun (UpdateFinishStatusBasedOnStatus, *)
(* is_warm_start_).                                                        *)
FinishNeedsMotion == reached => moved

(* A destination that was reached stays reached, and each frame from then  *)
(* on publishes a stop in PARKING whatever the path provider offers, until *)
(* a reset (IsTaskFinish, is_veh_reach_destination_).                      *)
ReachedIsHeld ==
  [][reached => /\ reached' \/ out' = NoOutput
                /\ reached' => out'.decision = "TASK_FINISH" /\ out'.gear = "P"]_vars

\* The place of a path comes after that of another.
NotBefore(old, new) ==
  \/ new.path_idx = old.path_idx /\ new.point_idx >= old.point_idx
  \/ new.path_idx = old.path_idx + 1

(* A vehicle that keeps its path never goes back on it, and skips no       *)
(* segment; it leaves a segment only while it stands, and is then told the *)
(* gear of the next (UpdatePathMatchIdx, AbleToGearShift).                 *)
PathIsFollowed ==
  [][out' # out /\ out'.decision = "CHOOSE_HISTORY_PATH" =>
       /\ history'.segments = history.segments
       /\ NotBefore(history, history')
       /\ history'.path_idx # history.path_idx => out'.standing
       /\ out'.gear = Segment(history').gear]_vars

=============================================================================
