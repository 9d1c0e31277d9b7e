--------------------- MODULE OpenSpacePathPartitionProofs ---------------------
(***************************************************************************)
(* What holds of OpenSpacePathPartition for every set of routes and every  *)
(* threshold.  What a frame decides comes out of a chain of choices (where *)
(* a path is matched, which alternative is taken, whether the destination  *)
(* is reached); a lemma says of each what the next one needs.              *)
(***************************************************************************)
EXTENDS OpenSpacePathPartition, SequenceTheorems, TLAPS

(* Everything that may end a mission was earned by a movement; a reached   *)
(* destination is what the last frame published.                           *)
Earned ==
  /\ warm \/ braked \/ reached => moved
  /\ reached => out.decision = "TASK_FINISH" /\ out.gear = "P"

-----------------------------------------------------------------------------
(* Finishing. *)

(* A frame begins with warm_start only if it was there or the vehicle      *)
(* moves (UpdateParam).                                                    *)
LEMMA WarmFrames ==
  ASSUME NEW frame \in Frames
  PROVE  /\ frame.standing \in BOOLEAN
         /\ frame.warm => warm \/ ~frame.standing
<1>1. PICK standing \in BOOLEAN, stopped \in BOOLEAN, gear \in Gears \cup {"N"},
           tick \in 0 .. MaxTick : frame = UpdateParam(standing, gear, stopped, tick)
  BY DEF Frames
<1>2. /\ frame.standing = standing
      /\ frame.warm = ((warm /\ gear = pub_gear) \/ ~standing)
  BY <1>1 DEF UpdateParam
<1> QED BY <1>2

(* A stop at the destination is in PARKING (SetStopPath).                  *)
LEMMA StopsInParking == Segment(StopPath("P", NoPath)).gear = "P"
<1>1. SubSeq(NoPath.segments, NoPath.path_idx + 1, Last(NoPath)) = <<>>
  BY SubSeqEmpty DEF NoPath, Last
<1>2. StopPath("P", NoPath).segments = <<[points |-> 1, gear |-> "P"]>> \o <<>>
  BY <1>1 DEF StopPath
<1>3. StopPath("P", NoPath).segments[1] = [points |-> 1, gear |-> "P"]
  BY <1>2
<1> QED BY <1>3 DEF StopPath, Segment

(* What a finish status asks for: a success of a vehicle that had earned   *)
(* it, or moves now; brakes are applied by a moving one.                   *)
LEMMA FinishStatusesEarned ==
  ASSUME Earned, NEW frame \in Frames, NEW path,
         NEW status \in FinishStatuses(path, frame)
  PROVE  /\ status \in Success => moved \/ ~frame.standing
         /\ status = "PREFINISH_BRAKING" => ~frame.standing
         /\ reached => status = "REACH_TARGET"
<1>1. CASE reached
  <2>1. status = "REACH_TARGET"
    BY <1>1 DEF FinishStatuses
  <2> QED BY <1>1, <2>1 DEF Earned
<1>2. CASE ~reached /\ frame.standing
  <2>1. status \in StandingStatus(path, frame)
    BY <1>2 DEF FinishStatuses
  <2>2. frame.warm => warm
    BY <1>2, WarmFrames
  <2> QED BY <1>2, <2>1, <2>2 DEF StandingStatus, Earned, Success
<1>3. CASE ~reached /\ ~frame.standing
  BY <1>3
<1> QED BY <1>1, <1>2, <1>3, WarmFrames

LEMMA EarnedInit == Init => Earned
  BY DEF Init, Earned

LEMMA EarnedStep == Earned /\ [Next]_vars => Earned'
<1> SUFFICES ASSUME Earned, [Next]_vars PROVE Earned'
  OBVIOUS
<1>1. CASE Execute
  <2>1. PICK frame \in Frames, replan \in BOOLEAN :
          \E verdict \in Verdicts(frame, replan) :
            \E status \in FinishStatuses(verdict.path, frame) :
              Decide(frame, verdict, status)
    BY <1>1 DEF Execute
  <2>2. PICK verdict \in Verdicts(frame, replan) :
          \E status \in FinishStatuses(verdict.path, frame) :
            Decide(frame, verdict, status)
    BY <2>1
  <2>3. PICK status \in FinishStatuses(verdict.path, frame) :
          Decide(frame, verdict, status)
    BY <2>2
  <2>4. /\ status \in Success => moved \/ ~frame.standing
        /\ status = "PREFINISH_BRAKING" => ~frame.standing
        /\ reached => status = "REACH_TARGET"
        /\ frame.warm => warm \/ ~frame.standing
    BY FinishStatusesEarned, WarmFrames
  <2>5. CASE TaskFinish(frame, status) /\ status \in Success
    BY <2>4, <2>5, StopsInParking DEF TaskFinish, Publish, Earned
  <2>6. CASE PrepareFinish(frame, verdict) /\ status = "PREFINISH_BRAKING"
    BY <2>4, <2>6 DEF PrepareFinish, Publish, Earned
  <2>7. CASE Reset
    BY <2>7 DEF Reset, Earned
  <2>8. CASE /\ NoValidPath(frame, verdict) \/ Follow(frame, verdict)
             /\ status \notin Success
    <3>1. ~reached
      BY <2>4, <2>8 DEF Success
    <3>2. /\ warm' = frame.warm
          /\ moved' = (moved \/ ~frame.standing)
          /\ UNCHANGED <<reached, braked>>
      BY <2>8 DEF NoValidPath, Follow, Publish
    <3> QED BY <2>4, <3>1, <3>2 DEF Earned
  <2> QED BY <2>3, <2>5, <2>6, <2>7, <2>8 DEF Decide
<1>2. CASE DirectControl
  BY <1>2 DEF DirectControl, Earned
<1>3. CASE Reset
  BY <1>3 DEF Reset, Earned
<1>4. CASE UNCHANGED vars
  BY <1>4 DEF vars, Earned
<1> QED BY <1>1, <1>2, <1>3, <1>4 DEF Next

(* A destination is only reached by a vehicle that moved since the reset,  *)
(* whatever its routes and its thresholds are.                             *)
THEOREM FinishNeedsMotionHolds == Spec => []FinishNeedsMotion
<1>1. Earned => FinishNeedsMotion
  BY DEF Earned, FinishNeedsMotion
<1> QED BY EarnedInit, EarnedStep, <1>1, PTL DEF Spec

(* A reached destination stays reached, and is published again by each     *)
(* frame, until a reset.                                                   *)
THEOREM ReachedIsHeldHolds == Spec => ReachedIsHeld
<1> DEFINE Held == reached => /\ reached' \/ out' = NoOutput
                              /\ reached' => out'.decision = "TASK_FINISH" /\ out'.gear = "P"
<1>1. Earned /\ Earned' /\ [Next]_vars => [Held]_vars
  <2> SUFFICES ASSUME Earned, Earned', Next, reached PROVE reached' \/ out' = NoOutput
    BY DEF Earned
  <2>1. CASE Execute
    <3>1. PICK frame \in Frames, replan \in BOOLEAN :
            \E verdict \in Verdicts(frame, replan) :
              \E status \in FinishStatuses(verdict.path, frame) :
                Decide(frame, verdict, status)
      BY <2>1 DEF Execute
    <3>2. PICK verdict \in Verdicts(frame, replan) :
            \E status \in FinishStatuses(verdict.path, frame) :
              Decide(frame, verdict, status)
      BY <3>1
    <3>3. PICK status \in FinishStatuses(verdict.path, frame) :
            Decide(frame, verdict, status)
      BY <3>2
    <3>4. status = "REACH_TARGET"
      BY FinishStatusesEarned
    <3> QED BY <3>3, <3>4 DEF Decide, Success, TaskFinish
  <2>2. CASE DirectControl
    BY <2>2 DEF DirectControl
  <2>3. CASE Reset
    BY <2>3 DEF Reset
  <2> QED BY <2>1, <2>2, <2>3 DEF Next
<1> QED BY EarnedInit, EarnedStep, <1>1, PTL DEF Spec, ReachedIsHeld

-----------------------------------------------------------------------------
(* Places on a path. *)

LEMMA PathsTyped ==
  ASSUME NEW path \in Paths
  PROVE  /\ path.segments \in Routes
         /\ path.segments \in Seq([points : Nat \ {0}, gear : Moving])
         /\ path.path_idx \in 1 .. Last(path)
         /\ Segment(path) \in [points : Nat \ {0}, gear : Moving]
         /\ path.point_idx \in 1 .. Segment(path).points
         /\ path = [segments |-> path.segments, path_idx |-> path.path_idx,
                    point_idx |-> path.point_idx]
<1>1. PICK route \in Routes : path \in Places(route)
  BY DEF Paths
<1>2. PICK i \in 1 .. Len(route) : \E j \in 1 .. route[i].points :
        path = [segments |-> route, path_idx |-> i, point_idx |-> j]
  BY <1>1 DEF Places
<1>3. route \in Seq([points : Nat \ {0}, gear : Moving])
  BY PartitionAssumption
<1>4. route[i] \in [points : Nat \ {0}, gear : Moving]
  BY <1>2, <1>3, ElementOfSeq
<1> QED BY <1>2, <1>3, <1>4 DEF Last, Segment

LEMMA PathsContain ==
  ASSUME NEW route \in Routes, NEW i \in 1 .. Len(route), NEW j \in 1 .. route[i].points
  PROVE  [segments |-> route, path_idx |-> i, point_idx |-> j] \in Paths
  BY DEF Paths, Places

LEMMA NoPathIsNoPlace == NoPath \notin Paths
  BY PathsTyped DEF NoPath

(* A path is matched where the vehicle is already or further on, and its   *)
(* next segment is entered by a standing vehicle (PathMatch).              *)
LEMMA PathMatchFollows ==
  ASSUME NEW path \in Paths, NEW frame, NEW match \in PathMatch(path, frame)
  PROVE  /\ match.path \in Paths
         /\ match.path.segments = path.segments
         /\ NotBefore(path, match.path)
         /\ match.path.path_idx # path.path_idx => frame.standing
<1>1. PICK j \in MatchedPoints(path) :
        match \in UpdatePathMatchIdx([path EXCEPT !.point_idx = j], frame)
  BY DEF PathMatch
<1> DEFINE at == [path EXCEPT !.point_idx = j]
<1>2. /\ at = [segments |-> path.segments, path_idx |-> path.path_idx, point_idx |-> j]
      /\ j \in 1 .. Segment(path).points
      /\ j >= path.point_idx
  BY <1>1, PathsTyped DEF MatchedPoints
<1>3. at \in Paths
  BY <1>2, PathsTyped, PathsContain DEF Segment, Last
<1>4. \/ match.path = at
      \/ /\ at.path_idx < Last(at)
         /\ frame.standing
         /\ match.path \in NextSegment(at)
  <2> HIDE DEF at
  <2>1. match \in UpdatePathMatchIdx(at, frame)
    BY <1>1 DEF at
  <2> QED
    BY <2>1 DEF UpdatePathMatchIdx, ConsidersShift, AtShiftPoint, NearShiftPoint, Stay
<1>5. CASE match.path = at
  BY <1>2, <1>3, <1>5, PathsTyped DEF NotBefore
<1>6. CASE /\ at.path_idx < Last(at)
           /\ frame.standing
           /\ match.path \in NextSegment(at)
  <2>1. PICK k \in 1 .. at.segments[at.path_idx + 1].points :
          match.path = [at EXCEPT !.path_idx = @ + 1, !.point_idx = k]
    BY <1>6 DEF NextSegment
  <2>2. match.path = [segments |-> path.segments, path_idx |-> path.path_idx + 1,
                      point_idx |-> k]
    BY <1>2, <2>1
  <2>3. /\ path.path_idx + 1 \in 1 .. Len(path.segments)
        /\ k \in 1 .. path.segments[path.path_idx + 1].points
    BY <1>2, <1>6, <2>1, PathsTyped DEF Last
  <2>4. match.path \in Paths
    BY <2>2, <2>3, PathsTyped, PathsContain
  <2> QED BY <1>6, <2>2, <2>4 DEF NotBefore
<1> QED BY <1>4, <1>5, <1>6

-----------------------------------------------------------------------------
(* What is chosen. *)

History == Paths \cup {NoPath}

(* The history that is matched leads on from the place that was reached.   *)
LEMMA HistoryFollows ==
  ASSUME history \in History, NEW frame, NEW replan,
         NEW old \in HistoryAlternatives(frame, replan), Matched(old)
  PROVE  /\ old.path \in Paths
         /\ old.path.segments = history.segments
         /\ NotBefore(history, old.path)
         /\ old.path.path_idx # history.path_idx => frame.standing
<1>1. old # NoMatch
  BY DEF Matched, NoMatch
<1>2. /\ history \in Paths
      /\ \E match \in PathMatch(history, frame) : old.path = match.path
  BY <1>1 DEF HistoryAlternatives, Alternative, History
<1> QED BY <1>2, PathMatchFollows

LEMMA NewIsAPath ==
  ASSUME NEW frame, NEW new \in NewAlternatives(frame), Matched(new)
  PROVE  new.path \in Paths
<1>1. new # NoMatch
  BY DEF Matched, NoMatch
<1>2. PICK route \in Routes :
        \E match \in PathMatch([segments |-> route, path_idx |-> 1, point_idx |-> 1], frame) :
          new.path = match.path
  BY <1>1 DEF NewAlternatives, Alternative
<1> DEFINE start == [segments |-> route, path_idx |-> 1, point_idx |-> 1]
<1>3. route \in Seq([points : Nat \ {0}, gear : Moving]) /\ route # <<>>
  BY PartitionAssumption
<1>4. 1 \in 1 .. Len(route)
  BY <1>3, EmptySeq
<1>5. route[1] \in [points : Nat \ {0}, gear : Moving]
  BY <1>3, <1>4, ElementOfSeq
<1>6. start \in Paths
  BY <1>4, <1>5, PathsContain
<1> QED BY <1>2, <1>6, PathMatchFollows

(* A stop path begins with a stop in the gear it is made for.              *)
LEMMA StopPathGear ==
  ASSUME NEW gear, NEW reserved \in History
  PROVE  Segment(StopPath(gear, reserved)).gear = gear
<1> DEFINE Any  == [points : Nat \ {0}, gear : Moving] \cup {[points |-> 1, gear |-> gear]}
           stop == <<[points |-> 1, gear |-> gear]>>
           rest == SubSeq(reserved.segments, reserved.path_idx + 1, Last(reserved))
<1>1. /\ reserved.path_idx \in Int /\ reserved.path_idx >= 0
      /\ Last(reserved) \in Int
      /\ \A i \in 1 .. Last(reserved) : reserved.segments[i] \in Any
  <2>1. CASE reserved = NoPath
    BY <2>1 DEF NoPath, Last
  <2>2. CASE reserved \in Paths
    <3>1. /\ reserved.segments \in Seq([points : Nat \ {0}, gear : Moving])
          /\ reserved.path_idx \in 1 .. Last(reserved)
      BY <2>2, PathsTyped
    <3>2. \A i \in 1 .. Len(reserved.segments) :
            reserved.segments[i] \in [points : Nat \ {0}, gear : Moving]
      BY <3>1, ElementOfSeq
    <3> QED BY <3>1, <3>2 DEF Last
  <2> QED BY <2>1, <2>2 DEF History
<1>2. rest \in Seq(Any)
  <2>1. \A i \in reserved.path_idx + 1 .. Last(reserved) : reserved.segments[i] \in Any
    BY <1>1
  <2> QED BY <1>1, <2>1, SubSeqProperties
<1>3. stop \in Seq(Any) /\ Len(stop) = 1 /\ stop[1] = [points |-> 1, gear |-> gear]
  OBVIOUS
<1>4. (stop \o rest)[1] = stop[1]
  <2>1. Len(rest) \in Nat
    BY <1>2
  <2> QED BY <1>2, <1>3, <2>1, ConcatProperties
<1> QED BY <1>3, <1>4 DEF Segment, StopPath

(* PathDecider takes an alternative that is there.                         *)
LEMMA ChoiceIsThere ==
  ASSUME NEW old, NEW new, NEW target, NEW clearer
  PROVE  /\ Choice(old, new, target, clearer) \in {"history", "new", "none"}
         /\ Choice(old, new, target, clearer) = "history" => Matched(old)
         /\ Choice(old, new, target, clearer) = "new" => Matched(new)
<1> DEFINE choice == Choice(old, new, target, clearer)
<1>1. CASE Matched(old) /\ Matched(new)
  <2>1. choice = PathDecider(old, new, target, clearer)
    BY <1>1 DEF Choice
  <2>2. PathDecider(old, new, target, clearer) \in {"history", "new", "none"}
    BY DEF PathDecider
  <2> QED BY <1>1, <2>1, <2>2
<1>2. CASE Matched(old) /\ ~Matched(new)
  <2>1. choice = Only(old, "history")
    BY <1>2 DEF Choice
  <2> QED BY <1>2, <2>1 DEF Only
<1>3. CASE ~Matched(old) /\ Matched(new)
  <2>1. choice = Only(new, "new")
    BY <1>3 DEF Choice
  <2> QED BY <1>3, <2>1 DEF Only
<1>4. CASE ~Matched(old) /\ ~Matched(new)
  <2>1. choice = "none"
    BY <1>4 DEF Choice
  <2> QED BY <2>1
<1> QED BY <1>1, <1>2, <1>3, <1>4

(* What a verdict is: the history led on, a new path, or a stop.           *)
LEMMA VerdictIs ==
  ASSUME history \in History, NEW frame, NEW replan,
         NEW verdict \in Verdicts(frame, replan)
  PROVE  \/ /\ verdict.decision = "CHOOSE_HISTORY_PATH"
            /\ verdict.path \in Paths
            /\ verdict.path.segments = history.segments
            /\ NotBefore(history, verdict.path)
            /\ verdict.path.path_idx # history.path_idx => frame.standing
         \/ /\ verdict.decision = "CHOOSE_NEW_PATH"
            /\ verdict.path \in Paths
         \/ /\ verdict.decision = "NO_VALID_PATH"
            /\ Segment(verdict.path).gear = pub_gear
<1>1. PICK old \in HistoryAlternatives(frame, replan), new \in NewAlternatives(frame),
           target \in BOOLEAN, clearer \in BOOLEAN :
        verdict = Verdict(old, new, target, clearer)
  BY DEF Verdicts
<1> DEFINE choice == Choice(old, new, target, clearer)
           front  == IF Matched(old) THEN old ELSE new
<1>2. CASE choice = "history"
  <2>1. verdict.decision = "CHOOSE_HISTORY_PATH" /\ verdict.path = old.path
    BY <1>1, <1>2 DEF Verdict
  <2>2. Matched(old)
    BY <1>2, ChoiceIsThere
  <2> QED BY <2>1, <2>2, HistoryFollows
<1>3. CASE choice = "new"
  <2>1. verdict.decision = "CHOOSE_NEW_PATH" /\ verdict.path = new.path
    BY <1>1, <1>3 DEF Verdict
  <2>2. Matched(new)
    BY <1>3, ChoiceIsThere
  <2> QED BY <2>1, <2>2, NewIsAPath
<1>4. CASE choice = "none"
  <2>1. verdict.decision = "NO_VALID_PATH" /\ verdict.path = StopPath(pub_gear, front.path)
    BY <1>1, <1>4 DEF Verdict
  <2>2. front.path \in History
    BY HistoryFollows, NewIsAPath DEF History, Matched
  <2> QED BY <2>1, <2>2, StopPathGear
<1> QED BY <1>2, <1>3, <1>4, ChoiceIsThere

-----------------------------------------------------------------------------
(* Types. *)

LEMMA FramesTyped ==
  ASSUME TypeOK, NEW frame \in Frames
  PROVE  frame \in [standing : BOOLEAN, gear : Gears \cup {"N"}, warm : BOOLEAN,
                    near_end : Nat, yaw : Nat, frozen : Nat]
<1>1. PICK standing \in BOOLEAN, stopped \in BOOLEAN, gear \in Gears \cup {"N"},
           tick \in 0 .. MaxTick : frame = UpdateParam(standing, gear, stopped, tick)
  BY DEF Frames
<1>2. {MaxTick, ColdStart, WarmStart, YawReplan, LongTime} \subseteq Nat
  BY PartitionAssumption
<1>3. /\ AtMost(ColdStart + WarmStart + 1, age.near_end + tick) \in Nat
      /\ AtMost(YawReplan, age.yaw + tick) \in Nat
      /\ AtMost(LongTime, age.frozen + tick) \in Nat
  BY <1>2 DEF AtMost, TypeOK
<1>4. ((warm /\ gear = pub_gear) \/ ~standing) \in BOOLEAN
  OBVIOUS
<1> QED BY <1>1, <1>3, <1>4 DEF UpdateParam

LEMMA GearShiftTyped ==
  ASSUME TypeOK, NEW gear \in Gears \cup {"N"}
  PROVE  GearShift(gear) \in [gear : Gears, count : 0 .. MaxShifts]
<1>1. MaxShifts \in Nat
  BY PartitionAssumption
<1>2. AtMost(MaxShifts, gear_shift.count + 1) \in 0 .. MaxShifts
  BY <1>1 DEF AtMost, TypeOK
<1> QED BY <1>2 DEF GearShift, TypeOK, Gears, Moving

LEMMA PublishTyped ==
  ASSUME TypeOK, NEW frame \in Frames, NEW decision \in Decisions, NEW path, NEW yaw,
         Segment(path).gear \in Gears, Publish(frame, decision, path, yaw)
  PROVE  /\ warm' \in BOOLEAN /\ moved' \in BOOLEAN
         /\ gear_shift' \in [gear : Gears, count : 0 .. MaxShifts]
         /\ age' \in [near_end : Nat, yaw : Nat, frozen : Nat]
         /\ pub_gear' \in Gears
         /\ out' \in [decision : Decisions \cup {"none"}, gear : Gears, standing : BOOLEAN]
<1>1. frame \in [standing : BOOLEAN, gear : Gears \cup {"N"}, warm : BOOLEAN,
                 near_end : Nat, yaw : Nat, frozen : Nat]
  BY FramesTyped
<1>2. warm' \in BOOLEAN /\ moved' \in BOOLEAN
  BY <1>1 DEF Publish
<1>3. gear_shift' \in [gear : Gears, count : 0 .. MaxShifts]
  BY <1>1, GearShiftTyped DEF Publish
<1>4. age' \in [near_end : Nat, yaw : Nat, frozen : Nat]
  <2>1. PICK rest \in (IF AtTail(path) THEN {FALSE} ELSE BOOLEAN) :
          age' = [near_end |-> IF rest THEN 0 ELSE frame.near_end,
                  yaw |-> IF yaw THEN frame.yaw ELSE 0, frozen |-> frame.frozen]
    BY DEF Publish
  <2> QED BY <1>1, <2>1
<1>5. pub_gear' \in Gears
  BY DEF Publish
<1>6. out' \in [decision : Decisions \cup {"none"}, gear : Gears, standing : BOOLEAN]
  BY <1>1 DEF Publish
<1> QED BY <1>2, <1>3, <1>4, <1>5, <1>6

LEMMA PublishSays ==
  ASSUME NEW frame, NEW decision, NEW path, NEW yaw, Publish(frame, decision, path, yaw)
  PROVE  /\ out'.decision = decision
         /\ out'.standing = frame.standing
         /\ out'.gear = Segment(path).gear
  BY DEF Publish

LEMMA PathGears ==
  ASSUME TypeOK, NEW frame, NEW replan, NEW verdict \in Verdicts(frame, replan)
  PROVE  Segment(verdict.path).gear \in Gears
<1>1. history \in History
  BY DEF TypeOK, History
<1>2. verdict.path \in Paths \/ Segment(verdict.path).gear = pub_gear
  BY <1>1, VerdictIs
<1> QED BY <1>2, PathsTyped DEF TypeOK, Gears

LEMMA TypeInit == Init => TypeOK
<1> SUFFICES ASSUME Init PROVE TypeOK
  OBVIOUS
<1>1. MaxShifts \in Nat
  BY PartitionAssumption
<1>2. history \in Paths \cup {NoPath}
  BY DEF Init
<1>3. {warm, reached, braked, moved} \subseteq BOOLEAN
  BY DEF Init
<1>4. gear_shift \in [gear : Gears, count : 0 .. MaxShifts]
  BY <1>1 DEF Init, Gears
<1>5. /\ age \in [near_end : Nat, yaw : Nat, frozen : Nat]
      /\ pub_gear \in Gears
      /\ out \in [decision : Decisions \cup {"none"}, gear : Gears, standing : BOOLEAN]
  BY DEF Init, NoAge, NoOutput, Gears
<1> QED BY <1>2, <1>3, <1>4, <1>5 DEF TypeOK

LEMMA ResetTyped == Reset => TypeOK'
<1> SUFFICES ASSUME Reset PROVE TypeOK'
  OBVIOUS
<1>1. MaxShifts \in Nat
  BY PartitionAssumption
<1>2. history' \in Paths \cup {NoPath}
  BY DEF Reset
<1>3. {warm, reached, braked, moved}' \subseteq BOOLEAN
  BY DEF Reset
<1>4. gear_shift' \in [gear : Gears, count : 0 .. MaxShifts]
  BY <1>1 DEF Reset, Gears
<1>5. /\ age' \in [near_end : Nat, yaw : Nat, frozen : Nat]
      /\ pub_gear' \in Gears
      /\ out' \in [decision : Decisions \cup {"none"}, gear : Gears, standing : BOOLEAN]
  BY DEF Reset, NoAge, NoOutput, Gears
<1> QED BY <1>2, <1>3, <1>4, <1>5 DEF TypeOK

LEMMA TypeStep == TypeOK /\ [Next]_vars => TypeOK'
<1> SUFFICES ASSUME TypeOK, [Next]_vars PROVE TypeOK'
  OBVIOUS
<1>1. CASE Execute
  <2>1. PICK frame \in Frames, replan \in BOOLEAN :
          \E verdict \in Verdicts(frame, replan) :
            \E status \in FinishStatuses(verdict.path, frame) :
              Decide(frame, verdict, status)
    BY <1>1 DEF Execute
  <2>2. PICK verdict \in Verdicts(frame, replan) :
          \E status \in FinishStatuses(verdict.path, frame) :
            Decide(frame, verdict, status)
    BY <2>1
  <2>3. PICK status \in FinishStatuses(verdict.path, frame) :
          Decide(frame, verdict, status)
    BY <2>2
  <2>4. Segment(verdict.path).gear \in Gears
    BY PathGears
  <2>5. CASE TaskFinish(frame, status)
    <3>1. Publish(frame, "TASK_FINISH", StopPath("P", NoPath), FALSE)
      BY <2>5 DEF TaskFinish
    <3>2. "TASK_FINISH" \in Decisions /\ Segment(StopPath("P", NoPath)).gear \in Gears
      BY StopsInParking DEF Decisions, Gears
    <3>3. reached' \in BOOLEAN /\ braked' \in BOOLEAN /\ history' = history
      BY <2>5 DEF TaskFinish
    <3> QED BY <3>1, <3>2, <3>3, PublishTyped DEF TypeOK
  <2>6. CASE PrepareFinish(frame, verdict)
    <3>1. Publish(frame, "PREPARE_FINISH", verdict.path, FALSE)
      BY <2>6 DEF PrepareFinish
    <3>2. "PREPARE_FINISH" \in Decisions
      BY DEF Decisions
    <3>3. reached' = reached /\ braked' = TRUE /\ history' = history
      BY <2>6 DEF PrepareFinish
    <3> QED BY <2>4, <3>1, <3>2, <3>3, PublishTyped DEF TypeOK
  <2>7. CASE NoValidPath(frame, verdict)
    <3>1. Publish(frame, "NO_VALID_PATH", verdict.path, verdict.yaw)
      BY <2>7 DEF NoValidPath
    <3>2. "NO_VALID_PATH" \in Decisions
      BY DEF Decisions
    <3>3. reached' = reached /\ braked' = braked /\ history' = history
      BY <2>7 DEF NoValidPath
    <3> QED BY <2>4, <3>1, <3>2, <3>3, PublishTyped DEF TypeOK
  <2>8. CASE Follow(frame, verdict)
    <3>1. Publish(frame, verdict.decision, verdict.path, FALSE)
      BY <2>8 DEF Follow
    <3>2. verdict.decision \in Decisions /\ history' \in Paths
      <4>1. history \in History
        BY DEF TypeOK, History
      <4> QED BY <2>8, <4>1, VerdictIs DEF Follow, Decisions
    <3>3. reached' = reached /\ braked' = braked
      BY <2>8 DEF Follow
    <3> QED BY <2>4, <3>1, <3>2, <3>3, PublishTyped DEF TypeOK
  <2>9. CASE Reset
    BY <2>9, ResetTyped
  <2> QED BY <2>3, <2>5, <2>6, <2>7, <2>8, <2>9 DEF Decide
<1>2. CASE DirectControl
  BY <1>2 DEF DirectControl, TypeOK, Gears
<1>3. CASE Reset
  BY <1>3, ResetTyped
<1>4. CASE UNCHANGED vars
  BY <1>4 DEF vars, TypeOK
<1> QED BY <1>1, <1>2, <1>3, <1>4 DEF Next

(* The place on the path is a place of a route, and what is published is   *)
(* a gear, for every set of routes.                                        *)
THEOREM TypeCorrect == Spec => []TypeOK
  BY TypeInit, TypeStep, PTL DEF Spec

(* A vehicle that keeps its path never goes back on it, skips no segment,  *)
(* and changes to the next one only while it stands.                       *)
THEOREM PathIsFollowedHolds == Spec => PathIsFollowed
<1> DEFINE Followed ==
      out' # out /\ out'.decision = "CHOOSE_HISTORY_PATH" =>
        /\ history'.segments = history.segments
        /\ NotBefore(history, history')
        /\ history'.path_idx # history.path_idx => out'.standing
        /\ out'.gear = Segment(history').gear
<1>1. TypeOK /\ [Next]_vars => [Followed]_vars
  <2> SUFFICES ASSUME TypeOK, Next, out' # out, out'.decision = "CHOOSE_HISTORY_PATH"
               PROVE  Followed
    OBVIOUS
  <2>1. Execute
    BY DEF Next, DirectControl, Reset, NoOutput
  <2>2. PICK frame \in Frames, replan \in BOOLEAN :
          \E verdict \in Verdicts(frame, replan) :
            \E status \in FinishStatuses(verdict.path, frame) :
              Decide(frame, verdict, status)
    BY <2>1 DEF Execute
  <2>3. PICK verdict \in Verdicts(frame, replan) :
          \E status \in FinishStatuses(verdict.path, frame) :
            Decide(frame, verdict, status)
    BY <2>2
  <2>4. PICK status \in FinishStatuses(verdict.path, frame) :
          Decide(frame, verdict, status)
    BY <2>3
  <2>5. Follow(frame, verdict) /\ verdict.decision = "CHOOSE_HISTORY_PATH"
    <3>1. \/ TaskFinish(frame, status) \/ PrepareFinish(frame, verdict) \/ Reset
          \/ NoValidPath(frame, verdict) \/ Follow(frame, verdict)
      BY <2>4 DEF Decide
    <3>2. ~Reset
      BY DEF Reset, NoOutput
    <3>3. ~TaskFinish(frame, status)
      <4>1. TaskFinish(frame, status) =>
              Publish(frame, "TASK_FINISH", StopPath("P", NoPath), FALSE)
        BY DEF TaskFinish
      <4>2. Publish(frame, "TASK_FINISH", StopPath("P", NoPath), FALSE) =>
              out'.decision = "TASK_FINISH"
        BY PublishSays
      <4> QED BY <4>1, <4>2
    <3>4. ~PrepareFinish(frame, verdict)
      <4>1. PrepareFinish(frame, verdict) =>
              Publish(frame, "PREPARE_FINISH", verdict.path, FALSE)
        BY DEF PrepareFinish
      <4>2. Publish(frame, "PREPARE_FINISH", verdict.path, FALSE) =>
              out'.decision = "PREPARE_FINISH"
        BY PublishSays
      <4> QED BY <4>1, <4>2
    <3>5. ~NoValidPath(frame, verdict)
      BY PublishSays DEF NoValidPath
    <3>6. Follow(frame, verdict)
      BY <3>1, <3>2, <3>3, <3>4, <3>5
    <3> QED BY <3>6, PublishSays DEF Follow
  <2>6. history \in History
    BY DEF TypeOK, History
  <2>7. /\ verdict.path.segments = history.segments
        /\ NotBefore(history, verdict.path)
        /\ verdict.path.path_idx # history.path_idx => frame.standing
    BY <2>5, <2>6, VerdictIs
  <2>8. history' = verdict.path
    BY <2>5 DEF Follow
  <2>9. out'.standing = frame.standing /\ out'.gear = Segment(verdict.path).gear
    BY <2>5, PublishSays DEF Follow
  <2>10. Segment(history') = Segment(verdict.path)
    BY <2>8
  <2> QED BY <2>7, <2>8, <2>9, <2>10
<1> QED BY TypeInit, TypeStep, <1>1, PTL DEF Spec, PathIsFollowed

=============================================================================
