----------------------- MODULE StageParkingAdapterProofs -----------------------
(***************************************************************************)
(* What holds of StageParkingAdapter for every number of required frames.  *)
(* A frame computes its new runtime in several steps (the command's reset, *)
(* the end of a direct command, the tasks), so the inductive invariant is  *)
(* stated of any runtime and the history that goes with it, and each step  *)
(* is shown to keep it.                                                    *)
(*                                                                         *)
(* The reports of StageReport are made by frames of StageParkingAdapter,   *)
(* and true of what these leave.  Each branch is shown to make a true one  *)
(* from any state of the stage; between frames neither changes.            *)
(***************************************************************************)
EXTENDS StageReport, TLAPS

History == [ready : 0 .. RequiredFrames, takenOver : BOOLEAN, finishCommand : BOOLEAN]

(* What is remembered fits together; a speed plan of the straight path is  *)
(* only there while the direct command is, or another command took over.   *)
MemoryFits(state, kept) ==
  /\ state.last_speed_frame = "ordinary" => state.has_history
  /\ state.consecutive_ready_frames > 0 => state.has_history
  /\ state.replan => state.last_speed_frame # "none"
  /\ state.last_speed_frame = "direct" =>
       state.direct_command # "none" \/ kept.takenOver

(* The counter of the code counts what the history saw, and the latch was  *)
(* set by a FINISH or at a full count.                                     *)
FinishFits(state, kept) ==
  /\ state.consecutive_ready_frames = kept.ready
  /\ state.stage_exit_requested =>
       kept.finishCommand \/ kept.ready = RequiredFrames

Fits(state, kept) ==
  /\ state \in Runtime
  /\ kept \in History
  /\ MemoryFits(state, kept)
  /\ FinishFits(state, kept)

IInv == TypeOK /\ Fits(runtime, since) /\ DirectLeavesNoTrace

-----------------------------------------------------------------------------

(* A reset leaves a runtime that fits an empty history (ResetPlanningState). *)
LEMMA ResetFits == Fits(ResetPlanningState, Nothing)
  BY StageAssumption
     DEF Fits, MemoryFits, FinishFits, ResetPlanningState, NewRuntime, Nothing,
         Runtime, History

(* So does what a command leaves before the frame is dispatched.           *)
LEMMA BegunFits ==
  ASSUME IInv, NEW command \in Commands
  PROVE  Fits(Begun(command), Kept(command))
  BY ResetFits DEF IInv, Begun, Kept

LEMMA ReleasedFits ==
  ASSUME IInv, NEW command \in Commands
  PROVE  Fits(Released(command), Left(command))
<1>1. CASE command = NoCommand
  <2>1. Left(command) = since
    BY <1>1 DEF Left, Kept, NoCommand, IInv, Fits, History
  <2> QED BY <1>1, <2>1 DEF Released, IInv
<1>2. CASE command # NoCommand
  <2> DEFINE begun == Begun(command)
             kept  == Kept(command)
  <2>1. Fits(begun, kept)
    BY BegunFits
  <2>2. Released(command) = [begun EXCEPT !.direct_command = "none"]
    BY <1>2 DEF Released
  <2>3. Left(command) = [kept EXCEPT !.takenOver =
                           kept.takenOver \/ begun.direct_command # "none"]
    BY <1>2 DEF Left
  <2> HIDE DEF begun, kept
  <2>4. Released(command) \in Runtime /\ Left(command) \in History
    BY <2>1, <2>2, <2>3 DEF Fits, Runtime, History
  <2>5. MemoryFits(Released(command), Left(command))
    BY <2>1, <2>2, <2>3 DEF Fits, MemoryFits, Runtime, History
  <2>6. FinishFits(Released(command), Left(command))
    BY <2>1, <2>2, <2>3 DEF Fits, FinishFits, Runtime, History
  <2> QED BY <2>4, <2>5, <2>6 DEF Fits
<1> QED BY <1>1, <1>2

(* The two ways a frame ends with a path keep the fit: of a direct frame   *)
(* while its command is active, of an ordinary one with its path.          *)
LEMMA SpeedFrameFits ==
  ASSUME NEW state, NEW kept, Fits(state, kept), NEW replan \in BOOLEAN,
         NEW planner \in {"ordinary", "direct"},
         planner = "ordinary" => state.has_history,
         planner = "direct" => state.direct_command # "none"
  PROVE  /\ Fits(UpdateAfterSpeedOptimizer(state, planner, replan), kept)
         /\ Fits(UpdateAfterPartitionFallback(state), kept)
  BY DEF Fits, MemoryFits, FinishFits, Runtime,
         UpdateAfterSpeedOptimizer, UpdateAfterPartitionFallback

(* One more ready frame, or the start over, stays within the bound.        *)
LEMMA ReadyFramesBounded ==
  ASSUME NEW count \in 0 .. RequiredFrames, NEW ready \in BOOLEAN
  PROVE  /\ ReadyFrames(count, ready) \in 0 .. RequiredFrames
         /\ ReadyFrames(count, ready) = IF ready THEN AddFrame(count) ELSE 0
  BY StageAssumption DEF ReadyFrames, AddFrame

-----------------------------------------------------------------------------

LEMMA InitInv == Init => IInv
<1> SUFFICES ASSUME Init PROVE IInv
  OBVIOUS
<1>1. Fits(runtime, since)
  BY ResetFits DEF Init, ResetPlanningState
<1>2. TypeOK
  BY <1>1 DEF Init, TypeOK, Fits, History, Kinds
<1>3. DirectLeavesNoTrace
  BY DEF Init, DirectLeavesNoTrace
<1> QED BY <1>1, <1>2, <1>3 DEF IInv

(* Every branch that publishes without a speed plan of the ordinary        *)
(* planner has nothing to show for DirectLeavesNoTrace.                    *)
LEMMA PublishedWell ==
  ASSUME NEW kind \in Kinds, Publish(kind, "none")
  PROVE  /\ output' \in [kind : Kinds, seed : {"none", "ordinary", "direct"}]
         /\ output'.seed = "none"
  BY DEF Publish

LEMMA ResetStep ==
  ASSUME IInv, Reset, NEW kind \in Kinds, Publish(kind, "none"),
         over' \in BOOLEAN, UNCHANGED vehicle
  PROVE  IInv'
<1>1. Fits(runtime', since')
  BY ResetFits DEF Reset
<1>2. TypeOK'
  BY <1>1, PublishedWell DEF IInv, TypeOK, Fits, History
<1>3. DirectLeavesNoTrace'
  BY PublishedWell DEF DirectLeavesNoTrace
<1> QED BY <1>1, <1>2, <1>3 DEF IInv, Fits, MemoryFits, FinishFits

(* The frames of a direct command.                                         *)
LEMMA DirectStep ==
  ASSUME IInv, NEW command \in Commands,
         DirectControl(command) \/ DirectPathFails(command)
  PROVE  IInv'
<1>1. CASE DirectPathFails(command)
  <2>1. "stop" \in Kinds /\ over' \in BOOLEAN
    BY <1>1 DEF DirectPathFails, Kinds
  <2> QED BY <1>1, <2>1, ResetStep DEF DirectPathFails
<1>2. CASE DirectControl(command)
  <2> DEFINE begun == Begun(command)
             kept  == Kept(command)
             state == [begun EXCEPT !.direct_command = command.mode]
  <2>1. Fits(begun, kept)
    BY BegunFits
  <2>2. command.mode \in DirectModes /\ command.mode # "none"
    BY <1>2 DEF DirectControl, DirectModes
  <2> HIDE DEF begun, kept
  <2>3. Fits(state, kept) /\ state.direct_command # "none"
    BY <2>1, <2>2 DEF Fits, MemoryFits, FinishFits, Runtime
  <2>4. since' = kept /\ over' = FALSE /\ vehicle' = vehicle
    BY <1>2 DEF DirectControl, kept
  <2>5. /\ \/ \E replan \in BOOLEAN :
                runtime' = UpdateAfterSpeedOptimizer(state, "direct", replan)
           \/ runtime' = UpdateAfterPartitionFallback(state)
        /\ \E kind \in {"direct", "stop"} :
             Publish(kind, state.last_speed_frame) \/ Publish(kind, "none")
    BY <1>2 DEF DirectControl, begun
  <2> HIDE DEF state
  <2>6. Fits(runtime', since')
    BY <2>3, <2>4, <2>5, SpeedFrameFits
  <2>7. /\ output' \in [kind : Kinds, seed : {"none", "ordinary", "direct"}]
        /\ output'.kind \notin PlannedKinds
    <3>1. state.last_speed_frame \in {"none", "ordinary", "direct"}
      BY <2>3 DEF Fits, Runtime
    <3> QED BY <2>5, <3>1 DEF Publish, Kinds, PlannedKinds
  <2> QED BY <2>4, <2>6, <2>7 DEF IInv, TypeOK, DirectLeavesNoTrace, Fits,
             MemoryFits, FinishFits, History
<1> QED BY <1>1, <1>2

(* The frames of a command that only stops, and of a held finish.          *)
LEMMA StopStep ==
  ASSUME IInv, NEW command \in Commands,
         \/ StageControlStop(command) \/ UnsupportedParkingOut(command)
         \/ FinishHold(command)
  PROVE  IInv'
<1> DEFINE state == Released(command)
           kept  == Left(command)
           finish == StageControlStop(command) /\ command.mode = "finish"
<1>1. Fits(state, kept)
  BY ReleasedFits
<1>2. /\ runtime' = [state EXCEPT !.stage_exit_requested = @ \/ finish]
      /\ since' = [kept EXCEPT !.finishCommand = @ \/ finish]
      /\ over' \in BOOLEAN
      /\ UNCHANGED vehicle
      /\ Publish("stop", "none")
  <2> HIDE DEF state, kept
  <2>1. state = [state EXCEPT !.stage_exit_requested = @ \/ FALSE]
    BY <1>1 DEF Fits, Runtime
  <2>2. kept = [kept EXCEPT !.finishCommand = @ \/ FALSE]
    BY <1>1 DEF Fits, History
  <2>3. CASE StageControlStop(command)
    BY <2>3 DEF StageControlStop, state, kept, OverAfter
  <2>4. CASE UnsupportedParkingOut(command)
    <3>1. ~finish
      BY <2>4 DEF UnsupportedParkingOut, OutModes
    <3> QED BY <2>1, <2>2, <2>4, <3>1
            DEF UnsupportedParkingOut, state, kept, OverAfter
  <2>5. CASE FinishHold(command)
    <3>1. ~finish
      BY <2>5 DEF FinishHold, NotDirect, Planning
    <3> QED BY <2>1, <2>2, <2>5, <3>1
            DEF FinishHold, state, kept, IInv, TypeOK
  <2> QED BY <2>3, <2>4, <2>5
<1> HIDE DEF state, kept
<1>3. finish \in BOOLEAN
  OBVIOUS
<1> HIDE DEF finish
<1>4. Fits(runtime', since')
  BY <1>1, <1>2, <1>3 DEF Fits, MemoryFits, FinishFits, Runtime, History
<1>5. /\ output' \in [kind : Kinds, seed : {"none", "ordinary", "direct"}]
      /\ output'.seed = "none"
  BY <1>2, PublishedWell DEF Kinds
<1> QED BY <1>2, <1>4, <1>5 DEF IInv, TypeOK, DirectLeavesNoTrace, Fits, History

(* The frames that end with a reset, and a direct command's release.       *)
LEMMA GiveUpStep ==
  ASSUME IInv, NEW command \in Commands,
         \/ InvalidSample(command) \/ DirectRelease(command)
         \/ UnfitLot(command) \/ ProviderFails(command) \/ PartitionFails(command)
  PROVE  IInv'
<1>1. CASE DirectRelease(command)
  <2>1. "stop" \in Kinds /\ over' \in BOOLEAN
    BY <1>1 DEF DirectRelease, Kinds, IInv, TypeOK
  <2>2. CASE Reset
    BY <1>1, <2>1, <2>2, ResetStep DEF DirectRelease
  <2>3. CASE UNCHANGED <<runtime, since>>
    <3>1. /\ output' \in [kind : Kinds, seed : {"none", "ordinary", "direct"}]
          /\ output'.seed = "none"
      BY <1>1, <2>1, PublishedWell DEF DirectRelease
    <3> QED BY <1>1, <2>1, <2>3, <3>1
            DEF DirectRelease, IInv, TypeOK, DirectLeavesNoTrace, Fits,
                MemoryFits, FinishFits, History
  <2> QED BY <1>1, <2>2, <2>3 DEF DirectRelease
<1>2. CASE ~DirectRelease(command)
  <2>1. PICK kind \in Kinds : GiveUp(command, kind)
    BY <1>2 DEF InvalidSample, UnfitLot, ProviderFails, PartitionFails, Kinds,
                PlannedKinds
  <2>2. over' \in BOOLEAN
    BY <2>1 DEF GiveUp, OverAfter
  <2> QED BY <2>1, <2>2, ResetStep DEF GiveUp
<1> QED BY <1>1, <1>2

(* The frames that plan to the end.                                        *)
LEMMA PlannedStep ==
  ASSUME IInv, NEW command \in Commands, Planned(command)
  PROVE  IInv'
<1> DEFINE begun == Released(command)
           kept  == Left(command)
<1>1. Fits(begun, kept) /\ begun.direct_command = "none"
  BY ReleasedFits DEF Planned, Plans, NotDirect
<1>2. begun.stage_exit_requested = FALSE
  BY <1>1 DEF Planned, Plans, Fits, Runtime
<1>3. PICK reached \in BOOLEAN :
        LET ready  == reached /\ Standing
            count  == ReadyFrames(begun.consecutive_ready_frames, ready)
            finish == count >= RequiredFrames
            state  == [begun EXCEPT !.has_history = TRUE,
                                    !.consecutive_ready_frames = count,
                                    !.stage_exit_requested = finish]
        IN  /\ \/ /\ \E replan \in BOOLEAN :
                       runtime' = UpdateAfterSpeedOptimizer(state, "ordinary", replan)
                  /\ Publish("trajectory", begun.last_speed_frame)
               \/ /\ runtime' = UpdateAfterPartitionFallback(state)
                  /\ Publish("partition_path", "none")
            /\ since' = [kept EXCEPT !.ready = IF ready THEN AddFrame(@) ELSE 0]
            /\ over' = (OverAfter(command) \/ finish)
  BY DEF Planned
<1> DEFINE ready  == reached /\ Standing
           count  == ReadyFrames(begun.consecutive_ready_frames, ready)
           finish == count >= RequiredFrames
           state  == [begun EXCEPT !.has_history = TRUE,
                                   !.consecutive_ready_frames = count,
                                   !.stage_exit_requested = finish]
           next   == [kept EXCEPT !.ready = count]
<1>4. ready \in BOOLEAN /\ finish \in BOOLEAN /\ over' \in BOOLEAN
  BY <1>3 DEF OverAfter, Standing
<1>5. vehicle' = vehicle
  BY DEF Planned
<1>6. begun.consecutive_ready_frames \in 0 .. RequiredFrames
  BY <1>1 DEF Fits, Runtime
<1>7. /\ count \in 0 .. RequiredFrames
      /\ count = IF ready THEN AddFrame(begun.consecutive_ready_frames) ELSE 0
  BY <1>4, <1>6, ReadyFramesBounded
<1>8. kept.ready = begun.consecutive_ready_frames
  BY <1>1 DEF Fits, FinishFits
<1>9. since' = next
  BY <1>3, <1>7, <1>8
<1>10. finish => count = RequiredFrames
  BY <1>7, StageAssumption
<1>11. /\ \/ \E replan \in BOOLEAN :
               runtime' = UpdateAfterSpeedOptimizer(state, "ordinary", replan)
          \/ runtime' = UpdateAfterPartitionFallback(state)
       /\ \E kind \in {"trajectory", "partition_path"} :
            Publish(kind, begun.last_speed_frame) \/ Publish(kind, "none")
  BY <1>3
<1> HIDE DEF begun, kept, count, finish
<1>12. Fits(state, next) /\ state.has_history
  <2>1. state \in Runtime /\ next \in History /\ state.has_history
    BY <1>1, <1>4, <1>7 DEF Fits, Runtime, History
  <2>2. MemoryFits(state, next)
    BY <1>1 DEF Fits, MemoryFits, Runtime, History
  <2>3. FinishFits(state, next)
    BY <1>1, <1>10 DEF Fits, FinishFits, Runtime, History
  <2> QED BY <2>1, <2>2, <2>3 DEF Fits
<1>13. begun.last_speed_frame = "direct" => next.takenOver
  BY <1>1 DEF Fits, MemoryFits, History
<1>14. begun.last_speed_frame \in {"none", "ordinary", "direct"}
  BY <1>1 DEF Fits, Runtime
<1> HIDE DEF state, next
<1>15. Fits(runtime', since')
  BY <1>9, <1>11, <1>12, SpeedFrameFits
<1>16. /\ output' \in [kind : Kinds, seed : {"none", "ordinary", "direct"}]
       /\ output'.seed = "direct" => since'.takenOver
  BY <1>9, <1>11, <1>13, <1>14 DEF Publish, Kinds, PlannedKinds
<1> QED BY <1>4, <1>5, <1>15, <1>16
        DEF IInv, TypeOK, DirectLeavesNoTrace, Fits, History

LEMMA VehicleStep ==
  ASSUME IInv, UpdateVehicleState \/ ClearVehicleState \/ UNCHANGED vars
  PROVE  IInv'
<1>1. UNCHANGED <<runtime, output, since, over>>
  BY DEF UpdateVehicleState, ClearVehicleState, vars
<1>2. vehicle' \in {"unknown", "moving", "standing"}
  BY DEF UpdateVehicleState, ClearVehicleState, vars, IInv, TypeOK
<1>3. TypeOK'
  BY <1>1, <1>2 DEF IInv, TypeOK
<1>4. Fits(runtime', since')
  BY <1>1 DEF IInv
<1>5. DirectLeavesNoTrace'
  BY <1>1 DEF IInv, DirectLeavesNoTrace
<1> QED BY <1>3, <1>4, <1>5 DEF IInv, Fits, MemoryFits, FinishFits

LEMMA NextInv == IInv /\ [Next]_vars => IInv'
<1> SUFFICES ASSUME IInv, [Next]_vars PROVE IInv'
  OBVIOUS
<1>1. ASSUME NEW command \in Commands, Process(command) PROVE IInv'
  BY <1>1, DirectStep, StopStep, GiveUpStep, PlannedStep DEF Process
<1> QED BY <1>1, VehicleStep DEF Next

LEMMA Invariance == Spec => []IInv
  BY InitInv, NextInv, PTL DEF Spec

-----------------------------------------------------------------------------

(* Every variable keeps its type, for every RequiredFrames.                *)
THEOREM StageIsWellTyped == Spec => []TypeOK
<1>1. IInv => TypeOK
  BY DEF IInv
<1> QED BY <1>1, Invariance, PTL

(* No frame finds half of a planning state: speed plan, finish counter and *)
(* replan request are only kept together with what they belong to          *)
(* (ResetPlanningState).                                                   *)
THEOREM MemoryStaysConsistent == Spec => []MemoryIsConsistent
<1>1. IInv => MemoryIsConsistent
  BY DEF IInv, Fits, MemoryFits, MemoryIsConsistent
<1> QED BY <1>1, Invariance, PTL

(* A direct command that was withdrawn leaves nothing the ordinary planner *)
(* goes on from (the release branch of Process).                           *)
THEOREM WithdrawnDirectLeavesNothing == Spec => []DirectLeavesNoTrace
<1>1. IInv => DirectLeavesNoTrace
  BY DEF IInv
<1> QED BY <1>1, Invariance, PTL

(* The stage only finishes on FINISH or after RequiredFrames ready frames  *)
(* in a row, whatever RequiredFrames is (UpdateStageFinishEvaluation).     *)
THEOREM FinishesAreEarned == Spec => []FinishIsEarned
<1>1. IInv => FinishIsEarned
  BY DEF IInv, Fits, FinishFits, FinishIsEarned
<1> QED BY <1>1, Invariance, PTL

-----------------------------------------------------------------------------
(* The reports *)

(* The stage does not depend on what it reports: its frames are those of   *)
(* StageParkingAdapter, whose invariants hold.                             *)
THEOREM ReportingStageIsStage == ReportSpec => Spec
<1>1. ReportInit => Init
  BY DEF ReportInit
<1>2. ASSUME [ReportNext]_report_vars PROVE [Next]_vars
  <2>1. ASSUME NEW command \in Commands, ReportProcess(command) PROVE Process(command)
    BY <2>1 DEF ReportProcess, ReportDirectControl, ReportDirectPathFails, ReportStageControlStop,
                ReportParkingOut, ReportEarlyEstop, ReportDirectRelease, ReportFinishHold,
                ReportTaskFails, ReportPlanned, Process
  <2> QED BY <1>2, <2>1 DEF ReportNext, Next, report_vars, vars
<1> QED BY <1>1, <1>2, PTL DEF ReportSpec, Spec

-----------------------------------------------------------------------------
(* One branch after the other *)

\* The state of the stage that the branches start from.
Sound == runtime \in Runtime /\ MemoryFits(runtime, since)

LEMMA CommandsAre ==
  ASSUME NEW command \in Commands
  PROVE  /\ command.mode \in Modes \cup {"null"}
         /\ command.mode = "null" <=> command = NoCommand
         /\ command.reset_history \in BOOLEAN
<1>1. CASE command = NoCommand
  BY <1>1 DEF NoCommand
<1>2. CASE command \in [mode : Modes, reset_history : BOOLEAN]
  <2>1. command.mode \in Modes /\ command.reset_history \in BOOLEAN
    BY <1>2
  <2>2. "null" \notin Modes /\ NoCommand.mode = "null"
    BY DEF NoCommand, Modes, DirectModes, HoldModes, OutModes
  <2> QED BY <2>1, <2>2
<1> QED BY <1>1, <1>2 DEF Commands

\* What a command leaves of the state when the frame begins.
LEMMA BegunIs ==
  ASSUME Sound, NEW command \in Commands
  PROVE  /\ Begun(command) \in Runtime
         /\ Begun(command).last_speed_frame = "ordinary" => Begun(command).has_history
         /\ command.reset_history => Begun(command) = NewRuntime
BY StageAssumption DEF Begun, Sound, MemoryFits, ResetPlanningState, NewRuntime, Runtime

LEMMA ReleasedIs ==
  ASSUME Sound, NEW command \in Commands
  PROVE  /\ Released(command) \in Runtime
         /\ Released(command).has_history = Begun(command).has_history
         /\ Released(command).last_speed_frame = Begun(command).last_speed_frame
         /\ Released(command).stage_exit_requested = Begun(command).stage_exit_requested
         /\ command # NoCommand => Released(command).direct_command = "none"
         /\ command = NoCommand => Released(command) = runtime /\ Begun(command) = runtime
BY BegunIs DEF Released, Begun, NoCommand, Runtime

(* A frame that said it starts parking published from no ordinary speed    *)
(* plan, since there is none without a history.                            *)
LEMMA StartsFresh ==
  ASSUME Sound, NEW command \in Commands, ProjectSysRunState(command) = "PARKSTART"
  PROVE  Released(command).last_speed_frame # "ordinary"
<1>1. ~Begun(command).has_history \/ command.reset_history
  BY CommandsAre DEF ProjectSysRunState, Planning, Modes, DirectModes, HoldModes, OutModes
<1> QED BY <1>1, BegunIs, ReleasedIs DEF NewRuntime

(* A report of one contract, and one of two, is true if its contracts are, *)
(* but for one that a fallback overtakes.                                  *)
LEMMA OneContract ==
  ASSUME NEW c, report'.contracts = <<c>>, ContractIsTrue(c)', StartIsFresh'
  PROVE  ReportIsTrue'
<1>1. \A i \in 1 .. Len(report'.contracts) : report'.contracts[i] = c
  OBVIOUS
<1> QED BY <1>1 DEF ReportIsTrue

LEMMA TwoContracts ==
  ASSUME NEW c, NEW d, report'.contracts = <<c, d>>, StartIsFresh',
         ContractIsTrue(c)' \/ c.mission_state = "DIRECT_CONTROL_ACTIVE",
         ContractIsTrue(d)' \/ d.mission_state = "DIRECT_CONTROL_ACTIVE",
         c.fallback \/ d.fallback
  PROVE  ReportIsTrue'
<1>1. Len(report'.contracts) = 2 /\ report'.contracts[1] = c /\ report'.contracts[2] = d
  OBVIOUS
<1>2. \E i \in 1 .. Len(report'.contracts) : report'.contracts[i].fallback
  BY <1>1
<1>3. \A i \in 1 .. Len(report'.contracts) : report'.contracts[i] \in {c, d}
  BY <1>1
<1>4. ASSUME NEW i \in 1 .. Len(report'.contracts)
      PROVE ContractIsTrue(report.contracts[i])' \/ Overtaken(report.contracts[i])'
  <2>1. CASE report'.contracts[i] = c
    BY <1>2, <2>1 DEF Overtaken
  <2>2. CASE report'.contracts[i] = d
    BY <1>2, <2>2 DEF Overtaken
  <2> QED BY <1>3, <2>1, <2>2
<1> QED BY <1>4 DEF ReportIsTrue

(* The contract of the command, written before the speed plan is made, and *)
(* that of the fallback.                                                   *)
LEMMA DirectReports ==
  ASSUME Sound, NEW command \in Commands, ReportDirectControl(command)
  PROVE  ReportIsTrue'
<1>1. command.mode \in DirectModes
  BY DEF ReportDirectControl, DirectControl
<1>2. SkeletonNextStage(command) = "PARKING" /\ ProjectSysRunState(command) = "PARKING"
  BY <1>1, CommandsAre DEF SkeletonNextStage, FacadeBranch, ProjectSysRunState, DirectModes, HoldModes, OutModes
<1> DEFINE begun == [Begun(command) EXCEPT !.direct_command = command.mode]
<1>3. begun \in Runtime /\ begun.direct_command = command.mode /\ command.mode # "none"
  BY <1>1, BegunIs DEF Runtime, DirectModes
<1>4. /\ runtime' \in Runtime
      /\ runtime'.has_history = begun.has_history
      /\ runtime'.direct_command = command.mode
  BY <1>3 DEF ReportDirectControl, DirectControl, UpdateAfterSpeedOptimizer,
              UpdateAfterPartitionFallback, Runtime
<1>5. CASE runtime'.last_speed_frame = "direct" /\ Report(command, <<DirectContract(command)>>)
  <2>0. PICK c : c = DirectContract(command)
    OBVIOUS
  <2>1. report'.contracts = <<c>> /\ StartIsFresh' /\ report'.skeleton_next_stage = "PARKING"
    BY <1>2, <1>5, <2>0 DEF Report, StartIsFresh
  <2>2. ContractIsTrue(c)'
    BY <1>3, <1>4, <1>5, <2>0, <2>1
       DEF DirectContract, Contract, Lifecycle, ContractIsTrue, LifecycleIsTrue,
           FinishIsAnnounced, ContextAgrees
  <2> QED BY <2>1, <2>2, OneContract
<1>6. ASSUME runtime'.last_speed_frame = "none",
             Report(command, <<Fallback("DIRECT_CONTROL_FALLBACK", "PARKING",
                                        Lifecycle(runtime', "continue", "keep", "clear", "keep")),
                               DirectContract(command)>>)
      PROVE ReportIsTrue'
  <2>0. PICK c, d :
          /\ c = Fallback("DIRECT_CONTROL_FALLBACK", "PARKING",
                          Lifecycle(runtime', "continue", "keep", "clear", "keep"))
          /\ d = DirectContract(command)
    OBVIOUS
  <2>1. /\ report'.contracts = <<c, d>> /\ StartIsFresh'
        /\ report'.skeleton_next_stage = "PARKING"
    BY <1>2, <1>6, <2>0 DEF Report, StartIsFresh
  <2>2. ContractIsTrue(c)'
    BY <1>3, <1>4, <1>6, <2>0, <2>1
       DEF Fallback, Lifecycle, ContractIsTrue, LifecycleIsTrue, FinishIsAnnounced, ContextAgrees
  <2>3. c.fallback /\ d.mission_state = "DIRECT_CONTROL_ACTIVE"
    BY <2>0 DEF Fallback, DirectContract, Contract
  <2> QED BY <2>1, <2>2, <2>3, TwoContracts
<1> QED BY <1>5, <1>6 DEF ReportDirectControl

LEMMA DirectFailureReports ==
  ASSUME NEW command \in Commands, ReportDirectPathFails(command)
  PROVE  ReportIsTrue'
<1>1. command.mode \in DirectModes /\ runtime' = NewRuntime
  BY DEF ReportDirectPathFails, DirectPathFails, Reset, ResetPlanningState
<1>2. SkeletonNextStage(command) = "PARKING" /\ ProjectSysRunState(command) = "PARKING"
  BY <1>1, CommandsAre DEF SkeletonNextStage, FacadeBranch, ProjectSysRunState, DirectModes, HoldModes, OutModes
<1>0. PICK c, d :
        /\ c = DirectContract(command)
        /\ d = Fallback("DIRECT_CONTROL_FALLBACK", "PARKING",
                        Lifecycle([runtime' EXCEPT !.direct_command = command.mode],
                                  "stay", "reset", "clear", "clear"))
  OBVIOUS
<1>3. report'.contracts = <<c, d>> /\ StartIsFresh' /\ report'.skeleton_next_stage = "PARKING"
  BY <1>0, <1>2 DEF ReportDirectPathFails, Report, StartIsFresh
<1>4. ContractIsTrue(d)'
  BY <1>0, <1>1, <1>3
     DEF Fallback, Lifecycle, ContractIsTrue, LifecycleIsTrue, FinishIsAnnounced, ContextAgrees,
         NewRuntime
<1>5. d.fallback /\ c.mission_state = "DIRECT_CONTROL_ACTIVE"
  BY <1>0 DEF Fallback, DirectContract, Contract
<1> QED BY <1>3, <1>4, <1>5, TwoContracts

(* Of a stop the context knows whether it is the one of FINISH.            *)
LEMMA StopReports ==
  ASSUME Sound, NEW command \in Commands, ReportStageControlStop(command)
  PROVE  ReportIsTrue'
<1> DEFINE finish == command.mode = "finish"
<1>1. command.mode \in HoldModes /\ command # NoCommand
  BY CommandsAre DEF ReportStageControlStop, StageControlStop, HoldModes
<1>2. SkeletonNextStage(command) = IF finish THEN "FINISH" ELSE "PARKING"
  BY <1>1, CommandsAre DEF SkeletonNextStage, FacadeBranch, DirectModes, HoldModes
<1>3. ProjectSysRunState(command) # "PARKSTART"
  BY <1>1 DEF ProjectSysRunState, DirectModes, HoldModes, OutModes
<1>4. /\ runtime' \in Runtime /\ runtime'.direct_command = "none"
      /\ finish => runtime'.stage_exit_requested
  BY <1>1, ReleasedIs DEF ReportStageControlStop, StageControlStop, Runtime
<1>0. PICK c : c = Contract(HoldMission(command), IF finish THEN "FINISH" ELSE "PARKING",
                            Lifecycle(runtime', IF finish THEN "latch" ELSE "control",
                                      "keep", "keep", "clear"))
  OBVIOUS
<1>5. /\ report'.contracts = <<c>> /\ StartIsFresh'
      /\ report'.skeleton_next_stage = IF finish THEN "FINISH" ELSE "PARKING"
  BY <1>0, <1>2, <1>3 DEF ReportStageControlStop, Report, StartIsFresh
<1>6. ~finish => HoldMission(command) \in {"MISSION_BRAKING", "MISSION_PAUSED"}
  BY DEF HoldMission
<1>7. CASE finish
  <2>1. ContractIsTrue(c)'
    BY <1>0, <1>4, <1>5, <1>7
       DEF Contract, Lifecycle, ContractIsTrue, LifecycleIsTrue, FinishIsAnnounced, ContextAgrees,
           Runtime
  <2> QED BY <1>5, <2>1, OneContract
<1>8. CASE ~finish
  <2>1. ContractIsTrue(c)'
    BY <1>0, <1>4, <1>5, <1>6, <1>8
       DEF Contract, Lifecycle, ContractIsTrue, LifecycleIsTrue, FinishIsAnnounced, ContextAgrees,
           Runtime
  <2> QED BY <1>5, <2>1, OneContract
<1> QED BY <1>7, <1>8

LEMMA ParkingOutReports ==
  ASSUME Sound, NEW command \in Commands, ReportParkingOut(command)
  PROVE  ReportIsTrue'
<1>1. command.mode \in OutModes /\ command # NoCommand
  BY CommandsAre DEF ReportParkingOut, UnsupportedParkingOut, OutModes
<1>2. SkeletonNextStage(command) = "PARKING" /\ ProjectSysRunState(command) = "PARKOUT"
  BY <1>1, CommandsAre DEF SkeletonNextStage, FacadeBranch, ProjectSysRunState, DirectModes, OutModes
<1>3. runtime' \in Runtime /\ runtime'.direct_command = "none"
  BY <1>1, ReleasedIs DEF ReportParkingOut, UnsupportedParkingOut
<1>0. PICK c : c = Contract("UNSUPPORTED_PARKING_OUT", "PARKING",
                            Lifecycle(runtime', "stay", "keep", "keep", "clear"))
  OBVIOUS
<1>4. report'.contracts = <<c>> /\ StartIsFresh' /\ report'.skeleton_next_stage = "PARKING"
  BY <1>0, <1>2 DEF ReportParkingOut, Report, StartIsFresh
<1>5. ContractIsTrue(c)'
  BY <1>0, <1>3, <1>4
     DEF Contract, Lifecycle, ContractIsTrue, LifecycleIsTrue, FinishIsAnnounced, ContextAgrees,
         Runtime
<1> QED BY <1>4, <1>5, OneContract

(* A frame that gives up has reset the stage when it reports.              *)
LEMMA EarlyEstopReports ==
  ASSUME NEW command \in Commands, ReportEarlyEstop(command)
  PROVE  ReportIsTrue'
<1>1. runtime' = NewRuntime /\ output'.seed = "none"
  BY DEF ReportEarlyEstop, InvalidSample, UnfitLot, GiveUp, Reset, ResetPlanningState, Publish
<1>0. PICK c : c = Fallback("MISSION_ESTOP", "PARKING",
                            Lifecycle(runtime', "stay", "reset", "clear", "clear"))
  OBVIOUS
<1>2. report'.contracts = <<c>> /\ StartIsFresh'
  BY <1>0, <1>1 DEF ReportEarlyEstop, Report, StartIsFresh
<1>3. ContractIsTrue(c)'
  BY <1>0, <1>1
     DEF Fallback, Lifecycle, ContractIsTrue, LifecycleIsTrue, FinishIsAnnounced, ContextAgrees,
         NewRuntime
<1> QED BY <1>2, <1>3, OneContract

LEMMA TaskFailureReports ==
  ASSUME Sound, NEW command \in Commands, ReportTaskFails(command)
  PROVE  ReportIsTrue'
<1>1. runtime' = NewRuntime /\ output'.seed = "none" /\ Plans(command)
  BY DEF ReportTaskFails, ProviderFails, PartitionFails, GiveUp, Reset, ResetPlanningState, Publish
<1>2. SkeletonNextStage(command) = "PARKING"
  BY <1>1, CommandsAre, ReleasedIs
     DEF SkeletonNextStage, FacadeBranch, Plans, NotDirect, Planning, DirectModes
<1>0. PICK c : c = Fallback("MISSION_FALLBACK", "PARKING",
                            Lifecycle(runtime', "continue", "reset", "clear", "clear"))
  OBVIOUS
<1>3. report'.contracts = <<c>> /\ StartIsFresh' /\ report'.skeleton_next_stage = "PARKING"
  BY <1>0, <1>1, <1>2 DEF ReportTaskFails, Report, StartIsFresh
<1>4. ContractIsTrue(c)'
  BY <1>0, <1>1, <1>3
     DEF Fallback, Lifecycle, ContractIsTrue, LifecycleIsTrue, FinishIsAnnounced, ContextAgrees,
         NewRuntime
<1> QED BY <1>3, <1>4, OneContract

(* A release is reported ready when the stage is about to begin anew, and  *)
(* waiting when nothing changes.                                           *)
LEMMA ReleaseReports ==
  ASSUME Sound, NEW command \in Commands, ReportDirectRelease(command)
  PROVE  ReportIsTrue'
<1>1. command = NoCommand /\ runtime.direct_command # "none"
  BY ReleasedIs DEF ReportDirectRelease, DirectRelease
<1>2. CASE Standing
  <2>1. runtime' = NewRuntime
    BY <1>2 DEF ReportDirectRelease, DirectRelease, Reset, ResetPlanningState
  <2>0. PICK c : c = Contract("DIRECT_FINISH_READY", "FINISH",
                              Lifecycle(runtime, "reset", "reset", "clear", "clear"))
    OBVIOUS
  <2>2. report'.contracts = <<c>> /\ StartIsFresh' /\ report'.skeleton_next_stage = "FINISH"
    BY <1>2, <2>0 DEF ReportDirectRelease, ReportMarked, StartIsFresh
  <2>3. ContractIsTrue(c)'
    BY <2>0, <2>1, <2>2
       DEF Contract, Lifecycle, ContractIsTrue, LifecycleIsTrue, FinishIsAnnounced, ContextAgrees,
           NewRuntime
  <2> QED BY <2>2, <2>3, OneContract
<1>3. CASE ~Standing
  <2>1. runtime' = runtime
    BY <1>3 DEF ReportDirectRelease, DirectRelease
  <2>0. PICK c : c = Contract("DIRECT_FINISH_WAITING", "PARKING",
                              Lifecycle(runtime, "wait", "keep", "keep", "keep"))
    OBVIOUS
  <2>2. report'.contracts = <<c>> /\ StartIsFresh' /\ report'.skeleton_next_stage = "PARKING"
    BY <1>3, <2>0 DEF ReportDirectRelease, ReportMarked, StartIsFresh
  <2>3. ContractIsTrue(c)'
    BY <1>1, <2>0, <2>1, <2>2
       DEF Sound, Runtime, Contract, Lifecycle, ContractIsTrue, LifecycleIsTrue,
           FinishIsAnnounced, ContextAgrees
  <2> QED BY <2>2, <2>3, OneContract
<1> QED BY <1>2, <1>3

LEMMA HoldReports ==
  ASSUME Sound, NEW command \in Commands, ReportFinishHold(command)
  PROVE  ReportIsTrue'
<1>1. runtime' \in Runtime /\ runtime'.direct_command = "none" /\ runtime'.stage_exit_requested
  BY ReleasedIs DEF ReportFinishHold, FinishHold, NotDirect
<1>0. PICK c : c = Contract("MISSION_FINISHED", "FINISH",
                            Lifecycle(runtime', "hold", "keep", "keep", "clear"))
  OBVIOUS
<1>2. report'.contracts = <<c>> /\ StartIsFresh' /\ report'.skeleton_next_stage = "FINISH"
  BY <1>0 DEF ReportFinishHold, ReportMarked, StartIsFresh
<1>3. ContractIsTrue(c)'
  BY <1>0, <1>1, <1>2
     DEF Runtime, Contract, Lifecycle, ContractIsTrue, LifecycleIsTrue, FinishIsAnnounced,
         ContextAgrees
<1> QED BY <1>2, <1>3, OneContract

(* A planned frame says whether it finished the stage; a frame that starts *)
(* parking had no speed plan to go on from.                                *)
LEMMA PlannedReports ==
  ASSUME Sound, NEW command \in Commands, ReportPlanned(command)
  PROVE  ReportIsTrue'
<1> DEFINE planned == output'.kind = "trajectory"
           finish  == runtime'.stage_exit_requested
           next    == IF finish THEN "FINISH" ELSE "PARKING"
           exit    == IF finish THEN "latch" ELSE "continue"
           begun   == Released(command)
<1>0. PICK frame, failed :
        /\ frame = Contract(IF finish THEN "MISSION_FINISHED" ELSE "MISSION_RUNNING", next,
                            Lifecycle(runtime', exit, "keep", "keep", "clear"))
        /\ failed = Fallback(IF finish THEN "MISSION_FINISHED" ELSE "MISSION_FALLBACK", next,
                             Lifecycle(runtime', exit, "keep", IF finish THEN "keep" ELSE "clear",
                                       "clear"))
  OBVIOUS
<1>1. ReportMarked(next, ProjectSysRunState(command),
                   IF planned THEN <<frame>> ELSE <<failed, frame>>)
  BY <1>0 DEF ReportPlanned
<1>2. PICK count \in 0 .. RequiredFrames, done \in BOOLEAN :
        LET state == [begun EXCEPT !.has_history = TRUE, !.consecutive_ready_frames = count,
                                   !.stage_exit_requested = done]
        IN \/ /\ \E replan \in BOOLEAN :
                    runtime' = UpdateAfterSpeedOptimizer(state, "ordinary", replan)
              /\ Publish("trajectory", begun.last_speed_frame)
           \/ /\ runtime' = UpdateAfterPartitionFallback(state)
              /\ Publish("partition_path", "none")
  <2>1. \A ready \in BOOLEAN :
          /\ ReadyFrames(begun.consecutive_ready_frames, ready) \in 0 .. RequiredFrames
          /\ (ReadyFrames(begun.consecutive_ready_frames, ready) >= RequiredFrames) \in BOOLEAN
    BY ReleasedIs, ReadyFramesBounded DEF Runtime
  <2> QED BY <2>1 DEF ReportPlanned, Planned, Standing
<1>3. begun \in Runtime /\ begun.direct_command = "none"
  BY ReleasedIs DEF ReportPlanned, Planned, Plans, NotDirect
<1>4. /\ runtime' \in Runtime /\ runtime'.direct_command = "none"
      /\ ~planned => runtime'.last_speed_frame = "none" /\ output'.seed = "none"
      /\ planned => output'.seed = begun.last_speed_frame
  <2> DEFINE state == [begun EXCEPT !.has_history = TRUE, !.consecutive_ready_frames = count,
                                    !.stage_exit_requested = done]
  <2>1. state \in Runtime /\ state.direct_command = "none"
    BY <1>3 DEF Runtime
  <2> HIDE DEF state
  <2>2. CASE /\ \E replan \in BOOLEAN :
                  runtime' = UpdateAfterSpeedOptimizer(state, "ordinary", replan)
             /\ Publish("trajectory", begun.last_speed_frame)
    <3>1. runtime' \in Runtime /\ runtime'.direct_command = "none"
      BY <2>1, <2>2 DEF UpdateAfterSpeedOptimizer, Runtime
    <3>2. planned /\ output'.seed = begun.last_speed_frame
      BY <2>2 DEF Publish
    <3> QED BY <3>1, <3>2
  <2>3. CASE /\ runtime' = UpdateAfterPartitionFallback(state)
             /\ Publish("partition_path", "none")
    <3>1. /\ runtime' \in Runtime /\ runtime'.direct_command = "none"
          /\ runtime'.last_speed_frame = "none"
      BY <2>1, <2>3 DEF UpdateAfterPartitionFallback, Runtime
    <3>2. ~planned /\ output'.seed = "none"
      BY <2>3 DEF Publish
    <3> QED BY <3>1, <3>2
  <2> QED BY <1>2, <2>2, <2>3 DEF state
<1>5. StartIsFresh'
  BY <1>1, <1>4, StartsFresh DEF StartIsFresh, ReportMarked
<1>6. /\ report'.contracts = IF planned THEN <<frame>> ELSE <<failed, frame>>
      /\ report'.skeleton_next_stage = next
  BY <1>1 DEF ReportMarked
<1>7. ContractIsTrue(frame)'
  BY <1>0, <1>4, <1>6
     DEF Runtime, Contract, Lifecycle, ContractIsTrue, LifecycleIsTrue, FinishIsAnnounced,
         ContextAgrees
<1>8. ~planned => ContractIsTrue(failed)'
  BY <1>0, <1>4, <1>6
     DEF Runtime, Fallback, Lifecycle, ContractIsTrue, LifecycleIsTrue, FinishIsAnnounced,
         ContextAgrees
<1>9. failed.fallback
  BY <1>0 DEF Fallback
<1>10. CASE planned
  BY <1>5, <1>6, <1>7, <1>10, OneContract
<1>11. CASE ~planned
  BY <1>5, <1>6, <1>7, <1>8, <1>9, <1>11, TwoContracts
<1> QED BY <1>10, <1>11

-----------------------------------------------------------------------------

(* Whatever frames, commands and failures follow each other, and for any   *)
(* number of frames that a finish takes, the last report is true of what   *)
(* the stage remembers, but for the contract of a direct command beside    *)
(* that of its fallback.                                                   *)
THEOREM ReportsAreTrue == ReportSpec => []ReportIsTrue
<1>1. ReportInit => ReportIsTrue
  BY DEF ReportInit, ReportIsTrue
<1>2. ASSUME IInv, ReportIsTrue, [ReportNext]_report_vars PROVE ReportIsTrue'
  <2>1. Sound
    BY <1>2 DEF IInv, Fits, Sound
  <2>2. ASSUME NEW command \in Commands, ReportProcess(command) PROVE ReportIsTrue'
    BY <2>1, <2>2, DirectReports, DirectFailureReports, StopReports, ParkingOutReports,
       EarlyEstopReports, ReleaseReports, HoldReports, TaskFailureReports, PlannedReports
       DEF ReportProcess
  <2>3. CASE UNCHANGED <<runtime, output, report>>
    BY <1>2, <2>3 DEF ReportIsTrue, ContractIsTrue, Overtaken, LifecycleIsTrue, FinishIsAnnounced,
                      ContextAgrees, StartIsFresh
  <2> QED BY <1>2, <2>2, <2>3 DEF ReportNext, report_vars, UpdateVehicleState, ClearVehicleState
<1> QED BY <1>1, <1>2, ReportingStageIsStage, Invariance, PTL DEF ReportSpec
=============================================================================
