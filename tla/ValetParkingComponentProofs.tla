----------------------- MODULE ValetParkingComponentProofs -----------------------
(***************************************************************************)
(* What holds of ValetParkingComponent for any commands, any queue depth   *)
(* and any number of drain rounds.  The component uses the stage, so what  *)
(* StageParkingAdapterProofs shows of the stage holds in it too.           *)
(***************************************************************************)
EXTENDS ValetParkingComponent, StageParkingAdapterProofs

(* Where the caller of Start and Stop is tells what exists.  SessionsAreClean *)
(* alone is not inductive: it says nothing of a session under way.         *)
SessionInv ==
  /\ running <=> client \in {"starting", "spawning"} \/ (client = "free" /\ dds)
  /\ client \in {"spawning", "joining", "cleaning"} => dds
  /\ client = "starting" => ~dds
  /\ worker # "none" <=> client = "joining" \/ (client = "free" /\ dds)
  /\ worker = "exited" => ~running

(* A command that still has its reset has reset nothing yet.               *)
ResetInv ==
  /\ resets <= 1
  /\ latch.reset_history => resets = 0

(* A round of the auxiliary topics that has begun is still to be counted.  *)
RoundsInv == worker = "chassis" => rounds > 0

ComponentIInv ==
  ComponentTypeOK /\ SessionInv /\ ResetInv /\ RoundsInv /\ VehicleFollowsCache

-----------------------------------------------------------------------------
(* The topics: a KEEP_LAST reader holds at most Depth samples. *)

LEMMA TakeKeepsType ==
  ASSUME commands \in Seq(CommandSamples), Len(commands) <= Depth, commands # <<>>
  PROVE  /\ Head(commands) \in CommandSamples
         /\ Tail(commands) \in Seq(CommandSamples)
         /\ Len(Tail(commands)) <= Depth
  BY ComponentAssumption

LEMMA KeepLast ==
  ASSUME commands \in Seq(CommandSamples), Len(commands) <= Depth,
         NEW sample \in CommandSamples
  PROVE  LET kept == IF Len(commands) < Depth
                     THEN Append(commands, sample)
                     ELSE Append(Tail(commands), sample)
         IN  kept \in Seq(CommandSamples) /\ Len(kept) <= Depth
<1>1. CASE Len(commands) < Depth
  BY <1>1, ComponentAssumption
<1>2. CASE ~(Len(commands) < Depth)
  <2>1. commands # <<>> /\ Len(commands) = Depth
    BY <1>2, ComponentAssumption
  <2>2. /\ Tail(commands) \in Seq(CommandSamples)
        /\ Len(Tail(commands)) = Depth - 1
    BY <2>1
  <2> QED BY <1>2, <2>2, ComponentAssumption
<1> QED BY <1>1, <1>2

(* A sample that was taken is a command for the stage, unless disposed.    *)
LEMMA TakenIsCommand ==
  ASSUME NEW sample \in CommandSamples, sample # Disposed
  PROVE  sample \in Commands
  BY ComponentAssumption DEF CommandSamples, Commands

(* Consuming the reset leaves a command, without one.                      *)
LEMMA ConsumedIsCommand ==
  ASSUME latch \in Commands, ConsumeReset
  PROVE  latch' \in Commands /\ latch'.reset_history = FALSE
<1>1. CASE latch = NoCommand
  <2>1. latch' = NoCommand
    BY <1>1 DEF ConsumeReset, NoCommand
  <2> QED BY <2>1 DEF Commands, NoCommand
<1>2. CASE latch \in [mode : Modes, reset_history : BOOLEAN]
  BY <1>2 DEF ConsumeReset, Commands
<1> QED BY <1>1, <1>2 DEF Commands

-----------------------------------------------------------------------------
(* What a step of the component is for the stage. *)

(* No frame moves the vehicle (Process only reads vehicle_input).          *)
LEMMA ProcessKeepsVehicle ==
  ASSUME NEW command, Process(command)
  PROVE  vehicle' = vehicle
  BY DEF Process, DirectControl, DirectPathFails, StageControlStop,
         UnsupportedParkingOut, InvalidSample, DirectRelease, FinishHold,
         UnfitLot, ProviderFails, PartitionFails, Planned, GiveUp

(* What the auxiliary topics apply is one of the stage's two updates.      *)
LEMMA AuxIsUpdate ==
  ASSUME NEW input, ApplyAuxVehicleInput(input),
         UNCHANGED <<runtime, output, since, over>>
  PROVE  UpdateVehicleState \/ ClearVehicleState
  BY DEF ApplyAuxVehicleInput, SpeedOf, UpdateVehicleState, ClearVehicleState

(* Every step of the component is a step of the stage or leaves it alone.  *)
LEMMA StageStep ==
  ASSUME latch \in Commands, [ComponentNext]_componentVars
  PROVE  [Next]_vars
<1>1. CASE HandleOneSample
  BY <1>1 DEF HandleOneSample, Next
<1>2. CASE HandleLocalizationSample \/ HandleChassisSample
  <2>1. /\ ApplyAuxVehicleInput(aux')
        /\ UNCHANGED <<runtime, output, since, over>>
    BY <1>2 DEF HandleLocalizationSample, HandleChassisSample
  <2> QED BY <2>1, AuxIsUpdate DEF Next
<1>3. CASE CallApi
  BY <1>3 DEF CallApi, Next
<1>4. CASE UNCHANGED vars
  BY <1>4
<1>5. CASE ~(HandleOneSample \/ HandleLocalizationSample \/ HandleChassisSample
             \/ CallApi)
  <2>1. UNCHANGED vars
    BY <1>5
    DEF ComponentNext, componentVars, Start, Stop, Continue, InitDds, StartWorker,
        StartWorkerFails, Join, CleanupDds, Worker, EnterLoop, TakeCommand,
        HandleCommandSample, CommandsDone, NoLocalizationSample,
        NoChassisSample, AuxDone, NoSample, PublishCommand, PublishSample
  <2> QED BY <2>1
<1> QED BY <1>1, <1>2, <1>3, <1>5

-----------------------------------------------------------------------------
(* The inductive invariant, one conjunct at a time. *)

LEMMA ComponentInitInv == ComponentInit => ComponentIInv
<1> SUFFICES ASSUME ComponentInit PROVE ComponentIInv
  OBVIOUS
<1>1. ComponentTypeOK
  <2>1. latch \in Commands /\ resets \in Nat
    BY DEF ComponentInit, Commands
  <2>2. rounds \in 0 .. MaxDrainRounds /\ samples \in 0 .. Depth
    BY ComponentAssumption DEF ComponentInit
  <2>3. commands \in Seq(CommandSamples) /\ Len(commands) <= Depth
    BY ComponentAssumption DEF ComponentInit
  <2>4. /\ aux \in [has_localization : BOOLEAN,
                   speed : {"moving", "standing", "refused"}]
        /\ {running, dds, fromApi} \subseteq BOOLEAN
        /\ client \in {"free", "starting", "spawning", "joining", "cleaning"}
        /\ worker \in {"none", "loop", "exited"} \cup Working
    BY DEF ComponentInit
  <2> QED BY <2>1, <2>2, <2>3, <2>4 DEF ComponentTypeOK
<1>2. SessionInv
  BY DEF ComponentInit, SessionInv
<1>3. ResetInv /\ RoundsInv /\ VehicleFollowsCache
  BY DEF ComponentInit, Init, ResetInv, RoundsInv, NoCommand, VehicleFollowsCache
<1> QED BY <1>1, <1>2, <1>3 DEF ComponentIInv

LEMMA SessionStep ==
  ASSUME ComponentIInv, [ComponentNext]_componentVars
  PROVE  SessionInv'
<1> USE DEF ComponentIInv, ComponentTypeOK, SessionInv, sessionVars, Working
<1>1. CASE Start \/ Stop
  BY <1>1 DEF Start, Stop
<1>2. CASE Continue
  BY <1>2 DEF Continue, InitDds, StartWorker, StartWorkerFails, Join, CleanupDds
<1>3. CASE EnterLoop
  BY <1>3 DEF EnterLoop
<1>4. CASE Worker /\ ~EnterLoop
  <2>1. /\ worker \in Working /\ worker' \in Working \cup {"loop"}
        /\ UNCHANGED sessionVars
    BY <1>4
    DEF Worker, TakeCommand, HandleCommandSample, CommandsDone,
        HandleLocalizationSample, HandleChassisSample, NoLocalizationSample,
        NoChassisSample, AuxDone, HandleOneSample, NoSample
  <2> QED BY <2>1
<1>5. CASE PublishCommand \/ PublishSample \/ CallApi
  BY <1>5 DEF PublishCommand, PublishSample, CallApi
<1>6. CASE UNCHANGED componentVars
  BY <1>6 DEF componentVars
<1> QED BY <1>1, <1>2, <1>3, <1>4, <1>5, <1>6 DEF ComponentNext

LEMMA LatchStep ==
  ASSUME ComponentIInv, [ComponentNext]_componentVars
  PROVE  ResetInv' /\ latch' \in Commands /\ resets' \in Nat
<1> USE DEF ComponentIInv, ComponentTypeOK, ResetInv
<1>1. CASE TakeCommand
  <2>1. Head(commands) \in CommandSamples
    BY <1>1, TakeKeepsType DEF TakeCommand, HandleCommandSample
  <2> QED BY <1>1, <2>1, TakenIsCommand DEF TakeCommand, HandleCommandSample
<1>2. CASE HandleOneSample
  <2>1. latch' \in Commands /\ latch'.reset_history = FALSE
    BY <1>2, ConsumedIsCommand DEF HandleOneSample
  <2>2. resets' = resets + (IF latch.reset_history THEN 1 ELSE 0)
    BY <1>2 DEF HandleOneSample
  <2> QED BY <2>1, <2>2
<1>3. CASE ~(TakeCommand \/ HandleOneSample)
  <2>1. UNCHANGED <<latch, resets>>
    BY <1>3
    DEF ComponentNext, componentVars, workVars, Start, Stop, Continue, InitDds,
        StartWorker, StartWorkerFails, Join, CleanupDds, Worker, EnterLoop,
        CommandsDone, HandleLocalizationSample, HandleChassisSample,
        NoLocalizationSample, NoChassisSample, AuxDone, NoSample,
        PublishCommand, PublishSample, CallApi
  <2> QED BY <2>1
<1> QED BY <1>1, <1>2, <1>3

LEMMA CacheStep ==
  ASSUME ComponentIInv, [ComponentNext]_componentVars
  PROVE  /\ VehicleFollowsCache'
         /\ aux' \in [has_localization : BOOLEAN,
                     speed : {"moving", "standing", "refused"}]
         /\ fromApi' \in BOOLEAN
<1> USE DEF ComponentIInv, ComponentTypeOK, VehicleFollowsCache
<1>1. CASE HandleLocalizationSample
  BY <1>1 DEF HandleLocalizationSample, ApplyAuxVehicleInput, SpeedOf
<1>2. CASE HandleChassisSample
  BY <1>2 DEF HandleChassisSample, ApplyAuxVehicleInput, SpeedOf
<1>3. CASE HandleOneSample
  <2>1. vehicle' = vehicle
    BY <1>3, ProcessKeepsVehicle DEF HandleOneSample
  <2> QED BY <1>3, <2>1 DEF HandleOneSample, SpeedOf
<1>4. CASE CallApi
  BY <1>4 DEF CallApi
<1>5. CASE ~(HandleOneSample \/ HandleLocalizationSample \/ HandleChassisSample
             \/ CallApi)
  <2>1. UNCHANGED <<vehicle, aux, fromApi>>
    BY <1>5
    DEF ComponentNext, componentVars, vars, workVars, Start, Stop, Continue,
        InitDds, StartWorker, StartWorkerFails, Join, CleanupDds, Worker,
        EnterLoop, TakeCommand, HandleCommandSample, CommandsDone,
        NoLocalizationSample, NoChassisSample, AuxDone, NoSample,
        PublishCommand, PublishSample
  <2> QED BY <2>1 DEF SpeedOf
<1> QED BY <1>1, <1>2, <1>3, <1>4, <1>5
LEMMA QueueStep ==
  ASSUME ComponentIInv, [ComponentNext]_componentVars
  PROVE  /\ commands' \in Seq(CommandSamples) /\ Len(commands') <= Depth
         /\ samples' \in 0 .. Depth
<1> USE DEF ComponentIInv, ComponentTypeOK
<1>1. CASE TakeCommand
  BY <1>1, TakeKeepsType DEF TakeCommand, HandleCommandSample
<1>2. CASE PublishCommand
  BY <1>2, KeepLast DEF PublishCommand
<1>3. CASE PublishSample
  BY <1>3, ComponentAssumption DEF PublishSample
<1>4. CASE HandleOneSample \/ NoSample
  BY <1>4, ComponentAssumption DEF HandleOneSample, NoSample
<1>5. CASE StartWorkerFails \/ CleanupDds
  <2>1. commands' = <<>> /\ samples' = 0
    BY <1>5 DEF StartWorkerFails, CleanupDds
  <2> QED BY <2>1, ComponentAssumption
<1>6. CASE ~(TakeCommand \/ PublishCommand \/ PublishSample \/ HandleOneSample
             \/ NoSample \/ StartWorkerFails \/ CleanupDds)
  <2>1. UNCHANGED topicVars
    BY <1>6
    DEF ComponentNext, componentVars, Start, Stop, Continue, InitDds,
        StartWorker, Join, Worker, EnterLoop, CommandsDone,
        HandleLocalizationSample, HandleChassisSample, NoLocalizationSample,
        NoChassisSample, AuxDone, CallApi
  <2> QED BY <2>1 DEF topicVars
<1> QED BY <1>1, <1>2, <1>3, <1>4, <1>5, <1>6

(* A round is only counted down while one is left.                         *)
LEMMA RoundsStep ==
  ASSUME ComponentIInv, [ComponentNext]_componentVars
  PROVE  RoundsInv' /\ rounds' \in 0 .. MaxDrainRounds
<1> USE DEF ComponentIInv, ComponentTypeOK, RoundsInv
<1>1. CASE TakeCommand
  BY <1>1, ComponentAssumption DEF TakeCommand, HandleCommandSample
<1>2. CASE HandleLocalizationSample \/ NoLocalizationSample
  BY <1>2 DEF HandleLocalizationSample, NoLocalizationSample
<1>3. CASE HandleChassisSample \/ NoChassisSample
  BY <1>3, ComponentAssumption DEF HandleChassisSample, NoChassisSample
<1>4. CASE CommandsDone \/ AuxDone
  BY <1>4, ComponentAssumption DEF CommandsDone, AuxDone
<1>5. CASE EnterLoop \/ HandleOneSample \/ NoSample
  BY <1>5 DEF EnterLoop, HandleOneSample, NoSample
<1>6. CASE Start \/ Stop \/ Continue
  BY <1>6 DEF Start, Stop, Continue, InitDds, StartWorker, StartWorkerFails, Join,
              CleanupDds
<1>7. CASE PublishCommand \/ PublishSample \/ CallApi \/ UNCHANGED componentVars
  <2>1. UNCHANGED <<worker, rounds>>
    BY <1>7 DEF PublishCommand, PublishSample, CallApi, componentVars
  <2> QED BY <2>1
<1> QED BY <1>1, <1>2, <1>3, <1>4, <1>5, <1>6, <1>7 DEF ComponentNext, Worker

LEMMA PlacesStep ==
  ASSUME ComponentIInv, [ComponentNext]_componentVars
  PROVE  /\ running' \in BOOLEAN /\ dds' \in BOOLEAN
         /\ client' \in {"free", "starting", "spawning", "joining", "cleaning"}
         /\ worker' \in {"none", "loop", "exited"} \cup Working
<1> USE DEF ComponentIInv, ComponentTypeOK, sessionVars, Working
<1>1. CASE Start \/ Stop \/ Continue
  BY <1>1 DEF Start, Stop, Continue, InitDds, StartWorker, StartWorkerFails, Join,
              CleanupDds
<1>2. CASE Worker
  BY <1>2
  DEF Worker, EnterLoop, TakeCommand, HandleCommandSample, CommandsDone,
      HandleLocalizationSample, HandleChassisSample, NoLocalizationSample,
      NoChassisSample, AuxDone, HandleOneSample, NoSample
<1>3. CASE PublishCommand \/ PublishSample \/ CallApi \/ UNCHANGED componentVars
  BY <1>3 DEF PublishCommand, PublishSample, CallApi, componentVars
<1> QED BY <1>1, <1>2, <1>3 DEF ComponentNext

LEMMA ComponentNextInv ==
  ComponentIInv /\ [ComponentNext]_componentVars => ComponentIInv'
<1> SUFFICES ASSUME ComponentIInv, [ComponentNext]_componentVars
             PROVE  ComponentIInv'
  OBVIOUS
<1>1. ComponentTypeOK'
  BY PlacesStep, RoundsStep, LatchStep, CacheStep, QueueStep DEF ComponentTypeOK
<1> QED BY <1>1, SessionStep, LatchStep, RoundsStep, CacheStep DEF ComponentIInv

LEMMA ComponentInvariance == ComponentSpec => []ComponentIInv
  BY ComponentInitInv, ComponentNextInv, PTL DEF ComponentSpec

-----------------------------------------------------------------------------

(* Every variable of the component keeps its type: the readers never hold  *)
(* more than Depth samples and the drains never run past their rounds.     *)
THEOREM ComponentIsWellTyped == ComponentSpec => []ComponentTypeOK
<1>1. ComponentIInv => ComponentTypeOK
  BY DEF ComponentIInv
<1> QED BY <1>1, ComponentInvariance, PTL

(* However Start and Stop follow each other, and whichever of them fails,  *)
(* the worker has its readers and is joined before it is replaced.         *)
THEOREM SessionsStayClean == ComponentSpec => []SessionsAreClean
<1>1. ComponentIInv => SessionsAreClean
  BY DEF ComponentIInv, ComponentTypeOK, SessionInv, SessionsAreClean, Working
<1> QED BY <1>1, ComponentInvariance, PTL

(* A latched reset_history resets one frame, for every queue depth         *)
(* (BuildTrajectoryFromInput).                                             *)
THEOREM CommandsResetOnce == ComponentSpec => []ResetsOncePerCommand
<1>1. ComponentIInv => ResetsOncePerCommand
  BY DEF ComponentIInv, ResetInv, ResetsOncePerCommand
<1> QED BY <1>1, ComponentInvariance, PTL

(* Between the calls of the C API the stage's vehicle state is the one of  *)
(* the auxiliary cache (ApplyAuxVehicleInput).                             *)
THEOREM VehicleKeepsFollowingCache == ComponentSpec => []VehicleFollowsCache
<1>1. ComponentIInv => VehicleFollowsCache
  BY DEF ComponentIInv
<1> QED BY <1>1, ComponentInvariance, PTL

(* The component implements the stage's specification: it hands it only    *)
(* commands and vehicle states the stage allows for.                       *)
THEOREM ComponentUsesStage == ComponentSpec => UsesStage
<1>1. ComponentInit => Init
  BY DEF ComponentInit
<1>2. ComponentIInv /\ [ComponentNext]_componentVars => [Next]_vars
  BY StageStep DEF ComponentIInv, ComponentTypeOK
<1> QED BY <1>1, <1>2, ComponentInvariance, PTL DEF ComponentSpec, UsesStage, Spec

(* So a finish is earned in the running component too: not by any sequence *)
(* of sessions, drained commands and auxiliary samples is it had earlier.  *)
THEOREM ComponentFinishesAreEarned == ComponentSpec => []FinishIsEarned
  BY ComponentUsesStage, FinishesAreEarned, PTL DEF UsesStage

=============================================================================
