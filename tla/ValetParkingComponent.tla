------------------------- MODULE ValetParkingComponent -------------------------
(***************************************************************************)
(* ValetParkingComponent: Start and Stop, and the worker thread that they  *)
(* create and join.  The worker drains the command topic into the latched  *)
(* command, then the auxiliary topics into the vehicle state, then takes   *)
(* one SelectedSlot sample and has the stage process it; then it starts    *)
(* over, or waits at most 20 ms.  The C API may set the vehicle state      *)
(* beside it.                                                              *)
(*                                                                         *)
(* The stage is StageParkingAdapter: its variables change only by its own  *)
(* actions.  The topics belong to the middleware: a KEEP_LAST reader of    *)
(* commands, and one of samples that are known only by their number.       *)
(***************************************************************************)
EXTENDS StageParkingAdapter, Sequences

CONSTANTS
  Published,      \* the valid commands that are sent on the command topic
  Depth,          \* qos_depth
  MaxDrainRounds  \* kMaxCommandDrainRoundsPerCycle, kMaxAuxDrainRoundsPerCycle

ASSUME ComponentAssumption ==
  /\ Published \subseteq Commands
  /\ Depth \in Nat \ {0}
  /\ MaxDrainRounds \in Nat \ {0}

VARIABLES
  running,   \* running_
  client,    \* where the caller of Start and Stop is
  dds,       \* the participant, its readers and its writer exist
  worker,    \* where the worker thread is; "none": worker_ is not joinable
  rounds,    \* rounds left in the loop that drains a topic, or in the next one
  latch,     \* latest_parking_command_; NoCommand: nullptr
  aux,       \* aux_vehicle_input_; has_chassis is written and never read, and a
             \* speed that an invalid sample cleared to 0 is "refused"
  commands,  \* what the reader of the command topic holds
  samples,   \* how many samples the reader of the input topic holds
  resets,    \* history: frames the latched command has reset
  fromApi    \* history: the C API was the last to set or clear the vehicle state

workVars      == <<latch, aux, resets, fromApi>>
sessionVars   == <<running, client, dds>>
topicVars     == <<commands, samples>>
componentVars == <<vars, sessionVars, worker, rounds, workVars, topicVars>>

\* A sample without valid data; and any sample that is invalid, NONE, unknown
\* or not finite, which clears the latch.
Disposed == [mode |-> "disposed", reset_history |-> FALSE]
CommandSamples == Published \cup {NoCommand, Disposed}

Working == {"commands", "localization", "chassis", "sample"}

ComponentTypeOK ==
  /\ running \in BOOLEAN
  /\ client \in {"free", "starting", "spawning", "joining", "cleaning"}
  /\ dds \in BOOLEAN
  /\ worker \in {"none", "loop", "exited"} \cup Working
  /\ rounds \in 0 .. MaxDrainRounds
  /\ latch \in Commands
  /\ aux \in [has_localization : BOOLEAN,
              speed : {"moving", "standing", "refused"}]
  /\ commands \in Seq(CommandSamples) /\ Len(commands) <= Depth
  /\ samples \in 0 .. Depth
  /\ resets \in Nat
  /\ fromApi \in BOOLEAN

ComponentInit ==
  /\ Init
  /\ running = FALSE
  /\ client = "free"
  /\ dds = FALSE
  /\ worker = "none"
  /\ rounds = MaxDrainRounds
  /\ latch = NoCommand
  /\ aux = [has_localization |-> FALSE, speed |-> "standing"]
  /\ commands = <<>>
  /\ samples = 0
  /\ resets = 0
  /\ fromApi = FALSE

-----------------------------------------------------------------------------
(* Start and Stop; a Start while running and a Stop while not are refused. *)

Start ==
  /\ client = "free" /\ ~running
  /\ running' = TRUE
  /\ client' = "starting"
  /\ UNCHANGED <<vars, dds, worker, rounds, workVars, topicVars>>

\* InitDds fails halfway and has cleaned up, or succeeds.
InitDds ==
  /\ client = "starting"
  /\ \/ dds' = TRUE /\ client' = "spawning" /\ UNCHANGED running
     \/ dds' = FALSE /\ client' = "free" /\ running' = FALSE
  /\ UNCHANGED <<vars, worker, rounds, workVars, topicVars>>

StartWorker ==
  /\ client = "spawning"
  /\ worker' = "loop"
  /\ client' = "free"
  /\ UNCHANGED <<vars, running, dds, rounds, workVars, topicVars>>

\* std::thread throws.
StartWorkerFails ==
  /\ client = "spawning"
  /\ running' = FALSE
  /\ dds' = FALSE
  /\ commands' = <<>> /\ samples' = 0
  /\ client' = "free"
  /\ UNCHANGED <<vars, worker, rounds, workVars>>

\* Mutants of Stop and Join: the worker is not told; it is not waited for.
StopSilently ==
  /\ client = "free" /\ running
  /\ client' = "joining"
  /\ UNCHANGED <<vars, running, dds, worker, rounds, workVars, topicVars>>

JoinNobody ==
  /\ client = "joining"
  /\ client' = "cleaning"
  /\ UNCHANGED <<vars, running, dds, worker, rounds, workVars, topicVars>>

Stop ==
  /\ client = "free" /\ running
  /\ running' = FALSE
  /\ client' = "joining"
  /\ UNCHANGED <<vars, dds, worker, rounds, workVars, topicVars>>

Join ==
  /\ client = "joining"
  /\ worker = "exited"
  /\ worker' = "none"
  /\ client' = "cleaning"
  /\ UNCHANGED <<vars, running, dds, rounds, workVars, topicVars>>

\* Mutant of CleanupDds: the stage is made anew with the readers.
CleanupMakesNewStage ==
  /\ client = "cleaning"
  /\ dds' = FALSE
  /\ commands' = <<>> /\ samples' = 0
  /\ client' = "free"
  /\ runtime' = NewRuntime
  /\ UNCHANGED <<vehicle, output, since, over, running, worker, rounds, workVars>>

\* The latched command, the cache and the stage outlive the session.
CleanupDds ==
  /\ client = "cleaning"
  /\ dds' = FALSE
  /\ commands' = <<>> /\ samples' = 0
  /\ client' = "free"
  /\ UNCHANGED <<vars, running, worker, rounds, workVars>>

-----------------------------------------------------------------------------
(* WorkerLoop.  The wait at its end only takes time: the code waits 20 ms. *)

EnterLoop ==
  /\ worker = "loop"
  /\ worker' = IF running THEN "commands" ELSE "exited"
  /\ UNCHANGED <<vars, sessionVars, rounds, workVars, topicVars>>

HandleCommandSample ==
  /\ commands # <<>>
  /\ LET sample == Head(commands)
     IN  /\ latch' = IF sample = Disposed THEN latch ELSE sample
         /\ resets' = IF sample = Disposed THEN resets ELSE 0
  /\ commands' = Tail(commands)
  /\ UNCHANGED <<vars, sessionVars, worker, aux, fromApi, samples>>

\* Mutant of TakeCommand: the topic is drained until it is empty.
DrainAllCommands ==
  /\ worker = "commands" /\ running
  /\ HandleCommandSample
  /\ UNCHANGED rounds

\* A round of DrainCommandSamples.
TakeCommand ==
  /\ worker = "commands" /\ rounds > 0 /\ running
  /\ HandleCommandSample
  /\ rounds' = rounds - 1

\* The topic is empty, a sample could not be taken, the rounds are used up.
CommandsDone ==
  /\ worker = "commands"
  /\ worker' = "localization"
  /\ rounds' = MaxDrainRounds
  /\ UNCHANGED <<vars, sessionVars, workVars, topicVars>>

SpeedOf(input) == IF input.speed = "moving" THEN "moving" ELSE "standing"

\* Mutant of ApplyAuxVehicleInput: without a localization nothing is applied.
ApplyLocalizedOnly(input) ==
  /\ vehicle' = IF input.has_localization THEN SpeedOf(input) ELSE vehicle
  /\ fromApi' = FALSE

\* Chassis data only supplement a localized vehicle.
ApplyAuxVehicleInput(input) ==
  /\ vehicle' = IF input.has_localization THEN SpeedOf(input) ELSE "unknown"
  /\ fromApi' = FALSE

HandleLocalizationSample ==
  /\ worker = "localization" /\ rounds > 0 /\ running
  /\ \E valid \in BOOLEAN : aux' = [aux EXCEPT !.has_localization = valid]
  /\ ApplyAuxVehicleInput(aux')
  /\ worker' = "chassis"
  /\ UNCHANGED <<runtime, output, since, over, sessionVars, rounds, latch, resets,
                 topicVars>>

\* An invalid sample clears the speed to 0.
HandleChassisSample ==
  /\ worker = "chassis"
  /\ \E speed \in {"moving", "standing", "refused"} :
       aux' = [aux EXCEPT !.speed = speed]
  /\ ApplyAuxVehicleInput(aux')
  /\ worker' = "localization"
  /\ rounds' = rounds - 1
  /\ UNCHANGED <<runtime, output, since, over, sessionVars, latch, resets, topicVars>>

\* A topic with nothing to take, or a sample without valid data.
NoLocalizationSample ==
  /\ worker = "localization" /\ rounds > 0 /\ running
  /\ worker' = "chassis"
  /\ UNCHANGED <<vars, sessionVars, rounds, workVars, topicVars>>

\* The obstacles, taken last, are no part of the stage's state here.
NoChassisSample ==
  /\ worker = "chassis"
  /\ worker' = "localization"
  /\ rounds' = rounds - 1
  /\ UNCHANGED <<vars, sessionVars, workVars, topicVars>>

\* A round found nothing, the rounds are used up, or Stop was called.
AuxDone ==
  /\ worker = "localization"
  /\ worker' = "sample"
  /\ rounds' = MaxDrainRounds
  /\ UNCHANGED <<vars, sessionVars, workVars, topicVars>>

\* Mutant of ConsumeReset: the latched command resets every frame.
KeepReset == latch' = latch

\* BuildTrajectoryFromInput: reset_history is one-shot.
ConsumeReset == latch' = [latch EXCEPT !.reset_history = FALSE]

\* HandleOneSample.  The trajectory may fail to be written: nothing is undone.
HandleOneSample ==
  /\ worker = "sample"
  /\ samples > 0
  /\ Process(latch)
  /\ ConsumeReset
  /\ resets' = resets + (IF latch.reset_history THEN 1 ELSE 0)
  /\ samples' = samples - 1
  /\ worker' = "loop"
  /\ UNCHANGED <<sessionVars, rounds, aux, fromApi, commands>>

\* The sample could not be taken or has no valid data, or there is none.
NoSample ==
  /\ worker = "sample"
  /\ samples' \in {samples, IF samples > 0 THEN samples - 1 ELSE 0}
  /\ worker' = "loop"
  /\ UNCHANGED <<vars, sessionVars, rounds, workVars, commands>>

-----------------------------------------------------------------------------
(* The others: publishers, and callers of the C API. *)

PublishCommand ==
  /\ dds
  /\ \E sample \in CommandSamples :
       commands' = IF Len(commands) < Depth
                   THEN Append(commands, sample)
                   ELSE Append(Tail(commands), sample)
  /\ UNCHANGED <<vars, sessionVars, worker, rounds, workVars, samples>>

PublishSample ==
  /\ dds
  /\ samples' = IF samples < Depth THEN samples + 1 ELSE samples
  /\ UNCHANGED <<vars, sessionVars, worker, rounds, workVars, commands>>

CallApi ==
  /\ UpdateVehicleState \/ ClearVehicleState
  /\ fromApi' = TRUE
  /\ UNCHANGED <<sessionVars, worker, rounds, latch, aux, resets, topicVars>>

Worker ==
  \/ EnterLoop \/ TakeCommand \/ CommandsDone
  \/ HandleLocalizationSample \/ HandleChassisSample
  \/ NoLocalizationSample \/ NoChassisSample \/ AuxDone
  \/ HandleOneSample \/ NoSample

\* A call of Start or Stop goes on.
Continue ==
  InitDds \/ StartWorker \/ StartWorkerFails \/ Join \/ CleanupDds

ComponentNext ==
  \/ Start \/ Stop \/ Continue
  \/ Worker
  \/ PublishCommand \/ PublishSample \/ CallApi

ComponentSpec == ComponentInit /\ [][ComponentNext]_componentVars

(* The worker and the caller inside Start or Stop are scheduled; nobody has *)
(* to call or to publish.                                                  *)
FairComponentSpec ==
  /\ ComponentSpec
  /\ WF_componentVars(Worker)
  /\ WF_componentVars(Continue)

-----------------------------------------------------------------------------
(* Safety. *)

(* The worker finds its readers and its writer whenever it touches them,   *)
(* and no Start replaces a worker that was not joined (Stop joins before it *)
(* cleans up; a Start that fails leaves nothing behind).                   *)
SessionsAreClean ==
  /\ worker \in Working => dds
  /\ client \in {"starting", "spawning"} => worker = "none"
  /\ client = "free" /\ ~running => worker = "none" /\ ~dds

(* However long a command stays latched, and over however many sessions,   *)
(* its reset_history resets one frame (BuildTrajectoryFromInput).          *)
ResetsOncePerCommand == resets <= 1

(* Whatever samples came in which order, between the calls of the C API    *)
(* the stage knows a vehicle exactly while the cache has a localization,   *)
(* with the cached speed: chassis data alone are no vehicle state, and no  *)
(* handler changes the cache and forgets the stage (ApplyAuxVehicleInput). *)
VehicleFollowsCache ==
  ~fromApi =>
    vehicle = IF aux.has_localization THEN SpeedOf(aux) ELSE "unknown"

(* The component is a user of the stage: whatever it drains, starts or     *)
(* stops, the stage sees commands, samples and vehicle states that         *)
(* StageParkingAdapter allows, so what holds of the stage holds here.      *)
UsesStage == Spec

(* An invalid chassis sample does not enter the planning state: no frame   *)
(* counts towards the finish for the standstill that such a sample leaves  *)
(* behind.                                                                 *)
InvalidChassisCountsNoFrame ==
  [][runtime'.consecutive_ready_frames > runtime.consecutive_ready_frames =>
       ~(aux.speed = "refused" /\ vehicle = "standing" /\ ~fromApi)]_componentVars

-----------------------------------------------------------------------------
(* Liveness. *)

(* Stop returns, whatever the publishers do.                               *)
StopReturns == client = "joining" ~> client = "free"

(* A publisher that floods the command topic does not keep the worker from *)
(* the samples: the drain is bounded (kMaxCommandDrainRoundsPerCycle).     *)
SamplesAreLookedAt == running /\ worker = "loop" ~> worker = "sample" \/ ~running

=============================================================================
