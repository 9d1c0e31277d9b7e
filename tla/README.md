# Valet parking: a TLA+ model of the planning core

The modules here model `source/valet_parking`: the threads that plan parking
paths and the search they run, the frames that use them, the tasks of a frame
(region of interest, path partition, speed), the stage that keeps state from
frame to frame, and the component and its messages around it. TLC checks the
models on small instances; TLAPS proves the safety properties of the stateful
parts for every value of the constants.

Paths below are relative to `src/source/valet_parking/`; *manager* is
`open_space_thread_manager.cc`, *provider* `open_space_path_provider.cc`,
*adapter* `src/valet_parking_stage_parking_adapter.cpp`, *component*
`src/valet_parking_component.cpp`, *partition* `open_space_path_partition.cc`,
*search* `hybrid_a_star.cc` with `path_generator.cc`.

## 1. The system

One *SelectedSlot* sample in, one *PlanningTrajectory* sample out:

| part | state it keeps | operations | interacts with |
|---|---|---|---|
| **Component** (`component`, C API) | `running_`, worker thread, latched command, auxiliary vehicle cache, last error | Start, Stop, the 20 ms worker loop, HandleCommand/Localization/Chassis/Obstacle/OneSample | reads DDS topics, calls the adapter, writes the trajectory |
| **Messages** (`generated/`) | none; what a constructor does not zero is whatever memory held | serialize, deserialize, accessors | every sample the component reads or writes |
| **Stage adapter** (`adapter`) | `RuntimeContext`: path history, speed frame, finish counter, direct command, exit latch, vehicle state, obstacles | Process, UpdateVehicleState, ClearVehicleState, UpdateObstacles, ClearObstacles; all under `runtime_mutex_` | runs ROI, provider, partition and speed optimizer in order |
| **ROI decider** | axis, opening, origin and whether the lot was adjusted, of the lot before | Process(lot, pose) -> region, goal, bounds | the selected lot has a decider of its own; one more serves all other lots of a sample, one after the other |
| **Path provider** (`provider`, RunPathProvider of `adapter`) | the history of the last path, the provider object | reuse decision, PrePlan, Plan (submit, poll, time out), splice of the history | owns one thread manager; a reset of the planning state destroys it |
| **Thread manager** (`manager`) | a pool of search workers, one target worker, `search_plan_disabled_` | PrePlan, TargetPlan, CancelTargetPlan, PollTargetOutput, Reset; SearchLoop, TargetLoop | its threads call the generator |
| **Generator and search** (`search`) | warm start path; during a search the open, closed and end sets | Plan(early_stop, input) -> path, warm start path or error | Reeds-Shepp paths, collision checks |
| **Reeds-Shepp paths** | none | ShortestRSP | the search's expansions to the goal |
| **Path partition** (`partition`) | the path that is followed and the place on it, warm start, destination reached, gear changes, three clocks | Execute, Reset | called by the adapter once a frame with the provider's path and the last published gear; answers with the segment to drive |
| **Speed optimizer** | `interactive_stage_` with three clocks and two counters, the last curve, the buffer in use | Process, Reset | the segment to drive, the obstacles, the last speed frame |
| **Straight path** | the line of the direct command, its mode | Process, Reset | direct commands only |
| Lite contracts, function manager, task runtime | nothing | turn the adapter's state into the fields of `status_reason` | composed in the branches of Process, published with the trajectory |
| Tools, mock publishers, `source/math`, `source/sort` | | not part of the running system | |

What makes each part correct, and what makes it hard:

* **Thread manager.** Three kinds of threads, a mutex per worker, early-stop
  flags that are replaced while a run still holds the old one, and a
  `search_plan_disabled_` flag that the target thread clears after it has
  released its lock. An answer must come from the run of its own plan and suit
  its lot; a cancelled plan must not deliver; a queued candidate must not be
  overwritten, and no lot be held twice; no notification may be lost; stopping
  must terminate.
* **Path provider.** A timeout races with the answer, a failed frame destroys
  the manager while searches run, candidates outlive the frame (and the
  obstacles) they were computed for. A frame must end, must go on only with a
  path to the selected lot, and must leave no run behind.
* **Search.** It may be called off, or run out of time, between any two steps; a
  node keeps pointers to parents whose lengths change; motions are refused,
  collide or meet closed cells in the middle of an expansion. An answer must be a
  path that the car can drive, and "search space exhausted" must be true.
* **Stage adapter.** Eleven ways out of `Process`, most of which reset some
  memory. What survives must fit together; a direct command must leave nothing
  for the ordinary planner; a finish must be earned and then held.
* **Path partition.** It chooses between the provider's new path and the one it
  followed, keeps its place by two indices, changes segment only at standstill
  (unless the yaw error, the distance or a clock forbids it) and decides when
  the mission is over. It must lead the vehicle forward on a path it keeps, must
  not finish what has not begun, and must stay finished.
* **Speed optimizer.** A vehicle that stopped before an obstacle waits, asks for
  another path, and drives on, by clocks that some transitions start and others
  forget. It must not drive off into something, must not wait for ever in the
  clear, and must compare a curve only with the one that was delivered.
* **Tasks as functions** (region, curves, trajectories, splice, messages). Cases
  over cases: labels that start at any corner, distances of boxes, words of
  Reeds-Shepp paths, queues of limits, indices one past an end.
* **Component.** Several commands are drained before a frame, the latched one is
  used again by every frame and outlives Stop, the reset bit is one-shot, the
  auxiliary topics compete with the C API. The worker must have its readers, a
  reset must be executed once, the stage must not know a vehicle nobody vouches
  for, and a flood of samples on one topic must not starve the rest.

`PROJECT.json` lists each hazard with its line and the properties that cover it.

## 2. Modules

| module | of | kind |
|---|---|---|
| TargetPlanService | what a caller of the manager relies on | abstract specification |
| OpenSpaceThreadManager | manager | threads, implements TargetPlanService |
| PathProviderFrame | provider, RunPathProvider | extends OpenSpaceThreadManager by its caller |
| HybridAStar, MCHybridAStar | generator and search | state machine over problems, maps of the instance |
| StageParkingAdapter | Process and the vehicle state | state machine over commands |
| StageReport | `status_reason` | extends StageParkingAdapter by what a frame says of itself |
| ValetParkingComponent, MCValetParkingComponent | component, C API | extends StageParkingAdapter by its callers |
| OpenSpacePathPartition, MCOpenSpacePathPartition | partition | state machine over frames |
| OpenSpaceSpeedOptimizer | speed optimizer, interaction | state machine over frames |
| Geometry | vec2d, line_segment2d, box2d, polygon2d | functions |
| OpenSpaceRoiDecider | ROI decider | functions |
| SpeedCurves | sampling, limits, choice of a curve | functions |
| OpenSpaceStraightPath | straight path provider | state machine over direct commands |
| PathHistory | the path that is remembered, its reuse and its splice | extends AdapterDecisions by frames, obstacle reports, answers and resets |
| Trajectories | paths, interpolation, published points | functions |
| AdapterDecisions | what the adapter decides before it asks for a path | functions |
| ReedsShepp | Reeds-Shepp paths | functions |
| Topics | generated classes, obstacle reports | functions |
| MCPlanningTasks | poses problems to the functions, beside OpenSpaceSpeedOptimizer, OpenSpaceStraightPath and PathHistory | instance |
| ...Proofs | | theorems of the module they are named after; PathProviderFrameProofs has the manager's as well, StageParkingAdapterProofs those of the reports, OpenSpaceRoiDeciderProofs those of the geometry, PlanningTasksProofs those of the straight path, the history, the speed optimizer, the curves and their trajectories |

### TargetPlanService
What a caller of TargetPlan / CancelTargetPlan / PollTargetOutput relies on:
one request at a time, each answered at most once, by an error or a path that
suits the request, or by "cancelled" after it was withdrawn.

### OpenSpaceThreadManager
One action per lock region of `manager`:

| action | code |
|---|---|
| `PrePlan(input)` | one candidate of PrePlan: duplicate check, first unassigned worker, else an idle one, assignment, notify |
| `DisableSearch`, `SubmitTarget(input)` | the two lock regions of TargetPlan |
| `CancelTargetPlan`, `Ready(id)` | CancelTargetPlan with the current id; the condition of PollTargetOutput |
| `SearchSleep`, `SearchExit`, `SearchTake`, `SearchPublish` | SearchLoop: wait, leave, take the task, publish |
| `TargetSleep` ... `TargetTake`, `TargetUseCandidate` / `TargetGenerate`, `TargetPublish`, `TargetEnableSearch` | TargetLoop, the unlocked tail included |
| `StopBegin`, `StopSearchWorker`, `StopTargetWorker`, `Join`, `StartThreads` | StopThreads worker by worker, Reset or the next manager |
| `SpuriousWakeup` | a condition variable may always wake |

Waiting is explicit: a thread that found its predicate false is `asleep` and
moves only when notified, so a lost wakeup would be seen. An early-stop flag
(`shared_ptr<atomic<bool>>`) is the id of the plan it was made for; `raised` is
the set of flags that are true. That identity is exact because TargetPlan makes
a new flag with every id. A search worker's flag is only its value, because a
worker is never given a task while it runs. Paths are known by the input they
were computed from: the lot (`path_id`) and everything else (`scene`).
The second pass of PrePlan takes *any* idle worker: it locks the workers one by
one, so it can miss one that finishes behind it; that is an over-approximation
of the order in which it looks. `cancelled` and `publisher` are history
variables; nothing reads them but the properties.

### PathProviderFrame (extends OpenSpaceThreadManager)
The caller: `fpc` is its place in RunPathProvider / OpenSpacePathProvider::Plan.
A frame reuses the history (`ReuseFrame`) or offers other lots, submits, polls
(`PollReady`, `PollAgain`), or times out (`Timeout`, which the code may do
before any poll). The manager's actions are called through, never repeated; the
threads step in between (`ThreadStep`). `Deliver` ends the frame well, or with
a failure whose reset stops the threads (`ResetPlanningState`, `TearDown`).
The replan bits that come from outside the model (target moved, vehicle off the
path, speed plan, collision risk) are the nondeterministic `other`.

### StageParkingAdapter
`Process(command)` with one action per way out: `DirectControl`,
`DirectPathFails`, `StageControlStop`, `UnsupportedParkingOut`,
`InvalidSample`, `DirectRelease`, `FinishHold`, `UnfitLot`, `ProviderFails`,
`PartitionFails`, `Planned`; and the two updates of the vehicle state. A task
is the set of its answers. Each action is atomic because `runtime_mutex_` is
held over the whole call. A speed frame is known by the planner it came from,
since the only danger is that the wrong planner starts from it. `since` and
`over` are history variables.

### StageReport (extends StageParkingAdapter)
One `Report...` action for each branch of `Process`: the branch, and the report
it writes. A report has its contracts in the order of the text, the next stage of
the context taken when the frame began (`BuildStageProcessContextLite`; only a
`Mark...` changes it afterwards) and the `sys_run_state` of the function manager.
A contract names the state of the mission, the next stage, and the lifecycle: what
becomes of the history, the speed frame, the direct command and the stage, and
what of them is there. Where the code writes a contract before it resets or plans
(a direct release, a direct command), so does the action. Three branches publish
two contracts: a direct command whose speed plan fails (adapter, line 2788), one
whose path fails (line 2826), and an ordinary frame whose speed plan fails (line
3302). Of each text only what it says is kept, and what parking_status adds to a
running mission is not.

ReportIsTrue holds of every contract but one kind, which it names (`Overtaken`): the
contract of a direct command is written before its path and its speed are planned,
and is published unchanged beside that of the fallback. It then says that the speed
frame is updated, which was cleared, or that the ordinary history is preserved,
which was reset. No document says which of the two a reader is to believe, so this is
an open question of section 5 and not a finding.

### ValetParkingComponent (extends StageParkingAdapter)
Three parties: the caller of Start and Stop (`client`), the worker thread
(`worker`) and everybody else. `Start`, `InitDds`, `StartWorker` or
`StartWorkerFails` are Start; `Stop`, `Join`, `CleanupDds` are Stop, which takes
time because it waits for the worker. The worker goes round: `EnterLoop`,
`TakeCommand`s, `CommandsDone`, rounds of `HandleLocalizationSample` /
`NoLocalizationSample` and `HandleChassisSample` / `NoChassisSample`, `AuxDone`,
`HandleOneSample` or `NoSample`. Each handler is one action: it works on state of
the worker alone and calls the stage once, under the stage's mutex.
`HandleOneSample` is `Process(latch)` of the stage, so every frame of the stage
happens in every session, with every latched command. `CommandsDone`, `AuxDone`
and `NoSample` are always possible, for a topic may fail to give a sample
(`take_next_sample` returns an error) whatever it holds. The topics are external:
`commands` is a KEEP_LAST queue, `samples` a number, because a frame's outcome is
left open by the stage. The wait of 20 ms at the end of a round is not an action:
it is limited, so nothing depends on its notification. `resets` (frames the
latched command has reset) and `fromApi` (who wrote the vehicle state last) are
history variables. `MCValetParkingComponent` has the commands of the instance.

### OpenSpacePathPartition
One `Execute` per frame: `UpdateParam` (what the vehicle and the clocks say),
the alternatives (`HistoryAlternatives`, `NewAlternatives`, each through
`PathMatch` and `UpdatePathMatchIdx`), `PathDecider` and the resulting
`Verdict`, `FinishStatuses`, and one action for each decision: `TaskFinish`,
`PrepareFinish`, `NoValidPath`, `Follow`; an overtime, like a published segment
of one point, fails the frame, and the stage resets (`Reset`). `DirectControl`
is the only other way the published gear changes. Geometry is known by what it
answers: any later point of the segment may match, the shift point may be
reached, near or far, the pose may fit or not. A clock is the time since it was
set, in units of the thresholds. Which status a path has matters only as a set
of reasons, so the bit sum of the code is a set. A vehicle that is standing and
not at the shift point stays on its segment, as in the code; can_shift_now is
always true where it is looked at, because a moving vehicle returned before.
`moved` is a history variable. Of three stubs of the code that always say no
(wheel mask, blocked by a curb or a car) and of IsTrackAbnormal, which compares
the vehicle with a start point that is the vehicle, nothing is modelled.
`MCOpenSpacePathPartition` has the routes of the instance.

### HybridAStar
One planning problem at a time. `StartPlan(p)` is the beginning of `Plan`, for any
problem, with everything a search keeps made new: manager (lines 268 and 322)
builds a generator for each plan, so the warm start is the problem's own, and the
counters of failed and overlong searches, which would cut less and
extend further, are zero wherever they are read. `Extend...` is GenerateLocalExtensionPath, by which a car
that stands too close to something first moves away; `BeginSearch`,
`SearchPop`, `SearchSkip`, `SearchAdd` are the loop of the search, one
action for a node that is taken and one for each of its motions;
`Deliver`, `NoneFound`, `SearchTimeout`, `Rejected`, `Hopeless` are its ends,
the last four with the warm start path of the problem if it has one. `EarlyStop`
is the flag of the manager, at any moment. Geometry is a `Scene`: the poses, the
cell of each, where its motions lead and what they meet, and its Reeds-Shepp
curve to the goal. A node carries the moves that lead to it, instead of
a pointer to its parent: neither a node's parent nor its pose ever changes,
only its length, which a parent loses to a child (`ParentAfter`). The time of a
search is chosen anew at each expansion. Costs and heuristics are data of the
scene; they matter by the order in which cells are taken, which the model leaves
open where they are equal. `MCHybridAStar` has eleven problems on a map of seven
poses.

### OpenSpaceSpeedOptimizer
`Execute` is one frame: where the path first meets a static and a moving
obstacle (`Frames`), the buffer (`UpdateMiddleBuffer`), UpdateInteractiveStage
(`FromInit`, `FromWaitReplan`, `FromWaitObstacle`), and the answers:
`PreCheckStop` and `WaitingStop`, `SampledDrive`, `BackUpDrive` (brake) and
`NoDrive` (neither). `Reset` is a new session. Waiting for another path needs
`enable_wait_for_replan`, which is false by default and set by nothing in this build;
the run has it both ways (`ReplanSettings`). A clock is known by its age, up to `AgeCap`; a curve by how far it
drives. `blocked` (the age of the last frame that saw something in the way) and
`fresh` are history variables. `fresh` holds for a wait that began in INIT and
has seen nothing in the way since: UpdateInteractiveStage does not start the
clock of such a wait for an obstacle, so that it may end at once
(`path_handle.cc:834`).

### OpenSpaceStraightPath
`StopFirst` is a frame that the stop decision ends, `LeadOn` one that answers a
path; `line` is the original point and direction that the provider remembers
while the mode stays, `answer` the path of the last frame, with the frame it is
of. Poses lie along the axes and headings are quarter turns, so a place on the
line is a whole number from its foot. `driven` is a history variable, the frames
since the last reset that were led along a line; `MaxDriven` bounds it.

### PathHistory (extends AdapterDecisions)
`path_provider` is the history that `PathProviderRuntimeState` records,
`runtime_obstacles` what `UpdateObstacles` and `ClearObstacles` leave. A frame
reuses the history (`ReuseHistory`) or asks for a path (`AskForPath`), whose
answer is recorded (`RememberPath`) or whose failure resets everything
(`ForgetPath`, which also stands for the resets of other commands). While a
frame is under way the adapter holds its mutex, so no obstacles come between a
question and its answer. `planned_with` is a history variable: the obstacles when
the remembered path was planned. The signature of the code is a 64-bit hash;
here it is the list of what is hashed, so two lists never share one.

### Geometry, OpenSpaceRoiDecider, SpeedCurves, Trajectories, AdapterDecisions, ReedsShepp, Topics
The functions of a frame, on exact numbers: coordinates are whole (5 cm in the
region and the splice), headings quarter turns or 48ths of a turn, a distance
is known by the fraction of its square, the ways of a speed curve are kept twice,
and a place of a Reeds-Shepp word is a sum of twelve unit vectors. Nothing is
rounded where the code does not round, so results are compared for equality.
What the functions remember between calls is a parameter and a part of the
result (`Process(memory, ...)` of the region).
`Topics` describes each of the sixteen generated classes by its members, in the
order in which they are written and the order in which they are read;
`HandleObstacleSample` leads a report through the component and the adapter to
the obstacles of the planning.
`MCPlanningTasks` has one initial state for every problem that is posed to a
function, next to those of the three machines, of which one runs at a time; a
property has one conjunct for each kind of problem it is about, and says what a
reference written independently of the code says of the answer.

### Proof modules
`PathProviderFrameProofs` (with the manager's), `StageParkingAdapterProofs` (with
the reports'), `ValetParkingComponentProofs`, `OpenSpacePathPartitionProofs`,
`HybridAStarProofs`, `PlanningTasksProofs`, `ReedsSheppProofs`,
`OpenSpaceRoiDeciderProofs`. What a property of MCPlanningTasks says of one answer
stands at the end of the module of the function (`SampledCurvesStop` and `CutsBefore`
in SpeedCurves and Trajectories, `LotHoldsVehicle` in OpenSpaceRoiDecider): the run
poses it on its problems, the theorem on all.

## 3. Runs

| run | instance | shows |
|---|---|---|
| manager_safety | 2 search threads, 3 lots, 1 scene, 2 plans | no interleaving mixes up plans, lots or candidates; the manager implements TargetPlanService; plans settle |
| frame | 1 search thread, 3 lots, 2 scenes, 2 plans per manager, 1 poll | delivered lots, usable history, no run left behind; every frame ends and queued candidates are searched |
| search | 11 problems, 7 poses, 6 cells, clock to 5 | answers are drivable paths, no cell twice, a search that fails has left nothing untried, every problem is answered |
| stage_safety | 2 required frames | consistent memory, direct control leaves no trace, finishes are earned, reports are true of what a frame leaves, but for the contract a fallback overtakes |
| component | depth 1, 1 drain round, a parking command with reset and a FINISH, 1 required frame | sessions are clean, a reset is executed once, the stage follows the vehicle cache and is only used as specified; Stop returns, samples are looked at |
| partition_safety | 2 routes of 1 and 2 segments, 1 gear change counted, limit 1, thresholds of 0 and 1 | paths are followed forward, a finish needs a movement and is held |
| planning_tasks | paths of 0 to 2 margins, waits of 2 and 3; direct drives of 3 frames; 6 remembered maneuvers; about 12 500 problems | the speed optimizer's waits; direct paths keep their line; splices follow the history; region, geometry, curves, trajectories, words, messages |
| stale_candidate, finish_hold, invalid_chassis, incomplete_path, right_side | as the run beside them | five statements of the docs and comments that the code does not keep (section 6) |

Why the bounds are enough. Two search threads and three lots are the least with
which the pool is full, a duplicate meets an idle worker, and a worker is
re-assigned. The frames have one search thread, which the two candidates of a
frame compete for; that two change nothing between threads is manager_safety's.
Two plans are the least with which a run is stale; a third adds
only another stale run, and the target thread has one run at a time. Two scenes
tell an old candidate from a new one. `MaxPolls = 1` has all orders of poll,
answer and timeout; more polls only repeat `PollAgain`. `MaxPlanId` bounds the
plans of ONE manager; the ids start again with the next one, and the runs
restart managers without limit.

The map of the search has two ways to the goal with a change of gear, one of
which turns too early, two poses in one cell, a loop, a steering that is cut off,
a motion out of bounds and one into an obstacle. Of the
problems, two need the local extension, two cannot be helped by it, one has a
goal that is in the way, two have no way to the goal at all, so that the search runs
until nothing is left, and two are trace adjustments. `MaxExplore = 2` and
`MaxClock = 5` have searches that end early and searches that run over the limit by any amount.

`RequiredFrames = 2` of stage_safety is the code's own value.
A queue of depth 1 that is drained once is always full, always overwritten and
always at the limit of its rounds; a longer one only defers this. Two commands
and "none" are what it takes to replace one with a reset by one without. The
component counts one ready frame because stage_safety has two.

In partition_safety a route of two segments has a gear change and a last
segment, one of one segment has neither; a segment of three points has a first,
a last and one between, of which one is matched again or left out. Routes with
2, 1 and 0 changes left meet a limit of 1 from both sides. A clock that may jump
by 2 passes each threshold by stopping short of it, at it, or beyond.

In planning_tasks a path of 0, 1 and 2 margins is shorter than, equal to and
longer than a margin; `MinWait = 2` is the least with which a clock that was
never started differs from one that ran for a frame (with 1, the wait of
`path_handle.cc:834` looks as any other); `MaxReplanWait = 3` and 2 lie on both
sides of it. The problems are exhaustive on small ranges where the function is
a case analysis (segments and rectangles on a grid of 7 x 7, curves of up to
three pieces, lists of up to six limits, lots along either axis, some too
short or too narrow, with the labels of their corners in every rotation and
reflection,
reports of up to two obstacles and of 128 and 129), and picked where
only a few shapes differ (paths with a corner, a zigzag, and a heading that
wraps). A direct drive of three frames has a change of direction with frames on
both sides of it; 8, 10 and distances of 0, 6, 9 and 12 meet the default, the
cap, and lengths that are no whole number of steps. The history has six maneuvers
(straight, with a corner, with a change of gear, with segments of no and of one
point) and frames on, beside, before and behind them; the obstacle lists are the
same obstacles in another order, moved, and with one that has no width, which
is refused as a whole.
A word of the Reeds-Shepp problems has arcs of whole twelfths of a turn and whole
lines, which is where all quantities are exact; every family of words is found
by some of them.

The theorems hold for all values. The deadlock check is on in every run.

Fairness. A thread that can run is scheduled, and a method that was entered
goes on: weak fairness of each search thread, of the target thread and of the
rest of a method. The code's mutexes are held for a bounded time and never two
at once except in PrePlan (manager, then worker) and TargetPlan, which releases
the first before it takes the second, so nothing stronger is needed. It includes
that the generator returns, which is PlanEnds of the search, under weak
fairness of its own steps: its open set only takes cells that were never there.
In the component the worker thread and the caller inside Start or
Stop are scheduled; that a frame ends is FrameEnds. In the speed optimizer frames
go on. Nothing is assumed of the callers and the publishers: no new call or
sample has to come.

## 4. Proofs

All by TLAPS, for any number of threads, lots, scenes, plans and polls, any
routes, maps, lengths and thresholds.

*Manager.* `IInv` is `TypeOK`, and five parts that say what TLC's invariants
leave implicit: `CallerInv` (a plan is submitted only while the caller is
inside TargetPlan, which workers a stop has told), `PlanInv` (which flag the
target worker holds, who finished the plan), `RunInv` (where the target
thread's run stands in relation to the plan: same id, or older and told to
stop), `WorkerInv` (what a search worker's flags mean for its thread's place)
and `OneWorkerPerPath`. The invariants alone are not inductive: that a finished
plan was finished by its own run needs that a run with the current id is the
only one, and that a cancelled plan ends as cancelled needs that the flag its
run holds is the flag that was raised. `ImplementsService` maps every step to a
step of TargetPlanService or a stutter.

*Frames.* `FrameInv` adds where the manager stands while the frame is at each
place (`PlaceInv`), that no run is under way between frames (`QuietInv`), who
can have left search disabled (`TailInv`), and whose answers the history and
the result are (`AnswerInv`). `ManagerStep` says that every frame step is a
step of the manager or leaves it alone, and reuses the invariant of the manager.

*Stage.* `IInv` relates the memory to its history (`Fits`). `MemoryFits`: what is
kept belongs together, and a speed frame of the straight path is only there
while the direct command is, or another command took over. `FinishFits`: the
counter is the number of ready frames in a row, and the latch was earned. Both
are stated of any runtime and history, because a frame passes through several.

*Reports.* `ReportingStageIsStage`: a frame that reports is a frame of the stage.
`ReportsAreTrue` follows from the invariant of the stage with one lemma for each
branch, since a report is about one frame; a branch with two contracts is proved
contract by contract (`TwoContracts`), and only the contract of a direct command
beside its fallback is excepted. That parking which is said to start
goes on from no speed plan of its kind needs that an ordinary speed frame is
never there without a history, which is `MemoryFits`.

*Component.* `ComponentIInv` is the type, `SessionInv` (where the caller is tells
whether the readers and the worker exist; SessionsAreClean says nothing of a
session under way), `ResetInv` (a command that still has its reset has reset
nothing), `RoundsInv` and `VehicleFollowsCache`. `ComponentUsesStage` maps every
step to a step of the stage, so what is proved of the stage holds of the running
component; `ComponentFinishesAreEarned` draws that conclusion for the finish.

*Partition.* `Earned`: whatever may end a mission (warm start, braking, the
reached flag) was earned by a movement, and a reached destination is what was
published last; FinishNeedsMotion alone is not inductive, since the flag is set
from the other two. Where a path leads is a chain of lemmas, one for each choice
(`PathMatchFollows`, `HistoryFollows`, `ChoiceIsThere`, `VerdictIs`), from which
PathIsFollowed and the type of the kept path are drawn.

*Speed optimizer.* RemembersDelivered is inductive. For the waits, `ClocksAgree`
relates the clock that ends a wait to the last frame that saw something in the
way: the clock is no older than that frame, but for a wait that began in INIT
(`fresh`). WaitsUntilClear follows for each transition out of a wait, since a
clock beyond `MinWait` means as much of `blocked`. The attempt to prove this with
`fresh` limited to the first frame failed, and showed that a wait of INIT may
stay without a clock for several frames; the bound of the run then was too small
to see it. Most of the proof is about types: `FramesAreTyped` (the nearest of
three points is one of the lengths) and `ProcessKeepsTypes`.

*Search.* The paths are the moves a node carries, so the invariant is one of
nodes. `SearchInv` says of every node of the open set (`OpenFits`): its moves
are a chain from where the search began to its pose, they enter each cell once,
its length is no more than its last run, or zero if it may turn, and all their
cells have nodes; of the accepted candidates the same with a curve at the end
(`PathFits`), and of the local extension, from which the second search starts,
likewise (`PrefixFits`). PathIsDrivable alone is not inductive: that a path turns
only after its length needs that a length set to zero by a turn meant
`MinLength` before, and NeverInCellTwice needs that a child is only put where
its cell has no node. `ChildFits` and `LoopKeepsOpen` are about one motion and
one round of the loop, `ArrivalFits` and `ConnectionFits` about the two ways to
end a path, and `FoundFits` joins the extension to the path of the search, which
goes on in the gear it was forced to start in.
`FailureIsExhaustive` has an invariant of its own (`SearchTries`), since
NothingLeftUntried speaks of the end of a search only: as long as there is no
candidate, what has a node is queued or closed, and a closed cell is exhausted but
for the motions of the expansion under way. It rests on `NodesStayWhatTheyAre`: a
parent that loses its length could turn already, so the loss changes nothing of
where it may go; and what the generator refuses may not be driven (`RefusedMayNot`).

*Straight path.* `DirectPathsKeepTheirLine` needs that the remembered line is the
one where the frames since the last reset began to drive in their direction
(`LineBegan`): the property speaks of the answer of one frame only. The lemmas
below it are about points: the foot of a vehicle on the line is on the line,
and steps along it stay there (`StaysOnLine`, `StepsAlong`).

*History.* The invariant is `HistoryFits`: the signature that is kept is that of
the obstacles the path was planned with, and what is asked is decided by the
history and the obstacles that are still there. SpliceFollowsHistory alone is not
inductive, because it says nothing of a history that no frame has looked at yet.
That a splice leads along the rest of a segment is a chain of lemmas about paths
of any length: `NearestIsNearest` (the nearest piece exists, since distances are
fractions with a total order), `FootIsJustBeyond` (the vertex the projection
names ends a nearest piece, also where the foot lies beyond the piece),
`NormalizedPath` (the ways that are counted anew grow), `RebasedPath`, `RestIs`
and `WarmStartIs`. The answers are assumed to be paths with gears, nothing is
assumed of their shape.

*Curves.* `SmoothedLimitsAreLeast`: the queue of SmoothSpeedLimits holds exactly
the places that can still become least (`IsQueue`), for limits and windows of any
size. `CheapestCurveIsChosen`: the blocks of the threads cover all curves, so the
cheapest slot is a cheapest curve, for any number of threads.
`KnotsAreOfTheCurve`: of a curve of any pieces that never goes backwards, Discrete
delivers points of it at every whole step, in order and up to its end
(`KnotsLieOn`), if no piece is shorter than the step. The pieces meet, since Init
and EvaluateFast compute the same way (`CurveIsJoined`); Discrete, which goes on by
one piece at most, is never behind by more (`PiecesHoldTimes`); and where two pieces
meet, both lead to the same place (`AtIs`). `RestIsOfTheCurve`: what
UpdateOriginByDiffTime leaves of a curve is that curve from then on, because it only
shortens the first piece, and the others keep their distances (`JoinedRest`).
`SampledCurvesAlwaysStop`: each of the curves that SampleProcess puts together has
the speeds of neighbouring legs in common, its ways add up to the distance, and the
last leg ends at rest (`SampledStop`); and for a vehicle that can stop in time the
one with the lowest top speed and the hardest braking is among them
(`SomeCurveIsSampled`). It is stated for ways that
come out whole, for bounds with a least speed no greater than the greatest, and for
curves that brake no harder than the vehicle may (0.2 m/s2 of 2.5 in the code). Inductions
over a length are done over the set of numbers for which the claim holds
(`SetInduction`, `LeastNumber`).

*Trajectories.* `DrivesEndBeforeTheCollision` joins the two: the knots of a curve, on
a path that is cut off at the reserve before a collision. Its lemmas
are about a place on a path of any length: the point that Evaluate gives lies at it
(`EvaluateReaches`), and knots that grow (`KnotsAreOfTheCurve`) are met by points
that grow (`KnotsKeepToPath`). `BrakingEndsOnThePath` is the same for the trajectory of a
braking, which is made without a curve: its knots slow down to the standstill, or
to the first knot beyond the path, which Evaluate leads to the path's end. It
is stated for braking times that come out whole, where nothing is rounded. Together
with the knots, the rest and the sampled curves these are the parts of
DrivesStopInTime, but for two that are about shapes of a path: how the
heading turns along it (TurnsSteadily) and the ways the messages publish.

*Region.* `LotsHoldVehicles` is of every vehicle, pose and lot along the axes. A lot
is four corners in turn (`IsLot`); whatever the labels start from, relabelling leaves
it one, with the same corners (`ExtractedLots`). The sizes that
CheckReceiveParkinglot compares are the sides of the rectangle (`LotSizes`), so
those who pass have room (`NormalLots`), and where the goal puts the vehicle's corners
is computed for each of the four directions (`VehicleCorners`, `UprightHolds`,
`LateralHolds`). That the opening faces the vehicle is about the scores of the two
openings: beyond an end, they differ by more than the margin of the switch
(`ScoresSwitch`), whichever distance is compared next. An early form of this claim
was false: StabilizeSlotOpeningForLocalGoal may turn the lot round, so
OpeningFacesVehicle names that case. The pose's heading plays no part.
`RegionsSpanManeuvers`: bounds that are widened to hold a point and are then cut by
the sensed area hold it if the area does (`Clamped`), the area is as wide around the
vehicle in the frame of a lot (`SensedArea`), and the bounds of finitely many
points are numbers (`BoundsAreNumbers`), without which Min and Max say nothing. That
the goal is sensed is a hypothesis: a goal beyond 20 m is cut away.

*Geometry* (in OpenSpaceRoiDeciderProofs). A bound of the region is moved by a
slack if Box2d finds that it overlaps the vehicle at the start or at the goal; where two bounds
meet, and whether an edge of an obstacle crosses that of a polygon, is what LineSegment2d
finds. `CollisionsAreSeen` is that Box2d finds the right ones: there is an overlap if
and only if a point of the segment lies in the box, for all boxes and segments. A
point of a segment is n of d parts of its way (`PartWay`), so that whole numbers do
for every rational point. The distance of a point from a segment is 0 if and
only if the segment goes through it (`DistanceVanishes`); the frame of the box and the
mirrored and exchanged axes change nothing (`FramesAreSharp`, `MirrorImages`,
`AxesExchanged`); and the table of cases that remains, by the zones of the two ends, is read
entry by entry (`UpperRightToBelow` and so on, `BesideVanishes`): the corner that an entry
asks about is the one on whose far side such a segment misses the box. Boxes have a length and
a width, as the vehicle has. `OverlapsAreMeetings`
says the same against the reference of the run, which knows no points: no
line separates the two (`TouchingAreInseparable`, `InseparableTouch`).
`IntersectionsAreFound`: GetIntersect answers if and only if the segments share a
point. Two segments that do not run along each other meet where the sides of
their ends say (`JoinsBeside`, `SidesOfParts`); if they do, the one begins before or
ends past the other, and an end of the other lies on it (`JoinedAlong`).

*Reeds-Shepp words.* `WordsAlwaysArrive`: whatever a family other than CCSC finds for a
goal leads to that goal (`WordsArrive`). The goals are all places and headings of
the lattice, and lines may be as long as they like; TLC tries the ends of some
words. The argument has four parts. Directions are added and mirrored by
coordinates (`UnitRules`, `TurnedUnit`, `ConjugateTurned`). The end of a word of
each type is computed from its lengths (`EndOfLSL` and so on). What a family answers
fixes the vector between the centres of two circles, which is the end's, sum by sum
(`LSLWordsArrive` and so on). And what one of the four ways makes of a word ends
where the way sees the word's end (`UsedArrives`), so that words for the mirrored
goals serve the goal itself; those of LRL that are driven from their end lead
to it as the way back of the way back is the way (`BackwardRules`). SetRSP,
which gives up at a word without length, only drops words (`FoundArrive`). CCSC
has no part in it: it takes the parameters of CCCC, and its words need not arrive.
`StationsAlwaysFollow`: the stations at which a word is interpolated follow it to
its end, from one to the next a step at most, each on its segment or within a step
of a change of direction; and there is room for all of them (`StationsFollow`),
whatever the lengths and the step. GenerateLocalConfigurations carries from one
segment to the next only an offset and the last station to be overwritten, so the
invariant (`WalkedWell`) is about the station that the offset promises: it goes on
from the last kept one, in the direction of the segment (`Normal`), or a turn has
had no station yet and it is behind the turn by a step at most (`Pending`).
`StationsPlaced` and `FollowOn` say what that makes of the stations of one segment,
`WalkContinues` carries it over the segment. Room
is counted on the way, a step for each station and two for each turn (`RoomGrows`),
against the length by which point_num is sized. There are two hypotheses. Turns are
few: words of four segments satisfy it whatever they are, and CCSCC turns twice.
And after a turn one of the segments that begin within a step of it is longer, by a
step, than how far from it the segment begins (`TurnsAreLong`); otherwise the
stations may begin on a later segment, on its line produced backwards. each_rs_length does not ensure this, as it bounds
what is driven in one direction as a whole; of the 880 words that the run tries, 4
do not satisfy the hypothesis, and the run finds that the stations of these follow them too.

Assumptions: those named in the modules (`ManagerAssumption`,
`FrameAssumption`, `StageAssumption`, `ComponentAssumption`,
`PartitionAssumption`, `SpeedAssumption`, `SearchAssumption`,
`StraightAssumption`, `HistoryAssumption`, `LineAssumption`); TLC evaluates them in the runs.

Only model-checked: liveness (PlanSettles, SpeculationGoesOn, FrameEnds,
StopReturns, SamplesAreLookedAt, PlanEnds, ClearWayReleases), which
needs fairness and ENABLED; of GeometryIsRight, how far a segment is from a box that it does
not meet, the ray of IsPointIn and the areas of overlaps; of RegionHoldsManeuver, that a whole call of the decider hands a
polygon with a corner to RegionsSpanManeuvers, and the regions of the other lots; of
ShortestWordArrives, that the chosen word is no longer than any other; of DrivesStopInTime, the two parts named above; and
SamplesSurviveTheWire, whose classes are read by a RECURSIVE operator.

## 5. Not modelled, and why

* Numbers. Everything is exact here; rounding, the tables of sine and arc
  tangent and the tolerances of comparisons are not. Curvatures are left out.
* Of the search: heuristics and costs, which are data of a scene, and the
  sampling of obstacle distances. What a motion of the bicycle model passes
  through is data as well.
* Of the ROI decider: what nothing in this build reaches (fine tuning, the
  obstacle overload and the obstacle filter, parking inwards, the larger region
  of a lidar). Lots and poses lie along the axes.
* Of the speed optimizer: the cost of a curve and the projection of obstacles to
  the path, which appear by their answers.
* Of the reports: wording, the fields that repeat an input or a setting, and the
  records of the single tasks. Logging and debug records. No decision reads any
  of them.
* `OpenSpaceThreadManager::Reset` has no caller; `StartThreads` after `Join` is
  also its effect. So the increment of `next_target_plan_id_` under another
  mutex than the one Reset clears it under cannot be seen today.
* Of the component: a second caller of Start and Stop, to which the C API promises
  nothing; exceptions out of Process, of which the code does not tell where they
  come from; `LastError`; the trajectory that is lost when its write fails.
* Of the messages: the layout of bytes, which is the middleware's. The size
  bounds that the data types tell it do not count what lists hold.
* Of the partition: what nothing in the repository reaches (the parking-out
  finish, the mirrors, geometry adjustment, slight target updates), the clipping
  of the last path of a lateral parking, and which lot a path leads to.
* The stateful parts are composed pairwise (manager with frames, stage
  with component), not all at once; see the plan.

Open questions, for which neither code nor docs say what is meant, so that no
property is stated:

* After another lot was selected PathDecider may go on to the old lot, when the
  new path has too many gear changes or cannot be launched (partition, line 869).
* A reset while the vehicle stands in the lot forgets that it moved, so that it
  does not finish unless it moves again (partition, line 1173): FinishNeedsMotion
  is what this buys.
* Without a vehicle state the speed counts as zero, so that frames count towards
  the finish (adapter, line 3253).
* Commands are drained before a frame, and the last one wins also over a reset
  that was never executed (component, line 1107).
* A lot number beyond 2^31-1 becomes a negative path id, which the pool
  takes for "unassigned" (adapter, line 1623).
* When the speed optimizer fails, the adapter publishes the nominal speed along
  the path (adapter, line 3343).
* Obstacles do not age: the last report holds until the next one.
* A report may disagree with itself. After a bad sample ended a held stage its
  context still says FINISH and its mission PARKING. A direct command that fails
  publishes the contract written for its success beside that of the fallback
  (adapter, lines 2733 to 2739): without a path, both that the ordinary history is
  preserved and that it was reset (line 2838); without a speed plan, both that the
  speed frame is updated and that it was cleared (line 2805), and the mission both
  active and in fallback. `reset_failed_direct_command`
  of an early stop (`stage_runtime_lite`, line 236) is never said, because the
  reset comes first. A pause of a finished stage reports PARKING as next stage.
* At the destination the report says SHORT_PATH and the message NORMAL (adapter,
  line 2603).

## 6. Where docs and code disagree

1. **stale_candidate.** The docs say that a frame which sees a changed obstacle
   signature must generate its path again. The frame does ask again, but the
   manager answers from a pool candidate of the same lot without looking at
   when it was computed, and PrePlan counts a finished candidate as a duplicate
   and never refreshes it.
2. **finish_hold.** The docs say that after `finish_ready` later frames hold
   and do not plan. An invalid, empty or overflowing sample is handled before
   the hold and resets the latch; the next valid sample plans again.
3. **invalid_chassis.** The docs say that invalid auxiliary input is cleared so
   that it does not enter the path and speed computation. An invalid chassis
   sample is cleared to speed 0.0 and applied as a valid vehicle state, which the
   stage takes for a vehicle that stands: at the destination the frame counts
   towards the finish.
4. **incomplete_path.** A comment says that the path is taken complete from
   the end to the start. A candidate found after the first is kept as a copy of its
   node without the intermediate points of the last motion.
5. **right_side.** IsParkLotInRightSide compares the opening's corners by the
   coordinate to the left of the vehicle, which is the same for both when the
   opening is parallel to the vehicle; a lateral lot on the right is not taken for
   one and is entered heading the other way.

## 7. Plan

Done: the modules above, in the order thread manager, frames, stage, component,
partition, search, speed optimizer, region, curves and trajectories,
Reeds-Shepp paths, messages, reports, straight paths and history; the proofs of
the first seven, of the reports, of the straight path, the history, the curves
and their trajectories, the region, collisions and intersections, and of the ends and
the stations of the Reeds-Shepp words.

Next, in this order:

1. The composition of `StageParkingAdapter` with `PathProviderFrame` through
   the history and the reset, and with `OpenSpacePathPartition` through the
   reached destination and the published gear, which needs the lots in the
   latter; an abstract parking stage that both implement.
2. Lemmas of the pure functions: Box2d's distances other than 0, the polygon of a region.
