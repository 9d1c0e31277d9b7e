----------------------------- MODULE HybridAStar -----------------------------
(***************************************************************************)
(* A path generator with its hybrid A*: it answers a planning problem with *)
(* a path, with the warm start path of that problem, or with an error.     *)
(* The threads build a new generator for every plan                        *)
(* (OpenSpaceThreadManager), so that each search starts afresh and the     *)
(* counters of earlier timeouts and failures, which would widen it, are    *)
(* zero wherever it reads them.  Geometry is a scene: which poses there    *)
(* are, where a motion from a pose leads, what it collides with, which     *)
(* cell of the grid a pose lies in.  A node carries the moves that lead to *)
(* it, which stand for its chain of parents: neither a node's parent nor   *)
(* its pose ever changes.                                                  *)
(***************************************************************************)
EXTENDS Integers, Sequences

CONSTANTS
  Problems,     \* the planning problems
  Scene,        \* what the car meets in each of them
  Poses, Cells, \* the poses of all scenes, the cells of the grid
  Step,         \* step_size_
  MinLength,    \* min_one_direction_length
  GearSwitch,   \* path_gear_switch_penalty
  Accept,       \* accept_exploration_time, in seconds
  MaxExplore,   \* max_exploration_time, in seconds
  MaxClock      \* bound: how far the clock of a search runs

Dirs == {"D", "R"}
None == "none"

\* A motion primitive: where it ends, and what the car meets on the way.
Motions == [to : Poses, dir : Dirs,
            inside : BOOLEAN,  \* it ends within xy_bounds
            cut : BOOLEAN,     \* ActionCutoff refuses its steering there
            clear : BOOLEAN,   \* ValidityCheck against all obstacles
            pure : BOOLEAN,    \* and against the obstacles without their buffers
            cost : Nat]        \* PathCost but for the gear switch

\* The Reeds-Shepp curve from a pose to the goal.
Curves == [found : BOOLEAN, gear : Dirs, clear : BOOLEAN, cost : Nat]

IsScene(s) ==
  /\ s.start \in Poses /\ s.goal \in Poses
  /\ s.cell \in [Poses -> Cells]
  /\ s.root \in [Poses -> Cells]     \* its cell as the start: a trace adjustment
                                    \* changes xy_bounds after it is computed
  /\ s.motions \in [Poses -> Seq(Motions)]
  /\ s.curve \in [Poses -> Curves]
  /\ s.heu \in [Poses -> Nat]       \* the heuristic cost of a pose
  /\ s.miss \in [Poses -> Nat]      \* end_pose_diff_penalty, by how far it is off
  /\ s.dest \subseteq Poses         \* the region around the goal
  /\ s.dist \in [Poses -> Nat]      \* to the obstacles without their buffers
  /\ s.ready \subseteq Poses        \* poses a search may start at
  /\ {s.start_clear, s.start_pure, s.end_clear, s.end_apart, s.region,
      s.warm, s.trace, s.on_trace, s.tail} \subseteq BOOLEAN

ASSUME SearchAssumption ==
  /\ None \notin Problems \cup Cells \cup Poses
  /\ Cells # {}
  /\ \A p \in Problems : IsScene(Scene[p])
  /\ {Step, MinLength, GearSwitch, Accept, MaxExplore, MaxClock} \subseteq Nat
  /\ Step > 0

VARIABLES
  status,    \* what the generator is doing
  problem,   \* the problem it works on
  open,      \* open_set_: the node of each cell that has one
  queue,     \* open_pq_: the cells still to be expanded
  closed,    \* close_set_
  ends,      \* end_node_pq_
  cur,       \* the cell being expanded, with the index of its next motion
  forced,    \* forced_path_direction_
  prefix,    \* result, as the local extension left it
  extended,  \* has_search_extension_path
  end_ok,    \* is_valid_end_pose_
  elapsed,   \* the seconds the search has taken
  stop,      \* atomic_early_stop_flag
  out        \* the last answer

vars == <<status, problem, open, queue, closed, ends, cur, forced, prefix, extended,
          end_ok, elapsed, stop, out>>

search_vars == <<open, queue, closed, ends, cur>>

\* A move of a path; run counts the moves in its direction up to it.  A move
\* that is not whole has lost its intermediate points.
Moves == [from : Poses, to : Poses, dir : Dirs, run : Nat, leg : {"motion", "curve"},
          whole : BOOLEAN]

NoNode == [pose |-> None]
Nodes  == [pose : Poses, dir : Dirs, len : Nat, cost : Nat, moves : Seq(Moves)]
Root(p) == [pose |-> p, dir |-> "D", len |-> 0, cost |-> 0, moves |-> <<>>]

NoPath == [pose |-> None]
Paths  == [pose : Poses, cost : Nat, moves : Seq(Moves)]

Answers == [kind : {"none", "path", "warm", "error"}, of : Problems \cup {None},
            joint : Nat, moves : Seq(Moves),
            type : {"none", "search", "extension", "trace"}]

NoCur == [cell |-> None, at |-> 0]

TypeOK ==
  /\ status \in {"idle", "extend", "begin", "search", "final"}
  /\ problem \in Problems \cup {None}
  /\ open \in [Cells -> Nodes \cup {NoNode}]
  /\ queue \subseteq Cells /\ closed \subseteq Cells
  /\ ends \subseteq Paths
  /\ cur \in [cell : Cells \cup {None}, at : Nat]
  /\ forced \in Dirs \cup {None}
  /\ prefix \in Seq(Moves)
  /\ {extended, end_ok, stop} \subseteq BOOLEAN
  /\ elapsed \in 0 .. MaxClock
  /\ out \in Answers

NoAnswer == [kind |-> "none", of |-> None, joint |-> 0, moves |-> <<>>, type |-> "none"]

Empty == [c \in Cells |-> NoNode]

Init ==
  /\ status = "idle" /\ problem = None
  /\ open = Empty /\ queue = {} /\ closed = {} /\ ends = {} /\ cur = NoCur
  /\ forced = None /\ prefix = <<>> /\ extended = FALSE /\ end_ok = TRUE
  /\ elapsed = 0 /\ stop = FALSE /\ out = NoAnswer

-----------------------------------------------------------------------------
(* The answer to a problem *)

scene == Scene[problem]

\* The end of GenerateCoarsePath and of Plan when there is no path: the warm
\* start path of the problem is the answer, if it has one.
Unfound ==
  out' = IF scene.warm
         THEN [kind |-> "warm", of |-> problem, joint |-> 0, moves |-> <<>>, type |-> "trace"]
         ELSE [NoAnswer EXCEPT !.kind = "error", !.of = problem]

\* CombineTraceAdjustPath has points of the trace to add.
TraceTail == scene.trace /\ scene.tail

\* And when there is one: a trace adjustment continues along the trace, and a
\* path of a single point cannot be partitioned.
Found(path) ==
  LET whole == prefix \o path.moves
      type  == IF scene.trace THEN IF scene.warm THEN "trace" ELSE "search"
               ELSE IF extended THEN "extension" ELSE "search"
  IN  out' = IF whole = <<>> /\ ~ TraceTail
             THEN [NoAnswer EXCEPT !.kind = "error", !.of = problem]
             ELSE [kind |-> "path", of |-> problem, joint |-> Len(prefix),
                   moves |-> whole, type |-> type]

\* Every way a problem ends without a path.
GiveUp ==
  /\ status' = "idle"
  /\ prefix' = <<>>
  /\ Unfound
  /\ UNCHANGED <<problem, forced, extended, end_ok, elapsed, stop>>
  /\ UNCHANGED search_vars

-----------------------------------------------------------------------------
(* A problem is taken up *)

\* The set-up of both searches: one node, one queue entry.
OpenAt(c, p) ==
  /\ open' = [Empty EXCEPT ![c] = Root(p)]
  /\ queue' = {c}
  /\ closed' = {}
  /\ cur' = NoCur

\* GenerateLocalExtensionPath is only needed by a car that starts too close to
\* something.
StartPlan(p) ==
  LET s == Scene[p] IN
  /\ status = "idle"
  /\ status' = IF s.start_clear THEN "begin" ELSE "extend"
  /\ problem' = p
  /\ extended' = ~ s.start_clear
  /\ stop' = FALSE
  /\ forced' = None /\ prefix' = <<>> /\ end_ok' = TRUE /\ elapsed' = 0
  /\ ends' = {}
  /\ OpenAt(s.cell[s.start], s.start)
  /\ UNCHANGED out

\* A car that starts in an obstacle, buffers aside, cannot be helped.
Hopeless ==
  /\ status = "extend" /\ cur = NoCur
  /\ ~ scene.start_pure
  /\ GiveUp

-----------------------------------------------------------------------------
(* Expanding a node *)

\* Where the search starts: at the end of the local extension.
StartPose == IF prefix = <<>> THEN scene.start ELSE prefix[Len(prefix)].to
StartCell == scene.root[StartPose]

Node == open[cur.cell]
Motion == scene.motions[Node.pose][cur.at]

\* Mutant of TurnsTooEarly: the node is not asked how far it went.
TurnsAnywhere(m, exploring) == m.dir # Node.dir /\ Node.len > 0 /\ exploring

\* What Next_node_generator refuses: to turn round too early, to leave the
\* start against the forced direction, a steering that is cut off, to go out of
\* bounds.
TurnsTooEarly(m, exploring) ==
  /\ m.dir # Node.dir
  /\ Node.len > 0
  /\ Node.len < MinLength \/ exploring

AgainstForced(m) ==
  forced # None /\ cur.cell = StartCell /\ m.dir # forced

Generated(m, exploring) ==
  /\ ~ TurnsTooEarly(m, exploring)
  /\ exploring \/ ~ AgainstForced(m)
  /\ exploring \/ ~ m.cut
  /\ m.inside

ChildMove(m) ==
  [from |-> Node.pose, to |-> m.to, dir |-> m.dir, leg |-> "motion", whole |-> TRUE,
   run |-> LET n == Len(Node.moves)
           IN  IF n > 0 /\ Node.dir = m.dir THEN Node.moves[n].run + 1 ELSE 1]

Child(m, cost) ==
  [pose |-> m.to, dir |-> m.dir, cost |-> cost, moves |-> Append(Node.moves, ChildMove(m)),
   len |-> IF m.dir = Node.dir THEN Node.len + Step ELSE Step]

\* A child in the other direction takes the length from its parent, even if it
\* is then dropped.
ParentAfter(m) == IF m.dir = Node.dir THEN Node ELSE [Node EXCEPT !.len = 0]

\* Mutant of IsNew: a closed cell is entered again.
IsNotQueued(c) == c \notin queue

IsNew(c) == c \notin closed /\ open[c] = NoNode

\* The loop over the motions: the next one, or none is left.
More == cur # NoCur /\ cur.at <= Len(scene.motions[Node.pose])
NextMotion == cur' = [cur EXCEPT !.at = cur.at + 1]

Pruned(exploring) ==
  /\ More
  /\ ~ Generated(Motion, exploring)
  /\ NextMotion
  /\ UNCHANGED <<open, queue, closed, ends>>

\* Mutant of Dropped: the cell of a child that does not fit is closed.
DroppedForGood(exploring, fits) ==
  /\ More
  /\ Generated(Motion, exploring)
  /\ ~ (IsNew(scene.cell[Motion.to]) /\ fits)
  /\ open' = [open EXCEPT ![cur.cell] = ParentAfter(Motion)]
  /\ closed' = closed \cup {scene.cell[Motion.to]}
  /\ NextMotion
  /\ UNCHANGED <<queue, ends>>

Dropped(exploring, fits) ==
  /\ More
  /\ Generated(Motion, exploring)
  /\ ~ (IsNew(scene.cell[Motion.to]) /\ fits)
  /\ open' = [open EXCEPT ![cur.cell] = ParentAfter(Motion)]
  /\ NextMotion
  /\ UNCHANGED <<queue, closed, ends>>

Added(exploring, fits, cost) ==
  /\ More
  /\ Generated(Motion, exploring)
  /\ IsNew(scene.cell[Motion.to]) /\ fits
  /\ open' = [open EXCEPT ![cur.cell] = ParentAfter(Motion),
                          ![scene.cell[Motion.to]] = Child(Motion, cost)]
  /\ queue' = queue \cup {scene.cell[Motion.to]}
  /\ UNCHANGED <<closed, ends>>

\* Mutant of ExpandDone: the loop starts again.
ExpandAgain ==
  /\ cur # NoCur /\ ~ More
  /\ cur' = [cur EXCEPT !.at = 1]
  /\ UNCHANGED <<open, queue, closed, ends>>

ExpandDone ==
  /\ cur # NoCur /\ ~ More
  /\ cur' = NoCur
  /\ UNCHANGED <<open, queue, closed, ends>>

\* open_pq_.top(): a cell no other cell is cheaper than.
\* The extension takes the one farthest from the obstacles first.
Priority(c) == IF status = "extend" THEN -scene.dist[open[c].pose]
               ELSE open[c].cost + scene.heu[open[c].pose]

Cheapest(c) == c \in queue /\ \A d \in queue : Priority(c) <= Priority(d)

-----------------------------------------------------------------------------
(* The local extension: away from what the car is too close to *)

Aside == UNCHANGED <<status, problem, forced, prefix, extended, end_ok, elapsed, stop, out>>

ExtendPop ==
  /\ status = "extend" /\ cur = NoCur /\ scene.start_pure
  /\ \E c \in Cells :
       /\ Cheapest(c)
       /\ queue' = queue \ {c}
       /\ closed' = closed \cup {c}
       /\ cur' = [cell |-> c, at |-> 1]
  /\ UNCHANGED <<open, ends>>
  /\ Aside

Recedes(m) == m.pure /\ scene.dist[m.to] >= scene.dist[Node.pose]
FarEnough(m) == Child(m, 0).len >= MinLength /\ m.clear

ExtendSkip ==
  /\ status = "extend"
  /\ \/ Pruned(TRUE)
     \/ Dropped(TRUE, Recedes(Motion))
     \/ ExpandDone
  /\ Aside

ExtendAdd ==
  /\ status = "extend"
  /\ Added(TRUE, Recedes(Motion), 0)
  /\ ~ FarEnough(Motion)
  /\ NextMotion
  /\ Aside

\* The first node that is far enough ends the extension and forces the
\* direction in which the search goes on.
ExtendFound ==
  /\ status = "extend"
  /\ Added(TRUE, Recedes(Motion), 0)
  /\ FarEnough(Motion)
  /\ status' = "begin"
  /\ prefix' = Append(Node.moves, ChildMove(Motion))
  /\ forced' = Motion.dir
  /\ cur' = NoCur
  /\ UNCHANGED <<problem, extended, end_ok, elapsed, stop, out>>

\* Nothing was far enough for a car that had to move.
ExtendExhausted ==
  /\ status = "extend" /\ cur = NoCur /\ scene.start_pure /\ queue = {}
  /\ GiveUp

\* 0.2 s have passed.
ExtendTimeout ==
  /\ status = "extend" /\ cur = NoCur /\ scene.start_pure /\ queue # {}
  /\ GiveUp

-----------------------------------------------------------------------------
(* The search *)

Admissible ==
  /\ scene.trace => scene.on_trace
  /\ StartPose \in scene.ready
  /\ scene.end_clear \/ scene.region \/ scene.end_apart

BeginSearch ==
  /\ status = "begin"
  /\ Admissible
  /\ status' = "search"
  /\ OpenAt(StartCell, StartPose)
  /\ end_ok' = (scene.end_clear \/ scene.end_apart)
  /\ UNCHANGED <<problem, ends, forced, prefix, extended, elapsed, stop, out>>

Rejected ==
  /\ status = "begin"
  /\ ~ Admissible
  /\ GiveUp

TimedOut(now) == now > MaxExplore
GoodEnough(now) == now > Accept /\ ends # {}

Ends ==
  /\ status' = "final"
  /\ UNCHANGED <<problem, forced, prefix, extended, end_ok, stop, out>>
  /\ UNCHANGED search_vars

\* At the head of the loop: the queue is empty, the search is called off, or it
\* has run long enough with a candidate in hand.
SearchEnds ==
  /\ status = "search" /\ cur = NoCur
  /\ \/ /\ queue = {} \/ stop
        /\ elapsed' = elapsed
     \/ \E now \in elapsed .. MaxClock :
          /\ queue # {} /\ ~ stop
          /\ ~ TimedOut(now) /\ GoodEnough(now)
          /\ elapsed' = now
  /\ Ends

\* A search that takes too long drops what it has found.
SearchTimeout ==
  /\ status = "search" /\ cur = NoCur /\ queue # {} /\ ~ stop
  /\ \E now \in elapsed .. MaxClock : TimedOut(now)
  /\ GiveUp

\* AnalyticExpansion: the first candidate keeps its node; a later one is a copy
\* with the pose alone.
Trimmed(moves) ==
  IF moves = <<>> THEN moves ELSE [moves EXCEPT ![Len(moves)].whole = FALSE]

Arrival(n) ==
  IF ends = {} THEN [pose |-> n.pose, cost |-> n.cost, moves |-> n.moves]
  ELSE [pose |-> n.pose, cost |-> n.cost + scene.miss[n.pose], moves |-> Trimmed(n.moves)]

GearCost(n) ==
  LET c == scene.curve[n.pose]
  IN  IF n.moves # <<>> /\ n.dir # c.gear THEN GearSwitch ELSE 0

Connects(n, c) ==
  /\ end_ok
  /\ scene.curve[n.pose].found
  /\ forced # None /\ c = StartCell => scene.curve[n.pose].gear = forced
  /\ scene.curve[n.pose].clear

Connection(n) ==
  LET c == scene.curve[n.pose]
  IN  [pose |-> n.pose, cost |-> n.cost + c.cost + GearCost(n),
       moves |-> Append(n.moves, [from |-> n.pose, to |-> scene.goal, dir |-> c.gear, run |-> 1,
                                  leg |-> "curve", whole |-> TRUE])]

\* LoadRSPinCS: the node of the curve closes the cell of the goal.
CurveCell == scene.cell[scene.goal]

\* CalculateParkingPrefinishCondition
Arrived(c) == open[c].pose \in scene.dest

\* The cheapest node is taken: it has arrived, or it is tried with a curve to
\* the goal and expanded.
SearchPop ==
  /\ status = "search" /\ cur = NoCur /\ ~ stop
  /\ \E now \in elapsed .. MaxClock, c \in Cells :
       /\ ~ TimedOut(now) /\ ~ GoodEnough(now)
       /\ elapsed' = now
       /\ Cheapest(c)
       /\ queue' = queue \ {c}
       /\ \/ /\ Arrived(c)
             /\ ends' = ends \cup {Arrival(open[c])}
             /\ status' = "final"
             /\ UNCHANGED <<closed, cur>>
          \/ /\ ~ Arrived(c)
             /\ IF Connects(open[c], c)
                THEN /\ ends' = ends \cup {Connection(open[c])}
                     /\ closed' = closed \cup {c, CurveCell}
                ELSE /\ closed' = closed \cup {c}
                     /\ UNCHANGED ends
             /\ cur' = [cell |-> c, at |-> 1]
             /\ UNCHANGED status
  /\ UNCHANGED <<open, problem, forced, prefix, extended, end_ok, stop, out>>

StepCost(m) == m.cost + (IF m.dir # Node.dir THEN GearSwitch ELSE 0)

SearchSkip ==
  /\ status = "search" /\ ~ stop
  /\ \/ Pruned(FALSE)
     \/ Dropped(FALSE, Motion.clear)
     \/ ExpandDone
  /\ Aside

SearchAdd ==
  /\ status = "search" /\ ~ stop
  /\ Added(FALSE, Motion.clear, Node.cost + StepCost(Motion))
  /\ NextMotion
  /\ Aside

\* The flag is looked at before each motion.
SearchCalledOff ==
  /\ status = "search" /\ stop /\ cur # NoCur
  /\ cur' = NoCur
  /\ UNCHANGED <<open, queue, closed, ends>>
  /\ Aside

-----------------------------------------------------------------------------
(* The end of a search *)

Best(path) == path \in ends /\ \A other \in ends : path.cost <= other.cost

\* The best candidate is the path, also of a search that was called off.
Deliver ==
  /\ status = "final" /\ ends # {}
  /\ \E path \in ends : Best(path) /\ Found(path)
  /\ status' = "idle"
  /\ UNCHANGED <<problem, forced, prefix, extended, end_ok, elapsed, stop>>
  /\ UNCHANGED search_vars

NoneFound ==
  /\ status = "final" /\ ends = {}
  /\ GiveUp

\* The pool calls a search off at any moment.
EarlyStop ==
  /\ status # "idle" /\ ~ stop
  /\ stop' = TRUE
  /\ UNCHANGED <<status, problem, forced, prefix, extended, end_ok, elapsed, out>>
  /\ UNCHANGED search_vars

Work ==
  \/ Hopeless \/ ExtendPop \/ ExtendSkip \/ ExtendAdd \/ ExtendFound
  \/ ExtendExhausted \/ ExtendTimeout
  \/ BeginSearch \/ Rejected
  \/ SearchEnds \/ SearchTimeout \/ SearchPop \/ SearchSkip \/ SearchAdd
  \/ SearchCalledOff
  \/ Deliver \/ NoneFound

Next == (\E p \in Problems : StartPlan(p)) \/ Work \/ EarlyStop

Spec == Init /\ [][Next]_vars

\* The thread of a search runs on until it has answered.
FairSpec == Spec /\ WF_vars(Work)

-----------------------------------------------------------------------------
(* Properties *)

Answered == out.kind = "path"
Way  == out.moves
Last == Len(Way)
Map  == Scene[out.of]

\* A move is a motion of the scene that meets no obstacle, or the curve.
Drivable(s, m, extending) ==
  \/ /\ m.leg = "motion"
     /\ \E i \in 1 .. Len(s.motions[m.from]) :
          LET q == s.motions[m.from][i]
          IN  /\ q.to = m.to /\ q.dir = m.dir /\ q.inside
              /\ IF extending THEN q.pure ELSE q.clear
  \/ /\ m.leg = "curve"
     /\ s.curve[m.from].found /\ s.curve[m.from].clear
     /\ m.dir = s.curve[m.from].gear /\ m.to = s.goal

\* A path leads without a gap, by moves the car can drive, from where the car
\* stands through the local extension to the goal or into the region around it
\* (Plan and GetResult, which joins the extension and the search).
PathConnects ==
  Answered =>
    /\ (IF Last = 0 THEN Map.start ELSE Way[Last].to) \in Map.dest \cup {Map.goal}
    /\ Last > 0 => Way[1].from = Map.start
    /\ \A i \in 1 .. Last : Drivable(Map, Way[i], i <= out.joint)
    /\ \A i \in 1 .. Last - 1 : Way[i].to = Way[i + 1].from

\* Between two motions the gear only changes once the car has driven
\* min_one_direction_length, although a parent loses its length to a child
\* that is then dropped (Next_node_generator).
ShiftAfterLength ==
  Answered =>
    \A i \in 1 .. Last - 1 :
      Way[i].dir # Way[i + 1].dir /\ Way[i + 1].leg = "motion"
        => Way[i].run * Step >= MinLength

\* Where the search takes over from the local extension the car drives on in
\* the same gear, also when it takes the curve at once (forced_path_direction_,
\* RSPCheck).
JointKeepsGear ==
  Answered /\ 0 < out.joint /\ out.joint < Last
    => Way[out.joint].dir = Way[out.joint + 1].dir

\* What an answer promises to the tasks that follow the path.
PathIsDrivable == PathConnects /\ ShiftAfterLength /\ JointKeepsGear

\* A search never leads through a cell twice (open_set_ keeps one node a cell).
NeverInCellTwice ==
  Answered =>
    \A i, j \in out.joint + 1 .. Last :
      /\ Way[i].leg = "motion" /\ Way[j].leg = "motion"
      /\ Map.cell[Way[i].to] = Map.cell[Way[j].to]
      => i = j

\* A motion the search may take from the node of a cell: it does not turn round
\* too early, nor leave the start against the forced direction, nor collide.
MayDrive(c, m) ==
  /\ m.dir = open[c].dir \/ open[c].len = 0 \/ open[c].len >= MinLength
  /\ forced # None /\ c = StartCell => m.dir = forced
  /\ ~ m.cut /\ m.inside /\ m.clear

\* A cell whose node is done with: it is not at the goal, no curve leads there,
\* and wherever a motion may go from it there is a node.
Exhausted(c) ==
  /\ c \in closed /\ ~ Arrived(c) /\ ~ Connects(open[c], c)
  /\ \A i \in 1 .. Len(scene.motions[open[c].pose]) :
       LET m == scene.motions[open[c].pose][i]
       IN  MayDrive(c, m) => open[scene.cell[m.to]] # NoNode

\* A search that was not called off and ends without a candidate has left
\* nothing untried, as its message says ("search space exhausted", Plan): every
\* cell it entered is exhausted, the start among them.  A motion that is refused
\* or collides must not cost the cell it leads to, nor a shift that takes the
\* length of its parent the motions after it.
NothingLeftUntried ==
  status = "final" /\ ends = {} /\ ~ stop =>
    /\ open[StartCell] # NoNode
    /\ \A c \in Cells : open[c] # NoNode => Exhausted(c)

\* Every problem is answered, whether or not its search is called off.
PlanEnds == status # "idle" ~> status = "idle"

\* hybrid_a_star.cc: "提取完整路径", the path taken from the end node is complete.
\* The copy of a later candidate lacks the points of its last motion.
PathIsComplete == Answered => \A i \in 1 .. Last : Way[i].whole
=============================================================================
