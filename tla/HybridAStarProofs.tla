------------------------- MODULE HybridAStarProofs -------------------------
(***************************************************************************)
(* What the search answers, for every scene, every grid and every limit.   *)
(***************************************************************************)
EXTENDS HybridAStar, SequenceTheorems, TLAPS

-----------------------------------------------------------------------------
(* Types *)

\* A cell that is expanded or queued has a node, and there is a problem to work on.
Busy ==
  /\ status # "idle" => problem \in Problems
  /\ status \in {"extend", "search"} =>
       /\ \A c \in queue : open[c] # NoNode
       /\ cur # NoCur => cur.cell \in Cells /\ cur.at \in Nat \ {0} /\ open[cur.cell] # NoNode

(* What a scene is made of.                                                *)
LEMMA SceneIsTyped ==
  ASSUME NEW p \in Problems
  PROVE /\ Scene[p].start \in Poses /\ Scene[p].goal \in Poses
        /\ \A q \in Poses : /\ Scene[p].cell[q] \in Cells /\ Scene[p].root[q] \in Cells
                            /\ Scene[p].motions[q] \in Seq(Motions)
                            /\ Scene[p].curve[q] \in Curves
                            /\ Scene[p].miss[q] \in Nat
        /\ Scene[p].warm \in BOOLEAN
BY SearchAssumption DEF SearchAssumption, IsScene

(* The node that is expanded, and the motion that is tried.                *)
LEMMA MotionIsTyped ==
  ASSUME TypeOK, Busy, status \in {"extend", "search"}, More
  PROVE /\ cur.cell \in Cells /\ Node \in Nodes /\ Motion \in Motions
        /\ scene.cell[Motion.to] \in Cells
        /\ cur.at \in 1 .. Len(scene.motions[Node.pose])
<1>1. problem \in Problems /\ cur.cell \in Cells /\ cur.at \in Nat \ {0}
  BY DEF Busy, More
<1>2. Node \in Nodes
  BY <1>1 DEF Busy, More, TypeOK, Node
<1>3. scene.motions[Node.pose] \in Seq(Motions)
  BY <1>1, <1>2, SceneIsTyped DEF Nodes, scene
<1>4. cur.at \in 1 .. Len(scene.motions[Node.pose])
  BY <1>1, <1>3 DEF More
<1>5. Motion \in Motions
  BY <1>3, <1>4 DEF Motion
<1>6. scene.cell[Motion.to] \in Cells
  BY <1>1, <1>5, SceneIsTyped DEF Motions, scene
<1> QED BY <1>1, <1>2, <1>4, <1>5, <1>6

(* What becomes of a node that is expanded, and its child.                 *)
LEMMA ChildIsTyped ==
  ASSUME TypeOK, Busy, status \in {"extend", "search"}, More, NEW cost \in Nat
  PROVE /\ ParentAfter(Motion) \in Nodes
        /\ ChildMove(Motion) \in Moves
        /\ Append(Node.moves, ChildMove(Motion)) \in Seq(Moves)
        /\ Child(Motion, cost) \in Nodes
        /\ ParentAfter(Motion) # NoNode /\ Child(Motion, cost) # NoNode
<1> USE MotionIsTyped
<1>1. Node.moves \in Seq(Moves) /\ Node.pose \in Poses /\ Node.dir \in Dirs /\ Node.len \in Nat
  BY DEF Nodes
<1>2. Motion.to \in Poses /\ Motion.dir \in Dirs
  BY DEF Motions
<1>3. ParentAfter(Motion) \in Nodes
  BY <1>1 DEF ParentAfter, Nodes
<1>4. ChildMove(Motion).run \in Nat
  <2>1. CASE Len(Node.moves) > 0
    <3>1. Node.moves[Len(Node.moves)] \in Moves
      BY <1>1, <2>1
    <3> QED BY <3>1 DEF ChildMove, Moves
  <2>2. CASE ~(Len(Node.moves) > 0)
    BY <2>2 DEF ChildMove
  <2> QED BY <2>1, <2>2
<1>5. ChildMove(Motion) \in Moves
  BY <1>1, <1>2, <1>4 DEF ChildMove, Moves
<1>6. Append(Node.moves, ChildMove(Motion)) \in Seq(Moves)
  BY <1>1, <1>5
<1>7. Child(Motion, cost).len \in Nat
  BY <1>1, SearchAssumption DEF Child, SearchAssumption
<1>8. Child(Motion, cost) \in Nodes
  BY <1>1, <1>2, <1>6, <1>7 DEF Child, Nodes
<1>9. NoNode \notin Nodes
  BY SearchAssumption DEF NoNode, Nodes, SearchAssumption
<1> QED BY <1>3, <1>5, <1>6, <1>8, <1>9

(* The start pose of the search, and the node it begins with.              *)
LEMMA StartIsTyped ==
  ASSUME TypeOK, problem \in Problems
  PROVE StartPose \in Poses /\ StartCell \in Cells
<1>1. CASE prefix = <<>>
  BY <1>1, SceneIsTyped DEF StartPose, StartCell, scene
<1>2. CASE prefix # <<>>
  <2>1. prefix \in Seq(Moves) /\ Len(prefix) \in 1 .. Len(prefix)
    BY <1>2 DEF TypeOK
  <2>2. prefix[Len(prefix)] \in Moves
    BY <2>1
  <2>3. StartPose \in Poses
    BY <1>2, <2>2 DEF StartPose, Moves
  <2> QED BY <2>3, SceneIsTyped DEF StartCell, scene
<1> QED BY <1>1, <1>2

LEMMA RootIsTyped ==
  ASSUME NEW p \in Poses, NEW c \in Cells
  PROVE Root(p) \in Nodes /\ Root(p) # NoNode
        /\ [Empty EXCEPT ![c] = Root(p)] \in [Cells -> Nodes \cup {NoNode}]
<1>1. Root(p) \in Nodes
  BY DEF Root, Nodes, Dirs
<1>2. Empty \in [Cells -> Nodes \cup {NoNode}]
  BY DEF Empty
<1>3. Root(p) # NoNode
  BY SearchAssumption DEF Root, NoNode
<1> QED BY <1>1, <1>2, <1>3

-----------------------------------------------------------------------------
LEMMA InitIsTyped == Init => TypeOK /\ Busy
<1> SUFFICES ASSUME Init PROVE TypeOK /\ Busy
  OBVIOUS
<1>1. NoAnswer \in Answers
  BY DEF NoAnswer, Answers
<1>2. NoCur \in [cell : Cells \cup {None}, at : Nat]
  BY DEF NoCur
<1>3. Empty \in [Cells -> Nodes \cup {NoNode}]
  BY DEF Empty
<1>4. MaxClock \in Nat
  BY SearchAssumption DEF SearchAssumption
<1>5. prefix \in Seq(Moves)
  BY DEF Init
<1>6. {extended, end_ok, stop} \subseteq BOOLEAN
  BY DEF Init
<1>7. open \in [Cells -> Nodes \cup {NoNode}] /\ cur \in [cell : Cells \cup {None}, at : Nat]
  BY <1>2, <1>3 DEF Init
<1>8. elapsed \in 0 .. MaxClock
  BY <1>4 DEF Init
<1>9. TypeOK
  BY <1>1, <1>5, <1>6, <1>7, <1>8 DEF Init, TypeOK
<1> QED BY <1>9 DEF Init, Busy

(* A problem that is given up.                                             *)
LEMMA GiveUpIsTyped ==
  ASSUME TypeOK, Busy, status # "idle", GiveUp
  PROVE TypeOK' /\ Busy'
<1>1. problem \in Problems
  BY DEF TypeOK, Busy
<1>2. <<>> \in Seq(Moves)
  OBVIOUS
<1>3. out' \in Answers
  <2>1. CASE scene.warm
    BY <1>1, <1>2, <2>1 DEF GiveUp, Unfound, Answers
  <2>2. CASE ~ scene.warm
    <3>1. out' = [kind |-> "error", of |-> problem, joint |-> 0, moves |-> <<>>, type |-> "none"]
      BY <2>2 DEF GiveUp, Unfound, NoAnswer
    <3> QED BY <1>1, <1>2, <3>1 DEF Answers
  <2> QED BY <2>1, <2>2
<1> QED BY <1>2, <1>3 DEF GiveUp, search_vars, TypeOK, Busy

(* Each disjunct of the loop over the motions keeps nodes nodes, and the   *)
(* place in the loop a place.                                              *)
LEMMA LoopIsTyped ==
  ASSUME TypeOK, Busy, status \in {"extend", "search"},
         NEW exploring \in BOOLEAN, NEW fits \in BOOLEAN, NEW cost \in Nat,
         \/ Pruned(exploring)
         \/ Dropped(exploring, fits)
         \/ Added(exploring, fits, cost) /\ (NextMotion \/ cur' = NoCur)
         \/ ExpandDone
  PROVE /\ open' \in [Cells -> Nodes \cup {NoNode}]
        /\ queue' \subseteq Cells /\ closed' \subseteq Cells /\ ends' = ends
        /\ cur' \in [cell : Cells \cup {None}, at : Nat]
        /\ \A c \in queue' : open'[c] # NoNode
        /\ cur' # NoCur =>
             cur'.cell \in Cells /\ cur'.at \in Nat \ {0} /\ open'[cur'.cell] # NoNode
<1>1. /\ open \in [Cells -> Nodes \cup {NoNode}] /\ queue \subseteq Cells /\ closed \subseteq Cells
      /\ cur \in [cell : Cells \cup {None}, at : Nat]
      /\ \A c \in queue : open[c] # NoNode
      /\ cur # NoCur => cur.cell \in Cells /\ cur.at \in Nat \ {0} /\ open[cur.cell] # NoNode
  BY DEF TypeOK, Busy
<1>2. NoCur \in [cell : Cells \cup {None}, at : Nat]
  BY DEF NoCur
<1>3. ASSUME More, NextMotion
      PROVE cur' \in [cell : Cells \cup {None}, at : Nat] /\ cur'.cell = cur.cell
            /\ cur.cell \in Cells /\ cur'.at \in Nat \ {0}
  BY <1>1, <1>3 DEF NextMotion, More
<1>4. CASE Pruned(exploring)
  <2>1. More /\ NextMotion /\ open' = open /\ queue' = queue /\ closed' = closed /\ ends' = ends
    BY <1>4 DEF Pruned
  <2> QED BY <1>1, <1>3, <2>1 DEF More
<1>5. CASE Dropped(exploring, fits)
  <2>1. More /\ NextMotion
    BY <1>5 DEF Dropped
  <2>2. ParentAfter(Motion) \in Nodes /\ ParentAfter(Motion) # NoNode
    BY <2>1, ChildIsTyped
  <2>3. open' = [open EXCEPT ![cur.cell] = ParentAfter(Motion)]
    BY <1>5 DEF Dropped
  <2>4. queue' = queue /\ closed' = closed /\ ends' = ends
    BY <1>5 DEF Dropped
  <2> QED BY <1>1, <1>3, <2>1, <2>2, <2>3, <2>4
<1>6. CASE Added(exploring, fits, cost) /\ (NextMotion \/ cur' = NoCur)
  <2>1. More
    BY <1>6 DEF Added
  <2>2. /\ ParentAfter(Motion) \in Nodes /\ ParentAfter(Motion) # NoNode
        /\ Child(Motion, cost) \in Nodes /\ Child(Motion, cost) # NoNode
    BY <2>1, ChildIsTyped
  <2>3. scene.cell[Motion.to] \in Cells
    BY <2>1, MotionIsTyped
  <2>4. open' = [open EXCEPT ![cur.cell] = ParentAfter(Motion),
                             ![scene.cell[Motion.to]] = Child(Motion, cost)]
    BY <1>6 DEF Added
  <2>5. queue' = queue \cup {scene.cell[Motion.to]} /\ closed' = closed /\ ends' = ends
    BY <1>6 DEF Added
  <2>6. open' \in [Cells -> Nodes \cup {NoNode}]
    BY <1>1, <2>2, <2>4
  <2>7. \A c \in Cells : open[c] # NoNode \/ c = scene.cell[Motion.to] => open'[c] # NoNode
    BY <1>1, <2>2, <2>3, <2>4
  <2>8. (cur'.cell = cur.cell /\ cur'.at \in Nat \ {0}) \/ cur' = NoCur
    BY <1>3, <1>6, <2>1
  <2>9. cur' \in [cell : Cells \cup {None}, at : Nat]
    BY <1>2, <1>3, <1>6, <2>1
  <2>10. cur.cell \in Cells /\ open[cur.cell] # NoNode
    BY <1>1, <2>1 DEF More
  <2> QED BY <1>1, <2>3, <2>5, <2>6, <2>7, <2>8, <2>9, <2>10
<1>7. CASE ExpandDone
  BY <1>1, <1>2, <1>7 DEF ExpandDone
<1> QED BY <1>4, <1>5, <1>6, <1>7

(* What the search adds to its ends.                                       *)
LEMMA PathsAreTyped ==
  ASSUME TypeOK, problem \in Problems, NEW n \in Nodes
  PROVE Arrival(n) \in Paths /\ Connection(n) \in Paths
<1>1. n.pose \in Poses /\ n.cost \in Nat /\ n.moves \in Seq(Moves) /\ n.dir \in Dirs
  BY DEF Nodes
<1>2. scene.miss[n.pose] \in Nat /\ scene.curve[n.pose] \in Curves /\ scene.goal \in Poses
  BY <1>1, SceneIsTyped DEF scene
<1>3. Trimmed(n.moves) \in Seq(Moves)
  <2>1. CASE n.moves = <<>>
    BY <1>1, <2>1 DEF Trimmed
  <2>2. CASE n.moves # <<>>
    <3> DEFINE k == Len(n.moves)
    <3>1. k \in 1 .. Len(n.moves) /\ n.moves[k] \in Moves
      BY <1>1, <2>2
    <3>2. [n.moves[k] EXCEPT !.whole = FALSE] \in Moves
      BY <3>1 DEF Moves
    <3>3. Trimmed(n.moves) = [n.moves EXCEPT ![k] = [n.moves[k] EXCEPT !.whole = FALSE]]
      BY <2>2 DEF Trimmed
    <3> QED BY <1>1, <3>1, <3>2, <3>3
  <2> QED BY <2>1, <2>2
<1>4. Arrival(n) \in Paths
  BY <1>1, <1>2, <1>3 DEF Arrival, Paths
<1>5. GearCost(n) \in Nat
  BY SearchAssumption DEF GearCost, SearchAssumption
<1>6. scene.curve[n.pose].gear \in Dirs /\ scene.curve[n.pose].cost \in Nat
  BY <1>2 DEF Curves
<1> DEFINE move == [from |-> n.pose, to |-> scene.goal, dir |-> scene.curve[n.pose].gear,
                    run |-> 1, leg |-> "curve", whole |-> TRUE]
<1>7. move \in Moves
  BY <1>1, <1>2, <1>6 DEF Moves
<1>8. Append(n.moves, move) \in Seq(Moves)
  BY <1>1, <1>7
<1>9. Connection(n) \in Paths
  <2>1. n.cost + scene.curve[n.pose].cost + GearCost(n) \in Nat
    BY <1>1, <1>5, <1>6
  <2> QED BY <1>1, <1>8, <2>1 DEF Connection, Paths
<1> QED BY <1>4, <1>9

LEMMA OpenAtIsTyped ==
  ASSUME NEW p \in Poses, NEW c \in Cells, OpenAt(c, p)
  PROVE /\ open' \in [Cells -> Nodes \cup {NoNode}]
        /\ queue' \subseteq Cells /\ closed' \subseteq Cells
        /\ cur' = NoCur /\ cur' \in [cell : Cells \cup {None}, at : Nat]
        /\ \A d \in queue' : open'[d] # NoNode
<1>1. NoCur \in [cell : Cells \cup {None}, at : Nat]
  BY DEF NoCur
<1>2. open' = [Empty EXCEPT ![c] = Root(p)] /\ queue' = {c} /\ closed' = {} /\ cur' = NoCur
  BY DEF OpenAt
<1>3. open'[c] = Root(p)
  BY <1>2 DEF Empty
<1> QED BY <1>1, <1>2, <1>3, RootIsTyped

LEMMA StepIsTyped == TypeOK /\ Busy /\ [Next]_vars => TypeOK' /\ Busy'
<1> SUFFICES ASSUME TypeOK, Busy, [Next]_vars PROVE TypeOK' /\ Busy'
  OBVIOUS
<1> USE DEF search_vars
<1>1. ASSUME NEW p \in Problems, StartPlan(p) PROVE TypeOK' /\ Busy'
  <2>1. Scene[p].start \in Poses /\ Scene[p].cell[Scene[p].start] \in Cells
    BY SceneIsTyped
  <2>2. OpenAt(Scene[p].cell[Scene[p].start], Scene[p].start)
    BY <1>1 DEF StartPlan
  <2>3. extended' \in BOOLEAN
    BY <1>1 DEF StartPlan
  <2>4. MaxClock \in Nat
    BY SearchAssumption DEF SearchAssumption
  <2>5. prefix' \in Seq(Moves)
    BY <1>1 DEF StartPlan
  <2>6. {extended', end_ok', stop'} \subseteq BOOLEAN
    BY <1>1, <2>3 DEF StartPlan, TypeOK
  <2>7. ends' \subseteq Paths /\ elapsed' \in 0 .. MaxClock /\ problem' = p
    BY <1>1, <2>4 DEF StartPlan
  <2> QED BY <1>1, <2>1, <2>2, <2>3, <2>5, <2>6, <2>7, OpenAtIsTyped DEF StartPlan, TypeOK, Busy
<1>2. ASSUME GiveUp, status # "idle"
      PROVE TypeOK' /\ Busy'
  BY <1>2, GiveUpIsTyped
<1>4. CASE Hopeless
  BY <1>2, <1>4 DEF Hopeless
<1>5. CASE ExtendPop
  <2>1. PICK c \in Cells : /\ Cheapest(c) /\ queue' = queue \ {c} /\ closed' = closed \cup {c}
                           /\ cur' = [cell |-> c, at |-> 1]
    BY <1>5 DEF ExtendPop
  <2>2. c \in queue /\ open[c] # NoNode
    BY <1>5, <2>1 DEF Cheapest, Busy, ExtendPop
  <2> QED BY <1>5, <2>1, <2>2 DEF ExtendPop, Aside, TypeOK, Busy
<1>6. ASSUME status \in {"extend", "search"}, Aside,
             NEW exploring \in BOOLEAN, NEW fits \in BOOLEAN, NEW cost \in Nat,
             \/ Pruned(exploring)
             \/ Dropped(exploring, fits)
             \/ Added(exploring, fits, cost) /\ NextMotion
             \/ ExpandDone
      PROVE TypeOK' /\ Busy'
  BY <1>6, LoopIsTyped DEF Aside, TypeOK, Busy
<1>7. CASE ExtendSkip
  <2>1. 0 \in Nat /\ Recedes(Motion) \in BOOLEAN
    BY <1>7, MotionIsTyped DEF ExtendSkip, Recedes, Motions
  <2> QED BY <1>6, <1>7, <2>1 DEF ExtendSkip
<1>8. CASE ExtendAdd
  <2>1. More /\ Recedes(Motion) \in BOOLEAN
    BY <1>8, MotionIsTyped DEF ExtendAdd, Added, Recedes, Motions
  <2> QED BY <1>6, <1>8, <2>1 DEF ExtendAdd
<1>9. CASE ExtendFound
  <2>1. More /\ status = "extend" /\ Added(TRUE, Recedes(Motion), 0)
    BY <1>9 DEF ExtendFound, Added
  <2>2. Recedes(Motion) \in BOOLEAN /\ Motion.dir \in Dirs
    BY <2>1, MotionIsTyped DEF Recedes, Motions
  <2>3. prefix' \in Seq(Moves)
    BY <1>9, <2>1, ChildIsTyped DEF ExtendFound
  <2>4. /\ open' \in [Cells -> Nodes \cup {NoNode}]
        /\ queue' \subseteq Cells /\ closed' \subseteq Cells /\ ends' = ends
        /\ cur' \in [cell : Cells \cup {None}, at : Nat]
    BY <1>9, <2>1, <2>2, LoopIsTyped DEF ExtendFound
  <2> QED BY <1>9, <2>1, <2>2, <2>3, <2>4 DEF ExtendFound, TypeOK, Busy
<1>10. CASE ExtendExhausted
  BY <1>2, <1>10 DEF ExtendExhausted
<1>11. CASE ExtendTimeout
  BY <1>2, <1>11 DEF ExtendTimeout
<1>12. CASE BeginSearch
  <2>1. problem \in Problems
    BY <1>12 DEF BeginSearch, Busy
  <2>2. OpenAt(StartCell, StartPose) /\ StartPose \in Poses /\ StartCell \in Cells
    BY <1>12, <2>1, StartIsTyped DEF BeginSearch
  <2>3. end_ok' \in BOOLEAN
    BY <1>12 DEF BeginSearch
  <2> QED BY <1>12, <2>1, <2>2, <2>3, OpenAtIsTyped DEF BeginSearch, TypeOK, Busy
<1>13. CASE Rejected
  BY <1>2, <1>13 DEF Rejected
<1>14. CASE SearchEnds
  <2>1. elapsed' \in 0 .. MaxClock
    BY <1>14 DEF SearchEnds, TypeOK
  <2> QED BY <1>14, <2>1 DEF SearchEnds, Ends, TypeOK, Busy
<1>15. CASE SearchTimeout
  BY <1>2, <1>15 DEF SearchTimeout
<1>16. CASE SearchPop
  <2>1. PICK now \in elapsed .. MaxClock, c \in Cells :
          /\ elapsed' = now /\ Cheapest(c) /\ queue' = queue \ {c}
          /\ \/ /\ ends' = ends \cup {Arrival(open[c])} /\ status' = "final"
                /\ UNCHANGED <<closed, cur>>
             \/ /\ \/ /\ ends' = ends \cup {Connection(open[c])}
                      /\ closed' = closed \cup {c, CurveCell}
                   \/ closed' = closed \cup {c} /\ ends' = ends
                /\ cur' = [cell |-> c, at |-> 1] /\ UNCHANGED status
    BY <1>16 DEF SearchPop
  <2>2. c \in queue /\ open[c] # NoNode /\ open[c] \in Nodes /\ problem \in Problems
    BY <1>16, <2>1 DEF Cheapest, Busy, SearchPop, TypeOK
  <2>3. Arrival(open[c]) \in Paths /\ Connection(open[c]) \in Paths
    BY <2>2, PathsAreTyped
  <2>4. elapsed' \in 0 .. MaxClock
    BY <2>1 DEF TypeOK
  <2>5. CurveCell \in Cells
    BY <2>2, SceneIsTyped DEF CurveCell, scene
  <2>6. ends' \subseteq Paths /\ closed' \subseteq Cells /\ queue' \subseteq Cells
    BY <2>1, <2>3, <2>5 DEF TypeOK
  <2>7. /\ cur' \in [cell : Cells \cup {None}, at : Nat] /\ status' \in {"search", "final"}
        /\ cur' # NoCur => cur' = [cell |-> c, at |-> 1]
    BY <1>16, <2>1 DEF SearchPop, TypeOK
  <2>8. TypeOK'
    BY <1>16, <2>4, <2>6, <2>7 DEF SearchPop, TypeOK
  <2> QED BY <1>16, <2>1, <2>2, <2>7, <2>8 DEF SearchPop, Busy
<1>17. CASE SearchSkip
  <2>1. CASE Pruned(FALSE) \/ ExpandDone
    BY <1>6, <1>17, <2>1 DEF SearchSkip
  <2>2. CASE Dropped(FALSE, Motion.clear)
    <3>1. Motion.clear \in BOOLEAN
      BY <1>17, <2>2, MotionIsTyped DEF SearchSkip, Dropped, Motions
    <3> QED BY <1>6, <1>17, <2>2, <3>1 DEF SearchSkip
  <2> QED BY <1>17, <2>1, <2>2 DEF SearchSkip
<1>18. CASE SearchAdd
  <2>1. More /\ status = "search"
    BY <1>18 DEF SearchAdd, Added
  <2>2. Motion.clear \in BOOLEAN /\ Motion.cost \in Nat /\ Node.cost \in Nat
    BY <2>1, MotionIsTyped DEF Motions, Nodes
  <2>3. Node.cost + StepCost(Motion) \in Nat
    BY <2>2, SearchAssumption DEF StepCost, SearchAssumption
  <2> QED BY <1>6, <1>18, <2>1, <2>2, <2>3 DEF SearchAdd
<1>19. CASE SearchCalledOff
  BY <1>19 DEF SearchCalledOff, Aside, TypeOK, Busy, NoCur
<1>20. CASE Deliver
  <2>1. PICK path \in ends : Found(path)
    BY <1>20 DEF Deliver, Best
  <2>2. prefix \o path.moves \in Seq(Moves) /\ Len(prefix) \in Nat
    BY <2>1 DEF TypeOK, Paths
  <2>3. problem \in Problems
    BY <1>20 DEF Deliver, Busy
  <2>4. out' \in Answers
    <3>1. <<>> \in Seq(Moves)
      OBVIOUS
    <3> QED BY <2>1, <2>2, <2>3, <3>1 DEF Found, NoAnswer, Answers
  <2> QED BY <1>20, <2>4 DEF Deliver, TypeOK, Busy
<1>21. CASE NoneFound
  BY <1>2, <1>21 DEF NoneFound
<1>22. CASE EarlyStop
  BY <1>22 DEF EarlyStop, TypeOK, Busy
<1>23. CASE UNCHANGED vars
  BY <1>23 DEF vars, TypeOK, Busy
<1> QED BY <1>1, <1>4, <1>5, <1>7, <1>8, <1>9, <1>10, <1>11, <1>12, <1>13, <1>14, <1>15, <1>16,
          <1>17, <1>18, <1>19, <1>20, <1>21, <1>22, <1>23 DEF Next, Work

(* Every variable of the search keeps its type: nodes are nodes, whatever  *)
(* motions are tried and whenever the search is called off.                *)
THEOREM SearchIsWellTyped == Spec => []TypeOK
<1>1. Spec => [](TypeOK /\ Busy)
  BY InitIsTyped, StepIsTyped, PTL DEF Spec
<1> QED BY <1>1, PTL

-----------------------------------------------------------------------------
(* Chains of moves *)

\* Moves the car can drive one after the other, from first on, turning only after
\* the length of a turn.
Chain(s, moves, first, exploring) ==
  /\ moves # <<>> => moves[1].from = first
  /\ \A i \in 1 .. Len(moves) : Drivable(s, moves[i], exploring)
  /\ \A i \in 1 .. Len(moves) - 1 :
       /\ moves[i].to = moves[i + 1].from
       /\ moves[i].dir # moves[i + 1].dir /\ moves[i + 1].leg = "motion"
            => MinLength <= moves[i].run * Step

\* The motions lead to different cells.
Apart(s, moves) ==
  \A i, j \in 1 .. Len(moves) :
    /\ moves[i].leg = "motion" /\ moves[j].leg = "motion"
    /\ s.cell[moves[i].to] = s.cell[moves[j].to]
    => i = j

\* A node is where its moves lead, and its length is that of the last run, or of a part
\* of it; it has none only if it may turn.
NodeFits(s, n, first, exploring) ==
  /\ Chain(s, n.moves, first, exploring)
  /\ Apart(s, n.moves)
  /\ \A i \in 1 .. Len(n.moves) : n.moves[i].leg = "motion"
  /\ n.moves = <<>> => n.pose = first /\ n.len = 0
  /\ n.moves # <<>> =>
       LET m == n.moves[Len(n.moves)]
       IN  /\ m.to = n.pose /\ m.dir = n.dir
           /\ n.len <= m.run * Step
           /\ n.len = 0 => MinLength <= m.run * Step

(* A chain goes on with a move from its end.                               *)
LEMMA ChainGoesOn ==
  ASSUME NEW s, NEW moves \in Seq(Moves), NEW first, NEW exploring, NEW m \in Moves,
         Chain(s, moves, first, exploring),
         Drivable(s, m, exploring),
         moves = <<>> => m.from = first,
         moves # <<>> => LET l == moves[Len(moves)]
                         IN  /\ l.to = m.from
                             /\ l.dir # m.dir /\ m.leg = "motion" => MinLength <= l.run * Step
  PROVE Chain(s, Append(moves, m), first, exploring)
<1> DEFINE on == Append(moves, m)
           n == Len(moves)
<1>1. on \in Seq(Moves) /\ Len(on) = n + 1 /\ n \in Nat /\ on[n + 1] = m
  OBVIOUS
<1>2. \A i \in 1 .. n : on[i] = moves[i]
  OBVIOUS
<1>3. on[1].from = first
  <2>1. CASE n = 0
    BY <1>1, <2>1
  <2>2. CASE n # 0
    BY <1>1, <1>2, <2>2 DEF Chain
  <2> QED BY <2>1, <2>2
<1>4. \A i \in 1 .. n + 1 : Drivable(s, on[i], exploring)
  <2> SUFFICES ASSUME NEW i \in 1 .. n + 1 PROVE Drivable(s, on[i], exploring)
    OBVIOUS
  <2>1. CASE i = n + 1
    BY <1>1, <2>1
  <2>2. CASE i \in 1 .. n
    BY <1>2, <2>2 DEF Chain
  <2> QED BY <1>1, <2>1, <2>2
<1>5. \A i \in 1 .. n :
        /\ on[i].to = on[i + 1].from
        /\ on[i].dir # on[i + 1].dir /\ on[i + 1].leg = "motion" => MinLength <= on[i].run * Step
  <2> SUFFICES ASSUME NEW i \in 1 .. n
               PROVE /\ on[i].to = on[i + 1].from
                     /\ on[i].dir # on[i + 1].dir /\ on[i + 1].leg = "motion"
                          => MinLength <= on[i].run * Step
    OBVIOUS
  <2>1. CASE i = n
    <3>1. moves # <<>> /\ on[i] = moves[n] /\ on[i + 1] = m
      BY <1>1, <1>2, <2>1
    <3> QED BY <3>1
  <2>2. CASE i # n
    <3>1. i \in 1 .. n - 1 /\ on[i] = moves[i] /\ on[i + 1] = moves[i + 1]
      BY <1>1, <1>2, <2>2
    <3> QED BY <3>1 DEF Chain
  <2> QED BY <2>1, <2>2
<1> HIDE DEF on, n
<1> QED BY <1>1, <1>3, <1>4, <1>5 DEF Chain, on, n

(* A motion to a cell none of the others leads to, or a curve.             *)
LEMMA ApartGoesOn ==
  ASSUME NEW s, NEW moves \in Seq(Moves), NEW m \in Moves, Apart(s, moves),
         m.leg = "motion" =>
           \A i \in 1 .. Len(moves) : s.cell[moves[i].to] # s.cell[m.to]
  PROVE Apart(s, Append(moves, m))
<1> DEFINE on == Append(moves, m)
           n == Len(moves)
<1>1. Len(on) = n + 1 /\ n \in Nat /\ on[n + 1] = m
  OBVIOUS
<1>2. \A i \in 1 .. n : on[i] = moves[i]
  OBVIOUS
<1>3. SUFFICES ASSUME NEW i \in 1 .. n + 1, NEW j \in 1 .. n + 1,
                      on[i].leg = "motion", on[j].leg = "motion",
                      s.cell[on[i].to] = s.cell[on[j].to]
               PROVE i = j
  BY <1>1 DEF Apart
<1>4. CASE i \in 1 .. n /\ j \in 1 .. n
  BY <1>2, <1>3, <1>4 DEF Apart
<1>5. CASE i = n + 1 /\ j \in 1 .. n
  BY <1>1, <1>2, <1>3, <1>5
<1>6. CASE j = n + 1 /\ i \in 1 .. n
  BY <1>1, <1>2, <1>3, <1>6
<1> QED BY <1>1, <1>4, <1>5, <1>6

(* A parent and its child, while the open set has the nodes of other cells.*)
LEMMA ChildFits ==
  ASSUME TypeOK, Busy, status \in {"extend", "search"}, More,
         NEW exploring \in BOOLEAN, NEW cost \in Nat, NEW first,
         NodeFits(scene, Node, first, exploring),
         Generated(Motion, exploring)
  PROVE /\ NodeFits(scene, ParentAfter(Motion), first, exploring)
        /\ /\ IF exploring THEN Motion.pure ELSE Motion.clear
           /\ \A i \in 1 .. Len(Node.moves) :
                scene.cell[Node.moves[i].to] # scene.cell[Motion.to]
           => NodeFits(scene, Child(Motion, cost), first, exploring)
<1> DEFINE moves == Node.moves
           last == moves[Len(moves)]
<1>1. /\ Node \in Nodes /\ Motion \in Motions /\ moves \in Seq(Moves) /\ Node.len \in Nat
      /\ cur.at \in 1 .. Len(scene.motions[Node.pose]) /\ Node.dir \in Dirs
  BY MotionIsTyped DEF Nodes
<1>2. MinLength \in Nat /\ Step \in Nat /\ Step > 0
  BY SearchAssumption DEF SearchAssumption
<1>3. moves # <<>> => last \in Moves /\ last.run \in Nat /\ Len(moves) > 0
  <2> SUFFICES ASSUME moves # <<>> PROVE last \in Moves /\ last.run \in Nat /\ Len(moves) > 0
    OBVIOUS
  <2>1. Len(moves) \in 1 .. Len(moves)
    BY <1>1
  <2>2. last \in Moves
    BY <1>1, <2>1
  <2> QED BY <2>1, <2>2 DEF Moves
<1>4. moves # <<>> => /\ last.to = Node.pose /\ last.dir = Node.dir
                      /\ Node.len <= last.run * Step
                      /\ Node.len = 0 => MinLength <= last.run * Step
  BY DEF NodeFits
<1>5. Motion.dir # Node.dir /\ moves # <<>> => MinLength <= last.run * Step
  <2> SUFFICES ASSUME Motion.dir # Node.dir, moves # <<>> PROVE MinLength <= last.run * Step
    OBVIOUS
  <2>1. last.run * Step \in Nat
    BY <1>2, <1>3
  <2>2. Node.len = 0 \/ MinLength <= Node.len
    BY <1>1, <1>2 DEF Generated, TurnsTooEarly
  <2> QED BY <1>1, <1>2, <1>4, <2>1, <2>2
<1>6. NodeFits(scene, ParentAfter(Motion), first, exploring)
  <2>1. CASE Motion.dir = Node.dir
    BY <2>1 DEF ParentAfter
  <2>2. CASE Motion.dir # Node.dir
    <3>1. /\ ParentAfter(Motion).moves = moves /\ ParentAfter(Motion).pose = Node.pose
          /\ ParentAfter(Motion).dir = Node.dir /\ ParentAfter(Motion).len = 0
      BY <1>1, <2>2 DEF ParentAfter, Nodes
    <3>2. moves # <<>> => 0 <= last.run * Step
      BY <1>2, <1>3
    <3> QED BY <1>4, <1>5, <2>2, <3>1, <3>2 DEF NodeFits
  <2> QED BY <2>1, <2>2
<1>7. ASSUME IF exploring THEN Motion.pure ELSE Motion.clear,
             \A i \in 1 .. Len(moves) : scene.cell[moves[i].to] # scene.cell[Motion.to]
      PROVE NodeFits(scene, Child(Motion, cost), first, exploring)
  <2> DEFINE move == ChildMove(Motion)
             child == Child(Motion, cost)
  <2>1. /\ move \in Moves /\ move.from = Node.pose /\ move.to = Motion.to
        /\ move.dir = Motion.dir /\ move.leg = "motion"
    BY ChildIsTyped DEF ChildMove
  <2>2. Drivable(scene, move, exploring)
    BY <1>1, <1>7, <2>1 DEF Drivable, Generated, Motion
  <2>3. moves = <<>> => move.from = first
    BY <2>1 DEF NodeFits
  <2>4. Chain(scene, moves, first, exploring) /\ Apart(scene, moves)
    BY DEF NodeFits
  <2>5. Chain(scene, Append(moves, move), first, exploring)
    BY <1>1, <1>4, <1>5, <2>1, <2>2, <2>3, <2>4, ChainGoesOn
  <2>6. Apart(scene, Append(moves, move))
    BY <1>1, <1>7, <2>1, <2>4, ApartGoesOn
  <2>7. /\ child.moves = Append(moves, move) /\ child.pose = Motion.to /\ child.dir = Motion.dir
        /\ child.len = IF Motion.dir = Node.dir THEN Node.len + Step ELSE Step
    BY DEF Child
  <2>8. Len(child.moves) = Len(moves) + 1 /\ child.moves[Len(child.moves)] = move
    BY <1>1, <2>1, <2>7
  <2>9. \A i \in 1 .. Len(child.moves) : child.moves[i].leg = "motion"
    BY <1>1, <2>1, <2>7 DEF NodeFits
  <2>10. child.len > 0 /\ child.len <= move.run * Step
    <3>1. CASE Motion.dir = Node.dir /\ moves # <<>>
      <4>1. move.run = last.run + 1
        BY <1>1, <1>3, <3>1 DEF ChildMove
      <4>2. (last.run + 1) * Step = last.run * Step + Step
        BY <1>2, <1>3, <3>1
      <4> QED BY <1>1, <1>2, <1>3, <1>4, <2>7, <3>1, <4>1, <4>2
    <3>2. CASE ~(Motion.dir = Node.dir /\ moves # <<>>)
      <4>1. move.run = 1
        BY <1>1, <3>2 DEF ChildMove
      <4>2. child.len <= Step
        <5>1. CASE Motion.dir # Node.dir
          BY <1>2, <2>7, <5>1
        <5>2. CASE moves = <<>> /\ Motion.dir = Node.dir
          BY <1>2, <2>7, <5>2 DEF NodeFits
        <5> QED BY <3>2, <5>1, <5>2
      <4> QED BY <1>1, <1>2, <2>7, <4>1, <4>2
    <3> QED BY <3>1, <3>2
  <2>11. child.moves # <<>>
    BY <1>1, <2>1, <2>7
  <2>12. NodeFits(scene, child, first, exploring)
    <3> HIDE DEF move, child
    <3> QED BY <2>1, <2>5, <2>6, <2>7, <2>8, <2>9, <2>10, <2>11 DEF NodeFits
  <2> QED BY <2>12
<1> QED BY <1>6, <1>7

-----------------------------------------------------------------------------
(* The open set *)

\* The node of a cell: its moves lead to cells that have nodes, and those of a search go
\* on in the direction of the local extension.
CellFits(c, n, exploring) ==
  n # NoNode =>
    /\ NodeFits(scene, n, StartPose, exploring)
    /\ \A i \in 1 .. Len(n.moves) : open[scene.cell[n.moves[i].to]] # NoNode
    /\ ~exploring =>
         /\ n.moves = <<>> => c = StartCell
         /\ n.moves # <<>> /\ forced # None => n.moves[1].dir = forced

OpenFits(exploring) == \A c \in Cells : CellFits(c, open[c], exploring)

(* A search begins with one node that has not moved.                       *)
LEMMA OpenBegins ==
  ASSUME NEW c \in Cells, NEW p \in Poses, OpenAt(c, p), NEW exploring \in BOOLEAN,
         p = StartPose', exploring \/ c = StartCell'
  PROVE OpenFits(exploring)'
<1>1. open' = [Empty EXCEPT ![c] = Root(p)]
  BY DEF OpenAt
<1>2. \A d \in Cells : open'[d] = IF d = c THEN Root(p) ELSE NoNode
  BY <1>1 DEF Empty
<1>3. Root(p).moves = <<>> /\ Root(p).pose = p /\ Root(p).len = 0 /\ Len(Root(p).moves) = 0
  BY DEF Root
<1>4. NodeFits(scene', Root(p), StartPose', exploring)
  BY <1>3 DEF NodeFits, Chain, Apart
<1> QED BY <1>2, <1>3, <1>4 DEF OpenFits, CellFits

LEMMA MovesLeadToCells ==
  ASSUME TypeOK, problem \in Problems, NEW c \in Cells, open[c] # NoNode
  PROVE \A i \in 1 .. Len(open[c].moves) : scene.cell[open[c].moves[i].to] \in Cells
<1> SUFFICES ASSUME NEW i \in 1 .. Len(open[c].moves)
             PROVE scene.cell[open[c].moves[i].to] \in Cells
  OBVIOUS
<1>1. open[c].moves \in Seq(Moves)
  BY DEF TypeOK, Nodes
<1>2. open[c].moves[i] \in Moves
  BY <1>1
<1>3. open[c].moves[i].to \in Poses
  BY <1>2 DEF Moves
<1> QED BY <1>3, SceneIsTyped DEF scene

(* The loop over the motions exchanges the node for one with the same      *)
(* moves and adds a child; no cell loses its node.                         *)
LEMMA LoopKeepsOpen ==
  ASSUME TypeOK, Busy, status \in {"extend", "search"},
         NEW exploring \in BOOLEAN, NEW fits \in BOOLEAN, NEW cost \in Nat,
         OpenFits(exploring),
         fits => IF exploring THEN Motion.pure ELSE Motion.clear,
         \/ Pruned(exploring)
         \/ Dropped(exploring, fits)
         \/ Added(exploring, fits, cost)
         \/ ExpandDone,
         UNCHANGED <<problem, prefix, forced>>
  PROVE OpenFits(exploring)'
<1>1. scene' = scene /\ StartPose' = StartPose /\ StartCell' = StartCell /\ forced' = forced
  BY DEF scene, StartPose, StartCell
<1>2. CASE open' = open
  BY <1>1, <1>2 DEF OpenFits, CellFits
<1>3. ASSUME More, Generated(Motion, exploring)
      PROVE /\ Node = open[cur.cell] /\ cur.cell \in Cells
            /\ CellFits(cur.cell, Node, exploring) /\ Node # NoNode
            /\ NodeFits(scene, ParentAfter(Motion), StartPose, exploring)
            /\ ParentAfter(Motion).moves = Node.moves
            /\ ParentAfter(Motion) # NoNode
            /\ Node.moves \in Seq(Moves)
  <2>1. Node = open[cur.cell] /\ cur.cell \in Cells /\ Node \in Nodes
    BY <1>3, MotionIsTyped DEF Node
  <2>2. CellFits(cur.cell, Node, exploring) /\ Node # NoNode
    BY <1>3, <2>1 DEF OpenFits, Busy, More
  <2>3. NodeFits(scene, ParentAfter(Motion), StartPose, exploring)
    BY <1>3, <2>2, ChildFits DEF CellFits
  <2>4. ParentAfter(Motion).moves = Node.moves /\ Node.moves \in Seq(Moves)
    BY <2>1 DEF ParentAfter, Nodes
  <2> QED BY <1>3, <2>1, <2>2, <2>3, <2>4, ChildIsTyped
<1>4. CASE Dropped(exploring, fits)
  <2>1. More /\ Generated(Motion, exploring)
        /\ open' = [open EXCEPT ![cur.cell] = ParentAfter(Motion)]
    BY <1>4 DEF Dropped
  <2>2. \A c \in Cells : open'[c] = IF c = cur.cell THEN ParentAfter(Motion) ELSE open[c]
    BY <2>1 DEF TypeOK
  <2>3. \A c \in Cells : open[c] # NoNode => open'[c] # NoNode
    BY <1>3, <2>1, <2>2
  <2> SUFFICES ASSUME NEW c \in Cells, open'[c] # NoNode PROVE CellFits(c, open[c], exploring)'
    BY DEF OpenFits, CellFits
  <2>4. \A i \in 1 .. Len(open[c].moves) :
          open[c] # NoNode => scene.cell[open[c].moves[i].to] \in Cells
    BY MovesLeadToCells DEF Busy
  <2>5. CASE c = cur.cell
    BY <1>1, <1>3, <2>1, <2>2, <2>3, <2>4, <2>5 DEF CellFits
  <2>6. CASE c # cur.cell
    BY <1>1, <2>2, <2>3, <2>4, <2>6 DEF OpenFits, CellFits
  <2> QED BY <2>5, <2>6
<1>5. CASE Added(exploring, fits, cost)
  <2> DEFINE d == scene.cell[Motion.to]
             child == Child(Motion, cost)
             move == ChildMove(Motion)
  <2>1. /\ More /\ Generated(Motion, exploring) /\ IsNew(d) /\ fits
        /\ open' = [open EXCEPT ![cur.cell] = ParentAfter(Motion), ![d] = child]
    BY <1>5 DEF Added
  <2>2. d \in Cells /\ open[d] = NoNode /\ d # cur.cell
    BY <1>3, <2>1, MotionIsTyped DEF IsNew
  <2>3. \A c \in Cells : open'[c] = IF c = d THEN child
                                    ELSE IF c = cur.cell THEN ParentAfter(Motion) ELSE open[c]
    BY <2>1, <2>2 DEF TypeOK
  <2>4. child # NoNode
    BY <2>1, ChildIsTyped
  <2>5. \A c \in Cells : open[c] # NoNode => open'[c] # NoNode
    BY <1>3, <2>1, <2>3, <2>4
  <2>6. \A i \in 1 .. Len(Node.moves) : scene.cell[Node.moves[i].to] # d
    BY <1>3, <2>1, <2>2 DEF CellFits
  <2>7. NodeFits(scene, child, StartPose, exploring)
    BY <1>3, <2>1, <2>6, ChildFits DEF CellFits
  <2>8. /\ child.moves = Append(Node.moves, move) /\ move \in Moves
        /\ move.to = Motion.to /\ move.dir = Motion.dir
    BY <2>1, ChildIsTyped DEF Child, ChildMove
  <2>9. /\ Len(child.moves) = Len(Node.moves) + 1
        /\ \A i \in 1 .. Len(Node.moves) : child.moves[i] = Node.moves[i]
        /\ child.moves[Len(Node.moves) + 1] = move /\ Len(Node.moves) \in Nat
        /\ child.moves # <<>>
    BY <1>3, <2>1, <2>8
  <2>10. \A c \in Cells : open[c] # NoNode =>
           \A i \in 1 .. Len(open[c].moves) : scene.cell[open[c].moves[i].to] \in Cells
    BY MovesLeadToCells DEF Busy
  <2>11. \A i \in 1 .. Len(child.moves) : open'[scene.cell[child.moves[i].to]] # NoNode
    <3> SUFFICES ASSUME NEW i \in 1 .. Len(child.moves)
                 PROVE open'[scene.cell[child.moves[i].to]] # NoNode
      OBVIOUS
    <3>1. CASE i = Len(Node.moves) + 1
      BY <2>2, <2>3, <2>4, <2>8, <2>9, <3>1
    <3>2. CASE i \in 1 .. Len(Node.moves)
      BY <1>3, <2>1, <2>5, <2>9, <2>10, <3>2 DEF CellFits
    <3> QED BY <2>9, <3>1, <3>2
  <2>12. ~exploring /\ forced # None => child.moves[1].dir = forced
    <3> SUFFICES ASSUME ~exploring, forced # None PROVE child.moves[1].dir = forced
      OBVIOUS
    <3>1. CASE Node.moves = <<>>
      <4>1. cur.cell = StartCell
        BY <1>3, <2>1, <3>1 DEF CellFits
      <4>2. Motion.dir = forced
        BY <2>1, <4>1 DEF Generated, AgainstForced
      <4> QED BY <1>3, <2>1, <2>8, <2>9, <3>1, <4>2
    <3>2. CASE Node.moves # <<>>
      <4>1. 1 \in 1 .. Len(Node.moves)
        BY <1>3, <2>1, <3>2
      <4> QED BY <1>3, <2>1, <2>9, <3>2, <4>1 DEF CellFits
    <3> QED BY <3>1, <3>2
  <2> SUFFICES ASSUME NEW c \in Cells, open'[c] # NoNode PROVE CellFits(c, open[c], exploring)'
    BY DEF OpenFits, CellFits
  <2>13. CASE c = d
    <3>1. open'[c] = child /\ child.moves # <<>>
      BY <2>2, <2>3, <2>9, <2>13
    <3> HIDE DEF child, d
    <3> QED BY <1>1, <2>7, <2>11, <2>12, <3>1 DEF CellFits
  <2>14. CASE c # d /\ c = cur.cell
    <3>1. open'[c] = ParentAfter(Motion) /\ ParentAfter(Motion).moves = Node.moves
      BY <1>3, <2>1, <2>3, <2>14
    <3>2. \A i \in 1 .. Len(Node.moves) : open'[scene.cell[Node.moves[i].to]] # NoNode
      BY <1>3, <2>1, <2>5, <2>10, <2>14 DEF CellFits
    <3>3. ~exploring => /\ Node.moves = <<>> => c = StartCell
                        /\ Node.moves # <<>> /\ forced # None => Node.moves[1].dir = forced
      BY <1>3, <2>1, <2>14 DEF CellFits
    <3> HIDE DEF child, d
    <3> QED BY <1>1, <1>3, <2>1, <3>1, <3>2, <3>3 DEF CellFits
  <2>15. CASE c # d /\ c # cur.cell
    <3> HIDE DEF child, d
    <3> QED BY <1>1, <2>3, <2>5, <2>10, <2>15 DEF OpenFits, CellFits
  <2> QED BY <2>13, <2>14, <2>15
<1> QED BY <1>2, <1>4, <1>5 DEF Pruned, ExpandDone

-----------------------------------------------------------------------------
(* The ends of a search, and its answer *)

\* A path from where the search starts, in the direction of the local extension.
PathFits(path) ==
  /\ Chain(scene, path.moves, StartPose, FALSE)
  /\ Apart(scene, path.moves)
  /\ (IF path.moves = <<>> THEN StartPose ELSE path.moves[Len(path.moves)].to)
       \in scene.dest \cup {scene.goal}
  /\ path.moves # <<>> /\ forced # None => path.moves[1].dir = forced

\* The local extension leads from the start on, and gives the search its direction.
PrefixFits ==
  /\ Chain(scene, prefix, scene.start, TRUE)
  /\ prefix = <<>> <=> forced = None
  /\ prefix # <<>> => prefix[Len(prefix)].dir = forced

(* A later candidate lacks its points, but no move.                        *)
LEMMA TrimmedAlike ==
  ASSUME NEW moves \in Seq(Moves)
  PROVE /\ Trimmed(moves) \in Seq(Moves) /\ Len(Trimmed(moves)) = Len(moves)
        /\ moves = <<>> <=> Trimmed(moves) = <<>>
        /\ \A i \in 1 .. Len(moves) :
             /\ Trimmed(moves)[i].from = moves[i].from /\ Trimmed(moves)[i].to = moves[i].to
             /\ Trimmed(moves)[i].dir = moves[i].dir /\ Trimmed(moves)[i].run = moves[i].run
             /\ Trimmed(moves)[i].leg = moves[i].leg
<1>1. CASE moves = <<>>
  BY <1>1 DEF Trimmed
<1>2. CASE moves # <<>>
  <2> DEFINE k == Len(moves)
  <2>1. k \in 1 .. Len(moves) /\ moves[k] \in Moves
    BY <1>2
  <2> DEFINE last == [moves[k] EXCEPT !.whole = FALSE]
  <2>2. /\ last \in Moves /\ last.from = moves[k].from /\ last.to = moves[k].to
        /\ last.dir = moves[k].dir /\ last.run = moves[k].run /\ last.leg = moves[k].leg
    BY <2>1 DEF Moves
  <2>3. Trimmed(moves) = [moves EXCEPT ![k] = last]
    BY <1>2 DEF Trimmed
  <2> HIDE DEF last
  <2>4. /\ Trimmed(moves) \in Seq(Moves) /\ Len(Trimmed(moves)) = k
        /\ \A i \in 1 .. k : Trimmed(moves)[i] = IF i = k THEN last ELSE moves[i]
    BY <2>1, <2>2, <2>3
  <2> QED BY <1>2, <2>1, <2>2, <2>4
<1> QED BY <1>1, <1>2

LEMMA DrivableAlike ==
  ASSUME NEW s, NEW exploring, NEW m, NEW w, Drivable(s, m, exploring),
         w.from = m.from, w.to = m.to, w.dir = m.dir, w.leg = m.leg
  PROVE Drivable(s, w, exploring)
BY DEF Drivable

(* A node that has arrived.                                                *)
LEMMA ArrivalFits ==
  ASSUME TypeOK, NEW c \in Cells, NEW n \in Nodes, n # NoNode, CellFits(c, n, FALSE),
         n.pose \in scene.dest
  PROVE PathFits(Arrival(n))
<1> DEFINE moves == n.moves
           way == Arrival(n).moves
<1>1. moves \in Seq(Moves) /\ NodeFits(scene, n, StartPose, FALSE)
  BY DEF Nodes, CellFits
<1>2. /\ way \in Seq(Moves) /\ Len(way) = Len(moves) /\ Len(moves) \in Nat
      /\ moves = <<>> <=> way = <<>>
      /\ \A i \in 1 .. Len(moves) :
           /\ way[i].from = moves[i].from /\ way[i].to = moves[i].to
           /\ way[i].dir = moves[i].dir /\ way[i].run = moves[i].run /\ way[i].leg = moves[i].leg
  <2>1. CASE ends = {}
    BY <1>1, <2>1 DEF Arrival
  <2>2. CASE ends # {}
    BY <1>1, <2>2, TrimmedAlike DEF Arrival
  <2> QED BY <2>1, <2>2
<1>3. moves # <<>> => Len(moves) \in 1 .. Len(moves) /\ 1 \in 1 .. Len(moves)
  BY <1>1
<1> HIDE DEF moves, way
<1>4. Chain(scene, moves, StartPose, FALSE) /\ Apart(scene, moves)
  BY <1>1 DEF NodeFits, moves
<1>5. \A i \in 1 .. Len(way) : Drivable(scene, way[i], FALSE)
  BY <1>2, <1>4, DrivableAlike DEF Chain
<1>6. Chain(scene, way, StartPose, FALSE)
  <2>1. way # <<>> => way[1].from = StartPose
    BY <1>2, <1>3, <1>4 DEF Chain
  <2>2. ASSUME NEW i \in 1 .. Len(way) - 1
        PROVE /\ way[i].to = way[i + 1].from
              /\ way[i].dir # way[i + 1].dir /\ way[i + 1].leg = "motion"
                   => MinLength <= way[i].run * Step
    <3>1. i \in 1 .. Len(moves) /\ i + 1 \in 1 .. Len(moves) /\ i \in 1 .. Len(moves) - 1
      BY <1>2, <2>2
    <3> QED BY <1>2, <1>4, <3>1 DEF Chain
  <2> QED BY <1>5, <2>1, <2>2 DEF Chain
<1>7. Apart(scene, way)
  BY <1>2, <1>4 DEF Apart
<1>8. (IF way = <<>> THEN StartPose ELSE way[Len(way)].to) = n.pose
  BY <1>1, <1>2, <1>3 DEF NodeFits, moves
<1>9. way # <<>> /\ forced # None => way[1].dir = forced
  BY <1>2, <1>3 DEF CellFits, moves
<1> QED BY <1>6, <1>7, <1>8, <1>9 DEF PathFits, way

(* A node with a curve to the goal.                                        *)
LEMMA ConnectionFits ==
  ASSUME TypeOK, problem \in Problems, NEW c \in Cells, NEW n \in Nodes, n # NoNode,
         CellFits(c, n, FALSE), Connects(n, c)
  PROVE PathFits(Connection(n))
<1> DEFINE curve == scene.curve[n.pose]
           move == [from |-> n.pose, to |-> scene.goal, dir |-> curve.gear, run |-> 1,
                    leg |-> "curve", whole |-> TRUE]
           moves == n.moves
<1>1. moves \in Seq(Moves) /\ NodeFits(scene, n, StartPose, FALSE) /\ n.pose \in Poses
  BY DEF Nodes, CellFits
<1>2. curve \in Curves /\ scene.goal \in Poses
  BY <1>1, SceneIsTyped DEF scene
<1>3. move \in Moves
  BY <1>1, <1>2 DEF Moves, Curves
<1>4. Drivable(scene, move, FALSE)
  BY DEF Drivable, Connects
<1>5. Chain(scene, moves, StartPose, FALSE) /\ Apart(scene, moves)
  BY <1>1 DEF NodeFits
<1>6. Chain(scene, Append(moves, move), StartPose, FALSE)
  <2>1. moves = <<>> => move.from = StartPose
    BY <1>1 DEF NodeFits
  <2>2. moves # <<>> => moves[Len(moves)].to = move.from /\ move.leg # "motion"
    BY <1>1 DEF NodeFits
  <2> HIDE DEF move, moves
  <2> QED BY <1>1, <1>3, <1>4, <1>5, <2>1, <2>2, ChainGoesOn DEF moves
<1>7. Apart(scene, Append(moves, move))
  BY <1>1, <1>3, <1>5, ApartGoesOn
<1>8. Connection(n).moves = Append(moves, move)
  BY DEF Connection
<1>9. /\ Append(moves, move) # <<>> /\ Len(Append(moves, move)) = Len(moves) + 1
      /\ Append(moves, move)[Len(moves) + 1] = move
      /\ moves # <<>> => Append(moves, move)[1] = moves[1]
      /\ moves = <<>> => Append(moves, move)[1] = move
  <2> HIDE DEF move, moves
  <2>1. /\ Len(Append(moves, move)) = Len(moves) + 1 /\ Len(moves) \in Nat
        /\ Append(moves, move)[Len(moves) + 1] = move
        /\ \A i \in 1 .. Len(moves) : Append(moves, move)[i] = moves[i]
    BY <1>1, <1>3
  <2>2. Append(moves, move) # <<>>
    BY <1>1, <1>3, <2>1
  <2>3. moves # <<>> => 1 \in 1 .. Len(moves)
    BY <1>1
  <2>4. moves = <<>> => Len(moves) + 1 = 1
    OBVIOUS
  <2> QED BY <2>1, <2>2, <2>3, <2>4
<1>10. forced # None => Append(moves, move)[1].dir = forced
  BY <1>9 DEF CellFits, Connects
<1>11. move.to = scene.goal
  OBVIOUS
<1> HIDE DEF move, moves, curve
<1> QED BY <1>6, <1>7, <1>8, <1>9, <1>10, <1>11 DEF PathFits

(* The extension and a path of the search make an answer.                  *)
LEMMA FoundFits ==
  ASSUME TypeOK, problem \in Problems, PrefixFits, NEW path \in Paths, PathFits(path), Found(path)
  PROVE (PathIsDrivable /\ NeverInCellTwice)' /\ out'.of = problem /\ out'.kind # "warm"
<1> DEFINE moves == path.moves
           p == Len(prefix)
           n == Len(moves)
           way == prefix \o moves
<1>1. prefix \in Seq(Moves) /\ moves \in Seq(Moves) /\ p \in Nat /\ n \in Nat
  BY DEF TypeOK, Paths
<1>2. CASE way = <<>> /\ ~TraceTail
  BY <1>2 DEF Found, NoAnswer, PathIsDrivable, PathConnects, ShiftAfterLength, JointKeepsGear,
              NeverInCellTwice, Answered
<1>3. CASE ~(way = <<>> /\ ~TraceTail)
  <2>1. /\ out'.kind = "path" /\ out'.of = problem /\ out'.joint = p /\ out'.moves = way
    BY <1>3 DEF Found
  <2>2. /\ Len(way) = p + n
        /\ \A i \in 1 .. p : way[i] = prefix[i]
        /\ \A i \in 1 .. n : way[p + i] = moves[i]
    BY <1>1
  <2>3. Way' = way /\ Last' = p + n /\ Map' = scene
    BY <2>1, <2>2 DEF Way, Last, Map, scene
  <2>4. /\ Chain(scene, prefix, scene.start, TRUE)
        /\ prefix = <<>> <=> forced = None
        /\ prefix # <<>> => prefix[p].dir = forced
    BY DEF PrefixFits
  <2>5. /\ Chain(scene, moves, StartPose, FALSE) /\ Apart(scene, moves)
        /\ (IF moves = <<>> THEN StartPose ELSE moves[n].to) \in scene.dest \cup {scene.goal}
        /\ moves # <<>> /\ forced # None => moves[1].dir = forced
    BY DEF PathFits
  <2>6. StartPose = IF prefix = <<>> THEN scene.start ELSE prefix[p].to
    BY DEF StartPose
  <2>7. /\ prefix = <<>> <=> p = 0
        /\ moves = <<>> <=> n = 0
    BY <1>1
  <2> HIDE DEF moves, p, n, way
  <2>8. ASSUME NEW i \in 1 .. p + n, ~(i <= p)
        PROVE i - p \in 1 .. n /\ way[i] = moves[i - p]
    <3>1. i - p \in 1 .. n /\ p + (i - p) = i
      BY <1>1, <2>8
    <3> QED BY <2>2, <3>1
  <2>9. \A i \in 1 .. p + n : Drivable(scene, way[i], i <= p)
    <3> SUFFICES ASSUME NEW i \in 1 .. p + n PROVE Drivable(scene, way[i], i <= p)
      OBVIOUS
    <3>1. CASE i <= p
      <4>1. i \in 1 .. p /\ way[i] = prefix[i] /\ (i <= p) = TRUE
        BY <1>1, <2>2, <3>1
      <4>2. Drivable(scene, prefix[i], TRUE)
        BY <2>4, <4>1 DEF Chain, p
      <4> QED BY <4>1, <4>2
    <3>2. CASE ~(i <= p)
      <4>1. Drivable(scene, moves[i - p], FALSE)
        BY <2>5, <2>8, <3>2 DEF Chain, n
      <4>2. way[i] = moves[i - p] /\ (i <= p) = FALSE
        BY <2>8, <3>2
      <4> QED BY <4>1, <4>2
    <3> QED BY <3>1, <3>2
  <2>10. ASSUME NEW i \in 1 .. p + n - 1
         PROVE /\ way[i].to = way[i + 1].from
               /\ way[i].dir # way[i + 1].dir /\ way[i + 1].leg = "motion"
                    => MinLength <= way[i].run * Step
               /\ i = p => way[i].dir = way[i + 1].dir
    <3>1. CASE i < p
      <4>1. i \in 1 .. p - 1 /\ i \in 1 .. p /\ i + 1 \in 1 .. p /\ i # p
        BY <1>1, <3>1
      <4>2. way[i] = prefix[i] /\ way[i + 1] = prefix[i + 1]
        BY <2>2, <4>1
      <4>3. /\ prefix[i].to = prefix[i + 1].from
            /\ prefix[i].dir # prefix[i + 1].dir /\ prefix[i + 1].leg = "motion"
                 => MinLength <= prefix[i].run * Step
        BY <2>4, <4>1 DEF Chain, p
      <4> QED BY <4>1, <4>2, <4>3
    <3>2. CASE i = p
      <4>1. /\ way[i] = prefix[p] /\ way[i + 1] = moves[1] /\ 1 \in 1 .. n
            /\ prefix # <<>> /\ moves # <<>>
        BY <1>1, <2>2, <2>7, <3>2
      <4>2. moves[1].from = prefix[p].to
        BY <2>5, <2>6, <4>1 DEF Chain
      <4>3. moves[1].dir = forced /\ prefix[p].dir = forced
        BY <2>4, <2>5, <4>1
      <4> QED BY <4>1, <4>2, <4>3
    <3>3. CASE i > p
      <4>1. /\ i - p \in 1 .. n - 1 /\ (i + 1) - p = (i - p) + 1
            /\ ~(i <= p) /\ ~(i + 1 <= p) /\ i \in 1 .. p + n /\ i + 1 \in 1 .. p + n /\ i # p
        BY <1>1, <3>3
      <4>2. way[i] = moves[i - p] /\ way[i + 1] = moves[(i - p) + 1]
        BY <2>8, <4>1
      <4>3. /\ moves[i - p].to = moves[(i - p) + 1].from
            /\ moves[i - p].dir # moves[(i - p) + 1].dir /\ moves[(i - p) + 1].leg = "motion"
                 => MinLength <= moves[i - p].run * Step
        BY <2>5, <4>1 DEF Chain, n
      <4> QED BY <4>1, <4>2, <4>3
    <3> QED BY <1>1, <3>1, <3>2, <3>3
  <2>11. PathConnects'
    <3>1. (IF p + n = 0 THEN scene.start ELSE way[p + n].to) \in scene.dest \cup {scene.goal}
      <4>1. CASE n = 0 /\ p = 0
        BY <2>5, <2>6, <2>7, <4>1
      <4>2. CASE n = 0 /\ p # 0
        <5>1. way[p + n] = prefix[p] /\ p + n # 0
          BY <1>1, <2>2, <4>2
        <5> QED BY <2>5, <2>6, <2>7, <4>2, <5>1
      <4>3. CASE n # 0
        <5>1. way[p + n] = moves[n] /\ p + n # 0
          BY <1>1, <2>2, <4>3
        <5> QED BY <2>5, <2>7, <4>3, <5>1
      <4> QED BY <4>1, <4>2, <4>3
    <3>2. p + n > 0 => way[1].from = scene.start
      <4>1. CASE p > 0
        <5>1. way[1] = prefix[1] /\ prefix # <<>>
          BY <1>1, <2>2, <2>7, <4>1
        <5> QED BY <2>4, <5>1 DEF Chain
      <4>2. CASE p = 0
        <5> SUFFICES ASSUME p + n > 0 PROVE way[1].from = scene.start
          OBVIOUS
        <5>1. way[p + 1] = moves[1] /\ p + 1 = 1 /\ moves # <<>> /\ prefix = <<>>
          BY <1>1, <2>2, <2>7, <4>2
        <5> QED BY <2>5, <2>6, <5>1 DEF Chain
      <4> QED BY <1>1, <4>1, <4>2
    <3>3. \A i \in 1 .. Last' : Drivable(Map', Way'[i], i <= out'.joint)
      BY <2>1, <2>3, <2>9
    <3>4. ASSUME NEW i \in 1 .. Last' - 1 PROVE Way'[i].to = Way'[i + 1].from
      <4>1. i \in 1 .. p + n - 1
        BY <1>1, <2>3
      <4>2. way[i].to = way[i + 1].from
        BY <2>10, <4>1
      <4> QED BY <2>3, <4>2
    <3> QED BY <2>3, <3>1, <3>2, <3>3, <3>4 DEF PathConnects
  <2>12. ShiftAfterLength'
    <3> SUFFICES ASSUME NEW i \in 1 .. Last' - 1, Way'[i].dir # Way'[i + 1].dir,
                        Way'[i + 1].leg = "motion"
                 PROVE Way'[i].run * Step >= MinLength
      BY DEF ShiftAfterLength
    <3>1. i \in 1 .. p + n - 1 /\ way[i].dir # way[i + 1].dir /\ way[i + 1].leg = "motion"
      BY <1>1, <2>3
    <3>2. MinLength <= way[i].run * Step
      BY <2>10, <3>1
    <3>3. Way'[i].run * Step >= MinLength
      <4>1. way[i].run \in Nat /\ Step \in Nat /\ MinLength \in Nat
        <5>1. way \in Seq(Moves) /\ Len(way) = p + n /\ i \in 1 .. p + n
          BY <1>1, <2>2, <3>1 DEF way
        <5>2. way[i] \in Moves
          BY <5>1
        <5> QED BY <5>2, SearchAssumption DEF Moves, SearchAssumption
      <4> QED BY <2>3, <3>2, <4>1
    <3> QED BY <3>3
  <2>13. JointKeepsGear'
    <3> SUFFICES ASSUME 0 < p, p < p + n PROVE way[p].dir = way[p + 1].dir
      BY <2>1, <2>3 DEF JointKeepsGear
    <3>1. p \in 1 .. p + n - 1
      BY <1>1
    <3> QED BY <2>10, <3>1
  <2>14. NeverInCellTwice'
    <3> SUFFICES ASSUME NEW i \in p + 1 .. p + n, NEW j \in p + 1 .. p + n,
                        way[i].leg = "motion", way[j].leg = "motion",
                        scene.cell[way[i].to] = scene.cell[way[j].to]
                 PROVE i = j
      BY <2>1, <2>3 DEF NeverInCellTwice
    <3>1. i \in 1 .. p + n /\ ~(i <= p) /\ j \in 1 .. p + n /\ ~(j <= p)
      BY <1>1
    <3>2. i - p \in 1 .. n /\ j - p \in 1 .. n /\ way[i] = moves[i - p] /\ way[j] = moves[j - p]
      BY <2>8, <3>1
    <3>3. i - p = j - p
      BY <2>5, <3>2 DEF Apart, n
    <3> QED BY <1>1, <3>3
  <2> QED BY <2>1, <2>11, <2>12, <2>13, <2>14 DEF PathIsDrivable
<1> QED BY <1>2, <1>3

-----------------------------------------------------------------------------
(* The invariant *)

AnswerFits == PathIsDrivable /\ NeverInCellTwice

\* While a problem is worked on: the extension, the open nodes and the ends fit.
WorkFits ==
  /\ status # "idle" => PrefixFits /\ \A path \in ends : PathFits(path)
  /\ status = "extend" => prefix = <<>> /\ OpenFits(TRUE)
  /\ status = "search" => OpenFits(FALSE)
  /\ status \in {"extend", "begin"} => ends = {}

SearchInv == TypeOK /\ Busy /\ WorkFits /\ AnswerFits

(* Whether an answer fits depends on the answer alone.                     *)
LEMMA AnswerStays ==
  ASSUME AnswerFits, out' = out
  PROVE AnswerFits'
<1>1. Answered' = Answered /\ Way' = Way /\ Last' = Last /\ Map' = Map
  BY DEF Answered, Way, Last, Map
<1>2. PathConnects'
  BY <1>1 DEF AnswerFits, PathIsDrivable, PathConnects
<1>3. ShiftAfterLength' /\ JointKeepsGear'
  BY <1>1 DEF AnswerFits, PathIsDrivable, ShiftAfterLength, JointKeepsGear
<1>4. NeverInCellTwice'
  BY <1>1 DEF AnswerFits, NeverInCellTwice
<1> QED BY <1>2, <1>3, <1>4 DEF AnswerFits, PathIsDrivable

(* A step within a problem.                                                *)
LEMMA WorkGoesOn ==
  ASSUME SearchInv, status # "idle", status' # "idle",
         UNCHANGED <<problem, prefix, forced, out>>
  PROVE /\ AnswerFits' /\ PrefixFits'
        /\ \A path \in ends : PathFits(path)'
<1>1. scene' = scene /\ StartPose' = StartPose
  BY DEF scene, StartPose
<1>2. PrefixFits /\ \A path \in ends : PathFits(path)
  BY DEF SearchInv, WorkFits
<1>3. PrefixFits' /\ \A path \in ends : PathFits(path)'
  BY <1>1, <1>2 DEF PrefixFits, PathFits
<1>4. AnswerFits'
  BY AnswerStays DEF SearchInv
<1> QED BY <1>3, <1>4

(* A problem that is given up is not answered by a path.                   *)
LEMMA GiveUpAnswers ==
  ASSUME SearchInv, status # "idle", GiveUp, TypeOK', Busy'
  PROVE SearchInv'
<1>1. out'.kind \in {"warm", "error"}
  BY DEF GiveUp, Unfound, NoAnswer
<1>2. AnswerFits'
  BY <1>1 DEF AnswerFits, PathIsDrivable, PathConnects, ShiftAfterLength, JointKeepsGear,
              NeverInCellTwice, Answered
<1> QED BY <1>2 DEF GiveUp, SearchInv, WorkFits

LEMMA InitFits == Init => SearchInv
<1> SUFFICES ASSUME Init PROVE SearchInv
  OBVIOUS
<1>1. AnswerFits
  BY DEF Init, NoAnswer, AnswerFits, PathIsDrivable, PathConnects, ShiftAfterLength, JointKeepsGear,
         NeverInCellTwice, Answered
<1> QED BY <1>1, InitIsTyped DEF Init, SearchInv, WorkFits

(* A problem is taken up with one open node and without a direction.       *)
LEMMA StartFits ==
  ASSUME SearchInv, NEW q \in Problems, StartPlan(q), TypeOK', Busy'
  PROVE SearchInv'
<1>1. /\ problem' = q /\ prefix' = <<>> /\ forced' = None /\ ends' = {} /\ out' = out
      /\ status' \in {"extend", "begin"}
      /\ OpenAt(Scene[q].cell[Scene[q].start], Scene[q].start)
  BY DEF StartPlan
<1>2. StartPose' = Scene[q].start /\ scene' = Scene[q]
  BY <1>1 DEF StartPose, scene
<1>3. Scene[q].start \in Poses /\ Scene[q].cell[Scene[q].start] \in Cells
  BY SceneIsTyped
<1>4. OpenFits(TRUE)'
  BY <1>1, <1>2, <1>3, OpenBegins
<1>5. PrefixFits'
  BY <1>1 DEF PrefixFits, Chain
<1>6. AnswerFits'
  BY <1>1, AnswerStays DEF SearchInv
<1> QED BY <1>1, <1>4, <1>5, <1>6 DEF SearchInv, WorkFits

(* The end of the local extension.                                         *)
LEMMA ExtensionFits ==
  ASSUME SearchInv, ExtendFound, TypeOK', Busy'
  PROVE SearchInv'
<1> DEFINE child == Child(Motion, 0)
<1>1. /\ status = "extend" /\ status' = "begin" /\ cur' = NoCur /\ ends' = ends
      /\ prefix' = child.moves /\ forced' = child.dir
      /\ UNCHANGED <<problem, out>>
      /\ More /\ Generated(Motion, TRUE) /\ Recedes(Motion) /\ IsNew(scene.cell[Motion.to])
  BY DEF ExtendFound, Added, Child
<1>2. /\ TypeOK /\ Busy /\ prefix = <<>> /\ OpenFits(TRUE) /\ ends = {}
      /\ problem \in Problems
  BY <1>1 DEF SearchInv, WorkFits, Busy
<1>3. Node = open[cur.cell] /\ cur.cell \in Cells /\ Node # NoNode
  BY <1>1, <1>2 DEF Node, Busy, More
<1>4. CellFits(cur.cell, Node, TRUE)
  BY <1>2, <1>3 DEF OpenFits
<1>5. \A i \in 1 .. Len(Node.moves) : scene.cell[Node.moves[i].to] # scene.cell[Motion.to]
  BY <1>1, <1>3, <1>4 DEF CellFits, IsNew
<1>6. NodeFits(scene, child, StartPose, TRUE)
  <2>1. Motion.pure
    BY <1>1 DEF Recedes
  <2> QED BY <1>1, <1>2, <1>3, <1>4, <1>5, <2>1, ChildFits DEF CellFits
<1>7. child.moves # <<>>
  <2>1. Node.moves \in Seq(Moves) /\ ChildMove(Motion) \in Moves
    BY <1>1, <1>2, MotionIsTyped, ChildIsTyped DEF Nodes
  <2> QED BY <2>1 DEF Child
<1>8. scene' = scene /\ StartPose = scene.start
  BY <1>1, <1>2 DEF scene, StartPose
<1>9. forced' # None
  BY <1>1, <1>2, MotionIsTyped DEF Motions, Child, Dirs, None
<1>10. PrefixFits'
  <2> HIDE DEF child
  <2> QED BY <1>1, <1>6, <1>7, <1>8, <1>9 DEF PrefixFits, NodeFits
<1>11. AnswerFits'
  BY <1>1, AnswerStays DEF SearchInv
<1> QED BY <1>1, <1>2, <1>10, <1>11 DEF SearchInv, WorkFits

(* The cheapest node becomes a candidate, leads to one, or is expanded.    *)
LEMMA PopFits ==
  ASSUME SearchInv, SearchPop, TypeOK', Busy'
  PROVE SearchInv'
<1>1. /\ status = "search" /\ status' \in {"search", "final"} /\ open' = open
      /\ UNCHANGED <<problem, prefix, forced, out>>
  BY DEF SearchPop
<1>2. /\ TypeOK /\ Busy /\ OpenFits(FALSE) /\ problem \in Problems
      /\ \A path \in ends : PathFits(path)
  BY <1>1 DEF SearchInv, WorkFits, Busy
<1>3. /\ AnswerFits' /\ PrefixFits'
      /\ \A path \in ends : PathFits(path)'
  BY <1>1, WorkGoesOn
<1>4. PICK c \in Cells :
        /\ Cheapest(c)
        /\ \/ Arrived(c) /\ ends' = ends \cup {Arrival(open[c])}
           \/ Connects(open[c], c) /\ ends' = ends \cup {Connection(open[c])}
           \/ ends' = ends
  BY DEF SearchPop
<1>5. open[c] # NoNode /\ open[c] \in Nodes /\ CellFits(c, open[c], FALSE)
  BY <1>1, <1>2, <1>4 DEF Cheapest, Busy, TypeOK, OpenFits
<1>6. \A path \in ends' : PathFits(path)
  <2>1. CASE Arrived(c) /\ ends' = ends \cup {Arrival(open[c])}
    BY <1>2, <1>5, <2>1, ArrivalFits DEF Arrived
  <2>2. CASE Connects(open[c], c) /\ ends' = ends \cup {Connection(open[c])}
    BY <1>2, <1>5, <2>2, ConnectionFits
  <2> QED BY <1>2, <1>4, <2>1, <2>2
<1>7. scene' = scene /\ StartPose' = StartPose /\ StartCell' = StartCell
  BY <1>1 DEF scene, StartPose, StartCell
<1>8. \A path \in ends' : PathFits(path)'
  BY <1>1, <1>6, <1>7 DEF PathFits
<1>9. OpenFits(FALSE)'
  BY <1>1, <1>2, <1>7 DEF OpenFits, CellFits
<1> QED BY <1>1, <1>3, <1>8, <1>9 DEF SearchInv, WorkFits

(* The loop over the motions, in the local extension and in the search.    *)
LEMMA LoopFits ==
  ASSUME SearchInv, TypeOK', Busy', Aside,
         NEW exploring \in BOOLEAN, NEW fits \in BOOLEAN, NEW cost \in Nat,
         status = IF exploring THEN "extend" ELSE "search",
         fits => IF exploring THEN Motion.pure ELSE Motion.clear,
         \/ Pruned(exploring)
         \/ Dropped(exploring, fits)
         \/ Added(exploring, fits, cost)
         \/ ExpandDone
  PROVE SearchInv'
<1>1. /\ status' = status /\ ends' = ends
      /\ UNCHANGED <<problem, prefix, forced, out>>
  BY DEF Aside, Pruned, Dropped, Added, ExpandDone
<1>2. /\ AnswerFits' /\ PrefixFits'
      /\ \A path \in ends : PathFits(path)'
  BY <1>1, WorkGoesOn
<1>3. TypeOK /\ Busy /\ OpenFits(exploring)
  BY DEF SearchInv, WorkFits
<1>4. OpenFits(exploring)'
  BY <1>1, <1>3, LoopKeepsOpen
<1> QED BY <1>1, <1>2, <1>4 DEF SearchInv, WorkFits

LEMMA StepFits == SearchInv /\ [Next]_vars => SearchInv'
<1> SUFFICES ASSUME SearchInv, [Next]_vars PROVE SearchInv'
  OBVIOUS
<1>1. TypeOK /\ Busy /\ TypeOK' /\ Busy'
  BY StepIsTyped DEF SearchInv
<1>2. ASSUME NEW q \in Problems, StartPlan(q) PROVE SearchInv'
  BY <1>1, <1>2, StartFits
<1>3. ASSUME status # "idle", GiveUp PROVE SearchInv'
  BY <1>1, <1>3, GiveUpAnswers
<1>4. CASE \/ Hopeless \/ ExtendExhausted \/ ExtendTimeout
             \/ Rejected \/ SearchTimeout \/ NoneFound
  BY <1>3, <1>4 DEF Hopeless, ExtendExhausted, ExtendTimeout, Rejected, SearchTimeout, NoneFound
<1>5. ASSUME status # "idle", status' = status, open' = open, ends' = ends,
             UNCHANGED <<problem, prefix, forced, out>>
      PROVE SearchInv'
  <2>1. scene' = scene /\ StartPose' = StartPose /\ StartCell' = StartCell
    BY <1>5 DEF scene, StartPose, StartCell
  <2>2. \A exploring \in BOOLEAN : OpenFits(exploring) => OpenFits(exploring)'
    BY <1>5, <2>1 DEF OpenFits, CellFits
  <2> QED BY <1>1, <1>5, <2>2, WorkGoesOn DEF SearchInv, WorkFits
<1>6. CASE ExtendPop \/ EarlyStop \/ SearchCalledOff
  BY <1>5, <1>6 DEF ExtendPop, EarlyStop, SearchCalledOff, Aside, search_vars
<1>7. CASE ExtendSkip
  <2>1. CASE Pruned(TRUE) \/ ExpandDone
    BY <1>1, <1>7, <2>1, LoopFits DEF ExtendSkip
  <2>2. CASE Dropped(TRUE, Recedes(Motion))
    <3>1. Recedes(Motion) \in BOOLEAN /\ (Recedes(Motion) => Motion.pure)
      BY <1>1, <1>7, <2>2, MotionIsTyped DEF ExtendSkip, Dropped, Recedes, Motions
    <3> QED BY <1>1, <1>7, <2>2, <3>1, LoopFits DEF ExtendSkip
  <2> QED BY <1>7, <2>1, <2>2 DEF ExtendSkip
<1>8. CASE ExtendAdd
  <2>1. Recedes(Motion) \in BOOLEAN /\ (Recedes(Motion) => Motion.pure)
    BY <1>1, <1>8, MotionIsTyped DEF ExtendAdd, Added, Recedes, Motions
  <2> QED BY <1>1, <1>8, <2>1, LoopFits DEF ExtendAdd
<1>9. CASE ExtendFound
  BY <1>1, <1>9, ExtensionFits
<1>11. CASE BeginSearch
  <2>1. /\ status = "begin" /\ status' = "search" /\ ends' = ends
        /\ UNCHANGED <<problem, prefix, forced, out>>
        /\ OpenAt(StartCell, StartPose)
    BY <1>11 DEF BeginSearch
  <2>2. StartPose \in Poses /\ StartCell \in Cells
    BY <1>1, <2>1, StartIsTyped DEF Busy
  <2>3. StartPose' = StartPose /\ StartCell' = StartCell
    BY <2>1 DEF scene, StartPose, StartCell
  <2>4. OpenFits(FALSE)'
    BY <2>1, <2>2, <2>3, OpenBegins
  <2> QED BY <1>1, <2>1, <2>4, WorkGoesOn DEF SearchInv, WorkFits
<1>12. CASE SearchEnds
  <2>1. /\ status = "search" /\ status' = "final" /\ ends' = ends
        /\ UNCHANGED <<problem, prefix, forced, out>>
    BY <1>12 DEF SearchEnds, Ends, search_vars
  <2> QED BY <1>1, <2>1, WorkGoesOn DEF SearchInv, WorkFits
<1>13. CASE SearchPop
  BY <1>1, <1>13, PopFits
<1>14. CASE SearchSkip
  <2>1. CASE Pruned(FALSE) \/ ExpandDone
    BY <1>1, <1>14, <2>1, LoopFits DEF SearchSkip
  <2>2. CASE Dropped(FALSE, Motion.clear)
    <3>1. Motion.clear \in BOOLEAN
      BY <1>1, <1>14, <2>2, MotionIsTyped DEF SearchSkip, Dropped, Motions
    <3> QED BY <1>1, <1>14, <2>2, <3>1, LoopFits DEF SearchSkip
  <2> QED BY <1>14, <2>1, <2>2 DEF SearchSkip
<1>15. CASE SearchAdd
  <2>1. More /\ status = "search"
    BY <1>15 DEF SearchAdd, Added
  <2>2. Motion.clear \in BOOLEAN /\ Motion.cost \in Nat /\ Node.cost \in Nat
    BY <1>1, <2>1, MotionIsTyped DEF Motions, Nodes
  <2>3. Node.cost + StepCost(Motion) \in Nat
    BY <2>2, SearchAssumption DEF StepCost, SearchAssumption
  <2> QED BY <1>1, <1>15, <2>1, <2>2, <2>3, LoopFits DEF SearchAdd
<1>16. CASE Deliver
  <2>1. PICK path \in ends : Found(path)
    BY <1>16 DEF Deliver, Best
  <2>2. PrefixFits /\ PathFits(path) /\ path \in Paths /\ problem \in Problems
    BY <1>1, <1>16, <2>1 DEF Deliver, SearchInv, WorkFits, TypeOK, Busy
  <2>3. (PathIsDrivable /\ NeverInCellTwice)' /\ out'.of = problem /\ out'.kind # "warm"
    BY <1>1, <2>1, <2>2, FoundFits
  <2> QED BY <1>1, <1>16, <2>3 DEF Deliver, SearchInv, WorkFits, AnswerFits
<1>17. CASE UNCHANGED vars
  <2>1. CASE status = "idle"
    <3>1. AnswerFits'
      BY <1>17, AnswerStays DEF vars, SearchInv
    <3>2. WorkFits'
      BY <1>17, <2>1 DEF vars, SearchInv, WorkFits
    <3> QED BY <1>1, <3>1, <3>2 DEF SearchInv
  <2>2. CASE status # "idle"
    BY <1>5, <1>17, <2>2 DEF vars
  <2> QED BY <2>1, <2>2
<1> QED BY <1>2, <1>4, <1>6, <1>7, <1>8, <1>9, <1>11, <1>12, <1>13, <1>14, <1>15, <1>16, <1>17
   DEF Next, Work

LEMMA SearchKeepsInv == Spec => []SearchInv
BY InitFits, StepFits, PTL DEF Spec

(* A path leads without a gap, by motions and curves of its own problem,   *)
(* from where the car stands through the local extension to the goal or    *)
(* the region around it, and changes gear only after the length of a turn, *)
(* whenever the search was called off.                                     *)
THEOREM PathsAreDrivable == Spec => []PathIsDrivable
<1>1. SearchInv => PathIsDrivable
  BY DEF SearchInv, AnswerFits
<1> QED BY <1>1, SearchKeepsInv, PTL

(* A search leads through no cell twice: the open set has one node a cell, *)
(* and a child only goes where there is none.                              *)
THEOREM CellsAreEnteredOnce == Spec => []NeverInCellTwice
<1>1. SearchInv => NeverInCellTwice
  BY DEF SearchInv, AnswerFits
<1> QED BY <1>1, SearchKeepsInv, PTL

-----------------------------------------------------------------------------
(* A search that fails *)

MotionOf(c, i) == scene.motions[open[c].pose][i]

\* Where the motion may go there is a node.
Tried(c, i) == MayDrive(c, MotionOf(c, i)) => open[scene.cell[MotionOf(c, i).to]] # NoNode

\* As long as a search has no candidate and is not called off, what it has closed is
\* exhausted but for the motions it has still to try, and what it has entered is queued
\* or closed.
SearchTries ==
  status \in {"search", "final"} /\ ends = {} /\ ~ stop =>
    /\ open[StartCell] # NoNode
    /\ \A c \in Cells : open[c] # NoNode => c \in queue \cup closed
    /\ \A c \in closed :
         /\ open[c] # NoNode /\ ~ Arrived(c) /\ ~ Connects(open[c], c)
         /\ \A i \in 1 .. Len(scene.motions[open[c].pose]) :
              (c = cur.cell => i < cur.at) => Tried(c, i)
    /\ status = "final" => queue = {} /\ cur = NoCur

TriesInv == TypeOK /\ Busy /\ SearchTries

(* What is said of a node does not change when its length is lost: a node  *)
(* that loses it could turn already.                                       *)
LEMMA NodesStayWhatTheyAre ==
  ASSUME TypeOK, Busy, status = "search", More, Generated(Motion, FALSE),
         open' \in [Cells -> Nodes \cup {NoNode}],
         open'[cur.cell] = ParentAfter(Motion),
         \A d \in Cells : d # cur.cell /\ open[d] # NoNode => open'[d] = open[d],
         UNCHANGED <<problem, prefix, forced, end_ok>>,
         NEW d \in Cells, open[d] # NoNode
  PROVE /\ open'[d] # NoNode /\ open'[d].pose = open[d].pose
        /\ Arrived(d)' = Arrived(d)
        /\ Connects(open[d], d)' = Connects(open[d], d)
        /\ \A m \in Motions : MayDrive(d, m)' = MayDrive(d, m)
<1>1. /\ scene' = scene /\ StartCell' = StartCell
  BY DEF scene, StartCell, StartPose
<1>2. Node \in Nodes /\ cur.cell \in Cells /\ Node = open[cur.cell]
  BY MotionIsTyped DEF Node
<1>3. ParentAfter(Motion) # NoNode
  <2>1. 0 \in Nat
    OBVIOUS
  <2> QED BY <2>1, ChildIsTyped
<1>4. /\ ParentAfter(Motion).pose = Node.pose /\ ParentAfter(Motion).dir = Node.dir
      /\ ParentAfter(Motion).len = IF Motion.dir = Node.dir THEN Node.len ELSE 0
  BY <1>2 DEF ParentAfter, Nodes
<1>5. open'[d] # NoNode /\ open'[d].pose = open[d].pose /\ open'[d].dir = open[d].dir
  BY <1>2, <1>3, <1>4
<1>6. Arrived(d)' = Arrived(d)
  BY <1>1, <1>5 DEF Arrived
<1>7. Connects(open[d], d)' = Connects(open[d], d)
  BY <1>1, <1>5 DEF Connects
<1>8. \/ open'[d].len = open[d].len
      \/ open'[d].len = 0 /\ (open[d].len = 0 \/ open[d].len >= MinLength)
  <2>1. CASE d # cur.cell
    BY <2>1
  <2>2. CASE d = cur.cell /\ Motion.dir = Node.dir
    BY <1>2, <1>4, <2>2
  <2>3. CASE d = cur.cell /\ Motion.dir # Node.dir
    <3>1. Node.len \in Nat /\ MinLength \in Nat
      BY <1>2, SearchAssumption DEF Nodes, SearchAssumption
    <3>2. Node.len = 0 \/ Node.len >= MinLength
      BY <2>3, <3>1 DEF Generated, TurnsTooEarly
    <3> QED BY <1>2, <1>4, <2>3, <3>2
  <2> QED BY <2>1, <2>2, <2>3
<1>9. ASSUME NEW m \in Motions PROVE MayDrive(d, m)' = MayDrive(d, m)
  BY <1>1, <1>5, <1>8 DEF MayDrive
<1> QED BY <1>5, <1>6, <1>7, <1>9

(* A motion the generator refuses may not be driven.                       *)
LEMMA RefusedMayNot ==
  ASSUME TypeOK, Busy, status = "search", More, ~ Generated(Motion, FALSE)
  PROVE ~ MayDrive(cur.cell, Motion)
<1>1. Node.len \in Nat /\ MinLength \in Nat /\ Node = open[cur.cell]
  BY MotionIsTyped, SearchAssumption DEF Nodes, Node, SearchAssumption
<1>2. CASE TurnsTooEarly(Motion, FALSE)
  BY <1>1, <1>2 DEF TurnsTooEarly, MayDrive
<1>3. CASE AgainstForced(Motion)
  BY <1>3 DEF AgainstForced, MayDrive
<1>4. CASE Motion.cut \/ ~ Motion.inside
  BY <1>4 DEF MayDrive
<1> QED BY <1>2, <1>3, <1>4 DEF Generated

(* The loop over the motions tries one after the other.                    *)
LEMMA LoopTries ==
  ASSUME TriesInv, status = "search", Aside, NEW cost \in Nat,
         \/ Pruned(FALSE)
         \/ Dropped(FALSE, Motion.clear)
         \/ Added(FALSE, Motion.clear, cost) /\ NextMotion
         \/ ExpandDone,
         TypeOK'
  PROVE SearchTries'
<1> SUFFICES ASSUME ends' = {}, ~ stop' PROVE SearchTries'
  BY DEF SearchTries
<1>1. /\ status' = status /\ ends' = ends /\ closed' = closed
      /\ UNCHANGED <<problem, prefix, forced, end_ok, stop>>
  BY DEF Aside, Pruned, Dropped, Added, ExpandDone
<1>2. TypeOK /\ Busy /\ ends = {} /\ ~ stop /\ None \notin Cells
  BY <1>1, SearchAssumption DEF TriesInv, SearchAssumption
<1>3. /\ open[StartCell] # NoNode
      /\ \A c \in Cells : open[c] # NoNode => c \in queue \cup closed
      /\ \A c \in closed :
           /\ open[c] # NoNode /\ ~ Arrived(c) /\ ~ Connects(open[c], c)
           /\ \A i \in 1 .. Len(scene.motions[open[c].pose]) :
                (c = cur.cell => i < cur.at) => Tried(c, i)
  BY <1>2 DEF TriesInv, SearchTries
<1>4. /\ scene' = scene /\ StartCell' = StartCell /\ StartCell \in Cells
      /\ problem \in Problems /\ closed \subseteq Cells
      /\ open \in [Cells -> Nodes \cup {NoNode}]
  <2>1. problem \in Problems
    BY <1>2 DEF Busy
  <2> QED BY <1>1, <1>2, <2>1, StartIsTyped DEF scene, StartCell, StartPose, TypeOK
<1>5. CASE ExpandDone
  <2>1. open' = open /\ queue' = queue /\ cur' = NoCur /\ cur # NoCur /\ ~ More
    BY <1>5 DEF ExpandDone
  <2>2. cur.cell \in Cells /\ cur.at \in Nat /\ cur'.cell = None
    BY <1>2, <2>1 DEF Busy, NoCur
  <2>3. ASSUME NEW c \in closed, NEW i \in 1 .. Len(scene.motions[open[c].pose])
        PROVE Tried(c, i)
    <3>1. CASE c # cur.cell
      BY <1>3, <2>3, <3>1
    <3>2. CASE c = cur.cell
      <4>1. open[c] \in Nodes
        BY <1>3, <1>4, <2>3
      <4>2. scene.motions[open[c].pose] \in Seq(Motions)
        BY <1>4, <4>1, SceneIsTyped DEF Nodes, scene
      <4>3. i < cur.at
        BY <2>1, <2>2, <2>3, <3>2, <4>2 DEF More, Node
      <4> QED BY <1>3, <2>3, <4>3
    <3> QED BY <3>1, <3>2
  <2>4. \A c \in closed : Arrived(c)' = Arrived(c) /\ Connects(open[c], c)' = Connects(open[c], c)
    BY <1>1, <1>4, <2>1 DEF Arrived, Connects
  <2>5. \A c, i : Tried(c, i)' = Tried(c, i)
    BY <1>1, <1>4, <2>1 DEF Tried, MotionOf, MayDrive
  <2> QED BY <1>1, <1>2, <1>3, <1>4, <2>1, <2>3, <2>4, <2>5 DEF SearchTries
<1>6. CASE ~ ExpandDone
  <2>1. More /\ NextMotion
    BY <1>6 DEF Pruned, Dropped, Added
  <2>2. /\ cur.cell \in Cells /\ cur.at \in Nat /\ cur'.cell = cur.cell /\ cur'.at = cur.at + 1
        /\ Node = open[cur.cell] /\ Node # NoNode
        /\ Motion = MotionOf(cur.cell, cur.at) /\ scene.cell[Motion.to] \in Cells
    BY <1>2, <2>1, MotionIsTyped DEF NextMotion, TypeOK, Busy, More, Node, Motion, MotionOf
  <2> DEFINE to == scene.cell[Motion.to]
  \* Nodes stay, and what is said of them.
  <2>3. ASSUME NEW d \in Cells, open[d] # NoNode
        PROVE /\ open'[d] # NoNode /\ open'[d].pose = open[d].pose
              /\ Arrived(d)' = Arrived(d)
              /\ Connects(open[d], d)' = Connects(open[d], d)
              /\ \A m \in Motions : MayDrive(d, m)' = MayDrive(d, m)
    <3>1. CASE Pruned(FALSE)
      BY <1>1, <1>4, <2>3, <3>1 DEF Pruned, Arrived, Connects, MayDrive
    <3>2. CASE ~ Pruned(FALSE)
      <4>1. Generated(Motion, FALSE)
        BY <1>6, <3>2 DEF Dropped, Added
      <4>2. \/ open' = [open EXCEPT ![cur.cell] = ParentAfter(Motion)]
            \/ /\ open' = [open EXCEPT ![cur.cell] = ParentAfter(Motion),
                                       ![to] = Child(Motion, cost)]
               /\ open[to] = NoNode
        BY <1>6, <3>2 DEF Dropped, Added, IsNew
      <4>3. open' \in [Cells -> Nodes \cup {NoNode}]
        BY DEF TypeOK
      <4>4. /\ open'[cur.cell] = ParentAfter(Motion)
            /\ \A e \in Cells : e # cur.cell /\ open[e] # NoNode => open'[e] = open[e]
        BY <1>4, <2>2, <4>2
      <4> QED BY <1>1, <1>2, <2>1, <2>3, <4>1, <4>3, <4>4, NodesStayWhatTheyAre
    <3> QED BY <3>1, <3>2
  \* The motion that was tried leads to a node, if it may be driven at all.
  <2>4. MayDrive(cur.cell, Motion) => open'[to] # NoNode
    <3> SUFFICES ASSUME MayDrive(cur.cell, Motion) PROVE open'[to] # NoNode
      OBVIOUS
    <3>1. Generated(Motion, FALSE) /\ Motion.clear
      BY <1>2, <2>1, RefusedMayNot DEF MayDrive
    <3>2. CASE Dropped(FALSE, Motion.clear)
      <4>1. to \in closed \/ open[to] # NoNode
        BY <3>1, <3>2 DEF Dropped, IsNew
      <4> QED BY <1>3, <2>2, <2>3, <4>1
    <3>3. CASE Added(FALSE, Motion.clear, cost)
      <4>1. Child(Motion, cost) # NoNode
        BY <1>2, <2>1, ChildIsTyped
      <4>2. open' = [open EXCEPT ![cur.cell] = ParentAfter(Motion), ![to] = Child(Motion, cost)]
        BY <3>3 DEF Added
      <4> QED BY <1>4, <2>2, <4>1, <4>2
    <3> QED BY <1>6, <3>1, <3>2, <3>3 DEF Pruned
  <2>5. ASSUME NEW c \in Cells, open'[c] # NoNode PROVE c \in queue' \cup closed'
    <3>1. CASE open[c] # NoNode
      BY <1>1, <1>3, <1>6, <3>1 DEF Pruned, Dropped, Added
    <3>2. CASE open[c] = NoNode
      <4>1. Added(FALSE, Motion.clear, cost) /\ c = to
        BY <1>4, <1>6, <2>2, <2>5, <3>2 DEF Pruned, Dropped, Added
      <4> QED BY <4>1 DEF Added
    <3> QED BY <3>1, <3>2
  <2>6. ASSUME NEW c \in closed, NEW i \in 1 .. Len(scene.motions[open[c].pose]),
               c = cur.cell => i < cur.at + 1
        PROVE Tried(c, i)'
    <3>1. c \in Cells /\ open[c] # NoNode /\ open[c] \in Nodes
      BY <1>3, <1>4
    <3>2. MotionOf(c, i) \in Motions
      <4>1. scene.motions[open[c].pose] \in Seq(Motions)
        BY <1>4, <3>1, SceneIsTyped DEF Nodes, scene
      <4> QED BY <4>1 DEF MotionOf
    <3>3. MotionOf(c, i)' = MotionOf(c, i)
      BY <1>4, <2>3, <3>1 DEF MotionOf
    <3>4. MayDrive(c, MotionOf(c, i))' = MayDrive(c, MotionOf(c, i))
      BY <2>3, <3>1, <3>2, <3>3 DEF MayDrive
    <3>5. scene.cell[MotionOf(c, i).to] \in Cells
      BY <1>4, <3>2, SceneIsTyped DEF Motions, scene
    <3>6. CASE c = cur.cell /\ i = cur.at
      BY <1>4, <2>2, <2>4, <3>3, <3>4, <3>6 DEF Tried
    <3>7. CASE ~(c = cur.cell /\ i = cur.at)
      <4>1. Tried(c, i)
        BY <1>3, <2>2, <2>6, <3>7
      <4> QED BY <1>4, <2>3, <3>3, <3>4, <3>5, <4>1 DEF Tried
    <3> QED BY <3>6, <3>7
  <2>7. \A c \in closed : /\ open'[c] # NoNode /\ open'[c].pose = open[c].pose
                          /\ ~ Arrived(c)' /\ ~ Connects(open[c], c)'
    BY <1>3, <1>4, <2>3
  <2>8. open'[StartCell] # NoNode
    BY <1>3, <1>4, <2>3
  <2> QED BY <1>1, <1>2, <1>4, <2>2, <2>5, <2>6, <2>7, <2>8 DEF SearchTries
<1> QED BY <1>5, <1>6

LEMMA InitTries == Init => TriesInv
BY InitIsTyped DEF Init, TriesInv, SearchTries

LEMMA StepTries == TriesInv /\ [Next]_vars => TriesInv'
<1> SUFFICES ASSUME TriesInv, [Next]_vars PROVE TriesInv'
  OBVIOUS
<1>1. TypeOK /\ Busy /\ TypeOK' /\ Busy'
  BY StepIsTyped DEF TriesInv
<1> SUFFICES SearchTries'
  BY <1>1 DEF TriesInv
<1>2. CASE \/ status' \notin {"search", "final"}
           \/ stop'
  BY <1>2 DEF SearchTries
<1>3. CASE \/ \E p \in Problems : StartPlan(p)
           \/ Hopeless \/ ExtendPop \/ ExtendSkip \/ ExtendAdd \/ ExtendFound
           \/ ExtendExhausted \/ ExtendTimeout \/ Rejected \/ SearchTimeout
           \/ SearchCalledOff \/ Deliver \/ NoneFound \/ EarlyStop
  <2>1. CASE \E p \in Problems : StartPlan(p)
    BY <1>2, <2>1 DEF StartPlan
  <2>2. CASE \/ Hopeless \/ ExtendExhausted \/ ExtendTimeout
             \/ Rejected \/ SearchTimeout \/ NoneFound
    BY <1>2, <2>2 DEF Hopeless, ExtendExhausted, ExtendTimeout, Rejected, SearchTimeout,
                      NoneFound, GiveUp
  <2>3. CASE ExtendPop \/ ExtendSkip \/ ExtendAdd
    BY <1>2, <2>3 DEF ExtendPop, ExtendSkip, ExtendAdd, Aside
  <2>4. CASE ExtendFound \/ Deliver
    BY <1>2, <2>4 DEF ExtendFound, Deliver
  <2>5. CASE SearchCalledOff
    <3>1. stop /\ stop' = stop
      BY <2>5 DEF SearchCalledOff, Aside
    <3> QED BY <1>2, <3>1
  <2>6. CASE EarlyStop
    BY <1>2, <2>6 DEF EarlyStop
  <2> QED BY <1>3, <2>1, <2>2, <2>3, <2>4, <2>5, <2>6
<1>4. CASE BeginSearch
  <2>1. /\ status' = "search" /\ UNCHANGED <<problem, prefix>> /\ problem \in Problems
        /\ open' = [Empty EXCEPT ![StartCell] = Root(StartPose)]
        /\ queue' = {StartCell} /\ closed' = {}
    BY <1>1, <1>4 DEF BeginSearch, OpenAt, Busy
  <2>2. StartPose \in Poses /\ StartCell \in Cells /\ StartCell' = StartCell
    BY <1>1, <2>1, StartIsTyped DEF scene, StartCell, StartPose
  <2>3. Root(StartPose) # NoNode
    BY <2>2, RootIsTyped
  <2>4. \A c \in Cells : open'[c] # NoNode <=> c = StartCell
    BY <2>1, <2>2, <2>3 DEF Empty
  <2> QED BY <2>1, <2>2, <2>4 DEF SearchTries
<1>5. CASE SearchEnds
  <2>1. /\ status = "search" /\ cur = NoCur
        /\ UNCHANGED <<problem, prefix, forced, end_ok, stop, open, queue, closed, ends, cur>>
        /\ queue = {} \/ stop \/ ends # {}
    BY <1>5 DEF SearchEnds, Ends, GoodEnough, search_vars
  <2>2. /\ scene' = scene /\ StartCell' = StartCell
    BY <2>1 DEF scene, StartCell, StartPose
  <2>3. \A c \in Cells : /\ Arrived(c)' = Arrived(c)
                         /\ Connects(open[c], c)' = Connects(open[c], c)
    BY <2>1, <2>2 DEF Arrived, Connects
  <2>4. \A c, i : Tried(c, i)' = Tried(c, i)
    BY <2>1, <2>2 DEF Tried, MotionOf, MayDrive
  <2>5. closed \subseteq Cells
    BY <1>1 DEF TypeOK
  <2> QED BY <2>1, <2>2, <2>3, <2>4, <2>5 DEF TriesInv, SearchTries
<1>6. CASE SearchPop
  <2> SUFFICES ASSUME ends' = {}, ~ stop' PROVE SearchTries'
    BY DEF SearchTries
  <2>1. PICK c \in Cells :
          /\ Cheapest(c) /\ queue' = queue \ {c} /\ ~ Arrived(c) /\ ~ Connects(open[c], c)
          /\ closed' = closed \cup {c} /\ cur' = [cell |-> c, at |-> 1] /\ status' = status
    BY <1>6 DEF SearchPop
  <2>2. /\ status = "search" /\ cur = NoCur /\ ends = {} /\ ~ stop
        /\ UNCHANGED <<problem, prefix, forced, end_ok, open>>
    BY <1>6 DEF SearchPop
  <2>3. scene' = scene /\ StartCell' = StartCell
    BY <2>2 DEF scene, StartCell, StartPose
  <2>4. /\ open[StartCell] # NoNode
        /\ \A d \in Cells : open[d] # NoNode => d \in queue \cup closed
        /\ \A d \in closed :
             /\ open[d] # NoNode /\ ~ Arrived(d) /\ ~ Connects(open[d], d)
             /\ \A i \in 1 .. Len(scene.motions[open[d].pose]) :
                  (d = cur.cell => i < cur.at) => Tried(d, i)
    BY <2>2 DEF TriesInv, SearchTries
  <2>5. \A d : Arrived(d)' = Arrived(d) /\ Connects(open[d], d)' = Connects(open[d], d)
    BY <2>2, <2>3 DEF Arrived, Connects
  <2>6. \A d, i : Tried(d, i)' = Tried(d, i)
    BY <2>2, <2>3 DEF Tried, MotionOf, MayDrive
  <2>7. open[c] # NoNode
    BY <1>1, <2>1, <2>2 DEF Busy, Cheapest
  <2>8. \A d \in closed : d # cur.cell
    BY <1>1, <2>2, SearchAssumption DEF TypeOK, NoCur, SearchAssumption
  <2>9. ASSUME NEW d \in closed', NEW i \in 1 .. Len(scene.motions[open[d].pose]),
               d = c => i < 1
        PROVE Tried(d, i)
    <3>1. d # c
      BY <2>9
    <3> QED BY <2>1, <2>4, <2>8, <3>1
  <2> QED BY <2>1, <2>2, <2>3, <2>4, <2>5, <2>6, <2>7, <2>9 DEF SearchTries
<1>7. CASE SearchSkip
  <2>1. status = "search" /\ Aside /\ 0 \in Nat
        /\ (Pruned(FALSE) \/ Dropped(FALSE, Motion.clear) \/ ExpandDone)
    BY <1>7 DEF SearchSkip
  <2> QED BY <1>1, <2>1, LoopTries
<1>8. CASE SearchAdd
  <2>1. More /\ status = "search"
    BY <1>8 DEF SearchAdd, Added
  <2>2. Motion.cost \in Nat /\ Node.cost \in Nat
    BY <1>1, <2>1, MotionIsTyped DEF Motions, Nodes
  <2>3. Node.cost + StepCost(Motion) \in Nat
    BY <2>2, SearchAssumption DEF StepCost, SearchAssumption
  <2>4. /\ status = "search" /\ Aside
        /\ Added(FALSE, Motion.clear, Node.cost + StepCost(Motion)) /\ NextMotion
    BY <1>8 DEF SearchAdd
  <2> QED BY <1>1, <2>3, <2>4, LoopTries
<1>9. CASE UNCHANGED vars
  <2>1. UNCHANGED <<status, problem, prefix, forced, end_ok, stop, open, queue, closed, ends, cur>>
    BY <1>9 DEF vars
  <2>2. scene' = scene /\ StartCell' = StartCell
    BY <2>1 DEF scene, StartCell, StartPose
  <2>3. \A c : Arrived(c)' = Arrived(c) /\ Connects(open[c], c)' = Connects(open[c], c)
    BY <2>1, <2>2 DEF Arrived, Connects
  <2>4. \A c, i : Tried(c, i)' = Tried(c, i)
    BY <2>1, <2>2 DEF Tried, MotionOf, MayDrive
  <2> QED BY <2>1, <2>2, <2>3, <2>4 DEF TriesInv, SearchTries
<1> QED BY <1>3, <1>4, <1>5, <1>6, <1>7, <1>8, <1>9 DEF Next, Work

(* A search that was not called off and reports that there is no path has  *)
(* left nothing untried: no cell it entered is at the goal or connects     *)
(* with it, and from none of them a motion it may take leads to a cell it  *)
(* has not entered.                                                        *)
THEOREM FailureIsExhaustive == Spec => []NothingLeftUntried
<1>1. TriesInv => NothingLeftUntried
  <2> SUFFICES ASSUME TriesInv, status = "final", ends = {}, ~ stop
               PROVE /\ open[StartCell] # NoNode
                     /\ \A c \in Cells : open[c] # NoNode => Exhausted(c)
    BY DEF NothingLeftUntried
  <2>1. SearchTries /\ queue = {} /\ cur = NoCur /\ None \notin Cells
    BY SearchAssumption DEF TriesInv, SearchTries, SearchAssumption
  <2>2. ASSUME NEW c \in Cells, open[c] # NoNode PROVE Exhausted(c)
    <3>1. c \in closed /\ c # cur.cell
      BY <2>1, <2>2 DEF SearchTries, NoCur
    <3>2. \A i \in 1 .. Len(scene.motions[open[c].pose]) : Tried(c, i)
      BY <2>1, <3>1 DEF SearchTries
    <3> QED BY <2>1, <3>1, <3>2 DEF SearchTries, Exhausted, Tried, MotionOf
  <2> QED BY <2>1, <2>2 DEF SearchTries
<1>2. Spec => []TriesInv
  BY InitTries, StepTries, PTL DEF Spec
<1> QED BY <1>1, <1>2, PTL
=============================================================================
