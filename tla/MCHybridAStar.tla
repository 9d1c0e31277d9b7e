--------------------------- MODULE MCHybridAStar ---------------------------
(***************************************************************************)
(* Planning problems on one small map: the car drives forward twice,       *)
(* to c, to reverse into d, or it reverses at once, by b to e.             *)
(***************************************************************************)
EXTENDS HybridAStar

MCPoses == {"s", "a", "b", "c", "d", "e", "g"}
MCCells == {"s", "a", "b", "c", "de", "g"}

Cell(p) == IF p \in {"d", "e"} THEN "de" ELSE p

To(p, d) == [to |-> p, dir |-> d, inside |-> TRUE, cut |-> FALSE, clear |-> TRUE,
             pure |-> TRUE, cost |-> 1]

Roads(p) ==
  CASE p = "s" -> <<To("a", "D"), To("b", "R")>>
    [] p = "a" -> <<To("c", "D"), To("b", "R")>>
    [] p = "b" -> <<To("s", "D"), To("e", "R")>>
    [] p = "c" -> <<[To("g", "D") EXCEPT !.inside = FALSE], To("d", "R"),
                    [To("b", "R") EXCEPT !.clear = FALSE]>>
    [] p = "d" -> <<To("a", "D"), To("b", "R")>>
    [] p = "e" -> <<To("b", "D"), To("g", "R")>>
    [] p = "g" -> <<>>

NoCurve == [found |-> FALSE, gear |-> "D", clear |-> FALSE, cost |-> 0]
Curve(gear) == [found |-> TRUE, gear |-> gear, clear |-> TRUE, cost |-> 3]

\* A curve from c, and a region around the goal that holds d.
Roomy ==
  [start |-> "s", goal |-> "g",
   cell |-> [p \in MCPoses |-> Cell(p)], root |-> [p \in MCPoses |-> Cell(p)],
   motions |-> [p \in MCPoses |-> Roads(p)],
   curve |-> [p \in MCPoses |-> IF p \in {"a", "c"} THEN Curve("R") ELSE NoCurve],
   heu |-> [p \in MCPoses |-> IF p \in {"b", "e"} THEN 2 ELSE 1],
   miss |-> [p \in MCPoses |-> IF p = "d" THEN 0 ELSE 2],
   dest |-> {"d", "g"},
   dist |-> [p \in MCPoses |-> CASE p = "s" -> 0 [] p \in {"a", "b"} -> 1 [] OTHER -> 2],
   ready |-> MCPoses, start_clear |-> TRUE, start_pure |-> TRUE,
   end_clear |-> TRUE, end_apart |-> TRUE, region |-> TRUE,
   warm |-> FALSE, trace |-> FALSE, on_trace |-> FALSE, tail |-> FALSE]

\* The car stands too close to an obstacle, so that it has to move away first.
Tight == [Roomy EXCEPT !.start_clear = FALSE, !.ready = MCPoses \ {"s"},
                       !.curve = [p \in MCPoses |->
                                    IF p \in {"c", "d"} THEN Curve("D") ELSE NoCurve]]

\* The goal cannot be reached, but there is a path from before.
Blocked == [Roomy EXCEPT !.end_clear = FALSE, !.end_apart = FALSE,
                         !.dest = {}, !.warm = TRUE,
                         !.motions["s"][2].cut = TRUE]

\* Neither region nor curve: a car that moved away first finds no path, nor
\* does one that may go anywhere.
Sealed == [Tight EXCEPT !.dest = {}, !.curve = [p \in MCPoses |-> NoCurve]]
Aimless == [Sealed EXCEPT !.start_clear = TRUE, !.ready = MCPoses]

\* A trace adjustment of a car beside its trace; its start lies in the cell of
\* another pose.
Trace == [Roomy EXCEPT !.trace = TRUE, !.on_trace = TRUE, !.tail = TRUE,
                       !.warm = TRUE, !.dest = {"a", "s"}, !.root["s"] = "a"]

\* Starts no local extension helps: in an obstacle, or with one all around.
Boxed    == [Tight EXCEPT !.start_pure = FALSE]
Cornered == [Tight EXCEPT !.motions = [p \in MCPoses |->
              [i \in 1 .. Len(Roads(p)) |-> [Roads(p)[i] EXCEPT !.pure = FALSE]]]]

\* A trace adjustment of a car its trace does not reach.
Lost == [Trace EXCEPT !.on_trace = FALSE, !.warm = FALSE]

\* Goals the car may only reach by turning round too early, or by driving a
\* circle through the cell of a.
Short == [Roomy EXCEPT !.dest = {"b"}, !.curve = [p \in MCPoses |-> NoCurve],
                       !.motions["s"][2].cut = TRUE]
Loop  == [Short EXCEPT !.cell["d"] = "a"]

MCScene == [short |-> Short, loop |-> Loop, roomy |-> Roomy, tight |-> Tight,
            blocked |-> Blocked, sealed |-> Sealed, aimless |-> Aimless, trace |-> Trace,
            boxed |-> Boxed, cornered |-> Cornered, lost |-> Lost]

MCProblems == DOMAIN MCScene
=============================================================================
