----------------------------- MODULE ReedsShepp -----------------------------
(***************************************************************************)
(* Reeds-Shepp paths of reeds_shepp_path.cc: the words of arcs and straight *)
(* lines that lead from the pose (0, 0, 0) to a goal, the choice of the     *)
(* shortest, and the stations at which it is interpolated.                  *)
(*                                                                         *)
(* The turning radius is 1 and headings are twelfths of a turn.  A place   *)
(* is a sum of unit vectors in twelve directions, given by its whole       *)
(* coordinates along the first four of them, of which the others are sums: *)
(* all computations are exact.  A length is a number of twelfths of the    *)
(* unit circle, in arc, and a whole number beside them, in line.           *)
(*                                                                         *)
(* GenerateRSPPar and SetRSPPar are left out: the build switches them off. *)
(* So are SetRSP's neighbours LRSR and LRSL, which nothing calls.          *)
(***************************************************************************)
EXTENDS Integers, SequencesExt, FiniteSetsExt

CONSTANT MaxLine \* the longest straight line that is looked for

ASSUME LineAssumption == MaxLine \in Nat

-----------------------------------------------------------------------------
(* Places and directions *)

Place(a, b, c, d) == <<a, b, c, d>>
Origin == Place(0, 0, 0, 0)

Add(p, q) == [i \in 1 .. 4 |-> p[i] + q[i]]
Times(n, p) == [i \in 1 .. 4 |-> n * p[i]]
Less(p, q) == Add(p, Times(-1, q))

\* The fifth direction is the third less the first, the sixth the fourth less the second.
Units == <<Place(1, 0, 0, 0), Place(0, 1, 0, 0), Place(0, 0, 1, 0), Place(0, 0, 0, 1),
           Place(-1, 0, 1, 0), Place(0, -1, 0, 1)>>

Unit(k) == IF k % 12 < 6 THEN Units[(k % 12) + 1] ELSE Times(-1, Units[(k % 6) + 1])

Turned(p, k) ==
  LET part(i) == Times(p[i], Unit(k + i - 1))
  IN Add(Add(part(1), part(2)), Add(part(3), part(4)))

\* A place seen in a mirror along the x axis.
Conjugate(p) == Add(Times(p[1], Unit(0)), Add(Times(p[2], Unit(11)),
                Add(Times(p[3], Unit(10)), Times(p[4], Unit(9)))))

NormalizeTurn(k) == ((k + 6) % 12) - 6

\* On the x axis: the imaginary part is half p[2], half the root of 3 times p[3], and p[4].
Level(p) == p[2] + 2 * p[4] = 0 /\ p[3] = 0

-----------------------------------------------------------------------------
(* The parameters of words.  A goal is a place z and a heading phi; the    *)
(* answers are the t, u, v for which flag is set.                          *)

Param(t, u, v) == [t |-> t, u |-> u, v |-> v]

\* Where the centres of circles lie apart that turn the same way, or not.
SameSide(g) == Add(g.z, Less(Unit(g.phi + 3), Unit(3)))
OtherSide(g) == Less(g.z, Add(Unit(g.phi + 3), Unit(3)))

Forth == 0 .. 5 \* a turn that NormalizeAngle leaves at least 0
Lines == 0 .. MaxLine

\* The u and t for which a vector of a shape, turned by t, is the given one; of no
\* vector atan2 answers 0.
Polar(p, us, shape(_)) ==
  {q \in {Param(t, u, 0) : t \in -6 .. 5, u \in us} :
     /\ p = Turned(shape(q.u), q.t)
     /\ p = Origin => q.t = 0}

LSL(g) ==
  {Param(q.t, q.u, NormalizeTurn(g.phi - q.t)) :
     q \in {r \in Polar(SameSide(g), Lines, LAMBDA u : Times(u, Unit(0))) :
              r.t \in Forth /\ NormalizeTurn(g.phi - r.t) \in Forth}}

\* Mutant: the last turn goes the other way.
LSRTurnedBack(g) ==
  {Param(q.t, q.u, NormalizeTurn(g.phi - q.t)) :
     q \in {r \in Polar(OtherSide(g), Lines,
                        LAMBDA u : Less(Times(u, Unit(0)), Times(2, Unit(3)))) :
              r.t \in Forth /\ NormalizeTurn(r.t - g.phi) \in Forth}}

LSR(g) ==
  {Param(q.t, q.u, NormalizeTurn(q.t - g.phi)) :
     q \in {r \in Polar(OtherSide(g), Lines,
                        LAMBDA u : Less(Times(u, Unit(0)), Times(2, Unit(3)))) :
              r.t \in Forth /\ NormalizeTurn(r.t - g.phi) \in Forth}}

\* Circles whose centres coincide are half a turn off, which is not at least 0.
LRL(g) ==
  {Param(q.t, q.u, NormalizeTurn(g.phi - q.t + q.u)) :
     q \in {r \in Polar(SameSide(g), -6 .. -1,
                        LAMBDA u : Times(2, Less(Unit(3 - u), Unit(3)))) : r.t \in Forth}}

\* The line of the goal is met by the x axis, at an angle.
SLS(g) ==
  {Param(q[1], NormalizeTurn(g.phi), q[2]) :
     q \in {r \in (-MaxLine .. MaxLine) \X (-MaxLine .. MaxLine) :
              /\ NormalizeTurn(g.phi) \in 1 .. 5 /\ ~Level(g.z)
              /\ g.z = Add(Times(r[1], Unit(0)),
                           Add(Less(Unit(g.phi - 3), Unit(-3)), Times(r[2], Unit(g.phi))))}}

\* calc_tau_omega with u and -u: the middle circles touch at u.
Middle(u) == Times(-2, Less(Add(Unit(3), Unit(3 - 2 * u)), Unit(3 - u)))

LRLRn(g) ==
  {Param(q.t, q.u, NormalizeTurn(q.t - 2 * q.u - g.phi)) :
     q \in {r \in Polar(OtherSide(g), 0 .. 2, Middle) :
              r.t \in Forth /\ NormalizeTurn(r.t - 2 * r.u - g.phi) <= 0}}

\* u is the negative of an arc cosine, and must not be negative.
LRLRp(g) ==
  {Param(q.t, 0, NormalizeTurn(q.t - g.phi)) :
     q \in {r \in Polar(OtherSide(g), {0}, Middle) :
              r.t \in Forth /\ NormalizeTurn(r.t - g.phi) \in Forth}}

LRSLR(g) ==
  {Param(q.t, q.u, NormalizeTurn(q.t - g.phi)) :
     q \in {r \in Polar(OtherSide(g), {-u : u \in Lines},
                        LAMBDA u : Less(Times(u - 4, Unit(3)), Times(2, Unit(0)))) :
              r.t \in Forth /\ NormalizeTurn(r.t - g.phi) \in Forth}}

-----------------------------------------------------------------------------
(* Words *)

Arc(k) == [arc |-> k, line |-> 0]
Line(n) == [arc |-> 0, line |-> n]

\* Lengths are compared with pi as 355/113, which tells those in question apart.
Signed(l) == 355 * l.arc + 678 * l.line
Size(l) == IF Signed(l) < 0 THEN -Signed(l) ELSE Signed(l)

Negative(l) == [arc |-> -l.arc, line |-> -l.line]

Word(types, lengths) == [types |-> types, lengths |-> lengths]

TotalLength(w) == FoldLeft(LAMBDA n, l : n + Size(l), 0, w.lengths)

\* shortest_path_segment_length: the length driven in one direction.
ShortestSegment(w) ==
  LET n == Len(w.lengths)
      change(i) == i > 1 /\ Signed(w.lengths[i]) * Signed(w.lengths[i-1]) < 0
      driven[i \in 1 .. n] == Size(w.lengths[i]) +
                              (IF i = 1 \/ change(i) THEN 0 ELSE driven[i-1])
  IN Min({driven[i] : i \in {k \in 1 .. n : k = n \/ change(k + 1)}})

\* What the four ways to use the parameters of a word make of it: the goal is
\* mirrored, and so are the turns; or driven to backwards, and so are the lengths.
Ways == <<[flip |-> FALSE, reflect |-> FALSE], [flip |-> TRUE, reflect |-> FALSE],
          [flip |-> FALSE, reflect |-> TRUE], [flip |-> TRUE, reflect |-> TRUE]>>

Mirrored(way, g) ==
  [z |-> LET z == IF way.flip = way.reflect THEN g.z ELSE Conjugate(g.z)
         IN IF way.flip THEN Times(-1, z) ELSE z,
   phi |-> IF way.flip = way.reflect THEN g.phi ELSE -g.phi]

\* The goal of the way back.
Backward(g) == [z |-> Turned(Conjugate(g.z), g.phi), phi |-> g.phi]

OtherTurn(type) == CASE type = "L" -> "R" [] type = "R" -> "L" [] OTHER -> "S"

Used(way, w) ==
  Word([i \in DOMAIN w.types |-> IF way.reflect THEN OtherTurn(w.types[i]) ELSE w.types[i]],
       [i \in DOMAIN w.lengths |-> IF way.flip THEN Negative(w.lengths[i]) ELSE w.lengths[i]])

\* The word of a way to a goal, if there is one: there are not two.
Only(words) == IF words = {} THEN << >> ELSE << CHOOSE w \in words : TRUE >>

\* A family tries its words in turn and gives up at one without length (SetRSP).
Found(words) ==
  LET bad == {i \in DOMAIN words : TotalLength(words[i]) = 0}
  IN IF bad = {} THEN words ELSE SubSeq(words, 1, Min(bad) - 1)

\* What the ways make of words that were found for a goal that is mirrored in each.
InWays(found) ==
  LET used(i) == [k \in DOMAIN found[i] |-> Used(Ways[i], found[i][k])]
  IN used(1) \o used(2) \o used(3) \o used(4)

InAllWays(g, words(_)) == InWays([i \in 1 .. 4 |-> Only(words(Mirrored(Ways[i], g)))])

\* The words that the parameters of a family stand for.
SLSWords(g) == {Word(<<"S", "L", "S">>, <<Line(p.t), Arc(p.u), Line(p.v)>>) : p \in SLS(g)}
LSLWords(g) == {Word(<<"L", "S", "L">>, <<Arc(p.t), Line(p.u), Arc(p.v)>>) : p \in LSL(g)}
LSRWords(g) == {Word(<<"L", "S", "R">>, <<Arc(p.t), Line(p.u), Arc(p.v)>>) : p \in LSR(g)}
LRLWords(g) == {Word(<<"L", "R", "L">>, <<Arc(p.t), Arc(p.u), Arc(p.v)>>) : p \in LRL(g)}
LRLBackwards(g) == {Word(<<"L", "R", "L">>, <<Arc(p.v), Arc(p.u), Arc(p.t)>>) : p \in LRL(g)}
LRLRnWords(g) ==
  {Word(<<"L", "R", "L", "R">>, <<Arc(p.t), Arc(p.u), Arc(-p.u), Arc(p.v)>>) : p \in LRLRn(g)}
LRLRpWords(g) ==
  {Word(<<"L", "R", "L", "R">>, <<Arc(p.t), Arc(p.u), Arc(p.u), Arc(p.v)>>) : p \in LRLRp(g)}
LRSLRWords(g) ==
  {Word(<<"L", "R", "S", "L", "R">>, <<Arc(p.t), Arc(-3), Line(p.u), Arc(-3), Arc(p.v)>>) :
     p \in LRSLR(g)}

\* SLS is used as it is and mirrored.
SCS(g) == Found(InWays(<<Only(SLSWords(g)), << >>, Only(SLSWords(Mirrored(Ways[3], g))), << >>>>))

CSC(g) == Found(InAllWays(g, LSLWords) \o InAllWays(g, LSRWords))

CCC(g) == Found(InAllWays(g, LRLWords) \o InAllWays(Backward(g), LRLBackwards))

CCCC(g) == Found(InAllWays(g, LRLRnWords) \o InAllWays(g, LRLRpWords))

\* These take the parameters of CCCC: an arc becomes the length of the line.
CCSC(g) ==
  Found(InAllWays(g, LAMBDA q : {Word(<<"L", "R", "S", "L">>,
                       <<Arc(p.t), Arc(-3), Arc(p.u), Arc(p.v)>>) : p \in LRLRn(q)})
        \o InAllWays(g, LAMBDA q : {Word(<<"L", "R", "S", "R">>,
                       <<Arc(p.t), Arc(-3), Arc(p.u), Arc(p.v)>>) : p \in LRLRp(q)})
        \o InAllWays(Backward(g), LAMBDA q : {Word(<<"L", "S", "R", "L">>,
                       <<Arc(p.v), Arc(p.u), Arc(-3), Arc(p.t)>>) : p \in LRLRn(q)})
        \o InAllWays(Backward(g), LAMBDA q : {Word(<<"R", "S", "R", "L">>,
                       <<Arc(p.v), Arc(p.u), Arc(-3), Arc(p.t)>>) : p \in LRLRp(q)}))

CCSCC(g) == Found(InAllWays(g, LRSLRWords))

\* GenerateRSP
GenerateRSP(g) == SCS(g) \o CSC(g) \o CCC(g) \o CCCC(g) \o CCSC(g) \o CCSCC(g)

-----------------------------------------------------------------------------
(* Where a word leads.  A line as long as an arc leaves the places that    *)
(* sums of directions reach: that part is kept apart, in round.            *)

Step(at, type, l) ==
  CASE type = "S" -> [at EXCEPT !.z = Add(@, Times(l.line, Unit(at.phi))),
                                !.round = Add(@, Times(l.arc, Unit(at.phi)))]
    [] type = "L" -> [at EXCEPT !.z = Add(@, Less(Unit(at.phi + l.arc - 3), Unit(at.phi - 3))),
                                !.phi = NormalizeTurn(@ + l.arc)]
    [] type = "R" -> [at EXCEPT !.z = Add(@, Less(Unit(at.phi - l.arc + 3), Unit(at.phi + 3))),
                                !.phi = NormalizeTurn(@ - l.arc)]

Start == [z |-> Origin, phi |-> 0, round |-> Origin]

End(w) ==
  LET at[i \in 0 .. Len(w.types)] ==
        IF i = 0 THEN Start ELSE Step(at[i-1], w.types[i], w.lengths[i])
  IN at[Len(w.types)]

LeadsTo(w, g) == End(w) = [z |-> g.z, phi |-> NormalizeTurn(g.phi), round |-> Origin]

\* each_rs_length, with a turning radius of 5 m.
ShortestAllowed == 40

\* The first of the shortest words, in a set, or nothing.
Chosen(words) ==
  LET long == {i \in DOMAIN words : ShortestSegment(words[i]) > ShortestAllowed}
      best == {i \in long : \A j \in long : TotalLength(words[i]) <= TotalLength(words[j])}
  IN {words[i] : i \in {n \in best : \A m \in best : n <= m}}

WithoutStops(w) ==
  LET kept == SelectSeq([i \in DOMAIN w.types |-> i], LAMBDA i : Size(w.lengths[i]) > 0)
  IN Word([k \in DOMAIN kept |-> w.types[kept[k]]], [k \in DOMAIN kept |-> w.lengths[kept[k]]])

\* ShortestRSP.  Near a change of gear the words are dropped for the direction of
\* their first points, which they do not have yet: all of them.
ShortestRSP(g, near_gear_shift) ==
  IF near_gear_shift THEN {}
  ELSE {WithoutStops(w) : w \in {c \in Chosen(GenerateRSP(g)) : LeadsTo(c, g)}}

-----------------------------------------------------------------------------
(* GenerateLocalConfigurations: the stations, each with the segment it is  *)
(* on and how far from the begin of that.  Here lengths are whole numbers, *)
(* not 0, and step is one too.  The first station of a segment takes the   *)
(* place of the end of the one before.                                     *)

Sign(l) == IF l > 0 THEN 1 ELSE -1

\* The stations of a segment of length l from pd on, in steps of d.
OnSegment(l, pd, d) ==
  LET far(n) == LET p == pd + n * d IN (IF p < 0 THEN -p ELSE p) > l * Sign(l)
      count == Min({n \in 0 .. 2 * l * Sign(l) + 2 : far(n)})
  IN [n \in 1 .. count |-> pd + (n - 1) * d]

Stations(lengths, step) ==
  LET n == Len(lengths)
      d(i) == step * Sign(lengths[i])
      first(i, ll) == IF i > 1 /\ lengths[i-1] * lengths[i] > 0 THEN -d(i) - ll ELSE d(i) - ll
      walk[i \in 0 .. n] ==
        IF i = 0 THEN [out |-> << >>, ll |-> 0]
        ELSE LET pd == first(i, walk[i-1].ll)
                 on == OnSegment(lengths[i], pd, d(i))
             IN [out |-> (IF i = 1 THEN << >> ELSE Front(walk[i-1].out))
                         \o [k \in 1 .. Len(on) + 1 |->
                               [seg |-> i, pd |-> IF k <= Len(on) THEN on[k] ELSE lengths[i]]],
                 ll |-> lengths[i] - (pd + Len(on) * d(i)) - d(i)]
  IN walk[n].out

\* How many points there is room for, the first pose among them.
PointNum(lengths, step) ==
  LET total[i \in 0 .. Len(lengths)] ==
        IF i = 0 THEN 0 ELSE total[i-1] + lengths[i] * Sign(lengths[i])
  IN total[Len(lengths)] \div step + Len(lengths) + 4

-----------------------------------------------------------------------------
(* Properties *)

(* Every word of these families ends at the goal it was found for,         *)
(* mirrored and driven backwards as it may be, whatever the goal is        *)
(* (SetRSP's callers SCS, CSC, CCC, CCCC and CCSCC).                       *)
WordsArrive(g) ==
  \A words \in {SCS(g), CSC(g), CCC(g), CCCC(g), CCSCC(g)} :
    \A i \in DOMAIN words : LeadsTo(words[i], g)

\* How far along the word, with its sign, segment i ends.
WayTo(lengths, i) ==
  LET way[k \in 0 .. Len(lengths)] == IF k = 0 THEN 0 ELSE way[k-1] + lengths[k]
  IN way[i]

\* How far along the word a station is.
Odometer(lengths, s) == WayTo(lengths, s.seg - 1) + s.pd

Magnitude(n) == IF n < 0 THEN -n ELSE n

TurnsAt(lengths, k) == k \in 2 .. Len(lengths) /\ lengths[k-1] * lengths[k] < 0

(* From station to station it is a step at most, up to the end of the      *)
(* word, and there is room for all of them.  A station is on its segment,  *)
(* or it is beyond a change of direction, by a step at most: the change    *)
(* itself is no station (GenerateLocalConfigurations).                     *)
StationsFollow(lengths, step) ==
  \A at \in {Stations(lengths, step)} :
    /\ Len(at) + 1 <= PointNum(lengths, step)
    /\ at[Len(at)] = [seg |-> Len(lengths), pd |-> lengths[Len(lengths)]]
    /\ \A i \in DOMAIN at :
         LET here == Odometer(lengths, at[i])
             before == IF i = 1 THEN 0 ELSE Odometer(lengths, at[i-1])
         IN /\ Magnitude(here - before) <= step
            /\ \/ at[i].pd * lengths[at[i].seg] > 0
               \/ \E k \in 2 .. at[i].seg :
                    TurnsAt(lengths, k) /\ Magnitude(here - WayTo(lengths, k - 1)) <= step

\* After a change of direction, and before the next, a segment that begins within a step
\* of the change is longer, by a step, than how far from the change it begins.
TurnsAreLong(lengths, step) ==
  \A k \in DOMAIN lengths : TurnsAt(lengths, k) =>
    \E last \in k .. Len(lengths) :
      /\ \A i \in k .. last :
           /\ lengths[k] * lengths[i] > 0
           /\ Magnitude(WayTo(lengths, i - 1) - WayTo(lengths, k - 1)) <= step
      /\ Magnitude(lengths[last]) >=
           Magnitude(WayTo(lengths, last - 1) - WayTo(lengths, k - 1)) + step
=============================================================================
