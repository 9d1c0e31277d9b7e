---------------------------- MODULE SpeedCurves ----------------------------
(***************************************************************************)
(* The arithmetic of the speed optimizer, on whole units of time and       *)
(* speed: the curves of st_sample_curves.cc, how a remembered one is       *)
(* shifted and how it is sampled, the smoothing of the speed limits of     *)
(* path_handle.cc, and the choice of the cheapest curve by several threads *)
(* (open_space_speed_optimizer.cc).  Distances are kept twice, so that     *)
(* they stay whole.                                                        *)
(***************************************************************************)
EXTENDS Integers, SequencesExt

\* A piece of a curve: a constant acceleration for a time.
Piece(a, t) == [a |-> a, t |-> t]

\* StCurve::Init: when a piece begins, and where and how fast the vehicle is
\* then.
Origins(v, pieces) ==
  LET origin[i \in 1 .. Len(pieces)] ==
        IF i = 1
        THEN [s2 |-> 0, v |-> v, a |-> pieces[1].a, t |-> 0]
        ELSE LET last == origin[i-1]
                 now == last.v + last.a * pieces[i-1].t
             IN [s2 |-> last.s2 + (now + last.v) * pieces[i-1].t, v |-> now,
                 a |-> pieces[i].a, t |-> last.t + pieces[i-1].t]
  IN origin

\* The way and the speed at the end of the last piece.
Curve(v, pieces) ==
  LET origins == Origins(v, pieces)
      last == origins[Len(pieces)]
      end == last.v + last.a * pieces[Len(pieces)].t
  IN [origins |-> origins, end_v |-> end,
      end_s2 |-> last.s2 + (end + last.v) * pieces[Len(pieces)].t,
      total_t |-> last.t + pieces[Len(pieces)].t]

\* EvaluateFast, the time counted from the origin.
Way(t, origin) == (origin.a * t + 2 * origin.v) * t + origin.s2
Speed(t, origin) == origin.a * t + origin.v

\* Where the piece with an origin brings the vehicle at a time, and how fast.
StateAt(origin, t) == [t |-> t, s2 |-> Way(t - origin.t, origin), v |-> Speed(t - origin.t, origin)]

\* std::lower_bound: how many of the origins, which are in order, lie before a time.
LowerBoundOf(origins, dt) ==
  CHOOSE n \in 0 .. Len(origins) : /\ \A i \in 1 .. n : origins[i].t < dt
                                  /\ \A i \in n + 1 .. Len(origins) : origins[i].t >= dt

\* Mutant: the origins that stay are not moved to the new start.
UpdateOriginByDiffTimeOnly(curve, dt) ==
  LET index == LowerBoundOf(curve.origins, dt)
      later == SubSeq(curve.origins, index + 1, Len(curve.origins))
  IN IF dt <= 0 \/ index = 0 \/ later = <<>> THEN curve
     ELSE LET here == curve.origins[index]
          IN [origins |->
                << [s2 |-> 0, v |-> Speed(dt, here), a |-> here.a, t |-> 0] >> \o
                [i \in 1 .. Len(later) |-> [later[i] EXCEPT !.t = @ - dt]],
              end_v |-> curve.end_v, end_s2 |-> curve.end_s2 - Way(dt, here),
              total_t |-> curve.total_t - dt]

\* StCurve::UpdateOriginByDiffTime: forget the first dt of a curve.  In the last
\* piece, and beyond, nothing is changed.
UpdateOriginByDiffTime(curve, dt) ==
  LET index == LowerBoundOf(curve.origins, dt)
      later == SubSeq(curve.origins, index + 1, Len(curve.origins))
  IN IF dt <= 0 \/ index = 0 \/ later = <<>> THEN curve
     ELSE LET here == curve.origins[index]
              diff_s2 == Way(dt, here)
              diff_v == Speed(dt, here)
          IN [origins |->
                << [s2 |-> 0, v |-> diff_v, a |-> here.a, t |-> 0] >> \o
                [i \in 1 .. Len(later) |->
                   [later[i] EXCEPT !.s2 = @ - diff_s2, !.t = @ - dt]],
              end_v |-> curve.end_v, end_s2 |-> curve.end_s2 - diff_s2,
              total_t |-> curve.total_t - dt]

\* StCurve::Discrete: from knot to knot at most one piece further; the end is
\* added when the last knot falls short of it.
Discrete(curve, unit) ==
  LET knots == curve.total_t \div unit + 1
      piece[i \in 1 .. knots] ==
        LET last == IF i = 1 THEN 1 ELSE piece[i-1]
        IN IF last < Len(curve.origins) /\ curve.origins[last + 1].t < (i - 1) * unit
           THEN last + 1 ELSE last
      knot == [i \in 1 .. knots |-> StateAt(curve.origins[piece[i]], (i - 1) * unit)]
      short == knot[knots].t < curve.total_t /\ knot[knots].s2 < curve.end_s2
  IN IF \E i \in 2 .. knots : knot[i-1].s2 > knot[i].s2 THEN <<>>
     ELSE IF short
     THEN Append(knot, [t |-> curve.total_t, s2 |-> curve.end_s2, v |-> curve.end_v])
     ELSE knot

\* The speed and the way of a curve at a time, whatever its pieces.
At(curve, t) ==
  LET begun == {i \in 1 .. Len(curve.origins) : curve.origins[i].t <= t}
      i == CHOOSE n \in begun : \A m \in begun : m <= n
  IN StateAt(curve.origins[i], t)

-----------------------------------------------------------------------------
(* PathHandle::SmoothSpeedLimits, with its queue of indices whose limits   *)
(* ascend.                                                                 *)

\* Index i drops those at the back whose limits are not below its own.
Pushed(limits, i, queue) ==
  LET kept == CHOOSE k \in 0 .. Len(queue) :
                /\ \A j \in k + 1 .. Len(queue) : limits[i] <= limits[queue[j]]
                /\ k > 0 => limits[queue[k]] < limits[i]
  IN Append(SubSeq(queue, 1, kept), i)

\* Mutant: the front of the queue stays one step longer in the window.
LongQueue(limits, window, i, queue) ==
  LET all == IF i <= Len(limits) THEN Pushed(limits, i, queue) ELSE queue
  IN IF Head(all) + 1 < i - 2 * window THEN Tail(all) ELSE all

\* What index i leaves of the queue: the window is that of the limits around
\* i - window.
Queue(limits, window, i, queue) ==
  LET all == IF i <= Len(limits) THEN Pushed(limits, i, queue) ELSE queue
  IN IF Head(all) < i - 2 * window THEN Tail(all) ELSE all

SmoothSpeedLimits(limits, window) ==
  LET queue[i \in 1 .. Len(limits) + window] ==
        Queue(limits, window, i, IF i = 1 THEN <<>> ELSE queue[i-1])
  IN [i \in 1 .. Len(limits) |-> limits[Head(queue[i + window])]]

-----------------------------------------------------------------------------
(* OpenSpaceSpeedOptimizer::GetBestCurveIdx: the curves in blocks, one per *)
(* thread, the first cheapest of each block, and the cheapest of those.    *)
(* Indices count from 1; a thread without curves keeps the first index and *)
(* the highest cost.                                                       *)

MinThreads == 4

Threads(sample_thread_size) ==
  IF sample_thread_size < MinThreads THEN MinThreads ELSE sample_thread_size

\* Mutant: the remainder of the division is left over.
BlockWithoutRest(size, threads, n) ==
  LET count == size \div threads
  IN n * count + 1 .. (n + 1) * count

Block(size, threads, n) ==
  LET count == size \div threads + 1
      end == (n + 1) * count
  IN n * count + 1 .. (IF end < size THEN end ELSE size)

BestOfBlock(costs, most, block) ==
  LET cheap == {i \in block : costs[i] < most /\ \A j \in block : costs[i] <= costs[j]}
  IN IF cheap = {} THEN [index |-> 1, cost |-> most]
     ELSE LET first == CHOOSE i \in cheap : \A j \in cheap : i <= j
          IN [index |-> first, cost |-> costs[first]]

\* The sort puts some thread with the least cost first.
BestCurves(costs, most, sample_thread_size) ==
  LET threads == Threads(sample_thread_size)
      slots == {BestOfBlock(costs, most, Block(Len(costs), threads, n)) :
                  n \in 0 .. threads - 1}
  IN {slot.index : slot \in {s \in slots : \A o \in slots : s.cost <= o.cost}}
-----------------------------------------------------------------------------
(* StSampleCurves: which curves to the end of a way are tried.  A leg of   *)
(* one is known by the squares of its speeds and by its way, which imply   *)
(* its acceleration, (to2 - from2) / 2s, and a time above 0 exactly if     *)
(* s > 0.  A query q has the speed v, the way dist, whether the vehicle      *)
(* accelerates, the bounds, in which min_dec and max_dec are magnitudes,   *)
(* and how many units of time a second has.                                *)

Leg(from2, to2, s) == [from2 |-> from2, to2 |-> to2, s |-> s]

\* A leg that gains speed by acc, or loses it by dec.
SpeedUp(from2, to2, acc) == Leg(from2, to2, (to2 - from2) \div (2 * acc))
SlowDown(from2, to2, dec) == Leg(from2, to2, (from2 - to2) \div (2 * dec))

\* SampleAcc, SampleMaxVel: from the least in steps, then the greatest.
Steps(least, most, unit) == {least + unit * i : i \in 0 .. (most - least - 1) \div unit} \cup {most}

CandidateMaxAccs(b) == Steps(b.min_acc, b.max_acc, b.unit_acc) \cup {0}
CandidateMinAccs(b) == Steps(b.min_dec, b.max_dec, b.unit_acc)
CandidateMaxV(b) == Steps(b.min_speed, b.max_speed, b.unit_speed)

\* CalStParamsDirectly: slow down to stop at the end, with dec, after a way at
\* max_v that is reached with acc; <<>> if it has no answer.  The stop that the
\* vehicle's max_deceleration clamps keeps a speed at the end, which
\* IsTShapeParamsValid refuses: <<>> too.
CalStParamsDirectly(q, acc, dec, max_v) ==
  LET v2 == q.v * q.v
      max2 == max_v * max_v
      comfort == v2 \div (2 * dec)
      rest == q.dist - comfort
      up == SpeedUp(v2, max2, acc)
      down == SlowDown(max2, v2, dec)
  IN IF rest <= 0
     THEN IF v2 <= 2 * q.dist * q.max_deceleration THEN <<Leg(v2, 0, q.dist)>> ELSE <<>>
     ELSE IF q.v > max_v
     THEN <<SlowDown(v2, max2, dec), Leg(max2, max2, rest), SlowDown(max2, 0, dec)>>
     ELSE IF q.v = max_v
     THEN <<Leg(v2, v2, rest), SlowDown(v2, 0, dec)>>
     ELSE IF acc = 0
     THEN IF ~q.accelerates /\ (max_v - q.v) * 10 < 3 * q.second * q.bounds.min_acc
          THEN <<Leg(v2, v2, rest), SlowDown(v2, 0, dec)>>
          ELSE <<>>
     ELSE IF rest > up.s + down.s
     THEN <<up, Leg(max2, max2, rest - up.s - down.s), SlowDown(max2, 0, dec)>>
     ELSE LET peak2 == v2 + (2 * acc * dec * rest) \div (acc + dec)
          IN <<SpeedUp(v2, peak2, acc), SlowDown(peak2, 0, dec)>>

\* Mutant: the cruise is checked in every curve.
LongCruisesOnly(q, legs) ==
  /\ legs # <<>>
  /\ \A i \in DOMAIN legs : legs[i].s > 0
  /\ Len(legs) = 3
  /\ legs[2].s * legs[2].s >= 4 * q.second * q.second * legs[2].to2

\* IsTShapeParamsValid: the accelerations are in bounds, all times above 0; a
\* short way is not driven in a steep triangle, nor with a short cruise.
IsTShapeParamsValid(q, legs) ==
  LET b == q.bounds
      peak2 == legs[1].to2
      above_min == peak2 > b.min_speed * b.min_speed
  IN /\ legs # <<>>
     /\ \A i \in DOMAIN legs :
          /\ legs[i].s > 0
          /\ legs[i].to2 - legs[i].from2 <= 2 * legs[i].s * b.max_acc
          /\ legs[i].from2 - legs[i].to2 <= 2 * legs[i].s * b.max_dec
     /\ Len(legs) > 1 => peak2 > 0 /\ peak2 <= b.max_speed * b.max_speed
     /\ Len(legs) = 2 => ~(legs[1].from2 < peak2 /\ above_min)
     /\ Len(legs) = 3 => ~(above_min /\ legs[2].s * legs[2].s < 4 * q.second * q.second * peak2)

\* SampleCurvesUseMaxV
CurvesUseMaxV(q, max_v) ==
  {legs \in {CalStParamsDirectly(q, acc, dec, max_v) :
               acc \in IF q.v < max_v THEN CandidateMaxAccs(q.bounds) ELSE {q.bounds.max_acc},
               dec \in CandidateMinAccs(q.bounds)} :
     IsTShapeParamsValid(q, legs)}

\* SampleProcess; kMinSampleS is less than a unit.
SampleProcess(q) ==
  IF q.dist = 0 THEN {}
  ELSE UNION {CurvesUseMaxV(q, max_v) : max_v \in CandidateMaxV(q.bounds)}

-----------------------------------------------------------------------------
(* Properties *)

\* The curves of the optimizer never go backwards.
Forward(curve) == curve.end_v >= 0 /\ \A i \in DOMAIN curve.origins : curve.origins[i].v >= 0

(* UpdateOriginByDiffTime leaves exactly the rest of a curve of several    *)
(* pieces while the time lies in its first one: beyond that it evaluates a *)
(* piece at the time since the start of the curve, and a curve in its last *)
(* piece is not shifted at all.                                            *)
RestAgrees(curve) ==
  \A dt \in 0 .. (IF Len(curve.origins) = 1 THEN 0 ELSE curve.origins[2].t) :
    LET rest == UpdateOriginByDiffTime(curve, dt)
        begin == At(curve, dt)
    IN /\ rest.total_t = curve.total_t - dt
       /\ rest.end_s2 = curve.end_s2 - begin.s2
       /\ \A t \in 0 .. rest.total_t :
            LET now == At(curve, t + dt)
            IN At(rest, t) = [t |-> t, s2 |-> now.s2 - begin.s2, v |-> now.v]

(* Discrete delivers points of the curve, one at each whole step and at    *)
(* most one more, ever later and never back, up to the curve's end.        *)
KnotsLieOn(curve, unit) ==
  LET knots == Discrete(curve, unit)
      whole == curve.total_t \div unit + 1
  IN /\ Len(knots) >= whole
     /\ \A i \in DOMAIN knots : knots[i] = At(curve, knots[i].t) /\ knots[i].t <= curve.total_t
     /\ \A i \in 1 .. whole : knots[i].t = (i - 1) * unit
     /\ \A i \in 2 .. Len(knots) : knots[i-1].t < knots[i].t /\ knots[i-1].s2 <= knots[i].s2
     /\ knots[Len(knots)].s2 = curve.end_s2

\* The way that the legs of a curve make together.
WayOf(legs) ==
  LET way[i \in 0 .. Len(legs)] == IF i = 0 THEN 0 ELSE way[i-1] + legs[i].s
  IN way[Len(legs)]

(* Every sampled curve drives exactly the way to the end of the path and   *)
(* stops there, without a jump of the speed (CalStParamsDirectly,          *)
(* IsTShapeParamsValid); and a vehicle that can stop in time is never left *)
(* without a curve, by which it would be told to brake although nothing is *)
(* in its way (SampleProcess).                                             *)
SampledCurvesStop(q) ==
  /\ \A legs \in SampleProcess(q) :
       /\ WayOf(legs) = q.dist
       /\ legs[1].from2 = q.v * q.v /\ legs[Len(legs)].to2 = 0
       /\ \A i \in 2 .. Len(legs) : legs[i].from2 = legs[i-1].to2
  /\ q.dist > 0 /\ q.v * q.v <= 2 * q.bounds.max_dec * q.dist => SampleProcess(q) # {}

\* All the ways of a query are whole, so that nothing is rounded.
WholeWays(q) ==
  LET v2 == q.v * q.v
      whole(n, d) == n = d * (n \div d)
  IN \A dec \in CandidateMinAccs(q.bounds), max_v \in CandidateMaxV(q.bounds) :
       /\ whole(v2, 2 * dec) /\ whole(max_v * max_v, 2 * dec)
       /\ \A acc \in CandidateMaxAccs(q.bounds) \ {0} :
            /\ whole(max_v * max_v - v2, 2 * acc)
            /\ whole(dec * (q.dist - v2 \div (2 * dec)), acc + dec)

(* The smoothed speed limit of each place is the least one around it,      *)
(* which the queue of SmoothSpeedLimits keeps track of.                    *)
LimitsAreLeast(limits, window) ==
  LET around(i) == {j \in DOMAIN limits : i - window <= j /\ j <= i + window}
      smooth == SmoothSpeedLimits(limits, window)
  IN /\ Len(smooth) = Len(limits)
     /\ \A i \in DOMAIN limits : /\ \E j \in around(i) : smooth[i] = limits[j]
                                 /\ \A j \in around(i) : smooth[i] <= limits[j]

(* However the curves are dealt out to threads, the one that is chosen is  *)
(* a cheapest one (GetBestCurveIdx).                                       *)
CheapestIsChosen(costs, most, sample_thread_size) ==
  LET best == BestCurves(costs, most, sample_thread_size)
  IN /\ best # {}
     /\ \A i \in best : i \in DOMAIN costs /\ \A j \in DOMAIN costs : costs[i] <= costs[j]
=============================================================================
