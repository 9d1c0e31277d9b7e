-------------------------- MODULE ReedsSheppProofs --------------------------
(***************************************************************************)
(* The words of the Reeds-Shepp families lead to the goal they were found  *)
(* for, whatever the goal is.                                              *)
(*                                                                         *)
(* A pose is a place, of four whole coordinates, and a heading.  What each *)
(* family answers fixes the vector between the centres of two circles; so  *)
(* do the coordinates of the place that its word ends at, sum by sum.  The *)
(* four ways mirror the goal, turn it about or both: what a way makes of a *)
(* word ends where the way sees the word's end.                            *)
(*                                                                         *)
(* The stations of a word follow it to its end.  The argument is about the *)
(* station that the offset promises next: it is a step at most ahead of    *)
(* the last one, in the direction of the segment or, after a turn, behind  *)
(* the turn.                                                               *)
(***************************************************************************)
EXTENDS ReedsShepp, WellFoundedInduction, FiniteSetTheorems, SequenceTheorems, TLAPS

(* Places and directions, by coordinates *)

Places == [1 .. 4 -> Int]
Goals == [z : Places, phi : Int]

\* A place is what its four coordinates make it.
LEMMA PlaceIs ==
  ASSUME NEW a \in Int, NEW b \in Int, NEW c \in Int, NEW d \in Int
  PROVE  /\ Place(a, b, c, d) \in Places
         /\ Place(a, b, c, d)[1] = a /\ Place(a, b, c, d)[2] = b
         /\ Place(a, b, c, d)[3] = c /\ Place(a, b, c, d)[4] = d
BY DEF Place, Places

\* Places are added by coordinates.
LEMMA Sums ==
  ASSUME NEW p \in Places, NEW q \in Places
  PROVE  /\ Add(p, q) \in Places
         /\ \A i \in 1 .. 4 : Add(p, q)[i] = p[i] + q[i]
BY DEF Add, Places

\* Places are multiplied by coordinates.
LEMMA Multiples ==
  ASSUME NEW p \in Places, NEW n \in Int
  PROVE  /\ Times(n, p) \in Places
         /\ \A i \in 1 .. 4 : Times(n, p)[i] = n * p[i]
BY DEF Times, Places

\* The opposite of a place has the opposite coordinates.
LEMMA Opposites ==
  ASSUME NEW p \in Places
  PROVE  /\ Times(-1, p) \in Places
         /\ \A i \in 1 .. 4 : Times(-1, p)[i] = -p[i]
BY DEF Times, Places

\* Places are subtracted by coordinates.
LEMMA Differences ==
  ASSUME NEW p \in Places, NEW q \in Places
  PROVE  /\ Less(p, q) \in Places
         /\ \A i \in 1 .. 4 : Less(p, q)[i] = p[i] - q[i]
<1>1. Times(-1, q) \in Places /\ \A i \in 1 .. 4 : Times(-1, q)[i] = -q[i]
  BY Opposites
<1>2. \A i \in 1 .. 4 : p[i] \in Int /\ q[i] \in Int
  BY DEF Places
<1> QED BY <1>1, <1>2, Sums DEF Less

\* Places with the same coordinates are the same.
LEMMA EqualPlaces ==
  ASSUME NEW p \in Places, NEW q \in Places, \A i \in 1 .. 4 : p[i] = q[i]
  PROVE  p = q
BY DEF Places

\* The twelve directions.
LEMMA UnitTable ==
  ASSUME NEW k \in Int
  PROVE  \/ k % 12 = 0 /\ Unit(k) = Place(1, 0, 0, 0)
         \/ k % 12 = 1 /\ Unit(k) = Place(0, 1, 0, 0)
         \/ k % 12 = 2 /\ Unit(k) = Place(0, 0, 1, 0)
         \/ k % 12 = 3 /\ Unit(k) = Place(0, 0, 0, 1)
         \/ k % 12 = 4 /\ Unit(k) = Place(-1, 0, 1, 0)
         \/ k % 12 = 5 /\ Unit(k) = Place(0, -1, 0, 1)
         \/ k % 12 = 6 /\ Unit(k) = Times(-1, Place(1, 0, 0, 0))
         \/ k % 12 = 7 /\ Unit(k) = Times(-1, Place(0, 1, 0, 0))
         \/ k % 12 = 8 /\ Unit(k) = Times(-1, Place(0, 0, 1, 0))
         \/ k % 12 = 9 /\ Unit(k) = Times(-1, Place(0, 0, 0, 1))
         \/ k % 12 = 10 /\ Unit(k) = Times(-1, Place(-1, 0, 1, 0))
         \/ k % 12 = 11 /\ Unit(k) = Times(-1, Place(0, -1, 0, 1))
<1> DEFINE r == k % 12
           s == k % 6
<1>1. r \in 0 .. 11
  OBVIOUS
<1>2. \/ r = 0 /\ s = 0
      \/ r = 1 /\ s = 1
      \/ r = 2 /\ s = 2
      \/ r = 3 /\ s = 3
      \/ r = 4 /\ s = 4
      \/ r = 5 /\ s = 5
      \/ r = 6 /\ s = 0
      \/ r = 7 /\ s = 1
      \/ r = 8 /\ s = 2
      \/ r = 9 /\ s = 3
      \/ r = 10 /\ s = 4
      \/ r = 11 /\ s = 5
  <2>1. s = IF r < 6 THEN r ELSE r - 6
    OBVIOUS
  <2>2. \A n \in 0 .. 11 : \/ n = 0 \/ n = 1 \/ n = 2 \/ n = 3 \/ n = 4 \/ n = 5
                           \/ n = 6 \/ n = 7 \/ n = 8 \/ n = 9 \/ n = 10 \/ n = 11
    OBVIOUS
  <2> HIDE DEF r, s
  <2>3. \/ r = 0 \/ r = 1 \/ r = 2 \/ r = 3 \/ r = 4 \/ r = 5
        \/ r = 6 \/ r = 7 \/ r = 8 \/ r = 9 \/ r = 10 \/ r = 11
    BY <1>1, <2>2
  <2>4. CASE r < 6
    BY <2>1, <2>3, <2>4
  <2>5. CASE ~(r < 6)
    <3>1. s = r - 6
      BY <2>1, <2>5
    <3> QED BY <2>3, <2>5, <3>1
  <2> QED BY <2>4, <2>5
<1>3. /\ Units[1] = Place(1, 0, 0, 0) /\ Units[2] = Place(0, 1, 0, 0)
      /\ Units[3] = Place(0, 0, 1, 0) /\ Units[4] = Place(0, 0, 0, 1)
      /\ Units[5] = Place(-1, 0, 1, 0) /\ Units[6] = Place(0, -1, 0, 1)
  BY DEF Units
<1>4. Unit(k) = IF r < 6 THEN Units[r + 1] ELSE Times(-1, Units[s + 1])
  BY DEF Unit
<1> HIDE DEF r, s
<1>5. Unit(k) = IF r < 6 THEN Units[r + 1] ELSE Times(-1, Units[s + 1])
  BY <1>4 DEF r, s
<1>6. \/ r = 0 /\ Unit(k) = Units[1]
      \/ r = 1 /\ Unit(k) = Units[2]
      \/ r = 2 /\ Unit(k) = Units[3]
      \/ r = 3 /\ Unit(k) = Units[4]
      \/ r = 4 /\ Unit(k) = Units[5]
      \/ r = 5 /\ Unit(k) = Units[6]
      \/ r = 6 /\ Unit(k) = Times(-1, Units[1])
      \/ r = 7 /\ Unit(k) = Times(-1, Units[2])
      \/ r = 8 /\ Unit(k) = Times(-1, Units[3])
      \/ r = 9 /\ Unit(k) = Times(-1, Units[4])
      \/ r = 10 /\ Unit(k) = Times(-1, Units[5])
      \/ r = 11 /\ Unit(k) = Times(-1, Units[6])
  BY <1>2, <1>5
<1> QED BY <1>3, <1>6 DEF r

\* The coordinates of a direction.
LEMMA UnitCoordinates ==
  ASSUME NEW k \in Int
  PROVE  /\ Unit(k) \in Places
         /\ LET u == Unit(k)
                r == k % 12
            IN \/ r = 0 /\ u[1] = 1 /\ u[2] = 0 /\ u[3] = 0 /\ u[4] = 0
               \/ r = 1 /\ u[1] = 0 /\ u[2] = 1 /\ u[3] = 0 /\ u[4] = 0
               \/ r = 2 /\ u[1] = 0 /\ u[2] = 0 /\ u[3] = 1 /\ u[4] = 0
               \/ r = 3 /\ u[1] = 0 /\ u[2] = 0 /\ u[3] = 0 /\ u[4] = 1
               \/ r = 4 /\ u[1] = -1 /\ u[2] = 0 /\ u[3] = 1 /\ u[4] = 0
               \/ r = 5 /\ u[1] = 0 /\ u[2] = -1 /\ u[3] = 0 /\ u[4] = 1
               \/ r = 6 /\ u[1] = -1 /\ u[2] = 0 /\ u[3] = 0 /\ u[4] = 0
               \/ r = 7 /\ u[1] = 0 /\ u[2] = -1 /\ u[3] = 0 /\ u[4] = 0
               \/ r = 8 /\ u[1] = 0 /\ u[2] = 0 /\ u[3] = -1 /\ u[4] = 0
               \/ r = 9 /\ u[1] = 0 /\ u[2] = 0 /\ u[3] = 0 /\ u[4] = -1
               \/ r = 10 /\ u[1] = 1 /\ u[2] = 0 /\ u[3] = -1 /\ u[4] = 0
               \/ r = 11 /\ u[1] = 0 /\ u[2] = 1 /\ u[3] = 0 /\ u[4] = -1
<1>1. \A a, b, c, d \in Int :
        /\ Place(a, b, c, d) \in Places
        /\ Place(a, b, c, d)[1] = a /\ Place(a, b, c, d)[2] = b
        /\ Place(a, b, c, d)[3] = c /\ Place(a, b, c, d)[4] = d
  BY PlaceIs
<1> DEFINE is(p, a, b, c, d) == p \in Places /\ p[1] = a /\ p[2] = b /\ p[3] = c /\ p[4] = d
<1>4. /\ is(Place(1, 0, 0, 0), 1, 0, 0, 0) /\ is(Place(0, 1, 0, 0), 0, 1, 0, 0)
      /\ is(Place(0, 0, 1, 0), 0, 0, 1, 0) /\ is(Place(0, 0, 0, 1), 0, 0, 0, 1)
      /\ is(Place(-1, 0, 1, 0), -1, 0, 1, 0) /\ is(Place(0, -1, 0, 1), 0, -1, 0, 1)
  BY DEF Place, Places
<1>5. /\ is(Times(-1, Place(1, 0, 0, 0)), -1, 0, 0, 0) /\ is(Times(-1, Place(0, 1, 0, 0)), 0, -1, 0, 0)
      /\ is(Times(-1, Place(0, 0, 1, 0)), 0, 0, -1, 0) /\ is(Times(-1, Place(0, 0, 0, 1)), 0, 0, 0, -1)
      /\ is(Times(-1, Place(-1, 0, 1, 0)), 1, 0, -1, 0) /\ is(Times(-1, Place(0, -1, 0, 1)), 0, 1, 0, -1)
  BY DEF Times, Place, Places
<1>6. /\ k % 12 = 0 => is(Unit(k), 1, 0, 0, 0)
      /\ k % 12 = 1 => is(Unit(k), 0, 1, 0, 0)
      /\ k % 12 = 2 => is(Unit(k), 0, 0, 1, 0)
      /\ k % 12 = 3 => is(Unit(k), 0, 0, 0, 1)
      /\ k % 12 = 4 => is(Unit(k), -1, 0, 1, 0)
      /\ k % 12 = 5 => is(Unit(k), 0, -1, 0, 1)
      /\ k % 12 = 6 => is(Unit(k), -1, 0, 0, 0)
      /\ k % 12 = 7 => is(Unit(k), 0, -1, 0, 0)
      /\ k % 12 = 8 => is(Unit(k), 0, 0, -1, 0)
      /\ k % 12 = 9 => is(Unit(k), 0, 0, 0, -1)
      /\ k % 12 = 10 => is(Unit(k), 1, 0, -1, 0)
      /\ k % 12 = 11 => is(Unit(k), 0, 1, 0, -1)
  <2> HIDE DEF is
  <2> QED BY <1>4, <1>5, UnitTable
<1>7. k % 12 \in 0 .. 11
  OBVIOUS
<1>8. \A n \in 0 .. 11 : \/ n = 0 \/ n = 1 \/ n = 2 \/ n = 3 \/ n = 4 \/ n = 5
                         \/ n = 6 \/ n = 7 \/ n = 8 \/ n = 9 \/ n = 10 \/ n = 11
  OBVIOUS
<1> QED BY <1>6, <1>7, <1>8

\* Directions a full turn apart are the same.
LEMMA UnitModulo ==
  ASSUME NEW a \in Int, NEW b \in Int, a % 12 = b % 12
  PROVE  Unit(a) = Unit(b)
<1> DEFINE r == a % 12
<1>1. r \in 0 .. 11 /\ b % 12 = r
  OBVIOUS
<1>2. \A n \in 0 .. 11 : \/ n = 0 \/ n = 1 \/ n = 2 \/ n = 3 \/ n = 4 \/ n = 5
                         \/ n = 6 \/ n = 7 \/ n = 8 \/ n = 9 \/ n = 10 \/ n = 11
  OBVIOUS
<1>3. a % 6 = b % 6
  <2>1. \A k \in Int : k % 6 = IF k % 12 < 6 THEN k % 12 ELSE (k % 12) - 6
    OBVIOUS
  <2> QED BY <2>1
<1> QED BY <1>3 DEF Unit

\* A direction's coordinates, by the turns that lead to it.
LEMMA UnitRules ==
  ASSUME NEW k \in Int, NEW i \in 1 .. 4
  PROVE  /\ Unit(k)[i] \in Int
         /\ Unit(k + 6)[i] = 0 - Unit(k)[i]
         /\ Unit(k + 4)[i] = Unit(k + 2)[i] - Unit(k)[i]
<1>1. k \in Int /\ k + 2 \in Int /\ k + 4 \in Int /\ k + 6 \in Int
  OBVIOUS
<1>2. i = 1 \/ i = 2 \/ i = 3 \/ i = 4
  OBVIOUS
<1> DEFINE r == k % 12
<1>3. /\ r \in 0 .. 11
      /\ (k + 2) % 12 = IF r < 10 THEN r + 2 ELSE r - 10
      /\ (k + 4) % 12 = IF r < 8 THEN r + 4 ELSE r - 8
      /\ (k + 6) % 12 = IF r < 6 THEN r + 6 ELSE r - 6
  OBVIOUS
<1>4. \A n \in 0 .. 11 : \/ n = 0 \/ n = 1 \/ n = 2 \/ n = 3 \/ n = 4 \/ n = 5
                         \/ n = 6 \/ n = 7 \/ n = 8 \/ n = 9 \/ n = 10 \/ n = 11
  OBVIOUS
<1> QED BY <1>1, <1>2, <1>3, <1>4, UnitCoordinates

\* NormalizeTurn keeps the direction and answers at most half a turn.
LEMMA NormalizedTurn ==
  ASSUME NEW k \in Int
  PROVE  /\ NormalizeTurn(k) \in -6 .. 5
         /\ NormalizeTurn(k) % 12 = k % 12
BY DEF NormalizeTurn

\* The coordinates of a turned place.
LEMMA TurnedAt ==
  ASSUME NEW p \in Places, NEW k \in Int
  PROVE  /\ Turned(p, k) \in Places
         /\ \A i \in 1 .. 4 : Turned(p, k)[i] =
              (p[1] * Unit(k)[i] + p[2] * Unit(k + 1)[i])
                + (p[3] * Unit(k + 2)[i] + p[4] * Unit(k + 3)[i])
<1> DEFINE part(j) == Times(p[j], Unit(k + j - 1))
<1>1. \A j \in 1 .. 4 : part(j) \in Places /\ \A i \in 1 .. 4 : part(j)[i] = p[j] * Unit(k + j - 1)[i]
  <2> TAKE j \in 1 .. 4
  <2>1. p[j] \in Int /\ k + j - 1 \in Int
    BY DEF Places
  <2>2. Unit(k + j - 1) \in Places
    BY <2>1, UnitCoordinates
  <2> QED BY <2>1, <2>2, Multiples
<1>2. Turned(p, k) = Add(Add(part(1), part(2)), Add(part(3), part(4)))
  BY DEF Turned
<1>3. 1 \in 1 .. 4 /\ 2 \in 1 .. 4 /\ 3 \in 1 .. 4 /\ 4 \in 1 .. 4
  OBVIOUS
<1>4. /\ Add(part(1), part(2)) \in Places /\ Add(part(3), part(4)) \in Places
      /\ \A i \in 1 .. 4 : Add(part(1), part(2))[i] = part(1)[i] + part(2)[i]
      /\ \A i \in 1 .. 4 : Add(part(3), part(4))[i] = part(3)[i] + part(4)[i]
  <2> HIDE DEF part
  <2> QED BY <1>1, <1>3, Sums
<1>5. /\ Turned(p, k) \in Places
      /\ \A i \in 1 .. 4 : Turned(p, k)[i] = (part(1)[i] + part(2)[i]) + (part(3)[i] + part(4)[i])
  <2> HIDE DEF part
  <2> QED BY <1>2, <1>4, Sums
<1>6. k + 1 - 1 = k /\ k + 2 - 1 = k + 1 /\ k + 3 - 1 = k + 2 /\ k + 4 - 1 = k + 3
  OBVIOUS
<1>7. \A i \in 1 .. 4 : /\ part(1)[i] = p[1] * Unit(k)[i] /\ part(2)[i] = p[2] * Unit(k + 1)[i]
                        /\ part(3)[i] = p[3] * Unit(k + 2)[i] /\ part(4)[i] = p[4] * Unit(k + 3)[i]
  <2>1. \A j \in 1 .. 4 : \A i \in 1 .. 4 : part(j)[i] = p[j] * Unit(k + j - 1)[i]
    BY <1>1
  <2> HIDE DEF part
  <2> QED BY <2>1, <1>3, <1>6
<1> HIDE DEF part
<1> QED BY <1>5, <1>7

\* To turn a sum is to add what was turned.
LEMMA TurnedSum ==
  ASSUME NEW p \in Places, NEW q \in Places, NEW k \in Int
  PROVE  Turned(Add(p, q), k) = Add(Turned(p, k), Turned(q, k))
<1>1. Add(p, q) \in Places /\ Turned(p, k) \in Places /\ Turned(q, k) \in Places
  BY Sums, TurnedAt
<1>2. Turned(Add(p, q), k) \in Places /\ Add(Turned(p, k), Turned(q, k)) \in Places
  BY <1>1, Sums, TurnedAt
<1>3. ASSUME NEW i \in 1 .. 4
      PROVE  Turned(Add(p, q), k)[i] = Add(Turned(p, k), Turned(q, k))[i]
  <2>1. 1 \in 1 .. 4 /\ 2 \in 1 .. 4 /\ 3 \in 1 .. 4 /\ 4 \in 1 .. 4
    OBVIOUS
  <2>2. /\ Add(p, q)[1] = p[1] + q[1] /\ Add(p, q)[2] = p[2] + q[2]
        /\ Add(p, q)[3] = p[3] + q[3] /\ Add(p, q)[4] = p[4] + q[4]
    BY <2>1, Sums
  <2>3. /\ p[1] \in Int /\ p[2] \in Int /\ p[3] \in Int /\ p[4] \in Int
        /\ q[1] \in Int /\ q[2] \in Int /\ q[3] \in Int /\ q[4] \in Int
    BY <2>1 DEF Places
  <2>4. /\ Unit(k)[i] \in Int /\ Unit(k + 1)[i] \in Int
        /\ Unit(k + 2)[i] \in Int /\ Unit(k + 3)[i] \in Int
    <3>1. k + 1 \in Int /\ k + 2 \in Int /\ k + 3 \in Int
      OBVIOUS
    <3> QED BY <3>1, UnitRules
  <2>5. \A a, b, c, d, e, f, g, h, u, v, w, x \in Int :
          ((a + e) * u + (b + f) * v) + ((c + g) * w + (d + h) * x)
            = ((a * u + b * v) + (c * w + d * x)) + ((e * u + f * v) + (g * w + h * x))
    OBVIOUS
  <2>6. Turned(Add(p, q), k)[i] =
          ((p[1] + q[1]) * Unit(k)[i] + (p[2] + q[2]) * Unit(k + 1)[i])
            + ((p[3] + q[3]) * Unit(k + 2)[i] + (p[4] + q[4]) * Unit(k + 3)[i])
    <3>1. \A j \in 1 .. 4 : Turned(Add(p, q), k)[j] =
            (Add(p, q)[1] * Unit(k)[j] + Add(p, q)[2] * Unit(k + 1)[j])
              + (Add(p, q)[3] * Unit(k + 2)[j] + Add(p, q)[4] * Unit(k + 3)[j])
      BY <1>1, TurnedAt
    <3> QED BY <2>2, <3>1
  <2>7. Add(Turned(p, k), Turned(q, k))[i] =
          ((p[1] * Unit(k)[i] + p[2] * Unit(k + 1)[i])
             + (p[3] * Unit(k + 2)[i] + p[4] * Unit(k + 3)[i]))
          + ((q[1] * Unit(k)[i] + q[2] * Unit(k + 1)[i])
             + (q[3] * Unit(k + 2)[i] + q[4] * Unit(k + 3)[i]))
    <3>1. Add(Turned(p, k), Turned(q, k))[i] = Turned(p, k)[i] + Turned(q, k)[i]
      BY <1>1, Sums
    <3>2. Turned(p, k)[i] = (p[1] * Unit(k)[i] + p[2] * Unit(k + 1)[i])
                              + (p[3] * Unit(k + 2)[i] + p[4] * Unit(k + 3)[i])
      BY TurnedAt
    <3>3. Turned(q, k)[i] = (q[1] * Unit(k)[i] + q[2] * Unit(k + 1)[i])
                              + (q[3] * Unit(k + 2)[i] + q[4] * Unit(k + 3)[i])
      BY TurnedAt
    <3> QED BY <3>1, <3>2, <3>3
  <2> QED BY <2>3, <2>4, <2>5, <2>6, <2>7
<1> QED BY <1>2, <1>3, EqualPlaces

\* To turn a multiple is to multiply what was turned.
LEMMA TurnedMultiple ==
  ASSUME NEW p \in Places, NEW n \in Int, NEW k \in Int
  PROVE  Turned(Times(n, p), k) = Times(n, Turned(p, k))
<1>1. Times(n, p) \in Places /\ Turned(p, k) \in Places
  BY Multiples, TurnedAt
<1>2. Turned(Times(n, p), k) \in Places /\ Times(n, Turned(p, k)) \in Places
  BY <1>1, Multiples, TurnedAt
<1>3. ASSUME NEW i \in 1 .. 4
      PROVE  Turned(Times(n, p), k)[i] = Times(n, Turned(p, k))[i]
  <2>1. 1 \in 1 .. 4 /\ 2 \in 1 .. 4 /\ 3 \in 1 .. 4 /\ 4 \in 1 .. 4
    OBVIOUS
  <2>2. /\ Times(n, p)[1] = n * p[1] /\ Times(n, p)[2] = n * p[2]
        /\ Times(n, p)[3] = n * p[3] /\ Times(n, p)[4] = n * p[4]
    BY <2>1, Multiples
  <2>3. /\ p[1] \in Int /\ p[2] \in Int /\ p[3] \in Int /\ p[4] \in Int
    BY <2>1 DEF Places
  <2>4. /\ Unit(k)[i] \in Int /\ Unit(k + 1)[i] \in Int
        /\ Unit(k + 2)[i] \in Int /\ Unit(k + 3)[i] \in Int
    <3>1. k + 1 \in Int /\ k + 2 \in Int /\ k + 3 \in Int
      OBVIOUS
    <3> QED BY <3>1, UnitRules
  <2>5. \A a, b, c, d, u, v, w, x \in Int :
          ((n * a) * u + (n * b) * v) + ((n * c) * w + (n * d) * x)
            = n * ((a * u + b * v) + (c * w + d * x))
    OBVIOUS
  <2>6. Turned(Times(n, p), k)[i] =
          ((n * p[1]) * Unit(k)[i] + (n * p[2]) * Unit(k + 1)[i])
            + ((n * p[3]) * Unit(k + 2)[i] + (n * p[4]) * Unit(k + 3)[i])
    <3>1. \A j \in 1 .. 4 : Turned(Times(n, p), k)[j] =
            (Times(n, p)[1] * Unit(k)[j] + Times(n, p)[2] * Unit(k + 1)[j])
              + (Times(n, p)[3] * Unit(k + 2)[j] + Times(n, p)[4] * Unit(k + 3)[j])
      BY <1>1, TurnedAt
    <3> QED BY <2>2, <3>1
  <2>7. Times(n, Turned(p, k))[i] =
          n * ((p[1] * Unit(k)[i] + p[2] * Unit(k + 1)[i])
                 + (p[3] * Unit(k + 2)[i] + p[4] * Unit(k + 3)[i]))
    <3>1. Times(n, Turned(p, k))[i] = n * Turned(p, k)[i]
      BY <1>1, Multiples
    <3>2. Turned(p, k)[i] = (p[1] * Unit(k)[i] + p[2] * Unit(k + 1)[i])
                              + (p[3] * Unit(k + 2)[i] + p[4] * Unit(k + 3)[i])
      BY TurnedAt
    <3> QED BY <3>1, <3>2
  <2> QED BY <2>3, <2>4, <2>5, <2>6, <2>7
<1> QED BY <1>2, <1>3, EqualPlaces

\* To turn a difference is to subtract what was turned.
LEMMA TurnedDifference ==
  ASSUME NEW p \in Places, NEW q \in Places, NEW k \in Int
  PROVE  Turned(Less(p, q), k) = Less(Turned(p, k), Turned(q, k))
<1>1. Times(-1, q) \in Places
  BY Opposites
<1>2. Turned(Times(-1, q), k) = Times(-1, Turned(q, k))
  BY TurnedMultiple
<1> QED BY <1>1, <1>2, TurnedSum DEF Less

\* To turn a direction is to add the turns.
LEMMA TurnedUnit ==
  ASSUME NEW a \in Int, NEW k \in Int
  PROVE  Turned(Unit(a), k) = Unit(a + k)
<1>1. /\ Unit(a) \in Places /\ Unit(a + k) \in Places /\ Turned(Unit(a), k) \in Places
      /\ a + k \in Int
  BY UnitCoordinates, TurnedAt
<1>2. ASSUME NEW i \in 1 .. 4
      PROVE  Turned(Unit(a), k)[i] = Unit(a + k)[i]
  <2> DEFINE U(n) == Unit(n)[i]
             p == Unit(a)
             r == a % 12
  <2>1. Turned(p, k)[i] = (p[1] * U(k) + p[2] * U(k + 1)) + (p[3] * U(k + 2) + p[4] * U(k + 3))
    BY <1>1, TurnedAt
  <2>2. r \in 0 .. 11 /\ k + r \in Int
    OBVIOUS
  <2>3. Unit(a + k) = Unit(k + r)
    <3>1. (a + k) % 12 = (k + r) % 12
      OBVIOUS
    <3> HIDE DEF r
    <3> QED BY <1>1, <2>2, <3>1, UnitModulo
  <2>4. /\ U(k) \in Int /\ U(k + 1) \in Int /\ U(k + 2) \in Int /\ U(k + 3) \in Int
        /\ U(k + 4) = U(k + 2) - U(k)
        /\ U(k + 5) = U(k + 3) - U(k + 1)
        /\ U(k + 6) = 0 - U(k) /\ U(k + 7) = 0 - U(k + 1) /\ U(k + 8) = 0 - U(k + 2) /\ U(k + 9) = 0 - U(k + 3)
        /\ U(k + 10) = 0 - (U(k + 2) - U(k))
        /\ U(k + 11) = 0 - (U(k + 3) - U(k + 1))
    <3>1. \A n \in Int : /\ U(n) \in Int /\ U(n + 6) = 0 - U(n) /\ U(n + 4) = U(n + 2) - U(n)
      BY UnitRules
    <3>2. /\ (k + 1) + 4 = k + 5 /\ (k + 1) + 2 = k + 3 /\ (k + 1) + 6 = k + 7 /\ (k + 2) + 6 = k + 8
          /\ (k + 3) + 6 = k + 9 /\ (k + 4) + 6 = k + 10 /\ (k + 5) + 6 = k + 11
          /\ \A n \in 1 .. 5 : k + n \in Int
      OBVIOUS
    <3>3. /\ U(k + 1) \in Int /\ U((k + 1) + 4) = U((k + 1) + 2) - U(k + 1)
          /\ U((k + 1) + 6) = 0 - U(k + 1)
      BY <3>1, <3>2
    <3>4. U(k + 2) \in Int /\ U((k + 2) + 6) = 0 - U(k + 2)
      BY <3>1, <3>2
    <3>5. U(k + 3) \in Int /\ U((k + 3) + 6) = 0 - U(k + 3)
      BY <3>1, <3>2
    <3>6. U((k + 4) + 6) = 0 - U(k + 4) /\ U((k + 5) + 6) = 0 - U(k + 5)
      BY <3>1, <3>2
    <3>7. U(k) \in Int /\ U(k + 4) = U(k + 2) - U(k) /\ U(k + 6) = 0 - U(k)
      BY <3>1
    <3> HIDE DEF U
    <3> QED BY <3>2, <3>3, <3>4, <3>5, <3>6, <3>7
  <2>5. \A n \in 0 .. 11 : \/ n = 0 \/ n = 1 \/ n = 2 \/ n = 3 \/ n = 4 \/ n = 5
                           \/ n = 6 \/ n = 7 \/ n = 8 \/ n = 9 \/ n = 10 \/ n = 11
    OBVIOUS
  <2>6. Turned(p, k)[i] = U(k + r)
    <3>1. /\ r = 0 => p[1] = 1 /\ p[2] = 0 /\ p[3] = 0 /\ p[4] = 0
          /\ r = 1 => p[1] = 0 /\ p[2] = 1 /\ p[3] = 0 /\ p[4] = 0
          /\ r = 2 => p[1] = 0 /\ p[2] = 0 /\ p[3] = 1 /\ p[4] = 0
          /\ r = 3 => p[1] = 0 /\ p[2] = 0 /\ p[3] = 0 /\ p[4] = 1
          /\ r = 4 => p[1] = -1 /\ p[2] = 0 /\ p[3] = 1 /\ p[4] = 0
          /\ r = 5 => p[1] = 0 /\ p[2] = -1 /\ p[3] = 0 /\ p[4] = 1
          /\ r = 6 => p[1] = -1 /\ p[2] = 0 /\ p[3] = 0 /\ p[4] = 0
          /\ r = 7 => p[1] = 0 /\ p[2] = -1 /\ p[3] = 0 /\ p[4] = 0
          /\ r = 8 => p[1] = 0 /\ p[2] = 0 /\ p[3] = -1 /\ p[4] = 0
          /\ r = 9 => p[1] = 0 /\ p[2] = 0 /\ p[3] = 0 /\ p[4] = -1
          /\ r = 10 => p[1] = 1 /\ p[2] = 0 /\ p[3] = -1 /\ p[4] = 0
          /\ r = 11 => p[1] = 0 /\ p[2] = 1 /\ p[3] = 0 /\ p[4] = -1
      BY UnitCoordinates
    <3>2. k + 0 = k
      OBVIOUS
    <3> HIDE DEF U, p, r
    <3>3. CASE r = 0
      BY <2>1, <2>4, <3>1, <3>2, <3>3
    <3>4. CASE r = 1
      BY <2>1, <2>4, <3>1, <3>2, <3>4
    <3>5. CASE r = 2
      BY <2>1, <2>4, <3>1, <3>2, <3>5
    <3>6. CASE r = 3
      BY <2>1, <2>4, <3>1, <3>2, <3>6
    <3>7. CASE r = 4
      BY <2>1, <2>4, <3>1, <3>2, <3>7
    <3>8. CASE r = 5
      BY <2>1, <2>4, <3>1, <3>2, <3>8
    <3>9. CASE r = 6
      BY <2>1, <2>4, <3>1, <3>2, <3>9
    <3>10. CASE r = 7
      BY <2>1, <2>4, <3>1, <3>2, <3>10
    <3>11. CASE r = 8
      BY <2>1, <2>4, <3>1, <3>2, <3>11
    <3>12. CASE r = 9
      BY <2>1, <2>4, <3>1, <3>2, <3>12
    <3>13. CASE r = 10
      BY <2>1, <2>4, <3>1, <3>2, <3>13
    <3>14. CASE r = 11
      BY <2>1, <2>4, <3>1, <3>2, <3>14
    <3> QED BY <2>2, <2>5, <3>3, <3>4, <3>5, <3>6, <3>7, <3>8, <3>9, <3>10, <3>11, <3>12, <3>13, <3>14
  <2> QED BY <2>3, <2>6
<1> QED BY <1>1, <1>2, EqualPlaces

\* Two turns make one.
LEMMA TurnedTurned ==
  ASSUME NEW p \in Places, NEW a \in Int, NEW b \in Int
  PROVE  Turned(Turned(p, a), b) = Turned(p, a + b)
<1> DEFINE part(j, k) == Times(p[j], Unit(k + j - 1))
<1>1. \A k \in Int : Turned(p, k) = Add(Add(part(1, k), part(2, k)), Add(part(3, k), part(4, k)))
  BY DEF Turned
<1>2. \A j \in 1 .. 4 : /\ part(j, a) \in Places
                        /\ Turned(part(j, a), b) = part(j, a + b)
  <2> TAKE j \in 1 .. 4
  <2>1. p[j] \in Int /\ a + j - 1 \in Int /\ (a + j - 1) + b = (a + b) + j - 1
    BY DEF Places
  <2>2. Unit(a + j - 1) \in Places /\ Turned(Unit(a + j - 1), b) = Unit((a + b) + j - 1)
    <3>1. Turned(Unit(a + j - 1), b) = Unit((a + j - 1) + b)
      BY <2>1, TurnedUnit
    <3> QED BY <2>1, <3>1, UnitCoordinates
  <2>3. Times(p[j], Unit(a + j - 1)) \in Places
    BY <2>1, <2>2, Multiples
  <2>4. Turned(Times(p[j], Unit(a + j - 1)), b) = Times(p[j], Turned(Unit(a + j - 1), b))
    BY <2>1, <2>2, TurnedMultiple
  <2> QED BY <2>2, <2>3, <2>4
<1>3. 1 \in 1 .. 4 /\ 2 \in 1 .. 4 /\ 3 \in 1 .. 4 /\ 4 \in 1 .. 4 /\ a + b \in Int
  OBVIOUS
<1> HIDE DEF part
<1>4. /\ part(1, a) \in Places /\ part(2, a) \in Places
      /\ part(3, a) \in Places /\ part(4, a) \in Places
  BY <1>2, <1>3
<1>5. /\ Add(part(1, a), part(2, a)) \in Places
      /\ Add(part(3, a), part(4, a)) \in Places
      /\ Turned(Add(part(1, a), part(2, a)), b) = Add(part(1, a + b), part(2, a + b))
      /\ Turned(Add(part(3, a), part(4, a)), b) = Add(part(3, a + b), part(4, a + b))
  BY <1>2, <1>3, <1>4, Sums, TurnedSum
<1>6. Turned(Turned(p, a), b) = Add(Turned(Add(part(1, a), part(2, a)), b),
                                    Turned(Add(part(3, a), part(4, a)), b))
  BY <1>1, <1>5, TurnedSum
<1> QED BY <1>1, <1>3, <1>5, <1>6

\* No turn leaves a place where it is.
LEMMA NotTurned ==
  ASSUME NEW p \in Places
  PROVE  Turned(p, 0) = p
<1>1. Turned(p, 0) \in Places
  BY TurnedAt
<1>2. ASSUME NEW i \in 1 .. 4 PROVE Turned(p, 0)[i] = p[i]
  <2>1. p[1] \in Int /\ p[2] \in Int /\ p[3] \in Int /\ p[4] \in Int
    BY DEF Places
  <2>2. Turned(p, 0)[i] = (p[1] * Unit(0)[i] + p[2] * Unit(0 + 1)[i])
                            + (p[3] * Unit(0 + 2)[i] + p[4] * Unit(0 + 3)[i])
    <3>1. 0 \in Int
      OBVIOUS
    <3>2. \A j \in 1 .. 4 : Turned(p, 0)[j] =
            (p[1] * Unit(0)[j] + p[2] * Unit(0 + 1)[j]) + (p[3] * Unit(0 + 2)[j] + p[4] * Unit(0 + 3)[j])
      BY <3>1, TurnedAt
    <3> QED BY <3>2
  <2>3. /\ Unit(0)[1] = 1 /\ Unit(0)[2] = 0 /\ Unit(0)[3] = 0 /\ Unit(0)[4] = 0
        /\ Unit(1)[1] = 0 /\ Unit(1)[2] = 1 /\ Unit(1)[3] = 0 /\ Unit(1)[4] = 0
        /\ Unit(2)[1] = 0 /\ Unit(2)[2] = 0 /\ Unit(2)[3] = 1 /\ Unit(2)[4] = 0
        /\ Unit(3)[1] = 0 /\ Unit(3)[2] = 0 /\ Unit(3)[3] = 0 /\ Unit(3)[4] = 1
    BY UnitCoordinates
  <2>4. i = 1 \/ i = 2 \/ i = 3 \/ i = 4
    OBVIOUS
  <2>5. 0 + 1 = 1 /\ 0 + 2 = 2 /\ 0 + 3 = 3
    OBVIOUS
  <2> QED BY <2>1, <2>2, <2>3, <2>4, <2>5
<1> QED BY <1>1, <1>2, EqualPlaces

\* The coordinates of a mirrored place.
LEMMA ConjugateAt ==
  ASSUME NEW p \in Places
  PROVE  /\ Conjugate(p) \in Places
         /\ Conjugate(p)[1] = p[1] + p[3] /\ Conjugate(p)[2] = p[2]
         /\ Conjugate(p)[3] = 0 - p[3] /\ Conjugate(p)[4] = 0 - (p[2] + p[4])
<1>1. p[1] \in Int /\ p[2] \in Int /\ p[3] \in Int /\ p[4] \in Int
  BY DEF Places
<1>2. /\ Unit(0) \in Places /\ Unit(9) \in Places /\ Unit(10) \in Places /\ Unit(11) \in Places
  BY UnitCoordinates
<1>3. /\ Unit(0)[1] = 1 /\ Unit(0)[2] = 0 /\ Unit(0)[3] = 0 /\ Unit(0)[4] = 0
      /\ Unit(11)[1] = 0 /\ Unit(11)[2] = 1 /\ Unit(11)[3] = 0 /\ Unit(11)[4] = -1
      /\ Unit(10)[1] = 1 /\ Unit(10)[2] = 0 /\ Unit(10)[3] = -1 /\ Unit(10)[4] = 0
      /\ Unit(9)[1] = 0 /\ Unit(9)[2] = 0 /\ Unit(9)[3] = 0 /\ Unit(9)[4] = -1
  BY UnitCoordinates
<1> DEFINE a == Times(p[1], Unit(0))
           b == Times(p[2], Unit(11))
           c == Times(p[3], Unit(10))
           d == Times(p[4], Unit(9))
<1>4. /\ a \in Places /\ \A i \in 1 .. 4 : a[i] = p[1] * Unit(0)[i]
      /\ b \in Places /\ \A i \in 1 .. 4 : b[i] = p[2] * Unit(11)[i]
      /\ c \in Places /\ \A i \in 1 .. 4 : c[i] = p[3] * Unit(10)[i]
      /\ d \in Places /\ \A i \in 1 .. 4 : d[i] = p[4] * Unit(9)[i]
  BY <1>1, <1>2, Multiples
<1>5. Conjugate(p) = Add(a, Add(b, Add(c, d)))
  BY DEF Conjugate
<1> HIDE DEF a, b, c, d
<1>6. Add(c, d) \in Places /\ \A i \in 1 .. 4 : Add(c, d)[i] = c[i] + d[i]
  BY <1>4, Sums
<1>7. Add(b, Add(c, d)) \in Places /\ \A i \in 1 .. 4 : Add(b, Add(c, d))[i] = b[i] + Add(c, d)[i]
  BY <1>4, <1>6, Sums
<1>8. Conjugate(p) \in Places /\ \A i \in 1 .. 4 : Conjugate(p)[i] = a[i] + (b[i] + (c[i] + d[i]))
  BY <1>4, <1>5, <1>6, <1>7, Sums
<1>9. 1 \in 1 .. 4 /\ 2 \in 1 .. 4 /\ 3 \in 1 .. 4 /\ 4 \in 1 .. 4
  OBVIOUS
<1>10. /\ a[1] = p[1] /\ b[1] = 0 /\ c[1] = p[3] /\ d[1] = 0
       /\ a[2] = 0 /\ b[2] = p[2] /\ c[2] = 0 /\ d[2] = 0
       /\ a[3] = 0 /\ b[3] = 0 /\ c[3] = -p[3] /\ d[3] = 0
       /\ a[4] = 0 /\ b[4] = -p[2] /\ c[4] = 0 /\ d[4] = -p[4]
  BY <1>1, <1>3, <1>4, <1>9
<1> QED BY <1>1, <1>8, <1>9, <1>10

\* The mirror takes a direction to the opposite turn.
LEMMA ConjugateUnit ==
  ASSUME NEW k \in Int
  PROVE  Conjugate(Unit(k)) = Unit(-k)
<1>1. Unit(k) \in Places /\ Unit(-k) \in Places /\ -k \in Int
  BY UnitCoordinates
<1> DEFINE u == Unit(k)
           v == Unit(-k)
           c == Conjugate(u)
           r == k % 12
           s == (-k) % 12
<1>2. c \in Places /\ c[1] = u[1] + u[3] /\ c[2] = u[2] /\ c[3] = 0 - u[3] /\ c[4] = 0 - (u[2] + u[4])
  BY <1>1, ConjugateAt
<1>9. u[1] \in Int /\ u[2] \in Int /\ u[3] \in Int /\ u[4] \in Int
  BY <1>1 DEF Places
<1>3. r \in 0 .. 11 /\ s = IF r = 0 THEN 0 ELSE 12 - r
  OBVIOUS
<1>4. \A n \in 0 .. 11 : \/ n = 0 \/ n = 1 \/ n = 2 \/ n = 3 \/ n = 4 \/ n = 5
                         \/ n = 6 \/ n = 7 \/ n = 8 \/ n = 9 \/ n = 10 \/ n = 11
  OBVIOUS
<1> DEFINE is(p, w, x, y, z) == p[1] = w /\ p[2] = x /\ p[3] = y /\ p[4] = z
<1>5. \A n \in {k, -k} :
        /\ n % 12 = 0 => is(Unit(n), 1, 0, 0, 0)
        /\ n % 12 = 1 => is(Unit(n), 0, 1, 0, 0)
        /\ n % 12 = 2 => is(Unit(n), 0, 0, 1, 0)
        /\ n % 12 = 3 => is(Unit(n), 0, 0, 0, 1)
        /\ n % 12 = 4 => is(Unit(n), -1, 0, 1, 0)
        /\ n % 12 = 5 => is(Unit(n), 0, -1, 0, 1)
        /\ n % 12 = 6 => is(Unit(n), -1, 0, 0, 0)
        /\ n % 12 = 7 => is(Unit(n), 0, -1, 0, 0)
        /\ n % 12 = 8 => is(Unit(n), 0, 0, -1, 0)
        /\ n % 12 = 9 => is(Unit(n), 0, 0, 0, -1)
        /\ n % 12 = 10 => is(Unit(n), 1, 0, -1, 0)
        /\ n % 12 = 11 => is(Unit(n), 0, 1, 0, -1)
  BY <1>1, UnitCoordinates
<1>6. c[1] = v[1] /\ c[2] = v[2] /\ c[3] = v[3] /\ c[4] = v[4]
  <2>1. \/ r = 0 \/ r = 1 \/ r = 2 \/ r = 3 \/ r = 4 \/ r = 5
        \/ r = 6 \/ r = 7 \/ r = 8 \/ r = 9 \/ r = 10 \/ r = 11
    BY <1>3, <1>4
  <2>2. /\ s = IF r = 0 THEN 0 ELSE 12 - r
    BY <1>3
  <2> HIDE DEF r, s, u, v, c
  <2>3. CASE r = 0
    <3>1. s = 0
      BY <2>2, <2>3
    <3>2. u[1] = 1 /\ u[2] = 0 /\ u[3] = 0 /\ u[4] = 0 /\ v[1] = 1 /\ v[2] = 0 /\ v[3] = 0 /\ v[4] = 0
      BY <1>5, <2>3, <3>1 DEF r, s, u, v
    <3> QED BY <1>2, <1>9, <3>2
  <2>4. CASE r = 1
    <3>1. s = 11
      BY <2>2, <2>4
    <3>2. u[1] = 0 /\ u[2] = 1 /\ u[3] = 0 /\ u[4] = 0 /\ v[1] = 0 /\ v[2] = 1 /\ v[3] = 0 /\ v[4] = -1
      BY <1>5, <2>4, <3>1 DEF r, s, u, v
    <3> QED BY <1>2, <1>9, <3>2
  <2>5. CASE r = 2
    <3>1. s = 10
      BY <2>2, <2>5
    <3>2. u[1] = 0 /\ u[2] = 0 /\ u[3] = 1 /\ u[4] = 0 /\ v[1] = 1 /\ v[2] = 0 /\ v[3] = -1 /\ v[4] = 0
      BY <1>5, <2>5, <3>1 DEF r, s, u, v
    <3> QED BY <1>2, <1>9, <3>2
  <2>6. CASE r = 3
    <3>1. s = 9
      BY <2>2, <2>6
    <3>2. u[1] = 0 /\ u[2] = 0 /\ u[3] = 0 /\ u[4] = 1 /\ v[1] = 0 /\ v[2] = 0 /\ v[3] = 0 /\ v[4] = -1
      BY <1>5, <2>6, <3>1 DEF r, s, u, v
    <3> QED BY <1>2, <1>9, <3>2
  <2>7. CASE r = 4
    <3>1. s = 8
      BY <2>2, <2>7
    <3>2. u[1] = -1 /\ u[2] = 0 /\ u[3] = 1 /\ u[4] = 0 /\ v[1] = 0 /\ v[2] = 0 /\ v[3] = -1 /\ v[4] = 0
      BY <1>5, <2>7, <3>1 DEF r, s, u, v
    <3> QED BY <1>2, <1>9, <3>2
  <2>8. CASE r = 5
    <3>1. s = 7
      BY <2>2, <2>8
    <3>2. u[1] = 0 /\ u[2] = -1 /\ u[3] = 0 /\ u[4] = 1 /\ v[1] = 0 /\ v[2] = -1 /\ v[3] = 0 /\ v[4] = 0
      BY <1>5, <2>8, <3>1 DEF r, s, u, v
    <3> QED BY <1>2, <1>9, <3>2
  <2>9. CASE r = 6
    <3>1. s = 6
      BY <2>2, <2>9
    <3>2. u[1] = -1 /\ u[2] = 0 /\ u[3] = 0 /\ u[4] = 0 /\ v[1] = -1 /\ v[2] = 0 /\ v[3] = 0 /\ v[4] = 0
      BY <1>5, <2>9, <3>1 DEF r, s, u, v
    <3> QED BY <1>2, <1>9, <3>2
  <2>10. CASE r = 7
    <3>1. s = 5
      BY <2>2, <2>10
    <3>2. u[1] = 0 /\ u[2] = -1 /\ u[3] = 0 /\ u[4] = 0 /\ v[1] = 0 /\ v[2] = -1 /\ v[3] = 0 /\ v[4] = 1
      BY <1>5, <2>10, <3>1 DEF r, s, u, v
    <3> QED BY <1>2, <1>9, <3>2
  <2>11. CASE r = 8
    <3>1. s = 4
      BY <2>2, <2>11
    <3>2. u[1] = 0 /\ u[2] = 0 /\ u[3] = -1 /\ u[4] = 0 /\ v[1] = -1 /\ v[2] = 0 /\ v[3] = 1 /\ v[4] = 0
      BY <1>5, <2>11, <3>1 DEF r, s, u, v
    <3> QED BY <1>2, <1>9, <3>2
  <2>12. CASE r = 9
    <3>1. s = 3
      BY <2>2, <2>12
    <3>2. u[1] = 0 /\ u[2] = 0 /\ u[3] = 0 /\ u[4] = -1 /\ v[1] = 0 /\ v[2] = 0 /\ v[3] = 0 /\ v[4] = 1
      BY <1>5, <2>12, <3>1 DEF r, s, u, v
    <3> QED BY <1>2, <1>9, <3>2
  <2>13. CASE r = 10
    <3>1. s = 2
      BY <2>2, <2>13
    <3>2. u[1] = 1 /\ u[2] = 0 /\ u[3] = -1 /\ u[4] = 0 /\ v[1] = 0 /\ v[2] = 0 /\ v[3] = 1 /\ v[4] = 0
      BY <1>5, <2>13, <3>1 DEF r, s, u, v
    <3> QED BY <1>2, <1>9, <3>2
  <2>14. CASE r = 11
    <3>1. s = 1
      BY <2>2, <2>14
    <3>2. u[1] = 0 /\ u[2] = 1 /\ u[3] = 0 /\ u[4] = -1 /\ v[1] = 0 /\ v[2] = 1 /\ v[3] = 0 /\ v[4] = 0
      BY <1>5, <2>14, <3>1 DEF r, s, u, v
    <3> QED BY <1>2, <1>9, <3>2
  <2> QED BY <2>1, <2>3, <2>4, <2>5, <2>6, <2>7, <2>8, <2>9, <2>10, <2>11, <2>12, <2>13, <2>14
<1>7. \A i \in 1 .. 4 : i = 1 \/ i = 2 \/ i = 3 \/ i = 4
  OBVIOUS
<1>8. \A i \in 1 .. 4 : c[i] = v[i]
  BY <1>6, <1>7
<1> QED BY <1>1, <1>2, <1>8, EqualPlaces

-----------------------------------------------------------------------------
(* Mirrored places *)

\* Coordinates are whole numbers.
LEMMA PartsOfPlaces ==
  ASSUME NEW p \in Places
  PROVE  /\ p[1] \in Int /\ p[2] \in Int /\ p[3] \in Int /\ p[4] \in Int
         /\ \A i \in 1 .. 4 : p[i] \in Int
BY DEF Places

\* To mirror a sum is to add what was mirrored.
LEMMA ConjugateSum ==
  ASSUME NEW p \in Places, NEW q \in Places
  PROVE  Conjugate(Add(p, q)) = Add(Conjugate(p), Conjugate(q))
<1> DEFINE s == Add(p, q)
           a == Conjugate(p)
           b == Conjugate(q)
           c == Conjugate(s)
           d == Add(a, b)
<1>1. s \in Places /\ \A i \in 1 .. 4 : s[i] = p[i] + q[i]
  BY Sums
<1>2. /\ a \in Places
      /\ a[1] = p[1] + p[3] /\ a[2] = p[2] /\ a[3] = 0 - p[3] /\ a[4] = 0 - (p[2] + p[4])
  BY ConjugateAt
<1>3. /\ b \in Places
      /\ b[1] = q[1] + q[3] /\ b[2] = q[2] /\ b[3] = 0 - q[3] /\ b[4] = 0 - (q[2] + q[4])
  BY ConjugateAt
<1>4. /\ c \in Places
      /\ c[1] = s[1] + s[3] /\ c[2] = s[2] /\ c[3] = 0 - s[3] /\ c[4] = 0 - (s[2] + s[4])
  BY <1>1, ConjugateAt
<1>5. d \in Places /\ \A i \in 1 .. 4 : d[i] = a[i] + b[i]
  BY <1>2, <1>3, Sums
<1>6. /\ p[1] \in Int /\ p[2] \in Int /\ p[3] \in Int /\ p[4] \in Int
      /\ q[1] \in Int /\ q[2] \in Int /\ q[3] \in Int /\ q[4] \in Int
  BY PartsOfPlaces
<1>7. /\ s[1] = p[1] + q[1] /\ s[2] = p[2] + q[2] /\ s[3] = p[3] + q[3] /\ s[4] = p[4] + q[4]
      /\ d[1] = a[1] + b[1] /\ d[2] = a[2] + b[2] /\ d[3] = a[3] + b[3] /\ d[4] = a[4] + b[4]
  <2>1. 1 \in 1 .. 4 /\ 2 \in 1 .. 4 /\ 3 \in 1 .. 4 /\ 4 \in 1 .. 4
    OBVIOUS
  <2> HIDE DEF s, d
  <2> QED BY <1>1, <1>5, <2>1
<1> HIDE DEF s, a, b, c, d
<1>8. c[1] = d[1] /\ c[2] = d[2] /\ c[3] = d[3] /\ c[4] = d[4]
  BY <1>2, <1>3, <1>4, <1>6, <1>7
<1>9. \A i \in 1 .. 4 : c[i] = d[i]
  <2>1. \A i \in 1 .. 4 : i = 1 \/ i = 2 \/ i = 3 \/ i = 4
    OBVIOUS
  <2> QED BY <1>8, <2>1
<1>10. c = d
  BY <1>4, <1>5, <1>9, EqualPlaces
<1> QED BY <1>10 DEF c, d, a, b, s

\* To mirror a multiple is to multiply what was mirrored.
LEMMA ConjugateMultiple ==
  ASSUME NEW p \in Places, NEW n \in Int
  PROVE  Conjugate(Times(n, p)) = Times(n, Conjugate(p))
<1> DEFINE s == Times(n, p)
           a == Conjugate(p)
           c == Conjugate(s)
           d == Times(n, a)
<1>1. s \in Places /\ \A i \in 1 .. 4 : s[i] = n * p[i]
  BY Multiples
<1>2. /\ a \in Places
      /\ a[1] = p[1] + p[3] /\ a[2] = p[2] /\ a[3] = 0 - p[3] /\ a[4] = 0 - (p[2] + p[4])
  BY ConjugateAt
<1>4. /\ c \in Places
      /\ c[1] = s[1] + s[3] /\ c[2] = s[2] /\ c[3] = 0 - s[3] /\ c[4] = 0 - (s[2] + s[4])
  BY <1>1, ConjugateAt
<1>5. d \in Places /\ \A i \in 1 .. 4 : d[i] = n * a[i]
  BY <1>2, Multiples
<1>6. p[1] \in Int /\ p[2] \in Int /\ p[3] \in Int /\ p[4] \in Int
  BY PartsOfPlaces
<1>7. /\ s[1] = n * p[1] /\ s[2] = n * p[2] /\ s[3] = n * p[3] /\ s[4] = n * p[4]
      /\ d[1] = n * a[1] /\ d[2] = n * a[2] /\ d[3] = n * a[3] /\ d[4] = n * a[4]
  <2>1. 1 \in 1 .. 4 /\ 2 \in 1 .. 4 /\ 3 \in 1 .. 4 /\ 4 \in 1 .. 4
    OBVIOUS
  <2> HIDE DEF s, d
  <2> QED BY <1>1, <1>5, <2>1
<1>11. /\ \A x, y \in Int : n * x + n * y = n * (x + y)
       /\ \A x \in Int : 0 - n * x = n * (0 - x)
       /\ \A x, y \in Int : 0 - (n * x + n * y) = n * (0 - (x + y))
  OBVIOUS
<1> HIDE DEF s, a, c, d
<1>8. c[1] = d[1] /\ c[2] = d[2] /\ c[3] = d[3] /\ c[4] = d[4]
  BY <1>2, <1>4, <1>6, <1>7, <1>11
<1>9. \A i \in 1 .. 4 : c[i] = d[i]
  <2>1. \A i \in 1 .. 4 : i = 1 \/ i = 2 \/ i = 3 \/ i = 4
    OBVIOUS
  <2> QED BY <1>8, <2>1
<1>10. c = d
  BY <1>4, <1>5, <1>9, EqualPlaces
<1> QED BY <1>10 DEF c, d, a, s

\* To mirror a difference is to subtract what was mirrored.
LEMMA ConjugateDifference ==
  ASSUME NEW p \in Places, NEW q \in Places
  PROVE  Conjugate(Less(p, q)) = Less(Conjugate(p), Conjugate(q))
<1>1. Times(-1, q) \in Places
  BY Opposites
<1>2. Conjugate(Times(-1, q)) = Times(-1, Conjugate(q))
  BY ConjugateMultiple
<1> QED BY <1>1, <1>2, ConjugateSum DEF Less

\* Mirrored twice, a place is where it was.
LEMMA ConjugateTwice ==
  ASSUME NEW p \in Places
  PROVE  Conjugate(Conjugate(p)) = p
<1> DEFINE a == Conjugate(p)
           c == Conjugate(a)
<1>2. /\ a \in Places
      /\ a[1] = p[1] + p[3] /\ a[2] = p[2] /\ a[3] = 0 - p[3] /\ a[4] = 0 - (p[2] + p[4])
  BY ConjugateAt
<1>4. /\ c \in Places
      /\ c[1] = a[1] + a[3] /\ c[2] = a[2] /\ c[3] = 0 - a[3] /\ c[4] = 0 - (a[2] + a[4])
  BY <1>2, ConjugateAt
<1>6. p[1] \in Int /\ p[2] \in Int /\ p[3] \in Int /\ p[4] \in Int
  BY PartsOfPlaces
<1> HIDE DEF a, c
<1>8. c[1] = p[1] /\ c[2] = p[2] /\ c[3] = p[3] /\ c[4] = p[4]
  BY <1>2, <1>4, <1>6
<1>9. \A i \in 1 .. 4 : c[i] = p[i]
  <2>1. \A i \in 1 .. 4 : i = 1 \/ i = 2 \/ i = 3 \/ i = 4
    OBVIOUS
  <2> QED BY <1>8, <2>1
<1>10. c = p
  BY <1>4, <1>9, EqualPlaces
<1> QED BY <1>10 DEF c, a

\* A sum of four places, in whatever order it is taken.
LEMMA SumOfFour ==
  ASSUME NEW a \in Places, NEW b \in Places, NEW c \in Places, NEW d \in Places
  PROVE  /\ Add(Add(a, b), Add(c, d)) = Add(a, Add(b, Add(c, d)))
         /\ Add(Add(a, b), Add(c, d)) \in Places
<1>1. /\ Add(a, b) \in Places /\ Add(c, d) \in Places
      /\ \A i \in 1 .. 4 : Add(a, b)[i] = a[i] + b[i]
      /\ \A i \in 1 .. 4 : Add(c, d)[i] = c[i] + d[i]
  BY Sums
<1>2. /\ Add(b, Add(c, d)) \in Places
      /\ \A i \in 1 .. 4 : Add(b, Add(c, d))[i] = b[i] + Add(c, d)[i]
  BY <1>1, Sums
<1>3. /\ Add(a, Add(b, Add(c, d))) \in Places
      /\ \A i \in 1 .. 4 : Add(a, Add(b, Add(c, d)))[i] = a[i] + Add(b, Add(c, d))[i]
  BY <1>2, Sums
<1>4. /\ Add(Add(a, b), Add(c, d)) \in Places
      /\ \A i \in 1 .. 4 : Add(Add(a, b), Add(c, d))[i] = Add(a, b)[i] + Add(c, d)[i]
  BY <1>1, Sums
<1>5. ASSUME NEW i \in 1 .. 4
      PROVE  Add(Add(a, b), Add(c, d))[i] = Add(a, Add(b, Add(c, d)))[i]
  <2>1. a[i] \in Int /\ b[i] \in Int /\ c[i] \in Int /\ d[i] \in Int
    BY PartsOfPlaces
  <2>2. /\ Add(Add(a, b), Add(c, d))[i] = (a[i] + b[i]) + (c[i] + d[i])
        /\ Add(a, Add(b, Add(c, d)))[i] = a[i] + (b[i] + (c[i] + d[i]))
    BY <1>1, <1>2, <1>3, <1>4
  <2> QED BY <2>1, <2>2
<1> QED BY <1>3, <1>4, <1>5, EqualPlaces

\* To mirror a turned place is to turn the mirrored one the other way.
LEMMA ConjugateTurned ==
  ASSUME NEW p \in Places, NEW k \in Int
  PROVE  Conjugate(Turned(p, k)) = Turned(Conjugate(p), -k)
<1>1. p[1] \in Int /\ p[2] \in Int /\ p[3] \in Int /\ p[4] \in Int /\ -k \in Int
  BY PartsOfPlaces
<1> DEFINE part(j, e) == Times(p[j], Unit(e))
<1>2. \A j \in 1 .. 4 : \A e \in Int :
        /\ part(j, e) \in Places
        /\ Conjugate(part(j, e)) = part(j, -e)
        /\ Turned(part(j, e), -k) = part(j, e - k)
  <2> TAKE j \in 1 .. 4
  <2> TAKE e \in Int
  <2>1. p[j] \in Int
    BY PartsOfPlaces
  <2>2. Unit(e) \in Places /\ Conjugate(Unit(e)) = Unit(-e)
    BY UnitCoordinates, ConjugateUnit
  <2>3. Turned(Unit(e), -k) = Unit(e - k)
    <3>1. Turned(Unit(e), -k) = Unit(e + (-k))
      BY <1>1, TurnedUnit
    <3>2. e + (-k) = e - k
      OBVIOUS
    <3> QED BY <3>1, <3>2
  <2>4. Times(p[j], Unit(e)) \in Places
    BY <2>1, <2>2, Multiples
  <2>5. Conjugate(Times(p[j], Unit(e))) = Times(p[j], Conjugate(Unit(e)))
    BY <2>1, <2>2, ConjugateMultiple
  <2>6. Turned(Times(p[j], Unit(e)), -k) = Times(p[j], Turned(Unit(e), -k))
    BY <1>1, <2>1, <2>2, TurnedMultiple
  <2> QED BY <2>2, <2>3, <2>4, <2>5, <2>6
<1>3. Turned(p, k) = Add(Add(part(1, k), part(2, k + 1)), Add(part(3, k + 2), part(4, k + 3)))
  <2>1. k + 1 - 1 = k /\ k + 2 - 1 = k + 1 /\ k + 3 - 1 = k + 2 /\ k + 4 - 1 = k + 3
    OBVIOUS
  <2> QED BY <2>1 DEF Turned
<1>4. Conjugate(p) = Add(part(1, 0), Add(part(2, 11), Add(part(3, 10), part(4, 9))))
  BY DEF Conjugate
<1>5. /\ 1 \in 1 .. 4 /\ 2 \in 1 .. 4 /\ 3 \in 1 .. 4 /\ 4 \in 1 .. 4
      /\ k + 1 \in Int /\ k + 2 \in Int /\ k + 3 \in Int
      /\ 0 - k \in Int /\ 11 - k \in Int /\ 10 - k \in Int /\ 9 - k \in Int
      /\ -(k + 1) \in Int /\ -(k + 2) \in Int /\ -(k + 3) \in Int
      /\ 0 \in Int /\ 11 \in Int /\ 10 \in Int /\ 9 \in Int
  OBVIOUS
<1>6. /\ part(2, -(k + 1)) = part(2, 11 - k)
      /\ part(3, -(k + 2)) = part(3, 10 - k)
      /\ part(4, -(k + 3)) = part(4, 9 - k)
      /\ part(1, -k) = part(1, 0 - k)
  <2>1. /\ (-(k + 1)) % 12 = (11 - k) % 12 /\ (-(k + 2)) % 12 = (10 - k) % 12
        /\ (-(k + 3)) % 12 = (9 - k) % 12 /\ -k = 0 - k
    OBVIOUS
  <2>2. /\ Unit(-(k + 1)) = Unit(11 - k) /\ Unit(-(k + 2)) = Unit(10 - k)
        /\ Unit(-(k + 3)) = Unit(9 - k)
    BY <1>5, <2>1, UnitModulo
  <2> QED BY <2>1, <2>2
<1> DEFINE a == part(1, 0 - k)
           b == part(2, 11 - k)
           c == part(3, 10 - k)
           d == part(4, 9 - k)
<1>7. a \in Places /\ b \in Places /\ c \in Places /\ d \in Places
  <2> HIDE DEF part
  <2> QED BY <1>2, <1>5
<1>8. Conjugate(Turned(p, k)) = Add(Add(a, b), Add(c, d))
  <2> HIDE DEF part
  <2>1. /\ part(1, k) \in Places /\ part(2, k + 1) \in Places
        /\ part(3, k + 2) \in Places /\ part(4, k + 3) \in Places
        /\ Conjugate(part(1, k)) = part(1, -k) /\ Conjugate(part(2, k + 1)) = part(2, -(k + 1))
        /\ Conjugate(part(3, k + 2)) = part(3, -(k + 2))
        /\ Conjugate(part(4, k + 3)) = part(4, -(k + 3))
    BY <1>2, <1>5
  <2>2. /\ Add(part(1, k), part(2, k + 1)) \in Places
        /\ Add(part(3, k + 2), part(4, k + 3)) \in Places
    BY <2>1, Sums
  <2>3. Conjugate(Turned(p, k)) = Add(Conjugate(Add(part(1, k), part(2, k + 1))),
                                      Conjugate(Add(part(3, k + 2), part(4, k + 3))))
    BY <1>3, <2>2, ConjugateSum
  <2>4. /\ Conjugate(Add(part(1, k), part(2, k + 1))) = Add(a, b)
        /\ Conjugate(Add(part(3, k + 2), part(4, k + 3))) = Add(c, d)
    <3>1. Conjugate(Add(part(1, k), part(2, k + 1)))
            = Add(Conjugate(part(1, k)), Conjugate(part(2, k + 1)))
      BY <2>1, ConjugateSum
    <3>2. Conjugate(Add(part(3, k + 2), part(4, k + 3)))
            = Add(Conjugate(part(3, k + 2)), Conjugate(part(4, k + 3)))
      BY <2>1, ConjugateSum
    <3> QED BY <1>6, <2>1, <3>1, <3>2
  <2> QED BY <2>3, <2>4
<1>9. Turned(Conjugate(p), -k) = Add(a, Add(b, Add(c, d)))
  <2> HIDE DEF part
  <2>1. /\ part(1, 0) \in Places /\ part(2, 11) \in Places
        /\ part(3, 10) \in Places /\ part(4, 9) \in Places
        /\ Turned(part(1, 0), -k) = a /\ Turned(part(2, 11), -k) = b
        /\ Turned(part(3, 10), -k) = c /\ Turned(part(4, 9), -k) = d
    BY <1>2, <1>5
  <2>2. /\ Add(part(3, 10), part(4, 9)) \in Places
        /\ Turned(Add(part(3, 10), part(4, 9)), -k) = Add(c, d)
    BY <1>1, <2>1, Sums, TurnedSum
  <2>3. /\ Add(part(2, 11), Add(part(3, 10), part(4, 9))) \in Places
        /\ Turned(Add(part(2, 11), Add(part(3, 10), part(4, 9))), -k) = Add(b, Add(c, d))
    <3>1. Turned(Add(part(2, 11), Add(part(3, 10), part(4, 9))), -k)
            = Add(Turned(part(2, 11), -k), Turned(Add(part(3, 10), part(4, 9)), -k))
      BY <1>1, <2>1, <2>2, TurnedSum
    <3> QED BY <2>1, <2>2, <3>1, Sums
  <2>4. Turned(Conjugate(p), -k) = Add(Turned(part(1, 0), -k),
                Turned(Add(part(2, 11), Add(part(3, 10), part(4, 9))), -k))
    BY <1>1, <1>4, <2>1, <2>3, TurnedSum
  <2> QED BY <2>1, <2>3, <2>4
<1> HIDE DEF a, b, c, d
<1> QED BY <1>7, <1>8, <1>9, SumOfFour

-----------------------------------------------------------------------------
(* Poses and steps *)

Pose(z, phi) == [z |-> z, phi |-> phi, round |-> Origin]

\* The origin has no coordinate but 0.
LEMMA OriginIs ==
  /\ Origin \in Places
  /\ \A i \in 1 .. 4 : Origin[i] = 0
BY DEF Origin, Place, Places

\* A heading may be normalized before it is turned on, or after.
LEMMA NormalizedEqual ==
  ASSUME NEW a \in Int, NEW b \in Int
  PROVE  /\ NormalizeTurn(NormalizeTurn(a) + b) = NormalizeTurn(a + b)
         /\ NormalizeTurn(NormalizeTurn(a) - b) = NormalizeTurn(a - b)
         /\ NormalizeTurn(-NormalizeTurn(a)) = NormalizeTurn(-a)
         /\ NormalizeTurn(NormalizeTurn(a)) = NormalizeTurn(a)
         /\ Unit(NormalizeTurn(a) + b) = Unit(a + b)
<1> DEFINE n == NormalizeTurn(a)
<1>1. n \in -6 .. 5 /\ n % 12 = a % 12
  BY NormalizedTurn
<1>2. n \in Int
  BY <1>1
<1> HIDE DEF n
<1>3. /\ (n + b + 6) % 12 = (a + b + 6) % 12
      /\ (n - b + 6) % 12 = (a - b + 6) % 12
      /\ (-n + 6) % 12 = (-a + 6) % 12
      /\ (n + 6) % 12 = (a + 6) % 12
      /\ (n + b) % 12 = (a + b) % 12
  BY <1>1, <1>2
<1>4. n + b \in Int /\ a + b \in Int
  BY <1>2
<1>5. Unit(n + b) = Unit(a + b)
  BY <1>3, <1>4, UnitModulo
<1>6. /\ NormalizeTurn(n + b) = NormalizeTurn(a + b)
      /\ NormalizeTurn(n - b) = NormalizeTurn(a - b)
      /\ NormalizeTurn(-n) = NormalizeTurn(-a)
      /\ NormalizeTurn(n) = NormalizeTurn(a)
  BY <1>3 DEF NormalizeTurn
<1> QED BY <1>5, <1>6 DEF n

\* An arc to the left, from a normalized heading.
LEMMA StepLeft ==
  ASSUME NEW z \in Places, NEW a \in Int, NEW k \in Int
  PROVE  Step(Pose(z, NormalizeTurn(a)), "L", Arc(k))
           = Pose(Add(z, Less(Unit(a + k - 3), Unit(a - 3))), NormalizeTurn(a + k))
<1> DEFINE n == NormalizeTurn(a)
<1>1. n \in Int
  BY NormalizedTurn
<1>2. Step(Pose(z, n), "L", Arc(k))
        = Pose(Add(z, Less(Unit(n + k - 3), Unit(n - 3))), NormalizeTurn(n + k))
  BY DEF Step, Pose, Arc
<1>3. n + k - 3 = n + (k - 3) /\ a + k - 3 = a + (k - 3) /\ n - 3 = n + (-3) /\ a - 3 = a + (-3)
      /\ k - 3 \in Int /\ -3 \in Int
  BY <1>1
<1>4. Unit(n + (k - 3)) = Unit(a + (k - 3)) /\ Unit(n + (-3)) = Unit(a + (-3))
  BY <1>3, NormalizedEqual
<1>5. NormalizeTurn(n + k) = NormalizeTurn(a + k)
  BY NormalizedEqual
<1> HIDE DEF n
<1> QED BY <1>2, <1>3, <1>4, <1>5 DEF n

\* An arc to the right, from a normalized heading.
LEMMA StepRight ==
  ASSUME NEW z \in Places, NEW a \in Int, NEW k \in Int
  PROVE  Step(Pose(z, NormalizeTurn(a)), "R", Arc(k))
           = Pose(Add(z, Less(Unit(a - k + 3), Unit(a + 3))), NormalizeTurn(a - k))
<1> DEFINE n == NormalizeTurn(a)
<1>1. n \in Int
  BY NormalizedTurn
<1>2. Step(Pose(z, n), "R", Arc(k))
        = Pose(Add(z, Less(Unit(n - k + 3), Unit(n + 3))), NormalizeTurn(n - k))
  BY DEF Step, Pose, Arc
<1>3. n - k + 3 = n + (3 - k) /\ a - k + 3 = a + (3 - k) /\ 3 - k \in Int /\ 3 \in Int
  BY <1>1
<1>4. Unit(n + (3 - k)) = Unit(a + (3 - k)) /\ Unit(n + 3) = Unit(a + 3)
  BY <1>3, NormalizedEqual
<1>5. NormalizeTurn(n - k) = NormalizeTurn(a - k)
  BY NormalizedEqual
<1> HIDE DEF n
<1> QED BY <1>2, <1>3, <1>4, <1>5 DEF n

\* A straight line leaves the heading, and adds nothing in round.
LEMMA StepLine ==
  ASSUME NEW z \in Places, NEW a \in Int, NEW m \in Int
  PROVE  Step(Pose(z, NormalizeTurn(a)), "S", Line(m))
           = Pose(Add(z, Times(m, Unit(a))), NormalizeTurn(a))
<1> DEFINE n == NormalizeTurn(a)
<1>1. n \in Int
  BY NormalizedTurn
<1>2. Unit(n) = Unit(a)
  <2>1. n % 12 = a % 12
    BY NormalizedTurn
  <2> QED BY <1>1, <2>1, UnitModulo
<1>3. Step(Pose(z, n), "S", Line(m))
        = [z |-> Add(z, Times(m, Unit(n))), phi |-> n, round |-> Add(Origin, Times(0, Unit(n)))]
  BY DEF Step, Pose, Line
<1>4. Add(Origin, Times(0, Unit(n))) = Origin
  <2> DEFINE t == Times(0, Unit(n))
  <2>1. Unit(n) \in Places /\ \A i \in 1 .. 4 : Unit(n)[i] \in Int
    BY <1>1, UnitCoordinates, PartsOfPlaces
  <2>2. t \in Places /\ \A i \in 1 .. 4 : t[i] = 0 * Unit(n)[i]
    <3>1. 0 \in Int
      OBVIOUS
    <3> QED BY <2>1, <3>1, Multiples
  <2>3. \A i \in 1 .. 4 : t[i] = 0
    BY <2>1, <2>2
  <2> HIDE DEF t
  <2>4. Add(Origin, t) \in Places /\ \A i \in 1 .. 4 : Add(Origin, t)[i] = Origin[i] + t[i]
    BY <2>2, OriginIs, Sums
  <2>5. Origin \in Places /\ \A i \in 1 .. 4 : Add(Origin, t)[i] = Origin[i]
    BY <2>3, <2>4, OriginIs
  <2>6. Add(Origin, t) = Origin
    BY <2>4, <2>5, EqualPlaces
  <2> QED BY <2>6 DEF t
<1> HIDE DEF n
<1>5. Step(Pose(z, n), "S", Line(m)) = Pose(Add(z, Times(m, Unit(a))), n)
  BY <1>2, <1>3, <1>4 DEF Pose
<1> QED BY <1>5 DEF n

\* Words start at the origin, along the x axis.
LEMMA StartIs == Start = Pose(Origin, NormalizeTurn(0))
BY DEF Start, Pose, NormalizeTurn

\* A short word leads from the start along its segments.
LEMMA EndIs ==
  ASSUME NEW w, NEW n \in 1 .. 5, Len(w.types) = n
  PROVE  \E at : /\ at[0] = Start
                 /\ \A i \in 1 .. n : at[i] = Step(at[i-1], w.types[i], w.lengths[i])
                 /\ End(w) = at[n]
<1> DEFINE s1 == Step(Start, w.types[1], w.lengths[1])
           s2 == Step(s1, w.types[2], w.lengths[2])
           s3 == Step(s2, w.types[3], w.lengths[3])
           s4 == Step(s3, w.types[4], w.lengths[4])
           s5 == Step(s4, w.types[5], w.lengths[5])
           fits(f) == f = [i \in 0 .. n |->
                             IF i = 0 THEN Start ELSE Step(f[i-1], w.types[i], w.lengths[i])]
           f0 == [i \in 0 .. n |-> CASE i = 0 -> Start [] i = 1 -> s1 [] i = 2 -> s2
                                     [] i = 3 -> s3 [] i = 4 -> s4 [] i = 5 -> s5]
           at == CHOOSE f : fits(f)
<1>1. End(w) = at[n]
  BY DEF End
<1>2. fits(f0)
  <2> HIDE DEF s1, s2, s3, s4, s5
  <2>1. ASSUME NEW i \in 0 .. n
        PROVE  f0[i] = IF i = 0 THEN Start ELSE Step(f0[i-1], w.types[i], w.lengths[i])
    <3>1. i = 0 \/ i = 1 \/ i = 2 \/ i = 3 \/ i = 4 \/ i = 5
      OBVIOUS
    <3>2. CASE i = 0
      BY <3>2
    <3>3. CASE i = 1
      <4>1. f0[1] = s1 /\ f0[0] = Start /\ 1 - 1 = 0
        BY <3>3
      <4> HIDE DEF f0
      <4> QED BY <3>3, <4>1 DEF s1
    <3>4. CASE i = 2
      <4>1. f0[2] = s2 /\ f0[1] = s1 /\ 2 - 1 = 1
        BY <3>4
      <4> HIDE DEF f0
      <4> QED BY <3>4, <4>1 DEF s2
    <3>5. CASE i = 3
      <4>1. f0[3] = s3 /\ f0[2] = s2 /\ 3 - 1 = 2
        BY <3>5
      <4> HIDE DEF f0
      <4> QED BY <3>5, <4>1 DEF s3
    <3>6. CASE i = 4
      <4>1. f0[4] = s4 /\ f0[3] = s3 /\ 4 - 1 = 3
        BY <3>6
      <4> HIDE DEF f0
      <4> QED BY <3>6, <4>1 DEF s4
    <3>7. CASE i = 5
      <4>1. f0[5] = s5 /\ f0[4] = s4 /\ 5 - 1 = 4
        BY <3>7
      <4> HIDE DEF f0
      <4> QED BY <3>7, <4>1 DEF s5
    <3> HIDE DEF f0
    <3> QED BY <3>1, <3>2, <3>3, <3>4, <3>5, <3>6, <3>7
  <2> QED BY <2>1
<1>3. fits(at)
  <2> HIDE DEF fits, f0
  <2> QED BY <1>2
<1> HIDE DEF at
<1>4. /\ at[0] = Start
      /\ \A i \in 1 .. n : at[i] = Step(at[i-1], w.types[i], w.lengths[i])
  BY <1>3
<1> QED BY <1>1, <1>4

-----------------------------------------------------------------------------
(* What the ways see *)

\* Between two directions: what an arc adds to a place.
Between(x, y) == Less(Unit(x), Unit(y))

\* What an arc adds, mirrored and driven the other way.
LEMMA BetweenRules ==
  ASSUME NEW x \in Int, NEW y \in Int
  PROVE  /\ Between(x, y) \in Places
         /\ Conjugate(Between(x, y)) = Between(-x, -y)
         /\ Times(-1, Between(x, y)) = Between(x + 6, y + 6)
<1>1. /\ Unit(x) \in Places /\ Unit(y) \in Places /\ x + 6 \in Int /\ y + 6 \in Int
      /\ Unit(x + 6) \in Places /\ Unit(y + 6) \in Places
  BY UnitCoordinates
<1>2. Between(x, y) \in Places /\ \A i \in 1 .. 4 : Between(x, y)[i] = Unit(x)[i] - Unit(y)[i]
  BY <1>1, Differences DEF Between
<1>3. Conjugate(Between(x, y)) = Between(-x, -y)
  BY <1>1, ConjugateDifference, ConjugateUnit DEF Between
<1>4. /\ Between(x + 6, y + 6) \in Places
      /\ \A i \in 1 .. 4 : Between(x + 6, y + 6)[i] = Unit(x + 6)[i] - Unit(y + 6)[i]
  BY <1>1, Differences DEF Between
<1>5. /\ Times(-1, Between(x, y)) \in Places
      /\ \A i \in 1 .. 4 : Times(-1, Between(x, y))[i] = -Between(x, y)[i]
  BY <1>2, Opposites
<1>6. ASSUME NEW i \in 1 .. 4
      PROVE  Times(-1, Between(x, y))[i] = Between(x + 6, y + 6)[i]
  <2>1. /\ Unit(x)[i] \in Int /\ Unit(y)[i] \in Int
        /\ Unit(x + 6)[i] = 0 - Unit(x)[i] /\ Unit(y + 6)[i] = 0 - Unit(y)[i]
    BY UnitRules
  <2>2. Times(-1, Between(x, y))[i] = -(Unit(x)[i] - Unit(y)[i])
    BY <1>2, <1>5
  <2>3. Between(x + 6, y + 6)[i] = (0 - Unit(x)[i]) - (0 - Unit(y)[i])
    BY <1>4, <2>1
  <2> QED BY <2>1, <2>2, <2>3
<1>7. Times(-1, Between(x, y)) = Between(x + 6, y + 6)
  BY <1>4, <1>5, <1>6, EqualPlaces
<1> QED BY <1>2, <1>3, <1>7

\* Arcs a full turn apart add the same.
LEMMA BetweenModulo ==
  ASSUME NEW x \in Int, NEW y \in Int, NEW u \in Int, NEW v \in Int,
         x % 12 = u % 12, y % 12 = v % 12
  PROVE  Between(x, y) = Between(u, v)
BY UnitModulo DEF Between

Seeing == [flip : BOOLEAN, reflect : BOOLEAN]

\* How a way sees a place and a heading.
Seen(way, z) ==
  LET y == IF way.flip = way.reflect THEN z ELSE Conjugate(z)
  IN IF way.flip THEN Times(-1, y) ELSE y

Facing(way, phi) == IF way.flip = way.reflect THEN phi ELSE -phi

\* The opposite of the opposite is the place itself.
LEMMA TimesTwice ==
  ASSUME NEW p \in Places
  PROVE  Times(-1, Times(-1, p)) = p
<1> DEFINE t == Times(-1, p)
<1>1. -1 \in Int /\ t \in Places /\ \A i \in 1 .. 4 : t[i] = -p[i]
  BY Opposites
<1> HIDE DEF t
<1>2. Times(-1, t) \in Places /\ \A i \in 1 .. 4 : Times(-1, t)[i] = -t[i]
  BY <1>1, Opposites
<1>3. ASSUME NEW i \in 1 .. 4 PROVE Times(-1, t)[i] = p[i]
  <2>1. p[i] \in Int
    BY PartsOfPlaces
  <2> QED BY <1>1, <1>2, <2>1
<1>4. Times(-1, t) = p
  BY <1>2, <1>3, EqualPlaces
<1> QED BY <1>4 DEF t

\* The opposite of a sum is the sum of the opposites.
LEMMA OppositeSum ==
  ASSUME NEW p \in Places, NEW q \in Places
  PROVE  Times(-1, Add(p, q)) = Add(Times(-1, p), Times(-1, q))
<1> DEFINE a == Times(-1, p)
           b == Times(-1, q)
           s == Add(p, q)
           t == Times(-1, s)
           c == Add(a, b)
<1>1. /\ a \in Places /\ \A i \in 1 .. 4 : a[i] = -p[i]
      /\ b \in Places /\ \A i \in 1 .. 4 : b[i] = -q[i]
  BY Opposites
<1>2. s \in Places /\ \A i \in 1 .. 4 : s[i] = p[i] + q[i]
  BY Sums
<1>3. t \in Places /\ \A i \in 1 .. 4 : t[i] = -s[i]
  BY <1>2, Opposites
<1>4. c \in Places /\ \A i \in 1 .. 4 : c[i] = a[i] + b[i]
  BY <1>1, Sums
<1> HIDE DEF a, b, s, t, c
<1>5. ASSUME NEW i \in 1 .. 4 PROVE t[i] = c[i]
  <2>1. p[i] \in Int /\ q[i] \in Int
    BY PartsOfPlaces
  <2>2. a[i] = -p[i] /\ b[i] = -q[i] /\ s[i] = p[i] + q[i] /\ t[i] = -s[i] /\ c[i] = a[i] + b[i]
    BY <1>1, <1>2, <1>3, <1>4
  <2> QED BY <2>1, <2>2
<1>6. t = c
  BY <1>3, <1>4, <1>5, EqualPlaces
<1> QED BY <1>6 DEF a, b, s, t, c

\* A way sees sums as sums, and its view of its view is the place itself.
LEMMA SeenRules ==
  ASSUME NEW way \in Seeing, NEW p \in Places, NEW q \in Places, NEW n \in Int
  PROVE  /\ Seen(way, p) \in Places
         /\ Seen(way, Add(p, q)) = Add(Seen(way, p), Seen(way, q))
         /\ Seen(way, Seen(way, p)) = p
<1>1. way.flip \in BOOLEAN /\ way.reflect \in BOOLEAN
  BY DEF Seeing
<1>2. /\ Conjugate(p) \in Places /\ Conjugate(q) \in Places
      /\ Conjugate(Add(p, q)) = Add(Conjugate(p), Conjugate(q))
      /\ Conjugate(Conjugate(p)) = p
  BY ConjugateAt, ConjugateSum, ConjugateTwice
<1>3. /\ \A y \in Places : Times(-1, y) \in Places /\ Times(-1, Times(-1, y)) = y
      /\ \A y, z \in Places : Times(-1, Add(y, z)) = Add(Times(-1, y), Times(-1, z))
      /\ \A y \in Places : Conjugate(Times(-1, y)) = Times(-1, Conjugate(y))
  <2>1. \A y \in Places : Conjugate(Times(-1, y)) = Times(-1, Conjugate(y))
    <3>1. -1 \in Int
      OBVIOUS
    <3> QED BY <3>1, ConjugateMultiple
  <2> QED BY <2>1, Opposites, OppositeSum, TimesTwice
<1>4. Add(p, q) \in Places
  BY Sums
<1>5. Seen(way, p) \in Places
  BY <1>2, <1>3 DEF Seen
<1>6. Seen(way, Add(p, q)) = Add(Seen(way, p), Seen(way, q))
  BY <1>2, <1>3, <1>4 DEF Seen
<1>7. Seen(way, Seen(way, p)) = p
  <2>1. CASE way.flip = way.reflect
    BY <1>2, <1>3, <2>1 DEF Seen
  <2>2. CASE ~(way.flip = way.reflect) /\ way.flip
    <3>1. Seen(way, p) = Times(-1, Conjugate(p))
      BY <2>2 DEF Seen
    <3>2. Seen(way, Seen(way, p)) = Times(-1, Conjugate(Times(-1, Conjugate(p))))
      BY <2>2, <3>1 DEF Seen
    <3> QED BY <1>2, <1>3, <3>2
  <2>3. CASE ~(way.flip = way.reflect) /\ ~way.flip
    BY <1>2, <2>3 DEF Seen
  <2> QED BY <1>1, <2>1, <2>2, <2>3
<1> QED BY <1>5, <1>6, <1>7

\* Each way sees the origin where it is.
LEMMA SeenOrigin ==
  ASSUME NEW way \in Seeing
  PROVE  Seen(way, Origin) = Origin
<1>1. Times(-1, Origin) = Origin
  BY DEF Times, Origin, Place
<1>2. Conjugate(Origin) = Origin
  <2> DEFINE c == Conjugate(Origin)
  <2>1. /\ c \in Places /\ c[1] = Origin[1] + Origin[3] /\ c[2] = Origin[2]
        /\ c[3] = 0 - Origin[3] /\ c[4] = 0 - (Origin[2] + Origin[4])
    BY OriginIs, ConjugateAt
  <2>2. Origin[1] = 0 /\ Origin[2] = 0 /\ Origin[3] = 0 /\ Origin[4] = 0
    BY DEF Origin, Place
  <2> HIDE DEF c
  <2>3. c[1] = 0 /\ c[2] = 0 /\ c[3] = 0 /\ c[4] = 0
    BY <2>1, <2>2
  <2>4. \A i \in 1 .. 4 : i = 1 \/ i = 2 \/ i = 3 \/ i = 4
    OBVIOUS
  <2>5. \A i \in 1 .. 4 : c[i] = Origin[i]
    BY <2>3, <2>4, OriginIs
  <2>6. c = Origin
    BY <2>1, <2>5, OriginIs, EqualPlaces
  <2> QED BY <2>6 DEF c
<1> QED BY <1>1, <1>2 DEF Seen

-----------------------------------------------------------------------------
(* What the ways make of a segment *)

UsedType(way, type) == IF way.reflect THEN OtherTurn(type) ELSE type
UsedLength(way, l) == IF way.flip THEN Negative(l) ELSE l

\* A line is seen as a line, driven the other way if it is flipped.
LEMMA SeenLine ==
  ASSUME NEW way \in Seeing, NEW a \in Int, NEW m \in Int
  PROVE  Seen(way, Times(m, Unit(a)))
           = Times(IF way.flip THEN -m ELSE m, Unit(Facing(way, a)))
<1>1. way.flip \in BOOLEAN /\ way.reflect \in BOOLEAN
  BY DEF Seeing
<1>2. -a \in Int /\ Unit(a) \in Places /\ Unit(-a) \in Places
  BY UnitCoordinates
<1>3. Conjugate(Times(m, Unit(a))) = Times(m, Unit(-a))
  BY <1>2, ConjugateMultiple, ConjugateUnit
<1>4. ASSUME NEW p \in Places
      PROVE  Times(-1, Times(m, p)) = Times(-m, p)
  <2> DEFINE t == Times(m, p)
             u == Times(-m, p)
             v == Times(-1, t)
  <2>1. t \in Places /\ \A i \in 1 .. 4 : t[i] = m * p[i]
    BY Multiples
  <2>2. u \in Places /\ \A i \in 1 .. 4 : u[i] = (-m) * p[i]
    <3>1. -m \in Int
      OBVIOUS
    <3> QED BY <3>1, Multiples
  <2>3. v \in Places /\ \A i \in 1 .. 4 : v[i] = -t[i]
    BY <2>1, Opposites
  <2> HIDE DEF t, u, v
  <2>4. ASSUME NEW i \in 1 .. 4 PROVE v[i] = u[i]
    <3>1. p[i] \in Int
      BY PartsOfPlaces
    <3>2. \A x \in Int : -(m * x) = (-m) * x
      OBVIOUS
    <3>3. v[i] = -(m * p[i]) /\ u[i] = (-m) * p[i]
      BY <2>1, <2>2, <2>3
    <3> QED BY <3>1, <3>2, <3>3
  <2>5. v = u
    BY <2>2, <2>3, <2>4, EqualPlaces
  <2> QED BY <2>5 DEF t, u, v
<1>5. CASE way.flip = way.reflect
  BY <1>1, <1>2, <1>4, <1>5 DEF Seen, Facing
<1>6. CASE ~(way.flip = way.reflect)
  BY <1>1, <1>2, <1>3, <1>4, <1>6 DEF Seen, Facing
<1> QED BY <1>5, <1>6

\* What an arc adds is seen from the headings that the way sees.
LEMMA SeenBetween ==
  ASSUME NEW way \in Seeing, NEW x \in Int, NEW y \in Int
  PROVE  Seen(way, Between(x, y)) =
           IF way.flip THEN Between(Facing(way, x) + 6, Facing(way, y) + 6)
           ELSE Between(Facing(way, x), Facing(way, y))
<1>1. way.flip \in BOOLEAN /\ way.reflect \in BOOLEAN /\ -x \in Int /\ -y \in Int
  BY DEF Seeing
<1>2. /\ Conjugate(Between(x, y)) = Between(-x, -y)
      /\ Times(-1, Between(x, y)) = Between(x + 6, y + 6)
      /\ Times(-1, Between(-x, -y)) = Between(-x + 6, -y + 6)
  BY <1>1, BetweenRules
<1>3. CASE way.flip = way.reflect
  BY <1>1, <1>2, <1>3 DEF Seen, Facing
<1>4. CASE ~(way.flip = way.reflect)
  BY <1>1, <1>2, <1>4 DEF Seen, Facing
<1> QED BY <1>3, <1>4

\* What a way makes of an arc is an arc.
LEMMA UsedArc ==
  ASSUME NEW way, NEW k \in Int
  PROVE  UsedLength(way, Arc(k)) = Arc(IF way.flip THEN -k ELSE k)
BY DEF UsedLength, Negative, Arc

\* What a way makes of a line is a line.
LEMMA UsedLine ==
  ASSUME NEW way, NEW m \in Int
  PROVE  UsedLength(way, Line(m)) = Line(IF way.flip THEN -m ELSE m)
BY DEF UsedLength, Negative, Line

\* The pose at the end of an arc.
ArcPlace(type, k, z, a) == IF type = "L" THEN Add(z, Between(a + k - 3, a - 3))
                           ELSE Add(z, Between(a - k + 3, a + 3))
ArcHeading(type, k, a) == IF type = "L" THEN a + k ELSE a - k

\* A turn seen by a way is the turn that the way makes of it.
LEMMA SeenTurn ==
  ASSUME NEW way \in Seeing, NEW z \in Places, NEW a \in Int, NEW k \in Int,
         NEW type \in {"L", "R"}
  PROVE  Step(Pose(Seen(way, z), NormalizeTurn(Facing(way, a))), UsedType(way, type),
              UsedLength(way, Arc(k)))
           = Pose(Seen(way, ArcPlace(type, k, z, a)),
                  NormalizeTurn(Facing(way, ArcHeading(type, k, a))))
<1> DEFINE next == ArcPlace(type, k, z, a)
           b == ArcHeading(type, k, a)
<1> DEFINE f == Facing(way, a)
           l == IF way.flip THEN -k ELSE k
           t == UsedType(way, type)
           y == Seen(way, z)
<1>11. \/ type = "L" /\ next = Add(z, Between(a + k - 3, a - 3)) /\ b = a + k
       \/ type = "R" /\ next = Add(z, Between(a - k + 3, a + 3)) /\ b = a - k
  BY DEF ArcPlace, ArcHeading
<1>12. b \in Int
  BY DEF ArcHeading
<1> HIDE DEF next, b
<1>1. way.flip \in BOOLEAN /\ way.reflect \in BOOLEAN
  BY DEF Seeing
<1>2. f \in Int /\ l \in Int /\ t \in {"L", "R"} /\ y \in Places
  BY <1>1, SeenRules DEF UsedType, OtherTurn, Facing
<1>3. UsedLength(way, Arc(k)) = Arc(l)
  BY UsedArc
<1>4. t = "L" => Step(Pose(y, NormalizeTurn(f)), t, Arc(l))
                   = Pose(Add(y, Between(f + l - 3, f - 3)), NormalizeTurn(f + l))
  <2> HIDE DEF f, l, t, y
  <2> QED BY <1>2, StepLeft DEF Between
<1>5. t = "R" => Step(Pose(y, NormalizeTurn(f)), t, Arc(l))
                   = Pose(Add(y, Between(f - l + 3, f + 3)), NormalizeTurn(f - l))
  <2> HIDE DEF f, l, t, y
  <2> QED BY <1>2, StepRight DEF Between
<1> DEFINE p == IF type = "L" THEN a + k - 3 ELSE a - k + 3
           q == IF type = "L" THEN a - 3 ELSE a + 3
           far == IF way.flip THEN Between(Facing(way, p) + 6, Facing(way, q) + 6)
                  ELSE Between(Facing(way, p), Facing(way, q))
<1>6. Seen(way, next) = Add(y, far)
  <2>1. p \in Int /\ q \in Int
    OBVIOUS
  <2>2. next = Add(z, Between(p, q))
    BY <1>11
  <2> HIDE DEF p, q
  <2>3. Between(p, q) \in Places
    BY <2>1, BetweenRules
  <2>4. Seen(way, Between(p, q)) = far
    BY <2>1, SeenBetween
  <2>5. Seen(way, Add(z, Between(p, q))) = Add(Seen(way, z), Seen(way, Between(p, q)))
    <3>1. 0 \in Int
      OBVIOUS
    <3> QED BY <2>3, <3>1, SeenRules
  <2> QED BY <2>2, <2>4, <2>5
<1>7. t = "L" => far = Between(f + l - 3, f - 3) /\ Facing(way, b) = f + l
  <2> SUFFICES ASSUME t = "L" PROVE far = Between(f + l - 3, f - 3) /\ Facing(way, b) = f + l
    OBVIOUS
  <2>1. CASE ~way.flip /\ ~way.reflect
    <3>1. type = "L"
      BY <2>1 DEF UsedType, OtherTurn
    <3>2. f = a /\ l = k /\ b = a + k /\ p = a + k - 3 /\ q = a - 3
      BY <1>1, <1>11, <2>1, <3>1 DEF Facing
    <3>3. far = Between(p, q) /\ Facing(way, b) = b
      BY <1>1, <2>1 DEF Facing
    <3> HIDE DEF f, l, p, q, far
    <3>4. far = Between((a + k - 3), (a - 3))
      BY <3>2, <3>3
    <3>5. /\ ((a + k - 3)) % 12 = (a + k - 3) % 12
          /\ ((a - 3)) % 12 = (a - 3) % 12
          /\ a + k = a + k
      OBVIOUS
    <3>6. far = Between(a + k - 3, a - 3)
      BY <3>4, <3>5, BetweenModulo
    <3> QED BY <3>2, <3>3, <3>5, <3>6
  <2>2. CASE way.flip /\ ~way.reflect
    <3>1. type = "L"
      BY <2>2 DEF UsedType, OtherTurn
    <3>2. f = -a /\ l = -k /\ b = a + k /\ p = a + k - 3 /\ q = a - 3
      BY <1>1, <1>11, <2>2, <3>1 DEF Facing
    <3>3. far = Between(-p + 6, -q + 6) /\ Facing(way, b) = -b
      BY <2>2 DEF Facing
    <3> HIDE DEF f, l, p, q, far
    <3>4. far = Between(-(a + k - 3) + 6, -(a - 3) + 6)
      BY <3>2, <3>3
    <3>5. /\ (-(a + k - 3) + 6) % 12 = (-a + -k - 3) % 12
          /\ (-(a - 3) + 6) % 12 = (-a - 3) % 12
          /\ -(a + k) = -a + -k
      OBVIOUS
    <3>6. far = Between(-a + -k - 3, -a - 3)
      BY <3>4, <3>5, BetweenModulo
    <3> QED BY <3>2, <3>3, <3>5, <3>6
  <2>3. CASE ~way.flip /\ way.reflect
    <3>1. type = "R"
      BY <2>3 DEF UsedType, OtherTurn
    <3>2. f = -a /\ l = k /\ b = a - k /\ p = a - k + 3 /\ q = a + 3
      BY <1>1, <1>11, <2>3, <3>1 DEF Facing
    <3>3. far = Between(-p, -q) /\ Facing(way, b) = -b
      BY <2>3 DEF Facing
    <3> HIDE DEF f, l, p, q, far
    <3>4. far = Between(-(a - k + 3), -(a + 3))
      BY <3>2, <3>3
    <3>5. /\ (-(a - k + 3)) % 12 = (-a + k - 3) % 12
          /\ (-(a + 3)) % 12 = (-a - 3) % 12
          /\ -(a - k) = -a + k
      OBVIOUS
    <3>6. far = Between(-a + k - 3, -a - 3)
      BY <3>4, <3>5, BetweenModulo
    <3> QED BY <3>2, <3>3, <3>5, <3>6
  <2>4. CASE way.flip /\ way.reflect
    <3>1. type = "R"
      BY <2>4 DEF UsedType, OtherTurn
    <3>2. f = a /\ l = -k /\ b = a - k /\ p = a - k + 3 /\ q = a + 3
      BY <1>1, <1>11, <2>4, <3>1 DEF Facing
    <3>3. far = Between(p + 6, q + 6) /\ Facing(way, b) = b
      BY <2>4 DEF Facing
    <3> HIDE DEF f, l, p, q, far
    <3>4. far = Between((a - k + 3) + 6, (a + 3) + 6)
      BY <3>2, <3>3
    <3>5. /\ ((a - k + 3) + 6) % 12 = (a + -k - 3) % 12
          /\ ((a + 3) + 6) % 12 = (a - 3) % 12
          /\ a - k = a + -k
      OBVIOUS
    <3>6. far = Between(a + -k - 3, a - 3)
      BY <3>4, <3>5, BetweenModulo
    <3> QED BY <3>2, <3>3, <3>5, <3>6
  <2> QED BY <1>1, <2>1, <2>2, <2>3, <2>4
<1>8. t = "R" => far = Between(f - l + 3, f + 3) /\ Facing(way, b) = f - l
  <2> SUFFICES ASSUME t = "R" PROVE far = Between(f - l + 3, f + 3) /\ Facing(way, b) = f - l
    OBVIOUS
  <2>1. CASE ~way.flip /\ ~way.reflect
    <3>1. type = "R"
      BY <2>1 DEF UsedType, OtherTurn
    <3>2. f = a /\ l = k /\ b = a - k /\ p = a - k + 3 /\ q = a + 3
      BY <1>1, <1>11, <2>1, <3>1 DEF Facing
    <3>3. far = Between(p, q) /\ Facing(way, b) = b
      BY <1>1, <2>1 DEF Facing
    <3> HIDE DEF f, l, p, q, far
    <3>4. far = Between((a - k + 3), (a + 3))
      BY <3>2, <3>3
    <3>5. /\ ((a - k + 3)) % 12 = (a - k + 3) % 12
          /\ ((a + 3)) % 12 = (a + 3) % 12
          /\ a - k = a - k
      OBVIOUS
    <3>6. far = Between(a - k + 3, a + 3)
      BY <3>4, <3>5, BetweenModulo
    <3> QED BY <3>2, <3>3, <3>5, <3>6
  <2>2. CASE way.flip /\ ~way.reflect
    <3>1. type = "R"
      BY <2>2 DEF UsedType, OtherTurn
    <3>2. f = -a /\ l = -k /\ b = a - k /\ p = a - k + 3 /\ q = a + 3
      BY <1>1, <1>11, <2>2, <3>1 DEF Facing
    <3>3. far = Between(-p + 6, -q + 6) /\ Facing(way, b) = -b
      BY <2>2 DEF Facing
    <3> HIDE DEF f, l, p, q, far
    <3>4. far = Between(-(a - k + 3) + 6, -(a + 3) + 6)
      BY <3>2, <3>3
    <3>5. /\ (-(a - k + 3) + 6) % 12 = (-a - -k + 3) % 12
          /\ (-(a + 3) + 6) % 12 = (-a + 3) % 12
          /\ -(a - k) = -a - -k
      OBVIOUS
    <3>6. far = Between(-a - -k + 3, -a + 3)
      BY <3>4, <3>5, BetweenModulo
    <3> QED BY <3>2, <3>3, <3>5, <3>6
  <2>3. CASE ~way.flip /\ way.reflect
    <3>1. type = "L"
      BY <2>3 DEF UsedType, OtherTurn
    <3>2. f = -a /\ l = k /\ b = a + k /\ p = a + k - 3 /\ q = a - 3
      BY <1>1, <1>11, <2>3, <3>1 DEF Facing
    <3>3. far = Between(-p, -q) /\ Facing(way, b) = -b
      BY <2>3 DEF Facing
    <3> HIDE DEF f, l, p, q, far
    <3>4. far = Between(-(a + k - 3), -(a - 3))
      BY <3>2, <3>3
    <3>5. /\ (-(a + k - 3)) % 12 = (-a - k + 3) % 12
          /\ (-(a - 3)) % 12 = (-a + 3) % 12
          /\ -(a + k) = -a - k
      OBVIOUS
    <3>6. far = Between(-a - k + 3, -a + 3)
      BY <3>4, <3>5, BetweenModulo
    <3> QED BY <3>2, <3>3, <3>5, <3>6
  <2>4. CASE way.flip /\ way.reflect
    <3>1. type = "L"
      BY <2>4 DEF UsedType, OtherTurn
    <3>2. f = a /\ l = -k /\ b = a + k /\ p = a + k - 3 /\ q = a - 3
      BY <1>1, <1>11, <2>4, <3>1 DEF Facing
    <3>3. far = Between(p + 6, q + 6) /\ Facing(way, b) = b
      BY <2>4 DEF Facing
    <3> HIDE DEF f, l, p, q, far
    <3>4. far = Between((a + k - 3) + 6, (a - 3) + 6)
      BY <3>2, <3>3
    <3>5. /\ ((a + k - 3) + 6) % 12 = (a - -k + 3) % 12
          /\ ((a - 3) + 6) % 12 = (a + 3) % 12
          /\ a + k = a - -k
      OBVIOUS
    <3>6. far = Between(a - -k + 3, a + 3)
      BY <3>4, <3>5, BetweenModulo
    <3> QED BY <3>2, <3>3, <3>5, <3>6
  <2> QED BY <1>1, <2>1, <2>2, <2>3, <2>4
<1> HIDE DEF f, l, t, y, far
<1>9. Step(Pose(y, NormalizeTurn(f)), t, Arc(l)) = Pose(Add(y, far), NormalizeTurn(Facing(way, b)))
  BY <1>2, <1>4, <1>5, <1>7, <1>8
<1>10. Step(Pose(y, NormalizeTurn(f)), t, UsedLength(way, Arc(k)))
         = Pose(Seen(way, next), NormalizeTurn(Facing(way, b)))
  BY <1>3, <1>6, <1>9
<1> QED BY <1>10 DEF y, f, t, next, b

\* A straight line seen by a way is what the way makes of the line.
LEMMA SeenStraight ==
  ASSUME NEW way \in Seeing, NEW z \in Places, NEW a \in Int, NEW m \in Int
  PROVE  Step(Pose(Seen(way, z), NormalizeTurn(Facing(way, a))), UsedType(way, "S"),
              UsedLength(way, Line(m)))
           = Pose(Seen(way, Add(z, Times(m, Unit(a)))), NormalizeTurn(Facing(way, a)))
<1> DEFINE f == Facing(way, a)
           l == IF way.flip THEN -m ELSE m
           y == Seen(way, z)
<1>1. way.flip \in BOOLEAN /\ way.reflect \in BOOLEAN
  BY DEF Seeing
<1>2. f \in Int /\ l \in Int /\ y \in Places
  BY <1>1, SeenRules DEF Facing
<1>3. UsedLength(way, Line(m)) = Line(l) /\ UsedType(way, "S") = "S"
  BY UsedLine DEF UsedType, OtherTurn
<1>4. Unit(a) \in Places /\ Times(m, Unit(a)) \in Places
  BY UnitCoordinates, Multiples
<1>5. Seen(way, Add(z, Times(m, Unit(a)))) = Add(y, Times(l, Unit(f)))
  <2>1. Seen(way, Add(z, Times(m, Unit(a)))) = Add(y, Seen(way, Times(m, Unit(a))))
    BY <1>4, SeenRules
  <2> QED BY <2>1, SeenLine
<1> HIDE DEF f, l, y
<1>6. Step(Pose(y, NormalizeTurn(f)), "S", Line(l))
        = Pose(Add(y, Times(l, Unit(f))), NormalizeTurn(f))
  BY <1>2, StepLine
<1> QED BY <1>3, <1>5, <1>6 DEF f, y

-----------------------------------------------------------------------------
(* What the ways make of a word *)

\* Words of n segments as the families make them: turns and whole lines.
Plain(w, n) ==
  /\ n \in 1 .. 5
  /\ DOMAIN w.types = 1 .. n /\ DOMAIN w.lengths = 1 .. n /\ Len(w.types) = n
  /\ \A i \in 1 .. n :
       \/ w.types[i] = "S" /\ \E m \in Int : w.lengths[i] = Line(m)
       \/ w.types[i] \in {"L", "R"} /\ \E k \in Int : w.lengths[i] = Arc(k)

\* A step of a plain word, and what a way makes of it.
LEMMA StepSeen ==
  ASSUME NEW way \in Seeing, NEW z \in Places, NEW a \in Int, NEW type, NEW l,
         \/ type = "S" /\ \E m \in Int : l = Line(m)
         \/ type \in {"L", "R"} /\ \E k \in Int : l = Arc(k)
  PROVE  \E y \in Places : \E b \in Int :
           /\ Step(Pose(z, NormalizeTurn(a)), type, l) = Pose(y, NormalizeTurn(b))
           /\ Step(Pose(Seen(way, z), NormalizeTurn(Facing(way, a))), UsedType(way, type),
                   UsedLength(way, l))
                = Pose(Seen(way, y), NormalizeTurn(Facing(way, b)))
<1>1. CASE type = "S" /\ \E m \in Int : l = Line(m)
  <2>1. PICK m \in Int : l = Line(m)
    BY <1>1
  <2>2. Unit(a) \in Places /\ Times(m, Unit(a)) \in Places
    BY UnitCoordinates, Multiples
  <2>3. Add(z, Times(m, Unit(a))) \in Places
    BY <2>2, Sums
  <2>4. Step(Pose(z, NormalizeTurn(a)), "S", Line(m))
          = Pose(Add(z, Times(m, Unit(a))), NormalizeTurn(a))
    BY StepLine
  <2>5. Step(Pose(Seen(way, z), NormalizeTurn(Facing(way, a))), UsedType(way, "S"),
             UsedLength(way, Line(m)))
          = Pose(Seen(way, Add(z, Times(m, Unit(a)))), NormalizeTurn(Facing(way, a)))
    BY SeenStraight
  <2> QED BY <1>1, <2>1, <2>3, <2>4, <2>5
<1>2. CASE type \in {"L", "R"} /\ \E k \in Int : l = Arc(k)
  <2>1. PICK k \in Int : l = Arc(k)
    BY <1>2
  <2> DEFINE y == ArcPlace(type, k, z, a)
             b == ArcHeading(type, k, a)
  <2>2. y \in Places /\ b \in Int
    <3>1. a + k - 3 \in Int /\ a - 3 \in Int /\ a - k + 3 \in Int /\ a + 3 \in Int
      OBVIOUS
    <3>2. Between(a + k - 3, a - 3) \in Places /\ Between(a - k + 3, a + 3) \in Places
      BY <3>1, BetweenRules
    <3>3. b \in Int
      BY DEF ArcHeading
    <3>4. /\ Add(z, Between(a + k - 3, a - 3)) \in Places
          /\ Add(z, Between(a - k + 3, a + 3)) \in Places
      BY <3>2, Sums
    <3> QED BY <3>3, <3>4 DEF ArcPlace
  <2>3. Step(Pose(z, NormalizeTurn(a)), type, Arc(k)) = Pose(y, NormalizeTurn(b))
    BY <1>2, StepLeft, StepRight DEF Between, ArcPlace, ArcHeading
  <2>5. Step(Pose(Seen(way, z), NormalizeTurn(Facing(way, a))), UsedType(way, type),
             UsedLength(way, Arc(k)))
          = Pose(Seen(way, y), NormalizeTurn(Facing(way, b)))
    BY <1>2, SeenTurn
  <2> HIDE DEF y, b
  <2> QED BY <2>1, <2>2, <2>3, <2>5
<1> QED BY <1>1, <1>2

\* The segments of a word that a way makes.
LEMMA UsedIs ==
  ASSUME NEW way, NEW w, NEW n, Plain(w, n)
  PROVE  /\ Len(Used(way, w).types) = n
         /\ DOMAIN Used(way, w).types = 1 .. n
         /\ DOMAIN Used(way, w).lengths = 1 .. n
         /\ \A i \in 1 .. n : /\ Used(way, w).types[i] = UsedType(way, w.types[i])
                              /\ Used(way, w).lengths[i] = UsedLength(way, w.lengths[i])
<1>1. n \in Nat /\ DOMAIN w.types = 1 .. n /\ DOMAIN w.lengths = 1 .. n
  BY DEF Plain
<1>2. /\ Used(way, w).types = [i \in 1 .. n |-> UsedType(way, w.types[i])]
      /\ Used(way, w).lengths = [i \in 1 .. n |-> UsedLength(way, w.lengths[i])]
  BY <1>1 DEF Used, Word, UsedType, UsedLength
<1> QED BY <1>1, <1>2

\* What a way makes of a word ends where the way sees the word's end.
LEMMA EndUsed ==
  ASSUME NEW way \in Seeing, NEW w, NEW n, Plain(w, n)
  PROVE  \E z \in Places : \E a \in Int :
           /\ End(w) = Pose(z, NormalizeTurn(a))
           /\ End(Used(way, w)) = Pose(Seen(way, z), NormalizeTurn(Facing(way, a)))
<1>1. /\ n \in 1 .. 5 /\ Len(w.types) = n
      /\ \A i \in 1 .. n :
           \/ w.types[i] = "S" /\ \E m \in Int : w.lengths[i] = Line(m)
           \/ w.types[i] \in {"L", "R"} /\ \E k \in Int : w.lengths[i] = Arc(k)
  BY DEF Plain
<1>2. PICK at : /\ at[0] = Start
                /\ \A i \in 1 .. n : at[i] = Step(at[i-1], w.types[i], w.lengths[i])
                /\ End(w) = at[n]
  BY <1>1, EndIs
<1> DEFINE u == Used(way, w)
<1>3. /\ Len(u.types) = n
      /\ \A i \in 1 .. n : /\ u.types[i] = UsedType(way, w.types[i])
                           /\ u.lengths[i] = UsedLength(way, w.lengths[i])
  BY UsedIs
<1> HIDE DEF u
<1>4. PICK bt : /\ bt[0] = Start
                /\ \A i \in 1 .. n : bt[i] = Step(bt[i-1], u.types[i], u.lengths[i])
                /\ End(u) = bt[n]
  BY <1>1, <1>3, EndIs
<1> DEFINE Seen2(i) == \E z \in Places : \E a \in Int :
                         /\ at[i] = Pose(z, NormalizeTurn(a))
                         /\ bt[i] = Pose(Seen(way, z), NormalizeTurn(Facing(way, a)))
<1>5. Seen2(0)
  <2>1. PICK a \in Int : a % 12 = 0
    <3>1. 0 \in Int /\ 0 % 12 = 0
      OBVIOUS
    <3> QED BY <3>1
  <2>2. NormalizeTurn(a) = 0 /\ NormalizeTurn(-a) = 0
    <3>1. (a + 6) % 12 = 6 /\ (-a + 6) % 12 = 6
      BY <2>1
    <3> QED BY <3>1 DEF NormalizeTurn
  <2>3. Start = Pose(Origin, 0) /\ Origin \in Places
    <3>1. NormalizeTurn(0) = 0
      BY DEF NormalizeTurn
    <3> QED BY <3>1, StartIs, OriginIs
  <2>4. NormalizeTurn(Facing(way, a)) = 0
    BY <2>2 DEF Facing
  <2> QED BY <1>2, <1>4, <2>2, <2>3, <2>4, SeenOrigin
<1>6. ASSUME NEW i \in 1 .. n, Seen2(i - 1)
      PROVE  Seen2(i)
  <2>1. PICK z \in Places, a \in Int :
          /\ at[i-1] = Pose(z, NormalizeTurn(a))
          /\ bt[i-1] = Pose(Seen(way, z), NormalizeTurn(Facing(way, a)))
    BY <1>6
  <2>2. /\ at[i] = Step(at[i-1], w.types[i], w.lengths[i])
        /\ bt[i] = Step(bt[i-1], UsedType(way, w.types[i]), UsedLength(way, w.lengths[i]))
    BY <1>2, <1>3, <1>4
  <2>3. \/ w.types[i] = "S" /\ \E m \in Int : w.lengths[i] = Line(m)
        \/ w.types[i] \in {"L", "R"} /\ \E k \in Int : w.lengths[i] = Arc(k)
    BY <1>1
  <2>4. \E y \in Places : \E b \in Int :
          /\ Step(Pose(z, NormalizeTurn(a)), w.types[i], w.lengths[i]) = Pose(y, NormalizeTurn(b))
          /\ Step(Pose(Seen(way, z), NormalizeTurn(Facing(way, a))), UsedType(way, w.types[i]),
                  UsedLength(way, w.lengths[i]))
               = Pose(Seen(way, y), NormalizeTurn(Facing(way, b)))
    BY <2>3, StepSeen
  <2> QED BY <2>1, <2>2, <2>4
<1>7. Seen2(n)
  <2> HIDE DEF Seen2
  <2>1. \A i \in 1 .. n : Seen2(i - 1) => Seen2(i)
    BY <1>6
  <2>2. Seen2(1)
    <3>1. 1 \in 1 .. n /\ 1 - 1 = 0
      BY <1>1
    <3> QED BY <1>5, <2>1, <3>1
  <2>3. n >= 2 => Seen2(2)
    <3>1. n >= 2 => 2 \in 1 .. n /\ 2 - 1 = 1
      BY <1>1
    <3> QED BY <2>1, <2>2, <3>1
  <2>4. n >= 3 => Seen2(3)
    <3>1. n >= 3 => 3 \in 1 .. n /\ 3 - 1 = 2 /\ n >= 2
      BY <1>1
    <3> QED BY <2>1, <2>3, <3>1
  <2>5. n >= 4 => Seen2(4)
    <3>1. n >= 4 => 4 \in 1 .. n /\ 4 - 1 = 3 /\ n >= 3
      BY <1>1
    <3> QED BY <2>1, <2>4, <3>1
  <2>6. n >= 5 => Seen2(5)
    <3>1. n >= 5 => 5 \in 1 .. n /\ 5 - 1 = 4 /\ n >= 4
      BY <1>1
    <3> QED BY <2>1, <2>5, <3>1
  <2>7. n = 1 \/ n = 2 \/ n = 3 \/ n = 4 \/ n = 5
    BY <1>1
  <2> QED BY <2>2, <2>3, <2>4, <2>5, <2>6, <2>7
<1> QED BY <1>2, <1>4, <1>7 DEF u

\* What a way makes of a word to the mirrored goal leads to the goal.
LEMMA UsedArrives ==
  ASSUME NEW way \in Seeing, NEW g \in Goals, NEW w, NEW n, Plain(w, n),
         LeadsTo(w, Mirrored(way, g))
  PROVE  LeadsTo(Used(way, w), g)
<1>1. g.z \in Places /\ g.phi \in Int
  BY DEF Goals
<1>2. Mirrored(way, g) = [z |-> Seen(way, g.z), phi |-> Facing(way, g.phi)]
  BY DEF Mirrored, Seen, Facing
<1>3. End(w) = Pose(Seen(way, g.z), NormalizeTurn(Facing(way, g.phi)))
  BY <1>2 DEF LeadsTo, Pose
<1>4. PICK z \in Places, a \in Int :
        /\ End(w) = Pose(z, NormalizeTurn(a))
        /\ End(Used(way, w)) = Pose(Seen(way, z), NormalizeTurn(Facing(way, a)))
  BY EndUsed
<1>5. z = Seen(way, g.z) /\ NormalizeTurn(a) = NormalizeTurn(Facing(way, g.phi))
  BY <1>3, <1>4 DEF Pose
<1>6. Seen(way, z) = g.z
  <2>1. 0 \in Int
    OBVIOUS
  <2> QED BY <1>1, <1>5, <2>1, SeenRules
<1>7. NormalizeTurn(Facing(way, a)) = NormalizeTurn(g.phi)
  <2> DEFINE p == g.phi
  <2>1. CASE way.flip = way.reflect
    BY <1>5, <2>1 DEF Facing
  <2>2. CASE ~(way.flip = way.reflect)
    <3>1. NormalizeTurn(a) = NormalizeTurn(-p) /\ Facing(way, a) = -a
      BY <1>5, <2>2 DEF Facing
    <3> HIDE DEF p
    <3>2. p \in Int /\ -p \in Int /\ -(-p) = p
      BY <1>1 DEF p
    <3>3. NormalizeTurn(-NormalizeTurn(a)) = NormalizeTurn(-a)
      BY NormalizedEqual
    <3>4. NormalizeTurn(-NormalizeTurn(-p)) = NormalizeTurn(-(-p))
      BY <3>2, NormalizedEqual
    <3> QED BY <3>1, <3>2, <3>3, <3>4 DEF p
  <2> QED BY <2>1, <2>2
<1> QED BY <1>4, <1>6, <1>7 DEF LeadsTo, Pose

\* The way back of the way back is the way; and it is the same in each mirror.
LEMMA BackwardRules ==
  ASSUME NEW way \in Seeing, NEW g \in Goals
  PROVE  /\ Backward(g) \in Goals /\ Mirrored(way, g) \in Goals
         /\ Backward(Backward(g)) = g
         /\ Mirrored(way, Backward(g)) = Backward(Mirrored(way, g))
<1> DEFINE z == g.z
           p == g.phi
           b == Turned(Conjugate(z), p)
<1>1. z \in Places /\ p \in Int /\ -p \in Int /\ -(-p) = p /\ g = [z |-> z, phi |-> p]
  BY DEF Goals
<1>2. way.flip \in BOOLEAN /\ way.reflect \in BOOLEAN
  BY DEF Seeing
<1>3. /\ Conjugate(z) \in Places /\ b \in Places /\ Conjugate(b) \in Places
      /\ Conjugate(Conjugate(z)) = z
  <2> HIDE DEF z, p
  <2> QED BY <1>1, ConjugateAt, TurnedAt, ConjugateTwice
<1>4. Conjugate(b) = Turned(z, -p)
  <2> HIDE DEF z, p
  <2> QED BY <1>1, <1>3, ConjugateTurned
<1>5. Backward(g) = [z |-> b, phi |-> p]
  BY DEF Backward
<1>6. Backward(g) \in Goals
  BY <1>1, <1>3, <1>5 DEF Goals
<1>7. Backward(Backward(g)) = g
  <2>1. Backward(Backward(g)) = [z |-> Turned(Conjugate(b), p), phi |-> p]
    BY <1>5 DEF Backward
  <2>2. Turned(Turned(z, -p), p) = z
    <3> HIDE DEF z, p
    <3>1. -p + p = 0
      BY <1>1
    <3>2. Turned(Turned(z, -p), p) = Turned(z, -p + p)
      BY <1>1, TurnedTurned
    <3> QED BY <1>1, <3>1, <3>2, NotTurned
  <2> HIDE DEF z, p, b
  <2> QED BY <1>1, <1>4, <2>1, <2>2
<1>8. /\ Mirrored(way, g) = [z |-> Seen(way, z), phi |-> Facing(way, p)]
      /\ Mirrored(way, Backward(g)) = [z |-> Seen(way, b), phi |-> Facing(way, p)]
      /\ Backward(Mirrored(way, g)) = [z |-> Turned(Conjugate(Seen(way, z)), Facing(way, p)),
                                       phi |-> Facing(way, p)]
  <2>1. /\ Mirrored(way, g) = [z |-> Seen(way, z), phi |-> Facing(way, p)]
        /\ Mirrored(way, Backward(g)) = [z |-> Seen(way, b), phi |-> Facing(way, p)]
    BY <1>5 DEF Mirrored, Seen, Facing
  <2> QED BY <2>1 DEF Backward
<1> HIDE DEF z, p, b
<1>9. Mirrored(way, g) \in Goals
  <2>1. Seen(way, z) \in Places /\ Facing(way, p) \in Int
    <3>1. 0 \in Int
      OBVIOUS
    <3> QED BY <1>1, <3>1, SeenRules DEF Facing
  <2> QED BY <1>8, <2>1 DEF Goals
<1>10. Seen(way, b) = Turned(Conjugate(Seen(way, z)), Facing(way, p))
  <2>1. -1 \in Int
    OBVIOUS
  <2>2. CASE way.flip = way.reflect /\ way.flip
    <3>1. /\ Seen(way, b) = Times(-1, b) /\ Seen(way, z) = Times(-1, z) /\ Facing(way, p) = p
      BY <2>2 DEF Seen, Facing
    <3>2. Conjugate(Times(-1, z)) = Times(-1, Conjugate(z))
      BY <1>1, <2>1, ConjugateMultiple
    <3>3. Turned(Times(-1, Conjugate(z)), p) = Times(-1, Turned(Conjugate(z), p))
      BY <1>1, <1>3, <2>1, TurnedMultiple
    <3> QED BY <3>1, <3>2, <3>3 DEF b
  <2>3. CASE way.flip = way.reflect /\ ~way.flip
    BY <2>3 DEF Seen, Facing, b
  <2>4. CASE ~(way.flip = way.reflect) /\ way.flip
    <3>1. /\ Seen(way, b) = Times(-1, Conjugate(b)) /\ Seen(way, z) = Times(-1, Conjugate(z))
          /\ Facing(way, p) = -p
      BY <2>4 DEF Seen, Facing
    <3>2. Conjugate(Times(-1, Conjugate(z))) = Times(-1, z)
      BY <1>3, <2>1, ConjugateMultiple
    <3>3. Turned(Times(-1, z), -p) = Times(-1, Turned(z, -p))
      BY <1>1, <2>1, TurnedMultiple
    <3> QED BY <1>4, <3>1, <3>2, <3>3
  <2>5. CASE ~(way.flip = way.reflect) /\ ~way.flip
    <3>1. Seen(way, b) = Conjugate(b) /\ Seen(way, z) = Conjugate(z) /\ Facing(way, p) = -p
      BY <2>5 DEF Seen, Facing
    <3> QED BY <1>3, <1>4, <3>1
  <2> QED BY <1>2, <2>2, <2>3, <2>4, <2>5
<1> QED BY <1>6, <1>7, <1>8, <1>9, <1>10

-----------------------------------------------------------------------------
(* Where the words of each family lead *)

\* Steps by coordinates.
LEMMA LeftTo ==
  ASSUME NEW z \in Places, NEW a \in Int, NEW k \in Int
  PROVE  \E y \in Places :
           /\ Step(Pose(z, NormalizeTurn(a)), "L", Arc(k)) = Pose(y, NormalizeTurn(a + k))
           /\ \A i \in 1 .. 4 : y[i] = z[i] + (Unit(a + k - 3)[i] - Unit(a - 3)[i])
<1>1. a + k - 3 \in Int /\ a - 3 \in Int
  OBVIOUS
<1>2. Unit(a + k - 3) \in Places /\ Unit(a - 3) \in Places
  BY <1>1, UnitCoordinates
<1> DEFINE d == Less(Unit(a + k - 3), Unit(a - 3))
<1>3. d \in Places /\ \A i \in 1 .. 4 : d[i] = Unit(a + k - 3)[i] - Unit(a - 3)[i]
  BY <1>2, Differences
<1>4. Step(Pose(z, NormalizeTurn(a)), "L", Arc(k)) = Pose(Add(z, d), NormalizeTurn(a + k))
  BY StepLeft
<1> HIDE DEF d
<1>5. Add(z, d) \in Places /\ \A i \in 1 .. 4 : Add(z, d)[i] = z[i] + d[i]
  BY <1>3, Sums
<1> QED BY <1>3, <1>4, <1>5

\* An arc to the right adds the difference of two directions.
LEMMA RightTo ==
  ASSUME NEW z \in Places, NEW a \in Int, NEW k \in Int
  PROVE  \E y \in Places :
           /\ Step(Pose(z, NormalizeTurn(a)), "R", Arc(k)) = Pose(y, NormalizeTurn(a - k))
           /\ \A i \in 1 .. 4 : y[i] = z[i] + (Unit(a - k + 3)[i] - Unit(a + 3)[i])
<1>1. a - k + 3 \in Int /\ a + 3 \in Int
  OBVIOUS
<1>2. Unit(a - k + 3) \in Places /\ Unit(a + 3) \in Places
  BY <1>1, UnitCoordinates
<1> DEFINE d == Less(Unit(a - k + 3), Unit(a + 3))
<1>3. d \in Places /\ \A i \in 1 .. 4 : d[i] = Unit(a - k + 3)[i] - Unit(a + 3)[i]
  BY <1>2, Differences
<1>4. Step(Pose(z, NormalizeTurn(a)), "R", Arc(k)) = Pose(Add(z, d), NormalizeTurn(a - k))
  BY StepRight
<1> HIDE DEF d
<1>5. Add(z, d) \in Places /\ \A i \in 1 .. 4 : Add(z, d)[i] = z[i] + d[i]
  BY <1>3, Sums
<1> QED BY <1>3, <1>4, <1>5

\* A straight line adds a multiple of its direction.
LEMMA StraightTo ==
  ASSUME NEW z \in Places, NEW a \in Int, NEW m \in Int
  PROVE  \E y \in Places :
           /\ Step(Pose(z, NormalizeTurn(a)), "S", Line(m)) = Pose(y, NormalizeTurn(a))
           /\ \A i \in 1 .. 4 : y[i] = z[i] + m * Unit(a)[i]
<1> DEFINE d == Times(m, Unit(a))
<1>1. Unit(a) \in Places
  BY UnitCoordinates
<1>2. d \in Places /\ \A i \in 1 .. 4 : d[i] = m * Unit(a)[i]
  BY <1>1, Multiples
<1>3. Step(Pose(z, NormalizeTurn(a)), "S", Line(m)) = Pose(Add(z, d), NormalizeTurn(a))
  BY StepLine
<1> HIDE DEF d
<1>4. Add(z, d) \in Places /\ \A i \in 1 .. 4 : Add(z, d)[i] = z[i] + d[i]
  BY <1>2, Sums
<1> QED BY <1>2, <1>3, <1>4

\* A word leads to a goal with the coordinates and the heading of its end.
LEMMA Arrived ==
  ASSUME NEW g \in Goals, NEW w, NEW z \in Places, NEW a \in Int,
         End(w) = Pose(z, NormalizeTurn(a)), a % 12 = g.phi % 12,
         \A i \in 1 .. 4 : z[i] = g.z[i]
  PROVE  LeadsTo(w, g)
<1>1. g.z \in Places /\ g.phi \in Int
  BY DEF Goals
<1>2. z = g.z
  BY <1>1, EqualPlaces
<1>3. NormalizeTurn(a) = NormalizeTurn(g.phi)
  <2> DEFINE p == g.phi
  <2>1. p \in Int /\ a % 12 = p % 12
    BY <1>1
  <2> HIDE DEF p
  <2>2. (a + 6) % 12 = (p + 6) % 12
    BY <2>1
  <2> QED BY <2>2 DEF NormalizeTurn, p
<1> QED BY <1>2, <1>3 DEF LeadsTo, Pose

\* The parts of a word.
LEMMA WordIs ==
  ASSUME NEW types, NEW lengths
  PROVE  Word(types, lengths).types = types /\ Word(types, lengths).lengths = lengths
BY DEF Word

\* Where the words of the families lead, by coordinates.
AtSLS(t, u, v, i) ==
  t * Unit(0)[i] + (Unit(u - 3)[i] - Unit(-3)[i]) + v * Unit(u)[i]

SLSLeads(t, u, v) ==
  LET w == Word(<<"S", "L", "S">>,
                  <<Line(t), Arc(u), Line(v)>>)
    IN /\ Plain(w, 3)
       /\ \E z \in Places :
            /\ End(w) = Pose(z, NormalizeTurn(u))
            /\ \A i \in 1 .. 4 : z[i] = AtSLS(t, u, v, i)

\* Where a word of type SLS ends, whatever its lengths are.
LEMMA EndOfSLS ==
  ASSUME NEW t \in Int, NEW u \in Int, NEW v \in Int
  PROVE  SLSLeads(t, u, v)
<1> DEFINE w == Word(<<"S", "L", "S">>, <<Line(t), Arc(u), Line(v)>>)
<1>1. w.types = <<"S", "L", "S">> /\ w.lengths = <<Line(t), Arc(u), Line(v)>>
  BY WordIs
<1>2. Plain(w, 3)
  BY <1>1 DEF Plain
<1>3. PICK at : /\ at[0] = Start
                /\ \A i \in 1 .. 3 : at[i] = Step(at[i-1], w.types[i], w.lengths[i])
                /\ End(w) = at[3]
  BY <1>1, EndIs
<1>4. /\ at[1] = Step(Start, "S", Line(t))
      /\ at[2] = Step(at[1], "L", Arc(u))
      /\ at[3] = Step(at[2], "S", Line(v))
  BY <1>1, <1>3
<1> HIDE DEF w
<1>5. /\ Origin \in Places /\ \A i \in 1 .. 4 : Origin[i] = 0
      /\ Start = Pose(Origin, NormalizeTurn(0))
  BY OriginIs, StartIs
<1>6. PICK z1 \in Places :
        /\ at[1] = Pose(z1, NormalizeTurn(0))
        /\ \A i \in 1 .. 4 : z1[i] = t * Unit(0)[i]
  <2>1. PICK y \in Places :
          /\ Step(Pose(Origin, NormalizeTurn(0)), "S", Line(t)) = Pose(y, NormalizeTurn(0))
          /\ \A i \in 1 .. 4 : y[i] = Origin[i] + t * Unit(0)[i]
    <3>1. 0 \in Int
      OBVIOUS
    <3> QED BY <1>5, <3>1, StraightTo
  <2>2. 0 \in Int
    OBVIOUS
  <2>3. \A i \in 1 .. 4 : Unit(0)[i] \in Int
    <3>1. 0 \in Int
      OBVIOUS
    <3> QED BY <3>1, UnitRules
  <2>4. at[1] = Pose(y, NormalizeTurn(0))
    BY <1>4, <1>5, <2>1, <2>2
  <2>5. \A i \in 1 .. 4 : y[i] = t * Unit(0)[i]
    BY <1>5, <2>1, <2>2, <2>3
  <2> QED BY <2>4, <2>5
<1>7. PICK z2 \in Places :
        /\ at[2] = Pose(z2, NormalizeTurn(u))
        /\ \A i \in 1 .. 4 : z2[i] = z1[i] + (Unit(u - 3)[i] - Unit(-3)[i])
  <2>1. 0 \in Int /\ 0 + u = u /\ 0 + u - 3 = u - 3 /\ 0 - 3 = -3
    OBVIOUS
  <2>2. PICK y \in Places :
          /\ Step(Pose(z1, NormalizeTurn(0)), "L", Arc(u)) = Pose(y, NormalizeTurn(0 + u))
          /\ \A i \in 1 .. 4 : y[i] = z1[i] + (Unit(0 + u - 3)[i] - Unit(0 - 3)[i])
    BY <2>1, LeftTo
  <2>3. at[2] = Pose(y, NormalizeTurn(u))
    BY <1>4, <1>6, <2>1, <2>2
  <2>4. \A i \in 1 .. 4 : y[i] = z1[i] + (Unit(u - 3)[i] - Unit(-3)[i])
    BY <2>1, <2>2
  <2> QED BY <2>3, <2>4
<1>8. PICK z3 \in Places :
        /\ at[3] = Pose(z3, NormalizeTurn(u))
        /\ \A i \in 1 .. 4 : z3[i] = z2[i] + v * Unit(u)[i]
  <2>1. u \in Int
    OBVIOUS
  <2>2. PICK y \in Places :
          /\ Step(Pose(z2, NormalizeTurn(u)), "S", Line(v)) = Pose(y, NormalizeTurn(u))
          /\ \A i \in 1 .. 4 : y[i] = z2[i] + v * Unit(u)[i]
    BY <2>1, StraightTo
  <2>3. at[3] = Pose(y, NormalizeTurn(u))
    BY <1>4, <1>7, <2>2
  <2> QED BY <2>2, <2>3
<1>9. \A i \in 1 .. 4 : z3[i] =
                      t * Unit(0)[i] +
                      (Unit(u - 3)[i] - Unit(-3)[i]) +
                      v * Unit(u)[i]
  BY <1>6, <1>7, <1>8
<1> QED BY <1>2, <1>3, <1>8, <1>9 DEF w, AtSLS, SLSLeads

AtLSL(t, u, v, i) ==
  (Unit(t - 3)[i] - Unit(-3)[i]) + u * Unit(t)[i] + (Unit(t + v - 3)[i] - Unit(t - 3)[i])

LSLLeads(t, u, v) ==
  LET w == Word(<<"L", "S", "L">>,
                  <<Arc(t), Line(u), Arc(v)>>)
    IN /\ Plain(w, 3)
       /\ \E z \in Places :
            /\ End(w) = Pose(z, NormalizeTurn(t + v))
            /\ \A i \in 1 .. 4 : z[i] = AtLSL(t, u, v, i)

\* Where a word of type LSL ends, whatever its lengths are.
LEMMA EndOfLSL ==
  ASSUME NEW t \in Int, NEW u \in Int, NEW v \in Int
  PROVE  LSLLeads(t, u, v)
<1> DEFINE w == Word(<<"L", "S", "L">>, <<Arc(t), Line(u), Arc(v)>>)
<1>1. w.types = <<"L", "S", "L">> /\ w.lengths = <<Arc(t), Line(u), Arc(v)>>
  BY WordIs
<1>2. Plain(w, 3)
  BY <1>1 DEF Plain
<1>3. PICK at : /\ at[0] = Start
                /\ \A i \in 1 .. 3 : at[i] = Step(at[i-1], w.types[i], w.lengths[i])
                /\ End(w) = at[3]
  BY <1>1, EndIs
<1>4. /\ at[1] = Step(Start, "L", Arc(t))
      /\ at[2] = Step(at[1], "S", Line(u))
      /\ at[3] = Step(at[2], "L", Arc(v))
  BY <1>1, <1>3
<1> HIDE DEF w
<1>5. /\ Origin \in Places /\ \A i \in 1 .. 4 : Origin[i] = 0
      /\ Start = Pose(Origin, NormalizeTurn(0))
  BY OriginIs, StartIs
<1>6. PICK z1 \in Places :
        /\ at[1] = Pose(z1, NormalizeTurn(t))
        /\ \A i \in 1 .. 4 : z1[i] = (Unit(t - 3)[i] - Unit(-3)[i])
  <2>1. PICK y \in Places :
          /\ Step(Pose(Origin, NormalizeTurn(0)), "L", Arc(t)) = Pose(y, NormalizeTurn(0 + t))
          /\ \A i \in 1 .. 4 : y[i] = Origin[i] + (Unit(0 + t - 3)[i] - Unit(0 - 3)[i])
    <3>1. 0 \in Int
      OBVIOUS
    <3> QED BY <1>5, <3>1, LeftTo
  <2>2. 0 + t = t /\ 0 + t - 3 = t - 3 /\ 0 - 3 = -3
    OBVIOUS
  <2>3. \A i \in 1 .. 4 : Unit(t - 3)[i] \in Int /\ Unit(-3)[i] \in Int
    <3>1. t - 3 \in Int /\ -3 \in Int
      OBVIOUS
    <3> QED BY <3>1, UnitRules
  <2>4. at[1] = Pose(y, NormalizeTurn(t))
    BY <1>4, <1>5, <2>1, <2>2
  <2>5. \A i \in 1 .. 4 : y[i] = (Unit(t - 3)[i] - Unit(-3)[i])
    BY <1>5, <2>1, <2>2, <2>3
  <2> QED BY <2>4, <2>5
<1>7. PICK z2 \in Places :
        /\ at[2] = Pose(z2, NormalizeTurn(t))
        /\ \A i \in 1 .. 4 : z2[i] = z1[i] + u * Unit(t)[i]
  <2>1. t \in Int
    OBVIOUS
  <2>2. PICK y \in Places :
          /\ Step(Pose(z1, NormalizeTurn(t)), "S", Line(u)) = Pose(y, NormalizeTurn(t))
          /\ \A i \in 1 .. 4 : y[i] = z1[i] + u * Unit(t)[i]
    BY <2>1, StraightTo
  <2>3. at[2] = Pose(y, NormalizeTurn(t))
    BY <1>4, <1>6, <2>2
  <2> QED BY <2>2, <2>3
<1>8. PICK z3 \in Places :
        /\ at[3] = Pose(z3, NormalizeTurn(t + v))
        /\ \A i \in 1 .. 4 : z3[i] = z2[i] + (Unit(t + v - 3)[i] - Unit(t - 3)[i])
  <2>1. t \in Int
    OBVIOUS
  <2>2. PICK y \in Places :
          /\ Step(Pose(z2, NormalizeTurn(t)), "L", Arc(v)) = Pose(y, NormalizeTurn(t + v))
          /\ \A i \in 1 .. 4 : y[i] = z2[i] + (Unit(t + v - 3)[i] - Unit(t - 3)[i])
    BY <2>1, LeftTo
  <2>3. at[3] = Pose(y, NormalizeTurn(t + v))
    BY <1>4, <1>7, <2>2
  <2> QED BY <2>2, <2>3
<1>9. \A i \in 1 .. 4 : z3[i] =
                      (Unit(t - 3)[i] - Unit(-3)[i]) +
                      u * Unit(t)[i] +
                      (Unit(t + v - 3)[i] - Unit(t - 3)[i])
  BY <1>6, <1>7, <1>8
<1> QED BY <1>2, <1>3, <1>8, <1>9 DEF w, AtLSL, LSLLeads

AtLSR(t, u, v, i) ==
  (Unit(t - 3)[i] - Unit(-3)[i]) + u * Unit(t)[i] + (Unit(t - v + 3)[i] - Unit(t + 3)[i])

LSRLeads(t, u, v) ==
  LET w == Word(<<"L", "S", "R">>,
                  <<Arc(t), Line(u), Arc(v)>>)
    IN /\ Plain(w, 3)
       /\ \E z \in Places :
            /\ End(w) = Pose(z, NormalizeTurn(t - v))
            /\ \A i \in 1 .. 4 : z[i] = AtLSR(t, u, v, i)

\* Where a word of type LSR ends, whatever its lengths are.
LEMMA EndOfLSR ==
  ASSUME NEW t \in Int, NEW u \in Int, NEW v \in Int
  PROVE  LSRLeads(t, u, v)
<1> DEFINE w == Word(<<"L", "S", "R">>, <<Arc(t), Line(u), Arc(v)>>)
<1>1. w.types = <<"L", "S", "R">> /\ w.lengths = <<Arc(t), Line(u), Arc(v)>>
  BY WordIs
<1>2. Plain(w, 3)
  BY <1>1 DEF Plain
<1>3. PICK at : /\ at[0] = Start
                /\ \A i \in 1 .. 3 : at[i] = Step(at[i-1], w.types[i], w.lengths[i])
                /\ End(w) = at[3]
  BY <1>1, EndIs
<1>4. /\ at[1] = Step(Start, "L", Arc(t))
      /\ at[2] = Step(at[1], "S", Line(u))
      /\ at[3] = Step(at[2], "R", Arc(v))
  BY <1>1, <1>3
<1> HIDE DEF w
<1>5. /\ Origin \in Places /\ \A i \in 1 .. 4 : Origin[i] = 0
      /\ Start = Pose(Origin, NormalizeTurn(0))
  BY OriginIs, StartIs
<1>6. PICK z1 \in Places :
        /\ at[1] = Pose(z1, NormalizeTurn(t))
        /\ \A i \in 1 .. 4 : z1[i] = (Unit(t - 3)[i] - Unit(-3)[i])
  <2>1. PICK y \in Places :
          /\ Step(Pose(Origin, NormalizeTurn(0)), "L", Arc(t)) = Pose(y, NormalizeTurn(0 + t))
          /\ \A i \in 1 .. 4 : y[i] = Origin[i] + (Unit(0 + t - 3)[i] - Unit(0 - 3)[i])
    <3>1. 0 \in Int
      OBVIOUS
    <3> QED BY <1>5, <3>1, LeftTo
  <2>2. 0 + t = t /\ 0 + t - 3 = t - 3 /\ 0 - 3 = -3
    OBVIOUS
  <2>3. \A i \in 1 .. 4 : Unit(t - 3)[i] \in Int /\ Unit(-3)[i] \in Int
    <3>1. t - 3 \in Int /\ -3 \in Int
      OBVIOUS
    <3> QED BY <3>1, UnitRules
  <2>4. at[1] = Pose(y, NormalizeTurn(t))
    BY <1>4, <1>5, <2>1, <2>2
  <2>5. \A i \in 1 .. 4 : y[i] = (Unit(t - 3)[i] - Unit(-3)[i])
    BY <1>5, <2>1, <2>2, <2>3
  <2> QED BY <2>4, <2>5
<1>7. PICK z2 \in Places :
        /\ at[2] = Pose(z2, NormalizeTurn(t))
        /\ \A i \in 1 .. 4 : z2[i] = z1[i] + u * Unit(t)[i]
  <2>1. t \in Int
    OBVIOUS
  <2>2. PICK y \in Places :
          /\ Step(Pose(z1, NormalizeTurn(t)), "S", Line(u)) = Pose(y, NormalizeTurn(t))
          /\ \A i \in 1 .. 4 : y[i] = z1[i] + u * Unit(t)[i]
    BY <2>1, StraightTo
  <2>3. at[2] = Pose(y, NormalizeTurn(t))
    BY <1>4, <1>6, <2>2
  <2> QED BY <2>2, <2>3
<1>8. PICK z3 \in Places :
        /\ at[3] = Pose(z3, NormalizeTurn(t - v))
        /\ \A i \in 1 .. 4 : z3[i] = z2[i] + (Unit(t - v + 3)[i] - Unit(t + 3)[i])
  <2>1. t \in Int
    OBVIOUS
  <2>2. PICK y \in Places :
          /\ Step(Pose(z2, NormalizeTurn(t)), "R", Arc(v)) = Pose(y, NormalizeTurn(t - v))
          /\ \A i \in 1 .. 4 : y[i] = z2[i] + (Unit(t - v + 3)[i] - Unit(t + 3)[i])
    BY <2>1, RightTo
  <2>3. at[3] = Pose(y, NormalizeTurn(t - v))
    BY <1>4, <1>7, <2>2
  <2> QED BY <2>2, <2>3
<1>9. \A i \in 1 .. 4 : z3[i] =
                      (Unit(t - 3)[i] - Unit(-3)[i]) +
                      u * Unit(t)[i] +
                      (Unit(t - v + 3)[i] - Unit(t + 3)[i])
  BY <1>6, <1>7, <1>8
<1> QED BY <1>2, <1>3, <1>8, <1>9 DEF w, AtLSR, LSRLeads

AtLRL(t, u, v, i) ==
  (Unit(t - 3)[i] - Unit(-3)[i]) + (Unit(t - u + 3)[i] - Unit(t + 3)[i]) + (Unit(t - u + v - 3)[i] - Unit(t - u - 3)[i])

LRLLeads(t, u, v) ==
  LET w == Word(<<"L", "R", "L">>,
                  <<Arc(t), Arc(u), Arc(v)>>)
    IN /\ Plain(w, 3)
       /\ \E z \in Places :
            /\ End(w) = Pose(z, NormalizeTurn(t - u + v))
            /\ \A i \in 1 .. 4 : z[i] = AtLRL(t, u, v, i)

\* Where a word of type LRL ends, whatever its lengths are.
LEMMA EndOfLRL ==
  ASSUME NEW t \in Int, NEW u \in Int, NEW v \in Int
  PROVE  LRLLeads(t, u, v)
<1> DEFINE w == Word(<<"L", "R", "L">>, <<Arc(t), Arc(u), Arc(v)>>)
<1>1. w.types = <<"L", "R", "L">> /\ w.lengths = <<Arc(t), Arc(u), Arc(v)>>
  BY WordIs
<1>2. Plain(w, 3)
  BY <1>1 DEF Plain
<1>3. PICK at : /\ at[0] = Start
                /\ \A i \in 1 .. 3 : at[i] = Step(at[i-1], w.types[i], w.lengths[i])
                /\ End(w) = at[3]
  BY <1>1, EndIs
<1>4. /\ at[1] = Step(Start, "L", Arc(t))
      /\ at[2] = Step(at[1], "R", Arc(u))
      /\ at[3] = Step(at[2], "L", Arc(v))
  BY <1>1, <1>3
<1> HIDE DEF w
<1>5. /\ Origin \in Places /\ \A i \in 1 .. 4 : Origin[i] = 0
      /\ Start = Pose(Origin, NormalizeTurn(0))
  BY OriginIs, StartIs
<1>6. PICK z1 \in Places :
        /\ at[1] = Pose(z1, NormalizeTurn(t))
        /\ \A i \in 1 .. 4 : z1[i] = (Unit(t - 3)[i] - Unit(-3)[i])
  <2>1. PICK y \in Places :
          /\ Step(Pose(Origin, NormalizeTurn(0)), "L", Arc(t)) = Pose(y, NormalizeTurn(0 + t))
          /\ \A i \in 1 .. 4 : y[i] = Origin[i] + (Unit(0 + t - 3)[i] - Unit(0 - 3)[i])
    <3>1. 0 \in Int
      OBVIOUS
    <3> QED BY <1>5, <3>1, LeftTo
  <2>2. 0 + t = t /\ 0 + t - 3 = t - 3 /\ 0 - 3 = -3
    OBVIOUS
  <2>3. \A i \in 1 .. 4 : Unit(t - 3)[i] \in Int /\ Unit(-3)[i] \in Int
    <3>1. t - 3 \in Int /\ -3 \in Int
      OBVIOUS
    <3> QED BY <3>1, UnitRules
  <2>4. at[1] = Pose(y, NormalizeTurn(t))
    BY <1>4, <1>5, <2>1, <2>2
  <2>5. \A i \in 1 .. 4 : y[i] = (Unit(t - 3)[i] - Unit(-3)[i])
    BY <1>5, <2>1, <2>2, <2>3
  <2> QED BY <2>4, <2>5
<1>7. PICK z2 \in Places :
        /\ at[2] = Pose(z2, NormalizeTurn(t - u))
        /\ \A i \in 1 .. 4 : z2[i] = z1[i] + (Unit(t - u + 3)[i] - Unit(t + 3)[i])
  <2>1. t \in Int
    OBVIOUS
  <2>2. PICK y \in Places :
          /\ Step(Pose(z1, NormalizeTurn(t)), "R", Arc(u)) = Pose(y, NormalizeTurn(t - u))
          /\ \A i \in 1 .. 4 : y[i] = z1[i] + (Unit(t - u + 3)[i] - Unit(t + 3)[i])
    BY <2>1, RightTo
  <2>3. at[2] = Pose(y, NormalizeTurn(t - u))
    BY <1>4, <1>6, <2>2
  <2> QED BY <2>2, <2>3
<1>8. PICK z3 \in Places :
        /\ at[3] = Pose(z3, NormalizeTurn(t - u + v))
        /\ \A i \in 1 .. 4 : z3[i] = z2[i] + (Unit(t - u + v - 3)[i] - Unit(t - u - 3)[i])
  <2>1. t - u \in Int
    OBVIOUS
  <2>2. PICK y \in Places :
          /\ Step(Pose(z2, NormalizeTurn(t - u)), "L", Arc(v)) = Pose(y, NormalizeTurn(t - u + v))
          /\ \A i \in 1 .. 4 : y[i] = z2[i] + (Unit(t - u + v - 3)[i] - Unit(t - u - 3)[i])
    BY <2>1, LeftTo
  <2>3. at[3] = Pose(y, NormalizeTurn(t - u + v))
    BY <1>4, <1>7, <2>2
  <2> QED BY <2>2, <2>3
<1>9. \A i \in 1 .. 4 : z3[i] =
                      (Unit(t - 3)[i] - Unit(-3)[i]) +
                      (Unit(t - u + 3)[i] - Unit(t + 3)[i]) +
                      (Unit(t - u + v - 3)[i] - Unit(t - u - 3)[i])
  BY <1>6, <1>7, <1>8
<1> QED BY <1>2, <1>3, <1>8, <1>9 DEF w, AtLRL, LRLLeads

AtLRLR(t, u, n, v, i) ==
  (Unit(t - 3)[i] - Unit(-3)[i]) + (Unit(t - u + 3)[i] - Unit(t + 3)[i]) + (Unit(t - u + n - 3)[i] - Unit(t - u - 3)[i]) + (Unit(t - u + n - v + 3)[i] - Unit(t - u + n + 3)[i])

LRLRLeads(t, u, n, v) ==
  LET w == Word(<<"L", "R", "L", "R">>,
                  <<Arc(t), Arc(u), Arc(n), Arc(v)>>)
    IN /\ Plain(w, 4)
       /\ \E z \in Places :
            /\ End(w) = Pose(z, NormalizeTurn(t - u + n - v))
            /\ \A i \in 1 .. 4 : z[i] = AtLRLR(t, u, n, v, i)

\* Where a word of type LRLR ends, whatever its lengths are.
LEMMA EndOfLRLR ==
  ASSUME NEW t \in Int, NEW u \in Int, NEW n \in Int, NEW v \in Int
  PROVE  LRLRLeads(t, u, n, v)
<1> DEFINE w == Word(<<"L", "R", "L", "R">>, <<Arc(t), Arc(u), Arc(n), Arc(v)>>)
<1>1. w.types = <<"L", "R", "L", "R">> /\ w.lengths = <<Arc(t), Arc(u), Arc(n), Arc(v)>>
  BY WordIs
<1>2. Plain(w, 4)
  BY <1>1 DEF Plain
<1>3. PICK at : /\ at[0] = Start
                /\ \A i \in 1 .. 4 : at[i] = Step(at[i-1], w.types[i], w.lengths[i])
                /\ End(w) = at[4]
  BY <1>1, EndIs
<1>4. /\ at[1] = Step(Start, "L", Arc(t))
      /\ at[2] = Step(at[1], "R", Arc(u))
      /\ at[3] = Step(at[2], "L", Arc(n))
      /\ at[4] = Step(at[3], "R", Arc(v))
  BY <1>1, <1>3
<1> HIDE DEF w
<1>5. /\ Origin \in Places /\ \A i \in 1 .. 4 : Origin[i] = 0
      /\ Start = Pose(Origin, NormalizeTurn(0))
  BY OriginIs, StartIs
<1>6. PICK z1 \in Places :
        /\ at[1] = Pose(z1, NormalizeTurn(t))
        /\ \A i \in 1 .. 4 : z1[i] = (Unit(t - 3)[i] - Unit(-3)[i])
  <2>1. PICK y \in Places :
          /\ Step(Pose(Origin, NormalizeTurn(0)), "L", Arc(t)) = Pose(y, NormalizeTurn(0 + t))
          /\ \A i \in 1 .. 4 : y[i] = Origin[i] + (Unit(0 + t - 3)[i] - Unit(0 - 3)[i])
    <3>1. 0 \in Int
      OBVIOUS
    <3> QED BY <1>5, <3>1, LeftTo
  <2>2. 0 + t = t /\ 0 + t - 3 = t - 3 /\ 0 - 3 = -3
    OBVIOUS
  <2>3. \A i \in 1 .. 4 : Unit(t - 3)[i] \in Int /\ Unit(-3)[i] \in Int
    <3>1. t - 3 \in Int /\ -3 \in Int
      OBVIOUS
    <3> QED BY <3>1, UnitRules
  <2>4. at[1] = Pose(y, NormalizeTurn(t))
    BY <1>4, <1>5, <2>1, <2>2
  <2>5. \A i \in 1 .. 4 : y[i] = (Unit(t - 3)[i] - Unit(-3)[i])
    BY <1>5, <2>1, <2>2, <2>3
  <2> QED BY <2>4, <2>5
<1>7. PICK z2 \in Places :
        /\ at[2] = Pose(z2, NormalizeTurn(t - u))
        /\ \A i \in 1 .. 4 : z2[i] = z1[i] + (Unit(t - u + 3)[i] - Unit(t + 3)[i])
  <2>1. t \in Int
    OBVIOUS
  <2>2. PICK y \in Places :
          /\ Step(Pose(z1, NormalizeTurn(t)), "R", Arc(u)) = Pose(y, NormalizeTurn(t - u))
          /\ \A i \in 1 .. 4 : y[i] = z1[i] + (Unit(t - u + 3)[i] - Unit(t + 3)[i])
    BY <2>1, RightTo
  <2>3. at[2] = Pose(y, NormalizeTurn(t - u))
    BY <1>4, <1>6, <2>2
  <2> QED BY <2>2, <2>3
<1>8. PICK z3 \in Places :
        /\ at[3] = Pose(z3, NormalizeTurn(t - u + n))
        /\ \A i \in 1 .. 4 : z3[i] = z2[i] + (Unit(t - u + n - 3)[i] - Unit(t - u - 3)[i])
  <2>1. t - u \in Int
    OBVIOUS
  <2>2. PICK y \in Places :
          /\ Step(Pose(z2, NormalizeTurn(t - u)), "L", Arc(n)) = Pose(y, NormalizeTurn(t - u + n))
          /\ \A i \in 1 .. 4 : y[i] = z2[i] + (Unit(t - u + n - 3)[i] - Unit(t - u - 3)[i])
    BY <2>1, LeftTo
  <2>3. at[3] = Pose(y, NormalizeTurn(t - u + n))
    BY <1>4, <1>7, <2>2
  <2> QED BY <2>2, <2>3
<1>9. PICK z4 \in Places :
        /\ at[4] = Pose(z4, NormalizeTurn(t - u + n - v))
        /\ \A i \in 1 .. 4 : z4[i] = z3[i] + (Unit(t - u + n - v + 3)[i] - Unit(t - u + n + 3)[i])
  <2>1. t - u + n \in Int
    OBVIOUS
  <2>2. PICK y \in Places :
          /\ Step(Pose(z3, NormalizeTurn(t - u + n)), "R", Arc(v)) = Pose(y, NormalizeTurn(t - u + n - v))
          /\ \A i \in 1 .. 4 : y[i] = z3[i] + (Unit(t - u + n - v + 3)[i] - Unit(t - u + n + 3)[i])
    BY <2>1, RightTo
  <2>3. at[4] = Pose(y, NormalizeTurn(t - u + n - v))
    BY <1>4, <1>8, <2>2
  <2> QED BY <2>2, <2>3
<1>10. \A i \in 1 .. 4 : z4[i] =
                      (Unit(t - 3)[i] - Unit(-3)[i]) +
                      (Unit(t - u + 3)[i] - Unit(t + 3)[i]) +
                      (Unit(t - u + n - 3)[i] - Unit(t - u - 3)[i]) +
                      (Unit(t - u + n - v + 3)[i] - Unit(t - u + n + 3)[i])
  BY <1>6, <1>7, <1>8, <1>9
<1> QED BY <1>2, <1>3, <1>9, <1>10 DEF w, AtLRLR, LRLRLeads

AtLRSLR(t, b, u, c, v, i) ==
  (Unit(t - 3)[i] - Unit(-3)[i]) + (Unit(t - b + 3)[i] - Unit(t + 3)[i]) + u * Unit(t - b)[i] + (Unit(t - b + c - 3)[i] - Unit(t - b - 3)[i]) + (Unit(t - b + c - v + 3)[i] - Unit(t - b + c + 3)[i])

LRSLRLeads(t, b, u, c, v) ==
  LET w == Word(<<"L", "R", "S", "L", "R">>,
                  <<Arc(t), Arc(b), Line(u), Arc(c), Arc(v)>>)
    IN /\ Plain(w, 5)
       /\ \E z \in Places :
            /\ End(w) = Pose(z, NormalizeTurn(t - b + c - v))
            /\ \A i \in 1 .. 4 : z[i] = AtLRSLR(t, b, u, c, v, i)

\* Where a word of type LRSLR ends, whatever its lengths are.
LEMMA EndOfLRSLR ==
  ASSUME NEW t \in Int, NEW b \in Int, NEW u \in Int, NEW c \in Int, NEW v \in Int
  PROVE  LRSLRLeads(t, b, u, c, v)
<1> DEFINE w == Word(<<"L", "R", "S", "L", "R">>, <<Arc(t), Arc(b), Line(u), Arc(c), Arc(v)>>)
<1>1. w.types = <<"L", "R", "S", "L", "R">> /\ w.lengths = <<Arc(t), Arc(b), Line(u), Arc(c), Arc(v)>>
  BY WordIs
<1>2. Plain(w, 5)
  BY <1>1 DEF Plain
<1>3. PICK at : /\ at[0] = Start
                /\ \A i \in 1 .. 5 : at[i] = Step(at[i-1], w.types[i], w.lengths[i])
                /\ End(w) = at[5]
  BY <1>1, EndIs
<1>4. /\ at[1] = Step(Start, "L", Arc(t))
      /\ at[2] = Step(at[1], "R", Arc(b))
      /\ at[3] = Step(at[2], "S", Line(u))
      /\ at[4] = Step(at[3], "L", Arc(c))
      /\ at[5] = Step(at[4], "R", Arc(v))
  BY <1>1, <1>3
<1> HIDE DEF w
<1>5. /\ Origin \in Places /\ \A i \in 1 .. 4 : Origin[i] = 0
      /\ Start = Pose(Origin, NormalizeTurn(0))
  BY OriginIs, StartIs
<1>6. PICK z1 \in Places :
        /\ at[1] = Pose(z1, NormalizeTurn(t))
        /\ \A i \in 1 .. 4 : z1[i] = (Unit(t - 3)[i] - Unit(-3)[i])
  <2>1. PICK y \in Places :
          /\ Step(Pose(Origin, NormalizeTurn(0)), "L", Arc(t)) = Pose(y, NormalizeTurn(0 + t))
          /\ \A i \in 1 .. 4 : y[i] = Origin[i] + (Unit(0 + t - 3)[i] - Unit(0 - 3)[i])
    <3>1. 0 \in Int
      OBVIOUS
    <3> QED BY <1>5, <3>1, LeftTo
  <2>2. 0 + t = t /\ 0 + t - 3 = t - 3 /\ 0 - 3 = -3
    OBVIOUS
  <2>3. \A i \in 1 .. 4 : Unit(t - 3)[i] \in Int /\ Unit(-3)[i] \in Int
    <3>1. t - 3 \in Int /\ -3 \in Int
      OBVIOUS
    <3> QED BY <3>1, UnitRules
  <2>4. at[1] = Pose(y, NormalizeTurn(t))
    BY <1>4, <1>5, <2>1, <2>2
  <2>5. \A i \in 1 .. 4 : y[i] = (Unit(t - 3)[i] - Unit(-3)[i])
    BY <1>5, <2>1, <2>2, <2>3
  <2> QED BY <2>4, <2>5
<1>7. PICK z2 \in Places :
        /\ at[2] = Pose(z2, NormalizeTurn(t - b))
        /\ \A i \in 1 .. 4 : z2[i] = z1[i] + (Unit(t - b + 3)[i] - Unit(t + 3)[i])
  <2>1. t \in Int
    OBVIOUS
  <2>2. PICK y \in Places :
          /\ Step(Pose(z1, NormalizeTurn(t)), "R", Arc(b)) = Pose(y, NormalizeTurn(t - b))
          /\ \A i \in 1 .. 4 : y[i] = z1[i] + (Unit(t - b + 3)[i] - Unit(t + 3)[i])
    BY <2>1, RightTo
  <2>3. at[2] = Pose(y, NormalizeTurn(t - b))
    BY <1>4, <1>6, <2>2
  <2> QED BY <2>2, <2>3
<1>8. PICK z3 \in Places :
        /\ at[3] = Pose(z3, NormalizeTurn(t - b))
        /\ \A i \in 1 .. 4 : z3[i] = z2[i] + u * Unit(t - b)[i]
  <2>1. t - b \in Int
    OBVIOUS
  <2>2. PICK y \in Places :
          /\ Step(Pose(z2, NormalizeTurn(t - b)), "S", Line(u)) = Pose(y, NormalizeTurn(t - b))
          /\ \A i \in 1 .. 4 : y[i] = z2[i] + u * Unit(t - b)[i]
    BY <2>1, StraightTo
  <2>3. at[3] = Pose(y, NormalizeTurn(t - b))
    BY <1>4, <1>7, <2>2
  <2> QED BY <2>2, <2>3
<1>9. PICK z4 \in Places :
        /\ at[4] = Pose(z4, NormalizeTurn(t - b + c))
        /\ \A i \in 1 .. 4 : z4[i] = z3[i] + (Unit(t - b + c - 3)[i] - Unit(t - b - 3)[i])
  <2>1. t - b \in Int
    OBVIOUS
  <2>2. PICK y \in Places :
          /\ Step(Pose(z3, NormalizeTurn(t - b)), "L", Arc(c)) = Pose(y, NormalizeTurn(t - b + c))
          /\ \A i \in 1 .. 4 : y[i] = z3[i] + (Unit(t - b + c - 3)[i] - Unit(t - b - 3)[i])
    BY <2>1, LeftTo
  <2>3. at[4] = Pose(y, NormalizeTurn(t - b + c))
    BY <1>4, <1>8, <2>2
  <2> QED BY <2>2, <2>3
<1>10. PICK z5 \in Places :
        /\ at[5] = Pose(z5, NormalizeTurn(t - b + c - v))
        /\ \A i \in 1 .. 4 : z5[i] = z4[i] + (Unit(t - b + c - v + 3)[i] - Unit(t - b + c + 3)[i])
  <2>1. t - b + c \in Int
    OBVIOUS
  <2>2. PICK y \in Places :
          /\ Step(Pose(z4, NormalizeTurn(t - b + c)), "R", Arc(v)) = Pose(y, NormalizeTurn(t - b + c - v))
          /\ \A i \in 1 .. 4 : y[i] = z4[i] + (Unit(t - b + c - v + 3)[i] - Unit(t - b + c + 3)[i])
    BY <2>1, RightTo
  <2>3. at[5] = Pose(y, NormalizeTurn(t - b + c - v))
    BY <1>4, <1>9, <2>2
  <2> QED BY <2>2, <2>3
<1>11. \A i \in 1 .. 4 : z5[i] =
                      (Unit(t - 3)[i] - Unit(-3)[i]) +
                      (Unit(t - b + 3)[i] - Unit(t + 3)[i]) +
                      u * Unit(t - b)[i] +
                      (Unit(t - b + c - 3)[i] - Unit(t - b - 3)[i]) +
                      (Unit(t - b + c - v + 3)[i] - Unit(t - b + c + 3)[i])
  BY <1>6, <1>7, <1>8, <1>9, <1>10
<1> QED BY <1>2, <1>3, <1>10, <1>11 DEF w, AtLRSLR, LRSLRLeads

\* What LSL answers: the vector between the centres, and the rest of the turns.
LEMMA LSLIs ==
  ASSUME NEW g \in Goals, NEW p \in LSL(g)
  PROVE  /\ p.t \in Int /\ p.u \in Int /\ p.v = NormalizeTurn(g.phi - p.t)
         /\ SameSide(g) = Turned(Times(p.u, Unit(0)), p.t)
<1>1. PICK q \in {Param(t, u, 0) : t \in -6 .. 5, u \in Lines} :
        /\ SameSide(g) = Turned(Times(q.u, Unit(0)), q.t)
        /\ p = Param(q.t, q.u, NormalizeTurn(g.phi - q.t))
  BY DEF LSL, Polar
<1>2. q.t \in Int /\ q.u \in Int
  BY LineAssumption DEF Param, Lines
<1> QED BY <1>1, <1>2 DEF Param

-----------------------------------------------------------------------------
(* The vectors between the centres of circles *)

\* Directions half a turn apart are opposites.
LEMMA HalfTurn ==
  ASSUME NEW k \in Int, NEW i \in 1 .. 4
  PROVE  /\ Unit(k + 3)[i] \in Int /\ Unit(k - 3)[i] \in Int
         /\ Unit(k + 3)[i] = 0 - Unit(k - 3)[i]
<1>1. k - 3 \in Int /\ k + 3 \in Int /\ (k - 3) + 6 = k + 3
  OBVIOUS
<1>2. Unit((k - 3) + 6)[i] = 0 - Unit(k - 3)[i]
  BY <1>1, UnitRules
<1> QED BY <1>1, <1>2, UnitRules

\* The coordinates of the vectors between the centres.
LEMMA Sides ==
  ASSUME NEW g \in Goals
  PROVE  /\ g.z \in Places /\ g.phi \in Int
         /\ SameSide(g) \in Places /\ OtherSide(g) \in Places
         /\ \A i \in 1 .. 4 :
              /\ SameSide(g)[i] = g.z[i] + (Unit(g.phi + 3)[i] - Unit(3)[i])
              /\ OtherSide(g)[i] = g.z[i] - (Unit(g.phi + 3)[i] + Unit(3)[i])
<1>1. g.z \in Places /\ g.phi \in Int /\ g.phi + 3 \in Int /\ 3 \in Int
  BY DEF Goals
<1>2. Unit(g.phi + 3) \in Places /\ Unit(3) \in Places
  BY <1>1, UnitCoordinates
<1> DEFINE d == Less(Unit(g.phi + 3), Unit(3))
           s == Add(Unit(g.phi + 3), Unit(3))
<1>3. /\ d \in Places /\ \A i \in 1 .. 4 : d[i] = Unit(g.phi + 3)[i] - Unit(3)[i]
      /\ s \in Places /\ \A i \in 1 .. 4 : s[i] = Unit(g.phi + 3)[i] + Unit(3)[i]
  BY <1>2, Differences, Sums
<1>4. SameSide(g) = Add(g.z, d) /\ OtherSide(g) = Less(g.z, s)
  BY DEF SameSide, OtherSide
<1> HIDE DEF d, s
<1>5. /\ Add(g.z, d) \in Places /\ \A i \in 1 .. 4 : Add(g.z, d)[i] = g.z[i] + d[i]
      /\ Less(g.z, s) \in Places /\ \A i \in 1 .. 4 : Less(g.z, s)[i] = g.z[i] - s[i]
  BY <1>1, <1>3, Differences, Sums
<1> QED BY <1>1, <1>3, <1>4, <1>5

\* A direction, turned.
LEMMA TurnedLine ==
  ASSUME NEW n \in Int, NEW e \in Int, NEW t \in Int
  PROVE  /\ Times(n, Unit(e)) \in Places
         /\ Turned(Times(n, Unit(e)), t) = Times(n, Unit(e + t))
         /\ Times(n, Unit(e + t)) \in Places
         /\ \A i \in 1 .. 4 : Times(n, Unit(e + t))[i] = n * Unit(e + t)[i]
<1>1. Unit(e) \in Places /\ e + t \in Int
  BY UnitCoordinates
<1>2. Unit(e + t) \in Places
  BY <1>1, UnitCoordinates
<1>3. Turned(Times(n, Unit(e)), t) = Times(n, Turned(Unit(e), t))
  BY <1>1, TurnedMultiple
<1>4. Turned(Unit(e), t) = Unit(e + t)
  BY TurnedUnit
<1> QED BY <1>1, <1>2, <1>3, <1>4, Multiples

\* The vectors between the centres of circles, turned, by coordinates.
LinesAt(n, e, m, d, t, i) == n * Unit(e + t)[i] - m * Unit(d + t)[i]
BetweenAt(n, e, d, t, i) == n * (Unit(e + t)[i] - Unit(d + t)[i])
MiddleAt(u, t, i) == (-2) * ((Unit(3 + t)[i] + Unit((3 - 2 * u) + t)[i]) - Unit((3 - u) + t)[i])

LinesTurned(n, e, m, d, t) ==
  \A i \in 1 .. 4 : Turned(Less(Times(n, Unit(e)), Times(m, Unit(d))), t)[i] = LinesAt(n, e, m, d, t, i)

BetweenTurned(n, e, d, t) ==
  \A i \in 1 .. 4 : Turned(Times(n, Less(Unit(e), Unit(d))), t)[i] = BetweenAt(n, e, d, t, i)

\* A line beside twice a radius, turned.
LEMMA TurnedLines ==
  ASSUME NEW n \in Int, NEW e \in Int, NEW m \in Int, NEW d \in Int, NEW t \in Int
  PROVE  LinesTurned(n, e, m, d, t)
<1> DEFINE a == Times(n, Unit(e))
           b == Times(m, Unit(d))
           c == Times(n, Unit(e + t))
           f == Times(m, Unit(d + t))
<1>1. /\ a \in Places /\ c \in Places /\ Turned(a, t) = c
      /\ \A i \in 1 .. 4 : c[i] = n * Unit(e + t)[i]
  BY TurnedLine
<1>2. /\ b \in Places /\ f \in Places /\ Turned(b, t) = f
      /\ \A i \in 1 .. 4 : f[i] = m * Unit(d + t)[i]
  BY TurnedLine
<1> HIDE DEF a, b, c, f
<1>3. Turned(Less(a, b), t) = Less(c, f)
  BY <1>1, <1>2, TurnedDifference
<1>4. \A i \in 1 .. 4 : Less(c, f)[i] = c[i] - f[i]
  BY <1>1, <1>2, Differences
<1>5. \A i \in 1 .. 4 : Turned(Less(a, b), t)[i] = n * Unit(e + t)[i] - m * Unit(d + t)[i]
  BY <1>1, <1>2, <1>3, <1>4
<1> QED BY <1>5 DEF a, b, LinesAt, LinesTurned

\* A multiple of what an arc adds, turned.
LEMMA TurnedBetween ==
  ASSUME NEW n \in Int, NEW e \in Int, NEW d \in Int, NEW t \in Int
  PROVE  BetweenTurned(n, e, d, t)
<1>1. /\ Unit(e) \in Places /\ Unit(d) \in Places
      /\ Turned(Unit(e), t) = Unit(e + t) /\ Turned(Unit(d), t) = Unit(d + t)
      /\ Unit(e + t) \in Places /\ Unit(d + t) \in Places
  <2>1. e + t \in Int /\ d + t \in Int
    OBVIOUS
  <2> QED BY <2>1, UnitCoordinates, TurnedUnit
<1> DEFINE a == Less(Unit(e), Unit(d))
           c == Less(Unit(e + t), Unit(d + t))
<1>2. /\ a \in Places /\ c \in Places /\ Turned(a, t) = c
      /\ \A i \in 1 .. 4 : c[i] = Unit(e + t)[i] - Unit(d + t)[i]
  <2>1. /\ a \in Places /\ c \in Places
        /\ \A i \in 1 .. 4 : c[i] = Unit(e + t)[i] - Unit(d + t)[i]
    BY <1>1, Differences
  <2>2. Turned(a, t) = Less(Turned(Unit(e), t), Turned(Unit(d), t))
    BY <1>1, TurnedDifference
  <2> QED BY <1>1, <2>1, <2>2
<1> HIDE DEF a, c
<1>3. Turned(Times(n, a), t) = Times(n, c)
  BY <1>2, TurnedMultiple
<1>4. \A i \in 1 .. 4 : Times(n, c)[i] = n * c[i]
  BY <1>2, Multiples
<1>5. \A i \in 1 .. 4 : Turned(Times(n, a), t)[i] = n * (Unit(e + t)[i] - Unit(d + t)[i])
  BY <1>2, <1>3, <1>4
<1> QED BY <1>5 DEF a, BetweenAt, BetweenTurned

\* The vector across the middle circles, turned.
LEMMA TurnedMiddle ==
  ASSUME NEW u \in Int, NEW t \in Int
  PROVE  \A i \in 1 .. 4 :
           Turned(Middle(u), t)[i] = MiddleAt(u, t, i)
<1> DEFINE x == 3 - 2 * u
           y == 3 - u
<1>1. /\ 3 \in Int /\ x \in Int /\ y \in Int
      /\ 3 + t \in Int /\ x + t \in Int /\ y + t \in Int
  OBVIOUS
<1> HIDE DEF x, y
<1>2. /\ Unit(3) \in Places /\ Unit(x) \in Places /\ Unit(y) \in Places
      /\ Unit(3 + t) \in Places /\ Unit(x + t) \in Places /\ Unit(y + t) \in Places
      /\ Turned(Unit(3), t) = Unit(3 + t) /\ Turned(Unit(x), t) = Unit(x + t)
      /\ Turned(Unit(y), t) = Unit(y + t)
  BY <1>1, UnitCoordinates, TurnedUnit
<1> DEFINE s == Add(Unit(3), Unit(x))
           r == Add(Unit(3 + t), Unit(x + t))
<1>3. /\ s \in Places /\ r \in Places /\ Turned(s, t) = r
      /\ \A i \in 1 .. 4 : r[i] = Unit(3 + t)[i] + Unit(x + t)[i]
  <2>1. /\ s \in Places /\ r \in Places
        /\ \A i \in 1 .. 4 : r[i] = Unit(3 + t)[i] + Unit(x + t)[i]
    BY <1>2, Sums
  <2>2. Turned(s, t) = Add(Turned(Unit(3), t), Turned(Unit(x), t))
    BY <1>2, TurnedSum
  <2> QED BY <1>2, <2>1, <2>2
<1> HIDE DEF s, r
<1> DEFINE a == Less(s, Unit(y))
           c == Less(r, Unit(y + t))
<1>4. /\ a \in Places /\ c \in Places /\ Turned(a, t) = c
      /\ \A i \in 1 .. 4 : c[i] = r[i] - Unit(y + t)[i]
  <2>1. /\ a \in Places /\ c \in Places
        /\ \A i \in 1 .. 4 : c[i] = r[i] - Unit(y + t)[i]
    BY <1>2, <1>3, Differences
  <2>2. Turned(a, t) = Less(Turned(s, t), Turned(Unit(y), t))
    BY <1>2, <1>3, TurnedDifference
  <2> QED BY <1>2, <1>3, <2>1, <2>2
<1>5. Middle(u) = Times(-2, a)
  BY DEF Middle, a, s, x, y
<1> HIDE DEF a, c
<1> DEFINE n == -2
<1>6. n \in Int
  OBVIOUS
<1> HIDE DEF n
<1>7. Turned(Times(n, a), t) = Times(n, c)
  BY <1>4, <1>6, TurnedMultiple
<1>8. \A i \in 1 .. 4 : Times(n, c)[i] = n * c[i]
  BY <1>4, <1>6, Multiples
<1>9. \A i \in 1 .. 4 : Turned(Middle(u), t)[i] = (-2) * ((Unit(3 + t)[i] + Unit(x + t)[i]) - Unit(y + t)[i])
  <2>1. \A i \in 1 .. 4 : Turned(Times(n, a), t)[i]
          = n * ((Unit(3 + t)[i] + Unit(x + t)[i]) - Unit(y + t)[i])
    BY <1>3, <1>4, <1>7, <1>8
  <2> QED BY <1>5, <2>1 DEF n
<1> QED BY <1>9 DEF x, y, MiddleAt

-----------------------------------------------------------------------------
(* The words of curves lead to their goal *)

LineAt(n, e, t, i) == n * Unit(e + t)[i]

LineTurned(n, e, t) ==
  \A i \in 1 .. 4 : Turned(Times(n, Unit(e)), t)[i] = LineAt(n, e, t, i)

\* A line, turned.
LEMMA TurnedAlong ==
  ASSUME NEW n \in Int, NEW e \in Int, NEW t \in Int
  PROVE  LineTurned(n, e, t)
<1>1. /\ Turned(Times(n, Unit(e)), t) = Times(n, Unit(e + t))
      /\ \A i \in 1 .. 4 : Times(n, Unit(e + t))[i] = n * Unit(e + t)[i]
  BY TurnedLine
<1>2. \A i \in 1 .. 4 : Turned(Times(n, Unit(e)), t)[i] = n * Unit(e + t)[i]
  BY <1>1
<1> QED BY <1>2 DEF LineTurned, LineAt

\* The words of LSL lead to the goal they were found for.
LEMMA LSLWordsArrive ==
  ASSUME NEW g \in Goals, NEW w \in LSLWords(g)
  PROVE  Plain(w, 3) /\ LeadsTo(w, g)
<1>1. PICK p \in LSL(g) : w = Word(<<"L", "S", "L">>, <<Arc(p.t), Line(p.u), Arc(p.v)>>)
  BY DEF LSLWords
<1> DEFINE t == p.t
           u == p.u
           v == p.v
           f == g.phi
<1>2. /\ t \in Int /\ u \in Int /\ f \in Int /\ v = NormalizeTurn(f - t)
      /\ w = Word(<<"L", "S", "L">>, <<Arc(t), Line(u), Arc(v)>>)
      /\ SameSide(g) = Turned(Times(u, Unit(0)), t)
      /\ u \in Int
  BY <1>1, LSLIs, Sides
<1> HIDE DEF t, u, v, f
<1>4. v \in Int /\ v % 12 = (f - t) % 12
  <2>1. f - t \in Int
    BY <1>2
  <2> QED BY <1>2, <2>1, NormalizedTurn
<1>5. PICK z \in Places :
        /\ Plain(w, 3) /\ End(w) = Pose(z, NormalizeTurn(t + v))
        /\ \A i \in 1 .. 4 : z[i] = AtLSL(t, u, v, i)
  <2> DEFINE x == Word(<<"L", "S", "L">>, <<Arc(t), Line(u), Arc(v)>>)
  <2>1. /\ Plain(x, 3)
        /\ \E y \in Places :
             /\ End(x) = Pose(y, NormalizeTurn(t + v))
             /\ \A i \in 1 .. 4 : y[i] = AtLSL(t, u, v, i)
    <3>1. LSLLeads(t, u, v)
      BY <1>2, <1>4, EndOfLSL
    <3> QED BY <3>1 DEF LSLLeads
  <2> QED BY <1>2, <2>1
<1>6. \A i \in 1 .. 4 : SameSide(g)[i] = LineAt(u, 0, t, i)
  <2>1. u \in Int /\ 0 \in Int
    BY <1>2
  <2>2. LineTurned(u, 0, t)
    BY <1>2, <2>1, TurnedAlong
  <2> QED BY <1>2, <2>2 DEF LineTurned
<1>7. t + v \in Int /\ (t + v) % 12 = f % 12
  BY <1>2, <1>4
<1>8. ASSUME NEW i \in 1 .. 4 PROVE z[i] = g.z[i]
  <2> DEFINE U(k) == Unit(k)[i]
             A == Unit(t - 3)[i]
             B == Unit(-3)[i]
             F == Unit(f - 3)[i]
             m == u * Unit(t)[i]
             y == g.z[i]
  <2>1. A \in Int /\ U(t - 3) = A /\ U(t + 3) = 0 - A
    <3> DEFINE k == t
    <3>1. k \in Int
      BY <1>2, <1>4
    <3>3. k - 3 = t - 3 /\ k + 3 = t + 3
      BY <1>2, <1>4
    <3> HIDE DEF k
    <3>2. U(k - 3) \in Int /\ U(k + 3) = 0 - U(k - 3)
      BY <3>1, HalfTurn
    <3> QED BY <3>2, <3>3
  <2>2. B \in Int /\ U(-3) = B /\ U(3) = 0 - B
    <3>1. 0 \in Int /\ 0 + 3 = 3 /\ 0 - 3 = -3
      OBVIOUS
    <3>2. U(0 - 3) \in Int /\ U(0 + 3) = 0 - U(0 - 3)
      BY <3>1, HalfTurn
    <3> QED BY <3>1, <3>2
  <2>3. F \in Int /\ U(f - 3) = F /\ U(f + 3) = 0 - F
    <3> DEFINE k == f
    <3>1. k \in Int
      BY <1>2, <1>4
    <3>3. k - 3 = f - 3 /\ k + 3 = f + 3
      BY <1>2, <1>4
    <3> HIDE DEF k
    <3>2. U(k - 3) \in Int /\ U(k + 3) = 0 - U(k - 3)
      BY <3>1, HalfTurn
    <3> QED BY <3>2, <3>3
  <2>4. U(t + v - 3) = F
    <3>1. t + v - 3 \in Int /\ f - 3 \in Int
      BY <1>2, <1>4
    <3>2. (t + v - 3) % 12 = (f - 3) % 12
      <4> DEFINE h == t + v
      <4>1. h \in Int /\ h % 12 = f % 12
        BY <1>7
      <4>3. t + v - 3 = h  - 3
        BY <1>2, <1>4
      <4> HIDE DEF h
      <4>2. (h  - 3) % 12 = (f - 3) % 12
        BY <1>2, <4>1
      <4> QED BY <4>2, <4>3
    <3>3. Unit(t + v - 3) = Unit(f - 3)
      BY <3>1, <3>2, UnitModulo
    <3> QED BY <3>3, <2>3
  <2>5. m \in Int /\ u * U(t) = m
    BY <1>2, UnitRules
  <2>6. U(0 + t) = U(t)
    <3>1. 0 + t = t
      BY <1>2, <1>4
    <3> QED BY <3>1, <2>1
  <2>7. z[i] = (A - B) + m + (F - A)
    <3> HIDE DEF U, y, A, B, F, m
    <3>1. z[i] = AtLSL(t, u, v, i)
      BY <1>5
    <3> QED BY <3>1, <2>1, <2>2, <2>3, <2>4, <2>5, <2>6 DEF AtLSL, U
  <2>8. y + ((0 - F) - (0 - B)) = m
    <3>1. SameSide(g)[i] = y + (U(f + 3) - U(3))
      BY Sides DEF f
    <3> HIDE DEF U, y, A, B, F, m
    <3>2. SameSide(g)[i] = LineAt(u, 0, t, i)
      BY <1>6
    <3> QED BY <3>1, <3>2, <2>1, <2>2, <2>3, <2>4, <2>5, <2>6 DEF LineAt, U
  <2>9. y \in Int
    BY Sides, PartsOfPlaces
  <2> HIDE DEF U, y, A, B, F, m
  <2>10. z[i] = y
    BY <2>7, <2>8, <2>9, <2>1, <2>2, <2>3, <2>4, <2>5, <2>6
  <2> QED BY <2>10 DEF y
<1> QED BY <1>5, <1>7, <1>8, Arrived DEF f

\* What LSR answers: the vector between the centres, and the rest of the turns.
LEMMA LSRIs ==
  ASSUME NEW g \in Goals, NEW p \in LSR(g)
  PROVE  /\ p.t \in Int /\ p.u \in Int /\ p.v = NormalizeTurn(p.t - g.phi)
         /\ OtherSide(g) = Turned(Less(Times(p.u, Unit(0)), Times(2, Unit(3))), p.t)
<1>1. PICK q \in {Param(t, u, 0) : t \in -6 .. 5, u \in Lines} :
        /\ OtherSide(g) = Turned(Less(Times(q.u, Unit(0)), Times(2, Unit(3))), q.t)
        /\ p = Param(q.t, q.u, NormalizeTurn(q.t - g.phi))
  BY DEF LSR, Polar
<1>2. q.t \in Int /\ q.u \in Int
  BY LineAssumption DEF Param, Lines
<1> QED BY <1>1, <1>2 DEF Param

\* The words of LSR lead to the goal they were found for.
LEMMA LSRWordsArrive ==
  ASSUME NEW g \in Goals, NEW w \in LSRWords(g)
  PROVE  Plain(w, 3) /\ LeadsTo(w, g)
<1>1. PICK p \in LSR(g) : w = Word(<<"L", "S", "R">>, <<Arc(p.t), Line(p.u), Arc(p.v)>>)
  BY DEF LSRWords
<1> DEFINE t == p.t
           u == p.u
           v == p.v
           f == g.phi
<1>2. /\ t \in Int /\ u \in Int /\ f \in Int /\ v = NormalizeTurn(t - f)
      /\ w = Word(<<"L", "S", "R">>, <<Arc(t), Line(u), Arc(v)>>)
      /\ OtherSide(g) = Turned(Less(Times(u, Unit(0)), Times(2, Unit(3))), t)
      /\ u \in Int
  BY <1>1, LSRIs, Sides
<1> HIDE DEF t, u, v, f
<1>4. v \in Int /\ v % 12 = (t - f) % 12
  <2>1. t - f \in Int
    BY <1>2
  <2> QED BY <1>2, <2>1, NormalizedTurn
<1>5. PICK z \in Places :
        /\ Plain(w, 3) /\ End(w) = Pose(z, NormalizeTurn(t - v))
        /\ \A i \in 1 .. 4 : z[i] = AtLSR(t, u, v, i)
  <2> DEFINE x == Word(<<"L", "S", "R">>, <<Arc(t), Line(u), Arc(v)>>)
  <2>1. /\ Plain(x, 3)
        /\ \E y \in Places :
             /\ End(x) = Pose(y, NormalizeTurn(t - v))
             /\ \A i \in 1 .. 4 : y[i] = AtLSR(t, u, v, i)
    <3>1. LSRLeads(t, u, v)
      BY <1>2, <1>4, EndOfLSR
    <3> QED BY <3>1 DEF LSRLeads
  <2> QED BY <1>2, <2>1
<1>6. \A i \in 1 .. 4 : OtherSide(g)[i] = LinesAt(u, 0, 2, 3, t, i)
  <2>1. u \in Int /\ 0 \in Int /\ 2 \in Int /\ 3 \in Int
    BY <1>2
  <2>2. LinesTurned(u, 0, 2, 3, t)
    BY <1>2, <2>1, TurnedLines
  <2> QED BY <1>2, <2>2 DEF LinesTurned
<1>7. t - v \in Int /\ (t - v) % 12 = f % 12
  BY <1>2, <1>4
<1>8. ASSUME NEW i \in 1 .. 4 PROVE z[i] = g.z[i]
  <2> DEFINE U(k) == Unit(k)[i]
             A == Unit(t - 3)[i]
             B == Unit(-3)[i]
             F == Unit(f - 3)[i]
             m == u * Unit(t)[i]
             y == g.z[i]
  <2>1. A \in Int /\ U(t - 3) = A /\ U(t + 3) = 0 - A
    <3> DEFINE k == t
    <3>1. k \in Int
      BY <1>2, <1>4
    <3>3. k - 3 = t - 3 /\ k + 3 = t + 3
      BY <1>2, <1>4
    <3> HIDE DEF k
    <3>2. U(k - 3) \in Int /\ U(k + 3) = 0 - U(k - 3)
      BY <3>1, HalfTurn
    <3> QED BY <3>2, <3>3
  <2>2. B \in Int /\ U(-3) = B /\ U(3) = 0 - B
    <3>1. 0 \in Int /\ 0 + 3 = 3 /\ 0 - 3 = -3
      OBVIOUS
    <3>2. U(0 - 3) \in Int /\ U(0 + 3) = 0 - U(0 - 3)
      BY <3>1, HalfTurn
    <3> QED BY <3>1, <3>2
  <2>3. F \in Int /\ U(f - 3) = F /\ U(f + 3) = 0 - F
    <3> DEFINE k == f
    <3>1. k \in Int
      BY <1>2, <1>4
    <3>3. k - 3 = f - 3 /\ k + 3 = f + 3
      BY <1>2, <1>4
    <3> HIDE DEF k
    <3>2. U(k - 3) \in Int /\ U(k + 3) = 0 - U(k - 3)
      BY <3>1, HalfTurn
    <3> QED BY <3>2, <3>3
  <2>4. U(t - v + 3) = 0 - F
    <3>1. t - v + 3 \in Int /\ f + 3 \in Int
      BY <1>2, <1>4
    <3>2. (t - v + 3) % 12 = (f + 3) % 12
      <4> DEFINE h == t - v
      <4>1. h \in Int /\ h % 12 = f % 12
        BY <1>7
      <4>3. t - v + 3 = h  + 3
        BY <1>2, <1>4
      <4> HIDE DEF h
      <4>2. (h  + 3) % 12 = (f + 3) % 12
        BY <1>2, <4>1
      <4> QED BY <4>2, <4>3
    <3>3. Unit(t - v + 3) = Unit(f + 3)
      BY <3>1, <3>2, UnitModulo
    <3> QED BY <3>3, <2>3
  <2>5. m \in Int /\ u * U(t) = m
    BY <1>2, UnitRules
  <2>6. U(0 + t) = U(t)
    <3>1. 0 + t = t
      BY <1>2, <1>4
    <3> QED BY <3>1, <2>1
  <2>7. U(3 + t) = 0 - A
    <3>1. 3 + t = t + 3
      BY <1>2, <1>4
    <3> QED BY <3>1, <2>1
  <2>8. z[i] = (A - B) + m + ((0 - F) - (0 - A))
    <3> HIDE DEF U, y, A, B, F, m
    <3>1. z[i] = AtLSR(t, u, v, i)
      BY <1>5
    <3> QED BY <3>1, <2>1, <2>2, <2>3, <2>4, <2>5, <2>6, <2>7 DEF AtLSR, U
  <2>9. y - ((0 - F) + (0 - B)) = m - 2 * (0 - A)
    <3>1. OtherSide(g)[i] = y - (U(f + 3) + U(3))
      BY Sides DEF f
    <3> HIDE DEF U, y, A, B, F, m
    <3>2. OtherSide(g)[i] = LinesAt(u, 0, 2, 3, t, i)
      BY <1>6
    <3> QED BY <3>1, <3>2, <2>1, <2>2, <2>3, <2>4, <2>5, <2>6, <2>7 DEF LinesAt, U
  <2>10. y \in Int
    BY Sides, PartsOfPlaces
  <2> HIDE DEF U, y, A, B, F, m
  <2>11. z[i] = y
    BY <2>8, <2>9, <2>10, <2>1, <2>2, <2>3, <2>4, <2>5, <2>6, <2>7
  <2> QED BY <2>11 DEF y
<1> QED BY <1>5, <1>7, <1>8, Arrived DEF f

\* What LRL answers: the vector between the centres, and the rest of the turns.
LEMMA LRLIs ==
  ASSUME NEW g \in Goals, NEW p \in LRL(g)
  PROVE  /\ p.t \in Int /\ p.u \in Int /\ p.v = NormalizeTurn(g.phi - p.t + p.u)
         /\ SameSide(g) = Turned(Times(2, Less(Unit(3 - p.u), Unit(3))), p.t)
<1>1. PICK q \in {Param(t, u, 0) : t \in -6 .. 5, u \in -6 .. -1} :
        /\ SameSide(g) = Turned(Times(2, Less(Unit(3 - q.u), Unit(3))), q.t)
        /\ p = Param(q.t, q.u, NormalizeTurn(g.phi - q.t + q.u))
  BY DEF LRL, Polar
<1>2. q.t \in Int /\ q.u \in Int
  BY LineAssumption DEF Param, Lines
<1> QED BY <1>1, <1>2 DEF Param

\* The words of LRL lead to the goal they were found for.
LEMMA LRLWordsArrive ==
  ASSUME NEW g \in Goals, NEW w \in LRLWords(g)
  PROVE  Plain(w, 3) /\ LeadsTo(w, g)
<1>1. PICK p \in LRL(g) : w = Word(<<"L", "R", "L">>, <<Arc(p.t), Arc(p.u), Arc(p.v)>>)
  BY DEF LRLWords
<1> DEFINE t == p.t
           u == p.u
           v == p.v
           f == g.phi
<1>2. /\ t \in Int /\ u \in Int /\ f \in Int /\ v = NormalizeTurn(f - t + u)
      /\ w = Word(<<"L", "R", "L">>, <<Arc(t), Arc(u), Arc(v)>>)
      /\ SameSide(g) = Turned(Times(2, Less(Unit(3 - u), Unit(3))), t)
      /\ u \in Int
  BY <1>1, LRLIs, Sides
<1> HIDE DEF t, u, v, f
<1>4. v \in Int /\ v % 12 = (f - t + u) % 12
  <2>1. f - t + u \in Int
    BY <1>2
  <2> QED BY <1>2, <2>1, NormalizedTurn
<1>5. PICK z \in Places :
        /\ Plain(w, 3) /\ End(w) = Pose(z, NormalizeTurn(t - u + v))
        /\ \A i \in 1 .. 4 : z[i] = AtLRL(t, u, v, i)
  <2> DEFINE x == Word(<<"L", "R", "L">>, <<Arc(t), Arc(u), Arc(v)>>)
  <2>1. /\ Plain(x, 3)
        /\ \E y \in Places :
             /\ End(x) = Pose(y, NormalizeTurn(t - u + v))
             /\ \A i \in 1 .. 4 : y[i] = AtLRL(t, u, v, i)
    <3>1. LRLLeads(t, u, v)
      BY <1>2, <1>4, EndOfLRL
    <3> QED BY <3>1 DEF LRLLeads
  <2> QED BY <1>2, <2>1
<1>6. \A i \in 1 .. 4 : SameSide(g)[i] = BetweenAt(2, 3 - u, 3, t, i)
  <2>1. 2 \in Int /\ 3 - u \in Int /\ 3 \in Int
    BY <1>2
  <2>2. BetweenTurned(2, 3 - u, 3, t)
    BY <1>2, <2>1, TurnedBetween
  <2> QED BY <1>2, <2>2 DEF BetweenTurned
<1>7. t - u + v \in Int /\ (t - u + v) % 12 = f % 12
  BY <1>2, <1>4
<1>8. ASSUME NEW i \in 1 .. 4 PROVE z[i] = g.z[i]
  <2> DEFINE U(k) == Unit(k)[i]
             A == Unit(t - 3)[i]
             B == Unit(-3)[i]
             F == Unit(f - 3)[i]
             H == Unit(t - u - 3)[i]
             y == g.z[i]
  <2>1. A \in Int /\ U(t - 3) = A /\ U(t + 3) = 0 - A
    <3> DEFINE k == t
    <3>1. k \in Int
      BY <1>2, <1>4
    <3>3. k - 3 = t - 3 /\ k + 3 = t + 3
      BY <1>2, <1>4
    <3> HIDE DEF k
    <3>2. U(k - 3) \in Int /\ U(k + 3) = 0 - U(k - 3)
      BY <3>1, HalfTurn
    <3> QED BY <3>2, <3>3
  <2>2. B \in Int /\ U(-3) = B /\ U(3) = 0 - B
    <3>1. 0 \in Int /\ 0 + 3 = 3 /\ 0 - 3 = -3
      OBVIOUS
    <3>2. U(0 - 3) \in Int /\ U(0 + 3) = 0 - U(0 - 3)
      BY <3>1, HalfTurn
    <3> QED BY <3>1, <3>2
  <2>3. F \in Int /\ U(f - 3) = F /\ U(f + 3) = 0 - F
    <3> DEFINE k == f
    <3>1. k \in Int
      BY <1>2, <1>4
    <3>3. k - 3 = f - 3 /\ k + 3 = f + 3
      BY <1>2, <1>4
    <3> HIDE DEF k
    <3>2. U(k - 3) \in Int /\ U(k + 3) = 0 - U(k - 3)
      BY <3>1, HalfTurn
    <3> QED BY <3>2, <3>3
  <2>4. H \in Int /\ U(t - u - 3) = H /\ U(t - u + 3) = 0 - H
    <3> DEFINE k == t - u
    <3>1. k \in Int
      BY <1>2, <1>4
    <3>3. k - 3 = t - u - 3 /\ k + 3 = t - u + 3
      BY <1>2, <1>4
    <3> HIDE DEF k
    <3>2. U(k - 3) \in Int /\ U(k + 3) = 0 - U(k - 3)
      BY <3>1, HalfTurn
    <3> QED BY <3>2, <3>3
  <2>5. U(t - u + v - 3) = F
    <3>1. t - u + v - 3 \in Int /\ f - 3 \in Int
      BY <1>2, <1>4
    <3>2. (t - u + v - 3) % 12 = (f - 3) % 12
      <4> DEFINE h == t - u + v
      <4>1. h \in Int /\ h % 12 = f % 12
        BY <1>7
      <4>3. t - u + v - 3 = h  - 3
        BY <1>2, <1>4
      <4> HIDE DEF h
      <4>2. (h  - 3) % 12 = (f - 3) % 12
        BY <1>2, <4>1
      <4> QED BY <4>2, <4>3
    <3>3. Unit(t - u + v - 3) = Unit(f - 3)
      BY <3>1, <3>2, UnitModulo
    <3> QED BY <3>3, <2>3
  <2>6. U((3 - u) + t) = 0 - H
    <3>1. (3 - u) + t = t - u + 3
      BY <1>2, <1>4
    <3> QED BY <3>1, <2>4
  <2>7. U(3 + t) = 0 - A
    <3>1. 3 + t = t + 3
      BY <1>2, <1>4
    <3> QED BY <3>1, <2>1
  <2>8. z[i] = (A - B) + ((0 - H) - (0 - A)) + (F - H)
    <3> HIDE DEF U, y, A, B, F, H
    <3>1. z[i] = AtLRL(t, u, v, i)
      BY <1>5
    <3> QED BY <3>1, <2>1, <2>2, <2>3, <2>4, <2>5, <2>6, <2>7 DEF AtLRL, U
  <2>9. y + ((0 - F) - (0 - B)) = 2 * ((0 - H) - (0 - A))
    <3>1. SameSide(g)[i] = y + (U(f + 3) - U(3))
      BY Sides DEF f
    <3> HIDE DEF U, y, A, B, F, H
    <3>2. SameSide(g)[i] = BetweenAt(2, 3 - u, 3, t, i)
      BY <1>6
    <3> QED BY <3>1, <3>2, <2>1, <2>2, <2>3, <2>4, <2>5, <2>6, <2>7 DEF BetweenAt, U
  <2>10. y \in Int
    BY Sides, PartsOfPlaces
  <2> HIDE DEF U, y, A, B, F, H
  <2>11. z[i] = y
    BY <2>8, <2>9, <2>10, <2>1, <2>2, <2>3, <2>4, <2>5, <2>6, <2>7
  <2> QED BY <2>11 DEF y
<1> QED BY <1>5, <1>7, <1>8, Arrived DEF f

\* What LRLRn answers: the vector between the centres, and the rest of the turns.
LEMMA LRLRnIs ==
  ASSUME NEW g \in Goals, NEW p \in LRLRn(g)
  PROVE  /\ p.t \in Int /\ p.u \in Int /\ p.v = NormalizeTurn(p.t - 2 * p.u - g.phi)
         /\ OtherSide(g) = Turned(Middle(p.u), p.t)
<1>1. PICK q \in {Param(t, u, 0) : t \in -6 .. 5, u \in 0 .. 2} :
        /\ OtherSide(g) = Turned(Middle(q.u), q.t)
        /\ p = Param(q.t, q.u, NormalizeTurn(q.t - 2 * q.u - g.phi))
  BY DEF LRLRn, Polar
<1>2. q.t \in Int /\ q.u \in Int
  BY LineAssumption DEF Param, Lines
<1> QED BY <1>1, <1>2 DEF Param

\* The words of LRLRn lead to the goal they were found for.
LEMMA LRLRnWordsArrive ==
  ASSUME NEW g \in Goals, NEW w \in LRLRnWords(g)
  PROVE  Plain(w, 4) /\ LeadsTo(w, g)
<1>1. PICK p \in LRLRn(g) : w = Word(<<"L", "R", "L", "R">>, <<Arc(p.t), Arc(p.u), Arc(-p.u), Arc(p.v)>>)
  BY DEF LRLRnWords
<1> DEFINE t == p.t
           u == p.u
           v == p.v
           f == g.phi
           n == -u
<1>2. /\ t \in Int /\ u \in Int /\ f \in Int /\ v = NormalizeTurn(t - 2 * u - f)
      /\ w = Word(<<"L", "R", "L", "R">>, <<Arc(t), Arc(u), Arc(n), Arc(v)>>)
      /\ OtherSide(g) = Turned(Middle(u), t)
      /\ u \in Int
  BY <1>1, LRLRnIs, Sides
<1>3. /\ n \in Int /\ n = 0 - u
  BY <1>2
<1> HIDE DEF t, u, v, f, n
<1>4. v \in Int /\ v % 12 = (t - 2 * u - f) % 12
  <2>1. t - 2 * u - f \in Int
    BY <1>2, <1>3
  <2> QED BY <1>2, <2>1, NormalizedTurn
<1>5. PICK z \in Places :
        /\ Plain(w, 4) /\ End(w) = Pose(z, NormalizeTurn(t - u + n - v))
        /\ \A i \in 1 .. 4 : z[i] = AtLRLR(t, u, n, v, i)
  <2> DEFINE x == Word(<<"L", "R", "L", "R">>, <<Arc(t), Arc(u), Arc(n), Arc(v)>>)
  <2>1. /\ Plain(x, 4)
        /\ \E y \in Places :
             /\ End(x) = Pose(y, NormalizeTurn(t - u + n - v))
             /\ \A i \in 1 .. 4 : y[i] = AtLRLR(t, u, n, v, i)
    <3>1. LRLRLeads(t, u, n, v)
      BY <1>2, <1>4, <1>3, EndOfLRLR
    <3> QED BY <3>1 DEF LRLRLeads
  <2> QED BY <1>2, <2>1
<1>6. \A i \in 1 .. 4 : OtherSide(g)[i] = MiddleAt(u, t, i)
  <2> QED BY <1>2, TurnedMiddle
<1>7. t - u + n - v \in Int /\ (t - u + n - v) % 12 = f % 12
  <2> DEFINE h == t - u + n
  <2>1. h \in Int /\ t - 2 * u - f = h - f /\ t - u + n - v = h - v
    BY <1>2, <1>3, <1>4
  <2> HIDE DEF h
  <2>2. h - v \in Int /\ (h - v) % 12 = f % 12
    BY <1>2, <1>4, <2>1
  <2> QED BY <2>1, <2>2
<1>8. ASSUME NEW i \in 1 .. 4 PROVE z[i] = g.z[i]
  <2> DEFINE U(k) == Unit(k)[i]
             A == Unit(t - 3)[i]
             B == Unit(-3)[i]
             F == Unit(f - 3)[i]
             H == Unit(t - u - 3)[i]
             K == Unit(t - u + n - 3)[i]
             y == g.z[i]
  <2>1. A \in Int /\ U(t - 3) = A /\ U(t + 3) = 0 - A
    <3> DEFINE k == t
    <3>1. k \in Int
      BY <1>2, <1>3, <1>4
    <3>3. k - 3 = t - 3 /\ k + 3 = t + 3
      BY <1>2, <1>3, <1>4
    <3> HIDE DEF k
    <3>2. U(k - 3) \in Int /\ U(k + 3) = 0 - U(k - 3)
      BY <3>1, HalfTurn
    <3> QED BY <3>2, <3>3
  <2>2. B \in Int /\ U(-3) = B /\ U(3) = 0 - B
    <3>1. 0 \in Int /\ 0 + 3 = 3 /\ 0 - 3 = -3
      OBVIOUS
    <3>2. U(0 - 3) \in Int /\ U(0 + 3) = 0 - U(0 - 3)
      BY <3>1, HalfTurn
    <3> QED BY <3>1, <3>2
  <2>3. F \in Int /\ U(f - 3) = F /\ U(f + 3) = 0 - F
    <3> DEFINE k == f
    <3>1. k \in Int
      BY <1>2, <1>3, <1>4
    <3>3. k - 3 = f - 3 /\ k + 3 = f + 3
      BY <1>2, <1>3, <1>4
    <3> HIDE DEF k
    <3>2. U(k - 3) \in Int /\ U(k + 3) = 0 - U(k - 3)
      BY <3>1, HalfTurn
    <3> QED BY <3>2, <3>3
  <2>4. H \in Int /\ U(t - u - 3) = H /\ U(t - u + 3) = 0 - H
    <3> DEFINE k == t - u
    <3>1. k \in Int
      BY <1>2, <1>3, <1>4
    <3>3. k - 3 = t - u - 3 /\ k + 3 = t - u + 3
      BY <1>2, <1>3, <1>4
    <3> HIDE DEF k
    <3>2. U(k - 3) \in Int /\ U(k + 3) = 0 - U(k - 3)
      BY <3>1, HalfTurn
    <3> QED BY <3>2, <3>3
  <2>5. K \in Int /\ U(t - u + n - 3) = K /\ U(t - u + n + 3) = 0 - K
    <3> DEFINE k == t - u + n
    <3>1. k \in Int
      BY <1>2, <1>3, <1>4
    <3>3. k - 3 = t - u + n - 3 /\ k + 3 = t - u + n + 3
      BY <1>2, <1>3, <1>4
    <3> HIDE DEF k
    <3>2. U(k - 3) \in Int /\ U(k + 3) = 0 - U(k - 3)
      BY <3>1, HalfTurn
    <3> QED BY <3>2, <3>3
  <2>6. U(t - u + n - v + 3) = 0 - F
    <3>1. t - u + n - v + 3 \in Int /\ f + 3 \in Int
      BY <1>2, <1>3, <1>4
    <3>2. (t - u + n - v + 3) % 12 = (f + 3) % 12
      <4> DEFINE h == t - u + n - v
      <4>1. h \in Int /\ h % 12 = f % 12
        BY <1>7
      <4>3. t - u + n - v + 3 = h  + 3
        BY <1>2, <1>3, <1>4
      <4> HIDE DEF h
      <4>2. (h  + 3) % 12 = (f + 3) % 12
        BY <1>2, <4>1
      <4> QED BY <4>2, <4>3
    <3>3. Unit(t - u + n - v + 3) = Unit(f + 3)
      BY <3>1, <3>2, UnitModulo
    <3> QED BY <3>3, <2>3
  <2>7. U(3 + t) = 0 - A
    <3>1. 3 + t = t + 3
      BY <1>2, <1>3, <1>4
    <3> QED BY <3>1, <2>1
  <2>8. U((3 - 2 * u) + t) = 0 - K
    <3>1. (3 - 2 * u) + t = t - u + n + 3
      BY <1>2, <1>3, <1>4
    <3> QED BY <3>1, <2>5
  <2>9. U((3 - u) + t) = 0 - H
    <3>1. (3 - u) + t = t - u + 3
      BY <1>2, <1>3, <1>4
    <3> QED BY <3>1, <2>4
  <2>10. z[i] = (A - B) + ((0 - H) - (0 - A)) + (K - H) + ((0 - F) - (0 - K))
    <3> HIDE DEF U, y, A, B, F, H, K
    <3>1. z[i] = AtLRLR(t, u, n, v, i)
      BY <1>5
    <3> QED BY <3>1, <2>1, <2>2, <2>3, <2>4, <2>5, <2>6, <2>7, <2>8, <2>9 DEF AtLRLR, U
  <2>11. y - ((0 - F) + (0 - B)) = (-2) * (((0 - A) + (0 - K)) - (0 - H))
    <3>1. OtherSide(g)[i] = y - (U(f + 3) + U(3))
      BY Sides DEF f
    <3> HIDE DEF U, y, A, B, F, H, K
    <3>2. OtherSide(g)[i] = MiddleAt(u, t, i)
      BY <1>6
    <3> QED BY <3>1, <3>2, <2>1, <2>2, <2>3, <2>4, <2>5, <2>6, <2>7, <2>8, <2>9 DEF MiddleAt, U
  <2>12. y \in Int
    BY Sides, PartsOfPlaces
  <2> HIDE DEF U, y, A, B, F, H, K
  <2>13. z[i] = y
    BY <2>10, <2>11, <2>12, <2>1, <2>2, <2>3, <2>4, <2>5, <2>6, <2>7, <2>8, <2>9
  <2> QED BY <2>13 DEF y
<1> QED BY <1>5, <1>7, <1>8, Arrived DEF f

\* What LRLRp answers: the vector between the centres, and the rest of the turns.
LEMMA LRLRpIs ==
  ASSUME NEW g \in Goals, NEW p \in LRLRp(g)
  PROVE  /\ p.t \in Int /\ p.u = 0 /\ p.v = NormalizeTurn(p.t - g.phi)
         /\ OtherSide(g) = Turned(Middle(p.u), p.t)
<1>1. PICK q \in {Param(t, u, 0) : t \in -6 .. 5, u \in {0}} :
        /\ OtherSide(g) = Turned(Middle(q.u), q.t)
        /\ p = Param(q.t, 0, NormalizeTurn(q.t - g.phi))
  BY DEF LRLRp, Polar
<1>2. q.t \in Int /\ q.u \in Int /\ q.u = 0
  BY LineAssumption DEF Param, Lines
<1> QED BY <1>1, <1>2 DEF Param

\* The words of LRLRp lead to the goal they were found for.
LEMMA LRLRpWordsArrive ==
  ASSUME NEW g \in Goals, NEW w \in LRLRpWords(g)
  PROVE  Plain(w, 4) /\ LeadsTo(w, g)
<1>1. PICK p \in LRLRp(g) : w = Word(<<"L", "R", "L", "R">>, <<Arc(p.t), Arc(p.u), Arc(p.u), Arc(p.v)>>)
  BY DEF LRLRpWords
<1> DEFINE t == p.t
           u == p.u
           v == p.v
           f == g.phi
           n == u
<1>2. /\ t \in Int /\ u = 0 /\ f \in Int /\ v = NormalizeTurn(t - f)
      /\ w = Word(<<"L", "R", "L", "R">>, <<Arc(t), Arc(u), Arc(n), Arc(v)>>)
      /\ OtherSide(g) = Turned(Middle(u), t)
      /\ u \in Int
  BY <1>1, LRLRpIs, Sides
<1>3. /\ n \in Int /\ n = 0 - u /\ u = 0
  BY <1>2
<1> HIDE DEF t, u, v, f, n
<1>4. v \in Int /\ v % 12 = (t - f) % 12
  <2>1. t - f \in Int
    BY <1>2, <1>3
  <2> QED BY <1>2, <2>1, NormalizedTurn
<1>5. PICK z \in Places :
        /\ Plain(w, 4) /\ End(w) = Pose(z, NormalizeTurn(t - u + n - v))
        /\ \A i \in 1 .. 4 : z[i] = AtLRLR(t, u, n, v, i)
  <2> DEFINE x == Word(<<"L", "R", "L", "R">>, <<Arc(t), Arc(u), Arc(n), Arc(v)>>)
  <2>1. /\ Plain(x, 4)
        /\ \E y \in Places :
             /\ End(x) = Pose(y, NormalizeTurn(t - u + n - v))
             /\ \A i \in 1 .. 4 : y[i] = AtLRLR(t, u, n, v, i)
    <3>1. LRLRLeads(t, u, n, v)
      BY <1>2, <1>4, <1>3, EndOfLRLR
    <3> QED BY <3>1 DEF LRLRLeads
  <2> QED BY <1>2, <2>1
<1>6. \A i \in 1 .. 4 : OtherSide(g)[i] = MiddleAt(u, t, i)
  <2> QED BY <1>2, TurnedMiddle
<1>7. t - u + n - v \in Int /\ (t - u + n - v) % 12 = f % 12
  <2> DEFINE h == t - u + n
  <2>1. h \in Int /\ t - f = h - f /\ t - u + n - v = h - v
    BY <1>2, <1>3, <1>4
  <2> HIDE DEF h
  <2>2. h - v \in Int /\ (h - v) % 12 = f % 12
    BY <1>2, <1>4, <2>1
  <2> QED BY <2>1, <2>2
<1>8. ASSUME NEW i \in 1 .. 4 PROVE z[i] = g.z[i]
  <2> DEFINE U(k) == Unit(k)[i]
             A == Unit(t - 3)[i]
             B == Unit(-3)[i]
             F == Unit(f - 3)[i]
             H == Unit(t - u - 3)[i]
             K == Unit(t - u + n - 3)[i]
             y == g.z[i]
  <2>1. A \in Int /\ U(t - 3) = A /\ U(t + 3) = 0 - A
    <3> DEFINE k == t
    <3>1. k \in Int
      BY <1>2, <1>3, <1>4
    <3>3. k - 3 = t - 3 /\ k + 3 = t + 3
      BY <1>2, <1>3, <1>4
    <3> HIDE DEF k
    <3>2. U(k - 3) \in Int /\ U(k + 3) = 0 - U(k - 3)
      BY <3>1, HalfTurn
    <3> QED BY <3>2, <3>3
  <2>2. B \in Int /\ U(-3) = B /\ U(3) = 0 - B
    <3>1. 0 \in Int /\ 0 + 3 = 3 /\ 0 - 3 = -3
      OBVIOUS
    <3>2. U(0 - 3) \in Int /\ U(0 + 3) = 0 - U(0 - 3)
      BY <3>1, HalfTurn
    <3> QED BY <3>1, <3>2
  <2>3. F \in Int /\ U(f - 3) = F /\ U(f + 3) = 0 - F
    <3> DEFINE k == f
    <3>1. k \in Int
      BY <1>2, <1>3, <1>4
    <3>3. k - 3 = f - 3 /\ k + 3 = f + 3
      BY <1>2, <1>3, <1>4
    <3> HIDE DEF k
    <3>2. U(k - 3) \in Int /\ U(k + 3) = 0 - U(k - 3)
      BY <3>1, HalfTurn
    <3> QED BY <3>2, <3>3
  <2>4. H \in Int /\ U(t - u - 3) = H /\ U(t - u + 3) = 0 - H
    <3> DEFINE k == t - u
    <3>1. k \in Int
      BY <1>2, <1>3, <1>4
    <3>3. k - 3 = t - u - 3 /\ k + 3 = t - u + 3
      BY <1>2, <1>3, <1>4
    <3> HIDE DEF k
    <3>2. U(k - 3) \in Int /\ U(k + 3) = 0 - U(k - 3)
      BY <3>1, HalfTurn
    <3> QED BY <3>2, <3>3
  <2>5. K \in Int /\ U(t - u + n - 3) = K /\ U(t - u + n + 3) = 0 - K
    <3> DEFINE k == t - u + n
    <3>1. k \in Int
      BY <1>2, <1>3, <1>4
    <3>3. k - 3 = t - u + n - 3 /\ k + 3 = t - u + n + 3
      BY <1>2, <1>3, <1>4
    <3> HIDE DEF k
    <3>2. U(k - 3) \in Int /\ U(k + 3) = 0 - U(k - 3)
      BY <3>1, HalfTurn
    <3> QED BY <3>2, <3>3
  <2>6. U(t - u + n - v + 3) = 0 - F
    <3>1. t - u + n - v + 3 \in Int /\ f + 3 \in Int
      BY <1>2, <1>3, <1>4
    <3>2. (t - u + n - v + 3) % 12 = (f + 3) % 12
      <4> DEFINE h == t - u + n - v
      <4>1. h \in Int /\ h % 12 = f % 12
        BY <1>7
      <4>3. t - u + n - v + 3 = h  + 3
        BY <1>2, <1>3, <1>4
      <4> HIDE DEF h
      <4>2. (h  + 3) % 12 = (f + 3) % 12
        BY <1>2, <4>1
      <4> QED BY <4>2, <4>3
    <3>3. Unit(t - u + n - v + 3) = Unit(f + 3)
      BY <3>1, <3>2, UnitModulo
    <3> QED BY <3>3, <2>3
  <2>7. U(3 + t) = 0 - A
    <3>1. 3 + t = t + 3
      BY <1>2, <1>3, <1>4
    <3> QED BY <3>1, <2>1
  <2>8. U((3 - 2 * u) + t) = 0 - K
    <3>1. (3 - 2 * u) + t = t - u + n + 3
      BY <1>2, <1>3, <1>4
    <3> QED BY <3>1, <2>5
  <2>9. U((3 - u) + t) = 0 - H
    <3>1. (3 - u) + t = t - u + 3
      BY <1>2, <1>3, <1>4
    <3> QED BY <3>1, <2>4
  <2>10. z[i] = (A - B) + ((0 - H) - (0 - A)) + (K - H) + ((0 - F) - (0 - K))
    <3> HIDE DEF U, y, A, B, F, H, K
    <3>1. z[i] = AtLRLR(t, u, n, v, i)
      BY <1>5
    <3> QED BY <3>1, <2>1, <2>2, <2>3, <2>4, <2>5, <2>6, <2>7, <2>8, <2>9 DEF AtLRLR, U
  <2>11. y - ((0 - F) + (0 - B)) = (-2) * (((0 - A) + (0 - K)) - (0 - H))
    <3>1. OtherSide(g)[i] = y - (U(f + 3) + U(3))
      BY Sides DEF f
    <3> HIDE DEF U, y, A, B, F, H, K
    <3>2. OtherSide(g)[i] = MiddleAt(u, t, i)
      BY <1>6
    <3> QED BY <3>1, <3>2, <2>1, <2>2, <2>3, <2>4, <2>5, <2>6, <2>7, <2>8, <2>9 DEF MiddleAt, U
  <2>12. y \in Int
    BY Sides, PartsOfPlaces
  <2> HIDE DEF U, y, A, B, F, H, K
  <2>13. z[i] = y
    BY <2>10, <2>11, <2>12, <2>1, <2>2, <2>3, <2>4, <2>5, <2>6, <2>7, <2>8, <2>9
  <2> QED BY <2>13 DEF y
<1> QED BY <1>5, <1>7, <1>8, Arrived DEF f

\* What LRSLR answers: the vector between the centres, and the rest of the turns.
LEMMA LRSLRIs ==
  ASSUME NEW g \in Goals, NEW p \in LRSLR(g)
  PROVE  /\ p.t \in Int /\ p.u \in Int /\ p.v = NormalizeTurn(p.t - g.phi)
         /\ OtherSide(g) = Turned(Less(Times(p.u - 4, Unit(3)), Times(2, Unit(0))), p.t)
<1>1. PICK q \in {Param(t, u, 0) : t \in -6 .. 5, u \in {-u : u \in Lines}} :
        /\ OtherSide(g) = Turned(Less(Times(q.u - 4, Unit(3)), Times(2, Unit(0))), q.t)
        /\ p = Param(q.t, q.u, NormalizeTurn(q.t - g.phi))
  BY DEF LRSLR, Polar
<1>2. q.t \in Int /\ q.u \in Int
  BY LineAssumption DEF Param, Lines
<1> QED BY <1>1, <1>2 DEF Param

\* The words of LRSLR lead to the goal they were found for.
LEMMA LRSLRWordsArrive ==
  ASSUME NEW g \in Goals, NEW w \in LRSLRWords(g)
  PROVE  Plain(w, 5) /\ LeadsTo(w, g)
<1>1. PICK p \in LRSLR(g) : w = Word(<<"L", "R", "S", "L", "R">>, <<Arc(p.t), Arc(-3), Line(p.u), Arc(-3), Arc(p.v)>>)
  BY DEF LRSLRWords
<1> DEFINE t == p.t
           u == p.u
           v == p.v
           f == g.phi
           b == -3
           c == -3
<1>2. /\ t \in Int /\ u \in Int /\ f \in Int /\ v = NormalizeTurn(t - f)
      /\ w = Word(<<"L", "R", "S", "L", "R">>, <<Arc(t), Arc(b), Line(u), Arc(c), Arc(v)>>)
      /\ OtherSide(g) = Turned(Less(Times(u - 4, Unit(3)), Times(2, Unit(0))), t)
      /\ u \in Int
  BY <1>1, LRSLRIs, Sides
<1>3. /\ b \in Int /\ b = 0 - 3
      /\ c \in Int /\ c = 0 - 3
  BY <1>2
<1> HIDE DEF t, u, v, f, b, c
<1>4. v \in Int /\ v % 12 = (t - f) % 12
  <2>1. t - f \in Int
    BY <1>2, <1>3
  <2> QED BY <1>2, <2>1, NormalizedTurn
<1>5. PICK z \in Places :
        /\ Plain(w, 5) /\ End(w) = Pose(z, NormalizeTurn(t - b + c - v))
        /\ \A i \in 1 .. 4 : z[i] = AtLRSLR(t, b, u, c, v, i)
  <2> DEFINE x == Word(<<"L", "R", "S", "L", "R">>, <<Arc(t), Arc(b), Line(u), Arc(c), Arc(v)>>)
  <2>1. /\ Plain(x, 5)
        /\ \E y \in Places :
             /\ End(x) = Pose(y, NormalizeTurn(t - b + c - v))
             /\ \A i \in 1 .. 4 : y[i] = AtLRSLR(t, b, u, c, v, i)
    <3>1. LRSLRLeads(t, b, u, c, v)
      BY <1>2, <1>4, <1>3, EndOfLRSLR
    <3> QED BY <3>1 DEF LRSLRLeads
  <2> QED BY <1>2, <2>1
<1>6. \A i \in 1 .. 4 : OtherSide(g)[i] = LinesAt(u - 4, 3, 2, 0, t, i)
  <2>1. u - 4 \in Int /\ 3 \in Int /\ 2 \in Int /\ 0 \in Int
    BY <1>2
  <2>2. LinesTurned(u - 4, 3, 2, 0, t)
    BY <1>2, <2>1, TurnedLines
  <2> QED BY <1>2, <2>2 DEF LinesTurned
<1>7. t - b + c - v \in Int /\ (t - b + c - v) % 12 = f % 12
  BY <1>2, <1>3, <1>4
<1>8. ASSUME NEW i \in 1 .. 4 PROVE z[i] = g.z[i]
  <2> DEFINE U(k) == Unit(k)[i]
             A == Unit(t - 3)[i]
             B == Unit(-3)[i]
             F == Unit(f - 3)[i]
             E == Unit((t + 3) - 3)[i]
             m == u * Unit(t + 3)[i]
             y == g.z[i]
  <2>1. A \in Int /\ U(t - 3) = A /\ U(t + 3) = 0 - A
    <3> DEFINE k == t
    <3>1. k \in Int
      BY <1>2, <1>3, <1>4
    <3>3. k - 3 = t - 3 /\ k + 3 = t + 3
      BY <1>2, <1>3, <1>4
    <3> HIDE DEF k
    <3>2. U(k - 3) \in Int /\ U(k + 3) = 0 - U(k - 3)
      BY <3>1, HalfTurn
    <3> QED BY <3>2, <3>3
  <2>2. B \in Int /\ U(-3) = B /\ U(3) = 0 - B
    <3>1. 0 \in Int /\ 0 + 3 = 3 /\ 0 - 3 = -3
      OBVIOUS
    <3>2. U(0 - 3) \in Int /\ U(0 + 3) = 0 - U(0 - 3)
      BY <3>1, HalfTurn
    <3> QED BY <3>1, <3>2
  <2>3. F \in Int /\ U(f - 3) = F /\ U(f + 3) = 0 - F
    <3> DEFINE k == f
    <3>1. k \in Int
      BY <1>2, <1>3, <1>4
    <3>3. k - 3 = f - 3 /\ k + 3 = f + 3
      BY <1>2, <1>3, <1>4
    <3> HIDE DEF k
    <3>2. U(k - 3) \in Int /\ U(k + 3) = 0 - U(k - 3)
      BY <3>1, HalfTurn
    <3> QED BY <3>2, <3>3
  <2>4. E \in Int /\ U((t + 3) - 3) = E /\ U((t + 3) + 3) = 0 - E
    <3> DEFINE k == (t + 3)
    <3>1. k \in Int
      BY <1>2, <1>3, <1>4
    <3>3. k - 3 = (t + 3) - 3 /\ k + 3 = (t + 3) + 3
      BY <1>2, <1>3, <1>4
    <3> HIDE DEF k
    <3>2. U(k - 3) \in Int /\ U(k + 3) = 0 - U(k - 3)
      BY <3>1, HalfTurn
    <3> QED BY <3>2, <3>3
  <2>5. U(t - b + c - v + 3) = 0 - F
    <3>1. t - b + c - v + 3 \in Int /\ f + 3 \in Int
      BY <1>2, <1>3, <1>4
    <3>2. (t - b + c - v + 3) % 12 = (f + 3) % 12
      <4> DEFINE h == t - b + c - v
      <4>1. h \in Int /\ h % 12 = f % 12
        BY <1>7
      <4>3. t - b + c - v + 3 = h  + 3
        BY <1>2, <1>3, <1>4
      <4> HIDE DEF h
      <4>2. (h  + 3) % 12 = (f + 3) % 12
        BY <1>2, <4>1
      <4> QED BY <4>2, <4>3
    <3>3. Unit(t - b + c - v + 3) = Unit(f + 3)
      BY <3>1, <3>2, UnitModulo
    <3> QED BY <3>3, <2>3
  <2>6. U(t - b + 3) = 0 - E
    <3>1. t - b + 3 = (t + 3) + 3
      BY <1>2, <1>3, <1>4
    <3> QED BY <3>1, <2>4
  <2>7. U(t - b) = 0 - A
    <3>1. t - b = t + 3
      BY <1>2, <1>3, <1>4
    <3> QED BY <3>1, <2>1
  <2>8. U(t - b + c - 3) = A
    <3>1. t - b + c - 3 = t - 3
      BY <1>2, <1>3, <1>4
    <3> QED BY <3>1, <2>1
  <2>9. U(t - b - 3) = E
    <3>1. t - b - 3 = (t + 3) - 3
      BY <1>2, <1>3, <1>4
    <3> QED BY <3>1, <2>4
  <2>10. U(t - b + c + 3) = 0 - A
    <3>1. t - b + c + 3 = t + 3
      BY <1>2, <1>3, <1>4
    <3> QED BY <3>1, <2>1
  <2>11. U(0 + t) = E
    <3>1. 0 + t = (t + 3) - 3
      BY <1>2, <1>3, <1>4
    <3> QED BY <3>1, <2>4
  <2>12. U(3 + t) = 0 - A
    <3>1. 3 + t = t + 3
      BY <1>2, <1>3, <1>4
    <3> QED BY <3>1, <2>1
  <2>13. m \in Int /\ u * (0 - A) = m
    BY <1>2, <2>1
  <2>14. (u - 4) * (0 - A) = m - 4 * (0 - A)
    BY <1>2, <2>1, <2>13
  <2>15. z[i] = (A - B) + ((0 - E) - (0 - A)) + m + (A - E) + ((0 - F) - (0 - A))
    <3> HIDE DEF U, y, A, B, F, E, m
    <3>1. z[i] = AtLRSLR(t, b, u, c, v, i)
      BY <1>5
    <3> QED BY <3>1, <2>1, <2>2, <2>3, <2>4, <2>5, <2>6, <2>7, <2>8, <2>9, <2>10, <2>11, <2>12, <2>13, <2>14 DEF AtLRSLR, U
  <2>16. y - ((0 - F) + (0 - B)) = (m - 4 * (0 - A)) - 2 * E
    <3>1. OtherSide(g)[i] = y - (U(f + 3) + U(3))
      BY Sides DEF f
    <3> HIDE DEF U, y, A, B, F, E, m
    <3>2. OtherSide(g)[i] = LinesAt(u - 4, 3, 2, 0, t, i)
      BY <1>6
    <3> QED BY <3>1, <3>2, <2>1, <2>2, <2>3, <2>4, <2>5, <2>6, <2>7, <2>8, <2>9, <2>10, <2>11, <2>12, <2>13, <2>14 DEF LinesAt, U
  <2>17. y \in Int
    BY Sides, PartsOfPlaces
  <2> HIDE DEF U, y, A, B, F, E, m
  <2>18. z[i] = y
    BY <2>15, <2>16, <2>17, <2>1, <2>2, <2>3, <2>4, <2>5, <2>6, <2>7, <2>8, <2>9, <2>10, <2>11, <2>12, <2>13, <2>14
  <2> QED BY <2>18 DEF y
<1> QED BY <1>5, <1>7, <1>8, Arrived DEF f

-----------------------------------------------------------------------------
(* The words about a line, and the words backwards *)

\* The words of SLS lead to the goal they were found for.
LEMMA SLSWordsArrive ==
  ASSUME NEW g \in Goals, NEW w \in SLSWords(g)
  PROVE  Plain(w, 3) /\ LeadsTo(w, g)
<1>1. PICK p \in SLS(g) :
        w = Word(<<"S", "L", "S">>, <<Line(p.t), Arc(p.u), Line(p.v)>>)
  BY DEF SLSWords
<1>2. PICK r \in (-MaxLine .. MaxLine) \X (-MaxLine .. MaxLine) :
        /\ g.z = Add(Times(r[1], Unit(0)),
                     Add(Less(Unit(g.phi - 3), Unit(-3)), Times(r[2], Unit(g.phi))))
        /\ p = Param(r[1], NormalizeTurn(g.phi), r[2])
  BY DEF SLS
<1> DEFINE t == r[1]
           v == r[2]
           f == g.phi
           u == NormalizeTurn(f)
<1>3. t \in Int /\ v \in Int /\ f \in Int
  BY LineAssumption DEF Goals
<1>4. u \in Int /\ u % 12 = f % 12
  BY <1>3, NormalizedTurn
<1>5. /\ w = Word(<<"S", "L", "S">>, <<Line(t), Arc(u), Line(v)>>)
      /\ g.z = Add(Times(t, Unit(0)), Add(Less(Unit(f - 3), Unit(-3)), Times(v, Unit(f))))
  BY <1>1, <1>2 DEF Param
<1> HIDE DEF t, v, f, u
<1>6. PICK z \in Places :
        /\ Plain(w, 3) /\ End(w) = Pose(z, NormalizeTurn(u))
        /\ \A i \in 1 .. 4 : z[i] = AtSLS(t, u, v, i)
  <2>1. SLSLeads(t, u, v)
    BY <1>3, <1>4, EndOfSLS
  <2> QED BY <1>5, <2>1 DEF SLSLeads
<1>7. Unit(u) = Unit(f) /\ Unit(u - 3) = Unit(f - 3)
  <2>1. u - 3 \in Int /\ f - 3 \in Int /\ (u - 3) % 12 = (f - 3) % 12
    BY <1>3, <1>4
  <2> QED BY <1>3, <1>4, <2>1, UnitModulo
<1>8. ASSUME NEW i \in 1 .. 4
      PROVE  z[i] = g.z[i]
  <2> DEFINE a == Times(t, Unit(0))
             b == Less(Unit(f - 3), Unit(-3))
             c == Times(v, Unit(f))
             d == Add(b, c)
  <2>1. /\ Unit(0) \in Places /\ Unit(f - 3) \in Places /\ Unit(-3) \in Places
        /\ Unit(f) \in Places
    <3>1. 0 \in Int /\ f - 3 \in Int /\ -3 \in Int /\ f \in Int
      BY <1>3
    <3> QED BY <3>1, UnitCoordinates
  <2>2. /\ a \in Places /\ a[i] = t * Unit(0)[i]
        /\ c \in Places /\ c[i] = v * Unit(f)[i]
    BY <1>3, <2>1, Multiples
  <2>3. b \in Places /\ b[i] = Unit(f - 3)[i] - Unit(-3)[i]
    BY <2>1, Differences
  <2> HIDE DEF a, b, c
  <2>4. d \in Places /\ d[i] = b[i] + c[i]
    BY <2>2, <2>3, Sums
  <2>5. g.z = Add(a, d)
    BY <1>5 DEF a, b, c, d
  <2> HIDE DEF d
  <2>6. g.z[i] = a[i] + d[i]
    BY <2>2, <2>4, <2>5, Sums
  <2>7. z[i] = t * Unit(0)[i] + (Unit(f - 3)[i] - Unit(-3)[i]) + v * Unit(f)[i]
    BY <1>6, <1>7 DEF AtSLS
  <2>8. z[i] = a[i] + b[i] + c[i]
    BY <2>2, <2>3, <2>7
  <2>9. a[i] \in Int /\ b[i] \in Int /\ c[i] \in Int
    BY <2>2, <2>3, PartsOfPlaces
  <2> QED BY <2>4, <2>6, <2>8, <2>9
<1> QED BY <1>4, <1>6, <1>8, Arrived DEF f

\* What an arc adds, turned.
LEMMA TurnedArc ==
  ASSUME NEW x \in Int, NEW y \in Int, NEW k \in Int
  PROVE  Turned(Between(x, y), k) = Between(x + k, y + k)
<1>1. Unit(x) \in Places /\ Unit(y) \in Places
  BY UnitCoordinates
<1>2. Turned(Less(Unit(x), Unit(y)), k) = Less(Turned(Unit(x), k), Turned(Unit(y), k))
  BY <1>1, TurnedDifference
<1>3. Turned(Unit(x), k) = Unit(x + k) /\ Turned(Unit(y), k) = Unit(y + k)
  BY TurnedUnit
<1> QED BY <1>2, <1>3 DEF Between

\* The words of LRL, driven from their end, lead to the goal of the way back.
LEMMA LRLBackwardsArrive ==
  ASSUME NEW g \in Goals, NEW w \in LRLBackwards(g)
  PROVE  Plain(w, 3) /\ LeadsTo(w, Backward(g))
<1>1. PICK p \in LRL(g) :
        w = Word(<<"L", "R", "L">>, <<Arc(p.v), Arc(p.u), Arc(p.t)>>)
  BY DEF LRLBackwards
<1> DEFINE t == p.t
           u == p.u
           v == p.v
           f == g.phi
<1>2. /\ t \in Int /\ u \in Int /\ f \in Int /\ v = NormalizeTurn(f - t + u)
      /\ w = Word(<<"L", "R", "L">>, <<Arc(v), Arc(u), Arc(t)>>)
      /\ SameSide(g) = Turned(Times(2, Less(Unit(3 - u), Unit(3))), t)
  BY <1>1, LRLIs, Sides
<1> HIDE DEF t, u, v, f
<1>3. v \in Int /\ v % 12 = (f - t + u) % 12
  <2>1. f - t + u \in Int
    BY <1>2
  <2> QED BY <1>2, <2>1, NormalizedTurn
<1>4. PICK z \in Places :
        /\ Plain(w, 3) /\ End(w) = Pose(z, NormalizeTurn(v - u + t))
        /\ \A i \in 1 .. 4 : z[i] = AtLRL(v, u, t, i)
  <2>1. LRLLeads(v, u, t)
    BY <1>2, <1>3, EndOfLRL
  <2> QED BY <1>2, <2>1 DEF LRLLeads
<1>5. v - u + t \in Int /\ (v - u + t) % 12 = f % 12
  BY <1>2, <1>3
<1> DEFINE x == (3 - u) + t
           y == 3 + t
           e == f + 3
<1>6. x \in Int /\ y \in Int /\ e \in Int /\ 3 \in Int /\ 2 \in Int
  BY <1>2
<1>7. /\ ((0 - x) + f) % 12 = (v - 3) % 12
      /\ ((0 - y) + f) % 12 = (v - u - 3) % 12
      /\ (0 - x) + f \in Int /\ (0 - y) + f \in Int
      /\ v - 3 \in Int /\ v - u - 3 \in Int
      /\ (-3) + f = f - 3 /\ (0 - e) + f = -3
  BY <1>2, <1>3
<1>8. \A i \in 1 .. 4 : SameSide(g)[i] = 2 * (Unit(x)[i] - Unit(y)[i])
  <2>1. 3 - u \in Int
    BY <1>2
  <2>2. BetweenTurned(2, 3 - u, 3, t)
    BY <1>2, <1>6, <2>1, TurnedBetween
  <2> QED BY <1>2, <2>2 DEF BetweenTurned, BetweenAt
<1> HIDE DEF x, y, e
<1> DEFINE b == Between(x, y)
           s == Times(2, b)
           d == Between(3, e)
           bc == Between(-x, -y)
           sc == Times(2, bc)
           dc == Between(-3, -e)
           bt == Between(v - 3, v - u - 3)
           st == Times(2, bt)
           dt == Between(f - 3, -3)
<1>9. g.z = Add(s, d) /\ s \in Places /\ d \in Places
  <2>1. /\ Unit(x) \in Places /\ Unit(y) \in Places /\ Unit(3) \in Places /\ Unit(e) \in Places
    BY <1>6, UnitCoordinates
  <2>2. /\ b \in Places /\ \A i \in 1 .. 4 : b[i] = Unit(x)[i] - Unit(y)[i]
        /\ d \in Places /\ \A i \in 1 .. 4 : d[i] = Unit(3)[i] - Unit(e)[i]
    BY <2>1, Differences DEF Between
  <2> HIDE DEF b, d
  <2>3. s \in Places /\ \A i \in 1 .. 4 : s[i] = 2 * b[i]
    BY <1>6, <2>2, Multiples
  <2> HIDE DEF s
  <2>4. Add(s, d) \in Places /\ \A i \in 1 .. 4 : Add(s, d)[i] = s[i] + d[i]
    BY <2>2, <2>3, Sums
  <2>5. g.z \in Places /\ \A i \in 1 .. 4 : SameSide(g)[i] = g.z[i] + (Unit(e)[i] - Unit(3)[i])
    BY Sides DEF e, f
  <2>6. ASSUME NEW i \in 1 .. 4 PROVE g.z[i] = Add(s, d)[i]
    <3>1. /\ g.z[i] \in Int /\ Unit(x)[i] \in Int /\ Unit(y)[i] \in Int /\ Unit(3)[i] \in Int
          /\ Unit(e)[i] \in Int
      BY <2>1, <2>5, PartsOfPlaces
    <3>2. g.z[i] + (Unit(e)[i] - Unit(3)[i]) = 2 * (Unit(x)[i] - Unit(y)[i])
      BY <1>8, <2>5
    <3>3. Add(s, d)[i] = 2 * (Unit(x)[i] - Unit(y)[i]) + (Unit(3)[i] - Unit(e)[i])
      BY <2>2, <2>3, <2>4
    <3> QED BY <3>1, <3>2, <3>3
  <2> QED BY <2>2, <2>3, <2>4, <2>5, <2>6, EqualPlaces
<1>10. /\ b \in Places /\ bc \in Places /\ Conjugate(b) = bc
       /\ dc \in Places /\ Conjugate(d) = dc
  <2>1. -x \in Int /\ -y \in Int /\ -3 \in Int /\ -e \in Int
    BY <1>6
  <2> QED BY <1>6, <2>1, BetweenRules
<1>11. Turned(bc, f) = bt /\ Turned(dc, f) = dt /\ bt \in Places /\ dt \in Places
  <2>1. /\ -x \in Int /\ -y \in Int /\ -3 \in Int /\ -e \in Int
        /\ -x = 0 - x /\ -y = 0 - y /\ -e = 0 - e /\ f - 3 \in Int
    BY <1>2, <1>6
  <2>2. Turned(bc, f) = Between((-x) + f, (-y) + f)
    <3> DEFINE a == -x
               c == -y
    <3>1. a \in Int /\ c \in Int
      BY <2>1
    <3> HIDE DEF a, c
    <3>2. Turned(Between(a, c), f) = Between(a + f, c + f)
      BY <1>2, <3>1, TurnedArc
    <3> QED BY <3>2 DEF a, c
  <2>3. Turned(dc, f) = Between((-3) + f, (-e) + f)
    <3> DEFINE a == -3
               c == -e
    <3>1. a \in Int /\ c \in Int
      BY <2>1
    <3> HIDE DEF a, c
    <3>2. Turned(Between(a, c), f) = Between(a + f, c + f)
      BY <1>2, <3>1, TurnedArc
    <3> QED BY <3>2 DEF a, c
  <2>4. Between((0 - x) + f, (0 - y) + f) = bt
    BY <1>7, BetweenModulo
  <2> HIDE DEF bc, dc
  <2>5. bt \in Places /\ dt \in Places
    BY <1>7, <2>1, BetweenRules
  <2> QED BY <1>7, <2>1, <2>2, <2>3, <2>4, <2>5
<1> HIDE DEF b, d, bc, dc, bt, dt
<1>12. Conjugate(g.z) = Add(sc, dc) /\ sc \in Places
  <2>1. Conjugate(Add(s, d)) = Add(Conjugate(s), Conjugate(d))
    BY <1>9, ConjugateSum
  <2>2. Conjugate(s) = sc
    BY <1>6, <1>10, ConjugateMultiple
  <2>3. sc \in Places
    BY <1>6, <1>10, Multiples
  <2> QED BY <1>9, <1>10, <2>1, <2>2, <2>3
<1>13. Turned(Conjugate(g.z), f) = Add(st, dt)
  <2>1. Turned(Add(sc, dc), f) = Add(Turned(sc, f), Turned(dc, f))
    BY <1>2, <1>10, <1>12, TurnedSum
  <2>2. Turned(sc, f) = st
    BY <1>2, <1>6, <1>10, <1>11, TurnedMultiple
  <2> QED BY <1>11, <1>12, <2>1, <2>2
<1>14. st \in Places /\ \A i \in 1 .. 4 : st[i] = 2 * bt[i]
  BY <1>6, <1>11, Multiples
<1> HIDE DEF s, sc, st
<1>15. \A i \in 1 .. 4 : Add(st, dt)[i] = st[i] + dt[i]
  BY <1>11, <1>14, Sums
<1>16. Backward(g).z = Add(st, dt) /\ Backward(g).phi = f /\ Backward(g) \in Goals
  <2>1. Backward(g) \in Goals
    <3>1. [flip |-> FALSE, reflect |-> FALSE] \in Seeing
      BY DEF Seeing
    <3> QED BY <3>1, BackwardRules
  <2> QED BY <1>13, <2>1 DEF Backward, f
<1>17. ASSUME NEW i \in 1 .. 4
       PROVE  z[i] = Add(st, dt)[i]
  <2> DEFINE U(k) == Unit(k)[i]
  <2>1. /\ U(v - 3) \in Int /\ U(v + 3) = 0 - U(v - 3)
        /\ U((v - u) - 3) \in Int /\ U((v - u) + 3) = 0 - U((v - u) - 3)
    <3>1. v - u \in Int
      BY <1>2, <1>3
    <3> QED BY <1>3, <3>1, HalfTurn
  <2>2. U(f - 3) \in Int /\ U(-3) \in Int
    <3>1. f - 3 \in Int /\ -3 \in Int
      BY <1>2
    <3> QED BY <3>1, UnitRules
  <2>3. U(v - u + t - 3) = U(f - 3)
    <3> DEFINE h == v - u + t
    <3>1. h \in Int /\ h % 12 = f % 12 /\ v - u + t - 3 = h - 3
      BY <1>2, <1>3, <1>5
    <3> HIDE DEF h
    <3>2. h - 3 \in Int /\ f - 3 \in Int /\ (h - 3) % 12 = (f - 3) % 12
      BY <1>2, <3>1
    <3>3. Unit(h - 3) = Unit(f - 3)
      BY <3>2, UnitModulo
    <3> QED BY <3>1, <3>3
  <2>4. /\ bt[i] = U(v - 3) - U(v - u - 3)
        /\ dt[i] = U(f - 3) - U(-3)
    <3>1. /\ Unit(v - 3) \in Places /\ Unit(v - u - 3) \in Places
          /\ Unit(f - 3) \in Places /\ Unit(-3) \in Places
      <4>1. f - 3 \in Int /\ -3 \in Int
        BY <1>2
      <4> QED BY <1>7, <4>1, UnitCoordinates
    <3> QED BY <3>1, Differences DEF Between, bt, dt
  <2>5. z[i] = (U(v - 3) - U(-3)) + (U(v - u + 3) - U(v + 3)) + (U(v - u + t - 3) - U(v - u - 3))
    BY <1>4 DEF AtLRL
  <2> HIDE DEF U
  <2>6. Add(st, dt)[i] = 2 * (U(v - 3) - U(v - u - 3)) + (U(f - 3) - U(-3))
    BY <1>14, <1>15, <2>4
  <2> DEFINE V == U(v - 3)
             H == U(v - u - 3)
             F == U(f - 3)
             B == U(-3)
  <2>7. V \in Int /\ H \in Int /\ F \in Int /\ B \in Int
    BY <2>1, <2>2
  <2>8. z[i] = (V - B) + ((0 - H) - (0 - V)) + (F - H)
    BY <2>1, <2>3, <2>5
  <2>9. Add(st, dt)[i] = 2 * (V - H) + (F - B)
    BY <2>6
  <2> HIDE DEF V, H, F, B
  <2> QED BY <2>7, <2>8, <2>9
<1> QED BY <1>4, <1>5, <1>16, <1>17, Arrived

-----------------------------------------------------------------------------
(* What is found in the four ways *)

\* A set of numbers has a least one.
LEMMA LeastNumber ==
  ASSUME NEW S \in SUBSET Nat, S # {}
  PROVE  \E n \in S : \A m \in S : n <= m
<1>1. IsWellFoundedOn(OpToRel(<, Nat), Nat)
  BY NatLessThanWellFounded
<1>2. PICK n \in S : \A m \in S : ~(<<m, n>> \in OpToRel(<, Nat))
  BY <1>1, WFMin
<1>3. \A m \in S : ~(m < n)
  BY <1>2 DEF OpToRel
<1> QED BY <1>3


\* Each of the four ways flips and reflects, or does not.
LEMMA WaysAreSeeing ==
  \A i \in 1 .. 4 : Ways[i] \in Seeing
<1>1. \A i \in 1 .. 4 : i = 1 \/ i = 2 \/ i = 3 \/ i = 4
  OBVIOUS
<1>2. Ways[1] \in Seeing /\ Ways[2] \in Seeing /\ Ways[3] \in Seeing /\ Ways[4] \in Seeing
  BY DEF Ways, Seeing
<1> QED BY <1>1, <1>2

\* The words, and those that lead to a goal.
AllWords == [types : Seq({"L", "R", "S"}), lengths : Seq([arc : Int, line : Int])]
Arrivals(g) == {w \in AllWords : LeadsTo(w, g)}

\* What is found for a goal: one word or none, of those that lead to it.
Fits(only, g) ==
  \E n \in Nat :
    /\ DOMAIN only = 1 .. n
    /\ \A k \in 1 .. n : LeadsTo(only[k], g) /\ \E m : Plain(only[k], m)

\* The word that is picked leads to the goal if all do.
LEMMA OnlyFits ==
  ASSUME NEW words, NEW g, \A w \in words : LeadsTo(w, g) /\ \E m : Plain(w, m)
  PROVE  Fits(Only(words), g)
<1>1. CASE words = {}
  <2>1. Only(words) = << >>
    BY <1>1 DEF Only
  <2>2. DOMAIN << >> = 1 .. 0 /\ 1 .. 0 = {} /\ 0 \in Nat
    OBVIOUS
  <2> QED BY <2>1, <2>2 DEF Fits
<1>2. CASE words # {}
  <2> DEFINE w == CHOOSE x \in words : TRUE
  <2>1. w \in words
    BY <1>2
  <2>2. Only(words) = << w >>
    BY <1>2 DEF Only
  <2> HIDE DEF w
  <2>3. DOMAIN << w >> = 1 .. 1 /\ << w >>[1] = w /\ 1 \in Nat /\ \A k \in 1 .. 1 : k = 1
    OBVIOUS
  <2>4. LeadsTo(w, g) /\ \E m : Plain(w, m)
    BY <2>1
  <2>5. \A k \in 1 .. 1 : LeadsTo(<< w >>[k], g) /\ \E m : Plain(<< w >>[k], m)
    BY <2>3, <2>4
  <2> QED BY <2>2, <2>3, <2>5 DEF Fits
<1> QED BY <1>1, <1>2

\* No word leads anywhere else.
LEMMA NothingFits ==
  ASSUME NEW g
  PROVE  Fits(<< >>, g)
<1>1. DOMAIN << >> = 1 .. 0 /\ 1 .. 0 = {} /\ 0 \in Nat
  OBVIOUS
<1> QED BY <1>1 DEF Fits

\* What a way makes of a word is a word.
LEMMA UsedWord ==
  ASSUME NEW way \in Seeing, NEW w, NEW n, Plain(w, n)
  PROVE  Used(way, w) \in AllWords
<1>1. way.flip \in BOOLEAN /\ way.reflect \in BOOLEAN
  BY DEF Seeing
<1> DEFINE types == [i \in 1 .. n |-> IF way.reflect THEN OtherTurn(w.types[i]) ELSE w.types[i]]
           lengths == [i \in 1 .. n |-> IF way.flip THEN Negative(w.lengths[i]) ELSE w.lengths[i]]
<1>2. Used(way, w) = [types |-> types, lengths |-> lengths] /\ n \in Nat
  BY DEF Used, Word, Plain
<1>3. ASSUME NEW i \in 1 .. n
      PROVE  types[i] \in {"L", "R", "S"} /\ lengths[i] \in [arc : Int, line : Int]
  <2>1. \/ w.types[i] = "S" /\ \E m \in Int : w.lengths[i] = Line(m)
        \/ w.types[i] \in {"L", "R"} /\ \E k \in Int : w.lengths[i] = Arc(k)
    BY DEF Plain
  <2>2. types[i] \in {"L", "R", "S"}
    BY <2>1 DEF OtherTurn
  <2>3. \E a, b \in Int : w.lengths[i] = [arc |-> a, line |-> b]
    BY <2>1 DEF Line, Arc
  <2>4. w.lengths[i] \in [arc : Int, line : Int] /\ Negative(w.lengths[i]) \in [arc : Int, line : Int]
    BY <2>3 DEF Negative
  <2> QED BY <1>1, <2>2, <2>4
<1> HIDE DEF types, lengths
<1>4. types \in Seq({"L", "R", "S"})
  <2>1. types = [i \in 1 .. n |-> types[i]]
    BY DEF types
  <2> QED BY <1>2, <1>3, <2>1
<1>5. lengths \in Seq([arc : Int, line : Int])
  <2>1. lengths = [i \in 1 .. n |-> lengths[i]]
    BY DEF lengths
  <2> DEFINE L == [arc : Int, line : Int]
  <2>2. \A i \in 1 .. n : lengths[i] \in L
    BY <1>3
  <2> HIDE DEF L
  <2>3. lengths \in Seq(L)
    BY <1>2, <2>1, <2>2
  <2> QED BY <2>3 DEF L
<1> QED BY <1>2, <1>4, <1>5 DEF AllWords

\* Words that were found for the mirrored goals are used to drive to the goal itself
\* (the four branches of each family of SetRSP's callers).
LEMMA WaysArrive ==
  ASSUME NEW g \in Goals, NEW found,
         \A i \in 1 .. 4 : Fits(found[i], Mirrored(Ways[i], g))
  PROVE  InWays(found) \in Seq(Arrivals(g))
<1> DEFINE used(i) == [k \in DOMAIN found[i] |-> Used(Ways[i], found[i][k])]
<1>1. ASSUME NEW i \in 1 .. 4
      PROVE  used(i) \in Seq(Arrivals(g))
  <2>1. Ways[i] \in Seeing
    BY WaysAreSeeing
  <2>2. PICK n \in Nat :
          /\ DOMAIN found[i] = 1 .. n
          /\ \A k \in 1 .. n : /\ LeadsTo(found[i][k], Mirrored(Ways[i], g))
                               /\ \E m : Plain(found[i][k], m)
    BY DEF Fits
  <2>3. ASSUME NEW k \in 1 .. n
        PROVE  Used(Ways[i], found[i][k]) \in Arrivals(g)
    <3>1. PICK m : Plain(found[i][k], m)
      BY <2>2
    <3>2. LeadsTo(Used(Ways[i], found[i][k]), g)
      BY <2>1, <2>2, <3>1, UsedArrives
    <3>3. Used(Ways[i], found[i][k]) \in AllWords
      BY <2>1, <3>1, UsedWord
    <3> QED BY <3>2, <3>3 DEF Arrivals
  <2> DEFINE s == [k \in 1 .. n |-> Used(Ways[i], found[i][k])]
  <2>4. used(i) = s
    BY <2>2
  <2>5. s \in Seq(Arrivals(g))
    BY <2>2, <2>3
  <2> QED BY <2>4, <2>5
<1>2. InWays(found) = used(1) \o used(2) \o used(3) \o used(4)
  BY DEF InWays
<1>3. /\ used(1) \in Seq(Arrivals(g)) /\ used(2) \in Seq(Arrivals(g))
      /\ used(3) \in Seq(Arrivals(g)) /\ used(4) \in Seq(Arrivals(g))
  BY <1>1
<1> HIDE DEF used
<1> QED BY <1>2, <1>3

\* A family that gives up keeps words that it had found (SetRSP).
LEMMA FoundArrive ==
  ASSUME NEW A, NEW words \in Seq(A)
  PROVE  Found(words) \in Seq(A)
<1> DEFINE bad == {i \in DOMAIN words : TotalLength(words[i]) = 0}
<1>1. CASE bad = {}
  <2>1. Found(words) = words
    BY <1>1 DEF Found
  <2> QED BY <2>1
<1>2. CASE bad # {}
  <2>1. bad \subseteq 1 .. Len(words) /\ Len(words) \in Nat
    OBVIOUS
  <2> DEFINE m == Min(bad)
  <2>2. Found(words) = SubSeq(words, 1, m - 1)
    BY <1>2 DEF Found
  <2> HIDE DEF bad
  <2>3. PICK x \in bad : \A y \in bad : x <= y
    <3>1. bad \subseteq Nat
      BY <2>1
    <3> QED BY <1>2, <3>1, LeastNumber
  <2>4. m \in bad
    BY <2>3 DEF Min
  <2> HIDE DEF m
  <2>5. m - 1 \in 0 .. Len(words)
    BY <2>1, <2>4
  <2>6. SubSeq(words, 1, m - 1) \in Seq(A)
    BY <2>5
  <2> QED BY <2>2, <2>6
<1> QED BY <1>1, <1>2

-----------------------------------------------------------------------------
(* The families *)

\* So do the words of LSL in each of the ways.
LEMMA LSLFound ==
  ASSUME NEW g \in Goals
  PROVE  InAllWays(g, LSLWords) \in Seq(Arrivals(g))
<1> DEFINE found == [i \in 1 .. 4 |-> Only(LSLWords(Mirrored(Ways[i], g)))]
<1>1. InAllWays(g, LSLWords) = InWays(found)
  BY DEF InAllWays
<1>2. ASSUME NEW i \in 1 .. 4
      PROVE  Fits(found[i], Mirrored(Ways[i], g))
  <2> DEFINE h == Mirrored(Ways[i], g)
  <2>1. h \in Goals
    BY WaysAreSeeing, BackwardRules
  <2> HIDE DEF h
  <2>2. \A w \in LSLWords(h) : LeadsTo(w, h) /\ \E m : Plain(w, m)
    BY <2>1, LSLWordsArrive
  <2>3. Fits(Only(LSLWords(h)), h)
    BY <2>2, OnlyFits
  <2> QED BY <2>3 DEF h
<1> HIDE DEF found
<1> QED BY <1>1, <1>2, WaysArrive

\* So do the words of LSR in each of the ways.
LEMMA LSRFound ==
  ASSUME NEW g \in Goals
  PROVE  InAllWays(g, LSRWords) \in Seq(Arrivals(g))
<1> DEFINE found == [i \in 1 .. 4 |-> Only(LSRWords(Mirrored(Ways[i], g)))]
<1>1. InAllWays(g, LSRWords) = InWays(found)
  BY DEF InAllWays
<1>2. ASSUME NEW i \in 1 .. 4
      PROVE  Fits(found[i], Mirrored(Ways[i], g))
  <2> DEFINE h == Mirrored(Ways[i], g)
  <2>1. h \in Goals
    BY WaysAreSeeing, BackwardRules
  <2> HIDE DEF h
  <2>2. \A w \in LSRWords(h) : LeadsTo(w, h) /\ \E m : Plain(w, m)
    BY <2>1, LSRWordsArrive
  <2>3. Fits(Only(LSRWords(h)), h)
    BY <2>2, OnlyFits
  <2> QED BY <2>3 DEF h
<1> HIDE DEF found
<1> QED BY <1>1, <1>2, WaysArrive

\* So do the words of LRL in each of the ways.
LEMMA LRLFound ==
  ASSUME NEW g \in Goals
  PROVE  InAllWays(g, LRLWords) \in Seq(Arrivals(g))
<1> DEFINE found == [i \in 1 .. 4 |-> Only(LRLWords(Mirrored(Ways[i], g)))]
<1>1. InAllWays(g, LRLWords) = InWays(found)
  BY DEF InAllWays
<1>2. ASSUME NEW i \in 1 .. 4
      PROVE  Fits(found[i], Mirrored(Ways[i], g))
  <2> DEFINE h == Mirrored(Ways[i], g)
  <2>1. h \in Goals
    BY WaysAreSeeing, BackwardRules
  <2> HIDE DEF h
  <2>2. \A w \in LRLWords(h) : LeadsTo(w, h) /\ \E m : Plain(w, m)
    BY <2>1, LRLWordsArrive
  <2>3. Fits(Only(LRLWords(h)), h)
    BY <2>2, OnlyFits
  <2> QED BY <2>3 DEF h
<1> HIDE DEF found
<1> QED BY <1>1, <1>2, WaysArrive

\* So do the words of LRLRn in each of the ways.
LEMMA LRLRnFound ==
  ASSUME NEW g \in Goals
  PROVE  InAllWays(g, LRLRnWords) \in Seq(Arrivals(g))
<1> DEFINE found == [i \in 1 .. 4 |-> Only(LRLRnWords(Mirrored(Ways[i], g)))]
<1>1. InAllWays(g, LRLRnWords) = InWays(found)
  BY DEF InAllWays
<1>2. ASSUME NEW i \in 1 .. 4
      PROVE  Fits(found[i], Mirrored(Ways[i], g))
  <2> DEFINE h == Mirrored(Ways[i], g)
  <2>1. h \in Goals
    BY WaysAreSeeing, BackwardRules
  <2> HIDE DEF h
  <2>2. \A w \in LRLRnWords(h) : LeadsTo(w, h) /\ \E m : Plain(w, m)
    BY <2>1, LRLRnWordsArrive
  <2>3. Fits(Only(LRLRnWords(h)), h)
    BY <2>2, OnlyFits
  <2> QED BY <2>3 DEF h
<1> HIDE DEF found
<1> QED BY <1>1, <1>2, WaysArrive

\* So do the words of LRLRp in each of the ways.
LEMMA LRLRpFound ==
  ASSUME NEW g \in Goals
  PROVE  InAllWays(g, LRLRpWords) \in Seq(Arrivals(g))
<1> DEFINE found == [i \in 1 .. 4 |-> Only(LRLRpWords(Mirrored(Ways[i], g)))]
<1>1. InAllWays(g, LRLRpWords) = InWays(found)
  BY DEF InAllWays
<1>2. ASSUME NEW i \in 1 .. 4
      PROVE  Fits(found[i], Mirrored(Ways[i], g))
  <2> DEFINE h == Mirrored(Ways[i], g)
  <2>1. h \in Goals
    BY WaysAreSeeing, BackwardRules
  <2> HIDE DEF h
  <2>2. \A w \in LRLRpWords(h) : LeadsTo(w, h) /\ \E m : Plain(w, m)
    BY <2>1, LRLRpWordsArrive
  <2>3. Fits(Only(LRLRpWords(h)), h)
    BY <2>2, OnlyFits
  <2> QED BY <2>3 DEF h
<1> HIDE DEF found
<1> QED BY <1>1, <1>2, WaysArrive

\* So do the words of LRSLR in each of the ways.
LEMMA LRSLRFound ==
  ASSUME NEW g \in Goals
  PROVE  InAllWays(g, LRSLRWords) \in Seq(Arrivals(g))
<1> DEFINE found == [i \in 1 .. 4 |-> Only(LRSLRWords(Mirrored(Ways[i], g)))]
<1>1. InAllWays(g, LRSLRWords) = InWays(found)
  BY DEF InAllWays
<1>2. ASSUME NEW i \in 1 .. 4
      PROVE  Fits(found[i], Mirrored(Ways[i], g))
  <2> DEFINE h == Mirrored(Ways[i], g)
  <2>1. h \in Goals
    BY WaysAreSeeing, BackwardRules
  <2> HIDE DEF h
  <2>2. \A w \in LRSLRWords(h) : LeadsTo(w, h) /\ \E m : Plain(w, m)
    BY <2>1, LRSLRWordsArrive
  <2>3. Fits(Only(LRSLRWords(h)), h)
    BY <2>2, OnlyFits
  <2> QED BY <2>3 DEF h
<1> HIDE DEF found
<1> QED BY <1>1, <1>2, WaysArrive

\* Driven backwards, the words of LRL lead to the goal of the way back.
LEMMA BackwardsFound ==
  ASSUME NEW g \in Goals
  PROVE  InAllWays(Backward(g), LRLBackwards) \in Seq(Arrivals(g))
<1> DEFINE b == Backward(g)
           found == [i \in 1 .. 4 |-> Only(LRLBackwards(Mirrored(Ways[i], b)))]
<1>1. InAllWays(b, LRLBackwards) = InWays(found)
  BY DEF InAllWays
<1>2. ASSUME NEW i \in 1 .. 4
      PROVE  Fits(found[i], Mirrored(Ways[i], g))
  <2> DEFINE h == Mirrored(Ways[i], b)
             k == Mirrored(Ways[i], g)
  <2>1. Ways[i] \in Seeing
    BY WaysAreSeeing
  <2>2. /\ b \in Goals /\ Backward(b) = g
        /\ h = Backward(k) /\ k \in Goals
    BY <2>1, BackwardRules
  <2>3. h \in Goals /\ Backward(h) = k
    BY <2>1, <2>2, BackwardRules
  <2> HIDE DEF b, h, k
  <2>4. \A w \in LRLBackwards(h) : LeadsTo(w, k) /\ \E m : Plain(w, m)
    BY <2>3, LRLBackwardsArrive
  <2>5. Fits(Only(LRLBackwards(h)), k)
    BY <2>4, OnlyFits
  <2> QED BY <2>5 DEF h, k
<1> HIDE DEF found
<1> QED BY <1>1, <1>2, WaysArrive

\* SLS is used as it is, and mirrored.
LEMMA SLSFound ==
  ASSUME NEW g \in Goals
  PROVE  InWays(<<Only(SLSWords(g)), << >>, Only(SLSWords(Mirrored(Ways[3], g))), << >>>>)
           \in Seq(Arrivals(g))
<1> DEFINE h == Mirrored(Ways[3], g)
           a == Only(SLSWords(g))
           b == Only(SLSWords(h))
           found == <<a, << >>, b, << >>>>
<1>1. h \in Goals
  <2>1. 3 \in 1 .. 4
    OBVIOUS
  <2> QED BY <2>1, WaysAreSeeing, BackwardRules
<1>2. Mirrored(Ways[1], g) = g
  BY DEF Mirrored, Ways, Goals
<1>3. Fits(a, g)
  BY SLSWordsArrive, OnlyFits
<1>4. Fits(b, h)
  <2> HIDE DEF h
  <2>1. \A w \in SLSWords(h) : LeadsTo(w, h) /\ \E m : Plain(w, m)
    BY <1>1, SLSWordsArrive
  <2> QED BY <2>1, OnlyFits
<1>5. ASSUME NEW i \in 1 .. 4
      PROVE  Fits(found[i], Mirrored(Ways[i], g))
  <2>1. i = 1 \/ i = 2 \/ i = 3 \/ i = 4
    OBVIOUS
  <2>2. found[1] = a /\ found[2] = << >> /\ found[3] = b /\ found[4] = << >>
    OBVIOUS
  <2> HIDE DEF a, b, found
  <2> QED BY <1>2, <1>3, <1>4, <2>1, <2>2, NothingFits
<1> HIDE DEF found
<1>6. InWays(found) \in Seq(Arrivals(g))
  BY <1>5, WaysArrive
<1> QED BY <1>6 DEF found

\* Sequences of such words hold no others.
LEMMA Arrivers ==
  ASSUME NEW g, NEW words \in Seq(Arrivals(g))
  PROVE  \A i \in DOMAIN words : LeadsTo(words[i], g)
BY DEF Arrivals

\* Every word of the families SLS, LSL, LSR, LRL, LRLRn, LRLRp and LRSLR, and whatever the
\* four ways make of it, ends at the goal it was found for: for every goal and every
\* longest line (SCS, CSC, CCC, CCCC and CCSCC of reeds_shepp_path.cc).
THEOREM WordsAlwaysArrive ==
  ASSUME NEW g \in Goals
  PROVE  WordsArrive(g)
<1> DEFINE A == Seq(Arrivals(g))
<1>1. SCS(g) \in A
  BY SLSFound, FoundArrive DEF SCS
<1>2. CSC(g) \in A
  <2>1. InAllWays(g, LSLWords) \o InAllWays(g, LSRWords) \in A
    BY LSLFound, LSRFound
  <2> QED BY <2>1, FoundArrive DEF CSC
<1>3. CCC(g) \in A
  <2>1. InAllWays(g, LRLWords) \o InAllWays(Backward(g), LRLBackwards) \in A
    BY LRLFound, BackwardsFound
  <2> QED BY <2>1, FoundArrive DEF CCC
<1>4. CCCC(g) \in A
  <2>1. InAllWays(g, LRLRnWords) \o InAllWays(g, LRLRpWords) \in A
    BY LRLRnFound, LRLRpFound
  <2> QED BY <2>1, FoundArrive DEF CCCC
<1>5. CCSCC(g) \in A
  BY LRSLRFound, FoundArrive DEF CCSCC
<1>6. \A words \in A : \A i \in DOMAIN words : LeadsTo(words[i], g)
  BY Arrivers
<1> HIDE DEF A
<1> QED BY <1>1, <1>2, <1>3, <1>4, <1>5, <1>6 DEF WordsArrive

-----------------------------------------------------------------------------
(* Stations *)

\* What holds of 0 and, with a number, of the next one holds of all.
LEMMA SetInduction ==
  ASSUME NEW S \in SUBSET Nat, 0 \in S, \A n \in S : n + 1 \in S
  PROVE  S = Nat
<1> SUFFICES ASSUME Nat \ S # {} PROVE FALSE
  OBVIOUS
<1>1. PICK n \in Nat \ S : \A m \in Nat \ S : n <= m
  BY LeastNumber
<1>2. n # 0 /\ n - 1 \in Nat /\ n - 1 \in S
  BY <1>1
<1> QED BY <1>1, <1>2

\* A quotient is at least what times the divisor is no more.
LEMMA QuotientIs ==
  ASSUME NEW u \in Nat \ {0}, NEW b \in Int
  PROVE  b \div u \in Int /\ \A a \in Int : a * u <= b => a <= b \div u
<1>1. b \div u \in Int
  OBVIOUS
<1>2. ASSUME NEW a \in Int, a * u <= b PROVE a <= b \div u
  BY <1>2
<1> QED BY <1>1, <1>2

\* The direction of a length, and how long it is.
LEMMA SignRules ==
  ASSUME NEW l \in Int \ {0}
  PROVE  /\ (Sign(l) = 1 /\ l > 0) \/ (Sign(l) = -1 /\ l < 0)
         /\ l * Sign(l) \in Nat \ {0} /\ l * Sign(l) = Magnitude(l)
<1>1. l > 0 \/ l < 0
  OBVIOUS
<1>2. l * 1 = l /\ l * (-1) = -l
  OBVIOUS
<1>3. CASE l > 0
  <2>1. Sign(l) = 1 /\ Magnitude(l) = l
    BY <1>3 DEF Sign, Magnitude
  <2>2. l * Sign(l) = l
    BY <1>2, <2>1
  <2>3. l * Sign(l) \in Nat \ {0}
    BY <1>3, <2>2
  <2> QED BY <1>3, <2>1, <2>2, <2>3
<1>4. CASE l < 0
  <2>1. Sign(l) = -1 /\ Magnitude(l) = -l
    BY <1>4 DEF Sign, Magnitude
  <2>2. l * Sign(l) = -l
    BY <1>2, <2>1
  <2> QED BY <1>4, <2>1, <2>2
<1> QED BY <1>1, <1>3, <1>4

\* Lengths have a positive product when they are driven in the same direction, a
\* negative one otherwise.
LEMMA SignsAgree ==
  ASSUME NEW a \in Int \ {0}, NEW b \in Int \ {0}
  PROVE  /\ a * b > 0 <=> Sign(a) = Sign(b)
         /\ a * b < 0 <=> Sign(a) + Sign(b) = 0
<1>1. \A x, y \in Nat \ {0} : x * y > 0 /\ x * (-y) < 0 /\ (-x) * y < 0 /\ (-x) * (-y) > 0
  OBVIOUS
<1>w. PICK w \in Int : w = a * b
  OBVIOUS
<1>2. ASSUME a > 0, b > 0 PROVE (w > 0 <=> Sign(a) = Sign(b)) /\ (w < 0 <=> Sign(a) + Sign(b) = 0)
  <2>1. w > 0
    BY <1>w, <1>1, <1>2
  <2>2. Sign(a) = 1 /\ Sign(b) = 1
    BY <1>2 DEF Sign
  <2> QED BY <2>1, <2>2
<1>3. ASSUME a > 0, b < 0 PROVE (w > 0 <=> Sign(a) = Sign(b)) /\ (w < 0 <=> Sign(a) + Sign(b) = 0)
  <2>1. -b \in Nat \ {0} /\ -(-b) = b
    BY <1>3
  <2>2. w < 0
    BY <1>w, <1>1, <1>3, <2>1
  <2>3. Sign(a) = 1 /\ Sign(b) = -1
    BY <1>3 DEF Sign
  <2>4. Sign(a) # Sign(b)
    BY <2>3
  <2>5. Sign(a) + Sign(b) = 0
    BY <2>3
  <2> QED BY <2>2, <2>4, <2>5
<1>4. ASSUME a < 0, b > 0 PROVE (w > 0 <=> Sign(a) = Sign(b)) /\ (w < 0 <=> Sign(a) + Sign(b) = 0)
  <2>1. -a \in Nat \ {0} /\ -(-a) = a
    BY <1>4
  <2>2. w < 0
    BY <1>w, <1>1, <1>4, <2>1
  <2>3. Sign(a) = -1 /\ Sign(b) = 1
    BY <1>4 DEF Sign
  <2>4. Sign(a) # Sign(b)
    BY <2>3
  <2>5. Sign(a) + Sign(b) = 0
    BY <2>3
  <2> QED BY <2>2, <2>4, <2>5
<1>5. ASSUME a < 0, b < 0 PROVE (w > 0 <=> Sign(a) = Sign(b)) /\ (w < 0 <=> Sign(a) + Sign(b) = 0)
  <2>1. -a \in Nat \ {0} /\ -(-a) = a /\ -b \in Nat \ {0} /\ -(-b) = b
    BY <1>5
  <2>2. w > 0
    BY <1>w, <1>1, <2>1
  <2>3. Sign(a) = -1 /\ Sign(b) = -1
    BY <1>5 DEF Sign
  <2> QED BY <2>2, <2>3
<1>6. (w > 0 <=> Sign(a) = Sign(b)) /\ (w < 0 <=> Sign(a) + Sign(b) = 0)
  BY <1>2, <1>3, <1>4, <1>5
<1> QED BY <1>w, <1>6

\* Seen along a segment of length m, a walk that begins at e and takes steps of u has c
\* stations on it.
Walks(m, e, u, c) ==
  /\ c = 0 => e > m \/ e < -m
  /\ c > 0 => -m <= e /\ e + c * u - u <= m /\ m < e + c * u

\* The stations on a segment begin where the walk has come to, and end before the
\* first that would be beyond either end.
LEMMA OnSegmentIs ==
  ASSUME NEW l \in Int \ {0}, NEW pd \in Int, NEW u \in Nat \ {0}
  PROVE  \E c \in Nat :
           /\ OnSegment(l, pd, u * Sign(l)) = [k \in 1 .. c |-> pd + (k - 1) * (u * Sign(l))]
           /\ Walks(l * Sign(l), pd * Sign(l), u, c)
<1>s. PICK s \in {1, -1} : s = Sign(l)
  BY SignRules
<1>m. PICK m \in Nat \ {0} : m = l * s
  BY <1>s, SignRules
<1>e. PICK e \in Int : e = pd * s
  BY <1>s
<1> DEFINE d == u * s
           far(n) == (IF pd + n * d < 0 THEN -(pd + n * d) ELSE pd + n * d) > l * s
           S == {n \in 0 .. 2 * l * s + 2 : far(n)}
           past(n) == e + n * u > m \/ e + n * u < -m
<1>1. \A n \in Int : n * u \in Int /\ n * d = (n * u) * s /\ d \in Int
  BY <1>s
<1>2. \A n \in Int : far(n) <=> past(n)
  <2> SUFFICES ASSUME NEW n \in Int PROVE far(n) <=> past(n)
    OBVIOUS
  <2>1. PICK w \in Int : w = n * u
    BY <1>1
  <2>2. n * d = w * s
    BY <1>1, <2>1
  <2>3. far(n) <=> (IF pd + w * s < 0 THEN -(pd + w * s) ELSE pd + w * s) > m
    BY <1>m, <2>2
  <2>4. past(n) <=> e + w > m \/ e + w < -m
    BY <2>1
  <2> HIDE DEF far, past, d
  <2>5. CASE s = 1
    <3>1. pd = e /\ w * s = w
      BY <1>e, <2>5
    <3> QED BY <2>3, <2>4, <3>1, <1>m
  <2>6. CASE s = -1
    <3>1. pd = -e /\ w * s = -w
      BY <1>e, <2>6
    <3> QED BY <2>3, <2>4, <3>1, <1>m
  <2> QED BY <2>5, <2>6
<1>3. 2 * l * s = 2 * m
  BY <1>m, <1>s
<1>4. \E n \in 0 .. 2 * m + 2 : past(n)
  <2>1. CASE past(0)
    BY <2>1, <1>m
  <2>2. CASE ~past(0)
    <3>1. e >= -m
      <4>1. 0 * u = 0
        OBVIOUS
      <4> QED BY <2>2, <4>1, <1>m, <1>e
    <3>2. (2 * m + 1) * u >= 2 * m + 1
      <4>1. \A a, b \in Nat \ {0} : a * b >= a
        OBVIOUS
      <4>2. 2 * m + 1 \in Nat \ {0}
        OBVIOUS
      <4> QED BY <4>1, <4>2
    <3>3. PICK w \in Int : w = (2 * m + 1) * u
      OBVIOUS
    <3>4. e + w > m
      BY <3>1, <3>2, <3>3
    <3>5. past(2 * m + 1)
      BY <3>3, <3>4
    <3> QED BY <3>5, <1>m
  <2> QED BY <2>1, <2>2
<1>5. S = {n \in 0 .. 2 * m + 2 : past(n)}
  <2>1. 0 .. 2 * m + 2 \in SUBSET Int
    OBVIOUS
  <2> HIDE DEF far, past
  <2> QED BY <1>2, <1>3, <2>1
<1>6. S \in SUBSET Nat /\ S # {}
  <2> HIDE DEF past
  <2>1. 0 .. 2 * m + 2 \in SUBSET Nat
    BY <1>m
  <2> HIDE DEF S
  <2> QED BY <1>4, <1>5, <2>1
<1>7. Min(S) \in S /\ \A n \in S : Min(S) <= n
  <2> HIDE DEF S
  <2>1. \E n \in S : \A k \in S : n <= k
    BY <1>6, LeastNumber
  <2> QED BY <2>1 DEF Min
<1>8. PICK c \in Nat : c = Min(S)
  <2> HIDE DEF S
  <2> QED BY <1>6, <1>7
<1>9. OnSegment(l, pd, u * Sign(l)) = [k \in 1 .. c |-> pd + (k - 1) * (u * Sign(l))]
  BY <1>8, <1>s DEF OnSegment
<1>10. past(c) /\ c <= 2 * m + 2
  <2>1. c \in S
    <3> HIDE DEF S
    <3> QED BY <1>7, <1>8
  <2>2. c \in 0 .. 2 * m + 2 /\ past(c)
    <3> HIDE DEF far, past
    <3> QED BY <1>5, <2>1
  <2> QED BY <2>2, <1>m
<1>11. \A n \in 0 .. c - 1 : ~past(n)
  <2> SUFFICES ASSUME NEW n \in 0 .. c - 1, past(n) PROVE FALSE
    OBVIOUS
  <2>1. n \in 0 .. 2 * m + 2
    BY <1>10, <1>m
  <2>2. n \in S
    <3> HIDE DEF past
    <3> QED BY <1>5, <2>1
  <2>3. c <= n
    <3> HIDE DEF S, past
    <3> QED BY <1>7, <1>8, <2>2
  <2> QED BY <2>3
<1>12. Walks(m, e, u, c)
  <2>1. c = 0 => e > m \/ e < -m
    <3>1. 0 * u = 0
      OBVIOUS
    <3> QED BY <1>10, <3>1, <1>e
  <2>2. ASSUME c > 0 PROVE -m <= e /\ e + c * u - u <= m /\ m < e + c * u
    <3>1. ~past(0) /\ ~past(c - 1)
      <4> HIDE DEF past
      <4> QED BY <1>11, <2>2
    <3>2. 0 * u = 0 /\ (c - 1) * u = c * u - u /\ c * u \in Int
      OBVIOUS
    <3>3. PICK w \in Int : w = c * u
      BY <3>2
    <3>4. e >= -m
      BY <3>1, <3>2, <1>m, <1>e
    <3>5. e + w - u <= m
      <4>1. (c - 1) * u = w - u
        BY <3>2, <3>3
      <4> QED BY <3>1, <4>1, <1>m, <1>e
    <3>6. e + w > m \/ e + w < -m
      BY <1>10, <3>3
    <3>7. w >= u
      BY <2>2, <3>3
    <3>8. m < e + w
      BY <3>4, <3>6, <3>7
    <3> QED BY <3>3, <3>4, <3>5, <3>8
  <2> QED BY <2>1, <2>2 DEF Walks
<1> QED BY <1>9, <1>12, <1>m, <1>e, <1>s

Stns == [seg : Nat, pd : Int]

\* What a segment makes of the stations before it.
Walked(lengths, step, i, before) ==
  LET d == step * Sign(lengths[i])
      pd == IF i > 1 /\ lengths[i-1] * lengths[i] > 0 THEN -d - before.ll ELSE d - before.ll
      on == OnSegment(lengths[i], pd, d)
  IN [out |-> (IF i = 1 THEN << >> ELSE Front(before.out))
              \o [k \in 1 .. Len(on) + 1 |->
                    [seg |-> i, pd |-> IF k <= Len(on) THEN on[k] ELSE lengths[i]]],
      ll |-> lengths[i] - (pd + Len(on) * d) - d]

WalkSteps(lengths, step, n, f) ==
  [i \in 0 .. n |-> IF i = 0 THEN [out |-> << >>, ll |-> 0]
                    ELSE Walked(lengths, step, i, f[i-1])]

\* There are such stations, however many segments there are.
LEMMA WalkExists ==
  ASSUME NEW lengths, NEW step, NEW n \in Nat
  PROVE  \E f : f = WalkSteps(lengths, step, n, f)
<1> DEFINE P == {m \in Nat : \E f : f = WalkSteps(lengths, step, m, f)}
<1>1. 0 \in P
  <2> DEFINE f == [i \in 0 .. 0 |-> [out |-> << >>, ll |-> 0]]
  <2>1. \A i \in 0 .. 0 : i = 0
    OBVIOUS
  <2>2. f = WalkSteps(lengths, step, 0, f)
    BY <2>1 DEF WalkSteps
  <2> QED BY <2>2
<1>2. ASSUME NEW m \in P PROVE m + 1 \in P
  <2>1. PICK f : f = WalkSteps(lengths, step, m, f)
    OBVIOUS
  <2> DEFINE next == Walked(lengths, step, m + 1, f[m])
             g == [i \in 0 .. m + 1 |-> IF i <= m THEN f[i] ELSE next]
  <2>2. \A i \in 0 .. m + 1 :
          g[i] = IF i = 0 THEN [out |-> << >>, ll |-> 0] ELSE Walked(lengths, step, i, g[i-1])
    <3> SUFFICES ASSUME NEW i \in 0 .. m + 1
                 PROVE  g[i] = IF i = 0 THEN [out |-> << >>, ll |-> 0]
                               ELSE Walked(lengths, step, i, g[i-1])
      OBVIOUS
    <3>1. CASE i <= m
      <4>1. i \in 0 .. m /\ (i = 0 \/ i - 1 \in 0 .. m)
        BY <3>1
      <4>2. g[i] = f[i] /\ (i = 0 \/ g[i-1] = f[i-1])
        BY <4>1
      <4>3. f[i] = IF i = 0 THEN [out |-> << >>, ll |-> 0] ELSE Walked(lengths, step, i, f[i-1])
        BY <2>1, <4>1 DEF WalkSteps
      <4> HIDE DEF g, next
      <4> QED BY <4>2, <4>3
    <3>2. CASE i = m + 1
      <4>1. m \in 0 .. m + 1 /\ m <= m /\ i # 0 /\ i - 1 = m /\ ~(m + 1 <= m)
        BY <3>2
      <4>2. g[m] = f[m] /\ g[i] = next
        BY <3>2, <4>1
      <4> HIDE DEF g
      <4> QED BY <3>2, <4>1, <4>2
    <3> QED BY <3>1, <3>2
  <2>3. g = WalkSteps(lengths, step, m + 1, g)
    <3>1. g = [i \in 0 .. m + 1 |-> g[i]]
      OBVIOUS
    <3> HIDE DEF g
    <3> QED BY <2>2, <3>1 DEF WalkSteps
  <2> HIDE DEF g
  <2> QED BY <2>3
<1>3. P = Nat
  <2> HIDE DEF P
  <2>1. P \in SUBSET Nat
    BY DEF P
  <2> QED BY <1>1, <1>2, <2>1, SetInduction
<1> QED BY <1>3

\* The stations are those of such a walk.
LEMMA WalkOfStations ==
  ASSUME NEW lengths, NEW step, Len(lengths) \in Nat
  PROVE  \E f : /\ f = WalkSteps(lengths, step, Len(lengths), f)
                /\ Stations(lengths, step) = f[Len(lengths)].out
<1> DEFINE walk == CHOOSE f : f = WalkSteps(lengths, step, Len(lengths), f)
<1>1. walk = WalkSteps(lengths, step, Len(lengths), walk)
  <2>1. \E f : f = WalkSteps(lengths, step, Len(lengths), f)
    BY WalkExists
  <2> QED BY <2>1
<1>2. Stations(lengths, step) = walk[Len(lengths)].out
  BY DEF Stations, WalkSteps, Walked
<1> QED BY <1>1, <1>2

SumSteps(a, n, f) == [k \in 0 .. n |-> IF k = 0 THEN 0 ELSE f[k-1] + a[k]]

\* There are the sums of the first numbers of a list.
LEMMA SumsExist ==
  ASSUME NEW n \in Nat, NEW a \in [1 .. n -> Int], NEW f, f = CHOOSE g : g = SumSteps(a, n, g)
  PROVE  /\ f \in [0 .. n -> Int]
         /\ f[0] = 0
         /\ \A k \in 1 .. n : f[k] = f[k-1] + a[k]
<1> DEFINE P == {m \in Nat : m <= n => \E g \in [0 .. m -> Int] : g = SumSteps(a, m, g)}
<1>1. 0 \in P
  <2> DEFINE g == [k \in 0 .. 0 |-> 0]
  <2>1. \A k \in 0 .. 0 : k = 0
    OBVIOUS
  <2>2. g \in [0 .. 0 -> Int] /\ g = SumSteps(a, 0, g)
    BY <2>1 DEF SumSteps
  <2> QED BY <2>2
<1>2. ASSUME NEW m \in P PROVE m + 1 \in P
  <2> SUFFICES ASSUME m + 1 <= n
               PROVE  \E g \in [0 .. m + 1 -> Int] : g = SumSteps(a, m + 1, g)
    OBVIOUS
  <2>1. PICK g \in [0 .. m -> Int] : g = SumSteps(a, m, g)
    OBVIOUS
  <2> DEFINE h == [k \in 0 .. m + 1 |-> IF k <= m THEN g[k] ELSE g[m] + a[m + 1]]
  <2>2. a[m + 1] \in Int /\ g[m] \in Int
    <3>1. m + 1 \in 1 .. n /\ m \in 0 .. m
      OBVIOUS
    <3> QED BY <3>1
  <2>3. h \in [0 .. m + 1 -> Int]
    <3>1. \A k \in 0 .. m + 1 : k <= m => k \in 0 .. m
      OBVIOUS
    <3> QED BY <2>2, <3>1
  <2>4. \A k \in 0 .. m + 1 : h[k] = IF k = 0 THEN 0 ELSE h[k-1] + a[k]
    <3> SUFFICES ASSUME NEW k \in 0 .. m + 1
                 PROVE  h[k] = IF k = 0 THEN 0 ELSE h[k-1] + a[k]
      OBVIOUS
    <3>1. CASE k <= m
      <4>1. k \in 0 .. m /\ (k = 0 \/ k - 1 \in 0 .. m)
        BY <3>1
      <4>2. h[k] = g[k] /\ (k = 0 \/ h[k-1] = g[k-1])
        BY <4>1
      <4>3. g[k] = IF k = 0 THEN 0 ELSE g[k-1] + a[k]
        BY <2>1, <4>1 DEF SumSteps
      <4> HIDE DEF h
      <4> QED BY <4>2, <4>3
    <3>2. CASE k = m + 1
      <4>1. m \in 0 .. m + 1 /\ m <= m /\ k # 0 /\ k - 1 = m /\ ~(m + 1 <= m)
        BY <3>2
      <4>2. h[m] = g[m] /\ h[k] = g[m] + a[m + 1]
        BY <3>2, <4>1
      <4> HIDE DEF h
      <4> QED BY <3>2, <4>1, <4>2
    <3> QED BY <3>1, <3>2
  <2>5. h = SumSteps(a, m + 1, h)
    <3>1. h = [k \in 0 .. m + 1 |-> h[k]]
      OBVIOUS
    <3> HIDE DEF h
    <3> QED BY <2>4, <3>1 DEF SumSteps
  <2> HIDE DEF h
  <2> QED BY <2>3, <2>5
<1>3. P = Nat
  <2> HIDE DEF P
  <2>1. P \in SUBSET Nat
    BY DEF P
  <2> QED BY <1>1, <1>2, <2>1, SetInduction
<1>4. f = SumSteps(a, n, f)
  <2>1. \E g : g = SumSteps(a, n, g)
    BY <1>3
  <2> QED BY <2>1
<1>5. f[0] = 0 /\ \A k \in 1 .. n : f[k] = f[k-1] + a[k]
  <2>1. \A k \in 0 .. n : f[k] = IF k = 0 THEN 0 ELSE f[k-1] + a[k]
    BY <1>4 DEF SumSteps
  <2>2. 0 \in 0 .. n /\ \A k \in 1 .. n : k \in 0 .. n /\ k # 0
    OBVIOUS
  <2> HIDE DEF P
  <2> QED BY <2>1, <2>2
<1>6. \A k \in 0 .. n : f[k] \in Int
  <2> DEFINE Q == {m \in Nat : m <= n => f[m] \in Int}
  <2>1. 0 \in Q
    BY <1>5
  <2>2. ASSUME NEW m \in Q PROVE m + 1 \in Q
    <3> SUFFICES ASSUME m + 1 <= n PROVE f[m + 1] \in Int
      OBVIOUS
    <3>1. m + 1 \in 1 .. n /\ (m + 1) - 1 = m
      OBVIOUS
    <3>2. f[m + 1] = f[(m + 1) - 1] + a[m + 1]
      BY <1>5, <3>1
    <3>3. f[m] \in Int /\ a[m + 1] \in Int
      BY <3>1
    <3> HIDE DEF Q
    <3> QED BY <3>1, <3>2, <3>3
  <2>3. Q = Nat
    <3> HIDE DEF Q
    <3>1. Q \in SUBSET Nat
      BY DEF Q
    <3> QED BY <2>1, <2>2, <3>1, SetInduction
  <2> QED BY <2>3
<1>7. f \in [0 .. n -> Int]
  <2>1. f = [k \in 0 .. n |-> f[k]]
    BY <1>4 DEF SumSteps
  <2> QED BY <1>6, <2>1
<1> QED BY <1>5, <1>7

Lengths == {l \in Seq(Int \ {0}) : l # << >>}

\* The way to the end of a segment is that to its begin, and the segment.
LEMMA WaysAre ==
  ASSUME NEW lengths \in Lengths
  PROVE  /\ WayTo(lengths, 0) = 0
         /\ \A i \in 0 .. Len(lengths) : WayTo(lengths, i) \in Int
         /\ \A i \in 1 .. Len(lengths) : WayTo(lengths, i) = WayTo(lengths, i - 1) + lengths[i]
<1>1. PICK n \in Nat : n = Len(lengths)
  BY DEF Lengths
<1>2. lengths \in [1 .. n -> Int]
  BY <1>1 DEF Lengths
<1> DEFINE way == CHOOSE f : f = SumSteps(lengths, n, f)
<1>3. \A i : WayTo(lengths, i) = way[i]
  BY <1>1 DEF WayTo, SumSteps
<1>4. /\ way \in [0 .. n -> Int] /\ way[0] = 0
      /\ \A k \in 1 .. n : way[k] = way[k-1] + lengths[k]
  BY <1>2, SumsExist
<1> HIDE DEF way
<1> QED BY <1>1, <1>3, <1>4

\* There is room for a station every step along the whole word, and some more.
LEMMA PointNumIs ==
  ASSUME NEW lengths \in Lengths, NEW step \in Nat \ {0}
  PROVE  \E total \in [0 .. Len(lengths) -> Int] :
           /\ total[0] = 0
           /\ \A i \in 1 .. Len(lengths) : total[i] = total[i-1] + lengths[i] * Sign(lengths[i])
           /\ PointNum(lengths, step) = (total[Len(lengths)] \div step) + Len(lengths) + 4
<1>1. PICK n \in Nat : n = Len(lengths)
  BY DEF Lengths
<1> DEFINE a == [i \in 1 .. n |-> lengths[i] * Sign(lengths[i])]
           F(g) == [i \in 0 .. n |-> IF i = 0 THEN 0 ELSE g[i-1] + lengths[i] * Sign(lengths[i])]
           total == CHOOSE f : f = SumSteps(a, n, f)
           sums == CHOOSE f : f = F(f)
<1>2. a \in [1 .. n -> Int]
  <2>1. \A i \in 1 .. n : lengths[i] \in Int \ {0}
    BY <1>1 DEF Lengths
  <2>2. \A i \in 1 .. n : lengths[i] * Sign(lengths[i]) \in Int
    BY <2>1, SignRules
  <2> QED BY <2>2
<1>3. \A f : SumSteps(a, n, f) = F(f)
  <2>1. \A i \in 0 .. n : i = 0 \/ a[i] = lengths[i] * Sign(lengths[i])
    OBVIOUS
  <2> HIDE DEF a
  <2> QED BY <2>1 DEF SumSteps
<1>4. PointNum(lengths, step) = (sums[n] \div step) + n + 4
  BY <1>1 DEF PointNum
<1>5. total = sums
  <2> HIDE DEF a, F
  <2> QED BY <1>3
<1>6. /\ total \in [0 .. n -> Int] /\ total[0] = 0
      /\ \A k \in 1 .. n : total[k] = total[k-1] + a[k]
  <2> HIDE DEF a
  <2> QED BY <1>2, SumsExist
<1>7. \A k \in 1 .. n : a[k] = lengths[k] * Sign(lengths[k])
  OBVIOUS
<1> HIDE DEF total, a, sums
<1> QED BY <1>1, <1>4, <1>5, <1>6, <1>7

\* The stations on a segment, from pd on.
OnStations(i, pd, d, c) == [k \in 1 .. c |-> [seg |-> i, pd |-> pd + (k - 1) * d]]
EndOf(i, l) == [seg |-> i, pd |-> l]

\* A walk over the segments: the stations kept before each begins, and how far from its
\* begin the next one would be.
IsWalk(lengths, step, kept, e, c) ==
  /\ kept[0] = << >> /\ e[0] = step * Sign(lengths[1])
  /\ \A i \in 1 .. Len(lengths) :
       /\ kept[i] = kept[i-1] \o OnStations(i, e[i-1], step * Sign(lengths[i]), c[i])
       /\ e[i] = e[i-1] + c[i] * (step * Sign(lengths[i])) - lengths[i]
       /\ Walks(lengths[i] * Sign(lengths[i]), e[i-1] * Sign(lengths[i]), step, c[i])

PointsOn(pd, d, c) == [k \in 1 .. c |-> pd + (k - 1) * d]
TailOf(i, on, l) ==
  [k \in 1 .. Len(on) + 1 |-> [seg |-> i, pd |-> IF k <= Len(on) THEN on[k] ELSE l]]

KeepsTail(kept, i, pd, d, c, l) ==
  /\ kept \o OnStations(i, pd, d, c) \in Seq(Stns)
  /\ kept \o TailOf(i, PointsOn(pd, d, c), l)
       = Append(kept \o OnStations(i, pd, d, c), EndOf(i, l))
  /\ Front(kept \o TailOf(i, PointsOn(pd, d, c), l)) = kept \o OnStations(i, pd, d, c)

\* The end of a segment is the last station when it is done.
LEMMA FrontOfTail ==
  ASSUME NEW i \in Nat, NEW pd \in Int, NEW d \in Int, NEW c \in Nat, NEW l \in Int,
         NEW kept \in Seq(Stns)
  PROVE  KeepsTail(kept, i, pd, d, c, l)
<1>on. PICK on : on = PointsOn(pd, d, c)
  OBVIOUS
<1>out. PICK out : out = kept \o TailOf(i, on, l)
  OBVIOUS
<1> DEFINE tail == [k \in 1 .. c + 1 |-> [seg |-> i, pd |-> IF k <= c THEN on[k] ELSE l]]
           body == OnStations(i, pd, d, c)
<1>1. Len(on) = c /\ on = [k \in 1 .. c |-> pd + (k - 1) * d]
  BY <1>on DEF PointsOn
<1>2. out = kept \o tail
  BY <1>1, <1>out DEF TailOf
<1>3. body \in Seq(Stns) /\ Len(body) = c
      /\ \A k \in 1 .. c : body[k] = [seg |-> i, pd |-> on[k]]
  <2>1. \A k \in 1 .. c : pd + (k - 1) * d \in Int
    OBVIOUS
  <2>2. \A k \in 1 .. c : [seg |-> i, pd |-> pd + (k - 1) * d] \in Stns
    BY <2>1 DEF Stns
  <2>3. body \in [1 .. c -> Stns]
    BY <2>2 DEF OnStations
  <2>4. \A k \in 1 .. c : body[k] = [seg |-> i, pd |-> on[k]]
    BY <1>1 DEF OnStations
  <2> HIDE DEF body
  <2> QED BY <2>3, <2>4
<1>4. EndOf(i, l) \in Stns
  BY DEF EndOf, Stns
<1> HIDE DEF body
<1>5. tail \in Seq(Stns) /\ Len(tail) = c + 1
      /\ \A k \in 1 .. c + 1 : tail[k] = IF k <= c THEN body[k] ELSE EndOf(i, l)
  <2>1. \A k \in 1 .. c + 1 : IF k <= c THEN k \in 1 .. c /\ on[k] \in Int ELSE TRUE
    BY <1>1
  <2>2. tail \in [1 .. c + 1 -> Stns]
    <3>1. \A k \in 1 .. c + 1 : [seg |-> i, pd |-> IF k <= c THEN on[k] ELSE l] \in Stns
      BY <2>1 DEF Stns
    <3> QED BY <3>1
  <2>3. \A k \in 1 .. c + 1 : tail[k] = IF k <= c THEN body[k] ELSE EndOf(i, l)
    BY <1>3, <2>1 DEF EndOf
  <2> HIDE DEF tail
  <2> QED BY <2>2, <2>3
<1> HIDE DEF tail
<1>6. kept \o body \in Seq(Stns) /\ Len(kept \o body) = Len(kept) + c
      /\ \A k \in 1 .. Len(kept) + c :
           (kept \o body)[k] = IF k <= Len(kept) THEN kept[k] ELSE body[k - Len(kept)]
  BY <1>3, ConcatProperties
<1>7. out = Append(kept \o body, EndOf(i, l))
  <2>1. out \in Seq(Stns) /\ Len(out) = Len(kept) + c + 1
        /\ \A k \in 1 .. Len(kept) + c + 1 :
             out[k] = IF k <= Len(kept) THEN kept[k] ELSE tail[k - Len(kept)]
    <3>1. /\ kept \o tail \in Seq(Stns)
          /\ Len(kept \o tail) = Len(kept) + Len(tail)
          /\ \A k \in 1 .. Len(kept) + Len(tail) :
               (kept \o tail)[k] = IF k <= Len(kept) THEN kept[k] ELSE tail[k - Len(kept)]
      BY <1>5, ConcatProperties
    <3>2. Len(kept) + Len(tail) = Len(kept) + c + 1
      BY <1>5
    <3> QED BY <1>2, <3>1, <3>2
  <2> DEFINE q == kept \o body
             N == Len(kept) + c
  <2>2. /\ Append(q, EndOf(i, l)) \in Seq(Stns) /\ Len(Append(q, EndOf(i, l))) = N + 1
        /\ \A k \in 1 .. N : Append(q, EndOf(i, l))[k] = q[k]
        /\ Append(q, EndOf(i, l))[N + 1] = EndOf(i, l)
    <3> HIDE DEF q
    <3> QED BY <1>4, <1>6, AppendProperties DEF q
  <2>3. ASSUME NEW k \in 1 .. N + 1 PROVE out[k] = Append(q, EndOf(i, l))[k]
    <3>1. CASE k <= Len(kept)
      <4>1. k \in 1 .. N
        BY <3>1
      <4> QED BY <1>6, <2>1, <2>2, <3>1, <4>1
    <3>2. CASE k > Len(kept) /\ k <= N
      <4>1. k \in 1 .. N /\ k - Len(kept) \in 1 .. c + 1 /\ k - Len(kept) <= c
        BY <3>2
      <4>2. out[k] = tail[k - Len(kept)]
        <5>1. k \in 1 .. Len(kept) + c + 1 /\ ~(k <= Len(kept))
          BY <3>2
        <5> QED BY <2>1, <5>1
      <4>3. tail[k - Len(kept)] = body[k - Len(kept)]
        BY <1>5, <4>1
      <4>4. q[k] = body[k - Len(kept)]
        BY <1>6, <3>2, <4>1
      <4> QED BY <2>2, <4>1, <4>2, <4>3, <4>4
    <3>3. CASE k = N + 1
      <4>1. k - Len(kept) = c + 1 /\ ~(k <= Len(kept)) /\ c + 1 \in 1 .. c + 1 /\ ~(c + 1 <= c)
        BY <3>3
      <4>2. out[k] = EndOf(i, l)
        BY <1>5, <2>1, <3>3, <4>1
      <4> QED BY <2>2, <3>3, <4>2
    <3>4. k <= Len(kept) \/ (k > Len(kept) /\ k <= N) \/ k = N + 1
      <4>1. PICK h \in Nat : h = Len(kept)
        OBVIOUS
      <4>2. k \in Int
        OBVIOUS
      <4> QED BY <4>1, <4>2
    <3> QED BY <3>1, <3>2, <3>3, <3>4
  <2> HIDE DEF q
  <2>4. out = Append(q, EndOf(i, l))
    BY <2>1, <2>2, <2>3, SeqEqual
  <2> QED BY <2>4 DEF q
<1>8. Front(out) = kept \o body
  <2>1. PICK q \in Seq(Stns) : q = kept \o body
    BY <1>6
  <2>2. PICK x \in Stns : x = EndOf(i, l)
    BY <1>4
  <2>3. Front(Append(q, x)) = q
    BY DEF Front
  <2> QED BY <1>7, <2>1, <2>2, <2>3
<1> QED BY <1>on, <1>out, <1>6, <1>7, <1>8 DEF body, KeepsTail

\* The stations are those a walk keeps, and the end of the word.
LEMMA StationsWalk ==
  ASSUME NEW lengths \in Lengths, NEW step \in Nat \ {0}
  PROVE  \E kept \in [0 .. Len(lengths) -> Seq(Stns)] : \E e \in [0 .. Len(lengths) -> Int] :
         \E c \in [1 .. Len(lengths) -> Nat] :
           /\ IsWalk(lengths, step, kept, e, c)
           /\ Stations(lengths, step) =
                Append(kept[Len(lengths)], EndOf(Len(lengths), lengths[Len(lengths)]))
<1>n. PICK n \in Nat : n = Len(lengths) /\ n >= 1
  BY DEF Lengths
<1>l. lengths \in [1 .. n -> Int \ {0}]
  BY <1>n DEF Lengths
<1>1. PICK f : f = WalkSteps(lengths, step, n, f) /\ Stations(lengths, step) = f[n].out
  BY <1>n, WalkOfStations
<1> DEFINE d == [i \in 1 .. n |-> step * Sign(lengths[i])]
           first(i) == IF i > 1 /\ lengths[i-1] * lengths[i] > 0 THEN -d[i] - f[i-1].ll
                       ELSE d[i] - f[i-1].ll
           on(i) == OnSegment(lengths[i], first(i), d[i])
           c == [i \in 1 .. n |-> Len(on(i))]
           e == [i \in 0 .. n |-> IF i = 0 THEN d[1] ELSE -d[i] - f[i].ll]
           kept == [i \in 0 .. n |-> IF i = 0 THEN << >> ELSE Front(f[i].out)]
<1>2. \A i \in 1 .. n : d[i] \in Int /\ d[i] = step * Sign(lengths[i])
  <2>1. \A i \in 1 .. n : Sign(lengths[i]) \in Int
    BY DEF Sign
  <2> QED BY <2>1
<1>3. f[0].ll = 0
  BY <1>1 DEF WalkSteps
<1>4. \A i \in 1 .. n : f[i] = Walked(lengths, step, i, f[i-1])
  BY <1>1 DEF WalkSteps
<1>5. ASSUME NEW i \in 1 .. n
      PROVE  /\ f[i].ll = lengths[i] - (first(i) + Len(on(i)) * d[i]) - d[i]
             /\ f[i].out = (IF i = 1 THEN << >> ELSE Front(f[i-1].out))
                           \o [k \in 1 .. Len(on(i)) + 1 |->
                                 [seg |-> i, pd |-> IF k <= Len(on(i)) THEN on(i)[k]
                                                    ELSE lengths[i]]]
  <2>1. f[i] = Walked(lengths, step, i, f[i-1]) /\ d[i] = step * Sign(lengths[i])
    BY <1>2, <1>4
  <2> HIDE DEF d
  <2> QED BY <2>1 DEF Walked
<1>6. ASSUME NEW i \in 1 .. n, f[i-1].ll \in Int
      PROVE  /\ first(i) \in Int /\ Len(on(i)) \in Nat
             /\ on(i) = [k \in 1 .. Len(on(i)) |-> first(i) + (k - 1) * d[i]]
             /\ Walks(lengths[i] * Sign(lengths[i]), first(i) * Sign(lengths[i]), step, Len(on(i)))
  <2>1. PICK pd \in Int : pd = first(i)
    <3>1. d[i] \in Int
      BY <1>2
    <3> HIDE DEF d
    <3> QED BY <1>6, <3>1
  <2>2. lengths[i] \in Int \ {0} /\ d[i] = step * Sign(lengths[i])
    BY <1>l, <1>2
  <2> HIDE DEF first, d
  <2>3. PICK m \in Nat : /\ on(i) = [k \in 1 .. m |-> pd + (k - 1) * d[i]]
                         /\ Walks(lengths[i] * Sign(lengths[i]), pd * Sign(lengths[i]), step, m)
    BY <2>1, <2>2, OnSegmentIs
  <2>4. Len(on(i)) = m
    <3> HIDE DEF on
    <3> QED BY <2>3
  <2> HIDE DEF on
  <2> QED BY <2>1, <2>3, <2>4
<1>7. \A i \in 0 .. n : f[i].ll \in Int
  <2> DEFINE Q == {m \in Nat : m <= n => f[m].ll \in Int}
  <2>1. 0 \in Q
    BY <1>3
  <2>2. ASSUME NEW m \in Q PROVE m + 1 \in Q
    <3> SUFFICES ASSUME m + 1 <= n PROVE f[m + 1].ll \in Int
      OBVIOUS
    <3>1. m + 1 \in 1 .. n /\ (m + 1) - 1 = m /\ m <= n
      OBVIOUS
    <3>2. f[m].ll \in Int
      BY <3>1
    <3> HIDE DEF Q, d, first, on
    <3>3. first(m + 1) \in Int /\ Len(on(m + 1)) \in Nat
      BY <1>6, <3>1, <3>2
    <3>4. f[m + 1].ll = lengths[m + 1] - (first(m + 1) + Len(on(m + 1)) * d[m + 1]) - d[m + 1]
      BY <1>5, <3>1
    <3>5. lengths[m + 1] \in Int /\ d[m + 1] \in Int
      BY <1>l, <1>2, <3>1
    <3>6. \A a, b, x, y \in Int : a - (b + x * y) - y \in Int
      OBVIOUS
    <3> QED BY <3>3, <3>4, <3>5, <3>6
  <2>3. Q = Nat
    <3> HIDE DEF Q
    <3>1. Q \in SUBSET Nat
      BY DEF Q
    <3> QED BY <2>1, <2>2, <3>1, SetInduction
  <2> HIDE DEF d
  <2> QED BY <2>3
<1>8. /\ \A i \in 0 .. n : e[i] \in Int
      /\ e[0] = d[1]
      /\ \A i \in 1 .. n : e[i] = -d[i] - f[i].ll
  <2>1. 1 \in 1 .. n
    BY <1>n
  <2>2. \A i \in 0 .. n : i = 0 \/ i \in 1 .. n
    OBVIOUS
  <2> HIDE DEF d
  <2> QED BY <1>2, <1>7, <2>1, <2>2
<1>9. ASSUME NEW i \in 1 .. n PROVE first(i) = e[i-1]
  <2>1. d[i] \in Int /\ f[i-1].ll \in Int
    <3>1. i - 1 \in 0 .. n
      OBVIOUS
    <3> QED BY <1>2, <1>7, <3>1
  <2>2. CASE i = 1
    <3>1. i - 1 = 0 /\ ~(i > 1)
      BY <2>2
    <3>2. first(i) = d[1] - 0
      <4> HIDE DEF d
      <4> QED BY <1>3, <2>2, <3>1
    <3> HIDE DEF first, d, e
    <3> QED BY <1>8, <2>1, <2>2, <3>1, <3>2
  <2>3. CASE i > 1
    <3>1. i - 1 \in 1 .. n
      BY <2>3
    <3>2. PICK a \in Int \ {0} : a = lengths[i-1]
      BY <1>l, <3>1
    <3>3. PICK b \in Int \ {0} : b = lengths[i]
      BY <1>l
    <3>4. e[i-1] = -d[i-1] - f[i-1].ll
      BY <1>8, <3>1
    <3>5. d[i-1] = step * Sign(a) /\ d[i] = step * Sign(b)
      BY <1>2, <3>1, <3>2, <3>3
    <3>6. first(i) = IF a * b > 0 THEN -d[i] - f[i-1].ll ELSE d[i] - f[i-1].ll
      <4> HIDE DEF d
      <4> QED BY <2>3, <3>2, <3>3
    <3>7. a * b > 0 <=> Sign(a) = Sign(b)
      BY SignsAgree
    <3>8. Sign(a) \in {1, -1} /\ Sign(b) \in {1, -1}
      BY DEF Sign
    <3>9. step * 1 = step /\ step * (-1) = -step
      OBVIOUS
    <3> HIDE DEF d, e, first
    <3>10. Sign(a) = Sign(b) => d[i] = d[i-1]
      BY <3>5
    <3>11. Sign(a) # Sign(b) => d[i] = -d[i-1] /\ d[i-1] \in Int
      BY <3>5, <3>8, <3>9
    <3> QED BY <2>1, <3>4, <3>6, <3>7, <3>10, <3>11
  <2>4. i = 1 \/ i > 1
    OBVIOUS
  <2> HIDE DEF d, e, first
  <2> QED BY <2>2, <2>3, <2>4
<1>10. c \in [1 .. n -> Nat] /\ \A i \in 1 .. n : c[i] = Len(on(i))
  <2>1. \A i \in 1 .. n : Len(on(i)) \in Nat
    <3> HIDE DEF on, first, d
    <3>1. \A i \in 1 .. n : f[i-1].ll \in Int
      <4>1. \A i \in 1 .. n : i - 1 \in 0 .. n
        OBVIOUS
      <4> QED BY <1>7, <4>1
    <3> QED BY <1>6, <3>1
  <2> HIDE DEF on
  <2> QED BY <2>1
<1>11. \A i \in 1 .. n : kept[i] = Front(f[i].out) /\ i - 1 \in 0 .. n
  OBVIOUS
<1>12. kept[0] = << >> /\ kept = [i \in 0 .. n |-> kept[i]]
  OBVIOUS
<1>13. e = [i \in 0 .. n |-> e[i]]
  OBVIOUS
<1> HIDE DEF c, e, kept
<1>14. ASSUME NEW i \in 1 .. n
       PROVE  /\ on(i) = [k \in 1 .. c[i] |-> e[i-1] + (k - 1) * d[i]]
              /\ Walks(lengths[i] * Sign(lengths[i]), e[i-1] * Sign(lengths[i]), step, c[i])
              /\ e[i] = e[i-1] + c[i] * d[i] - lengths[i]
  <2>1. f[i-1].ll \in Int /\ first(i) = e[i-1] /\ c[i] = Len(on(i))
    <3> HIDE DEF d, first, on
    <3> QED BY <1>7, <1>9, <1>10, <1>11
  <2> HIDE DEF d, first, on
  <2>2. e[i] = -d[i] - (lengths[i] - (e[i-1] + c[i] * d[i]) - d[i])
    BY <1>5, <1>8, <2>1
  <2>3. e[i-1] \in Int /\ c[i] \in Int /\ d[i] \in Int /\ lengths[i] \in Int
    BY <1>2, <1>8, <1>10, <1>11, <1>l
  <2>4. PICK w \in Int : w = c[i] * d[i]
    BY <2>3
  <2>5. e[i] = e[i-1] + c[i] * d[i] - lengths[i]
    BY <2>2, <2>3, <2>4
  <2> QED BY <1>6, <2>1, <2>5
<1> HIDE DEF on, first
<1>15. ASSUME NEW i \in 1 .. n, kept[i-1] \in Seq(Stns)
       PROVE  /\ kept[i] = kept[i-1] \o OnStations(i, e[i-1], d[i], c[i])
              /\ kept[i] \in Seq(Stns)
              /\ f[i].out = Append(kept[i], EndOf(i, lengths[i]))
  <2>1. f[i].out = kept[i-1] \o [k \in 1 .. Len(on(i)) + 1 |->
                        [seg |-> i, pd |-> IF k <= Len(on(i)) THEN on(i)[k] ELSE lengths[i]]]
    <3>1. kept[i-1] = IF i = 1 THEN << >> ELSE Front(f[i-1].out)
      <4>1. i = 1 \/ i - 1 \in 1 .. n
        OBVIOUS
      <4>2. 1 - 1 = 0
        OBVIOUS
      <4>3. CASE i = 1
        BY <1>12, <4>2, <4>3
      <4>4. CASE i # 1
        BY <1>11, <4>1, <4>4
      <4> QED BY <4>3, <4>4
    <3> HIDE DEF d
    <3> QED BY <1>5, <3>1
  <2>2. e[i-1] \in Int /\ c[i] \in Nat /\ d[i] \in Int /\ lengths[i] \in Int /\ i \in Nat
    <3> HIDE DEF d
    <3> QED BY <1>2, <1>8, <1>10, <1>11, <1>l
  <2>3. PICK q : q = on(i)
    OBVIOUS
  <2>4. q = [k \in 1 .. c[i] |-> e[i-1] + (k - 1) * d[i]]
    <3> HIDE DEF d
    <3> QED BY <1>14, <2>3
  <2>5. PICK D \in Int : D = d[i]
    <3> HIDE DEF d
    <3> QED BY <2>2
  <2>6. PICK E \in Int : E = e[i-1]
    BY <2>2
  <2>7. PICK K \in Seq(Stns) : K = kept[i-1]
    BY <1>15
  <2>8. PICK l \in Int : l = lengths[i]
    BY <2>2
  <2>9. PICK m \in Nat : m = c[i]
    BY <2>2
  <2>10. PICK out : out = f[i].out
    OBVIOUS
  <2> HIDE DEF d
  <2>11. out = K \o TailOf(i, q, l)
    BY <2>1, <2>3, <2>7, <2>8, <2>10 DEF TailOf
  <2>12. q = PointsOn(E, D, m)
    BY <2>4, <2>5, <2>6, <2>9 DEF PointsOn
  <2>13. /\ K \o OnStations(i, E, D, m) \in Seq(Stns)
         /\ out = Append(K \o OnStations(i, E, D, m), EndOf(i, l))
         /\ Front(out) = K \o OnStations(i, E, D, m)
    <3>1. out = K \o TailOf(i, PointsOn(E, D, m), l)
      BY <2>11, <2>12
    <3>2. i \in Nat
      BY <2>2
    <3>3. KeepsTail(K, i, E, D, m, l)
      BY <3>2, FrontOfTail
    <3> QED BY <3>1, <3>3 DEF KeepsTail
  <2>14. kept[i] = K \o OnStations(i, E, D, m)
    BY <1>11, <2>10, <2>13
  <2> QED BY <2>5, <2>6, <2>7, <2>8, <2>9, <2>10, <2>13, <2>14
<1> HIDE DEF d
<1>16. \A i \in 0 .. n : kept[i] \in Seq(Stns)
  <2> DEFINE Q == {m \in Nat : m <= n => kept[m] \in Seq(Stns)}
  <2>1. 0 \in Q
    <3>1. << >> \in Seq(Stns)
      OBVIOUS
    <3>2. kept[0] \in Seq(Stns)
      BY <1>12, <3>1
    <3> QED BY <3>2
  <2>2. ASSUME NEW m \in Q PROVE m + 1 \in Q
    <3> SUFFICES ASSUME m + 1 <= n PROVE kept[m + 1] \in Seq(Stns)
      OBVIOUS
    <3>1. m + 1 \in 1 .. n /\ (m + 1) - 1 = m /\ m <= n
      OBVIOUS
    <3>2. kept[m] \in Seq(Stns)
      BY <3>1
    <3> HIDE DEF Q
    <3> QED BY <1>15, <3>1, <3>2
  <2>3. Q = Nat
    <3> HIDE DEF Q
    <3>1. Q \in SUBSET Nat
      BY DEF Q
    <3> QED BY <2>1, <2>2, <3>1, SetInduction
  <2> QED BY <2>3
<1>17. /\ \A i \in 1 .. n : kept[i] = kept[i-1] \o OnStations(i, e[i-1], d[i], c[i])
       /\ \A i \in 1 .. n : f[i].out = Append(kept[i], EndOf(i, lengths[i]))
  BY <1>11, <1>15, <1>16
<1>18. kept \in [0 .. n -> Seq(Stns)] /\ e \in [0 .. n -> Int]
  BY <1>8, <1>12, <1>13, <1>16
<1>19. IsWalk(lengths, step, kept, e, c)
  <2>1. kept[0] = << >> /\ e[0] = step * Sign(lengths[1])
    <3>1. 1 \in 1 .. n
      BY <1>n
    <3> QED BY <1>2, <1>8, <1>12, <3>1
  <2>2. \A i \in 1 .. n :
       /\ kept[i] = kept[i-1] \o OnStations(i, e[i-1], step * Sign(lengths[i]), c[i])
       /\ e[i] = e[i-1] + c[i] * (step * Sign(lengths[i])) - lengths[i]
       /\ Walks(lengths[i] * Sign(lengths[i]), e[i-1] * Sign(lengths[i]), step, c[i])
    BY <1>2, <1>14, <1>17
  <2> QED BY <1>n, <2>1, <2>2 DEF IsWalk
<1>20. Stations(lengths, step) = Append(kept[n], EndOf(n, lengths[n]))
  <2>1. n \in 1 .. n
    BY <1>n
  <2> QED BY <1>1, <1>17, <2>1
<1> QED BY <1>n, <1>10, <1>18, <1>19, <1>20

\* The direction of segment i, or of the first before it.
Dir(lengths, i) == Sign(lengths[IF i = 0 THEN 1 ELSE i])

\* A walk goes on: the next station is less than a step beyond the end of segment i, and
\* a step beyond the last one.
GoesOn(s, step, e, ahead) == e * s \in 1 .. step /\ ahead = s * step

\* A walk that has stations on a segment goes on.
LEMMA WalkGoesOn ==
  ASSUME NEW s \in {1, -1}, NEW u \in Nat \ {0}, NEW l \in Int, l * s \in Nat \ {0},
         NEW e \in Int, NEW c \in Nat, Walks(l * s, e * s, u, c), NEW ahead \in Int,
         c > 0 \/ GoesOn(s, u, e, ahead)
  PROVE  GoesOn(s, u, e + c * (u * s) - l, IF c = 0 THEN ahead ELSE u * s)
<1> DEFINE E == e * s
           M == l * s
           W == c * u
<1>1. E \in Int /\ M \in Int /\ W \in Int /\ (c = 0 => W = 0)
  OBVIOUS
<1>2. (e + c * (u * s) - l) * s = E + W - M
  <2>1. CASE s = 1
    BY <2>1
  <2>2. CASE s = -1
    <3>1. c * (u * s) = -W
      BY <2>2
    <3>2. E = -e /\ M = -l
      BY <2>2
    <3>3. (e - W - l) * (-1) = -e + W + l
      OBVIOUS
    <3> HIDE DEF W, E, M
    <3>4. e + c * (u * s) - l = e - W - l
      BY <1>1, <3>1
    <3> QED BY <1>1, <2>2, <3>2, <3>3, <3>4
  <2> QED BY <2>1, <2>2
<1>3. E + W - M \in 1 .. u
  <2>1. CASE c = 0
    <3>1. E \in 1 .. u
      BY <2>1 DEF GoesOn
    <3>2. E > M \/ E < -M
      BY <2>1 DEF Walks
    <3>3. M > 0
      OBVIOUS
    <3> HIDE DEF W, E, M
    <3> QED BY <1>1, <2>1, <3>1, <3>2, <3>3
  <2>2. CASE c > 0
    <3>1. E + W - u <= M /\ M < E + W
      BY <2>2 DEF Walks
    <3> HIDE DEF W, E, M
    <3> QED BY <1>1, <3>1
  <2> QED BY <2>1, <2>2
<1>4. (IF c = 0 THEN ahead ELSE u * s) = s * u
  <2>1. u * s = s * u
    OBVIOUS
  <2> QED BY <2>1 DEF GoesOn
<1> HIDE DEF E, M, W
<1> QED BY <1>2, <1>3, <1>4 DEF GoesOn

\* A station is on its segment, or a step beyond the turn that is dist before it.
LEMMA StationOrTurn ==
  ASSUME NEW s \in {1, -1}, NEW u \in Nat \ {0}, NEW l \in Int, l * s \in Nat \ {0},
         NEW e \in Int, NEW k \in Nat \ {0}, NEW dist \in Int, dist * s \in 0 .. u,
         e * s > 0 \/ e * s + dist * s >= -u
  PROVE  \/ (e + (k - 1) * (u * s)) * l > 0
         \/ e * s <= 0 /\ Magnitude(dist + (e + (k - 1) * (u * s))) <= u
<1>1. PICK w \in Nat : w = (k - 1) * u
  <2>1. \A a, b \in Nat : a * b \in Nat
    OBVIOUS
  <2> QED BY <2>1
<1>2. (k - 1) * (u * s) = w * s
  BY <1>1
<1>3. CASE s = 1
  <2>1. w * s = w /\ e * s = e /\ dist * s = dist /\ l * s = l
    BY <1>3
  <2>2. CASE e + w > 0
    <3>1. \A a, b \in Nat \ {0} : a * b > 0
      OBVIOUS
    <3>2. e + w \in Nat \ {0} /\ l \in Nat \ {0}
      BY <2>1, <2>2
    <3> QED BY <1>2, <2>1, <3>1, <3>2
  <2>3. CASE ~(e + w > 0)
    <3>1. e <= 0 /\ dist + (e + w) <= u /\ dist + (e + w) >= -u
      BY <2>1, <2>3
    <3> QED BY <1>2, <2>1, <3>1 DEF Magnitude
  <2> QED BY <2>2, <2>3
<1>4. CASE s = -1
  <2>1. w * s = -w /\ e * s = -e /\ dist * s = -dist /\ l * s = -l
    BY <1>4
  <2>2. CASE e - w < 0
    <3>1. \A a, b \in Nat \ {0} : (-a) * (-b) > 0
      OBVIOUS
    <3>2. -(e - w) \in Nat \ {0} /\ -l \in Nat \ {0} /\ -(-(e - w)) = e - w /\ -(-l) = l
      BY <2>1, <2>2
    <3>3. (e - w) * l > 0
      BY <3>1, <3>2
    <3> QED BY <1>2, <2>1, <3>3
  <2>3. CASE ~(e - w < 0)
    <3>1. e >= 0 /\ dist + (e - w) <= u /\ dist + (e - w) >= -u
      BY <2>1, <2>3
    <3> QED BY <1>2, <2>1, <3>1 DEF Magnitude
  <2> QED BY <2>2, <2>3
<1> QED BY <1>3, <1>4

\* How far a walk is ahead, of the last station.
Ahead(lengths, i, e, reach) == WayTo(lengths, i) + e - reach

\* A walk that goes on after segment i.
Normal(lengths, step, i, e, reach) ==
  GoesOn(Dir(lengths, i), step, e, Ahead(lengths, i, e, reach))

\* A walk that has turned before segment k, by a step at most, and has had
\* no station since: what it drove does not come up to where it turned.
Turning(lengths, step, i, e, k) ==
  /\ TurnsAt(lengths, k)
  /\ \A q \in k .. i : lengths[k] * lengths[q] > 0
  /\ (WayTo(lengths, i) - WayTo(lengths, k - 1)) * Sign(lengths[k]) >= 0
  /\ \E p \in 1 .. step :
       /\ WayTo(lengths, i) + e = WayTo(lengths, k - 1) - p * Sign(lengths[k])
       /\ \A q \in k .. i : Magnitude(lengths[q]) <
            (WayTo(lengths, q - 1) - WayTo(lengths, k - 1)) * Sign(lengths[k]) + p

Pending(lengths, step, i, e, reach) ==
  /\ Ahead(lengths, i, e, reach) \in {step, -step}
  /\ \E k \in 2 .. i : Turning(lengths, step, i, e, k)

\* A walk that has turned turns no second time before it has a station, if turns are
\* long.
LEMMA TurningEnds ==
  ASSUME NEW lengths \in Lengths, NEW step \in Nat \ {0}, TurnsAreLong(lengths, step),
         NEW i \in 1 .. Len(lengths), NEW e \in Int, NEW k \in 2 .. i,
         Turning(lengths, step, i, e, k)
  PROVE  /\ i < Len(lengths)
         /\ lengths[k] * lengths[i + 1] > 0
         /\ Magnitude(WayTo(lengths, i) - WayTo(lengths, k - 1)) <= step
<1>n. PICK n \in Nat : n = Len(lengths) /\ lengths \in [1 .. n -> Int \ {0}]
  BY DEF Lengths
<1>o. \A j \in 0 .. n : WayTo(lengths, j) \in Int
  BY <1>n, WaysAre
<1>1. k \in 1 .. n /\ k - 1 \in 0 .. n /\ DOMAIN lengths = 1 .. n
  BY <1>n
<1>2. TurnsAt(lengths, k)
  BY DEF Turning
<1>3. PICK last \in k .. n :
        /\ \A j \in k .. last :
             /\ lengths[k] * lengths[j] > 0
             /\ Magnitude(WayTo(lengths, j - 1) - WayTo(lengths, k - 1)) <= step
        /\ Magnitude(lengths[last]) >=
             Magnitude(WayTo(lengths, last - 1) - WayTo(lengths, k - 1)) + step
  BY <1>n, <1>1, <1>2 DEF TurnsAreLong
<1>4. PICK p \in 1 .. step :
        \A q \in k .. i : Magnitude(lengths[q]) <
          (WayTo(lengths, q - 1) - WayTo(lengths, k - 1)) * Sign(lengths[k]) + p
  BY DEF Turning
<1>5. last > i
  <2> SUFFICES ASSUME last <= i PROVE FALSE
    OBVIOUS
  <2>1. last \in k .. i /\ last - 1 \in 0 .. n /\ last \in 1 .. n
    BY <1>1
  <2>2. PICK D \in Int : D = WayTo(lengths, last - 1) - WayTo(lengths, k - 1)
    BY <1>o, <1>1, <2>1
  <2>3. Magnitude(lengths[last]) < D * Sign(lengths[k]) + p
    BY <1>4, <2>1, <2>2
  <2>4. Magnitude(lengths[last]) >= Magnitude(D) + step
    BY <1>3, <2>2
  <2>5. D * Sign(lengths[k]) <= Magnitude(D)
    <3>1. Sign(lengths[k]) = 1 \/ Sign(lengths[k]) = -1
      BY DEF Sign
    <3>2. D * 1 = D /\ D * (-1) = -D
      OBVIOUS
    <3> QED BY <3>1, <3>2 DEF Magnitude
  <2>6. D * Sign(lengths[k]) \in Int /\ Magnitude(D) \in Int /\ Magnitude(lengths[last]) \in Int
    <3>1. Sign(lengths[k]) \in Int
      BY DEF Sign
    <3>2. lengths[last] \in Int
      BY <1>n, <2>1
    <3> QED BY <3>1, <3>2 DEF Magnitude
  <2> QED BY <2>3, <2>4, <2>5, <2>6
<1>6. i + 1 \in k .. last /\ (i + 1) - 1 = i
  BY <1>5
<1> QED BY <1>n, <1>3, <1>5, <1>6

\* The offset, and the last station, after c stations on segment i.
NextOffset(lengths, step, i, e, c) == e + c * (step * Sign(lengths[i])) - lengths[i]
ReachOn(lengths, step, i, e, c, reach) ==
  IF c = 0 THEN reach ELSE WayTo(lengths, i - 1) + (e + (c - 1) * (step * Sign(lengths[i])))

\* A walk is as far ahead as it was, or a step when it has stations on the segment.
LEMMA AheadIs ==
  ASSUME NEW lengths \in Lengths, NEW step \in Nat \ {0}, NEW i \in 1 .. Len(lengths),
         NEW e \in Int, NEW c \in Nat, NEW reach \in Int
  PROVE  Ahead(lengths, i, NextOffset(lengths, step, i, e, c),
               ReachOn(lengths, step, i, e, c, reach))
           = IF c = 0 THEN Ahead(lengths, i - 1, e, reach) ELSE step * Sign(lengths[i])
<1>n. PICK n \in Nat : n = Len(lengths) /\ lengths \in [1 .. n -> Int \ {0}]
  BY DEF Lengths
<1>1. PICK l \in Int : l = lengths[i]
  BY <1>n
<1>2. PICK o \in Int : o = WayTo(lengths, i - 1) /\ WayTo(lengths, i) = o + l
  <2>1. i - 1 \in 0 .. n
    BY <1>n
  <2> QED BY <1>n, <1>1, <2>1, WaysAre
<1>3. PICK d \in Int : d = step * Sign(l)
  <2>1. Sign(l) \in Int
    BY DEF Sign
  <2> QED BY <2>1
<1>4. CASE c = 0
  <2>1. c * d = 0
    BY <1>4
  <2>2. NextOffset(lengths, step, i, e, c) = e - l
    BY <1>1, <1>3, <2>1 DEF NextOffset
  <2> QED BY <1>2, <1>4, <2>2 DEF Ahead, ReachOn
<1>5. CASE c # 0
  <2>1. PICK w \in Int : w = c * d
    OBVIOUS
  <2>2. (c - 1) * d = w - d
    BY <2>1
  <2>3. NextOffset(lengths, step, i, e, c) = e + w - l
    BY <1>1, <1>3, <2>1 DEF NextOffset
  <2>4. ReachOn(lengths, step, i, e, c, reach) = o + (e + (w - d))
    BY <1>1, <1>2, <1>3, <1>5, <2>2 DEF ReachOn
  <2>5. Ahead(lengths, i, NextOffset(lengths, step, i, e, c),
              ReachOn(lengths, step, i, e, c, reach)) = d
    BY <1>2, <2>3, <2>4 DEF Ahead
  <2> QED BY <1>1, <1>3, <1>5, <2>5
<1> QED BY <1>4, <1>5

\* Where a walk does not turn, its direction is that of the segment before.
LEMMA DirectionStays ==
  ASSUME NEW lengths \in Lengths, NEW i \in 1 .. Len(lengths)
  PROVE  /\ Dir(lengths, i) = Sign(lengths[i])
         /\ ~TurnsAt(lengths, i) => Dir(lengths, i - 1) = Sign(lengths[i])
         /\ TurnsAt(lengths, i) => i \in 2 .. i /\ Dir(lengths, i - 1) + Sign(lengths[i]) = 0
<1>n. PICK n \in Nat : n = Len(lengths) /\ lengths \in [1 .. n -> Int \ {0}]
  BY DEF Lengths
<1>1. Dir(lengths, i) = Sign(lengths[i])
  BY DEF Dir
<1>2. CASE i = 1
  <2>1. Dir(lengths, i - 1) = Sign(lengths[i])
    BY <1>2 DEF Dir
  <2>2. ~TurnsAt(lengths, i)
    BY <1>2, <1>n DEF TurnsAt
  <2> QED BY <1>1, <2>1, <2>2
<1>3. CASE i > 1
  <2>1. i - 1 \in 1 .. n /\ i - 1 # 0 /\ i \in 2 .. n /\ i \in 2 .. i
    BY <1>3, <1>n
  <2>2. PICK a \in Int \ {0} : a = lengths[i-1]
    BY <1>n, <2>1
  <2>3. PICK b \in Int \ {0} : b = lengths[i]
    BY <1>n
  <2>4. Dir(lengths, i - 1) = Sign(a)
    BY <2>1, <2>2 DEF Dir
  <2>5. TurnsAt(lengths, i) <=> a * b < 0
    BY <1>n, <2>1, <2>2, <2>3 DEF TurnsAt
  <2>6. a * b < 0 \/ a * b > 0
    <3>1. \A x, y \in Nat \ {0} : x * y > 0 /\ x * (-y) < 0 /\ (-x) * y < 0 /\ (-x) * (-y) > 0
      OBVIOUS
    <3>2. a \in Nat \ {0} \/ (-a \in Nat \ {0} /\ a = -(-a))
      OBVIOUS
    <3>3. b \in Nat \ {0} \/ (-b \in Nat \ {0} /\ b = -(-b))
      OBVIOUS
    <3> QED BY <3>1, <3>2, <3>3
  <2>7. (a * b > 0 <=> Sign(a) = Sign(b)) /\ (a * b < 0 <=> Sign(a) + Sign(b) = 0)
    BY SignsAgree
  <2>8. ~TurnsAt(lengths, i) => Dir(lengths, i - 1) = Sign(lengths[i])
    BY <2>3, <2>4, <2>5, <2>6, <2>7
  <2>9. TurnsAt(lengths, i) => Dir(lengths, i - 1) + Sign(lengths[i]) = 0
    BY <2>3, <2>4, <2>5, <2>7
  <2> QED BY <1>1, <2>1, <2>8, <2>9
<1> QED BY <1>2, <1>3

\* The walk begins segment i behind the turn before segment k, by less than a step, and
\* the segment begins within a step of that turn.
Behind(lengths, step, i, e, k) ==
  /\ TurnsAt(lengths, k) /\ Sign(lengths[k]) = Sign(lengths[i])
  /\ (WayTo(lengths, i - 1) - WayTo(lengths, k - 1)) * Sign(lengths[i]) \in 0 .. step
  /\ \E p \in 1 .. step :
       e * Sign(lengths[i])
         + (WayTo(lengths, i - 1) - WayTo(lengths, k - 1)) * Sign(lengths[i]) = -p

\* A walk that goes on to a turn begins the next segment behind it.
LEMMA BehindTurn ==
  ASSUME NEW lengths \in Lengths, NEW step \in Nat \ {0}, NEW i \in 1 .. Len(lengths),
         NEW e \in Int, NEW reach \in Int, Normal(lengths, step, i - 1, e, reach),
         TurnsAt(lengths, i)
  PROVE  i \in 2 .. i /\ Behind(lengths, step, i, e, i)
<1>1. i \in 2 .. i /\ Dir(lengths, i - 1) + Sign(lengths[i]) = 0
  BY DirectionStays
<1>2. PICK t \in Int : t = Dir(lengths, i - 1)
  BY DEF Dir, Sign
<1>3. e * t \in 1 .. step
  BY <1>2 DEF Normal, GoesOn
<1>4. PICK s \in {1, -1} : s = Sign(lengths[i])
  BY DEF Sign
<1>5. e * s = 0 - e * t
  <2>1. t = 0 - s
    BY <1>1, <1>2, <1>4
  <2>2. CASE s = 1
    BY <2>1, <2>2
  <2>3. CASE s = -1
    BY <2>1, <2>3
  <2> QED BY <2>2, <2>3
<1>6. PICK o \in Int : o = WayTo(lengths, i - 1)
  <2>1. i - 1 \in 0 .. Len(lengths)
    BY DEF Lengths
  <2> QED BY <2>1, WaysAre
<1>7. (o - o) * s = 0
  OBVIOUS
<1>8. PICK p \in 1 .. step : p = e * t
  BY <1>3
<1>9. e * s + (o - o) * s = -p
  BY <1>5, <1>7, <1>8
<1>10. (o - o) * s \in 0 .. step
  BY <1>7
<1> QED BY <1>1, <1>4, <1>6, <1>9, <1>10 DEF Behind

\* So does one that has turned and has had no station since, and it does not turn again.
LEMMA BehindSince ==
  ASSUME NEW lengths \in Lengths, NEW step \in Nat \ {0}, TurnsAreLong(lengths, step),
         NEW i \in 1 .. Len(lengths), NEW e \in Int, NEW k \in 2 .. i - 1,
         Turning(lengths, step, i - 1, e, k)
  PROVE  /\ Behind(lengths, step, i, e, k)
         /\ lengths[k] * lengths[i] > 0
         /\ ~TurnsAt(lengths, i)
<1>n. PICK n \in Nat : n = Len(lengths) /\ lengths \in [1 .. n -> Int \ {0}]
  BY DEF Lengths
<1>o. \A j \in 0 .. n : WayTo(lengths, j) \in Int
  BY <1>n, WaysAre
<1>1. k \in 1 .. n /\ k - 1 \in 0 .. n /\ i - 1 \in 0 .. n /\ i - 1 \in 1 .. Len(lengths)
      /\ (i - 1) + 1 = i /\ i \in 1 .. n /\ i - 1 \in k .. i - 1 /\ i - 1 \in 1 .. n
  BY <1>n
<1>2. lengths[k] * lengths[i] > 0
      /\ Magnitude(WayTo(lengths, i - 1) - WayTo(lengths, k - 1)) <= step
  BY <1>1, TurningEnds
<1>3. PICK a \in Int \ {0} : a = lengths[k]
  BY <1>n, <1>1
<1>4. PICK b \in Int \ {0} : b = lengths[i]
  BY <1>n, <1>1
<1>5. PICK g \in Int \ {0} : g = lengths[i-1]
  BY <1>n, <1>1
<1>6. a * b > 0 /\ a * g > 0
  BY <1>1, <1>2, <1>3, <1>4, <1>5 DEF Turning
<1>7. Sign(a) = Sign(b) /\ Sign(a) = Sign(g)
  BY <1>6, SignsAgree
<1>8. ~TurnsAt(lengths, i)
  <2>1. g * b > 0
    BY <1>7, SignsAgree
  <2>2. g * b \in Int
    OBVIOUS
  <2>3. ~(g * b < 0)
    BY <2>1, <2>2
  <2> QED BY <1>4, <1>5, <2>3 DEF TurnsAt
<1>9. PICK s \in {1, -1} : s = Sign(b) /\ s = Sign(a)
  BY <1>7 DEF Sign
<1>10. PICK D \in Int : D = WayTo(lengths, i - 1) - WayTo(lengths, k - 1)
  BY <1>o, <1>1
<1>11. D * s >= 0
  BY <1>3, <1>9, <1>10 DEF Turning
<1>12. Magnitude(D) <= step
  BY <1>2, <1>10
<1>13. D * s \in 0 .. step
  <2>1. D * 1 = D /\ D * (-1) = -D
    OBVIOUS
  <2>2. CASE s = 1
    BY <1>11, <1>12, <2>1, <2>2 DEF Magnitude
  <2>3. CASE s = -1
    BY <1>11, <1>12, <2>1, <2>3 DEF Magnitude
  <2> QED BY <2>2, <2>3
<1>14. PICK p \in 1 .. step :
         WayTo(lengths, i - 1) + e = WayTo(lengths, k - 1) - p * s
  BY <1>3, <1>9 DEF Turning
<1>15. e * s + D * s = -p
  <2>1. PICK o \in Int : o = WayTo(lengths, i - 1)
    BY <1>o, <1>1
  <2>2. PICK w \in Int : w = WayTo(lengths, k - 1)
    BY <1>o, <1>1
  <2>3. o + e = w - p * s /\ D = o - w
    BY <1>10, <1>14, <2>1, <2>2
  <2>4. CASE s = 1
    BY <2>3, <2>4
  <2>5. CASE s = -1
    BY <2>3, <2>5
  <2> QED BY <2>4, <2>5
<1>16. Behind(lengths, step, i, e, k)
  <2>1. TurnsAt(lengths, k)
    BY DEF Turning
  <2>2. Sign(lengths[k]) = s /\ Sign(lengths[i]) = s
    BY <1>3, <1>4, <1>9
  <2> QED BY <1>10, <1>13, <1>15, <2>1, <2>2 DEF Behind
<1> QED BY <1>2, <1>8, <1>16

\* A walk that has got to a segment goes on after it, or is still behind a turn.
LEMMA NextSegment ==
  ASSUME NEW lengths \in Lengths, NEW step \in Nat \ {0}, TurnsAreLong(lengths, step),
         NEW i \in 1 .. Len(lengths), NEW e \in Int, NEW reach \in Int, NEW c \in Nat,
         Normal(lengths, step, i - 1, e, reach) \/ Pending(lengths, step, i - 1, e, reach),
         Walks(lengths[i] * Sign(lengths[i]), e * Sign(lengths[i]), step, c),
         NEW e1, e1 = NextOffset(lengths, step, i, e, c),
         NEW r1, r1 = ReachOn(lengths, step, i, e, c, reach)
  PROVE  Normal(lengths, step, i, e1, r1) \/ Pending(lengths, step, i, e1, r1)
<1>n. PICK n \in Nat : n = Len(lengths) /\ lengths \in [1 .. n -> Int \ {0}]
  BY DEF Lengths
<1>o. \A j \in 0 .. n : WayTo(lengths, j) \in Int
  BY <1>n, WaysAre
<1>i. i \in 1 .. n /\ i - 1 \in 0 .. n /\ i \in 0 .. n
  BY <1>n
<1>l. PICK l \in Int \ {0} : l = lengths[i]
  BY <1>n, <1>i
<1>s. PICK s \in {1, -1} : s = Sign(l) /\ l * s \in Nat \ {0} /\ l * s = Magnitude(l)
  BY SignRules
<1>w. Walks(l * s, e * s, step, c)
  BY <1>l, <1>s
<1>a. PICK ahead \in Int : ahead = Ahead(lengths, i - 1, e, reach)
  BY <1>o, <1>i DEF Ahead
<1>1. Ahead(lengths, i, e1, r1) = IF c = 0 THEN ahead ELSE step * s
  BY <1>l, <1>s, <1>a, AheadIs
<1>2. Dir(lengths, i) = s
  BY <1>l, <1>s, DirectionStays
<1>3. e1 = e + c * (step * s) - l
  BY <1>l, <1>s DEF NextOffset
<1>4. ASSUME c > 0 \/ GoesOn(s, step, e, ahead) PROVE Normal(lengths, step, i, e1, r1)
  <2>1. GoesOn(s, step, e + c * (step * s) - l, IF c = 0 THEN ahead ELSE step * s)
    BY <1>4, <1>s, <1>w, WalkGoesOn
  <2> QED BY <1>1, <1>2, <1>3, <2>1 DEF Normal
<1>5. CASE c > 0
  BY <1>4, <1>5
<1>6. CASE c = 0 /\ Normal(lengths, step, i - 1, e, reach) /\ ~TurnsAt(lengths, i)
  <2>1. Dir(lengths, i - 1) = s
    BY <1>6, <1>l, <1>s, DirectionStays
  <2>2. GoesOn(s, step, e, ahead)
    BY <1>6, <1>a, <2>1 DEF Normal
  <2> QED BY <1>4, <2>2
<1>7. ASSUME c = 0
      PROVE  /\ e1 = e - l /\ e1 \in Int
             /\ WayTo(lengths, i) = WayTo(lengths, i - 1) + l
             /\ WayTo(lengths, i) + e1 = WayTo(lengths, i - 1) + e
             /\ Ahead(lengths, i, e1, r1) = ahead
             /\ e * s > l * s \/ e * s < -(l * s)
  <2>1. c * (step * s) = 0
    BY <1>7
  <2>2. e1 = e - l /\ e1 \in Int
    BY <1>3, <2>1
  <2>3. WayTo(lengths, i) = WayTo(lengths, i - 1) + l
    BY <1>n, <1>i, <1>l, WaysAre
  <2>4. PICK o \in Int : o = WayTo(lengths, i - 1)
    BY <1>o, <1>i
  <2>5. (o + l) + (e - l) = o + e
    OBVIOUS
  <2> QED BY <1>1, <1>7, <1>w, <2>2, <2>3, <2>4, <2>5 DEF Walks
<1>8. CASE c = 0 /\ Normal(lengths, step, i - 1, e, reach) /\ TurnsAt(lengths, i)
  <2>1. i \in 2 .. i /\ Behind(lengths, step, i, e, i)
    BY <1>8, BehindTurn
  <2>2. PICK o \in Int : o = WayTo(lengths, i - 1)
    BY <1>o, <1>i
  <2>3. PICK p \in 1 .. step : e * s + (o - o) * s = -p
    BY <1>l, <1>s, <2>1, <2>2 DEF Behind
  <2>4. e * s = -p /\ e = 0 - p * s
    <3>1. (o - o) * s = 0
      OBVIOUS
    <3>2. e * s = -p
      <4>1. e * s \in Int
        OBVIOUS
      <4> QED BY <2>3, <3>1, <4>1
    <3>3. CASE s = 1
      BY <3>2, <3>3
    <3>4. CASE s = -1
      BY <3>2, <3>4
    <3> QED BY <3>2, <3>3, <3>4
  <2>5. l * s < p
    <3>1. PICK M \in Nat \ {0} : M = l * s
      BY <1>s
    <3>2. -p > M \/ -p < -M
      BY <1>7, <1>8, <2>4, <3>1
    <3> QED BY <3>1, <3>2
  <2>6. \A q \in i .. i : q = i
    OBVIOUS
  <2>7. l * l > 0
    BY SignsAgree
  <2>8. Turning(lengths, step, i, e1, i)
    <3>1. \A q \in i .. i : lengths[i] * lengths[q] > 0
      BY <1>l, <2>6, <2>7
    <3>2. (WayTo(lengths, i) - WayTo(lengths, i - 1)) * Sign(lengths[i]) >= 0
      <4>1. (o + l) - o = l
        OBVIOUS
      <4> QED BY <1>7, <1>8, <1>l, <1>s, <2>2, <4>1
    <3>3. WayTo(lengths, i) + e1 = WayTo(lengths, i - 1) - p * Sign(lengths[i])
      <4>1. o + e = o - p * s
        BY <2>4
      <4> QED BY <1>7, <1>8, <1>l, <1>s, <2>2, <4>1
    <3>4. \A q \in i .. i : Magnitude(lengths[q]) <
            (WayTo(lengths, q - 1) - WayTo(lengths, i - 1)) * Sign(lengths[i]) + p
      <4>1. (o - o) * s + p = p
        OBVIOUS
      <4> QED BY <1>l, <1>s, <2>2, <2>5, <2>6, <4>1
    <3> QED BY <1>8, <3>1, <3>2, <3>3, <3>4 DEF Turning
  <2>9. ahead \in {step, -step}
    <3>1. Dir(lengths, i - 1) = 1 \/ Dir(lengths, i - 1) = -1
      BY DEF Dir, Sign
    <3>2. ahead = Dir(lengths, i - 1) * step
      BY <1>8, <1>a DEF Normal, GoesOn
    <3>3. 1 * step = step /\ (-1) * step = -step
      OBVIOUS
    <3> QED BY <3>1, <3>2, <3>3
  <2> QED BY <1>7, <1>8, <2>1, <2>8, <2>9 DEF Pending
<1>9. CASE c = 0 /\ Pending(lengths, step, i - 1, e, reach)
  <2>1. PICK k \in 2 .. i - 1 : Turning(lengths, step, i - 1, e, k)
    BY <1>9 DEF Pending
  <2>2. /\ Behind(lengths, step, i, e, k)
        /\ lengths[k] * lengths[i] > 0
    BY <2>1, BehindSince
  <2>3. k \in 2 .. i /\ k - 1 \in 0 .. n /\ \A q \in k .. i : q \in k .. i - 1 \/ q = i
    BY <1>i
  <2>4. PICK o \in Int : o = WayTo(lengths, i - 1)
    BY <1>o, <1>i
  <2>5. PICK b \in Int : b = WayTo(lengths, k - 1)
    BY <1>o, <2>3
  <2>6. PICK p \in 1 .. step :
          /\ WayTo(lengths, i - 1) + e = b - p * Sign(lengths[k])
          /\ \A q \in k .. i - 1 : Magnitude(lengths[q]) <
               (WayTo(lengths, q - 1) - b) * Sign(lengths[k]) + p
    BY <2>1, <2>5 DEF Turning
  <2>7. Sign(lengths[k]) = s /\ (o - b) * s >= 0
    BY <1>l, <1>s, <2>2, <2>4, <2>5 DEF Behind
  <2>8. e * s = -p - (o - b) * s
    <3>1. o + e = b - p * s
      BY <2>4, <2>6, <2>7
    <3>2. CASE s = 1
      BY <3>1, <3>2
    <3>3. CASE s = -1
      BY <3>1, <3>3
    <3> QED BY <3>2, <3>3
  <2>9. l * s < (o - b) * s + p
    <3>1. PICK M \in Nat \ {0} : M = l * s
      BY <1>s
    <3>2. PICK D \in Int : D = (o - b) * s
      OBVIOUS
    <3>3. -p - D > M \/ -p - D < -M
      BY <1>7, <1>9, <2>8, <3>1, <3>2
    <3>4. D >= 0
      BY <2>7, <3>2
    <3> QED BY <3>1, <3>2, <3>3, <3>4
  <2>10. Turning(lengths, step, i, e1, k)
    <3>1. \A q \in k .. i : lengths[k] * lengths[q] > 0
      BY <2>1, <2>2, <2>3 DEF Turning
    <3>2. (WayTo(lengths, i) - WayTo(lengths, k - 1)) * Sign(lengths[k]) >= 0
      <4>1. ((o + l) - b) * s = (o - b) * s + l * s
        OBVIOUS
      <4>2. PICK M \in Nat \ {0} : M = l * s
        BY <1>s
      <4>3. PICK D \in Int : D = (o - b) * s
        OBVIOUS
      <4>4. ((o + l) - b) * s >= 0
        BY <2>7, <4>1, <4>2, <4>3
      <4> QED BY <1>7, <1>9, <2>4, <2>5, <2>7, <4>4
    <3>3. WayTo(lengths, i) + e1 = WayTo(lengths, k - 1) - p * Sign(lengths[k])
      BY <1>7, <1>9, <2>5, <2>6
    <3>4. \A q \in k .. i : Magnitude(lengths[q]) <
            (WayTo(lengths, q - 1) - WayTo(lengths, k - 1)) * Sign(lengths[k]) + p
      <4> SUFFICES ASSUME NEW q \in k .. i
                   PROVE  Magnitude(lengths[q]) <
                            (WayTo(lengths, q - 1) - WayTo(lengths, k - 1)) * Sign(lengths[k]) + p
        OBVIOUS
      <4>1. CASE q \in k .. i - 1
        BY <2>5, <2>6, <4>1
      <4>2. CASE q = i
        BY <1>l, <1>s, <2>4, <2>5, <2>7, <2>9, <4>2
      <4> QED BY <2>3, <4>1, <4>2
    <3>5. TurnsAt(lengths, k)
      BY <2>1 DEF Turning
    <3> QED BY <3>1, <3>2, <3>3, <3>4, <3>5 DEF Turning
  <2>11. ahead \in {step, -step}
    BY <1>9, <1>a DEF Pending
  <2> QED BY <1>7, <1>9, <2>3, <2>10, <2>11 DEF Pending
<1> QED BY <1>5, <1>6, <1>8, <1>9

\* A station is on its segment, or beyond a turn by a step at most.
Placed(lengths, step, i, pd) ==
  \/ pd * lengths[i] > 0
  \/ \E k \in 2 .. i : /\ TurnsAt(lengths, k)
                       /\ Magnitude((WayTo(lengths, i - 1) + pd) - WayTo(lengths, k - 1)) <= step

\* The stations of a walk on a segment are well placed.
LEMMA StationsPlaced ==
  ASSUME NEW lengths \in Lengths, NEW step \in Nat \ {0}, TurnsAreLong(lengths, step),
         NEW i \in 1 .. Len(lengths), NEW e \in Int, NEW reach \in Int, NEW m \in Nat \ {0},
         Normal(lengths, step, i - 1, e, reach) \/ Pending(lengths, step, i - 1, e, reach)
  PROVE  Placed(lengths, step, i, e + (m - 1) * (step * Sign(lengths[i])))
<1>n. PICK n \in Nat : n = Len(lengths) /\ lengths \in [1 .. n -> Int \ {0}]
  BY DEF Lengths
<1>o. \A j \in 0 .. n : WayTo(lengths, j) \in Int
  BY <1>n, WaysAre
<1>i. i \in 1 .. n /\ i - 1 \in 0 .. n /\ i \in 0 .. n
  BY <1>n
<1>l. PICK l \in Int \ {0} : l = lengths[i]
  BY <1>n, <1>i
<1>s. PICK s \in {1, -1} : s = Sign(l) /\ l * s \in Nat \ {0}
  BY SignRules
<1>d. PICK pd \in Int : pd = e + (m - 1) * (step * s)
  OBVIOUS
<1>1. CASE Normal(lengths, step, i - 1, e, reach) /\ ~TurnsAt(lengths, i)
  <2>1. e * s \in 1 .. step
    <3>1. Dir(lengths, i - 1) = s
      BY <1>1, <1>l, <1>s, DirectionStays
    <3> QED BY <1>1, <3>1 DEF Normal, GoesOn
  <2>2. 0 \in Int /\ 0 * s \in 0 .. step /\ e * s > 0 /\ ~(e * s <= 0)
    <3>1. 0 * s = 0
      OBVIOUS
    <3> QED BY <2>1, <3>1
  <2>3. \/ (e + (m - 1) * (step * s)) * l > 0
        \/ e * s <= 0 /\ Magnitude(0 + (e + (m - 1) * (step * s))) <= step
    BY <1>s, <2>2, StationOrTurn
  <2> QED BY <1>l, <1>s, <2>2, <2>3 DEF Placed
<1>2. ASSUME NEW k \in 2 .. i, Behind(lengths, step, i, e, k)
      PROVE  Placed(lengths, step, i, pd)
  <2>1. PICK o \in Int : o = WayTo(lengths, i - 1)
    BY <1>o, <1>i
  <2>2. PICK b \in Int : b = WayTo(lengths, k - 1)
    <3>1. k - 1 \in 0 .. n
      BY <1>i
    <3> QED BY <1>o, <3>1
  <2>3. PICK p \in 1 .. step : e * s + (o - b) * s = -p
    BY <1>2, <1>l, <1>s, <2>1, <2>2 DEF Behind
  <2>4. PICK D \in Int : D = o - b
    OBVIOUS
  <2>5. D * s \in 0 .. step
    BY <1>2, <1>l, <1>s, <2>1, <2>2, <2>4 DEF Behind
  <2>6. e * s + D * s >= -step
    <3>1. e * s + D * s = -p
      BY <2>3, <2>4
    <3> QED BY <3>1
  <2>7. \/ (e + (m - 1) * (step * s)) * l > 0
        \/ e * s <= 0 /\ Magnitude(D + (e + (m - 1) * (step * s))) <= step
    BY <1>s, <2>5, <2>6, StationOrTurn
  <2>8. D + pd = (o + pd) - b
    BY <2>4
  <2>9. TurnsAt(lengths, k)
    BY <1>2 DEF Behind
  <2> QED BY <1>l, <1>d, <2>1, <2>2, <2>7, <2>8, <2>9 DEF Placed
<1>3. CASE Normal(lengths, step, i - 1, e, reach) /\ TurnsAt(lengths, i)
  <2>1. i \in 2 .. i /\ Behind(lengths, step, i, e, i)
    BY <1>3, BehindTurn
  <2> QED BY <1>2, <1>l, <1>s, <1>d, <2>1
<1>4. CASE Pending(lengths, step, i - 1, e, reach)
  <2>1. PICK k \in 2 .. i - 1 : Turning(lengths, step, i - 1, e, k)
    BY <1>4 DEF Pending
  <2>2. Behind(lengths, step, i, e, k) /\ k \in 2 .. i
    BY <2>1, BehindSince
  <2> QED BY <1>2, <1>l, <1>s, <1>d, <2>2
<1> QED BY <1>1, <1>3, <1>4

-----------------------------------------------------------------------------
(* From station to station *)

\* Where the last station is.
Reach(lengths, q) == IF q = << >> THEN 0 ELSE Odometer(lengths, q[Len(q)])

\* A station a step at most from the one before, and well placed.
FollowsAt(lengths, step, q, i) ==
  LET here == Odometer(lengths, q[i])
      before == IF i = 1 THEN 0 ELSE Odometer(lengths, q[i-1])
  IN /\ Magnitude(here - before) <= step
     /\ \/ q[i].pd * lengths[q[i].seg] > 0
        \/ \E k \in 2 .. q[i].seg :
             TurnsAt(lengths, k) /\ Magnitude(here - WayTo(lengths, k - 1)) <= step

Follows(lengths, step, q) == \A i \in DOMAIN q : FollowsAt(lengths, step, q, i)

PlacedOn(lengths, step, i, e, d, c) ==
  \A m \in 1 .. c : Placed(lengths, step, i, e + (m - 1) * d)

\* What r is that has c stations on segment i after those of q.
FollowedOn(lengths, step, i, e, d, c, q, r) ==
  /\ Follows(lengths, step, r)
  /\ Len(r) = Len(q) + c
  /\ Reach(lengths, r) = IF c = 0 THEN Reach(lengths, q)
                         ELSE WayTo(lengths, i - 1) + (e + (c - 1) * d)

\* Stations on a segment follow those before it.
LEMMA FollowOn ==
  ASSUME NEW lengths \in Lengths, NEW step \in Nat \ {0}, NEW i \in 1 .. Len(lengths),
         NEW e \in Int, NEW d \in {step, -step}, NEW c \in Nat, NEW q \in Seq(Stns),
         Follows(lengths, step, q),
         Magnitude((WayTo(lengths, i - 1) + e) - Reach(lengths, q)) <= step,
         PlacedOn(lengths, step, i, e, d, c),
         NEW r \in Seq(Stns), r = q \o OnStations(i, e, d, c)
  PROVE  FollowedOn(lengths, step, i, e, d, c, q, r)
<1>q. PICK n \in Nat : n = Len(q) /\ DOMAIN q = 1 .. n
  OBVIOUS
<1>o. PICK o \in Int : o = WayTo(lengths, i - 1)
  <2>1. Len(lengths) \in Nat
    BY DEF Lengths
  <2>2. i - 1 \in 0 .. Len(lengths)
    BY <2>1
  <2> QED BY <2>2, WaysAre
<1>d. d \in Int /\ Magnitude(d) <= step
  BY DEF Magnitude
<1>p. \A m \in Int : e + (m - 1) * d \in Int
  BY <1>d
<1> DEFINE on == OnStations(i, e, d, c)
           pd(m) == e + (m - 1) * d
<1>1. on \in Seq(Stns) /\ Len(on) = c
      /\ \A m \in 1 .. c : on[m].seg = i /\ on[m].pd = pd(m)
  <2>1. \A m \in 1 .. c : [seg |-> i, pd |-> pd(m)] \in Stns
    BY <1>p DEF Stns
  <2> HIDE DEF pd
  <2>2. on = [m \in 1 .. c |-> [seg |-> i, pd |-> pd(m)]]
    BY DEF OnStations, pd
  <2>3. on \in [1 .. c -> Stns]
    BY <2>1, <2>2
  <2>4. \A m \in 1 .. c : on[m].seg = i /\ on[m].pd = pd(m)
    BY <2>2
  <2> HIDE DEF on
  <2> QED BY <2>3, <2>4
<1>2. /\ Len(r) = n + c
      /\ \A j \in 1 .. n + c : r[j] = IF j <= n THEN q[j] ELSE on[j - n]
  <2> HIDE DEF on
  <2>1. /\ q \o on \in Seq(Stns) /\ Len(q \o on) = Len(q) + Len(on)
        /\ \A j \in 1 .. Len(q) + Len(on) : (q \o on)[j] = IF j <= Len(q) THEN q[j] ELSE on[j - Len(q)]
    BY <1>1, ConcatProperties
  <2>2. r = q \o on
    BY DEF on
  <2> QED BY <1>q, <1>1, <2>1, <2>2
<1>3. DOMAIN r = 1 .. n + c
  BY <1>2
<1>4. \A m \in 1 .. c : Odometer(lengths, on[m]) = o + pd(m)
  <2> HIDE DEF on, pd
  <2> QED BY <1>1, <1>o DEF Odometer
<1>5. ASSUME NEW j \in 1 .. n PROVE FollowsAt(lengths, step, r, j)
  <2>1. FollowsAt(lengths, step, q, j)
    BY <1>q DEF Follows
  <2>2. r[j] = q[j]
    BY <1>2
  <2>3. j = 1 \/ r[j-1] = q[j-1]
    <3>1. j = 1 \/ (j - 1 \in 1 .. n + c /\ j - 1 <= n)
      OBVIOUS
    <3> QED BY <1>2, <3>1
  <2> QED BY <2>1, <2>2, <2>3 DEF FollowsAt
<1>6. ASSUME NEW m \in 1 .. c PROVE FollowsAt(lengths, step, r, n + m)
  <2>1. n + m \in 1 .. n + c /\ ~(n + m <= n) /\ (n + m) - n = m
    OBVIOUS
  <2>2. r[n + m] = on[m]
    BY <1>2, <2>1
  <2>3. PICK x \in Int : x = pd(m)
    BY <1>p
  <2>4. Odometer(lengths, r[n + m]) = o + x /\ r[n + m].seg = i /\ r[n + m].pd = x
    <3> HIDE DEF on, pd
    <3> QED BY <1>1, <1>4, <2>2, <2>3
  <2>5. Placed(lengths, step, i, x)
    BY <2>3 DEF PlacedOn
  <2>6. PICK b : b = IF n + m = 1 THEN 0 ELSE Odometer(lengths, r[(n + m) - 1])
    OBVIOUS
  <2>7. Magnitude((o + x) - b) <= step
    <3>1. CASE m = 1
      <4>1. x = e
        <5>1. (1 - 1) * d = 0
          BY <1>d
        <5> QED BY <2>3, <3>1, <5>1
      <4>2. b = Reach(lengths, q)
        <5>1. CASE n = 0
          <6>1. n + m = 1 /\ q = << >>
            BY <1>q, <3>1, <5>1
          <6> QED BY <2>6, <6>1 DEF Reach
        <5>2. CASE n # 0
          <6>1. n + m # 1 /\ (n + m) - 1 = n /\ n \in 1 .. n + c /\ n <= n /\ q # << >>
            BY <1>q, <3>1, <5>2
          <6>2. r[n] = q[n]
            BY <1>2, <6>1
          <6> QED BY <1>q, <2>6, <6>1, <6>2 DEF Reach
        <5> QED BY <5>1, <5>2
      <4> QED BY <1>o, <4>1, <4>2
    <3>2. CASE m > 1
      <4>1. n + m # 1 /\ m - 1 \in 1 .. c /\ (n + m) - 1 = n + (m - 1)
            /\ n + (m - 1) \in 1 .. n + c /\ ~(n + (m - 1) <= n) /\ (n + (m - 1)) - n = m - 1
        BY <3>2
      <4>2. r[n + (m - 1)] = on[m - 1]
        BY <1>2, <4>1
      <4>3. b = o + pd(m - 1)
        <5> HIDE DEF on, pd
        <5> QED BY <1>4, <2>6, <4>1, <4>2
      <4>4. pd(m - 1) = x - d
        <5>1. ((m - 1) - 1) * d = (m - 1) * d - d
          BY <1>d
        <5>2. PICK w \in Int : w = (m - 1) * d
          BY <1>d
        <5> QED BY <1>d, <2>3, <5>1, <5>2
      <4>5. (o + x) - b = d
        <5> HIDE DEF pd
        <5> QED BY <1>d, <4>3, <4>4
      <4> QED BY <1>d, <4>5
    <3> QED BY <3>1, <3>2
  <2> HIDE DEF pd, on
  <2>8. \/ x * lengths[i] > 0
        \/ \E k \in 2 .. i : TurnsAt(lengths, k) /\ Magnitude((o + x) - WayTo(lengths, k - 1)) <= step
    BY <1>o, <2>5 DEF Placed
  <2> QED BY <2>4, <2>6, <2>7, <2>8 DEF FollowsAt
<1>7. Follows(lengths, step, r)
  <2>1. \A j \in 1 .. n + c : j \in 1 .. n \/ (j - n \in 1 .. c /\ n + (j - n) = j)
    OBVIOUS
  <2> QED BY <1>3, <1>5, <1>6, <2>1 DEF Follows
<1>8. Reach(lengths, r) = IF c = 0 THEN Reach(lengths, q) ELSE o + (e + (c - 1) * d)
  <2>1. CASE c = 0
    <3>1. CASE n = 0
      <4>1. r = << >> /\ q = << >>
        BY <1>2, <1>q, <2>1, <3>1
      <4> QED BY <2>1, <4>1
    <3>2. CASE n # 0
      <4>1. Len(r) = n /\ n \in 1 .. n + c /\ n <= n /\ q # << >> /\ r # << >>
        BY <1>2, <1>q, <2>1, <3>2
      <4>2. r[n] = q[n]
        BY <1>2, <4>1
      <4> QED BY <1>q, <2>1, <4>1, <4>2 DEF Reach
    <3> QED BY <3>1, <3>2
  <2>2. CASE c # 0
    <3>1. n + c \in 1 .. n + c /\ ~(n + c <= n) /\ (n + c) - n = c /\ c \in 1 .. c
      BY <2>2
    <3>2. r[n + c] = on[c] /\ r # << >>
      BY <1>2, <3>1
    <3>3. Odometer(lengths, r[Len(r)]) = o + pd(c)
      <4> HIDE DEF on, pd
      <4> QED BY <1>2, <1>4, <3>1, <3>2
    <3> QED BY <2>2, <3>2, <3>3 DEF Reach
  <2> QED BY <2>1, <2>2
<1> QED BY <1>q, <1>o, <1>2, <1>7, <1>8 DEF FollowedOn

TurnsUpTo(lengths, i) == {k \in DOMAIN lengths : TurnsAt(lengths, k) /\ k <= i}

\* Turns are counted segment by segment.
LEMMA TurnsCounted ==
  ASSUME NEW lengths \in Lengths
  PROVE  /\ Cardinality(TurnsUpTo(lengths, 0)) = 0
         /\ \A i \in 0 .. Len(lengths) : Cardinality(TurnsUpTo(lengths, i)) \in Nat
         /\ \A i \in 1 .. Len(lengths) :
              Cardinality(TurnsUpTo(lengths, i))
                = Cardinality(TurnsUpTo(lengths, i - 1)) + (IF TurnsAt(lengths, i) THEN 1 ELSE 0)
         /\ TurnsUpTo(lengths, Len(lengths)) = {k \in DOMAIN lengths : TurnsAt(lengths, k)}
<1>n. PICK n \in Nat : n = Len(lengths) /\ DOMAIN lengths = 1 .. n
  BY DEF Lengths
<1>1. TurnsUpTo(lengths, 0) = {}
  BY <1>n DEF TurnsUpTo
<1>2. \A i \in 0 .. n : IsFiniteSet(TurnsUpTo(lengths, i))
  <2> TAKE i \in 0 .. n
  <2>1. IsFiniteSet(1 .. n)
    BY FS_Interval
  <2>2. TurnsUpTo(lengths, i) \in SUBSET (1 .. n)
    BY <1>n DEF TurnsUpTo
  <2> QED BY <2>1, <2>2, FS_Subset
<1>3. \A i \in 0 .. n : Cardinality(TurnsUpTo(lengths, i)) \in Nat
  BY <1>2, FS_CardinalityType
<1>4. ASSUME NEW i \in 1 .. n
      PROVE  Cardinality(TurnsUpTo(lengths, i))
               = Cardinality(TurnsUpTo(lengths, i - 1)) + (IF TurnsAt(lengths, i) THEN 1 ELSE 0)
  <2>1. i - 1 \in 0 .. n /\ ~(i <= i - 1) /\ \A k \in 1 .. n : k <= i <=> k <= i - 1 \/ k = i
    OBVIOUS
  <2>2. CASE TurnsAt(lengths, i)
    <3>1. TurnsUpTo(lengths, i) = TurnsUpTo(lengths, i - 1) \cup {i}
      BY <1>n, <2>1, <2>2 DEF TurnsUpTo
    <3>2. i \notin TurnsUpTo(lengths, i - 1)
      BY <2>1 DEF TurnsUpTo
    <3>3. IsFiniteSet(TurnsUpTo(lengths, i - 1))
      BY <1>2, <2>1
    <3> QED BY <2>2, <3>1, <3>2, <3>3, FS_AddElement
  <2>3. CASE ~TurnsAt(lengths, i)
    <3>1. TurnsUpTo(lengths, i) = TurnsUpTo(lengths, i - 1)
      BY <1>n, <2>1, <2>3 DEF TurnsUpTo
    <3>2. Cardinality(TurnsUpTo(lengths, i - 1)) \in Nat
      BY <1>3, <2>1
    <3> QED BY <2>3, <3>1, <3>2
  <2> QED BY <2>2, <2>3
<1>5. TurnsUpTo(lengths, n) = {k \in DOMAIN lengths : TurnsAt(lengths, k)}
  BY <1>n DEF TurnsUpTo
<1> QED BY <1>n, <1>1, <1>3, <1>4, <1>5, FS_EmptySet

\* Room for k stations up to segment i, on which the walk goes on at e.
Room(lengths, step, total, i, e, k) ==
  k * step <= (e * Dir(lengths, i) - step)
                + (total + 2 * (step * Cardinality(TurnsUpTo(lengths, i))))

\* There is room for the stations of a segment: a step for each, and two for a turn.
LEMMA RoomGrows ==
  ASSUME NEW lengths \in Lengths, NEW step \in Nat \ {0}, TurnsAreLong(lengths, step),
         NEW i \in 1 .. Len(lengths), NEW e \in Int, NEW reach \in Int, NEW c \in Nat,
         Normal(lengths, step, i - 1, e, reach) \/ Pending(lengths, step, i - 1, e, reach),
         NEW total \in Int, NEW k \in Nat, Room(lengths, step, total, i - 1, e, k)
  PROVE  Room(lengths, step, total + lengths[i] * Sign(lengths[i]), i,
              NextOffset(lengths, step, i, e, c), k + c)
<1>n. PICK n \in Nat : n = Len(lengths) /\ lengths \in [1 .. n -> Int \ {0}]
  BY DEF Lengths
<1>i. i \in 1 .. n /\ i - 1 \in 0 .. n
  BY <1>n
<1>l. PICK l \in Int \ {0} : l = lengths[i]
  BY <1>n, <1>i
<1>s. PICK s \in {1, -1} : s = Sign(l)
  BY DEF Sign
<1>t. PICK t \in {1, -1} : t = Dir(lengths, i - 1)
  BY DEF Dir, Sign
<1>1. Dir(lengths, i) = s
  BY <1>l, <1>s, DirectionStays
<1>2. PICK m \in Nat : m = Cardinality(TurnsUpTo(lengths, i - 1))
  BY <1>n, <1>i, TurnsCounted
<1>3. Cardinality(TurnsUpTo(lengths, i)) = m + (IF TurnsAt(lengths, i) THEN 1 ELSE 0)
  BY <1>n, <1>i, <1>2, TurnsCounted
<1>4. PICK w \in Int : w = c * step
  OBVIOUS
<1>5. PICK v \in Int : v = k * step
  OBVIOUS
<1>6. PICK M \in Int : M = l * s
  OBVIOUS
<1>7. PICK E \in Int : E = e * s
  OBVIOUS
<1>8. PICK h \in Int : h = step * m
  OBVIOUS
<1>9. (k + c) * step = v + w
  BY <1>4, <1>5
<1>10. (e + c * (step * s) - l) * s = E + w - M
  <2>1. CASE s = 1
    <3>1. c * (step * s) = w
      BY <1>4, <2>1
    <3>2. E = e /\ M = l
      BY <1>6, <1>7, <2>1
    <3> QED BY <2>1, <3>1, <3>2
  <2>2. CASE s = -1
    <3>1. c * (step * s) = -w
      BY <1>4, <2>2
    <3>2. E = -e /\ M = -l
      BY <1>6, <1>7, <2>2
    <3>3. (e - w - l) * (-1) = -e + w + l
      OBVIOUS
    <3>4. e + c * (step * s) - l = e - w - l
      BY <3>1
    <3> QED BY <2>2, <3>2, <3>3, <3>4
  <2> QED BY <2>1, <2>2
<1>11. NextOffset(lengths, step, i, e, c) * s = E + w - M
  BY <1>l, <1>s, <1>10 DEF NextOffset
<1>12. v <= (e * t - step) + (total + 2 * h)
  BY <1>t, <1>2, <1>5, <1>8 DEF Room
<1>13. CASE ~TurnsAt(lengths, i)
  <2>1. t = s
    BY <1>13, <1>l, <1>s, <1>t, DirectionStays
  <2>2. v + w <= ((E + w - M) - step) + ((total + M) + 2 * h)
    BY <1>7, <1>12, <2>1
  <2>3. step * Cardinality(TurnsUpTo(lengths, i)) = h
    BY <1>3, <1>8, <1>13
  <2> QED BY <1>l, <1>s, <1>1, <1>6, <1>9, <1>11, <2>2, <2>3 DEF Room
<1>14. CASE TurnsAt(lengths, i)
  <2>1. Normal(lengths, step, i - 1, e, reach)
    <3>1. ASSUME Pending(lengths, step, i - 1, e, reach) PROVE FALSE
      <4>1. PICK j \in 2 .. i - 1 : Turning(lengths, step, i - 1, e, j)
        BY <3>1 DEF Pending
      <4> QED BY <1>14, <4>1, BehindSince
    <3> QED BY <3>1
  <2>2. e * t \in 1 .. step
    BY <1>t, <2>1 DEF Normal, GoesOn
  <2>3. E = 0 - e * t
    <3>1. t + s = 0
      BY <1>14, <1>l, <1>s, <1>t, DirectionStays
    <3>2. CASE s = 1
      BY <1>7, <3>1, <3>2
    <3>3. CASE s = -1
      BY <1>7, <3>1, <3>3
    <3> QED BY <3>2, <3>3
  <2>4. v + w <= ((E + w - M) - step) + ((total + M) + 2 * (h + step))
    <3>1. PICK x \in 1 .. step : x = e * t
      BY <2>2
    <3> QED BY <1>12, <2>3, <3>1
  <2>5. step * Cardinality(TurnsUpTo(lengths, i)) = h + step
    <3>1. step * (m + 1) = step * m + step
      OBVIOUS
    <3> QED BY <1>3, <1>8, <1>14, <3>1
  <2> QED BY <1>l, <1>s, <1>1, <1>6, <1>9, <1>11, <2>4, <2>5 DEF Room
<1> QED BY <1>13, <1>14

\* What holds of a walk after each of its segments.
WalkedWell(lengths, step, total, i, e, q) ==
  /\ Reach(lengths, q) \in Int
  /\ Follows(lengths, step, q)
  /\ Normal(lengths, step, i, e, Reach(lengths, q)) \/ Pending(lengths, step, i, e, Reach(lengths, q))
  /\ Room(lengths, step, total, i, e, Len(q))

\* A walk begins well.
LEMMA WalkBegins ==
  ASSUME NEW lengths \in Lengths, NEW step \in Nat \ {0}, NEW e, e = step * Sign(lengths[1])
  PROVE  WalkedWell(lengths, step, 0, 0, e, << >>)
<1>1. PICK s \in {1, -1} : s = Sign(lengths[1]) /\ s = Dir(lengths, 0)
  BY DEF Sign, Dir
<1>2. e = step * s /\ e \in Int /\ e * s = step /\ e = s * step
  <2>1. CASE s = 1
    BY <1>1, <2>1
  <2>2. CASE s = -1
    <3>1. step * (-1) = -step /\ (-1) * step = -step
      OBVIOUS
    <3>2. (-step) * (-1) = step
      OBVIOUS
    <3> QED BY <1>1, <2>2, <3>1, <3>2
  <2> QED BY <2>1, <2>2
<1>3. Reach(lengths, << >>) = 0 /\ Follows(lengths, step, << >>)
  BY DEF Reach, Follows
<1>4. Ahead(lengths, 0, e, 0) = s * step
  <2>1. WayTo(lengths, 0) = 0
    BY WaysAre
  <2> QED BY <1>2, <2>1 DEF Ahead
<1>5. Normal(lengths, step, 0, e, 0)
  BY <1>1, <1>2, <1>4 DEF Normal, GoesOn
<1>6. Room(lengths, step, 0, 0, e, 0)
  <2>1. Cardinality(TurnsUpTo(lengths, 0)) = 0
    BY TurnsCounted
  <2>2. 0 * step = 0 /\ step * 0 = 0
    OBVIOUS
  <2> QED BY <1>1, <1>2, <2>1, <2>2 DEF Room
<1>7. Len(<< >>) = 0
  OBVIOUS
<1> QED BY <1>3, <1>5, <1>6, <1>7 DEF WalkedWell

\* A walk that has gone well goes well on the next segment.
LEMMA WalkContinues ==
  ASSUME NEW lengths \in Lengths, NEW step \in Nat \ {0}, TurnsAreLong(lengths, step),
         NEW i \in 1 .. Len(lengths), NEW e \in Int, NEW c \in Nat, NEW q \in Seq(Stns),
         NEW total \in Int, WalkedWell(lengths, step, total, i - 1, e, q),
         Walks(lengths[i] * Sign(lengths[i]), e * Sign(lengths[i]), step, c),
         NEW r \in Seq(Stns), r = q \o OnStations(i, e, step * Sign(lengths[i]), c)
  PROVE  WalkedWell(lengths, step, total + lengths[i] * Sign(lengths[i]), i,
                    NextOffset(lengths, step, i, e, c), r)
<1>n. PICK n \in Nat : n = Len(lengths) /\ lengths \in [1 .. n -> Int \ {0}]
  BY DEF Lengths
<1>o. PICK o \in Int : o = WayTo(lengths, i - 1)
  <2>1. i - 1 \in 0 .. n
    BY <1>n
  <2> QED BY <1>n, <2>1, WaysAre
<1>d. PICK d \in {step, -step} : d = step * Sign(lengths[i])
  <2>1. Sign(lengths[i]) = 1 \/ Sign(lengths[i]) = -1
    BY DEF Sign
  <2>2. step * 1 = step /\ step * (-1) = -step
    OBVIOUS
  <2> QED BY <2>1, <2>2
<1>1. PICK reach \in Int : reach = Reach(lengths, q)
  BY DEF WalkedWell
<1>2. Normal(lengths, step, i - 1, e, reach) \/ Pending(lengths, step, i - 1, e, reach)
  BY <1>1 DEF WalkedWell
<1>3. Magnitude((o + e) - reach) <= step
  <2>1. Ahead(lengths, i - 1, e, reach) \in {step, -step}
    <3>1. CASE Normal(lengths, step, i - 1, e, reach)
      <4>1. Dir(lengths, i - 1) = 1 \/ Dir(lengths, i - 1) = -1
        BY DEF Dir, Sign
      <4>2. Ahead(lengths, i - 1, e, reach) = Dir(lengths, i - 1) * step
        BY <3>1 DEF Normal, GoesOn
      <4>3. 1 * step = step /\ (-1) * step = -step
        OBVIOUS
      <4> QED BY <4>1, <4>2, <4>3
    <3>2. CASE Pending(lengths, step, i - 1, e, reach)
      BY <3>2 DEF Pending
    <3> QED BY <1>2, <3>1, <3>2
  <2>2. Ahead(lengths, i - 1, e, reach) = (o + e) - reach
    BY <1>o DEF Ahead
  <2> QED BY <2>1, <2>2 DEF Magnitude
<1>4. PlacedOn(lengths, step, i, e, d, c)
  <2>1. \A m \in 1 .. c : m \in Nat \ {0}
    OBVIOUS
  <2> QED BY <1>d, <1>2, <2>1, StationsPlaced DEF PlacedOn
<1>5. Follows(lengths, step, q)
  BY DEF WalkedWell
<1>6. /\ Follows(lengths, step, r) /\ Len(r) = Len(q) + c
      /\ Reach(lengths, r) = IF c = 0 THEN reach ELSE o + (e + (c - 1) * d)
  <2>1. r = q \o OnStations(i, e, d, c)
    BY <1>d
  <2>2. Magnitude((WayTo(lengths, i - 1) + e) - Reach(lengths, q)) <= step
    BY <1>o, <1>1, <1>3
  <2>3. FollowedOn(lengths, step, i, e, d, c, q, r)
    BY <1>4, <1>5, <2>1, <2>2, FollowOn
  <2> QED BY <1>o, <1>1, <2>3 DEF FollowedOn
<1>7. Reach(lengths, r) = ReachOn(lengths, step, i, e, c, reach) /\ Reach(lengths, r) \in Int
  BY <1>o, <1>d, <1>6 DEF ReachOn
<1>8. LET e1 == NextOffset(lengths, step, i, e, c)
          r1 == Reach(lengths, r)
      IN Normal(lengths, step, i, e1, r1) \/ Pending(lengths, step, i, e1, r1)
  BY <1>2, <1>7, NextSegment
<1>9. Room(lengths, step, total + lengths[i] * Sign(lengths[i]), i,
           NextOffset(lengths, step, i, e, c), Len(r))
  <2>1. Room(lengths, step, total, i - 1, e, Len(q)) /\ Len(q) \in Nat
    BY DEF WalkedWell
  <2> QED BY <1>2, <1>6, <2>1, RoomGrows
<1> QED BY <1>6, <1>7, <1>8, <1>9 DEF WalkedWell

(* The stations at which a word is interpolated follow it to its end, a    *)
(* step at most from one to the next, and there is room for all of them,   *)
(* however long the word is (GenerateLocalConfigurations).  After a change *)
(* of direction it must be driven far enough to get past the change; and   *)
(* changes are few: a word of four segments or fewer has no more than      *)
(* this, nor has one of CCSCC, which changes twice.                        *)
THEOREM StationsAlwaysFollow ==
  ASSUME NEW lengths \in Seq(Int \ {0}), lengths # << >>, NEW step \in Nat \ {0},
         TurnsAreLong(lengths, step),
         2 * Cardinality({k \in DOMAIN lengths : TurnsAt(lengths, k)}) <= Len(lengths) + 2
  PROVE  StationsFollow(lengths, step)
<1>n. PICK n \in Nat : n = Len(lengths) /\ n >= 1 /\ lengths \in [1 .. n -> Int \ {0}]
  OBVIOUS
<1>L. lengths \in Lengths
  BY DEF Lengths
<1>w. PICK kept \in [0 .. n -> Seq(Stns)], e \in [0 .. n -> Int], c \in [1 .. n -> Nat] :
        /\ IsWalk(lengths, step, kept, e, c)
        /\ Stations(lengths, step) = Append(kept[n], EndOf(n, lengths[n]))
  BY <1>n, <1>L, StationsWalk
<1>t. PICK total \in [0 .. n -> Int] :
        /\ total[0] = 0
        /\ \A i \in 1 .. n : total[i] = total[i-1] + lengths[i] * Sign(lengths[i])
        /\ PointNum(lengths, step) = (total[n] \div step) + n + 4
  BY <1>n, <1>L, PointNumIs
<1>1. \A i \in 0 .. n : WalkedWell(lengths, step, total[i], i, e[i], kept[i])
  <2> DEFINE P == {i \in Nat : i <= n => WalkedWell(lengths, step, total[i], i, e[i], kept[i])}
  <2>1. 0 \in P
    <3>1. kept[0] = << >> /\ e[0] = step * Sign(lengths[1])
      BY <1>w DEF IsWalk
    <3>2. WalkedWell(lengths, step, 0, 0, e[0], << >>)
      BY <1>L, <3>1, WalkBegins
    <3> QED BY <1>t, <3>1, <3>2
  <2>2. ASSUME NEW m \in P PROVE m + 1 \in P
    <3> SUFFICES ASSUME m + 1 <= n
                 PROVE  WalkedWell(lengths, step, total[m + 1], m + 1, e[m + 1], kept[m + 1])
      OBVIOUS
    <3>1. PICK i \in 1 .. n : i = m + 1 /\ i - 1 = m /\ m \in 0 .. n /\ i \in 0 .. n
      OBVIOUS
    <3>2. WalkedWell(lengths, step, total[m], m, e[m], kept[m])
      BY <3>1
    <3> HIDE DEF P
    <3>3. /\ kept[i] = kept[m] \o OnStations(i, e[m], step * Sign(lengths[i]), c[i])
          /\ e[i] = e[m] + c[i] * (step * Sign(lengths[i])) - lengths[i]
          /\ Walks(lengths[i] * Sign(lengths[i]), e[m] * Sign(lengths[i]), step, c[i])
      BY <1>n, <1>w, <3>1 DEF IsWalk
    <3>4. e[i] = NextOffset(lengths, step, i, e[m], c[i])
      BY <3>3 DEF NextOffset
    <3>5. total[i] = total[m] + lengths[i] * Sign(lengths[i])
      BY <1>t, <3>1
    <3>6. kept[m] \in Seq(Stns) /\ kept[i] \in Seq(Stns) /\ e[m] \in Int /\ total[m] \in Int
          /\ c[i] \in Nat
      BY <3>1
    <3>7. WalkedWell(lengths, step, total[m] + lengths[i] * Sign(lengths[i]), i,
                     NextOffset(lengths, step, i, e[m], c[i]), kept[i])
      BY <1>n, <1>L, <3>1, <3>2, <3>3, <3>6, WalkContinues
    <3> QED BY <3>1, <3>4, <3>5, <3>7
  <2>3. P = Nat
    <3> HIDE DEF P
    <3>1. P \in SUBSET Nat
      BY DEF P
    <3> QED BY <2>1, <2>2, <3>1, SetInduction
  <2>4. \A i \in 0 .. n : i \in P /\ i <= n
    <3> HIDE DEF P
    <3> QED BY <2>3
  <2> QED BY <2>4
<1>2. n \in 0 .. n /\ n \in 1 .. n
  BY <1>n
<1>3. PICK q \in Seq(Stns) : q = kept[n]
  BY <1>2
<1>4. PICK x \in Int : x = e[n]
  BY <1>2
<1>5. PICK T \in Int : T = total[n]
  BY <1>2
<1>6. PICK l \in Int \ {0} : l = lengths[n]
  BY <1>n, <1>2
<1>7. PICK s \in {1, -1} : s = Sign(l)
  BY DEF Sign
<1>8. WalkedWell(lengths, step, T, n, x, q)
  BY <1>1, <1>2, <1>3, <1>4, <1>5
<1>9. PICK reach \in Int : reach = Reach(lengths, q)
  BY <1>8 DEF WalkedWell
<1>10. Normal(lengths, step, n, x, reach)
  <2>1. ASSUME Pending(lengths, step, n, x, reach) PROVE FALSE
    <3>1. PICK k \in 2 .. n : Turning(lengths, step, n, x, k)
      BY <2>1 DEF Pending
    <3>2. n < Len(lengths)
      BY <1>n, <1>L, <1>2, <3>1, TurningEnds
    <3> QED BY <1>n, <3>2
  <2> QED BY <1>8, <1>9, <2>1 DEF WalkedWell
<1>11. Dir(lengths, n) = s
  BY <1>n, <1>L, <1>2, <1>6, <1>7, DirectionStays
<1>12. PICK o \in Int : o = WayTo(lengths, n - 1) /\ WayTo(lengths, n) = o + l
  <2>1. n - 1 \in 0 .. n
    BY <1>n
  <2> QED BY <1>n, <1>L, <1>2, <1>6, <2>1, WaysAre
<1>13. x * s \in 1 .. step /\ (o + l) + x - reach = s * step
  BY <1>10, <1>11, <1>12 DEF Normal, GoesOn, Ahead
<1>14. Magnitude((o + l) - reach) <= step
  <2>1. CASE s = 1
    <3>1. x \in 1 .. step /\ (o + l) - reach = step - x
      BY <1>13, <2>1
    <3> QED BY <3>1 DEF Magnitude
  <2>2. CASE s = -1
    <3>1. -x \in 1 .. step
      BY <1>13, <2>2
    <3>2. (o + l) - reach = -step - x
      BY <1>13, <2>2
    <3> QED BY <3>1, <3>2 DEF Magnitude
  <2> QED BY <2>1, <2>2
<1>15. PICK r \in Seq(Stns) : /\ r = Stations(lengths, step)
                              /\ r = q \o OnStations(n, l, step, 1)
                              /\ Len(r) = Len(q) + 1
                              /\ r[Len(r)] = EndOf(n, l)
  <2>1. EndOf(n, l) \in Stns
    BY DEF EndOf, Stns
  <2>2. /\ Append(q, EndOf(n, l)) \in Seq(Stns)
        /\ Len(Append(q, EndOf(n, l))) = Len(q) + 1
        /\ Append(q, EndOf(n, l))[Len(q) + 1] = EndOf(n, l)
    BY <2>1, AppendProperties
  <2>3. OnStations(n, l, step, 1) = << EndOf(n, l) >>
    <3>1. \A m \in 1 .. 1 : m = 1 /\ l + (m - 1) * step = l
      OBVIOUS
    <3>2. OnStations(n, l, step, 1) = [m \in 1 .. 1 |-> EndOf(n, l)]
      BY <3>1 DEF OnStations, EndOf
    <3> QED BY <3>2
  <2>4. Append(q, EndOf(n, l)) = q \o << EndOf(n, l) >>
    BY <2>1, AppendIsConcat
  <2> QED BY <1>3, <1>6, <1>w, <2>2, <2>3, <2>4
<1>16. Follows(lengths, step, r)
  <2>1. Follows(lengths, step, q)
    BY <1>8 DEF WalkedWell
  <2>2. Magnitude((WayTo(lengths, n - 1) + l) - Reach(lengths, q)) <= step
    BY <1>9, <1>12, <1>14
  <2>3. PlacedOn(lengths, step, n, l, step, 1)
    <3>1. l * l > 0
      BY SignsAgree
    <3>2. \A m \in 1 .. 1 : l + (m - 1) * step = l
      OBVIOUS
    <3> QED BY <1>6, <3>1, <3>2 DEF Placed, PlacedOn
  <2>4. n \in 1 .. Len(lengths) /\ step \in {step, -step} /\ 1 \in Nat
    BY <1>n
  <2>5. FollowedOn(lengths, step, n, l, step, 1, q, r)
    BY <1>L, <1>15, <2>1, <2>2, <2>3, <2>4, FollowOn
  <2> QED BY <2>5 DEF FollowedOn
<1>17. Len(r) + 1 <= PointNum(lengths, step)
  <2>1. PICK m \in Nat : m = Cardinality(TurnsUpTo(lengths, n))
    BY <1>n, <1>L, <1>2, TurnsCounted
  <2>2. 2 * m <= n + 2
    BY <1>n, <1>L, <2>1, TurnsCounted
  <2>3. PICK K \in Nat : K = Len(q)
    OBVIOUS
  <2>4. K * step <= (x * s - step) + (T + 2 * (step * m))
    BY <1>8, <1>11, <2>1, <2>3 DEF WalkedWell, Room
  <2>5. (K - 2 * m) * step <= T
    <3>1. PICK h \in Int : h = step * m
      OBVIOUS
    <3>2. PICK v \in Int : v = K * step
      OBVIOUS
    <3>3. (K - 2 * m) * step = v - 2 * h
      BY <3>1, <3>2
    <3>4. PICK y \in 1 .. step : y = x * s
      BY <1>13
    <3>5. v <= (y - step) + (T + 2 * h)
      BY <2>4, <3>1, <3>2, <3>4
    <3> QED BY <3>3, <3>4, <3>5
  <2>6. K - 2 * m <= T \div step
    <3>1. K - 2 * m \in Int
      OBVIOUS
    <3> QED BY <2>5, <3>1, QuotientIs
  <2>7. PICK f \in Int : f = T \div step
    BY QuotientIs
  <2>8. PointNum(lengths, step) = f + n + 4
    BY <1>t, <1>5, <2>7
  <2> QED BY <1>15, <2>2, <2>3, <2>6, <2>7, <2>8
<1>18. \A i \in DOMAIN r : FollowsAt(lengths, step, r, i)
  BY <1>16 DEF Follows
<1>19. r[Len(r)] = [seg |-> Len(lengths), pd |-> lengths[Len(lengths)]]
  BY <1>n, <1>6, <1>15 DEF EndOf
<1> QED BY <1>15, <1>17, <1>18, <1>19 DEF StationsFollow, FollowsAt
=============================================================================
