------------------------- MODULE RouteQueries_proofs -------------------------
(***************************************************************************)
(* Proofs about RouteGeometry, GeoIngest and RouteProgress, for all lines  *)
(* parallel to the axes, relations, candidates, reports, speeds and        *)
(* thresholds.  Lines come first, then what geo-ingest makes of a          *)
(* relation, dead reckoning, the invariant of the bus's progress, and what *)
(* passengers are told of stops, journeys and buses.                       *)
(***************************************************************************)
EXTENDS RouteQueries, SumTheorems, TLAPS

(***************************************************************************)
(* Lines and the lengths along them.                                       *)
(***************************************************************************)

Line == {line \in Seq(Point) : Len(line) >= 2}
Straight(line) == \A i \in Piece(line) : line[i][1] = line[i + 1][1] \/ line[i][2] = line[i + 1][2]

(* The points and pieces of a line.                                        *)
LEMMA Points ==
  ASSUME NEW line \in Line
  PROVE  /\ Len(line) \in Nat /\ Len(line) >= 2
         /\ \A i \in 1 .. Len(line) : line[i] \in Point
         /\ Piece(line) # {} /\ 1 \in Piece(line)
         /\ \A i \in Piece(line) : i \in 1 .. Len(line) /\ i + 1 \in 1 .. Len(line) /\ i \in Nat
<1>1. line \in Seq(Point) /\ Len(line) >= 2 /\ Len(line) \in Nat
  BY DEF Line
<1>2. \A i \in 1 .. Len(line) : line[i] \in Point
  BY <1>1
<1>3. 1 \in Piece(line) /\ \A i \in Piece(line) : i \in 1 .. Len(line) /\ i + 1 \in 1 .. Len(line) /\ i \in Nat
  BY <1>1 DEF Piece
<1> QED BY <1>1, <1>2, <1>3

(* Distance is a metric on the points.                                     *)
LEMMA Distances ==
  ASSUME NEW p \in Point, NEW q \in Point
  PROVE  /\ Distance(p, q) \in Nat /\ Distance(p, p) = 0
         /\ Distance(p, q) = 0 => p = q
         /\ \A r \in Point : Distance(p, r) <= Distance(p, q) + Distance(q, r)
<1>1. p = <<p[1], p[2]>> /\ q = <<q[1], q[2]>> /\ p[1] \in Int /\ p[2] \in Int /\ q[1] \in Int /\ q[2] \in Int
  BY DEF Point
<1>2. \A r \in Point : r[1] \in Int /\ r[2] \in Int
  BY DEF Point
<1>3. \A x \in Int : Abs(x) \in Nat /\ (Abs(x) = 0 => x = 0) /\ Abs(0) = 0
  BY DEF Abs
<1>4. \A x, y, z \in Int : Abs(x - z) <= Abs(x - y) + Abs(y - z)
  BY DEF Abs
<1>5. Distance(p, q) \in Nat /\ Distance(p, p) = 0
  BY <1>1, <1>3 DEF Distance
<1>6. Distance(p, q) = 0 => p = q
  <2>1. SUFFICES ASSUME Distance(p, q) = 0 PROVE p = q
    OBVIOUS
  <2>2. Abs(p[1] - q[1]) = 0 /\ Abs(p[2] - q[2]) = 0
    BY <1>1, <1>3, <2>1 DEF Distance
  <2>3. p[1] = q[1] /\ p[2] = q[2]
    BY <1>1, <1>3, <2>2
  <2> QED BY <1>1, <2>3
<1>7. ASSUME NEW r \in Point PROVE Distance(p, r) <= Distance(p, q) + Distance(q, r)
  <2>1. /\ Abs(p[1] - r[1]) <= Abs(p[1] - q[1]) + Abs(q[1] - r[1])
        /\ Abs(p[2] - r[2]) <= Abs(p[2] - q[2]) + Abs(q[2] - r[2])
    BY <1>1, <1>2, <1>4
  <2>2. \A x \in {p[1] - r[1], p[1] - q[1], q[1] - r[1], p[2] - r[2], p[2] - q[2], q[2] - r[2]} : Abs(x) \in Nat
    BY <1>1, <1>2, <1>3
  <2> QED BY <2>1, <2>2 DEF Distance
<1> QED BY <1>5, <1>6, <1>7

(* The recursive function of LengthBefore.                                 *)
Befores(f, line, n) ==
    f = [j \in 1 .. n |-> IF j = 1 THEN 0 ELSE f[j - 1] + PieceLen(line, j - 1)]

(* The recursive definition has a function, by the least length without    *)
(* one.                                                                    *)
LEMMA BeforesExist ==
  ASSUME NEW line
  PROVE  \A n \in Nat : \E f : Befores(f, line, n)
<1> DEFINE P == {n \in Nat : \E f : Befores(f, line, n)}
<1>1. 0 \in P
  <2> DEFINE f == [j \in 1 .. 0 |-> 0]
  <2>1. Befores(f, line, 0)
    BY DEF Befores
  <2> QED BY <2>1
<1>2. ASSUME NEW n \in Nat, n \in P PROVE n + 1 \in P
  <2>1. PICK f : Befores(f, line, n)
    BY <1>2
  <2> DEFINE g == [j \in 1 .. n + 1 |-> IF j = 1 THEN 0 ELSE f[j - 1] + PieceLen(line, j - 1)]
  <2>2. \A j \in 1 .. n : g[j] = f[j]
    BY <2>1 DEF Befores
  <2>3. \A j \in 1 .. n + 1 : j # 1 => j - 1 \in 1 .. n
    OBVIOUS
  <2>4. g = [j \in 1 .. n + 1 |-> IF j = 1 THEN 0 ELSE g[j - 1] + PieceLen(line, j - 1)]
    <3> DEFINE h == [j \in 1 .. n + 1 |-> IF j = 1 THEN 0 ELSE g[j - 1] + PieceLen(line, j - 1)]
    <3>1. \A j \in 1 .. n + 1 : g[j] = h[j]
      BY <2>2, <2>3
    <3> QED BY <3>1
  <2>5. Befores(g, line, n + 1)
    BY <2>4 DEF Befores
  <2> HIDE DEF g
  <2> QED BY <2>5
<1>3. ASSUME NEW n \in Nat PROVE n \in P
  <2> HIDE DEF P
  <2>1. \A i \in 0 .. n - 1 : i \in P => i + 1 \in P
    BY <1>2
  <2>2. \A i \in 0 .. n : i \in P
    BY <1>1, <2>1, Upwards
  <2> QED BY <2>2
<1> QED BY <1>3

(* Any two such functions agree where both are defined.                    *)
LEMMA BeforesAgree ==
  ASSUME NEW line, NEW n \in Nat, NEW m \in Nat, n <= m,
         NEW f, Befores(f, line, n), NEW g, Befores(g, line, m)
  PROVE  \A j \in 1 .. n : f[j] = g[j]
<1> DEFINE P == {j \in Nat : j \in 1 .. n => f[j] = g[j]}
<1>1. 1 \in P
  BY DEF Befores
<1>2. \A i \in 1 .. n - 1 : i \in P => i + 1 \in P
  <2>1. SUFFICES ASSUME NEW i \in 1 .. n - 1, f[i] = g[i] PROVE f[i + 1] = g[i + 1]
    OBVIOUS
  <2>2. i + 1 \in 1 .. n /\ i + 1 \in 1 .. m /\ i + 1 # 1 /\ (i + 1) - 1 = i
    OBVIOUS
  <2>3. f[i + 1] = f[i] + PieceLen(line, i) /\ g[i + 1] = g[i] + PieceLen(line, i)
    BY <2>2 DEF Befores
  <2> QED BY <2>1, <2>3
<1>3. \A i \in 1 .. n : i \in P
  <2> HIDE DEF P
  <2> QED BY <1>1, <1>2, Upwards
<1> QED BY <1>3

(* So LengthBefore is computed by its recursion.                           *)
LEMMA Befored ==
  ASSUME NEW line, NEW n \in Nat, n >= 1
  PROVE  \E f : Befores(f, line, n) /\ LengthBefore(line, n) = f[n]
<1>1. LengthBefore(line, n) = (CHOOSE f : Befores(f, line, n))[n]
  BY DEF LengthBefore, Befores
<1> QED BY <1>1, BeforesExist

(* The length before a point is that before the last one and the piece     *)
(* between.                                                                *)
LEMMA Lengths ==
  ASSUME NEW line \in Line
  PROVE  /\ LengthBefore(line, 1) = 0
         /\ \A i \in Piece(line) : LengthBefore(line, i + 1) = LengthBefore(line, i) + PieceLen(line, i)
         /\ \A i \in 1 .. Len(line) : LengthBefore(line, i) \in Nat
         /\ \A i \in Piece(line) : PieceLen(line, i) \in Nat /\ LengthBefore(line, i) \in Nat
<1>1. LengthBefore(line, 1) = 0
  BY Befored DEF Befores
<1>2. ASSUME NEW i \in Piece(line)
      PROVE LengthBefore(line, i + 1) = LengthBefore(line, i) + PieceLen(line, i)
  <2>1. i \in Nat /\ i >= 1 /\ i + 1 \in Nat /\ i + 1 >= 1 /\ i <= i + 1
    BY Points DEF Piece
  <2>2. PICK f : Befores(f, line, i) /\ LengthBefore(line, i) = f[i]
    BY <2>1, Befored
  <2>3. PICK g : Befores(g, line, i + 1) /\ LengthBefore(line, i + 1) = g[i + 1]
    BY <2>1, Befored
  <2>4. f[i] = g[i]
    BY <2>1, <2>2, <2>3, BeforesAgree
  <2>5. g[i + 1] = g[i] + PieceLen(line, i)
    BY <2>1, <2>3 DEF Befores
  <2> QED BY <2>2, <2>3, <2>4, <2>5
<1>3. \A i \in Piece(line) : PieceLen(line, i) \in Nat
  BY Points, Distances DEF PieceLen
<1>4. \A i \in 1 .. Len(line) : LengthBefore(line, i) \in Nat
  <2> DEFINE P == {i \in Nat : LengthBefore(line, i) \in Nat}
  <2>1. 1 \in P
    BY <1>1
  <2>2. \A i \in 1 .. Len(line) - 1 : i \in P => i + 1 \in P
    BY <1>2, <1>3 DEF Piece
  <2>3. Len(line) \in Nat
    BY Points
  <2> HIDE DEF P
  <2>4. \A i \in 1 .. Len(line) : i \in P
    BY <2>1, <2>2, <2>3, Upwards
  <2> QED BY <2>4 DEF P
<1> QED BY <1>1, <1>2, <1>3, <1>4, Points

(* A line is no shorter than the way across.                               *)
LEMMA Across ==
  ASSUME NEW line \in Line, NEW i \in 1 .. Len(line), NEW j \in i .. Len(line)
  PROVE  Distance(line[i], line[j]) <= LengthBefore(line, j) - LengthBefore(line, i)
<1> DEFINE P == {k \in Nat : Distance(line[i], line[k]) <= LengthBefore(line, k) - LengthBefore(line, i)}
<1>0. i \in Nat /\ Len(line) \in Nat /\ line[i] \in Point
  BY Points
<1>1. i \in P
  BY <1>0, Distances, Lengths
<1>2. ASSUME NEW k \in i .. Len(line) - 1, k \in P PROVE k + 1 \in P
  <2>1. k \in Piece(line) /\ k \in 1 .. Len(line) /\ k + 1 \in 1 .. Len(line)
    BY <1>0 DEF Piece
  <2>2. line[k] \in Point /\ line[k + 1] \in Point
    BY <2>1, Points
  <2>3. Distance(line[i], line[k + 1]) <= Distance(line[i], line[k]) + PieceLen(line, k)
    BY <1>0, <2>2, Distances DEF PieceLen
  <2>4. LengthBefore(line, k + 1) = LengthBefore(line, k) + PieceLen(line, k)
    BY <2>1, Lengths
  <2>5. /\ LengthBefore(line, k) \in Nat /\ LengthBefore(line, i) \in Nat /\ PieceLen(line, k) \in Nat
        /\ LengthBefore(line, k + 1) \in Nat
    BY <2>1, Lengths
  <2>6. Distance(line[i], line[k]) \in Nat /\ Distance(line[i], line[k + 1]) \in Nat
    BY <1>0, <2>2, Distances
  <2>7. Distance(line[i], line[k]) <= LengthBefore(line, k) - LengthBefore(line, i)
    BY <1>2
  <2>8. k + 1 \in Nat
    BY <2>1
  <2> QED BY SMTT(30), <2>3, <2>4, <2>5, <2>6, <2>7, <2>8
<1> HIDE DEF P
<1>3. \A k \in i .. Len(line) : k \in P
  BY <1>0, <1>1, <1>2, Upwards
<1> QED BY <1>3 DEF P

(* Lengths grow along the line; only equal points are equally far.         *)
LEMMA LengthsGrow ==
  ASSUME NEW line \in Line, NEW i \in 1 .. Len(line), NEW j \in i .. Len(line)
  PROVE  /\ LengthBefore(line, i) <= LengthBefore(line, j)
         /\ LengthBefore(line, i) = LengthBefore(line, j) => line[i] = line[j]
<1>1. Distance(line[i], line[j]) <= LengthBefore(line, j) - LengthBefore(line, i)
  BY Across
<1>2. j \in 1 .. Len(line)
  OBVIOUS
<1>3. line[i] \in Point /\ line[j] \in Point /\ LengthBefore(line, i) \in Nat /\ LengthBefore(line, j) \in Nat
  BY <1>2, Points, Lengths
<1>4. Distance(line[i], line[j]) \in Nat /\ (Distance(line[i], line[j]) = 0 => line[i] = line[j])
  BY <1>3, Distances
<1> QED BY <1>1, <1>3, <1>4

(***************************************************************************)
(* Pieces parallel to an axis.                                             *)
(***************************************************************************)

(* Points are pairs of integers.                                           *)
LEMMA Coordinates ==
  /\ \A p \in Point : p[1] \in Int /\ p[2] \in Int
  /\ \A p, q \in Point : (p[1] = q[1] /\ p[2] = q[2]) => p = q
  /\ \A x, y \in Int : <<x, y>> \in Point
<1>1. \A p \in Point : p[1] \in Int /\ p[2] \in Int /\ p = <<p[1], p[2]>>
  BY DEF Point
<1>2. \A p, q \in Point : (p[1] = q[1] /\ p[2] = q[2]) => p = q
  BY <1>1
<1> QED BY <1>1, <1>2 DEF Point

(* Squares are ordered as the absolute values.                             *)
LEMMA Squares ==
  /\ \A x \in Int : Square(x) \in Nat /\ Square(x) = Square(-x) /\ (Square(x) = 0 => x = 0)
  /\ \A x, y \in Int : Abs(x) <= Abs(y) => Square(x) <= Square(y)
<1>1. \A x \in Nat, y \in Nat : x <= y => x * x <= y * y
  OBVIOUS
<1>2. \A x \in Int : x * x \in Int /\ x * x >= 0 /\ x * x = (-x) * (-x) /\ (x * x = 0 => x = 0)
  OBVIOUS
<1>3. \A x \in Int : Abs(x) \in Nat /\ (Abs(x) = x \/ Abs(x) = -x)
  BY DEF Abs
<1>4. \A x \in Int : Abs(x) * Abs(x) = x * x
  BY <1>2, <1>3
<1>5. ASSUME NEW x \in Int, NEW y \in Int, Abs(x) <= Abs(y) PROVE x * x <= y * y
  BY <1>1, <1>3, <1>4, <1>5
<1> QED BY <1>2, <1>5 DEF Square

(* Offsets are ordered as the coordinates are apart.                       *)
LEMMA Offsets ==
  /\ \A p, q \in Point : OffsetSq(p, q) \in Nat /\ (OffsetSq(p, q) = 0 => p = q) /\ OffsetSq(p, p) = 0
  /\ \A p, q, r \in Point : (/\ Abs(p[1] - q[1]) <= Abs(p[1] - r[1])
                             /\ Abs(p[2] - q[2]) <= Abs(p[2] - r[2])) => OffsetSq(p, q) <= OffsetSq(p, r)
<1>1. ASSUME NEW p \in Point, NEW q \in Point
      PROVE  OffsetSq(p, q) \in Nat /\ (OffsetSq(p, q) = 0 => p = q) /\ OffsetSq(p, p) = 0
  <2>1. p[1] \in Int /\ p[2] \in Int /\ q[1] \in Int /\ q[2] \in Int /\ p[1] - q[1] \in Int /\ p[2] - q[2] \in Int
    BY Coordinates
  <2>2. /\ Square(p[1] - q[1]) \in Nat /\ Square(p[2] - q[2]) \in Nat
        /\ (Square(p[1] - q[1]) = 0 => p[1] - q[1] = 0) /\ (Square(p[2] - q[2]) = 0 => p[2] - q[2] = 0)
    BY <2>1, Squares
  <2>3. Square(0) = 0 /\ p[1] - p[1] = 0 /\ p[2] - p[2] = 0
    BY <2>1 DEF Square
  <2>4. OffsetSq(p, q) = 0 => p[1] = q[1] /\ p[2] = q[2]
    <3>1. OffsetSq(p, q) = 0 => Square(p[1] - q[1]) = 0 /\ Square(p[2] - q[2]) = 0
      BY <2>2 DEF OffsetSq
    <3> QED BY <2>1, <2>2, <3>1
  <2> QED BY <2>2, <2>3, <2>4, Coordinates DEF OffsetSq
<1>2. ASSUME NEW p \in Point, NEW q \in Point, NEW r \in Point,
             Abs(p[1] - q[1]) <= Abs(p[1] - r[1]), Abs(p[2] - q[2]) <= Abs(p[2] - r[2])
      PROVE  OffsetSq(p, q) <= OffsetSq(p, r)
  <2>1. /\ p[1] - q[1] \in Int /\ p[2] - q[2] \in Int /\ p[1] - r[1] \in Int /\ p[2] - r[2] \in Int
    BY Coordinates
  <2>2. /\ Square(p[1] - q[1]) <= Square(p[1] - r[1]) /\ Square(p[2] - q[2]) <= Square(p[2] - r[2])
        /\ \A x \in {p[1] - q[1], p[1] - r[1], p[2] - q[2], p[2] - r[2]} : Square(x) \in Nat
    BY <1>2, <2>1, Squares
  <2> QED BY <2>2 DEF OffsetSq
<1> QED BY <1>1, <1>2

(* A point of a piece that is parallel to an axis.                         *)
Within(v, s, t) == (s <= v /\ v <= t) \/ (t <= v /\ v <= s)
OnPiece(q, a, b) == q \in Point /\ Within(q[1], a[1], b[1]) /\ Within(q[2], a[2], b[2])
Parallel(a, b) == a[1] = b[1] \/ a[2] = b[2]

(* Clamping a coordinate finds the nearest within the piece.               *)
LEMMA Clamped ==
  ASSUME NEW v \in Int, NEW s \in Int, NEW t \in Int
  PROVE  /\ Between(v, s, t) \in Int /\ Within(Between(v, s, t), s, t)
         /\ \A w \in Int : Within(w, s, t) => Abs(v - Between(v, s, t)) <= Abs(v - w)
         /\ Within(v, s, t) => Between(v, s, t) = v
BY DEF Between, Within, Abs

(* No point of a piece parallel to an axis is nearer than NearestOn.       *)
LEMMA Nearest ==
  ASSUME NEW p \in Point, NEW a \in Point, NEW b \in Point
  PROVE  /\ OnPiece(NearestOn(p, a, b), a, b)
         /\ \A q : OnPiece(q, a, b) => OffsetSq(p, NearestOn(p, a, b)) <= OffsetSq(p, q)
         /\ OnPiece(p, a, b) => NearestOn(p, a, b) = p
<1> DEFINE n == NearestOn(p, a, b)
<1>1. /\ p[1] \in Int /\ p[2] \in Int /\ a[1] \in Int /\ a[2] \in Int /\ b[1] \in Int /\ b[2] \in Int
  BY Coordinates
<1>2. n[1] = Between(p[1], a[1], b[1]) /\ n[2] = Between(p[2], a[2], b[2])
  BY DEF NearestOn
<1>c. \A k \in {1, 2} :
        /\ n[k] \in Int /\ Within(n[k], a[k], b[k])
        /\ \A w \in Int : Within(w, a[k], b[k]) => Abs(p[k] - n[k]) <= Abs(p[k] - w)
        /\ Within(p[k], a[k], b[k]) => n[k] = p[k]
  <2>1. n[1] = Between(p[1], a[1], b[1])
    BY <1>2
  <2>2. n[2] = Between(p[2], a[2], b[2])
    BY <1>2
  <2> HIDE DEF n
  <2>3. /\ n[1] \in Int /\ Within(n[1], a[1], b[1])
        /\ \A w \in Int : Within(w, a[1], b[1]) => Abs(p[1] - n[1]) <= Abs(p[1] - w)
        /\ Within(p[1], a[1], b[1]) => n[1] = p[1]
    <3> DEFINE m == Between(p[1], a[1], b[1])
    <3>1. /\ m \in Int /\ Within(m, a[1], b[1])
          /\ \A w \in Int : Within(w, a[1], b[1]) => Abs(p[1] - m) <= Abs(p[1] - w)
          /\ Within(p[1], a[1], b[1]) => m = p[1]
      BY <1>1, Clamped
    <3>2. n[1] = m
      BY <2>1
    <3> HIDE DEF m
    <3> QED BY <3>1, <3>2
  <2>4. /\ n[2] \in Int /\ Within(n[2], a[2], b[2])
        /\ \A w \in Int : Within(w, a[2], b[2]) => Abs(p[2] - n[2]) <= Abs(p[2] - w)
        /\ Within(p[2], a[2], b[2]) => n[2] = p[2]
    <3> DEFINE m == Between(p[2], a[2], b[2])
    <3>1. /\ m \in Int /\ Within(m, a[2], b[2])
          /\ \A w \in Int : Within(w, a[2], b[2]) => Abs(p[2] - m) <= Abs(p[2] - w)
          /\ Within(p[2], a[2], b[2]) => m = p[2]
      BY <1>1, Clamped
    <3>2. n[2] = m
      BY <2>2
    <3> HIDE DEF m
    <3> QED BY <3>1, <3>2
  <2> QED BY <2>3, <2>4
<1>3. /\ n[1] \in Int /\ Within(n[1], a[1], b[1]) /\ n[2] \in Int /\ Within(n[2], a[2], b[2])
  BY <1>c
<1>4. n \in Point
  BY <1>2, <1>3, Coordinates DEF NearestOn
<1>5. ASSUME NEW q, OnPiece(q, a, b) PROVE OffsetSq(p, n) <= OffsetSq(p, q)
  <2>1. q \in Point /\ q[1] \in Int /\ q[2] \in Int /\ Within(q[1], a[1], b[1]) /\ Within(q[2], a[2], b[2])
    BY <1>5, Coordinates DEF OnPiece
  <2>2. Abs(p[1] - n[1]) <= Abs(p[1] - q[1]) /\ Abs(p[2] - n[2]) <= Abs(p[2] - q[2])
    BY <1>c, <2>1
  <2> HIDE DEF n
  <2> QED BY <1>4, <2>1, <2>2, Offsets
<1>6. OnPiece(p, a, b) => n = p
  <2>1. SUFFICES ASSUME OnPiece(p, a, b) PROVE n = p
    OBVIOUS
  <2>2. n[1] = p[1] /\ n[2] = p[2]
    BY <1>c, <2>1 DEF OnPiece
  <2> HIDE DEF n
  <2> QED BY <1>4, <2>2, Coordinates
<1>7. OnPiece(n, a, b)
  BY <1>3, <1>4 DEF OnPiece
<1> QED BY <1>5, <1>6, <1>7

(* The way to a point of a piece and on to its end is the piece.           *)
LEMMA Ways ==
  ASSUME NEW a \in Point, NEW b \in Point, NEW q, OnPiece(q, a, b)
  PROVE  /\ Distance(a, q) <= Distance(a, b)
         /\ Distance(a, q) + Distance(q, b) = Distance(a, b)
<1>1. /\ a[1] \in Int /\ a[2] \in Int /\ b[1] \in Int /\ b[2] \in Int /\ q[1] \in Int /\ q[2] \in Int
  BY Coordinates DEF OnPiece
<1>2. Within(q[1], a[1], b[1]) /\ Within(q[2], a[2], b[2])
  BY DEF OnPiece
<1>3. Abs(a[1] - q[1]) + Abs(q[1] - b[1]) = Abs(a[1] - b[1])
  BY <1>1, <1>2 DEF Abs, Within
<1>4. Abs(a[2] - q[2]) + Abs(q[2] - b[2]) = Abs(a[2] - b[2])
  BY <1>1, <1>2 DEF Abs, Within
<1>5. \A x \in {a[1] - q[1], q[1] - b[1], a[1] - b[1], a[2] - q[2], q[2] - b[2], a[2] - b[2]} : Abs(x) \in Nat
  BY <1>1 DEF Abs
<1> QED BY <1>3, <1>4, <1>5 DEF Distance

(* On such a piece a distance tells the point.                             *)
Along(a, b, d) == <<a[1] + Sign(b[1] - a[1]) * d, a[2] + Sign(b[2] - a[2]) * d>>

(* There is one point of the piece at each distance from its start.        *)
LEMMA AlongPiece ==
  ASSUME NEW a \in Point, NEW b \in Point, Parallel(a, b), NEW d \in 0 .. Distance(a, b)
  PROVE  /\ OnPiece(Along(a, b, d), a, b) /\ Distance(a, Along(a, b, d)) = d
         /\ \A q : (OnPiece(q, a, b) /\ Distance(a, q) = d) => q = Along(a, b, d)
<1> DEFINE x == Along(a, b, d)
<1>1. /\ a[1] \in Int /\ a[2] \in Int /\ b[1] \in Int /\ b[2] \in Int /\ d \in Int
  BY Coordinates, Distances
<1>2. 0 <= d /\ d <= Abs(a[1] - b[1]) + Abs(a[2] - b[2])
  BY <1>1, Distances DEF Distance
<1>3. /\ x[1] = a[1] + Sign(b[1] - a[1]) * d /\ x[2] = a[2] + Sign(b[2] - a[2]) * d
  BY DEF Along
<1>4. \A u, v \in Int : /\ u < v => Sign(v - u) * d = d
                        /\ u = v => Sign(v - u) * d = 0
                        /\ u > v => Sign(v - u) * d = -d
  BY <1>1 DEF Sign
<1>5. x[1] \in Int /\ x[2] \in Int
  <2>1. ASSUME NEW u \in Int, NEW v \in Int PROVE u + Sign(v - u) * d \in Int
    <3>1. (u < v \/ u = v \/ u > v) /\ -d \in Int
      BY <1>1
    <3> QED BY <1>1, <1>4, <3>1
  <2> HIDE DEF x
  <2> QED BY <1>1, <1>3, <2>1
<1>6. x \in Point
  BY <1>3, <1>5, Coordinates DEF Along
<1>7. Within(x[1], a[1], b[1]) /\ Within(x[2], a[2], b[2]) /\ Abs(a[1] - x[1]) + Abs(a[2] - x[2]) = d
  <2>1. /\ a[1] < b[1] => x[1] = a[1] + d
        /\ a[1] = b[1] => x[1] = a[1]
        /\ a[1] > b[1] => x[1] = a[1] - d
    BY <1>1, <1>3, <1>4
  <2>2. /\ a[2] < b[2] => x[2] = a[2] + d
        /\ a[2] = b[2] => x[2] = a[2]
        /\ a[2] > b[2] => x[2] = a[2] - d
    BY <1>1, <1>3, <1>4
  <2>3. a[1] = b[1] \/ a[2] = b[2]
    BY DEF Parallel
  <2> HIDE DEF x
  <2> QED BY <1>1, <1>2, <1>5, <2>1, <2>2, <2>3 DEF Abs, Within
<1>8. ASSUME NEW q, OnPiece(q, a, b), Distance(a, q) = d PROVE q = x
  <2>1. /\ q \in Point /\ q[1] \in Int /\ q[2] \in Int /\ Within(q[1], a[1], b[1]) /\ Within(q[2], a[2], b[2])
    BY <1>8, Coordinates DEF OnPiece
  <2>2. Abs(a[1] - q[1]) + Abs(a[2] - q[2]) = d
    BY <1>8 DEF Distance
  <2>3. q[1] = x[1] /\ q[2] = x[2]
    <3>1. a[1] = b[1] \/ a[2] = b[2]
      BY DEF Parallel
    <3> HIDE DEF x
    <3> QED BY <1>1, <1>5, <1>7, <2>1, <2>2, <3>1 DEF Abs, Within
  <2> HIDE DEF x
  <2> QED BY <1>6, <2>1, <2>3, Coordinates
<1>9. Distance(a, x) = d
  BY <1>7 DEF Distance
<1> QED BY <1>6, <1>7, <1>8, <1>9 DEF OnPiece

(***************************************************************************)
(* Projections, and points at a distance.                                  *)
(***************************************************************************)

(* The piece a projection falls on.                                        *)
Comes(p, line, i) == OffsetSq(p, NearestOn(p, line[i], line[i + 1]))
IsBest(p, line, i) ==
    /\ i \in Piece(line)
    /\ \A j \in Piece(line) : \/ Comes(p, line, i) < Comes(p, line, j)
                              \/ Comes(p, line, i) = Comes(p, line, j) /\ i <= j

(* ProjectOntoPolyline takes the first of the pieces that come nearest.    *)
LEMMA Best ==
  ASSUME NEW p \in Point, NEW line \in Line
  PROVE  \E i : /\ IsBest(p, line, i)
                /\ ProjectOntoPolyline(p, line) =
                     [dist |-> LengthBefore(line, i)
                                 + Distance(line[i], NearestOn(p, line[i], line[i + 1])),
                      offsetSq |-> Comes(p, line, i)]
<1>1. \A i \in Piece(line) : Comes(p, line, i) \in Nat
  BY Points, Nearest, Offsets DEF Comes, OnPiece
<1>2. \E i : IsBest(p, line, i)
  <2> DEFINE values == {Comes(p, line, i) : i \in Piece(line)}
  <2>1. values \in SUBSET Nat /\ values # {}
    BY <1>1, Points
  <2>2. PICK v \in values : \A w \in values : v <= w
    <3> HIDE DEF values
    <3> QED BY <2>1, LeastNumber
  <2> DEFINE firsts == {i \in Piece(line) : Comes(p, line, i) = v}
  <2>3. firsts \in SUBSET Nat /\ firsts # {}
    BY <2>2, Points
  <2>4. PICK i \in firsts : \A j \in firsts : i <= j
    <3> HIDE DEF firsts
    <3> QED BY <2>3, LeastNumber
  <2>5. i \in Piece(line) /\ Comes(p, line, i) = v
    BY <2>4
  <2>6. ASSUME NEW j \in Piece(line)
        PROVE Comes(p, line, i) < Comes(p, line, j) \/ (Comes(p, line, i) = Comes(p, line, j) /\ i <= j)
    <3>1. v <= Comes(p, line, j) /\ Comes(p, line, j) \in Nat /\ v \in Nat
      BY <1>1, <2>2, <2>5
    <3>2. Comes(p, line, j) = v => i <= j
      BY <2>4
    <3> QED BY <2>5, <3>1, <3>2
  <2>7. IsBest(p, line, i)
    BY <2>5, <2>6 DEF IsBest
  <2> QED BY <2>7
<1> DEFINE on == [i \in Piece(line) |-> NearestOn(p, line[i], line[i + 1])]
           off == [i \in Piece(line) |-> OffsetSq(p, on[i])]
           best == CHOOSE i \in Piece(line) :
                      \A j \in Piece(line) : off[i] < off[j] \/ (off[i] = off[j] /\ i <= j)
<1>3. \A i \in Piece(line) : off[i] = Comes(p, line, i) /\ on[i] = NearestOn(p, line[i], line[i + 1])
  BY DEF Comes
<1>4. \E i \in Piece(line) : \A j \in Piece(line) : off[i] < off[j] \/ (off[i] = off[j] /\ i <= j)
  <2> HIDE DEF off
  <2> QED BY <1>2, <1>3 DEF IsBest
<1>5. best \in Piece(line) /\ \A j \in Piece(line) : off[best] < off[j] \/ (off[best] = off[j] /\ best <= j)
  <2> HIDE DEF off
  <2> QED BY <1>4, Zenon
<1>6. ProjectOntoPolyline(p, line) = [dist |-> LengthBefore(line, best) + Distance(line[best], on[best]),
                                      offsetSq |-> off[best]]
  BY DEF ProjectOntoPolyline
<1> HIDE DEF best
<1>7. IsBest(p, line, best)
  <2> HIDE DEF off, on
  <2> QED BY <1>3, <1>5 DEF IsBest
<1>8. on[best] = NearestOn(p, line[best], line[best + 1]) /\ off[best] = Comes(p, line, best)
  BY <1>3, <1>5
<1> HIDE DEF on, off
<1> QED BY <1>6, <1>7, <1>8

(* A point at a distance is on a piece, as far along it as is left.        *)
Reaches(line, i, d, q) ==
    /\ i \in Piece(line) /\ OnPiece(q, line[i], line[i + 1])
    /\ LengthBefore(line, i) <= d /\ d <= LengthBefore(line, i + 1)
    /\ Distance(line[i], q) = d - LengthBefore(line, i)

(* A piece of a straight line.                                             *)
LEMMA LinePieces ==
  ASSUME NEW line \in Line, Straight(line), NEW i \in Piece(line)
  PROVE  /\ line[i] \in Point /\ line[i + 1] \in Point /\ Parallel(line[i], line[i + 1])
         /\ PieceLen(line, i) = Distance(line[i], line[i + 1])
         /\ LengthBefore(line, i + 1) = LengthBefore(line, i) + Distance(line[i], line[i + 1])
         /\ LengthBefore(line, i) \in Nat /\ LengthBefore(line, i + 1) \in Nat
         /\ Distance(line[i], line[i + 1]) \in Nat
         /\ i \in Nat /\ i + 1 \in 1 .. Len(line) /\ i \in 1 .. Len(line) /\ Len(line) \in Nat
<1>1. /\ i \in Nat /\ i + 1 \in 1 .. Len(line) /\ i \in 1 .. Len(line) /\ Len(line) \in Nat
      /\ line[i] \in Point /\ line[i + 1] \in Point
  BY Points
<1>2. Parallel(line[i], line[i + 1])
  BY DEF Straight, Parallel
<1> QED BY <1>1, <1>2, Lengths DEF PieceLen

(* PointAtDistance finds the piece that reaches the distance.              *)
LEMMA Reached ==
  ASSUME NEW line \in Line, Straight(line), NEW d \in 0 .. LineLength(line)
  PROVE  \E i : Reaches(line, i, d, PointAtDistance(line, d))
<1>0. Len(line) \in Nat /\ Len(line) >= 2 /\ Len(line) \in 1 .. Len(line)
  BY Points
<1>1. d \in Int /\ 0 <= d /\ d <= LengthBefore(line, Len(line))
  <2>1. LengthBefore(line, Len(line)) \in Nat
    BY <1>0, Lengths
  <2> QED BY <2>1 DEF LineLength
<1>2. CASE d = 0
  <2>1. PointAtDistance(line, d) = line[1]
    BY <1>2 DEF PointAtDistance
  <2>2. 1 \in Piece(line) /\ LengthBefore(line, 1) = 0
    BY Points, Lengths
  <2>3. line[1] \in Point /\ line[2] \in Point /\ LengthBefore(line, 2) \in Nat
    BY <2>2, LinePieces, <1>0, Points, Lengths
  <2>4. OnPiece(line[1], line[1], line[2]) /\ Distance(line[1], line[1]) = 0
    BY <2>3, Distances, Coordinates DEF OnPiece, Within
  <2>5. Reaches(line, 1, d, line[1])
    BY <1>2, <2>2, <2>3, <2>4 DEF Reaches
  <2> QED BY <2>1, <2>5
<1>3. CASE d > 0
  <2> DEFINE reaching == {i \in Piece(line) : LengthBefore(line, i + 1) >= d}
             i == Min(reaching)
  <2>1. Len(line) - 1 \in reaching
    BY <1>0, <1>1 DEF Piece
  <2>2. reaching \in SUBSET Nat
    BY Points
  <2>3. i \in reaching /\ \A j \in reaching : i <= j
    <3> HIDE DEF reaching
    <3> QED BY <2>1, <2>2, MinNat
  <2>4. PointAtDistance(line, d) = Along(line[i], line[i + 1], d - LengthBefore(line, i))
    <3>1. ~(d <= 0) /\ reaching # {}
      BY <1>1, <1>3, <2>1
    <3> QED BY <1>3, <3>1 DEF PointAtDistance, Along
  <2> HIDE DEF i
  <2>5. i \in Piece(line) /\ LengthBefore(line, i + 1) >= d
    BY <2>3
  <2>6. LengthBefore(line, i) <= d
    <3>1. CASE i = 1
      BY <3>1, <1>1, Lengths
    <3>2. CASE i # 1
      <4>1. i - 1 \in Piece(line) /\ (i - 1) + 1 = i /\ i - 1 \in Nat
        BY <2>5, <3>2, <1>0 DEF Piece
      <4>2. i - 1 \notin reaching
        <5> HIDE DEF reaching
        <5> QED BY <2>3, <2>5, <4>1, Points
      <4>3. ~(LengthBefore(line, i) >= d)
        BY <4>1, <4>2
      <4> QED BY <4>3, <2>5, LinePieces, <1>1
    <3> QED BY <3>1, <3>2
  <2> DEFINE left == d - LengthBefore(line, i)
  <2>7. left \in 0 .. Distance(line[i], line[i + 1])
    BY <1>1, <2>5, <2>6, LinePieces
  <2>8. /\ OnPiece(Along(line[i], line[i + 1], left), line[i], line[i + 1])
        /\ Distance(line[i], Along(line[i], line[i + 1], left)) = left
    <3> HIDE DEF left
    <3> QED BY <2>5, <2>7, LinePieces, AlongPiece
  <2>9. Reaches(line, i, d, PointAtDistance(line, d))
    BY <1>1, <2>4, <2>5, <2>6, <2>8, LinePieces DEF Reaches
  <2> QED BY <2>9
<1> QED BY <1>1, <1>2, <1>3

(* Back: the point found at the distance of a point is that point.         *)
LEMMA FoundAgain ==
  ASSUME NEW line \in Line, Straight(line), NEW b \in Piece(line),
         NEW q, OnPiece(q, line[b], line[b + 1])
  PROVE  LET d == LengthBefore(line, b) + Distance(line[b], q)
         IN  /\ d \in 0 .. LineLength(line) /\ d <= LengthBefore(line, b + 1)
             /\ PointAtDistance(line, d) = q
<1> DEFINE d == LengthBefore(line, b) + Distance(line[b], q)
<1>0. /\ line[b] \in Point /\ line[b + 1] \in Point /\ Parallel(line[b], line[b + 1])
      /\ LengthBefore(line, b + 1) = LengthBefore(line, b) + Distance(line[b], line[b + 1])
      /\ LengthBefore(line, b) \in Nat /\ LengthBefore(line, b + 1) \in Nat
      /\ Distance(line[b], line[b + 1]) \in Nat
      /\ b \in Nat /\ b + 1 \in 1 .. Len(line) /\ b \in 1 .. Len(line) /\ Len(line) \in Nat
  BY LinePieces
<1>1. Distance(line[b], q) \in Nat /\ q \in Point
  BY <1>0, Distances DEF OnPiece
<1>2. d \in Nat /\ Distance(line[b], q) \in 0 .. Distance(line[b], line[b + 1])
  BY <1>0, <1>1, Ways
<1>3. d <= LengthBefore(line, b + 1)
  BY <1>0, <1>1, <1>2
<1>4. LengthBefore(line, b + 1) <= LineLength(line) /\ LineLength(line) \in Nat
  <2>1. Len(line) \in (b + 1) .. Len(line) /\ Len(line) \in 1 .. Len(line)
    BY <1>0
  <2> QED BY <1>0, <2>1, LengthsGrow, Lengths DEF LineLength
<1>5. d \in 0 .. LineLength(line)
  BY <1>0, <1>2, <1>3, <1>4
<1> DEFINE x == PointAtDistance(line, d)
<1>6. PICK i : Reaches(line, i, d, x)
  <2> HIDE DEF d
  <2> QED BY <1>5, Reached
<1>7. x = q
  <2>d. d = LengthBefore(line, b) + Distance(line[b], q)
    OBVIOUS
  <2> HIDE DEF d, x
  <2>1. /\ i \in Piece(line) /\ OnPiece(x, line[i], line[i + 1])
        /\ LengthBefore(line, i) <= d /\ d <= LengthBefore(line, i + 1)
        /\ Distance(line[i], x) = d - LengthBefore(line, i)
    BY <1>6 DEF Reaches
  <2>2. /\ line[i] \in Point /\ line[i + 1] \in Point /\ Parallel(line[i], line[i + 1])
        /\ LengthBefore(line, i + 1) = LengthBefore(line, i) + Distance(line[i], line[i + 1])
        /\ LengthBefore(line, i) \in Nat /\ LengthBefore(line, i + 1) \in Nat
        /\ Distance(line[i], line[i + 1]) \in Nat
        /\ i \in Nat /\ i + 1 \in 1 .. Len(line) /\ i \in 1 .. Len(line)
    BY <2>1, LinePieces
  <2>3. x \in Point /\ Distance(line[i], x) \in Nat
    BY <2>1, <2>2, Distances DEF OnPiece
  <2>4. CASE i = b
    <3>1. Distance(line[b], x) = Distance(line[b], q) /\ OnPiece(x, line[b], line[b + 1])
      BY <1>0, <1>1, <1>2, <2>1, <2>3, <2>4, <2>d
    <3>2. x = Along(line[b], line[b + 1], Distance(line[b], q)) /\ q = Along(line[b], line[b + 1], Distance(line[b], q))
      BY <1>0, <1>2, <3>1, AlongPiece
    <3> QED BY <3>2
  <2>5. CASE i < b
    <3>1. b \in i + 1 .. Len(line)
      BY <1>0, <2>2, <2>5
    <3>2. LengthBefore(line, i + 1) <= LengthBefore(line, b)
          /\ (LengthBefore(line, i + 1) = LengthBefore(line, b) => line[i + 1] = line[b])
      BY <2>2, <3>1, LengthsGrow
    <3>3. d = LengthBefore(line, b) /\ d = LengthBefore(line, i + 1) /\ Distance(line[b], q) = 0
      <4> DEFINE lb == LengthBefore(line, b)  li == LengthBefore(line, i + 1)  dq == Distance(line[b], q)
      <4>1. lb \in Nat /\ li \in Nat /\ dq \in Nat /\ d = lb + dq /\ d <= li /\ li <= lb
        BY <1>0, <1>1, <2>1, <2>2, <3>2, <2>d
      <4> HIDE DEF lb, li, dq
      <4>2. d = lb /\ d = li /\ dq = 0
        BY <4>1
      <4> QED BY <4>2 DEF lb, li, dq
    <3>4. q = line[b] /\ line[i + 1] = line[b]
      BY <1>0, <1>1, <3>2, <3>3, Distances
    <3>5. Distance(x, line[i + 1]) = 0
      <4>1. Distance(line[i], x) + Distance(x, line[i + 1]) = Distance(line[i], line[i + 1])
        BY <2>1, <2>2, Ways
      <4>2. Distance(x, line[i + 1]) \in Nat
        BY <2>2, <2>3, Distances
      <4> QED BY <2>1, <2>2, <2>3, <3>3, <4>1, <4>2
    <3>6. x = line[i + 1]
      BY <2>2, <2>3, <3>5, Distances
    <3> QED BY <3>4, <3>6
  <2>6. CASE b < i
    <3>1. i \in b + 1 .. Len(line)
      BY <1>0, <2>2, <2>6
    <3>2. LengthBefore(line, b + 1) <= LengthBefore(line, i)
          /\ (LengthBefore(line, b + 1) = LengthBefore(line, i) => line[b + 1] = line[i])
      BY <1>0, <3>1, LengthsGrow
    <3>3. d = LengthBefore(line, i) /\ d = LengthBefore(line, b + 1) /\ Distance(line[i], x) = 0
      <4> DEFINE lb == LengthBefore(line, b + 1)  li == LengthBefore(line, i)  dx == Distance(line[i], x)
      <4>1. lb \in Nat /\ li \in Nat /\ d \in Nat /\ dx \in Nat /\ dx = d - li /\ li <= d /\ d <= lb /\ lb <= li
        BY <1>0, <1>2, <1>3, <2>1, <2>2, <2>3, <3>2
      <4> HIDE DEF lb, li, dx
      <4>2. d = li /\ d = lb /\ dx = 0
        BY <4>1
      <4> QED BY <4>2 DEF lb, li, dx
    <3>4. x = line[i] /\ line[b + 1] = line[i]
      BY <2>2, <2>3, <3>2, <3>3, Distances
    <3>5. Distance(q, line[b + 1]) = 0
      <4>1. Distance(line[b], q) + Distance(q, line[b + 1]) = Distance(line[b], line[b + 1])
        BY <1>0, Ways
      <4>2. Distance(q, line[b + 1]) \in Nat
        BY <1>0, <1>1, Distances
      <4> QED BY <1>0, <1>1, <3>3, <4>1, <4>2, <2>d
    <3>6. q = line[b + 1]
      BY <1>0, <1>1, <3>5, Distances
    <3> QED BY <3>4, <3>6
  <2> QED BY <1>0, <2>2, <2>4, <2>5, <2>6
<1> HIDE DEF x
<1>8. PointAtDistance(line, d) = q
  BY <1>7 DEF x
<1> QED BY <1>3, <1>5, <1>8

(* What a projection promises: the nearest point of the line, and where it *)
(* is.                                                                     *)
LEMMA Projected ==
  ASSUME NEW p \in Point, NEW line \in Line, Straight(line)
  PROVE  LET on == ProjectOntoPolyline(p, line)
         IN  /\ on.dist \in Nat /\ on.dist \in 0 .. LineLength(line)
             /\ on.offsetSq \in Nat
             /\ \A d \in 0 .. LineLength(line) :
                  OffsetSq(p, PointAtDistance(line, on.dist)) <= OffsetSq(p, PointAtDistance(line, d))
<1> DEFINE on == ProjectOntoPolyline(p, line)
<1>1. PICK b : /\ IsBest(p, line, b)
               /\ on = [dist |-> LengthBefore(line, b) + Distance(line[b], NearestOn(p, line[b], line[b + 1])),
                        offsetSq |-> Comes(p, line, b)]
  BY Best
<1>2. on.dist = LengthBefore(line, b) + Distance(line[b], NearestOn(p, line[b], line[b + 1]))
      /\ on.offsetSq = Comes(p, line, b)
  BY <1>1
<1> HIDE DEF on
<1> DEFINE n == NearestOn(p, line[b], line[b + 1])
<1>3. b \in Piece(line) /\ line[b] \in Point /\ line[b + 1] \in Point
  BY <1>1, LinePieces DEF IsBest
<1>4. OnPiece(n, line[b], line[b + 1]) /\ Comes(p, line, b) = OffsetSq(p, n)
  BY <1>3, Nearest DEF Comes
<1>5. on.dist \in 0 .. LineLength(line) /\ PointAtDistance(line, on.dist) = n
  <2> HIDE DEF n
  <2>1. on.dist = LengthBefore(line, b) + Distance(line[b], n)
    BY <1>2 DEF n
  <2> QED BY <1>3, <1>4, <2>1, FoundAgain
<1>6. OffsetSq(p, n) \in Nat
  BY <1>4, Offsets DEF OnPiece
<1>7. ASSUME NEW d \in 0 .. LineLength(line) PROVE OffsetSq(p, n) <= OffsetSq(p, PointAtDistance(line, d))
  <2>1. PICK i : Reaches(line, i, d, PointAtDistance(line, d))
    BY Reached
  <2> DEFINE q == PointAtDistance(line, d)
  <2>2. i \in Piece(line) /\ OnPiece(q, line[i], line[i + 1]) /\ line[i] \in Point /\ line[i + 1] \in Point
    BY <2>1, LinePieces DEF Reaches
  <2> HIDE DEF q
  <2>3. Comes(p, line, i) <= OffsetSq(p, q) /\ Comes(p, line, i) \in Nat /\ OffsetSq(p, q) \in Nat
    BY <2>2, Nearest, Offsets DEF Comes, OnPiece
  <2>4. Comes(p, line, b) <= Comes(p, line, i)
    BY <1>1, <1>4, <1>6, <2>2, <2>3 DEF IsBest
  <2>5. OffsetSq(p, n) <= OffsetSq(p, q)
    BY <1>4, <1>6, <2>3, <2>4
  <2> QED BY <2>5 DEF q
<1>8. LineLength(line) \in Nat /\ on.dist \in Nat
  <2>1. Len(line) \in 1 .. Len(line)
    BY Points
  <2>2. LineLength(line) \in Nat
    BY <2>1, Lengths DEF LineLength
  <2> QED BY <1>5, <2>2
<1> HIDE DEF n
<1> QED BY <1>2, <1>4, <1>5, <1>6, <1>7, <1>8 DEF on

(* A point of the line projects onto itself, at the first pass of the line.*)
LEMMA ProjectedAgain ==
  ASSUME NEW line \in Line, Straight(line), NEW d \in 0 .. LineLength(line)
  PROVE  LET q == PointAtDistance(line, d)
             on == ProjectOntoPolyline(q, line)
         IN  on.offsetSq = 0 /\ on.dist <= d /\ PointAtDistance(line, on.dist) = q
<1> DEFINE q == PointAtDistance(line, d)
           on == ProjectOntoPolyline(q, line)
<1>1. PICK i : Reaches(line, i, d, q)
  BY Reached
<1> HIDE DEF q
<1>2. /\ i \in Piece(line) /\ OnPiece(q, line[i], line[i + 1]) /\ line[i] \in Point /\ line[i + 1] \in Point
      /\ q \in Point /\ LengthBefore(line, i) <= d /\ d <= LengthBefore(line, i + 1)
      /\ Distance(line[i], q) = d - LengthBefore(line, i)
      /\ LengthBefore(line, i) \in Nat /\ LengthBefore(line, i + 1) \in Nat
      /\ i \in Nat /\ i \in 1 .. Len(line) /\ Len(line) \in Nat
  BY <1>1, LinePieces DEF Reaches, OnPiece
<1>3. PICK b : /\ IsBest(q, line, b)
               /\ on = [dist |-> LengthBefore(line, b) + Distance(line[b], NearestOn(q, line[b], line[b + 1])),
                        offsetSq |-> Comes(q, line, b)]
  BY <1>2, Best
<1> DEFINE n == NearestOn(q, line[b], line[b + 1])
<1>4. on.dist = LengthBefore(line, b) + Distance(line[b], n) /\ on.offsetSq = Comes(q, line, b)
  BY <1>3
<1> HIDE DEF on
<1>5. /\ b \in Piece(line) /\ line[b] \in Point /\ line[b + 1] \in Point
      /\ LengthBefore(line, b) \in Nat /\ LengthBefore(line, b + 1) \in Nat
      /\ b \in Nat /\ b + 1 \in 1 .. Len(line)
  BY <1>3, LinePieces DEF IsBest
<1>6. OnPiece(n, line[b], line[b + 1]) /\ Comes(q, line, b) = OffsetSq(q, n) /\ n \in Point
  BY <1>2, <1>5, Nearest DEF Comes, OnPiece
<1>7. Comes(q, line, i) = 0
  BY <1>2, Nearest, Offsets DEF Comes
<1>8. OffsetSq(q, n) \in Nat
  BY <1>2, <1>6, Offsets
<1>9. Comes(q, line, b) = 0 /\ b <= i
  BY <1>2, <1>3, <1>6, <1>7, <1>8 DEF IsBest
<1>10. n = q
  BY <1>2, <1>6, <1>9, Offsets
<1> HIDE DEF n
<1>11. /\ on.dist = LengthBefore(line, b) + Distance(line[b], q) /\ OnPiece(q, line[b], line[b + 1])
  BY <1>4, <1>6, <1>10
<1>12. PointAtDistance(line, on.dist) = q /\ on.dist <= LengthBefore(line, b + 1) /\ on.dist \in 0 .. LineLength(line)
  BY <1>5, <1>11, FoundAgain
<1>13. on.dist <= d
  <2>1. CASE b = i
    BY <1>2, <1>11, <2>1
  <2>2. CASE b # i
    <3>1. i \in b + 1 .. Len(line)
      BY <1>2, <1>5, <1>9, <2>2
    <3>2. LengthBefore(line, b + 1) <= LengthBefore(line, i)
      BY <1>5, <3>1, LengthsGrow
    <3>3. on.dist \in Int /\ d \in Int
      BY <1>12
    <3> QED BY <1>2, <1>5, <1>12, <3>2, <3>3
  <2> QED BY <2>1, <2>2
<1> QED BY <1>4, <1>9, <1>12, <1>13 DEF on, q

(* The next stop.                                                          *)
LEMMA NextStop ==
  ASSUME NEW r, NEW n \in Nat, n >= 1, DOMAIN r.stops = 1 .. n, Len(r.stops) = n,
         \A i \in 1 .. n : r.stops[i].dist \in Nat, NEW d \in Nat
  PROVE  /\ NextStopFrom(r, d).stop \in 1 .. n /\ NextStopFrom(r, d).dist \in Nat
         /\ \A i \in 1 .. n : r.stops[i].dist >= d => NextStopFrom(r, d).stop <= i
         /\ (\E i \in 1 .. n : r.stops[i].dist >= d) =>
              LET s == NextStopFrom(r, d).stop
              IN  r.stops[s].dist >= d /\ NextStopFrom(r, d).dist = r.stops[s].dist - d
<1> DEFINE ahead == {i \in DOMAIN r.stops : r.stops[i].dist >= d}
<1>1. ahead \in SUBSET Nat
  OBVIOUS
<1>2. CASE ahead = {}
  <2>1. NextStopFrom(r, d) = [stop |-> n, dist |-> 0]
    BY <1>2 DEF NextStopFrom
  <2> QED BY <1>2, <2>1
<1>3. CASE ahead # {}
  <2>1. NextStopFrom(r, d) = [stop |-> Min(ahead), dist |-> r.stops[Min(ahead)].dist - d]
    BY <1>3 DEF NextStopFrom
  <2>2. Min(ahead) \in ahead /\ \A y \in ahead : Min(ahead) <= y
    <3> HIDE DEF ahead
    <3> QED BY <1>1, <1>3, MinNat
  <2>3. Min(ahead) \in 1 .. n /\ r.stops[Min(ahead)].dist >= d /\ r.stops[Min(ahead)].dist \in Nat
    BY <2>2
  <2>4. \A i \in 1 .. n : r.stops[i].dist >= d => Min(ahead) <= i
    BY <2>2
  <2> HIDE DEF ahead
  <2> QED BY <2>1, <2>3, <2>4
<1> QED BY <1>2, <1>3

(***************************************************************************)
(* Dead reckoning: the distance driven never shrinks.                      *)
(***************************************************************************)

(* Division rounds down.                                                   *)
LEMMA Divides ==
  ASSUME NEW m \in Nat, m > 0
  PROVE  /\ \A x \in Int : x \div m \in Int /\ m * (x \div m) <= x /\ x < m * (x \div m) + m
         /\ \A x, k \in Int : m * k <= x => k <= x \div m
<1>1. \A x \in Int : x \div m \in Int /\ m * (x \div m) <= x /\ x < m * (x \div m) + m
  OBVIOUS
<1>2. ASSUME NEW x \in Int, NEW k \in Int, m * k <= x PROVE k <= x \div m
  <2> DEFINE q == x \div m
  <2>1. q \in Int /\ x < m * q + m
    BY <1>1
  <2> HIDE DEF q
  <2>2. SUFFICES ASSUME q + 1 <= k PROVE FALSE
    BY <2>1 DEF q
  <2>3. \A u, w \in Int : u <= w => m * u <= m * w
    OBVIOUS
  <2>4. m * (q + 1) <= m * k /\ m * (q + 1) = m * q + m
    BY <2>1, <2>2, <2>3
  <2> QED BY <1>2, <2>1, <2>4
<1> QED BY <1>1, <1>2

(* Adding k times the divisor adds k.                                      *)
LEMMA DivideStep ==
  ASSUME NEW m \in Nat, m > 0, NEW x \in Int, NEW y \in Int, NEW k \in Int, x + m * k <= y
  PROVE  (x \div m) + k <= y \div m
<1> DEFINE q == x \div m
<1>1. q \in Int /\ m * q <= x
  BY Divides
<1> HIDE DEF q
<1>2. q + k \in Int /\ m * (q + k) = m * q + m * k /\ m * q \in Int /\ m * k \in Int
  BY <1>1
<1>3. m * (q + k) <= y
  BY <1>1, <1>2
<1>4. q + k <= y \div m
  BY <1>2, <1>3, Divides
<1> QED BY <1>4 DEF q

(* The ramp is not empty.                                                  *)
LEMMA RampIsPositive == Ramp \in Nat /\ Ramp > 0
  BY ThresholdAssumption

(* The distance a bus is taken to drive never shrinks while it is silent.  *)
LEMMA DrivenStep ==
  ASSUME NEW v0 \in Nat, NEW vh \in Nat, NEW a \in Nat
  PROVE  /\ IntegratedDistance(v0, vh, a) \in Int
         /\ IntegratedDistance(v0, vh, a) <= IntegratedDistance(v0, vh, a + 1)
<1> DEFINE R == Ramp
           D == vh - v0
<1>0. R \in Nat /\ R > 0 /\ 2 * R \in Nat /\ 2 * R > 0 /\ D \in Int
  BY RampIsPositive
<1>1. \A b \in Nat : IntegratedDistance(v0, vh, b) =
         IF b <= R THEN v0 * b + (D * b * b) \div (2 * R)
         ELSE ((v0 + vh) * R) \div 2 + vh * (b - R)
  BY DEF IntegratedDistance
<1> HIDE DEF R
<1>2. \A b \in Nat : D * b * b \in Int /\ v0 * b \in Nat /\ vh * (b - R) \in Int /\ (v0 + vh) * R \in Nat
  BY <1>0
<1>3. \A b \in Nat : (D * b * b) \div (2 * R) \in Int /\ ((v0 + vh) * R) \div 2 \in Int
  BY <1>0, <1>2, Divides
<1>4. ASSUME NEW b \in Nat PROVE IntegratedDistance(v0, vh, b) \in Int
  <2> DEFINE x == (D * b * b) \div (2 * R)
             h == ((v0 + vh) * R) \div 2
             w == vh * (b - R)
             u == v0 * b
  <2>1. x \in Int /\ h \in Int /\ w \in Int /\ u \in Int
    <3>1. x \in Int /\ h \in Int
      BY <1>3
    <3>2. w \in Int /\ u \in Int
      BY <1>0
    <3> QED BY <3>1, <3>2
  <2>2. IntegratedDistance(v0, vh, b) = IF b <= R THEN u + x ELSE h + w
    BY <1>1
  <2> HIDE DEF x, h, w, u
  <2> QED BY <2>1, <2>2
<1>5. CASE a + 1 <= R
  <2> DEFINE x == D * a * a
             y == D * (a + 1) * (a + 1)
  <2>1. y = x + D * (2 * a + 1)
    BY <1>0
  <2>2. D * (2 * a + 1) + 2 * R * v0 = vh * (2 * a + 1) + v0 * (2 * R - 2 * a - 1)
    BY <1>0
  <2>3. vh * (2 * a + 1) >= 0 /\ v0 * (2 * R - 2 * a - 1) >= 0
    <3>1. \A u, w \in Nat : u * w >= 0
      OBVIOUS
    <3>2. 2 * a + 1 \in Nat /\ 2 * R - 2 * a - 1 \in Nat
      BY <1>0, <1>5
    <3> QED BY <3>1, <3>2
  <2>4. x \in Int /\ y \in Int /\ (2 * R) * (-v0) = -(2 * R * v0) /\ 2 * R * v0 \in Int /\ D * (2 * a + 1) \in Int
        /\ vh * (2 * a + 1) \in Int /\ v0 * (2 * R - 2 * a - 1) \in Int
    BY <1>0
  <2>5. x + (2 * R) * (-v0) <= y
    <3> HIDE DEF x, y, D
    <3> QED BY <2>1, <2>2, <2>3, <2>4
  <2>6. (x \div (2 * R)) + (-v0) <= y \div (2 * R)
    <3> HIDE DEF x, y
    <3> QED BY <1>0, <2>4, <2>5, DivideStep
  <2>7. IntegratedDistance(v0, vh, a) = v0 * a + (x \div (2 * R))
    BY <1>0, <1>1, <1>5
  <2>8. IntegratedDistance(v0, vh, a + 1) = v0 * (a + 1) + (y \div (2 * R))
    BY <1>0, <1>1, <1>5
  <2>9. v0 * (a + 1) = v0 * a + v0 /\ v0 * a \in Int
    OBVIOUS
  <2>10. x \div (2 * R) \in Int /\ y \div (2 * R) \in Int
    <3> HIDE DEF x, y
    <3> QED BY <1>0, <2>4, Divides
  <2> HIDE DEF x, y
  <2>11. IntegratedDistance(v0, vh, a) <= IntegratedDistance(v0, vh, a + 1)
    BY <2>6, <2>7, <2>8, <2>9, <2>10
  <2> QED BY <1>4, <2>11
<1>6. CASE a = R
  <2> DEFINE q == (D * a * a) \div (2 * R)
             h == ((v0 + vh) * R) \div 2
  <2>1. q \in Int /\ (2 * R) * q <= D * a * a
    BY <1>0, <1>2, Divides
  <2> HIDE DEF q
  <2>2. 2 * q <= D * R
    <3>1. (2 * R) * q = R * (2 * q) /\ D * a * a = R * (D * R)
      BY <1>0, <1>6, <2>1
    <3>2. \A u, w \in Int : R * u <= R * w => u <= w
      BY <1>0
    <3>3. 2 * q \in Int /\ D * R \in Int
      BY <1>0, <2>1
    <3> QED BY <2>1, <3>1, <3>2, <3>3
  <2>3. 2 * (v0 * R + q) <= (v0 + vh) * R
    <3>1. (v0 + vh) * R = 2 * (v0 * R) + D * R /\ v0 * R \in Int /\ D * R \in Int
      BY <1>0
    <3> HIDE DEF D
    <3> QED BY <2>1, <2>2, <3>1
  <2>4. v0 * R + q <= h /\ h \in Int /\ v0 * R \in Int
    <3>1. v0 * R + q \in Int /\ (v0 + vh) * R \in Int /\ v0 * R \in Int /\ 2 \in Nat
      BY <1>0, <2>1
    <3> QED BY <2>3, <3>1, Divides
  <2>5. IntegratedDistance(v0, vh, a) = v0 * R + q
    <3>1. IntegratedDistance(v0, vh, a) = v0 * a + (D * a * a) \div (2 * R)
      <4>1. a \in Nat /\ a <= R
        BY <1>0, <1>6
      <4> HIDE DEF D
      <4> QED BY <1>1, <4>1
    <3> QED BY <3>1, <1>6 DEF q
  <2>6. IntegratedDistance(v0, vh, a + 1) = h + vh * (a + 1 - R) /\ vh * (a + 1 - R) = vh
    BY <1>0, <1>1, <1>6
  <2> HIDE DEF h
  <2> QED BY <1>4, <2>1, <2>4, <2>5, <2>6
<1>7. CASE a > R
  <2> DEFINE h == ((v0 + vh) * R) \div 2
  <2>1. IntegratedDistance(v0, vh, a) = h + vh * (a - R) /\ IntegratedDistance(v0, vh, a + 1) = h + vh * (a + 1 - R)
    BY <1>0, <1>1, <1>7
  <2>2. vh * (a + 1 - R) = vh * (a - R) + vh /\ vh * (a - R) \in Int
    BY <1>0
  <2>3. h \in Int
    BY <1>3
  <2> HIDE DEF h
  <2> QED BY <1>4, <2>1, <2>2, <2>3
<1> QED BY <1>0, <1>5, <1>6, <1>7

(* Nor over any longer silence.                                            *)
LEMMA Driven ==
  ASSUME NEW v0 \in Nat, NEW vh \in Nat, NEW a \in Nat
  PROVE  /\ IntegratedDistance(v0, vh, a) \in Nat
         /\ \A b \in a .. a + 1 : IntegratedDistance(v0, vh, a) <= IntegratedDistance(v0, vh, b)
         /\ \A b \in Nat : a <= b => IntegratedDistance(v0, vh, a) <= IntegratedDistance(v0, vh, b)
<1> DEFINE F(b) == IntegratedDistance(v0, vh, b)
<1>1. \A b \in Nat : F(b) \in Int /\ F(b) <= F(b + 1)
  BY DrivenStep
<1>2. F(0) = 0
  <2>1. 0 <= Ramp /\ v0 * 0 = 0 /\ (vh - v0) * 0 * 0 = 0 /\ 0 \div (2 * Ramp) = 0
    BY RampIsPositive
  <2> QED BY <2>1 DEF IntegratedDistance
<1>3. ASSUME NEW b \in Nat, NEW c \in Nat, b <= c PROVE F(b) <= F(c)
  <2> DEFINE P == {i \in Nat : F(b) <= F(i)}
  <2> HIDE DEF F
  <2>1. b \in P /\ \A i \in b .. c - 1 : i \in P => i + 1 \in P
    <3>1. ASSUME NEW i \in b .. c - 1, F(b) <= F(i) PROVE F(b) <= F(i + 1) /\ i + 1 \in Nat
      <4>1. i \in Nat /\ i + 1 \in Nat
        OBVIOUS
      <4> QED BY <1>1, <3>1, <4>1
    <3> QED BY <1>1, <3>1
  <2> HIDE DEF P
  <2>2. \A i \in b .. c : i \in P
    BY <2>1, Upwards
  <2>3. c \in P
    BY <1>3, <2>2
  <2> QED BY <2>3 DEF P
<1>4. F(0) <= F(a) /\ F(a) \in Int
  BY <1>1, <1>3
<1> HIDE DEF F
<1>5. F(a) \in Nat
  BY <1>2, <1>4
<1> QED BY <1>3, <1>5 DEF F

(***************************************************************************)
(* What geo-ingest makes of a relation.                                    *)
(***************************************************************************)

(* A fold of the models is one of GatherSteps: what each of its functions  *)
(* gathers, element by element.                                            *)
LEMMA UsableSteps ==
  ASSUME NEW ways \in Seq(Seq(Point))
  PROVE  UsableWays(ways) \in Seq(Line)
<1> DEFINE n == Len(ways)
           X == Seq(Line)
           step == [i \in 1 .. n |-> [u \in X |-> IF Len(ways[i]) >= 2 THEN Append(u, ways[i]) ELSE u]]
           Folded(k) == k = [s \in SUBSET DOMAIN ways |->
                               IF s = {} THEN <<>>
                               ELSE IF Len(ways[Max(s)]) >= 2 THEN Append(k[s \ {Max(s)}], ways[Max(s)])
                                    ELSE k[s \ {Max(s)}]]
<1>1. n \in Nat /\ DOMAIN ways = 1 .. n /\ \A i \in 1 .. n : ways[i] \in Seq(Point)
  OBVIOUS
<1>2. step \in [1 .. n -> [X -> X]] /\ <<>> \in X
  <2>1. ASSUME NEW i \in 1 .. n, NEW u \in X PROVE (IF Len(ways[i]) >= 2 THEN Append(u, ways[i]) ELSE u) \in X
    <3>1. CASE Len(ways[i]) >= 2
      <4>1. ways[i] \in Line
        BY <1>1, <3>1 DEF Line
      <4>2. Append(u, ways[i]) \in Seq(Line)
        BY <4>1, AppendProperties
      <4> QED BY <3>1, <4>2
    <3> QED BY <3>1
  <2> QED BY <2>1, EmptySeq
<1>3. UsableWays(ways) = (CHOOSE k : Folded(k))[DOMAIN ways]
  BY DEF UsableWays, FoldLeft, MapThenFoldSet
<1>4. \E k : Folded(k)
  <2>1. PICK g \in [SUBSET (1 .. n) -> X] : Gathers(g, <<>>, step, n)
    <3> HIDE DEF X, step, n
    <3> QED BY <1>1, <1>2, GatherExists
  <2>2. \A s \in SUBSET (1 .. n) : s # {} => Max(s) \in 1 .. n /\ s \ {Max(s)} \in SUBSET (1 .. n)
    <3> HIDE DEF n
    <3> QED BY <1>1, MaxNat
  <2>3. Folded(g)
    <3> HIDE DEF X
    <3> QED BY <1>1, <2>1, <2>2 DEF Gathers
  <2> QED BY <2>3
<1> DEFINE k == CHOOSE k : Folded(k)
<1>5. Folded(k)
  BY <1>4
<1>6. Recurs(k, <<>>, step, n, X)
  <2>1. \A s \in SUBSET (1 .. n) : s # {} => Max(s) \in 1 .. n
    <3> HIDE DEF n
    <3> QED BY <1>1, MaxNat
  <2> HIDE DEF k, X
  <2> QED BY <1>1, <1>5, <2>1 DEF Recurs
<1>7. PICK acc : Gathered(acc, <<>>, step, n, X) /\ acc[n] = k[1 .. n]
  <2> HIDE DEF k, X, step, n
  <2> QED BY <1>1, <1>2, <1>6, GatherSteps
<1>8. acc[n] \in X
  BY <1>1, <1>7 DEF Gathered
<1>9. k[DOMAIN ways] = k[1 .. n]
  BY <1>1
<1> QED BY <1>3, <1>7, <1>8, <1>9

(* Two lines joined are a line, in whichever direction the second is       *)
(* drawn.                                                                  *)
LEMMA Joined ==
  ASSUME NEW line \in Line, NEW way \in Line
  PROVE  JoinWay(line, way) \in Line
<1>1. /\ line \in Seq(Point) /\ Len(line) >= 2 /\ way \in Seq(Point) /\ Len(way) >= 2
      /\ Len(line) \in Nat /\ Len(way) \in Nat /\ way # <<>>
  BY DEF Line
<1>2. Tail(way) \in Seq(Point)
  BY <1>1
<1>3. Reverse(way) \in Seq(Point) /\ Reverse(way) # <<>>
  <2>1. Reverse(way) \in [1 .. Len(way) -> Point]
    <3>1. \A i \in 1 .. Len(way) : (Len(way) - i) + 1 \in 1 .. Len(way)
      BY <1>1
    <3> QED BY <1>1, <3>1 DEF Reverse
  <2> QED BY <1>1, <2>1, Sequenced
<1>4. Tail(Reverse(way)) \in Seq(Point)
  BY <1>3
<1>5. \E more \in Seq(Point) : JoinWay(line, way) = line \o more
  <2> DEFINE toStart == OffsetSq(Last(line), way[1])
             toEnd == OffsetSq(Last(line), Last(way))
             tolerance == Square(JoinTolerance)
  <2>1. CASE toStart <= tolerance /\ toStart <= toEnd
    <3>1. JoinWay(line, way) = line \o Tail(way)
      BY <2>1 DEF JoinWay
    <3> QED BY <1>2, <3>1
  <2>2. CASE ~(toStart <= tolerance /\ toStart <= toEnd) /\ toEnd <= tolerance
    <3>1. JoinWay(line, way) = line \o Tail(Reverse(way))
      BY <2>2 DEF JoinWay
    <3> QED BY <1>4, <3>1
  <2>3. CASE ~(toStart <= tolerance /\ toStart <= toEnd) /\ ~(toEnd <= tolerance)
    <3>1. JoinWay(line, way) = line \o way
      BY <2>3 DEF JoinWay
    <3> QED BY <1>1, <3>1
  <2> QED BY <2>1, <2>2, <2>3
<1>6. PICK more \in Seq(Point) : JoinWay(line, way) = line \o more
  BY <1>5
<1>7. line \o more \in Seq(Point) /\ Len(line \o more) = Len(line) + Len(more) /\ Len(more) \in Nat
  BY <1>1, ConcatProperties
<1> QED BY <1>1, <1>6, <1>7 DEF Line

(* Stitching, way by way.                                                  *)
LEMMA JoinSteps ==
  ASSUME NEW first \in Line, NEW ways \in Seq(Line)
  PROVE  \E acc : /\ acc \in [0 .. Len(ways) -> Line] /\ acc[0] = first
                  /\ \A i \in 1 .. Len(ways) : acc[i] = JoinWay(acc[i - 1], ways[i])
                  /\ FoldLeft(JoinWay, first, ways) = acc[Len(ways)]
<1> DEFINE n == Len(ways)
           X == Line
           step == [i \in 1 .. n |-> [u \in X |-> JoinWay(u, ways[i])]]
           Folded(k) == k = [s \in SUBSET DOMAIN ways |->
                               IF s = {} THEN first
                               ELSE JoinWay(k[s \ {Max(s)}], ways[Max(s)])]
<1>1. n \in Nat /\ DOMAIN ways = 1 .. n /\ \A i \in 1 .. n : ways[i] \in Line
  OBVIOUS
<1>2. step \in [1 .. n -> [X -> X]] /\ first \in X
  <2>1. ASSUME NEW i \in 1 .. n, NEW u \in X PROVE JoinWay(u, ways[i]) \in X
    BY <1>1, Joined
  <2> QED BY <2>1, EmptySeq
<1>3. FoldLeft(JoinWay, first, ways) = (CHOOSE k : Folded(k))[DOMAIN ways]
  BY DEF FoldLeft, MapThenFoldSet
<1>4. \E k : Folded(k)
  <2>1. PICK g \in [SUBSET (1 .. n) -> X] : Gathers(g, first, step, n)
    <3> HIDE DEF X, step, n
    <3> QED BY <1>1, <1>2, GatherExists
  <2>2. \A s \in SUBSET (1 .. n) : s # {} => Max(s) \in 1 .. n /\ s \ {Max(s)} \in SUBSET (1 .. n)
    <3> HIDE DEF n
    <3> QED BY <1>1, MaxNat
  <2>3. Folded(g)
    <3> HIDE DEF X
    <3> QED BY <1>1, <2>1, <2>2 DEF Gathers
  <2> QED BY <2>3
<1> DEFINE k == CHOOSE k : Folded(k)
<1>5. Folded(k)
  BY <1>4
<1>6. Recurs(k, first, step, n, X)
  <2>1. \A s \in SUBSET (1 .. n) : s # {} => Max(s) \in 1 .. n
    <3> HIDE DEF n
    <3> QED BY <1>1, MaxNat
  <2> HIDE DEF k, X
  <2> QED BY <1>1, <1>5, <2>1 DEF Recurs
<1>7. PICK acc : Gathered(acc, first, step, n, X) /\ acc[n] = k[1 .. n]
  <2> HIDE DEF k, X, step, n
  <2> QED BY <1>1, <1>2, <1>6, GatherSteps, SMTT(60)
<1>8. acc \in [0 .. n -> X] /\ acc[0] = first /\ \A i \in 1 .. n : acc[i] = step[i][acc[i - 1]]
  <2> HIDE DEF X, step, n
  <2> QED BY <1>7 DEF Gathered
<1>9. FoldLeft(JoinWay, first, ways) = acc[n]
  BY <1>1, <1>3, <1>7
<1>10. ASSUME NEW i \in 1 .. n PROVE acc[i] = JoinWay(acc[i - 1], ways[i])
  <2>1. acc[i - 1] \in X
    <3>1. i - 1 \in 0 .. n
      BY <1>1
    <3> HIDE DEF X, n
    <3> QED BY <1>8, <3>1
  <2>2. step[i][acc[i - 1]] = JoinWay(acc[i - 1], ways[i])
    <3> HIDE DEF X, n
    <3> QED BY <2>1
  <2> QED BY <1>8, <2>2
<1> QED BY <1>8, <1>9, <1>10

(* Joining way after way keeps a line.                                     *)
LEMMA JoinedAll ==
  ASSUME NEW first \in Line, NEW ways \in Seq(Line)
  PROVE  FoldLeft(JoinWay, first, ways) \in Line
<1>1. PICK acc : /\ acc \in [0 .. Len(ways) -> Line] /\ acc[0] = first
                 /\ \A i \in 1 .. Len(ways) : acc[i] = JoinWay(acc[i - 1], ways[i])
                 /\ FoldLeft(JoinWay, first, ways) = acc[Len(ways)]
  BY JoinSteps
<1>2. Len(ways) \in 0 .. Len(ways)
  BY LenProperties
<1> QED BY <1>1, <1>2

(* Usable ways make a line.                                                *)
LEMMA StitchedLine ==
  ASSUME NEW ways \in Seq(Seq(Point)), UsableWays(ways) # <<>>
  PROVE  StitchWays(ways) \in Line
<1>1. UsableWays(ways) \in Seq(Line)
  BY UsableSteps
<1>2. Head(UsableWays(ways)) \in Line /\ Tail(UsableWays(ways)) \in Seq(Line)
  BY <1>1, HeadTailProperties
<1> QED BY <1>2, JoinedAll DEF StitchWays

(* The stops kept are members, no more than there are.                     *)
LEMMA MembersKept ==
  ASSUME NEW S, NEW members \in Seq(S)
  PROVE  StopsFromMembers(members) \in Seq(S) /\ Len(StopsFromMembers(members)) <= Len(members)
<1> DEFINE n == Len(members)
           X == Seq(S)
           step == [i \in 1 .. n |-> [u \in X |-> (IF u # <<>> /\ Last(u).id = members[i].id THEN u ELSE Append(u, members[i]))]]
           Folded(k) == k = [s \in SUBSET DOMAIN members |->
                               IF s = {} THEN <<>>
                               ELSE (IF k[s \ {Max(s)}] # <<>> /\ Last(k[s \ {Max(s)}]).id = members[Max(s)].id THEN k[s \ {Max(s)}] ELSE Append(k[s \ {Max(s)}], members[Max(s)]))]
<1>1. n \in Nat /\ DOMAIN members = 1 .. n /\ \A i \in 1 .. n : members[i] \in S
  OBVIOUS
<1>2. step \in [1 .. n -> [X -> X]] /\ <<>> \in X
  <2>1. ASSUME NEW i \in 1 .. n, NEW u \in X PROVE (IF u # <<>> /\ Last(u).id = members[i].id THEN u ELSE Append(u, members[i])) \in X
    BY <1>1, AppendProperties
  <2> QED BY <2>1, EmptySeq
<1>3. StopsFromMembers(members) = (CHOOSE k : Folded(k))[DOMAIN members]
  BY DEF StopsFromMembers, FoldLeft, MapThenFoldSet
<1>4. \E k : Folded(k)
  <2>1. PICK g \in [SUBSET (1 .. n) -> X] : Gathers(g, <<>>, step, n)
    <3> HIDE DEF X, step, n
    <3> QED BY <1>1, <1>2, GatherExists
  <2>2. \A s \in SUBSET (1 .. n) : s # {} => Max(s) \in 1 .. n /\ s \ {Max(s)} \in SUBSET (1 .. n)
    <3> HIDE DEF n
    <3> QED BY <1>1, MaxNat
  <2>3. Folded(g)
    <3> HIDE DEF X
    <3> QED BY <1>1, <2>1, <2>2 DEF Gathers
  <2> QED BY <2>3
<1> DEFINE k == CHOOSE k : Folded(k)
<1>5. Folded(k)
  BY <1>4
<1>6. Recurs(k, <<>>, step, n, X)
  <2>1. \A s \in SUBSET (1 .. n) : s # {} => Max(s) \in 1 .. n
    <3> HIDE DEF n
    <3> QED BY <1>1, MaxNat
  <2> HIDE DEF k, X
  <2> QED BY <1>1, <1>5, <2>1 DEF Recurs
<1>7. PICK acc : Gathered(acc, <<>>, step, n, X) /\ acc[n] = k[1 .. n]
  <2> HIDE DEF k, X, step, n
  <2> QED BY <1>1, <1>2, <1>6, GatherSteps
<1>8. acc[n] \in X
  BY <1>1, <1>7 DEF Gathered
<1>9. StopsFromMembers(members) = acc[n]
  BY <1>1, <1>3, <1>7
<1>b. ASSUME NEW i \in 1 .. n, NEW u \in X PROVE Len(step[i][u]) <= Len(u) + 1 /\ Len(step[i][u]) \in Nat /\ Len(u) \in Nat
  <2>1. step[i][u] = u \/ step[i][u] = Append(u, members[i])
    OBVIOUS
  <2>2. members[i] \in S /\ u \in Seq(S) /\ Len(u) \in Nat
    BY <1>1
  <2>3. Len(Append(u, members[i])) = Len(u) + 1
    BY <2>2, AppendProperties
  <2> HIDE DEF step
  <2> QED BY <2>1, <2>2, <2>3
<1>a. \A i \in 0 .. n : Len(acc[i]) <= i
  <2> DEFINE P == {i \in 0 .. n : Len(acc[i]) <= i}
  <2>1. 0 \in P
    BY <1>1, <1>7, EmptySeq DEF Gathered
  <2>2. ASSUME NEW i \in 0 .. n - 1, i \in P PROVE i + 1 \in P
    <3>1. i + 1 \in 1 .. n /\ (i + 1) - 1 = i /\ i \in 0 .. n /\ i + 1 \in 0 .. n
      BY <1>1
    <3>2. acc[i + 1] = step[i + 1][acc[i]] /\ acc[i] \in X
      <4> HIDE DEF step, X
      <4> QED BY <1>7, <3>1 DEF Gathered
    <3>3. Len(acc[i + 1]) <= Len(acc[i]) + 1 /\ Len(acc[i]) \in Nat /\ Len(acc[i + 1]) \in Int
      BY <1>b, <3>1, <3>2
    <3>4. Len(acc[i]) <= i
      BY <2>2
    <3> QED BY <3>1, <3>3, <3>4
  <2>3. \A i \in 0 .. n - 1 : i \in P => i + 1 \in P
    <3> HIDE DEF P
    <3> QED BY <2>2
  <2> HIDE DEF P
  <2>4. \A i \in 0 .. n : i \in P
    BY <1>1, <2>1, <2>3, Upwards
  <2> QED BY <2>4 DEF P
<1> QED BY <1>1, <1>8, <1>9, <1>a

(* One candidate adds at most one stop.                                    *)
LEMMA KeptSpaced ==
  ASSUME NEW S, NEW kept \in Seq(S), NEW c \in S
  PROVE  /\ KeepSpaced(kept, c) \in Seq(S)
         /\ Len(KeepSpaced(kept, c)) <= Len(kept) + 1 /\ Len(KeepSpaced(kept, c)) \in Nat /\ Len(kept) \in Nat
<1>1. \/ KeepSpaced(kept, c) = kept
      \/ kept # <<>> /\ KeepSpaced(kept, c) = [kept EXCEPT ![Len(kept)] = c]
      \/ KeepSpaced(kept, c) = Append(kept, c)
  BY DEF KeepSpaced
<1>2. Len(kept) \in Nat /\ (kept # <<>> => Len(kept) \in 1 .. Len(kept))
  BY EmptySeq, LenProperties
<1>3. Append(kept, c) \in Seq(S) /\ Len(Append(kept, c)) = Len(kept) + 1
  BY AppendProperties
<1>4. kept # <<>> => [kept EXCEPT ![Len(kept)] = c] \in Seq(S) /\ Len([kept EXCEPT ![Len(kept)] = c]) = Len(kept)
  BY <1>2, ExceptSeq
<1> QED BY <1>1, <1>2, <1>3, <1>4

(* Keeping stops spaced, candidate by candidate.                           *)
LEMMA SpaceSteps ==
  ASSUME NEW S, NEW found \in Seq(S)
  PROVE  \E acc : /\ acc \in [0 .. Len(found) -> Seq(S)] /\ acc[0] = <<>>
                  /\ \A i \in 1 .. Len(found) : acc[i] = KeepSpaced(acc[i - 1], found[i])
                  /\ FoldLeft(KeepSpaced, <<>>, found) = acc[Len(found)]
<1> DEFINE n == Len(found)
           X == Seq(S)
           step == [i \in 1 .. n |-> [u \in X |-> KeepSpaced(u, found[i])]]
           Folded(k) == k = [s \in SUBSET DOMAIN found |->
                               IF s = {} THEN <<>>
                               ELSE KeepSpaced(k[s \ {Max(s)}], found[Max(s)])]
<1>1. n \in Nat /\ DOMAIN found = 1 .. n /\ \A i \in 1 .. n : found[i] \in S
  OBVIOUS
<1>2. step \in [1 .. n -> [X -> X]] /\ <<>> \in X
  <2>1. ASSUME NEW i \in 1 .. n, NEW u \in X PROVE KeepSpaced(u, found[i]) \in X
    BY <1>1, KeptSpaced
  <2> QED BY <2>1, EmptySeq
<1>3. FoldLeft(KeepSpaced, <<>>, found) = (CHOOSE k : Folded(k))[DOMAIN found]
  BY DEF FoldLeft, MapThenFoldSet
<1>4. \E k : Folded(k)
  <2>1. PICK g \in [SUBSET (1 .. n) -> X] : Gathers(g, <<>>, step, n)
    <3> HIDE DEF X, step, n
    <3> QED BY <1>1, <1>2, GatherExists
  <2>2. \A s \in SUBSET (1 .. n) : s # {} => Max(s) \in 1 .. n /\ s \ {Max(s)} \in SUBSET (1 .. n)
    <3> HIDE DEF n
    <3> QED BY <1>1, MaxNat
  <2>3. Folded(g)
    <3> HIDE DEF X
    <3> QED BY <1>1, <2>1, <2>2 DEF Gathers
  <2> QED BY <2>3
<1> DEFINE k == CHOOSE k : Folded(k)
<1>5. Folded(k)
  BY <1>4
<1>6. Recurs(k, <<>>, step, n, X)
  <2>1. \A s \in SUBSET (1 .. n) : s # {} => Max(s) \in 1 .. n
    <3> HIDE DEF n
    <3> QED BY <1>1, MaxNat
  <2> HIDE DEF k, X
  <2> QED BY <1>1, <1>5, <2>1 DEF Recurs
<1>7. PICK acc : Gathered(acc, <<>>, step, n, X) /\ acc[n] = k[1 .. n]
  <2> HIDE DEF k, X, step, n
  <2> QED BY <1>1, <1>2, <1>6, GatherSteps
<1>8. acc \in [0 .. n -> X] /\ acc[0] = <<>> /\ \A i \in 1 .. n : acc[i] = step[i][acc[i - 1]]
  <2> HIDE DEF X, step, n
  <2> QED BY <1>7 DEF Gathered
<1>9. FoldLeft(KeepSpaced, <<>>, found) = acc[n]
  BY <1>1, <1>3, <1>7
<1>10. ASSUME NEW i \in 1 .. n PROVE acc[i] = KeepSpaced(acc[i - 1], found[i])
  <2>1. acc[i - 1] \in X
    <3>1. i - 1 \in 0 .. n
      BY <1>1
    <3> HIDE DEF X, n
    <3> QED BY <1>8, <3>1
  <2>2. step[i][acc[i - 1]] = KeepSpaced(acc[i - 1], found[i])
    <3> HIDE DEF X, n
    <3> QED BY <2>1
  <2> QED BY <1>8, <2>2
<1> QED BY <1>8, <1>9, <1>10

(***************************************************************************)
(* A line stitched of ways that chain is as long as they are together.     *)
(***************************************************************************)

(* Lengths along the beginning of a line do not depend on what follows.    *)
LEMMA Continued ==
  ASSUME NEW line \in Line, NEW more \in Seq(Point)
  PROVE  /\ line \o more \in Line /\ Len(line \o more) = Len(line) + Len(more) /\ Len(more) \in Nat
         /\ \A i \in 1 .. Len(line) : /\ (line \o more)[i] = line[i]
                                     /\ LengthBefore(line \o more, i) = LengthBefore(line, i)
         /\ \A i \in 1 .. Len(more) : (line \o more)[Len(line) + i] = more[i]
<1> DEFINE both == line \o more
           n == Len(line)
           P == {i \in 1 .. n : LengthBefore(both, i) = LengthBefore(line, i)}
<1>1. line \in Seq(Point) /\ n \in Nat /\ n >= 2 /\ Len(more) \in Nat
  BY DEF Line
<1>2. /\ both \in Seq(Point) /\ Len(both) = n + Len(more)
      /\ \A i \in 1 .. n : both[i] = line[i]
  BY <1>1, ConcatProperties
<1>2a. \A i \in 1 .. Len(more) : both[n + i] = more[i]
  <2>1. SUFFICES ASSUME NEW i \in 1 .. Len(more) PROVE both[n + i] = more[i]
    OBVIOUS
  <2>2. n + i \in 1 .. n + Len(more) /\ n + i > n /\ (n + i) - n = i
    BY <1>1
  <2> QED BY <1>1, <2>2, ConcatProperties
<1>3. both \in Line
  BY <1>1, <1>2 DEF Line
<1> HIDE DEF both, n
<1>4. \A i \in 1 .. n - 1 : i \in Piece(line) /\ i \in Piece(both) /\ i \in 1 .. n /\ i + 1 \in 1 .. n
  BY <1>1, <1>2 DEF Piece, n
<1>5. 1 \in P
  BY <1>1, <1>3, Lengths DEF n
<1>6. \A i \in 1 .. n - 1 : i \in P => i + 1 \in P
  <2>1. SUFFICES ASSUME NEW i \in 1 .. n - 1, i \in P PROVE i + 1 \in P
    OBVIOUS
  <2>2. /\ LengthBefore(line, i + 1) = LengthBefore(line, i) + PieceLen(line, i)
        /\ LengthBefore(both, i + 1) = LengthBefore(both, i) + PieceLen(both, i)
    BY <1>3, <1>4, <2>1, Lengths
  <2>3. PieceLen(line, i) = PieceLen(both, i)
    BY <1>2, <1>4 DEF PieceLen
  <2> QED BY <1>4, <2>1, <2>2, <2>3
<1>7. \A i \in 1 .. n : i \in P
  <2> HIDE DEF P
  <2>1. 1 \in Nat /\ n \in Nat
    BY <1>1
  <2> QED BY <1>5, <1>6, <2>1, Upwards
<1> QED BY <1>1, <1>2, <1>2a, <1>3, <1>7 DEF both, n

(* A way that starts where the line ends adds its length.                  *)
LEMMA Adjoined ==
  ASSUME NEW line \in Line, NEW way \in Line, Last(line) = way[1]
  PROVE  /\ LineLength(line \o Tail(way)) = LineLength(line) + LineLength(way)
         /\ Last(line \o Tail(way)) = Last(way)
<1> DEFINE n == Len(line)
           m == Len(way)
           both == line \o Tail(way)
           at == n - 1
           P == {k \in 1 .. m : LengthBefore(both, at + k) = LengthBefore(line, n) + LengthBefore(way, k)}
<1>1. /\ line \in Seq(Point) /\ n \in Nat /\ n >= 2 /\ way \in Seq(Point) /\ m \in Nat /\ m >= 2 /\ way # <<>>
  BY DEF Line
<1>2. Tail(way) \in Seq(Point) /\ Len(Tail(way)) = m - 1 /\ \A k \in 1 .. m - 1 : Tail(way)[k] = way[k + 1]
  BY <1>1
<1>3. /\ both \in Line /\ Len(both) = at + m
      /\ \A i \in 1 .. n : both[i] = line[i] /\ LengthBefore(both, i) = LengthBefore(line, i)
      /\ \A k \in 1 .. m - 1 : both[n + k] = way[k + 1]
  <2>1. Len(both) = n + (m - 1)
    BY <1>2, Continued
  <2>2. n + (m - 1) = at + m
    BY <1>1
  <2>3. /\ both \in Line
        /\ \A i \in 1 .. n : both[i] = line[i] /\ LengthBefore(both, i) = LengthBefore(line, i)
        /\ \A k \in 1 .. Len(Tail(way)) : both[n + k] = Tail(way)[k]
    BY <1>2, Continued
  <2>4. \A k \in 1 .. m - 1 : both[n + k] = way[k + 1]
    <3> HIDE DEF both, n, m
    <3> QED BY <1>2, <2>3
  <2> QED BY <2>1, <2>2, <2>3, <2>4
<1> HIDE DEF both, n, m
<1>4. \A k \in 1 .. m : both[at + k] = way[k] /\ at + k \in 1 .. Len(both)
  <2>1. SUFFICES ASSUME NEW k \in 1 .. m PROVE both[at + k] = way[k] /\ at + k \in 1 .. Len(both)
    OBVIOUS
  <2>2. at + k \in 1 .. Len(both)
    BY <1>1, <1>3
  <2>3. CASE k = 1
    <3>1. at + k = n /\ n \in 1 .. n
      BY <1>1, <2>3
    <3>2. line[n] = way[1]
      BY <1>1 DEF Last, n
    <3> QED BY <1>3, <2>2, <2>3, <3>1, <3>2
  <2>4. CASE k # 1
    <3>1. k - 1 \in 1 .. m - 1 /\ n + (k - 1) = at + k /\ (k - 1) + 1 = k
      BY <1>1, <2>4
    <3> QED BY <1>3, <2>2, <3>1
  <2> QED BY <2>3, <2>4
<1>5. 1 \in P
  <2>1. at + 1 = n /\ n \in 1 .. n /\ 1 \in 1 .. m
    BY <1>1
  <2>2. LengthBefore(way, 1) = 0 /\ LengthBefore(line, n) \in Nat
    BY <2>1, Lengths DEF n
  <2> HIDE DEF at
  <2> QED BY <1>3, <2>1, <2>2
<1>6. \A k \in 1 .. m - 1 : k \in P => k + 1 \in P
  <2>1. SUFFICES ASSUME NEW k \in 1 .. m - 1, k \in P PROVE k + 1 \in P
    OBVIOUS
  <2>2. k \in 1 .. m /\ k + 1 \in 1 .. m /\ at + k \in 1 .. Len(both) - 1 /\ (at + k) + 1 = at + (k + 1)
    BY <1>1, <1>3
  <2>3. k \in Piece(way) /\ at + k \in Piece(both)
    BY <2>2 DEF Piece, m
  <2>4. /\ LengthBefore(way, k + 1) = LengthBefore(way, k) + PieceLen(way, k)
        /\ LengthBefore(both, (at + k) + 1) = LengthBefore(both, at + k) + PieceLen(both, at + k)
        /\ LengthBefore(way, k) \in Nat /\ PieceLen(way, k) \in Nat
    BY <1>3, <2>3, Lengths
  <2>5. PieceLen(way, k) = PieceLen(both, at + k)
    BY <1>4, <2>2 DEF PieceLen
  <2>6. LengthBefore(line, n) \in Nat
    <3>1. n \in 1 .. Len(line)
      BY <1>1 DEF n
    <3> QED BY <3>1, Lengths
  <2> HIDE DEF at
  <2> QED BY <2>1, <2>2, <2>4, <2>5, <2>6
<1>7. m \in P
  <2> HIDE DEF P
  <2>1. \A k \in 1 .. m : k \in P
    <3>1. 1 \in Nat /\ m \in Nat
      BY <1>1
    <3> QED BY <1>5, <1>6, <3>1, Upwards
  <2> QED BY <1>1, <2>1
<1>8. both[at + m] = way[m]
  BY <1>1, <1>4
<1> QED BY <1>1, <1>3, <1>7, <1>8 DEF LineLength, Last, both, n, m

(* A way drawn backwards is as long.                                       *)
LEMMA Backwards ==
  ASSUME NEW way \in Line
  PROVE  /\ Reverse(way) \in Line /\ Reverse(way)[1] = Last(way) /\ Last(Reverse(way)) = way[1]
         /\ LineLength(Reverse(way)) = LineLength(way)
<1> DEFINE m == Len(way)
           back == Reverse(way)
           P == {k \in 1 .. m : LengthBefore(back, k) = LineLength(way) - LengthBefore(way, m + 1 - k)}
<1>1. way \in Seq(Point) /\ m \in Nat /\ m >= 2
  BY DEF Line
<1>2. back \in [1 .. m -> Point]
  <2>1. \A i \in 1 .. m : (m - i) + 1 \in 1 .. m
    BY <1>1
  <2> QED BY <1>1, <2>1 DEF Reverse
<1>3. back \in Seq(Point) /\ Len(back) = m
  <2> HIDE DEF back, m
  <2> QED BY <1>1, <1>2, Sequenced
<1>4. \A k \in 1 .. m : back[k] = way[m + 1 - k]
  <2>1. \A k \in 1 .. m : (m - k) + 1 = m + 1 - k
    BY <1>1
  <2> QED BY <2>1 DEF Reverse
<1> HIDE DEF back, m
<1>5. back \in Line
  BY <1>1, <1>3 DEF Line
<1>6. back[1] = way[m] /\ back[m] = way[1]
  <2>1. 1 \in 1 .. m /\ m \in 1 .. m /\ m + 1 - 1 = m /\ m + 1 - m = 1
    BY <1>1
  <2> QED BY <1>4, <2>1
<1>7. \A k \in 1 .. m : m + 1 - k \in 1 .. Len(way) /\ LengthBefore(way, m + 1 - k) \in Nat
  <2>1. \A k \in 1 .. m : m + 1 - k \in 1 .. Len(way)
    BY <1>1 DEF m
  <2> QED BY <2>1, Lengths
<1>8. 1 \in P
  <2>1. 1 \in 1 .. m /\ m + 1 - 1 = m
    BY <1>1
  <2>2. LengthBefore(back, 1) = 0 /\ LengthBefore(way, m) \in Nat /\ LineLength(way) = LengthBefore(way, m)
    BY <1>5, <1>7, <2>1, Lengths DEF LineLength, m
  <2> QED BY <2>1, <2>2
<1>9. \A k \in 1 .. m - 1 : k \in P => k + 1 \in P
  <2>1. SUFFICES ASSUME NEW k \in 1 .. m - 1, k \in P PROVE k + 1 \in P
    OBVIOUS
  <2> DEFINE j == m - k
  <2>2. k \in 1 .. m /\ k + 1 \in 1 .. m /\ j \in 1 .. m - 1 /\ m + 1 - k = j + 1 /\ m + 1 - (k + 1) = j
        /\ j \in 1 .. m /\ j + 1 \in 1 .. m
    BY <1>1
  <2>3. k \in Piece(back) /\ j \in Piece(way)
    BY <1>3, <2>2 DEF Piece, m
  <2>4. /\ LengthBefore(back, k + 1) = LengthBefore(back, k) + PieceLen(back, k)
        /\ LengthBefore(way, j + 1) = LengthBefore(way, j) + PieceLen(way, j)
        /\ LengthBefore(way, j) \in Nat /\ PieceLen(way, j) \in Nat
    BY <1>5, <2>3, Lengths
  <2>5. PieceLen(back, k) = PieceLen(way, j)
    <3>1. back[k] = way[j + 1] /\ back[k + 1] = way[j] /\ way[j] \in Point /\ way[j + 1] \in Point
      <4>1. \A i \in 1 .. m : way[i] \in Point
        BY <1>1 DEF m
      <4>2. back[k] = way[m + 1 - k] /\ back[k + 1] = way[m + 1 - (k + 1)]
        BY <1>4, <2>2
      <4> HIDE DEF j
      <4> QED BY <2>2, <4>1, <4>2
    <3>2. \A p, q \in Point : Distance(p, q) = Distance(q, p)
      <4>1. \A x, y \in Int : Abs(x - y) = Abs(y - x)
        BY DEF Abs
      <4> QED BY <4>1, Coordinates DEF Distance
    <3> QED BY <3>1, <3>2 DEF PieceLen
  <2>6. LineLength(way) \in Nat
    <3>1. m \in 1 .. Len(way)
      BY <1>1 DEF m
    <3> QED BY <3>1, Lengths DEF LineLength, m
  <2> HIDE DEF j
  <2> QED BY <2>1, <2>2, <2>4, <2>5, <2>6
<1>10. m \in P
  <2> HIDE DEF P
  <2>1. \A k \in 1 .. m : k \in P
    <3>1. 1 \in Nat /\ m \in Nat
      BY <1>1
    <3> QED BY <1>8, <1>9, <3>1, Upwards
  <2> QED BY <1>1, <2>1
<1>11. LengthBefore(back, m) = LineLength(way)
  <2>1. m + 1 - m = 1 /\ LengthBefore(way, 1) = 0 /\ 1 \in 1 .. m /\ LineLength(way) \in Nat
    <3>1. m \in 1 .. Len(way)
      BY <1>1 DEF m
    <3> QED BY <1>1, <3>1, Lengths DEF LineLength, m
  <2> QED BY <1>10, <2>1
<1> QED BY <1>3, <1>5, <1>6, <1>11 DEF LineLength, Last, back, m

(* A way chained to the line, in either direction, adds its length.        *)
Drawn(way, back) == IF back THEN Reverse(way) ELSE way

(* A way chained to the line, in either direction, adds its length.        *)
LEMMA Chains ==
  ASSUME NEW line \in Line, NEW way \in Line, NEW back \in BOOLEAN, Last(line) = Drawn(way, back)[1]
  PROVE  /\ LineLength(JoinWay(line, way)) = LineLength(line) + LineLength(way)
         /\ Last(JoinWay(line, way)) = Last(Drawn(way, back))
<1> DEFINE toStart == OffsetSq(Last(line), way[1])
           toEnd == OffsetSq(Last(line), Last(way))
           tolerance == Square(JoinTolerance)
<1>1. Last(line) \in Point /\ way[1] \in Point /\ Last(way) \in Point
  <2>1. ASSUME NEW l \in Line PROVE l[1] \in Point /\ Last(l) \in Point
    BY Points DEF Last
  <2> QED BY <2>1
<1>2. toStart \in Nat /\ toEnd \in Nat /\ (toStart = 0 => Last(line) = way[1])
  BY <1>1, Offsets
<1>3. tolerance \in Nat
  BY ToleranceAssumption, Squares
<1>4. JoinWay(line, way) = line \o (CASE toStart <= tolerance /\ toStart <= toEnd -> Tail(way)
                   [] ~(toStart <= tolerance /\ toStart <= toEnd) /\ toEnd <= tolerance ->
                         Tail(Reverse(way))
                   [] OTHER -> way)
  BY DEF JoinWay
<1>5. CASE ~back
  <2>1. Last(line) = way[1]
    BY <1>5 DEF Drawn
  <2>2. toStart = 0
    BY <1>1, <2>1, Offsets
  <2> HIDE DEF toStart, toEnd, tolerance
  <2>3. JoinWay(line, way) = line \o Tail(way)
    BY <1>2, <1>3, <1>4, <2>2
  <2> QED BY <1>5, <2>1, <2>3, Adjoined DEF Drawn
<1>6. CASE back
  <2>1. /\ Reverse(way) \in Line /\ Last(line) = Reverse(way)[1] /\ Last(line) = Last(way)
        /\ LineLength(Reverse(way)) = LineLength(way) /\ Last(Reverse(way)) = way[1]
    BY <1>6, Backwards DEF Drawn
  <2>2. toEnd = 0
    BY <1>1, <2>1, Offsets
  <2>3. CASE toStart <= tolerance /\ toStart <= toEnd
    <3>1. Last(line) = way[1]
      <4> HIDE DEF toStart, toEnd, tolerance
      <4> QED BY <1>2, <2>2, <2>3
    <3>2. JoinWay(line, way) = line \o Tail(way)
      <4> HIDE DEF toStart, toEnd, tolerance
      <4> QED BY <1>4, <2>3
    <3> QED BY <1>6, <2>1, <3>1, <3>2, Adjoined DEF Drawn
  <2>4. CASE ~(toStart <= tolerance /\ toStart <= toEnd)
    <3>1. JoinWay(line, way) = line \o Tail(Reverse(way))
      <4> HIDE DEF toStart, toEnd, tolerance
      <4> QED BY <1>3, <1>4, <2>2, <2>4
    <3> QED BY <1>6, <2>1, <3>1, Adjoined DEF Drawn
  <2> QED BY <2>3, <2>4
<1> QED BY <1>5, <1>6

(* The length of a stitched line: all ways from the first on.              *)
LEMMA ChainLength ==
  ASSUME NEW ways \in Seq(Line), ways # <<>>,
         NEW back \in [DOMAIN ways -> BOOLEAN], ~back[1],
         \A i \in 2 .. Len(ways) : Last(Drawn(ways[i - 1], back[i - 1])) = Drawn(ways[i], back[i])[1]
  PROVE  LineLength(FoldLeft(JoinWay, Head(ways), Tail(ways)))
           = TotalOf([i \in DOMAIN ways |-> LineLength(ways[i])], DOMAIN ways)
<1> DEFINE n == Len(ways)
           f == [i \in DOMAIN ways |-> LineLength(ways[i])]
           more == Tail(ways)
<1>1. /\ n \in Nat /\ n >= 1 /\ DOMAIN ways = 1 .. n /\ \A i \in 1 .. n : ways[i] \in Line
  BY EmptySeq, LenProperties
<1>2. Head(ways) = ways[1] /\ ways[1] \in Line /\ more \in Seq(Line) /\ Len(more) = n - 1
      /\ \A i \in 1 .. n - 1 : more[i] = ways[i + 1]
  BY <1>1, HeadTailProperties
<1>3. PICK acc : /\ acc \in [0 .. Len(more) -> Line] /\ acc[0] = ways[1]
                 /\ \A i \in 1 .. Len(more) : acc[i] = JoinWay(acc[i - 1], more[i])
                 /\ FoldLeft(JoinWay, ways[1], more) = acc[Len(more)]
  <2> HIDE DEF more
  <2> QED BY <1>2, JoinSteps
<1> HIDE DEF more, n
<1>4. \A i \in 1 .. n : f[i] = LineLength(ways[i]) /\ f[i] \in Nat
  <2>1. \A l \in Line : LineLength(l) \in Nat
    <3>1. \A l \in Line : Len(l) \in 1 .. Len(l)
      BY Points
    <3> QED BY <3>1, Lengths DEF LineLength
  <2> QED BY <1>1, <2>1
<1> HIDE DEF f
<1> DEFINE P == {i \in 0 .. n - 1 : /\ LineLength(acc[i]) = TotalOf(f, 1 .. i + 1)
                                   /\ Last(acc[i]) = Last(Drawn(ways[i + 1], back[i + 1]))}
<1>5. 0 \in P
  <2>1. 1 .. 0 + 1 = {} \cup {1} /\ 1 \in 1 .. n /\ 0 \in 0 .. n - 1 /\ 0 + 1 = 1
    BY <1>1
  <2>2. TotalOf(f, {} \cup {1}) = TotalOf(f, {}) + f[1] /\ TotalOf(f, {}) = 0
    <3>1. IsFiniteSet({}) /\ 1 \notin {} /\ \A y \in {} \cup {1} : f[y] \in Int
      BY <1>4, <2>1, FS_EmptySet
    <3> QED BY <3>1, TotalAdd, TotalEmpty
  <2>3. Drawn(ways[1], back[1]) = ways[1]
    BY DEF Drawn
  <2>4. LineLength(acc[0]) = f[1] /\ f[1] \in Nat
    BY <1>3, <1>4, <2>1
  <2> QED BY <1>3, <2>1, <2>2, <2>3, <2>4
<1>6. ASSUME NEW i \in 0 .. n - 1 - 1, i \in P PROVE i + 1 \in P
  <2>1. /\ i + 1 \in 1 .. Len(more) /\ (i + 1) - 1 = i /\ i \in 0 .. Len(more) /\ i + 1 \in 0 .. n - 1
        /\ i + 1 \in 1 .. n - 1 /\ i + 2 \in 2 .. n /\ (i + 2) - 1 = i + 1 /\ (i + 1) + 1 = i + 2
        /\ i + 2 \in 1 .. n /\ i + 1 \in 1 .. n
    BY <1>1, <1>2
  <2>2. acc[i + 1] = JoinWay(acc[i], ways[i + 2]) /\ acc[i] \in Line /\ ways[i + 2] \in Line /\ back[i + 2] \in BOOLEAN
    BY <1>1, <1>2, <1>3, <2>1
  <2>3. Last(acc[i]) = Drawn(ways[i + 2], back[i + 2])[1]
    <3>1. Last(Drawn(ways[i + 1], back[i + 1])) = Drawn(ways[i + 2], back[i + 2])[1]
      BY <2>1 DEF n
    <3> QED BY <1>6, <3>1
  <2>4. /\ LineLength(acc[i + 1]) = LineLength(acc[i]) + LineLength(ways[i + 2])
        /\ Last(acc[i + 1]) = Last(Drawn(ways[i + 2], back[i + 2]))
    BY <2>2, <2>3, Chains
  <2>5. 1 .. i + 2 = (1 .. i + 1) \cup {i + 2}
    BY <2>1
  <2>6. TotalOf(f, (1 .. i + 1) \cup {i + 2}) = TotalOf(f, 1 .. i + 1) + f[i + 2]
    <3>1. IsFiniteSet(1 .. i + 1) /\ i + 2 \notin 1 .. i + 1
      BY <2>1, FS_Interval
    <3>2. \A y \in (1 .. i + 1) \cup {i + 2} : f[y] \in Int
      <4>1. \A y \in (1 .. i + 1) \cup {i + 2} : y \in 1 .. n
        BY <1>1, <2>1
      <4> QED BY <1>4, <4>1
    <3> QED BY <3>1, <3>2, TotalAdd
  <2>7. LineLength(acc[i]) = TotalOf(f, 1 .. i + 1) /\ f[i + 2] = LineLength(ways[i + 2])
    BY <1>4, <1>6, <2>1
  <2> QED BY <2>1, <2>4, <2>5, <2>6, <2>7
<1>7. n - 1 \in P
  <2>1. \A i \in 0 .. (n - 1) - 1 : i \in P => i + 1 \in P
    <3> HIDE DEF P
    <3> QED BY <1>6
  <2> HIDE DEF P
  <2>2. 0 \in Nat /\ n - 1 \in Nat /\ n - 1 \in 0 .. n - 1
    BY <1>1
  <2>3. \A i \in 0 .. n - 1 : i \in P
    BY <1>5, <2>1, <2>2, Upwards
  <2> QED BY <2>2, <2>3
<1>8. (n - 1) + 1 = n
  BY <1>1
<1>9. LineLength(acc[n - 1]) = TotalOf(f, 1 .. n)
  BY <1>7, <1>8
<1> QED BY <1>1, <1>2, <1>3, <1>9 DEF f, more

(***************************************************************************)
(* Of the stops inferred, none too close and none missed.                  *)
(***************************************************************************)

(* What has been kept of the first i found: they are at least the spacing  *)
(* apart, and none is missing that all others are far from.                *)
Alone(found, j) ==
    \A i \in DOMAIN found \ {j} : Abs(found[j].dist - found[i].dist) >= StopSpacing
IsSpaced(kept) == \A m \in 2 .. Len(kept) : kept[m].dist - kept[m - 1].dist >= StopSpacing
KeptOf(found, i, kept) ==
    /\ Len(kept) <= i
    /\ \A m \in 1 .. Len(kept) : \E j \in 1 .. i : kept[m] = found[j]
    /\ IsSpaced(kept)
    /\ \A j \in 1 .. i : Alone(found, j) => \E m \in 1 .. Len(kept) : kept[m] = found[j]

(* One candidate more.                                                     *)
LEMMA KeptStep ==
  ASSUME NEW C, \A c \in C : c.dist \in Nat, NEW found \in Seq(C),
         \A i, j \in 1 .. Len(found) : i < j => found[i].dist <= found[j].dist,
         \A i, j \in 1 .. Len(found) : found[i] = found[j] => i = j,
         NEW i \in 0 .. Len(found) - 1, NEW u \in Seq(C), KeptOf(found, i, u)
  PROVE  KeptOf(found, i + 1, KeepSpaced(u, found[i + 1]))
<1> DEFINE n == Len(found)
           c == found[i + 1]
           w == KeepSpaced(u, c)
           l == Len(u)
<1>1. n \in Nat /\ DOMAIN found = 1 .. n /\ l \in Nat /\ DOMAIN u = 1 .. l /\ i + 1 \in 1 .. n /\ i \in Nat
      /\ (\A j \in 1 .. n : found[j] \in C /\ found[j].dist \in Nat) /\ \A m \in 1 .. l : u[m] \in C /\ u[m].dist \in Nat
  BY LenProperties
<1>1a. c \in C /\ c.dist \in Nat /\ StopSpacing \in Nat
  BY <1>1, ToleranceAssumption
<1>2. i + 1 \in 1 .. i + 1 /\ (\A j \in 1 .. i + 1 : j \in 1 .. i \/ j = i + 1) /\ \A j \in 1 .. i : j \in 1 .. i + 1
  <2>1. i \in Nat
    OBVIOUS
  <2> QED BY <2>1
<1>2a. l <= i /\ \A m \in 1 .. l : \E j \in 1 .. i + 1 : u[m] = found[j]
  <2>1. l <= i /\ \A m \in 1 .. l : \E j \in 1 .. i : u[m] = found[j]
    BY DEF KeptOf
  <2> QED BY <1>2, <2>1
<1>3. CASE w = Append(u, c) /\ (u = <<>> \/ c.dist - Last(u).dist >= StopSpacing)
  <2>1. Len(w) = l + 1 /\ w[l + 1] = c /\ \A m \in 1 .. l : w[m] = u[m]
    BY <1>1a, <1>3, AppendProperties
  <2>1a. l \in Nat
    BY <1>1
  <2> HIDE DEF w, l, n, c
  <2>2. \A m \in 1 .. l + 1 : m \in 1 .. l \/ m = l + 1
    BY <2>1a
  <2>2a. Len(w) <= i + 1
    BY <1>1, <2>1, <2>1a DEF KeptOf, l
  <2>3. \A m \in 1 .. Len(w) : \E j \in 1 .. i + 1 : w[m] = found[j]
    <3>1. SUFFICES ASSUME NEW m \in 1 .. l + 1 PROVE \E j \in 1 .. i + 1 : w[m] = found[j]
      BY <2>1
    <3>2. CASE m \in 1 .. l
      BY <1>2a, <2>1, <3>2
    <3>3. CASE m = l + 1
      BY <1>2, <2>1, <3>3 DEF c
    <3> QED BY <2>2, <3>2, <3>3
  <2>4. ASSUME NEW m \in 2 .. Len(w) PROVE w[m].dist - w[m - 1].dist >= StopSpacing
    <3>1. CASE m = l + 1
      <4>1. m - 1 = l /\ l \in 1 .. l /\ u # <<>>
        BY <1>1, <2>1, <2>4, <3>1, EmptySeq DEF l
      <4>2. w[m] = c /\ w[m - 1] = Last(u)
        BY <2>1, <3>1, <4>1 DEF Last, l
      <4> QED BY <1>3, <4>1, <4>2
    <3>2. CASE m # l + 1
      <4>1. m \in 2 .. l /\ m \in 1 .. l /\ m - 1 \in 1 .. l
        BY <1>1, <2>1, <2>4, <3>2
      <4>2. w[m] = u[m] /\ w[m - 1] = u[m - 1]
        BY <2>1, <4>1
      <4> QED BY <4>1, <4>2 DEF KeptOf, IsSpaced, l
    <3> QED BY <3>1, <3>2
  <2>5. ASSUME NEW j \in 1 .. i + 1, Alone(found, j) PROVE \E m \in 1 .. Len(w) : w[m] = found[j]
    <3>1. CASE j = i + 1
      <4>1. l + 1 \in 1 .. Len(w)
        BY <1>1, <2>1
      <4> QED BY <2>1, <3>1, <4>1 DEF c
    <3>2. CASE j \in 1 .. i
      <4>1. PICK m \in 1 .. l : u[m] = found[j]
        BY <2>5, <3>2 DEF KeptOf, l
      <4>2. m \in 1 .. Len(w) /\ w[m] = u[m]
        BY <1>1, <2>1
      <4> QED BY <4>1, <4>2
    <3> QED BY <1>2, <3>1, <3>2
  <2>6. KeptOf(found, i + 1, w)
    BY <2>2a, <2>3, <2>4, <2>5 DEF KeptOf, IsSpaced
  <2> QED BY <2>6 DEF w, c
<1>4. CASE u # <<>> /\ c.dist - Last(u).dist < StopSpacing
  <2>1. l \in 1 .. l /\ Last(u) = u[l]
    BY <1>1, <1>4, EmptySeq, LenProperties DEF Last
  <2>2. PICK k \in 1 .. i : u[l] = found[k]
    BY <2>1 DEF KeptOf
  <2>3. k \in 1 .. n /\ k < i + 1 /\ found[k].dist <= c.dist /\ found[k].dist \in Nat
    BY <1>1, <2>2
  <2>4. ~Alone(found, k) /\ ~Alone(found, i + 1)
    <3>1. /\ k \in DOMAIN found \ {i + 1} /\ i + 1 \in DOMAIN found \ {k}
      BY <1>1, <2>3
    <3>2. /\ Alone(found, k) => Abs(found[k].dist - c.dist) >= StopSpacing
          /\ Alone(found, i + 1) => Abs(c.dist - found[k].dist) >= StopSpacing
      BY <3>1 DEF Alone
    <3>3. c.dist - found[k].dist < StopSpacing
      BY <1>4, <2>1, <2>2
    <3> DEFINE x == c.dist
               y == found[k].dist
    <3>4. x \in Nat /\ y \in Nat /\ y <= x /\ x - y < StopSpacing
      BY <1>1a, <2>3, <3>3
    <3> HIDE DEF x, y
    <3>5. ~(Abs(y - x) >= StopSpacing) /\ ~(Abs(x - y) >= StopSpacing)
      BY <1>1a, <3>4 DEF Abs
    <3> QED BY <3>2, <3>5 DEF x, y
  <2>5. CASE w = u
    <3>1. \A m \in 1 .. l : \E j \in 1 .. i + 1 : u[m] = found[j]
      BY <1>2a
    <3>2. ASSUME NEW j \in 1 .. i + 1, Alone(found, j) PROVE \E m \in 1 .. l : u[m] = found[j]
      <4>1. j \in 1 .. i
        BY <1>2, <2>4, <3>2
      <4> QED BY <3>2, <4>1 DEF KeptOf
    <3> HIDE DEF w
    <3>3. IsSpaced(w)
      BY <2>5 DEF KeptOf
    <3>4. Len(w) <= i + 1
      BY <1>1, <1>2a, <2>5
    <3>5. KeptOf(found, i + 1, w)
      BY <2>5, <3>1, <3>2, <3>3, <3>4 DEF KeptOf
    <3> QED BY <3>5 DEF w
  <2>6. CASE w = [u EXCEPT ![l] = c]
    <3>0. [u EXCEPT ![l] = c] \in Seq(C) /\ Len([u EXCEPT ![l] = c]) = l
      <4> HIDE DEF c, l
      <4> QED BY <1>1a, <2>1, ExceptSeq DEF l
    <3>1. Len(w) = l /\ w[l] = c /\ \A m \in 1 .. l : m # l => w[m] = u[m]
      <4>1. Len(w) = l
        BY <2>6, <3>0
      <4>2. l \in DOMAIN u /\ \A m \in 1 .. l : m \in DOMAIN u
        BY <1>1, <2>1
      <4>3. w[l] = c /\ \A m \in 1 .. l : m # l => w[m] = u[m]
        <5> HIDE DEF c, l, w
        <5> QED BY <2>6, <4>2
      <4> QED BY <4>1, <4>3
    <3>1a. Len(w) <= i + 1
      <4>1. Len(w) = l /\ l \in Nat /\ l <= i /\ i \in Nat
        BY <1>1, <1>2a, <3>1
      <4> HIDE DEF w, l
      <4> QED BY <4>1
    <3> HIDE DEF w, l, n, c
    <3>2. ASSUME NEW m \in 1 .. Len(w) PROVE \E j \in 1 .. i + 1 : w[m] = found[j]
      <4>1. CASE m = l
        <5>1. w[m] = found[i + 1]
          BY <3>1, <4>1 DEF c
        <5> QED BY <1>2, <5>1
      <4>2. CASE m # l
        <5> QED BY <1>2a, <3>1, <3>2, <4>2
      <4> QED BY <4>1, <4>2
    <3>3. ASSUME NEW m \in 2 .. Len(w) PROVE w[m].dist - w[m - 1].dist >= StopSpacing
      <4>1. m \in 1 .. l /\ m - 1 \in 1 .. l /\ m - 1 # l /\ m \in 2 .. l
        BY <1>1, <3>1, <3>3
      <4>2. u[m].dist - u[m - 1].dist >= StopSpacing /\ w[m - 1] = u[m - 1]
        BY <3>1, <4>1 DEF KeptOf, IsSpaced, l
      <4>3. u[m].dist \in Nat /\ u[m - 1].dist \in Nat
        BY <1>1, <4>1
      <4>4. CASE m = l
        <5> DEFINE x == c.dist
                   y == u[l].dist
                   z == u[m - 1].dist
        <5>1. x \in Nat /\ y \in Nat /\ z \in Nat /\ y <= x /\ y - z >= StopSpacing
          BY <1>1a, <2>2, <2>3, <4>2, <4>3, <4>4
        <5> HIDE DEF x, y, z
        <5>2. x - z >= StopSpacing
          BY <1>1a, <5>1
        <5> QED BY <3>1, <4>2, <4>4, <5>2 DEF x, z
      <4>5. CASE m # l
        BY <3>1, <4>1, <4>2, <4>5
      <4> QED BY <4>4, <4>5
    <3>4. ASSUME NEW j \in 1 .. i + 1, Alone(found, j) PROVE \E m \in 1 .. Len(w) : w[m] = found[j]
      <4>1. j \in 1 .. i /\ j # k
        BY <1>2, <2>4, <3>4
      <4>2. PICK m \in 1 .. l : u[m] = found[j]
        BY <3>4, <4>1 DEF KeptOf, l
      <4>3. CASE m # l
        BY <3>1, <4>2, <4>3
      <4>4. CASE m = l
        <5>1. found[j] = found[k]
          BY <2>2, <4>2, <4>4
        <5>2. j \in 1 .. n
          BY <1>1, <4>1
        <5> QED BY <2>3, <4>1, <5>1, <5>2 DEF n
      <4> QED BY <4>3, <4>4
    <3>5. KeptOf(found, i + 1, w)
      BY <3>1a, <3>2, <3>3, <3>4 DEF KeptOf, IsSpaced
    <3> QED BY <3>5 DEF w, c
  <2>7. w = u \/ w = [u EXCEPT ![l] = c]
    BY <1>4 DEF KeepSpaced
  <2> QED BY <2>5, <2>6, <2>7
<1>5. \/ w = Append(u, c) /\ (u = <<>> \/ ~(c.dist - Last(u).dist < StopSpacing))
      \/ u # <<>> /\ c.dist - Last(u).dist < StopSpacing
  BY DEF KeepSpaced
<1>6. u # <<>> => Last(u).dist \in Nat
  BY <1>1, EmptySeq, LenProperties DEF Last
<1>7. (u # <<>> /\ ~(c.dist - Last(u).dist < StopSpacing)) => c.dist - Last(u).dist >= StopSpacing
  <2> DEFINE x == c.dist
             y == Last(u).dist
  <2>1. x \in Nat /\ (u # <<>> => y \in Nat)
    BY <1>1a, <1>6
  <2> HIDE DEF x, y
  <2>2. (u # <<>> /\ ~(x - y < StopSpacing)) => x - y >= StopSpacing
    BY <1>1a, <2>1
  <2> QED BY <2>2 DEF x, y
<1> QED BY <1>3, <1>4, <1>5, <1>7

(* All candidates together.                                                *)
LEMMA KeptAll ==
  ASSUME NEW C, \A c \in C : c.dist \in Nat, NEW found \in Seq(C),
         \A i, j \in 1 .. Len(found) : i < j => found[i].dist <= found[j].dist,
         \A i, j \in 1 .. Len(found) : found[i] = found[j] => i = j
  PROVE  /\ FoldLeft(KeepSpaced, <<>>, found) \in Seq(C)
         /\ KeptOf(found, Len(found), FoldLeft(KeepSpaced, <<>>, found))
<1> DEFINE n == Len(found)
<1>1. PICK acc : /\ acc \in [0 .. Len(found) -> Seq(C)] /\ acc[0] = <<>>
                 /\ \A i \in 1 .. Len(found) : acc[i] = KeepSpaced(acc[i - 1], found[i])
                 /\ FoldLeft(KeepSpaced, <<>>, found) = acc[Len(found)]
  BY SpaceSteps
<1> DEFINE P == {i \in 0 .. n : KeptOf(found, i, acc[i])}
<1>2. n \in Nat /\ 0 \in Nat
  BY LenProperties
<1>3. 0 \in P
  <2>1. Len(<<>>) = 0 /\ 0 \in 0 .. n
    BY <1>2, EmptySeq
  <2>2. KeptOf(found, 0, <<>>)
    <3>1. \A m \in 1 .. 0 : FALSE
      OBVIOUS
    <3>2. \A m \in 2 .. 0 : FALSE
      OBVIOUS
    <3> QED BY <2>1, <3>1, <3>2 DEF KeptOf, IsSpaced
  <2> QED BY <1>1, <2>1, <2>2
<1>4. ASSUME NEW i \in 0 .. n - 1, i \in P PROVE i + 1 \in P
  <2>1. i + 1 \in 1 .. n /\ (i + 1) - 1 = i /\ i \in 0 .. n /\ i + 1 \in 0 .. n
    BY <1>2
  <2>2. acc[i + 1] = KeepSpaced(acc[i], found[i + 1]) /\ acc[i] \in Seq(C)
    BY <1>1, <2>1
  <2>3. KeptOf(found, i, acc[i])
    BY <1>4
  <2>4. KeptOf(found, i + 1, KeepSpaced(acc[i], found[i + 1]))
    BY <2>2, <2>3, KeptStep
  <2> QED BY <2>1, <2>2, <2>4
<1>5. \A i \in 0 .. n : i \in P
  <2>1. \A i \in 0 .. n - 1 : i \in P => i + 1 \in P
    <3> HIDE DEF P, n
    <3> QED BY <1>4
  <2> HIDE DEF P, n
  <2> QED BY <1>2, <1>3, <2>1, Upwards
<1>6. n \in 0 .. n
  BY <1>2
<1>7. KeptOf(found, n, acc[n]) /\ acc[n] \in Seq(C)
  BY <1>1, <1>5, <1>6
<1> QED BY <1>1, <1>7

(* Arranging a finite set puts it in its order.                            *)
LEMMA InArrangement ==
  ASSUME NEW S, IsFiniteSet(S), NEW R, StrictOrder(R, S)
  PROVE  IsArranged(Arranged(S, R), R, S)
<1>1. Arranged(S, R) = [i \in 1 .. Cardinality(S) |-> CHOOSE x \in S : Cardinality(Below(R, S, x)) = i - 1]
  BY DEF Arranged, Below
<1> QED BY <1>1, Arrangement

(* Stops apart along a line; candidates near it; that none is left out     *)
(* that is far from all others.                                            *)
OnLine(line, s) == ProjectOntoPolyline(s.at, line)
Apart(line, stops) ==
    \A m \in 2 .. Len(stops) :
        OnLine(line, stops[m]).dist - OnLine(line, stops[m - 1]).dist >= StopSpacing
NearLine(line, candidates) ==
    {i \in DOMAIN candidates : OnLine(line, candidates[i]).offsetSq <= Square(StopBuffer)}
NoneMissed(line, candidates, stops) ==
    \A i \in NearLine(line, candidates) :
        (\A j \in NearLine(line, candidates) \ {i} :
             Abs(OnLine(line, candidates[i]).dist - OnLine(line, candidates[j]).dist) >= StopSpacing)
        => \E m \in DOMAIN stops : stops[m] = candidates[i]

(* Inferred stops are candidates, no more than there are, apart, and none  *)
(* is missed.                                                              *)
LEMMA InferredStops ==
  ASSUME NEW line \in Line, Straight(line), NEW S, NEW candidates \in Seq(S),
         \A i \in 1 .. Len(candidates) : candidates[i].at \in Point
  PROVE  /\ InferStopsAlongLine(line, candidates) \in Seq(S)
         /\ Len(InferStopsAlongLine(line, candidates)) <= Len(candidates)
         /\ Apart(line, InferStopsAlongLine(line, candidates))
         /\ NoneMissed(line, candidates, InferStopsAlongLine(line, candidates))
<1> DEFINE on(i) == ProjectOntoPolyline(candidates[i].at, line)
           near == {i \in DOMAIN candidates : on(i).offsetSq <= Square(StopBuffer)}
           C == {[dist |-> on(i).dist, offsetSq |-> on(i).offsetSq, of |-> i] : i \in near}
           R == {p \in C \X C : p[1].dist < p[2].dist \/ (p[1].dist = p[2].dist /\ p[1].of < p[2].of)}
           byDist == Arranged(C, R)
           kept == FoldLeft(KeepSpaced, <<>>, byDist)
           n == Len(candidates)
           stops == InferStopsAlongLine(line, candidates)
<1>0. n \in Nat /\ DOMAIN candidates = 1 .. n /\ \A i \in 1 .. n : candidates[i] \in S
  OBVIOUS
<1>1. \A i \in 1 .. n : on(i).dist \in Nat
  BY Projected
<1>2. /\ \A c \in C : c.of \in 1 .. n /\ c.dist \in Nat
      /\ \A c, d \in C : c.of = d.of => c = d
      /\ \A c \in C : c.of \in near /\ c.dist = on(c.of).dist
      /\ \A i \in near : \E c \in C : c.of = i
  <2> HIDE DEF on
  <2>1. \A i \in near : i \in 1 .. n
    BY <1>0
  <2> HIDE DEF near
  <2>2. /\ \A c \in C : c.of \in near /\ c.dist = on(c.of).dist
        /\ \A i \in near : \E c \in C : c.of = i
        /\ \A c, d \in C : c.of = d.of => c = d
    <3> DEFINE seen(i) == [dist |-> on(i).dist, offsetSq |-> on(i).offsetSq, of |-> i]
    <3>1. \A i : seen(i).of = i /\ seen(i).dist = on(i).dist
      OBVIOUS
    <3>2. (\A c \in C : \E i \in near : c = seen(i)) /\ \A i \in near : seen(i) \in C
      OBVIOUS
    <3> HIDE DEF C, seen
    <3>3. \A c \in C : c.of \in near /\ c = seen(c.of)
      BY <3>1, <3>2
    <3>4. \A c, d \in C : c.of = d.of => c = d
      BY <3>3
    <3> QED BY <3>1, <3>2, <3>3, <3>4
  <2> HIDE DEF C, n
  <2> QED BY <1>1, <2>1, <2>2
<1>3. IsFiniteSet(C) /\ Cardinality(C) <= n
  <2> DEFINE f == [c \in C |-> c.of]
  <2>1. f \in [C -> 1 .. n] /\ \A c, d \in C : f[c] = f[d] => c = d
    <3> HIDE DEF C
    <3> QED BY <1>2
  <2>2. f \in Injection(C, 1 .. n)
    <3> HIDE DEF f, C
    <3> QED BY <2>1 DEF Injection, IsInjective
  <2>3. IsFiniteSet(1 .. n) /\ Cardinality(1 .. n) = n
    <3> HIDE DEF n
    <3> QED BY <1>0, FS_Interval
  <2> HIDE DEF f, C, n
  <2> QED BY <2>2, <2>3, FS_Injection
<1> HIDE DEF C
<1>4. StrictOrder(R, C)
  <2>1. \A c, d \in C : <<c, d>> \in R <=> (c.dist < d.dist \/ (c.dist = d.dist /\ c.of < d.of))
    OBVIOUS
  <2>2. \A c \in C : c.of \in Int /\ c.dist \in Int
    BY <1>2
  <2> HIDE DEF R
  <2>3. \A c, d, e \in C : (<<c, d>> \in R /\ <<d, e>> \in R) => <<c, e>> \in R
    BY <2>1, <2>2
  <2>4. ASSUME NEW c \in C, NEW d \in C, c # d PROVE <<c, d>> \in R \/ <<d, c>> \in R
    <3>1. c.of # d.of
      BY <1>2, <2>4
    <3>2. c.of \in Int /\ c.dist \in Int /\ d.of \in Int /\ d.dist \in Int
      BY <2>2
    <3>3. \/ c.dist < d.dist \/ (c.dist = d.dist /\ c.of < d.of)
          \/ d.dist < c.dist \/ (d.dist = c.dist /\ d.of < c.of)
      BY <3>1, <3>2
    <3> QED BY <2>1, <3>3
  <2>5. \A c \in C : <<c, c>> \notin R
    BY <2>1, <2>2
  <2> QED BY <2>3, <2>4, <2>5 DEF StrictOrder
<1>6. IsArranged(byDist, R, C)
  <2> HIDE DEF R
  <2> QED BY <1>3, <1>4, InArrangement
<1>7. byDist \in Seq(C) /\ Len(byDist) <= n
  <2> HIDE DEF R, byDist
  <2> QED BY <1>3, <1>6 DEF IsArranged
<1>7a. \A c, d \in C : <<c, d>> \in R => c.dist <= d.dist
  <2>1. \A c \in C : c.dist \in Int
    BY <1>2
  <2> QED BY <2>1
<1>7b. \A c \in C : <<c, c>> \notin R
  <2> HIDE DEF R
  <2> QED BY <1>4 DEF StrictOrder
<1>7c. /\ \A i, j \in 1 .. Len(byDist) : i < j => byDist[i].dist <= byDist[j].dist
       /\ \A i, j \in 1 .. Len(byDist) : byDist[i] = byDist[j] => i = j
       /\ \A x \in C : \E i \in 1 .. Len(byDist) : byDist[i] = x
  <2> HIDE DEF R, byDist
  <2> DEFINE l == Len(byDist)
  <2>1. /\ \A i \in 1 .. l : byDist[i] \in C
        /\ \A i, j \in 1 .. l : i < j <=> <<byDist[i], byDist[j]>> \in R
        /\ l \in Nat
    BY <1>6, <1>7 DEF IsArranged
  <2>2. \A x \in C : \E i \in 1 .. l : byDist[i] = x
    BY <1>6 DEF IsArranged
  <2> HIDE DEF l
  <2>3. ASSUME NEW i \in 1 .. l, NEW j \in 1 .. l, byDist[i] = byDist[j] PROVE i = j
    <3>1. ~(i < j) /\ ~(j < i)
      BY <1>7b, <2>1, <2>3
    <3> QED BY <2>1, <3>1
  <2>4. \A i, j \in 1 .. l : i < j => byDist[i].dist <= byDist[j].dist
    BY <1>7a, <2>1
  <2> QED BY <2>2, <2>3, <2>4 DEF l
<1>7d. kept \in Seq(C) /\ KeptOf(byDist, Len(byDist), kept)
  <2> HIDE DEF byDist
  <2>1. \A c \in C : c.dist \in Nat
    BY <1>2
  <2> QED BY <1>7, <1>7c, <2>1, KeptAll
<1>8. kept \in Seq(C) /\ Len(kept) <= Len(byDist)
  BY <1>7d DEF KeptOf
<1>9. InferStopsAlongLine(line, candidates) = [i \in DOMAIN kept |-> candidates[kept[i].of]]
  BY DEF InferStopsAlongLine, C
<1>10. Len(byDist) \in Nat
  <2> HIDE DEF byDist
  <2> QED BY <1>7
<1> HIDE DEF kept, byDist, R, n
<1>11. [i \in DOMAIN kept |-> candidates[kept[i].of]] \in [1 .. Len(kept) -> S] /\ Len(kept) \in Nat
  <2>1. DOMAIN kept = 1 .. Len(kept) /\ Len(kept) \in Nat /\ \A i \in 1 .. Len(kept) : kept[i] \in C
    BY <1>8
  <2> QED BY <1>0, <1>2, <2>1
<1>12. Len(kept) <= n
  BY <1>0, <1>7, <1>8, <1>10, <1>11
<1>13. InferStopsAlongLine(line, candidates) \in [1 .. Len(kept) -> S]
  BY <1>9, <1>11
<1>14. /\ InferStopsAlongLine(line, candidates) \in Seq(S)
       /\ Len(InferStopsAlongLine(line, candidates)) = Len(kept)
  BY <1>11, <1>13, Sequenced
<1>15. /\ Len(stops) = Len(kept) /\ Len(kept) \in Nat /\ DOMAIN stops = 1 .. Len(kept)
       /\ \A m \in 1 .. Len(kept) : kept[m] \in C /\ stops[m] = candidates[kept[m].of]
  <2>1. DOMAIN kept = 1 .. Len(kept) /\ \A m \in 1 .. Len(kept) : kept[m] \in C
    BY <1>8, <1>11
  <2> QED BY <1>9, <1>11, <1>14, <2>1
<1>16. \A m \in 1 .. Len(kept) : OnLine(line, stops[m]).dist = kept[m].dist
  BY <1>2, <1>15 DEF OnLine
<1> HIDE DEF stops
<1>17. Apart(line, stops)
  <2>1. SUFFICES ASSUME NEW m \in 2 .. Len(kept)
                 PROVE OnLine(line, stops[m]).dist - OnLine(line, stops[m - 1]).dist >= StopSpacing
    BY <1>15 DEF Apart
  <2>2. m \in 1 .. Len(kept) /\ m - 1 \in 1 .. Len(kept)
    BY <1>15
  <2>3. kept[m].dist - kept[m - 1].dist >= StopSpacing
    BY <1>7d DEF KeptOf, IsSpaced
  <2> QED BY <1>16, <2>2, <2>3
<1>18. NoneMissed(line, candidates, stops)
  <2>1. SUFFICES ASSUME NEW i \in near,
                        \A j \in near \ {i} : Abs(on(i).dist - on(j).dist) >= StopSpacing
                 PROVE \E m \in 1 .. Len(kept) : stops[m] = candidates[i]
    BY <1>15 DEF NoneMissed, NearLine, OnLine
  <2>2. PICK c \in C : c.of = i
    BY <1>2
  <2>3. PICK k \in 1 .. Len(byDist) : byDist[k] = c
    BY <1>7c
  <2>4. DOMAIN byDist = 1 .. Len(byDist) /\ \A h \in 1 .. Len(byDist) : byDist[h] \in C
    BY <1>7
  <2>5. Alone(byDist, k)
    <3>1. SUFFICES ASSUME NEW h \in 1 .. Len(byDist), h # k
                   PROVE Abs(byDist[k].dist - byDist[h].dist) >= StopSpacing
      BY <2>4 DEF Alone
    <3>2. byDist[h] \in C /\ byDist[h] # c
      BY <1>7c, <2>3, <2>4, <3>1
    <3>3. byDist[h].of \in near \ {i}
      BY <1>2, <2>2, <3>2
    <3>4. byDist[h].dist = on(byDist[h].of).dist /\ byDist[k].dist = on(i).dist
      BY <1>2, <2>2, <2>3, <3>2
    <3> HIDE DEF on, near
    <3> QED BY <2>1, <3>3, <3>4
  <2>6. PICK m \in 1 .. Len(kept) : kept[m] = byDist[k]
    BY <1>7d, <2>5 DEF KeptOf
  <2> QED BY <1>15, <2>2, <2>3, <2>6
<1> QED BY <1>12, <1>14, <1>17, <1>18 DEF n, stops

(* A direction the snapshot may have.                                      *)
IsDirection(r) ==
    /\ r.line \in Line /\ Straight(r.line) /\ r.total = LineLength(r.line) /\ r.total \in Nat
    /\ Len(r.stops) \in Nat /\ Len(r.stops) >= 2 /\ DOMAIN r.stops = 1 .. Len(r.stops)
    /\ \A i \in 1 .. Len(r.stops) : r.stops[i].dist \in 0 .. r.total /\ r.stops[i].dist \in Nat
    /\ DOMAIN r.segs = 1 .. Len(r.stops) - 1 /\ Len(r.segs) = Len(r.stops) - 1
    /\ \A i \in DOMAIN r.segs : r.segs[i].avgSpeed \in Nat \cup {NoBaseline}

(* The rows of a direction.                                                *)
HasRows(r, line, stops, avg) ==
    /\ r.line = line /\ r.total = LineLength(line)
    /\ Len(r.stops) = Len(stops) /\ DOMAIN r.stops = 1 .. Len(stops) /\ Len(stops) \in Nat
    /\ \A i \in 1 .. Len(stops) : /\ r.stops[i].id = stops[i].id /\ r.stops[i].at = stops[i].at
                                  /\ r.stops[i].dist = ProjectOntoPolyline(stops[i].at, line).dist
    /\ Len(r.segs) = Len(stops) - 1 /\ DOMAIN r.segs = 1 .. Len(stops) - 1
    /\ \A i \in 1 .. Len(stops) - 1 :
          /\ r.segs[i].length = Abs(r.stops[i + 1].dist - r.stops[i].dist)
          /\ r.segs[i].avgSpeed = avg[i]

(* The rows of a direction, read off its line, stops and speeds.           *)
LEMMA Rows ==
  ASSUME NEW line, NEW S, NEW stops \in Seq(S), Len(stops) >= 1, NEW avg
  PROVE  HasRows(DirectionOf(line, stops, avg), line, stops, avg)
<1> DEFINE r == DirectionOf(line, stops, avg)
           n == Len(stops)
           at(i) == ProjectOntoPolyline(stops[i].at, line).dist
           rows == [i \in DOMAIN stops |-> [id |-> stops[i].id, named |-> stops[i].named,
                                            at |-> stops[i].at, dist |-> at(i)]]
           segs == [i \in 1 .. n - 1 |-> [length |-> Abs(at(i + 1) - at(i)), avgSpeed |-> avg[i]]]
<1>1. n \in Nat /\ DOMAIN stops = 1 .. n /\ n - 1 \in Nat
  OBVIOUS
<1>2. r.line = line /\ r.total = LineLength(line) /\ r.stops = rows /\ r.segs = segs
  BY DEF DirectionOf
<1>3. Len(rows) = n /\ DOMAIN rows = 1 .. n
  <2>1. rows \in [1 .. n -> {rows[i] : i \in 1 .. n}]
    BY <1>1
  <2> HIDE DEF rows, n
  <2> QED BY <1>1, <2>1, Sequenced
<1>4. Len(segs) = n - 1 /\ DOMAIN segs = 1 .. n - 1
  <2>1. segs \in [1 .. n - 1 -> {segs[i] : i \in 1 .. n - 1}]
    BY <1>1
  <2> HIDE DEF segs, n
  <2> QED BY <1>1, <2>1, Sequenced
<1>5. \A i \in 1 .. n : rows[i].id = stops[i].id /\ rows[i].at = stops[i].at /\ rows[i].dist = at(i)
  BY <1>1
<1>6. \A i \in 1 .. n - 1 : segs[i].length = Abs(at(i + 1) - at(i)) /\ segs[i].avgSpeed = avg[i]
  OBVIOUS
<1>7. \A i \in 1 .. n - 1 : i \in 1 .. n /\ i + 1 \in 1 .. n
  BY <1>1
<1> HIDE DEF r, rows, segs, n
<1>8. \A i \in 1 .. n - 1 : segs[i].length = Abs(rows[i + 1].dist - rows[i].dist)
  BY <1>5, <1>6, <1>7
<1>9. HasRows(r, line, stops, avg)
  BY <1>1, <1>2, <1>3, <1>4, <1>5, <1>6, <1>8 DEF n, HasRows
<1> QED BY <1>9 DEF r

(* What DirectionOf makes of a line and stops on it.                       *)
LEMMA Directed ==
  ASSUME NEW line \in Line, Straight(line), NEW S, NEW stops \in Seq(S), Len(stops) >= 2,
         \A i \in 1 .. Len(stops) : stops[i].at \in Point,
         NEW avg, \A i \in 1 .. Len(stops) - 1 : avg[i] \in Nat \cup {NoBaseline}
  PROVE  IsDirection(DirectionOf(line, stops, avg))
<1> DEFINE r == DirectionOf(line, stops, avg)
           n == Len(stops)
<1>1. n \in Nat
  OBVIOUS
<1>2. /\ r.line = line /\ r.total = LineLength(line)
      /\ Len(r.stops) = n /\ DOMAIN r.stops = 1 .. n
      /\ \A i \in 1 .. n : r.stops[i].dist = ProjectOntoPolyline(stops[i].at, line).dist
      /\ Len(r.segs) = n - 1 /\ DOMAIN r.segs = 1 .. n - 1
      /\ \A i \in 1 .. n - 1 : r.segs[i].avgSpeed = avg[i]
  <2>1. HasRows(r, line, stops, avg)
    BY <1>1, Rows
  <2> HIDE DEF r
  <2> QED BY <2>1 DEF HasRows
<1>3. LineLength(line) \in Nat
  <2>1. Len(line) \in 1 .. Len(line)
    BY Points
  <2> QED BY <2>1, Lengths DEF LineLength
<1>4. \A i \in 1 .. n : /\ ProjectOntoPolyline(stops[i].at, line).dist \in Nat
                        /\ ProjectOntoPolyline(stops[i].at, line).dist \in 0 .. LineLength(line)
  BY Projected
<1> HIDE DEF r
<1>5. \A i \in 1 .. n : r.stops[i].dist \in Nat /\ r.stops[i].dist \in 0 .. r.total
  BY <1>2, <1>4
<1>6. \A i \in DOMAIN r.segs : r.segs[i].avgSpeed \in Nat \cup {NoBaseline}
  BY <1>2
<1>7. IsDirection(r)
  BY <1>1, <1>2, <1>3, <1>5, <1>6 DEF IsDirection
<1> QED BY <1>7 DEF r

(* The lines of the relations ingested.                                    *)
LEMMA StraightLines ==
  ASSUME NEW rel \in Relations, UsableWays(rel.ways) # <<>>
  PROVE  StitchWays(rel.ways) \in Line /\ Straight(StitchWays(rel.ways))
<1>1. rel.ways \in Seq(Seq(Point))
  BY MapAssumption
<1>2. Straight(StitchWays(rel.ways))
  BY AxisParallelAssumption DEF Straight
<1> QED BY <1>1, <1>2, StitchedLine

(* A direction has a straight line and stops among those given.            *)
MadeOf(r, all, v) ==
    \E line \in Line, stops \in Seq(all) : \E avg :
       /\ Straight(line) /\ Len(stops) >= 2
       /\ \A i \in 1 .. Len(stops) : stops[i].at \in Point
       /\ \A i \in 1 .. Len(stops) - 1 : avg[i] = v
       /\ r = DirectionOf(line, stops, avg)

(* What is ingested is a direction made of some line and some of the stops *)
(* given.                                                                  *)
LEMMA Origin ==
  ASSUME NEW rel \in Relations, NEW v, NEW avg, avg = [i \in 1 .. Len(rel.stops) + Len(Candidates) |-> v]
  PROVE  \/ ReconcileOne(rel, Candidates, avg) = Rejected
         \/ MadeOf(ReconcileOne(rel, Candidates, avg), Range(rel.stops) \cup Range(Candidates), v)
<1> DEFINE m == Len(rel.stops)
           c == Len(Candidates)
           A == Range(rel.stops)
           B == Range(Candidates)
           line == StitchWays(rel.ways)
           explicit == StopsFromMembers(rel.stops)
           inferred == InferStopsAlongLine(line, Candidates)
           Fits(stops) == /\ stops \in Seq(A \cup B) /\ Len(stops) <= m + c
                          /\ \A i \in 1 .. Len(stops) : stops[i].at \in Point
<1>1. /\ rel.stops \in Seq(A) /\ m \in Nat /\ Candidates \in Seq(B) /\ c \in Nat
      /\ \A s \in A : s.at \in Point
      /\ \A s \in B : s.at \in Point
  BY MapAssumption
<1>2. SUFFICES ASSUME UsableWays(rel.ways) # <<>>, ReconcileOne(rel, Candidates, avg) # Rejected
               PROVE  MadeOf(ReconcileOne(rel, Candidates, avg), A \cup B, v)
  BY DEF ReconcileOne
<1>3. line \in Line /\ Straight(line)
  BY <1>2, StraightLines
<1>4. Fits(explicit)
  <2>1. explicit \in Seq(A) /\ Len(explicit) <= m
    BY <1>1, MembersKept
  <2> HIDE DEF explicit, m, c, A, B
  <2>2. Len(explicit) \in Nat /\ \A i \in 1 .. Len(explicit) : explicit[i] \in A
    BY <2>1
  <2>3. explicit \in Seq(A \cup B)
    BY <2>1
  <2> QED BY <1>1, <2>1, <2>2, <2>3
<1>5. Fits(inferred)
  <2>1. \A i \in 1 .. c : Candidates[i].at \in Point
    <3>1. \A i \in 1 .. c : Candidates[i] \in B
      BY <1>1
    <3> QED BY <1>1, <3>1
  <2>2. inferred \in Seq(B) /\ Len(inferred) <= c
    <3> HIDE DEF line, B
    <3> QED BY <1>1, <1>3, <2>1, InferredStops
  <2> HIDE DEF inferred, m, c, A, B
  <2>3. Len(inferred) \in Nat /\ \A i \in 1 .. Len(inferred) : inferred[i] \in B
    BY <2>2
  <2>4. inferred \in Seq(A \cup B)
    BY <2>2
  <2> QED BY <1>1, <2>2, <2>3, <2>4
<1>6. PICK stops \in {explicit, inferred} :
        Len(stops) >= 2 /\ ReconcileOne(rel, Candidates, avg) = DirectionOf(line, stops, avg)
  BY <1>2 DEF ReconcileOne, RouteFromRelation, RouteWithInferredStops
<1>7. Fits(stops)
  BY <1>4, <1>5, <1>6
<1> HIDE DEF explicit, inferred, line, A, B
<1>8. \A i \in 1 .. Len(stops) - 1 : avg[i] = v
  <2>1. Len(stops) \in Nat
    BY <1>7
  <2>2. \A i \in 1 .. Len(stops) - 1 : i \in 1 .. m + c
    BY <1>1, <1>7, <2>1
  <2> QED BY <2>2
<1> QED BY <1>3, <1>6, <1>7, <1>8 DEF MadeOf

(* Whatever a relation holds, it is rejected or becomes a direction.       *)
LEMMA Ingested ==
  ASSUME NEW rel \in Relations, NEW v \in AvgSpeeds,
         NEW avg, avg = [i \in 1 .. Len(rel.stops) + Len(Candidates) |-> v]
  PROVE  LET r == ReconcileOne(rel, Candidates, avg) IN r = Rejected \/ IsDirection(r)
<1> DEFINE r == ReconcileOne(rel, Candidates, avg)
<1>1. SUFFICES ASSUME r # Rejected PROVE IsDirection(r)
  OBVIOUS
<1>2. MadeOf(r, Range(rel.stops) \cup Range(Candidates), v)
  BY <1>1, Origin
<1> DEFINE all == Range(rel.stops) \cup Range(Candidates)
<1> HIDE DEF r
<1>3a0. PICK line \in Line, stops \in Seq(all) : \E speeds :
        /\ Straight(line) /\ Len(stops) >= 2
        /\ \A i \in 1 .. Len(stops) : stops[i].at \in Point
        /\ \A i \in 1 .. Len(stops) - 1 : speeds[i] = v
        /\ r = DirectionOf(line, stops, speeds)
  BY <1>2 DEF MadeOf
<1>3. PICK speeds :
        /\ Straight(line) /\ Len(stops) >= 2
        /\ \A i \in 1 .. Len(stops) : stops[i].at \in Point
        /\ \A i \in 1 .. Len(stops) - 1 : speeds[i] = v
        /\ r = DirectionOf(line, stops, speeds)
  BY <1>3a0
<1> HIDE DEF all
<1>4. \A i \in 1 .. Len(stops) - 1 : speeds[i] \in Nat \cup {NoBaseline}
  BY <1>3, MapAssumption
<1> QED BY <1>3, <1>4, Directed

(***************************************************************************)
(***************************************************************************)
(* The invariant: what is said of the last report, of what the tasks have  *)
(* taken up and of each update on its way or shown.                        *)
(***************************************************************************)

RowOK(row) ==
    /\ row.at \in Fixes /\ row.speed \in Speeds
    /\ row.dist = MapMatch(row.at).dist /\ row.dist \in Nat
    /\ row.next = MapMatch(row.at).next /\ row.next \in Stop
    /\ row.name \in Stop
    /\ route # Rejected => row.dist \in 0 .. route.total

(* A report is taken up at once, a row by the scoring loop while it is     *)
(* live and by the watchdog when it is not any more.                       *)
WorkOK(w) ==
    /\ RowOK(w.row) /\ w.age \in 0 .. MaxAge
    /\ \/ w.by = "ping" /\ w.age = 0
       \/ w.by = "score" /\ w.age <= LiveMax /\ BuildQuery(w.row.dist) # <<>>
       \/ w.by = "watch" /\ w.age > LiveMax

(* Where the watchdog has the bus b seconds after a report.                *)
DrivenIn(row, b) == Min({row.dist + IntegratedDistance(row.speed, HistoricalSpeed(row), b), route.total})

OfPing(u) == u.at = u.row.at /\ u.dist = u.row.dist

OfScore(u) ==
    /\ u.dist = u.row.dist
    /\ u.next = BuildQuery(u.row.dist)[1] /\ u.eta = u.next
    /\ u.name = NameOf(u.next)
    /\ u.toStop = IF route.stops[u.next].dist > u.row.dist
                  THEN route.stops[u.next].dist - u.row.dist ELSE 0

OfWatch(u) ==
    /\ u.eta # NoStop => u.next = u.eta /\ (route.stops[u.eta].named => u.name = u.eta)
    /\ route = Rejected => u.dist = u.row.dist
    /\ route # Rejected => /\ u.dist = DrivenIn(u.row, u.age)
                           /\ u.dist \in 0 .. route.total
                           /\ u.at = PointAtDistance(route.line, u.dist)

UpdateOK(u) ==
    /\ WorkOK(u)
    /\ {u.next, u.name, u.eta} \subseteq Stop /\ u.dist \in Nat /\ u.toStop \in Nat
    /\ u.by = "ping" => OfPing(u)
    /\ u.by = "score" => OfScore(u)
    /\ u.by = "watch" => OfWatch(u)

InHand == {task[t] : t \in Task}
Sent == Range(queue) \cup {shown}

CachedScores ==
    /\ etas \in Seq(Stop \ {NoStop})
    /\ mirror \in [stops : Seq(Stop \ {NoStop}), ttl : 0 .. EtaTtl]

ProgressInv ==
    /\ relation \in Relations /\ age \in 0 .. MaxAge /\ reports \in 0 .. MaxReports
    /\ route = Rejected \/ IsDirection(route)
    /\ CachedScores
    /\ \A row \in {last} : row = NoFix \/ RowOK(row)
    /\ \A w \in InHand : w = Idle \/ WorkOK(w)
    /\ queue \in Seq(Range(queue)) /\ Len(queue) <= MaxQueue
    /\ \A u \in Sent : u = Nothing \/ UpdateOK(u)


(* The stops of the direction followed.                                    *)
LEMMA Stops ==
  ASSUME IsDirection(route)
  PROVE  /\ route # Rejected
         /\ Stop = 0 .. Len(route.stops) /\ Stop \ {NoStop} = 1 .. Len(route.stops)
         /\ \A d \in Nat : /\ NextStopFrom(route, d).stop \in 1 .. Len(route.stops)
                           /\ NextStopFrom(route, d).dist \in Nat
<1>1. route # Rejected
  BY DEF IsDirection, Rejected
<1>2. Len(route.stops) \in Nat /\ Len(route.stops) >= 1 /\ DOMAIN route.stops = 1 .. Len(route.stops)
      /\ \A i \in 1 .. Len(route.stops) : route.stops[i].dist \in Nat
  BY DEF IsDirection
<1>3. \A d \in Nat : /\ NextStopFrom(route, d).stop \in 1 .. Len(route.stops)
                     /\ NextStopFrom(route, d).dist \in Nat
  BY <1>2, NextStop
<1>4. Stop = {NoStop} \cup 1 .. Len(route.stops)
  BY <1>1, <1>2 DEF Stop
<1>5. Stop = 0 .. Len(route.stops) /\ Stop \ {NoStop} = 1 .. Len(route.stops)
  BY <1>2, <1>4 DEF NoStop
<1> QED BY <1>1, <1>3, <1>5

(* Names and fallbacks are stops.                                          *)
LEMMA StopKinds ==
  ASSUME route = Rejected \/ IsDirection(route)
  PROVE  /\ NoStop \in Stop
         /\ \A s \in Stop : NameOf(s) \in Stop
         /\ \A s, t \in Stop : OrElse(s, t) \in Stop
BY DEF Stop, NameOf, OrElse

(* A report is matched to a distance on the line and the stop ahead of it. *)
LEMMA Matched ==
  ASSUME route = Rejected \/ IsDirection(route), NEW fix \in Point
  PROVE  /\ MapMatch(fix).dist \in Nat /\ MapMatch(fix).next \in Stop /\ MapMatch(fix).toStop \in Nat
         /\ route # Rejected =>
              /\ MapMatch(fix).dist = ProjectOntoPolyline(fix, route.line).dist
              /\ MapMatch(fix).dist \in 0 .. route.total
              /\ MapMatch(fix).next = NextStopFrom(route, MapMatch(fix).dist).stop
<1>1. CASE route = Rejected
  <2>1. MapMatch(fix) = [dist |-> 0, next |-> NoStop, toStop |-> 0]
    BY <1>1 DEF MapMatch
  <2> QED BY <1>1, <2>1 DEF Stop
<1>2. CASE IsDirection(route)
  <2> DEFINE d == ProjectOntoPolyline(fix, route.line).dist
  <2>1. route # Rejected
    BY <1>2, Stops
  <2>2. MapMatch(fix) = [dist |-> d, next |-> NextStopFrom(route, d).stop,
                         toStop |-> NextStopFrom(route, d).dist]
    BY <2>1 DEF MapMatch
  <2>3. d \in Nat /\ d \in 0 .. route.total
    BY <1>2, Projected DEF IsDirection
  <2> HIDE DEF d
  <2>4. NextStopFrom(route, d).stop \in Stop /\ NextStopFrom(route, d).dist \in Nat
    BY <1>2, <2>3, Stops
  <2>5. MapMatch(fix).dist = d
    BY <2>2
  <2> QED BY <2>2, <2>3, <2>4, <2>5 DEF d
<1> QED BY <1>1, <1>2

(* The first stop scored is the stop the report handler calls the next,    *)
(* once the bus has passed the first.                                      *)
LEMMA Scored ==
  ASSUME route = Rejected \/ IsDirection(route), NEW d \in Nat, BuildQuery(d) # <<>>
  PROVE  /\ IsDirection(route)
         /\ BuildQuery(d) \in Seq(Stop \ {NoStop}) /\ BuildQuery(d)[1] \in Stop \ {NoStop}
         /\ d > route.stops[1].dist =>
              /\ BuildQuery(d)[1] = NextStopFrom(route, d).stop
              /\ route.stops[BuildQuery(d)[1]].dist >= d
              /\ NextStopFrom(route, d).dist = route.stops[BuildQuery(d)[1]].dist - d
<1> DEFINE notPassed == {i \in DOMAIN route.segs : d <= ToDist(route, i)}
           from == Min(notPassed)
           to == Min({from + Upcoming - 1, Len(route.segs)})
           n == Len(route.stops)
<1>1. notPassed # {} /\ BuildQuery(d) = [i \in 1 .. to - from + 1 |-> from + i]
  BY DEF BuildQuery, ScoredFrom
<1>2. IsDirection(route)
  <2>1. CASE route = Rejected
    <3>1. DOMAIN route.segs = {}
      BY <2>1 DEF Rejected
    <3> QED BY <1>1, <3>1
  <2> QED BY <2>1
<1>3. n \in Nat /\ n >= 2 /\ DOMAIN route.segs = 1 .. n - 1 /\ Len(route.segs) = n - 1
      /\ \A i \in 1 .. n : route.stops[i].dist \in Nat
  BY <1>2 DEF IsDirection
<1>3a. \A i \in 1 .. n - 1 : ToDist(route, i) = route.stops[i + 1].dist
  BY DEF ToDist
<1> HIDE DEF n
<1>4. notPassed \in SUBSET Nat
  BY <1>3
<1>5. from \in notPassed /\ \A y \in notPassed : from <= y
  <2> HIDE DEF notPassed
  <2> QED BY <1>1, <1>4, MinNat
<1>6. from \in 1 .. n - 1 /\ d <= route.stops[from + 1].dist
      /\ \A j \in 1 .. n - 1 : d <= route.stops[j + 1].dist => from <= j
  BY <1>3, <1>3a, <1>5
<1> HIDE DEF notPassed, from
<1>7. to \in Int /\ to <= n - 1
  <2>1. from + Upcoming - 1 \in Int /\ n - 1 \in Int
    BY <1>3, <1>6, ThresholdAssumption
  <2>2. to = IF from + Upcoming - 1 <= n - 1 THEN from + Upcoming - 1 ELSE n - 1
    BY <1>3, <2>1, MinTwo
  <2> QED BY <2>1, <2>2
<1> HIDE DEF to
<1> DEFINE m == to - from + 1
<1>8. m \in Int /\ m <= n - from
  BY <1>3, <1>6, <1>7
<1>9. m >= 1
  <2>1. SUFFICES ASSUME m <= 0 PROVE FALSE
    BY <1>8
  <2>2. 1 .. m = {}
    BY <1>8, <2>1
  <2>3. BuildQuery(d) = [i \in {} |-> from + i]
    BY <1>1, <2>2
  <2>4. BuildQuery(d) = <<>>
    BY <2>3, <1>1
  <2> QED BY <2>4
<1>10. BuildQuery(d) \in [1 .. m -> Stop \ {NoStop}]
  <2>1. \A i \in 1 .. m : from + i \in 1 .. n
    BY <1>3, <1>6, <1>8
  <2>2. Stop \ {NoStop} = 1 .. n
    BY <1>2, Stops DEF n
  <2> HIDE DEF m
  <2>3. BuildQuery(d) = [i \in 1 .. m |-> from + i]
    BY <1>1 DEF m
  <2> QED BY <2>1, <2>2, <2>3
<1>11. BuildQuery(d) \in Seq(Stop \ {NoStop})
  <2>1. m \in Nat
    BY <1>8, <1>9
  <2> HIDE DEF m
  <2> QED BY <1>10, <2>1, Sequenced
<1>12. BuildQuery(d)[1] = from + 1 /\ BuildQuery(d)[1] \in Stop \ {NoStop}
  <2>1. 1 \in 1 .. m
    BY <1>8, <1>9
  <2>2. BuildQuery(d)[1] = from + 1
    BY <1>1, <2>1
  <2> HIDE DEF m
  <2> QED BY <1>10, <2>1, <2>2
<1>13. ASSUME d > route.stops[1].dist
       PROVE  /\ from + 1 = NextStopFrom(route, d).stop
              /\ route.stops[from + 1].dist >= d
              /\ NextStopFrom(route, d).dist = route.stops[from + 1].dist - d
  <2> DEFINE s == NextStopFrom(route, d).stop
  <2>1. from + 1 \in 1 .. n /\ route.stops[from + 1].dist >= d /\ DOMAIN route.stops = 1 .. n
    BY <1>2, <1>3, <1>6 DEF IsDirection, n
  <2>2. /\ s \in 1 .. n /\ s <= from + 1 /\ route.stops[s].dist >= d
        /\ NextStopFrom(route, d).dist = route.stops[s].dist - d
    <3>1. Len(route.stops) = n /\ n >= 1
      BY <1>3 DEF n
    <3>2. \E i \in 1 .. n : route.stops[i].dist >= d
      BY <2>1
    <3> HIDE DEF s
    <3>3. /\ s \in 1 .. n /\ (\A i \in 1 .. n : route.stops[i].dist >= d => s <= i)
          /\ route.stops[s].dist >= d /\ NextStopFrom(route, d).dist = route.stops[s].dist - d
      BY <1>3, <2>1, <3>1, <3>2, NextStop DEF s
    <3> QED BY <2>1, <3>3
  <2> HIDE DEF s
  <2>3. s # 1
    BY <1>3, <1>13, <2>2
  <2>4. s - 1 \in 1 .. n - 1 /\ (s - 1) + 1 = s
    BY <1>3, <2>2, <2>3
  <2>5. from <= s - 1
    BY <1>6, <2>2, <2>4
  <2>6. s = from + 1
    BY <1>6, <2>2, <2>5
  <2> QED BY <2>1, <2>2, <2>6 DEF s
<1> QED BY <1>2, <1>11, <1>12, <1>13

(* An estimate is on the line, not before the last report, and advances    *)
(* with age.                                                               *)
LEMMA Drives ==
  ASSUME IsDirection(route), NEW row, row.dist \in 0 .. route.total, row.speed \in Speeds
  PROVE  /\ \A b \in Nat : DrivenIn(row, b) \in 0 .. route.total /\ DrivenIn(row, b) >= row.dist
         /\ \A b, c \in Nat : b <= c => DrivenIn(row, b) <= DrivenIn(row, c)
<1> DEFINE n == Len(route.stops)
           covering == {i \in DOMAIN route.segs : row.dist <= ToDist(route, i)}
           T == route.total
           D == row.dist
<1>1. n \in Nat /\ n >= 2 /\ DOMAIN route.segs = 1 .. n - 1 /\ Len(route.segs) = n - 1
      /\ (\A i \in DOMAIN route.segs : route.segs[i].avgSpeed \in Nat \cup {NoBaseline})
      /\ T \in Nat /\ D \in 0 .. T /\ D \in Nat /\ row.speed \in Nat
  <2>1. D \in 0 .. T /\ T \in Nat
    BY DEF IsDirection
  <2>2. D \in Nat
    <3> HIDE DEF D, T
    <3> QED BY <2>1
  <2>3. row.speed \in Nat
    BY MapAssumption
  <2> QED BY <2>1, <2>2, <2>3 DEF IsDirection
<1> HIDE DEF n
<1>2. FindSegmentAtDistance(route, row.dist) \in DOMAIN route.segs
  <2>1. FindSegmentAtDistance(route, row.dist) = IF covering = {} THEN Len(route.segs) ELSE Min(covering)
    BY DEF FindSegmentAtDistance
  <2>2. covering \in SUBSET Nat /\ covering \subseteq DOMAIN route.segs /\ n - 1 \in DOMAIN route.segs
    BY <1>1
  <2> HIDE DEF covering
  <2> QED BY <1>1, <2>1, <2>2, MinNat
<1>3. HistoricalSpeed(row) \in Nat
  <2> DEFINE avg == route.segs[FindSegmentAtDistance(route, row.dist)].avgSpeed
  <2>1. avg \in Nat \cup {NoBaseline}
    BY <1>1, <1>2
  <2>2. HistoricalSpeed(row) = IF avg = NoBaseline THEN row.speed ELSE avg
    BY DEF HistoricalSpeed
  <2> HIDE DEF avg
  <2> QED BY <1>1, <2>1, <2>2
<1> DEFINE F(b) == IntegratedDistance(row.speed, HistoricalSpeed(row), b)
<1>4. \A b \in Nat : F(b) \in Nat /\ \A c \in Nat : b <= c => F(b) <= F(c)
  BY <1>1, <1>3, Driven
<1>5. \A b \in Nat : DrivenIn(row, b) = Min({D + F(b), T})
  BY DEF DrivenIn
<1> HIDE DEF F, D, T
<1>6. \A b \in Nat : DrivenIn(row, b) = IF D + F(b) <= T THEN D + F(b) ELSE T
  <2>1. ASSUME NEW b \in Nat PROVE DrivenIn(row, b) = IF D + F(b) <= T THEN D + F(b) ELSE T
    <3>1. D + F(b) \in Int /\ T \in Int
      BY <1>1, <1>4
    <3> QED BY <1>5, <3>1, MinTwo
  <2> QED BY <2>1
<1>7. ASSUME NEW b \in Nat PROVE DrivenIn(row, b) \in 0 .. T /\ DrivenIn(row, b) >= D
  <2> DEFINE f == F(b)
  <2>1. f \in Nat /\ DrivenIn(row, b) = IF D + f <= T THEN D + f ELSE T
    BY <1>4, <1>6
  <2> HIDE DEF f
  <2>2. D \in Nat /\ T \in Nat /\ D <= T
    BY <1>1
  <2> QED BY <2>1, <2>2
<1>8. ASSUME NEW b \in Nat, NEW c \in Nat, b <= c PROVE DrivenIn(row, b) <= DrivenIn(row, c)
  <2> DEFINE f == F(b)
             g == F(c)
  <2>1. f \in Nat /\ g \in Nat /\ f <= g
    BY <1>4, <1>8
  <2>2. DrivenIn(row, b) = (IF D + f <= T THEN D + f ELSE T) /\ DrivenIn(row, c) = (IF D + g <= T THEN D + g ELSE T)
    BY <1>6
  <2> HIDE DEF f, g
  <2>3. D \in Nat /\ T \in Nat /\ D <= T
    BY <1>1
  <2> QED BY <2>1, <2>2, <2>3
<1> QED BY <1>7, <1>8 DEF D, T

(* What the watchdog computes of a row.                                    *)
LEMMA Estimated ==
  ASSUME route = Rejected \/ IsDirection(route), NEW row, RowOK(row), NEW a \in Nat
  PROVE  /\ EstimatePosition(row, a).dist \in Nat /\ EstimatePosition(row, a).toStop \in Nat
         /\ EstimatePosition(row, a).name \in Stop
         /\ route = Rejected => EstimatePosition(row, a).dist = row.dist
         /\ route # Rejected =>
              /\ DrivenIn(row, a) \in 0 .. route.total
              /\ EstimatePosition(row, a).dist = DrivenIn(row, a)
              /\ EstimatePosition(row, a).at = PointAtDistance(route.line, DrivenIn(row, a))
<1>1. CASE route = Rejected
  <2>1. EstimatePosition(row, a) =
          [tier |-> "stale", at |-> row.at, dist |-> row.dist, toStop |-> 0, name |-> row.name]
    BY <1>1 DEF EstimatePosition
  <2> QED BY <1>1, <2>1 DEF RowOK
<1>2. CASE IsDirection(route)
  <2> DEFINE d == DrivenIn(row, a)
             ahead == NextStopFrom(route, d)
  <2>1. route # Rejected
    BY <1>2, Stops
  <2>2. EstimatePosition(row, a) =
          [tier |-> ClassifyAge(a), at |-> PointAtDistance(route.line, d), dist |-> d,
           toStop |-> ahead.dist, name |-> OrElse(NameOf(ahead.stop), row.name)]
    BY <2>1 DEF EstimatePosition, DrivenIn
  <2>3. row.dist \in 0 .. route.total /\ row.speed \in Speeds /\ row.name \in Stop
    BY <2>1 DEF RowOK
  <2>4. d \in 0 .. route.total
    BY <1>2, <2>3, Drives
  <2>5. d \in Nat
    BY <1>2, <2>4 DEF IsDirection
  <2> HIDE DEF d
  <2>6. ahead.dist \in Nat /\ ahead.stop \in Stop
    BY <1>2, <2>5, Stops
  <2> HIDE DEF ahead
  <2>7. OrElse(NameOf(ahead.stop), row.name) \in Stop
    BY <2>3, <2>6, StopKinds
  <2>8. /\ EstimatePosition(row, a).dist = d /\ EstimatePosition(row, a).toStop = ahead.dist
        /\ EstimatePosition(row, a).name = OrElse(NameOf(ahead.stop), row.name)
        /\ EstimatePosition(row, a).at = PointAtDistance(route.line, d)
    BY <2>2
  <2> QED BY <2>1, <2>4, <2>5, <2>6, <2>7, <2>8 DEF d
<1> QED BY <1>1, <1>2

(* The stop scored first, in either cache.                                 *)
LEMMA Firsts ==
  ASSUME route = Rejected \/ IsDirection(route), CachedScores
  PROVE  FirstOf(etas) \in Stop /\ FirstOf(mirror.stops) \in Stop
<1>1. NoStop \in Stop /\ etas \in Seq(Stop \ {NoStop}) /\ mirror.stops \in Seq(Stop \ {NoStop})
  BY StopKinds DEF CachedScores
<1>2. ASSUME NEW S, NEW s \in Seq(S), s # <<>> PROVE s[1] \in S
  BY <1>2
<1> QED BY <1>1, <1>2 DEF FirstOf

(* What the report handler sends of a row it has taken up.                 *)
LEMMA PingSent ==
  ASSUME route = Rejected \/ IsDirection(route), NEW w, WorkOK(w), w.by = "ping", NEW cached \in Stop
  PROVE  UpdateOK(PingUpdate(w, cached))
<1> DEFINE u == PingUpdate(w, cached)
           m == MapMatch(w.row.at)
<1>1. u = [by |-> w.by, row |-> w.row, age |-> w.age, tier |-> "live", at |-> w.row.at,
           dist |-> w.row.dist, next |-> w.row.next, name |-> w.row.name, toStop |-> m.toStop, eta |-> cached]
  BY DEF PingUpdate, Update, Ahead
<1>2. RowOK(w.row) /\ w.row.at \in Point
  BY MapAssumption DEF WorkOK, RowOK
<1>3. m.toStop \in Nat /\ w.row.dist \in Nat /\ {w.row.next, w.row.name} \subseteq Stop
  BY <1>2, Matched DEF RowOK
<1> HIDE DEF m
<1>4. /\ u.by = w.by /\ u.row = w.row /\ u.age = w.age /\ u.at = w.row.at /\ u.dist = w.row.dist
      /\ u.next = w.row.next /\ u.name = w.row.name /\ u.toStop = m.toStop /\ u.eta = cached
  BY <1>1
<1> HIDE DEF u
<1>5. WorkOK(u)
  BY <1>4 DEF WorkOK
<1>6. OfPing(u) /\ u.by = "ping"
  BY <1>4 DEF OfPing
<1> QED BY <1>3, <1>4, <1>5, <1>6 DEF UpdateOK, u

(* What the scoring loop sends of a row it has scored.                     *)
LEMMA ScoreSent ==
  ASSUME route = Rejected \/ IsDirection(route), NEW w, WorkOK(w), w.by = "score"
  PROVE  /\ BuildQuery(w.row.dist) \in Seq(Stop \ {NoStop})
         /\ UpdateOK(ScoreUpdate(w, BuildQuery(w.row.dist)[1]))
<1> DEFINE stops == BuildQuery(w.row.dist)
           first == stops[1]
           u == ScoreUpdate(w, first)
           toStop == IF route.stops[first].dist > w.row.dist
                     THEN route.stops[first].dist - w.row.dist ELSE 0
<1>1. u = [by |-> w.by, row |-> w.row, age |-> w.age, tier |-> "live", at |-> w.row.at,
           dist |-> w.row.dist, next |-> first, name |-> NameOf(first), toStop |-> toStop, eta |-> first]
  BY DEF ScoreUpdate, Update, Ahead
<1>2. RowOK(w.row) /\ w.row.dist \in Nat /\ stops # <<>>
  BY DEF WorkOK, RowOK
<1>3. IsDirection(route) /\ stops \in Seq(Stop \ {NoStop}) /\ first \in Stop \ {NoStop}
  BY <1>2, Scored
<1>4. route.stops[first].dist \in Nat
  BY <1>3, Stops DEF IsDirection
<1>5. toStop \in Nat
  <2> HIDE DEF first
  <2> QED BY <1>2, <1>4
<1>6. NameOf(first) \in Stop
  BY <1>3, StopKinds
<1> HIDE DEF toStop
<1>7. /\ u.by = w.by /\ u.row = w.row /\ u.age = w.age /\ u.dist = w.row.dist
      /\ u.next = first /\ u.name = NameOf(first) /\ u.toStop = toStop /\ u.eta = first
  BY <1>1
<1> HIDE DEF u
<1>8. WorkOK(u)
  BY <1>7 DEF WorkOK
<1>9. OfScore(u) /\ u.by = "score"
  BY <1>7 DEF OfScore, toStop
<1> HIDE DEF first, stops
<1>10. {u.next, u.name, u.eta} \subseteq Stop /\ u.dist \in Nat /\ u.toStop \in Nat
  BY <1>2, <1>3, <1>5, <1>6, <1>7
<1>11. UpdateOK(u)
  BY <1>8, <1>9, <1>10 DEF UpdateOK
<1> QED BY <1>3, <1>11 DEF u, first, stops

(* What the watchdog emits of a row it has taken up.                       *)
LEMMA WatchSent ==
  ASSUME route = Rejected \/ IsDirection(route), NEW w, WorkOK(w), w.by = "watch", NEW cached \in Stop
  PROVE  UpdateOK(WatchUpdate(w, cached))
<1> DEFINE u == WatchUpdate(w, cached)
           e == EstimatePosition(w.row, w.age)
<1>1. u = [by |-> w.by, row |-> w.row, age |-> w.age, tier |-> e.tier, at |-> e.at, dist |-> e.dist,
           next |-> OrElse(cached, w.row.next), name |-> ShownName(cached, e), toStop |-> e.toStop,
           eta |-> cached]
  BY DEF WatchUpdate, Update, Ahead
<1>2. RowOK(w.row) /\ w.age \in Nat
  BY ThresholdAssumption DEF WorkOK
<1>3. /\ e.dist \in Nat /\ e.toStop \in Nat /\ e.name \in Stop
      /\ route = Rejected => e.dist = w.row.dist
      /\ route # Rejected => /\ e.dist = DrivenIn(w.row, w.age) /\ e.dist \in 0 .. route.total
                             /\ e.at = PointAtDistance(route.line, e.dist)
  BY <1>2, Estimated
<1> HIDE DEF e
<1>4. OrElse(cached, w.row.next) \in Stop /\ ShownName(cached, e) \in Stop
  <2>1. w.row.next \in Stop
    BY <1>2 DEF RowOK
  <2> QED BY <1>3, <2>1, StopKinds DEF ShownName
<1>5. cached # NoStop =>
        OrElse(cached, w.row.next) = cached /\ (route.stops[cached].named => ShownName(cached, e) = cached)
  BY DEF ShownName, OrElse, NameOf
<1>6. /\ u.by = w.by /\ u.row = w.row /\ u.age = w.age /\ u.at = e.at /\ u.dist = e.dist
      /\ u.next = OrElse(cached, w.row.next) /\ u.name = ShownName(cached, e)
      /\ u.toStop = e.toStop /\ u.eta = cached
  BY <1>1
<1> HIDE DEF u
<1>7. WorkOK(u)
  BY <1>6 DEF WorkOK
<1>8. OfWatch(u) /\ u.by = "watch"
  BY <1>3, <1>5, <1>6 DEF OfWatch
<1>9. {u.next, u.name, u.eta} \subseteq Stop /\ u.dist \in Nat /\ u.toStop \in Nat
  BY <1>3, <1>4, <1>6
<1> QED BY <1>7, <1>8, <1>9 DEF UpdateOK, u

(* What is said of rows, work and updates depends on the direction alone.  *)
LEMMA Kept ==
  ASSUME route' = route
  PROVE  /\ Stop' = Stop
         /\ \A row : RowOK(row)' <=> RowOK(row)
         /\ \A w : WorkOK(w)' <=> WorkOK(w)
         /\ \A u : UpdateOK(u)' <=> UpdateOK(u)
<1>1. Stop' = Stop
  BY DEF Stop
<1>2. ASSUME NEW row PROVE RowOK(row)' <=> RowOK(row)
  BY <1>1 DEF RowOK, MapMatch
<1>3. ASSUME NEW w PROVE WorkOK(w)' <=> WorkOK(w)
  <2>1. RowOK(w.row)' <=> RowOK(w.row)
    BY DEF RowOK, MapMatch, Stop
  <2> QED BY <2>1 DEF WorkOK, BuildQuery, ScoredFrom
<1>4. ASSUME NEW u PROVE UpdateOK(u)' <=> UpdateOK(u)
  <2>1. OfPing(u)' <=> OfPing(u)
    BY DEF OfPing
  <2>2. OfScore(u)' <=> OfScore(u)
    BY DEF OfScore, BuildQuery, ScoredFrom, NameOf
  <2>3. OfWatch(u)' <=> OfWatch(u)
    BY DEF OfWatch, DrivenIn, HistoricalSpeed
  <2> QED BY <1>1, <1>3, <2>1, <2>2, <2>3 DEF UpdateOK
<1> QED BY <1>1, <1>2, <1>3, <1>4

(* A queue that is added to at one end and taken from at the other.        *)
LEMMA Queued ==
  ASSUME NEW q, q \in Seq(Range(q))
  PROVE  /\ Len(q) \in Nat
         /\ \A u : /\ Append(q, u) \in Seq(Range(Append(q, u)))
                   /\ Len(Append(q, u)) = Len(q) + 1
                   /\ Range(Append(q, u)) \subseteq Range(q) \cup {u}
         /\ q # <<>> => /\ Tail(q) \in Seq(Range(Tail(q)))
                        /\ Len(Tail(q)) <= Len(q)
                        /\ Range(Tail(q)) \subseteq Range(q) /\ Head(q) \in Range(q)
<1>1. ASSUME NEW S, NEW s \in Seq(S) PROVE s \in Seq(Range(s)) /\ Range(s) \subseteq S
  <2>1. s \in [1 .. Len(s) -> S] /\ Len(s) \in Nat /\ DOMAIN s = 1 .. Len(s)
    OBVIOUS
  <2>2. \A i \in 1 .. Len(s) : s[i] \in Range(s)
    BY <2>1 DEF Range
  <2>3. s \in [1 .. Len(s) -> Range(s)]
    BY <2>1, <2>2
  <2> QED BY <2>1, <2>3, Sequenced DEF Range
<1>2. ASSUME NEW u
      PROVE  /\ Append(q, u) \in Seq(Range(Append(q, u))) /\ Len(Append(q, u)) = Len(q) + 1
             /\ Range(Append(q, u)) \subseteq Range(q) \cup {u}
  <2> DEFINE S == Range(q) \cup {u}
  <2>1. q \in [1 .. Len(q) -> Range(q)] /\ Len(q) \in Nat
    OBVIOUS
  <2>2. q \in Seq(S)
    BY <2>1, Sequenced
  <2>3. Append(q, u) \in Seq(S) /\ Len(Append(q, u)) = Len(q) + 1
    <3> HIDE DEF S
    <3>1. u \in S
      BY DEF S
    <3> QED BY <2>2, <3>1
  <2> QED BY <1>1, <2>3
<1>3. ASSUME q # <<>>
      PROVE  /\ Tail(q) \in Seq(Range(Tail(q))) /\ Len(Tail(q)) <= Len(q)
             /\ Range(Tail(q)) \subseteq Range(q) /\ Head(q) \in Range(q)
  <2>1. Tail(q) \in Seq(Range(q)) /\ Len(Tail(q)) <= Len(q) /\ Head(q) \in Range(q)
    BY <1>3
  <2> QED BY <1>1, <2>1
<1> QED BY <1>2, <1>3

(* Initially.                                                              *)
LEMMA InvInit == Init => ProgressInv
<1> SUFFICES ASSUME Init PROVE ProgressInv
  OBVIOUS
<1>1. /\ relation \in Relations /\ age \in 0 .. MaxAge /\ reports \in 0 .. MaxReports
      /\ last = NoFix /\ shown = Nothing /\ queue = <<>> /\ task = [t \in Task |-> Idle]
  BY ThresholdAssumption DEF Init
<1>2. route = Rejected \/ IsDirection(route)
  <2>1. PICK v \in AvgSpeeds :
          route = ReconcileOne(relation, Candidates, [i \in 1 .. Len(relation.stops) + Len(Candidates) |-> v])
    BY DEF Init
  <2> QED BY <1>1, <2>1, Ingested
<1>3. CachedScores
  <2>1. <<>> \in Seq(Stop \ {NoStop}) /\ 0 \in 0 .. EtaTtl
    BY ThresholdAssumption
  <2> QED BY <2>1 DEF Init, CachedScores
<1>4. queue \in Seq(Range(queue)) /\ Len(queue) <= MaxQueue /\ Range(queue) = {}
  BY <1>1, ThresholdAssumption DEF Range
<1>5. \A u \in Sent : u = Nothing
  BY <1>1, <1>4 DEF Sent
<1>6. \A w \in InHand : w = Idle
  BY <1>1 DEF InHand
<1> QED BY <1>1, <1>2, <1>3, <1>4, <1>5, <1>6 DEF ProgressInv

(* A step that takes up at most one piece of work and publishes at most    *)
(* one update keeps the invariant if they are in order.                    *)
LEMMA StepKeeps ==
  ASSUME ProgressInv, UNCHANGED <<relation, route>>,
         age' \in 0 .. MaxAge, reports' \in 0 .. MaxReports, CachedScores',
         last' = last \/ RowOK(last'),
         queue' \in Seq(Range(queue')), Len(queue') <= MaxQueue,
         \A w \in InHand' : w \in InHand \/ w = Idle \/ WorkOK(w),
         \A u \in Sent' : u \in Sent \/ UpdateOK(u)
  PROVE  ProgressInv'
<1>1. /\ \A row : RowOK(row)' <=> RowOK(row)
      /\ \A w : WorkOK(w)' <=> WorkOK(w)
      /\ \A u : UpdateOK(u)' <=> UpdateOK(u)
  BY Kept
<1>2. \A row \in {last'} : row = NoFix \/ RowOK(row)'
  <2>1. last = NoFix \/ RowOK(last)
    BY DEF ProgressInv
  <2>2. last' = NoFix \/ RowOK(last')
    BY <2>1
  <2> QED BY <1>1, <2>2
<1>3. \A w \in InHand' : w = Idle \/ WorkOK(w)'
  <2>1. \A w \in InHand : w = Idle \/ WorkOK(w)
    BY DEF ProgressInv
  <2> QED BY <1>1, <2>1
<1>4. \A u \in Sent' : u = Nothing \/ UpdateOK(u)'
  <2>1. \A u \in Sent : u = Nothing \/ UpdateOK(u)
    BY DEF ProgressInv
  <2> QED BY <1>1, <2>1
<1>5. relation' \in Relations /\ (route' = Rejected \/ IsDirection(route'))
  BY DEF ProgressInv
<1> QED BY <1>2, <1>3, <1>4, <1>5 DEF ProgressInv

(* A task that takes something up or is done.                              *)
LEMMA Took ==
  ASSUME NEW t \in Task, NEW w, task' = [task EXCEPT ![t] = w]
  PROVE  \A v \in InHand' : v \in InHand \/ v = w
BY DEF InHand

(* What may be sent.                                                       *)
LEMMA Sends ==
  ASSUME ProgressInv, NEW u, UpdateOK(u), Send(u), UNCHANGED shown
  PROVE  /\ queue' \in Seq(Range(queue')) /\ Len(queue') <= MaxQueue
         /\ \A v \in Sent' : v \in Sent \/ UpdateOK(v)
<1>1. queue \in Seq(Range(queue)) /\ Len(queue) < MaxQueue /\ queue' \in {queue, Append(queue, u)}
  BY DEF ProgressInv, Send
<1>2. /\ queue' \in Seq(Range(queue')) /\ Len(queue') \in {Len(queue), Len(queue) + 1}
      /\ Range(queue') \subseteq Range(queue) \cup {u} /\ Len(queue) \in Nat
  <2> DEFINE q == queue
             p == Append(q, u)
  <2>1. /\ p \in Seq(Range(p)) /\ Len(p) = Len(q) + 1 /\ Range(p) \subseteq Range(q) \cup {u}
        /\ Len(q) \in Nat
    BY <1>1, Queued
  <2>2. q \in Seq(Range(q)) /\ queue' \in {q, p}
    BY <1>1
  <2> HIDE DEF p, q
  <2>3. queue' = q \/ queue' = p
    BY <2>2
  <2>4. /\ queue' \in Seq(Range(queue')) /\ Len(queue') \in {Len(q), Len(q) + 1}
        /\ Range(queue') \subseteq Range(q) \cup {u}
    BY <2>1, <2>2, <2>3
  <2> QED BY <2>1, <2>4 DEF q
<1>3. Len(queue') <= MaxQueue
  BY <1>1, <1>2, ThresholdAssumption
<1>4. Sent' = Range(queue') \cup {shown'}
  BY DEF Sent
<1> QED BY <1>2, <1>3, <1>4 DEF Sent

(* Every step keeps the invariant.                                         *)
THEOREM InvNext == ProgressInv /\ [Next]_vars => ProgressInv'
<1> SUFFICES ASSUME ProgressInv, [Next]_vars PROVE ProgressInv'
  OBVIOUS
<1>1. /\ age \in 0 .. MaxAge /\ age \in Nat /\ reports \in 0 .. MaxReports /\ CachedScores
      /\ route = Rejected \/ IsDirection(route)
      /\ queue \in Seq(Range(queue)) /\ Len(queue) <= MaxQueue
      /\ last # NoFix => RowOK(last)
      /\ \A t \in Task : task[t] = Idle \/ WorkOK(task[t])
  <2>1. \A t \in Task : task[t] \in InHand
    BY DEF InHand
  <2> QED BY <2>1, ThresholdAssumption DEF ProgressInv
<1>2. UNCHANGED route => UNCHANGED Stop
  BY DEF Stop
<1>3. UNCHANGED <<route, etas, mirror>> => CachedScores'
  BY <1>1, <1>2 DEF CachedScores, NoStop
<1>4. UNCHANGED <<queue, shown>> => Sent' = Sent
  BY DEF Sent
<1>5. UNCHANGED task => InHand' = InHand
  BY DEF InHand
<1>6. ASSUME NEW t \in Task, NEW fix \in Fixes, NEW speed \in Speeds, Ping(t, fix, speed)
      PROVE  ProgressInv'
  <2> DEFINE m == MapMatch(fix)
             row == [at |-> fix, dist |-> m.dist, speed |-> speed, next |-> m.next, name |-> NameOf(m.next)]
             w == TakenUp("ping", row, 0)
  <2>1. /\ reports < MaxReports /\ last' = row /\ age' = 0 /\ reports' = reports + 1
        /\ task' = [task EXCEPT ![t] = w]
        /\ UNCHANGED <<relation, route, etas, mirror, queue, shown>>
    BY <1>6 DEF Ping
  <2>2. RowOK(row)
    <3>1. fix \in Point
      BY MapAssumption
    <3>2. /\ m.dist \in Nat /\ m.next \in Stop
          /\ route # Rejected => m.dist \in 0 .. route.total
      BY <1>1, <3>1, Matched
    <3>3. NameOf(m.next) \in Stop
      BY <1>1, <3>2, StopKinds
    <3> QED BY <3>2, <3>3 DEF RowOK
  <2>3. WorkOK(w)
    <3>1. w.by = "ping" /\ w.row = row /\ w.age = 0
      BY DEF TakenUp
    <3> HIDE DEF row, w
    <3> QED BY <2>2, <3>1, ThresholdAssumption DEF WorkOK
  <2> HIDE DEF w, row
  <2>4. \A v \in InHand' : v \in InHand \/ WorkOK(v)
    BY <2>1, <2>3, Took
  <2>5. RowOK(last') /\ age' \in 0 .. MaxAge /\ reports' \in 0 .. MaxReports
    BY <1>1, <2>1, <2>2, ThresholdAssumption
  <2> QED BY <1>1, <1>3, <1>4, <2>1, <2>4, <2>5, StepKeeps
<1>7. ASSUME NEW t \in Task, PingSend(t) PROVE ProgressInv'
  <2>1. /\ task[t].by = "ping" /\ task' = [task EXCEPT ![t] = Idle]
        /\ Send(PingUpdate(task[t], FirstOf(etas)))
        /\ UNCHANGED <<relation, route, last, age, reports, etas, mirror, shown>>
    BY <1>7 DEF PingSend, Working, Finishes
  <2>2. WorkOK(task[t]) /\ FirstOf(etas) \in Stop
    BY <1>1, <2>1, Firsts DEF Idle, TakenUp
  <2>3. UpdateOK(PingUpdate(task[t], FirstOf(etas)))
    BY <1>1, <2>1, <2>2, PingSent
  <2> QED BY <1>1, <1>3, <2>1, <2>3, Sends, StepKeeps, Took
<1>8. ASSUME NEW t \in Task, ScoreRead(t) PROVE ProgressInv'
  <2> DEFINE w == TakenUp("score", last, age)
  <2>1. /\ last # NoFix /\ age <= LiveMax /\ BuildQuery(last.dist) # <<>>
        /\ task' = [task EXCEPT ![t] = w]
        /\ UNCHANGED <<relation, route, last, age, reports, etas, mirror, queue, shown>>
    BY <1>8 DEF ScoreRead
  <2>2. w.by = "score" /\ w.row = last /\ w.age = age
    BY DEF TakenUp
  <2> HIDE DEF w
  <2>3. WorkOK(w)
    BY <1>1, <2>1, <2>2 DEF WorkOK
  <2> QED BY <1>1, <1>3, <1>4, <2>1, <2>3, StepKeeps, Took
<1>9. ASSUME NEW t \in Task, ScoreAnswer(t) PROVE ProgressInv'
  <2> DEFINE stops == BuildQuery(task[t].row.dist)
  <2>1. /\ task[t].by = "score" /\ task' = [task EXCEPT ![t] = Idle]
        /\ etas' = stops /\ mirror' \in {mirror, [stops |-> stops, ttl |-> EtaTtl]}
        /\ Send(ScoreUpdate(task[t], stops[1]))
        /\ UNCHANGED <<relation, route, last, age, reports, shown>>
    BY <1>9 DEF ScoreAnswer, Working, Finishes
  <2>2. WorkOK(task[t])
    BY <1>1, <2>1 DEF Idle, TakenUp
  <2>3. stops \in Seq(Stop \ {NoStop}) /\ UpdateOK(ScoreUpdate(task[t], stops[1]))
    BY <1>1, <2>1, <2>2, ScoreSent
  <2> HIDE DEF stops
  <2>4. CachedScores'
    <3> DEFINE S == Seq(Stop \ {NoStop})
    <3>1. mirror \in [stops : S, ttl : 0 .. EtaTtl] /\ stops \in S /\ EtaTtl \in 0 .. EtaTtl
      BY <1>1, <2>3, ThresholdAssumption DEF CachedScores
    <3> HIDE DEF S
    <3>2. etas' \in S /\ mirror' \in [stops : S, ttl : 0 .. EtaTtl]
      BY <2>1, <3>1
    <3> QED BY <1>2, <2>1, <3>2 DEF CachedScores, NoStop, S
  <2> QED BY <1>1, <2>1, <2>3, <2>4, Sends, StepKeeps, Took
<1>10. ASSUME NEW t \in Task, WatchRead(t) PROVE ProgressInv'
  <2> DEFINE w == TakenUp("watch", last, age)
  <2>1. /\ last # NoFix /\ age > LiveMax /\ task' = [task EXCEPT ![t] = w]
        /\ UNCHANGED <<relation, route, last, age, reports, etas, mirror, queue, shown>>
    BY <1>10 DEF WatchRead
  <2>2. w.by = "watch" /\ w.row = last /\ w.age = age
    BY DEF TakenUp
  <2> HIDE DEF w
  <2>3. WorkOK(w)
    BY <1>1, <2>1, <2>2 DEF WorkOK
  <2> QED BY <1>1, <1>3, <1>4, <2>1, <2>3, StepKeeps, Took
<1>11. ASSUME NEW t \in Task, WatchEmit(t) PROVE ProgressInv'
  <2> DEFINE u == WatchUpdate(task[t], FirstOf(mirror.stops))
  <2>1. /\ task[t].by = "watch" /\ task' = [task EXCEPT ![t] = Idle] /\ shown' = u
        /\ UNCHANGED <<relation, route, last, age, reports, etas, mirror, queue>>
    BY <1>11 DEF WatchEmit, Working, Finishes
  <2>2. WorkOK(task[t]) /\ FirstOf(mirror.stops) \in Stop
    BY <1>1, <2>1, Firsts DEF Idle, TakenUp
  <2>3. UpdateOK(u)
    BY <1>1, <2>1, <2>2, WatchSent
  <2> HIDE DEF u
  <2>4. \A v \in Sent' : v \in Sent \/ UpdateOK(v)
    BY <2>1, <2>3 DEF Sent
  <2> QED BY <1>1, <1>3, <2>1, <2>4, StepKeeps, Took
<1>12. ASSUME NEW t \in Task, Fails(t) PROVE ProgressInv'
  <2>1. /\ task' = [task EXCEPT ![t] = Idle]
        /\ UNCHANGED <<relation, route, last, age, reports, etas, mirror, queue, shown>>
    BY <1>12 DEF Fails, Finishes
  <2> QED BY <1>1, <1>3, <1>4, <2>1, StepKeeps, Took
<1>13. CASE Forward
  <2>1. /\ queue # <<>> /\ queue' = Tail(queue) /\ shown' = Head(queue)
        /\ UNCHANGED <<relation, route, last, age, reports, etas, mirror, task>>
    BY <1>13 DEF Forward
  <2>2. /\ queue' \in Seq(Range(queue')) /\ Len(queue') <= Len(queue) /\ Range(queue') \subseteq Range(queue)
        /\ shown' \in Range(queue) /\ Len(queue) \in Nat
    BY <1>1, <2>1, Queued
  <2>3. Len(queue') <= MaxQueue
    <3>1. Len(queue') \in Nat
      BY <2>2
    <3> QED BY <1>1, <2>2, <3>1, ThresholdAssumption
  <2>4. \A u \in Sent' : u \in Sent
    BY <2>2 DEF Sent
  <2> QED BY <1>1, <1>3, <1>5, <2>1, <2>2, <2>3, <2>4, StepKeeps
<1>14. CASE Restart
  <2>1. /\ etas' = <<>>
        /\ task' = [t \in Task |-> IF task[t].by = "watch" THEN task[t] ELSE Idle]
        /\ UNCHANGED <<relation, route, last, age, reports, mirror, queue, shown>>
    BY <1>14 DEF Restart, Working
  <2>2. \A v \in InHand' : v \in InHand \/ v = Idle
    BY <2>1 DEF InHand
  <2>3. CachedScores'
    <3> DEFINE S == Seq(Stop \ {NoStop})
    <3>1. mirror \in [stops : S, ttl : 0 .. EtaTtl] /\ <<>> \in S
      BY <1>1 DEF CachedScores
    <3> HIDE DEF S
    <3>2. etas' \in S /\ mirror' \in [stops : S, ttl : 0 .. EtaTtl]
      BY <2>1, <3>1
    <3> QED BY <1>2, <2>1, <3>2 DEF CachedScores, NoStop, S
  <2> QED BY <1>1, <1>4, <2>1, <2>2, <2>3, StepKeeps
<1>15. CASE Tick
  <2> DEFINE left == mirror.ttl - 1
  <2>1. /\ age < MaxAge /\ age' = age + 1
        /\ mirror' = IF left > 0 THEN [mirror EXCEPT !.ttl = left] ELSE [stops |-> <<>>, ttl |-> 0]
        /\ UNCHANGED <<relation, route, last, reports, etas, task, queue, shown>>
    BY <1>15 DEF Tick
  <2>2. CachedScores'
    <3> DEFINE S == Seq(Stop \ {NoStop})
    <3>1. mirror \in [stops : S, ttl : 0 .. EtaTtl] /\ etas \in S /\ <<>> \in S /\ EtaTtl \in Nat
      BY <1>1, ThresholdAssumption DEF CachedScores
    <3> HIDE DEF S
    <3>2. mirror' \in [stops : S, ttl : 0 .. EtaTtl] /\ etas' \in S
      <4>1. left > 0 => left \in 0 .. EtaTtl
        BY <3>1
      <4>2. 0 \in 0 .. EtaTtl
        BY <3>1
      <4> HIDE DEF left
      <4> QED BY <2>1, <3>1, <4>1, <4>2
    <3> QED BY <1>2, <2>1, <3>2 DEF CachedScores, NoStop, S
  <2>3. age' \in 0 .. MaxAge
    BY <1>1, <2>1, ThresholdAssumption
  <2> HIDE DEF left
  <2> QED BY <1>1, <1>4, <1>5, <2>1, <2>2, <2>3, StepKeeps
<1>16. CASE UNCHANGED vars
  <2>1. UNCHANGED <<relation, route, last, age, reports, etas, mirror, task, queue, shown>>
    BY <1>16 DEF vars
  <2> QED BY <1>1, <1>3, <1>4, <1>5, <2>1, StepKeeps
<1> QED BY <1>6, <1>7, <1>8, <1>9, <1>10, <1>11, <1>12, <1>13, <1>14, <1>15, <1>16 DEF Next

(* The invariant holds of every behaviour.                                 *)
THEOREM Invariance == QueriesSpec => []ProgressInv
<1>1. QueriesInit => ProgressInv
  BY InvInit DEF QueriesInit
<1>2. ProgressInv /\ [QueriesNext]_<<vars, files, loaded>> => ProgressInv'
  BY InvNext DEF QueriesNext, vars
<1> QED BY <1>1, <1>2, PTL DEF QueriesSpec

(* For any relations, reports and thresholds, every value is of the kind   *)
(* the code keeps: stops are stops of the direction, distances are never   *)
(* negative.                                                               *)
THEOREM TypeCorrect == QueriesSpec => []ProgressTypeOK
<1>1. ASSUME ProgressInv PROVE ProgressTypeOK
  <2> USE <1>1
  <2>1. \A row : RowOK(row) => RowTyped(row)
    BY DEF RowOK, RowTyped
  <2>2. \A w : WorkOK(w) => RowTyped(w.row) /\ w.age \in 0 .. MaxAge
    BY <2>1 DEF WorkOK
  <2>3. \A u : UpdateOK(u) => UpdateTyped(u)
    BY <2>2 DEF UpdateOK, UpdateTyped
  <2>4. last = NoFix \/ RowTyped(last)
    BY <2>1 DEF ProgressInv
  <2>5. \A t \in Task : task[t] = Idle \/ (RowTyped(task[t].row) /\ task[t].age \in 0 .. MaxAge)
    <3>1. \A t \in Task : task[t] \in InHand
      BY DEF InHand
    <3> QED BY <2>2, <3>1 DEF ProgressInv
  <2>6. \A u \in Range(queue) \cup {shown} : u = Nothing \/ UpdateTyped(u)
    BY <2>3 DEF ProgressInv, Sent
  <2>7. Range(etas) \cup Range(mirror.stops) \subseteq Stop \ {NoStop} /\ mirror.ttl \in 0 .. EtaTtl
    <3>1. ASSUME NEW S, NEW s \in Seq(S) PROVE Range(s) \subseteq S
      BY DEF Range
    <3> QED BY <3>1 DEF ProgressInv, CachedScores
  <2> QED BY <2>4, <2>5, <2>6, <2>7 DEF ProgressTypeOK, ProgressInv
<1> QED BY <1>1, Invariance, PTL

(* What is shown, once something is.                                       *)
LEMMA Showing ==
  ASSUME ProgressInv, shown # Nothing
  PROVE  UpdateOK(shown)
BY DEF ProgressInv, Sent

(* On any line parallel to the axes a report is matched to a nearest       *)
(* point, and an estimate is on the line at the distance published with it *)
(* (geo.ts 68-132).                                                        *)
THEOREM MatchedNearest == QueriesSpec => []MatchIsNearest
<1>1. ASSUME ProgressInv PROVE MatchIsNearest
  <2> USE <1>1
  <2>1. SUFFICES ASSUME route # Rejected PROVE MatchIsNearest
    BY DEF MatchIsNearest
  <2>2. IsDirection(route) /\ route.line \in Line /\ Straight(route.line) /\ route.total = LineLength(route.line)
    BY <2>1 DEF ProgressInv, IsDirection
  <2>3. shown.by \in {"ping", "watch"} => UpdateOK(shown)
    BY Showing DEF Nothing, Update, Idle, TakenUp
  <2>4. ASSUME shown.by = "ping", NEW d \in 0 .. route.total
        PROVE  OffsetSq(shown.at, PointAtDistance(route.line, shown.dist))
                 <= OffsetSq(shown.at, PointAtDistance(route.line, d))
    <3>1. OfPing(shown) /\ RowOK(shown.row)
      BY <2>3, <2>4 DEF UpdateOK, WorkOK
    <3>2. shown.row.at \in Point /\ shown.at = shown.row.at /\ shown.dist = MapMatch(shown.at).dist
      BY <3>1, MapAssumption DEF RowOK, OfPing
    <3>3. shown.at \in Point /\ shown.dist = ProjectOntoPolyline(shown.at, route.line).dist
      BY <2>1, <2>2, <3>2, Matched
    <3> QED BY <2>2, <2>4, <3>3, Projected
  <2>5. ASSUME shown.by = "watch"
        PROVE  LET again == ProjectOntoPolyline(shown.at, route.line)
               IN  /\ again.offsetSq = 0 /\ again.dist <= shown.dist
                   /\ PointAtDistance(route.line, again.dist) = shown.at
    <3>1. shown.dist \in 0 .. route.total /\ shown.at = PointAtDistance(route.line, shown.dist)
      BY <2>1, <2>3, <2>5 DEF UpdateOK, OfWatch
    <3> QED BY <2>2, <3>1, ProjectedAgain
  <2> QED BY <2>4, <2>5 DEF MatchIsNearest
<1> QED BY <1>1, Invariance, PTL

(* For any stops and speeds, whatever comes between reading a row and      *)
(* publishing what was made of it: past the first stop the scoring loop    *)
(* publishes the stop ahead that the report handler found in the row it    *)
(* scored; and a time that the scoring loop or the watchdog publishes has  *)
(* beside it the stop it was scored for, and its name where it has one     *)
(* (etaScoringLoop.ts 131-144, gateway.ts 70-71).                          *)
THEOREM SameNextStop == QueriesSpec => []NextStopAgrees
<1>1. ASSUME ProgressInv PROVE NextStopAgrees
  <2> USE <1>1
  <2>1. shown.by \in {"score", "watch"} => UpdateOK(shown)
    BY Showing DEF Nothing, Update, Idle, TakenUp
  <2>2. ASSUME shown.by = "score"
        PROVE  OfScore(shown) /\ RowOK(shown.row) /\ BuildQuery(shown.row.dist) # <<>>
    BY <2>1, <2>2 DEF UpdateOK, WorkOK
  <2>3. ASSUME shown.by = "score", shown.row.dist > route.stops[1].dist
        PROVE  shown.next = shown.row.next /\ shown.toStop = NextStopFrom(route, shown.row.dist).dist
    <3> DEFINE d == shown.row.dist
               s == BuildQuery(d)[1]
    <3>0. (route = Rejected \/ IsDirection(route)) /\ d \in Nat
      BY <2>2, <2>3 DEF ProgressInv, RowOK
    <3>1. /\ IsDirection(route) /\ s = NextStopFrom(route, d).stop /\ s \in Stop \ {NoStop}
          /\ route.stops[s].dist >= d /\ NextStopFrom(route, d).dist = route.stops[s].dist - d
      BY <2>2, <2>3, <3>0, Scored
    <3>2. shown.row.next = NextStopFrom(route, d).stop
      <4>1. /\ route # Rejected /\ shown.row.at \in Point
            /\ d = MapMatch(shown.row.at).dist /\ shown.row.next = MapMatch(shown.row.at).next
        BY <2>2, <2>3, <3>1, Stops, MapAssumption DEF RowOK
      <4> QED BY <3>1, <4>1, Matched
    <3>3. /\ shown.next = s
          /\ shown.toStop = IF route.stops[s].dist > d THEN route.stops[s].dist - d ELSE 0
      BY <2>2, <2>3 DEF OfScore
    <3>4. route.stops[s].dist \in Nat
      BY <3>1, Stops DEF IsDirection
    <3> HIDE DEF s, d
    <3>5. shown.next = shown.row.next /\ shown.toStop = NextStopFrom(route, d).dist
      BY <3>0, <3>1, <3>2, <3>3, <3>4
    <3> QED BY <3>5 DEF d
  <2>4. ASSUME shown.by \in {"score", "watch"}, shown.eta # NoStop
        PROVE  shown.next = shown.eta /\ (route.stops[shown.eta].named => shown.name = shown.eta)
    <3>1. CASE shown.by = "score"
      BY <2>2, <2>4, <3>1 DEF OfScore, NameOf
    <3>2. CASE shown.by = "watch"
      BY <2>1, <2>4, <3>2 DEF UpdateOK, OfWatch
    <3> QED BY <2>4, <3>1, <3>2
  <2> QED BY <2>3, <2>4 DEF NextStopAgrees
<1> QED BY <1>1, Invariance, PTL

(* Of two updates made of one report, the later one is not further back.   *)
LEMMA NotBack ==
  ASSUME route = Rejected \/ IsDirection(route),
         NEW u, NEW v, UpdateOK(u), UpdateOK(v), u.row = v.row, u.age <= v.age
  PROVE  u.dist <= v.dist
<1> DEFINE row == u.row
<1>1. /\ RowOK(row) /\ row.dist \in Nat /\ u.age \in Nat /\ v.age \in Nat
      /\ u.by \in {"ping", "score", "watch"} /\ v.by \in {"ping", "score", "watch"}
      /\ (u.by # "watch" => u.age <= LiveMax) /\ (v.by = "watch" => v.age > LiveMax)
      /\ (u.by = "watch" => u.age > LiveMax) /\ (v.by # "watch" => v.age <= LiveMax)
  BY ThresholdAssumption DEF UpdateOK, WorkOK, RowOK
<1>2. /\ (u.by # "watch" => u.dist = row.dist) /\ (v.by # "watch" => v.dist = row.dist)
      /\ (u.by = "watch" => OfWatch(u)) /\ (v.by = "watch" => OfWatch(v))
  BY <1>1 DEF UpdateOK, OfPing, OfScore
<1>3. u.by = "watch" => v.by = "watch"
  BY <1>1, ThresholdAssumption
<1>4. CASE route = Rejected
  BY <1>1, <1>2, <1>4 DEF OfWatch
<1>5. CASE IsDirection(route)
  <2>1. route # Rejected
    BY <1>5, Stops
  <2>2. /\ \A b \in Nat : DrivenIn(row, b) \in 0 .. route.total /\ DrivenIn(row, b) >= row.dist
        /\ \A b, c \in Nat : b <= c => DrivenIn(row, b) <= DrivenIn(row, c)
    BY <1>1, <1>5, <2>1, Drives DEF RowOK
  <2>3. /\ u.by = "watch" => u.dist = DrivenIn(row, u.age)
        /\ v.by = "watch" => v.dist = DrivenIn(row, v.age)
    BY <1>2, <2>1 DEF OfWatch
  <2> HIDE DEF row
  <2> QED BY <1>1, <1>2, <1>3, <2>2, <2>3
<1> QED BY <1>4, <1>5

(* For all speeds, ramps and thresholds, and however handlers, ticks,      *)
(* passes and the queue delay them: of two updates in a row made of one    *)
(* report, the one computed at the greater age has the bus no further      *)
(* back, and the bus is never off its line (deadReckoning.ts 59-122).      *)
THEOREM Advances == QueriesSpec => ExtrapolationAdvances
<1> DEFINE Steady ==
             (shown'.row = shown.row /\ shown # Nothing) =>
                /\ shown.age <= shown'.age => shown.dist <= shown'.dist
                /\ shown'.age <= shown.age => shown'.dist <= shown.dist
                /\ route # Rejected => shown'.dist <= route.total
<1>1. ASSUME ProgressInv, ProgressInv', UNCHANGED route PROVE Steady
  <2> SUFFICES ASSUME shown'.row = shown.row, shown # Nothing
               PROVE  /\ shown.age <= shown'.age => shown.dist <= shown'.dist
                      /\ shown'.age <= shown.age => shown'.dist <= shown.dist
                      /\ route # Rejected => shown'.dist <= route.total
    OBVIOUS
  <2>1. UpdateOK(shown) /\ (route = Rejected \/ IsDirection(route))
    BY <1>1, Showing DEF ProgressInv
  <2>2. shown' # Nothing
    <3>1. shown.row.dist \in Nat
      BY <2>1 DEF UpdateOK, WorkOK, RowOK
    <3>2. Nothing.row.dist = -1
      BY DEF Nothing, Update, Idle, TakenUp, NoFix
    <3> QED BY <3>1, <3>2
  <2>3. UpdateOK(shown')
    <3>1. \A u \in Sent' : u = Nothing \/ UpdateOK(u)'
      BY <1>1 DEF ProgressInv
    <3>2. shown' \in Sent'
      BY DEF Sent
    <3>3. \A u : UpdateOK(u)' <=> UpdateOK(u)
      BY <1>1, Kept
    <3> QED BY <2>2, <3>1, <3>2, <3>3
  <2>4. route # Rejected => shown'.dist <= route.total
    <3> SUFFICES ASSUME route # Rejected PROVE shown'.dist <= route.total
      OBVIOUS
    <3>1. shown'.by \in {"ping", "score", "watch"} /\ RowOK(shown'.row)
      BY <2>3 DEF UpdateOK, WorkOK
    <3>2. shown'.row.dist \in 0 .. route.total /\ route.total \in Nat
      BY <2>1, <3>1 DEF RowOK, IsDirection
    <3>3. shown'.dist \in 0 .. route.total
      BY <2>3, <3>1, <3>2 DEF UpdateOK, OfPing, OfScore, OfWatch
    <3> QED BY <3>2, <3>3
  <2>5. shown.age <= shown'.age => shown.dist <= shown'.dist
    BY <2>1, <2>3, NotBack
  <2>6. shown'.age <= shown.age => shown'.dist <= shown.dist
    BY <2>1, <2>3, NotBack
  <2> QED BY <2>4, <2>5, <2>6
<1>2. ProgressInv /\ ProgressInv' /\ [QueriesNext]_<<vars, files, loaded>> => [Steady]_vars
  <2> SUFFICES ASSUME ProgressInv, ProgressInv', [QueriesNext]_<<vars, files, loaded>> PROVE [Steady]_vars
    OBVIOUS
  <2>1. CASE UNCHANGED vars
    BY <2>1
  <2>2. CASE Next
    <3>1. UNCHANGED route
      BY <2>2 DEF Next, Ping, PingSend, ScoreRead, ScoreAnswer, WatchRead, WatchEmit, Fails, Forward, Restart, Tick
    <3> QED BY <1>1, <3>1
  <2> QED BY <2>1, <2>2 DEF QueriesNext, vars
<1>3. QueriesSpec => [][Steady]_vars
  BY <1>2, Invariance, PTL DEF QueriesSpec
<1> QED BY <1>3 DEF ExtrapolationAdvances

(***************************************************************************)
(* What ingestion makes of a relation.                                     *)
(***************************************************************************)

(* The sum the property speaks of is a total.                              *)
LEMMA TogetherFolds ==
  ASSUME NEW ways \in Seq(Line)
  PROVE  LengthTogether(ways) = TotalOf([i \in DOMAIN ways |-> LineLength(ways[i])], DOMAIN ways)
<1> DEFINE f == [i \in DOMAIN ways |-> LineLength(ways[i])]
           D == DOMAIN ways
           Eq(g) == g = [s \in SUBSET D |-> IF s = {} THEN 0
                           ELSE LineLength(ways[CHOOSE x \in s : TRUE]) + g[s \ {CHOOSE x \in s : TRUE}]]
<1>1. LengthTogether(ways) = (CHOOSE g : Eq(g))[D]
  BY DEF LengthTogether, MapThenSumSet, MapThenFoldSet
<1>2. IsFiniteSet(D) /\ \A x \in D : f[x] = LineLength(ways[x]) /\ f[x] \in Int
  <2>1. Len(ways) \in Nat /\ D = 1 .. Len(ways) /\ \A x \in D : ways[x] \in Line
    OBVIOUS
  <2>2. IsFiniteSet(D)
    BY <2>1, FS_Interval
  <2>3. \A x \in D : LineLength(ways[x]) \in Int
    <3>1. ASSUME NEW line \in Line PROVE LineLength(line) \in Int
      <4>1. Len(line) \in 1 .. Len(line)
        BY DEF Line
      <4> QED BY <4>1, Lengths DEF LineLength
    <3> QED BY <2>1, <3>1
  <2> QED BY <2>2, <2>3
<1> HIDE DEF f, D
<1>3. \A g : Eq(g) <=> Folds(g, f, D)
  <2> SUFFICES ASSUME NEW g PROVE Eq(g) <=> Folds(g, f, D)
    OBVIOUS
  <2>1. \A s \in SUBSET D : s # {} => (CHOOSE x \in s : TRUE) \in D
    BY Picked DEF Pick
  <2> QED BY <1>2, <2>1 DEF Folds, Pick
<1> HIDE DEF Eq
<1>4. PICK h : Folds(h, f, D)
  BY <1>2, FoldExists
<1>5. PICK g : Eq(g) /\ LengthTogether(ways) = g[D]
  BY <1>1, <1>3, <1>4
<1>6. LengthTogether(ways) = TotalOf(f, D)
  BY <1>2, <1>3, <1>5, TotalIsFold
<1> QED BY <1>6 DEF f, D

(* Stitching keeps every metre of ways that chain.                         *)
LEMMA StitchLength ==
  ASSUME NEW ways \in Seq(Seq(Point)), UsableWays(ways) # <<>>, Chained(UsableWays(ways))
  PROVE  LineLength(StitchWays(ways)) = LengthTogether(UsableWays(ways))
<1> DEFINE use == UsableWays(ways)
<1>1. use \in Seq(Line) /\ use # <<>>
  BY UsableSteps
<1> HIDE DEF use
<1>2. Len(use) \in Nat /\ DOMAIN use = 1 .. Len(use) /\ Len(use) >= 1 /\ \A i \in 1 .. Len(use) : use[i] \in Line
  BY <1>1, EmptySeq
<1>3. PICK back \in [DOMAIN use -> BOOLEAN] :
        /\ ~back[1]
        /\ \A i \in 2 .. Len(use) : Last(Drawn(use[i - 1], back[i - 1])) = Head(Drawn(use[i], back[i]))
  BY DEF Chained, ChainsWith, Drawn, use
<1>4. \A i \in 2 .. Len(use) : Head(Drawn(use[i], back[i])) = Drawn(use[i], back[i])[1]
  <2>1. ASSUME NEW i \in 2 .. Len(use) PROVE Drawn(use[i], back[i]) \in Line
    <3>1. use[i] \in Line
      BY <1>2
    <3> QED BY <3>1, Backwards DEF Drawn
  <2>2. \A line \in Line : line # <<>> /\ Head(line) = line[1]
    BY EmptySeq DEF Line
  <2> QED BY <2>1, <2>2
<1>5. LineLength(FoldLeft(JoinWay, Head(use), Tail(use)))
        = TotalOf([i \in DOMAIN use |-> LineLength(use[i])], DOMAIN use)
  BY <1>1, <1>3, <1>4, ChainLength
<1> QED BY <1>1, <1>5, TogetherFolds DEF StitchWays, use

(* An ingested direction has its relation's line, and its stops lie on it. *)
LEMMA Explicit ==
  ASSUME NEW rel \in Relations, UsableWays(rel.ways) # <<>>, NEW avg, NEW other
  PROVE  RouteFromRelation(rel, avg) = Rejected <=> RouteFromRelation(rel, other) = Rejected
<1> DEFINE line == StitchWays(rel.ways)
           stops == StopsFromMembers(rel.stops)
           Good == Len(stops) >= 2 /\ NearVertices(line, stops) /\ InOrder(line, stops)
<1>1. line \in Line
  BY StraightLines
<1>2. \A a : DirectionOf(line, stops, a) # Rejected
  <2>1. \A a : DirectionOf(line, stops, a).line = line
    BY DEF DirectionOf
  <2>2. Rejected.line = <<>> /\ line # <<>>
    BY <1>1, EmptySeq DEF Rejected, Line
  <2> HIDE DEF line
  <2> QED BY <2>1, <2>2
<1>3. \A a : RouteFromRelation(rel, a) = IF Good THEN DirectionOf(line, stops, a) ELSE Rejected
  BY DEF RouteFromRelation
<1> HIDE DEF line, stops, Good
<1> QED BY <1>2, <1>3

(* The direction followed is what ingestion made of its relation.          *)
FromRelation ==
    /\ relation \in Relations
    /\ \E avg : route = ReconcileOne(relation, Candidates, avg)

(* Such a direction is as long as its ways and its stops are spaced.       *)
LEMMA WellIngested == FromRelation => IngestedRoute
<1> SUFFICES ASSUME FromRelation, route # Rejected PROVE IngestedRoute
  BY DEF IngestedRoute
<1> DEFINE line == StitchWays(relation.ways)
<1>1. PICK avg : route = ReconcileOne(relation, Candidates, avg)
  BY DEF FromRelation
<1>2. relation \in Relations /\ UsableWays(relation.ways) # <<>>
  BY <1>1 DEF FromRelation, ReconcileOne
<1>3. line \in Line /\ Straight(line) /\ relation.ways \in Seq(Seq(Point))
  BY <1>2, StraightLines, MapAssumption
<1>4. \/ route = RouteFromRelation(relation, avg) /\ RouteFromRelation(relation, avg) # Rejected
      \/ route = RouteWithInferredStops(relation, Candidates, avg)
  BY <1>1, <1>2 DEF ReconcileOne
<1>5. route.total = LineLength(line)
  <2>1. \E stops : route = DirectionOf(line, stops, avg)
    BY <1>4 DEF RouteFromRelation, RouteWithInferredStops
  <2> QED BY <2>1 DEF DirectionOf
<1>6. StitchedWhole
  BY <1>2, <1>3, <1>5, StitchLength DEF StitchedWhole
<1>7. ASSUME RouteFromRelation(relation, [i \in 1 .. 9 |-> NoBaseline]) = Rejected
      PROVE  InferredStopsSpaced
  <2> DEFINE stops == InferStopsAlongLine(line, Candidates)
  <2>1. RouteFromRelation(relation, avg) = Rejected
    BY <1>2, <1>7, Explicit
  <2>2. route = DirectionOf(line, stops, avg)
    BY <1>4, <2>1 DEF RouteWithInferredStops
  <2>3. /\ Candidates \in Seq(Range(Candidates)) /\ DOMAIN Candidates = 1 .. Len(Candidates)
        /\ \A i \in 1 .. Len(Candidates) : Candidates[i].at \in Point
    <3>1. Candidates \in Seq(Range(Candidates)) /\ \A s \in Range(Candidates) : s.at \in Point
      BY MapAssumption
    <3>2. \A i \in 1 .. Len(Candidates) : Candidates[i] \in Range(Candidates)
      BY <3>1
    <3> QED BY <3>1, <3>2
  <2>4. stops \in Seq(Range(Candidates)) /\ Apart(line, stops) /\ NoneMissed(line, Candidates, stops)
    <3> HIDE DEF line
    <3> QED BY <1>3, <2>3, InferredStops
  <2> HIDE DEF stops, line
  <2>5. /\ route.line = line /\ Len(route.stops) = Len(stops) /\ DOMAIN route.stops = DOMAIN stops
        /\ \A i \in 1 .. Len(stops) : /\ route.stops[i].dist = OnLine(line, stops[i]).dist
                                      /\ route.stops[i].id = stops[i].id
        /\ DOMAIN stops = 1 .. Len(stops) /\ Len(stops) \in Nat
    <3>1. Len(stops) \in Nat /\ DOMAIN stops = 1 .. Len(stops)
      BY <2>4
    <3>2. route.stops = [i \in DOMAIN stops |-> [id |-> stops[i].id, named |-> stops[i].named, at |-> stops[i].at,
                                                 dist |-> OnLine(line, stops[i]).dist]]
          /\ route.line = line
      BY <2>2 DEF DirectionOf, OnLine
    <3> QED BY <3>1, <3>2
  <2>6. ASSUME NEW i \in 2 .. Len(route.stops)
        PROVE  route.stops[i].dist - route.stops[i - 1].dist >= StopSpacing
    <3>1. i \in 2 .. Len(stops) /\ i \in 1 .. Len(stops) /\ i - 1 \in 1 .. Len(stops)
      BY <2>5, <2>6
    <3> QED BY <2>4, <2>5, <3>1 DEF Apart
  <2>7. ASSUME NEW i \in NearLine(line, Candidates),
               \A j \in NearLine(line, Candidates) \ {i} :
                  Abs(OnLine(line, Candidates[i]).dist - OnLine(line, Candidates[j]).dist) >= StopSpacing
        PROVE  \E k \in DOMAIN route.stops : route.stops[k].id = Candidates[i].id
    <3>1. PICK k \in DOMAIN stops : stops[k] = Candidates[i]
      BY <2>4, <2>7 DEF NoneMissed
    <3> QED BY <2>5, <3>1
  <2> QED BY <2>5, <2>6, <2>7 DEF InferredStopsSpaced, NearLine, OnLine
<1> QED BY <1>6, <1>7 DEF IngestedRoute

(* Of any relation, with any candidates and tolerances: ways that chain    *)
(* end to end, the first as it was drawn and the others either way, are    *)
(* stitched to their full length; inferred stops are at least the spacing  *)
(* apart, and none far from all others is left out (reconcile.py 40-61,    *)
(* 147-174).  A first way drawn backwards is not among them: the line runs *)
(* over it twice.                                                          *)
THEOREM WholeAndSpaced == QueriesSpec => []IngestedRoute
<1>1. QueriesInit => FromRelation
  BY DEF QueriesInit, Init, FromRelation
<1>2. FromRelation /\ [QueriesNext]_<<vars, files, loaded>> => FromRelation'
  <2> SUFFICES ASSUME FromRelation, [QueriesNext]_<<vars, files, loaded>> PROVE FromRelation'
    OBVIOUS
  <2>1. UNCHANGED <<relation, route>>
    BY DEF QueriesNext, Next, Ping, PingSend, ScoreRead, ScoreAnswer, WatchRead, WatchEmit, Fails,
                         Forward, Restart, Tick, vars
  <2> QED BY <2>1 DEF FromRelation
<1>3. FromRelation => IngestedRoute
  BY WellIngested
<1> QED BY <1>1, <1>2, <1>3, PTL DEF QueriesSpec

(***************************************************************************)
(* What the answers take of the files and of the snapshot loaded of them.  *)
(***************************************************************************)

IsServed(dir) ==
    /\ Len(dir.stops) \in Nat /\ DOMAIN dir.stops = 1 .. Len(dir.stops)
    /\ DOMAIN dir.segs = 1 .. Len(dir.stops) - 1
    /\ \A i \in DOMAIN dir.stops : dir.stops[i].at \in Point /\ dir.stops[i].dist \in Nat
    /\ \A i \in DOMAIN dir.segs :
          /\ dir.segs[i].length = Abs(dir.stops[i + 1].dist - dir.stops[i].dist)
          /\ dir.segs[i].avgSpeed \in (Nat \ {0}) \cup {NoBaseline}

(* Its stops are some of those that QueryAssumption puts in one place.     *)
StopsKnown(dir) ==
    \A i \in DOMAIN dir.stops :
       \E s \in StopsThere : s.id = dir.stops[i].id /\ s.at = dir.stops[i].at

IsFiles(F) ==
    /\ Len(F) \in Nat /\ DOMAIN F = 1 .. Len(F)
    /\ \A d \in DOMAIN F : IsServed(F[d].dir) /\ StopsKnown(F[d].dir) /\ F[d].rank \in Int

(* The stops of the surveyed direction.                                    *)
LEMMA Surveyed ==
  ASSUME NEW dir, IsSurveyed(dir)
  PROVE  IsServed(dir)
<1>1. dir.stops \in Seq(Range(dir.stops)) /\ dir.segs \in Seq(Range(dir.segs)) /\ Len(dir.segs) = Len(dir.stops) - 1
      /\ \A s \in Range(dir.stops) : s.at \in Point /\ s.dist \in Nat
  BY DEF IsSurveyed
<1>2. /\ Len(dir.stops) \in Nat /\ DOMAIN dir.stops = 1 .. Len(dir.stops)
      /\ Len(dir.segs) \in Nat /\ DOMAIN dir.segs = 1 .. Len(dir.segs)
      /\ \A i \in DOMAIN dir.stops : dir.stops[i] \in Range(dir.stops)
  BY <1>1
<1> QED BY <1>1, <1>2 DEF IsServed, IsSurveyed

(* The direction of the relation, if it is not rejected, is one the        *)
(* snapshot may have.                                                      *)
LEMMA OwnServed ==
  ASSUME NEW rel \in Relations, NEW v \in AvgSpeeds, NEW r,
         MadeOf(r, Range(rel.stops) \cup Range(Candidates), v)
  PROVE  IsServed(r) /\ StopsKnown(r)
<1> DEFINE all == Range(rel.stops) \cup Range(Candidates)
<1>1a0. PICK line \in Line, stops \in Seq(all) : \E speeds :
        /\ Straight(line) /\ Len(stops) >= 2
        /\ \A i \in 1 .. Len(stops) : stops[i].at \in Point
        /\ \A i \in 1 .. Len(stops) - 1 : speeds[i] = v
        /\ r = DirectionOf(line, stops, speeds)
  BY DEF MadeOf
<1>1. PICK speeds :
        /\ Straight(line) /\ Len(stops) >= 2
        /\ \A i \in 1 .. Len(stops) : stops[i].at \in Point
        /\ \A i \in 1 .. Len(stops) - 1 : speeds[i] = v
        /\ r = DirectionOf(line, stops, speeds)
  BY <1>1a0
<1>2. all \subseteq StopsThere
  <2>1. Range(rel.stops) \in {Range(x.stops) : x \in Relations}
    OBVIOUS
  <2> DEFINE A == {Range(x.stops) : x \in Relations}
             B == {Range(o.dir.stops) : o \in Range(Others)}
             C == Range(Candidates)
             R == Range(rel.stops)
  <2>2. \A s : s \in StopsThere <=> (\E T \in A : s \in T) \/ (\E T \in B : s \in T) \/ s \in C
    <3> HIDE DEF A, B, C
    <3>1. StopsThere = C \cup UNION (A \cup B)
      BY DEF StopsThere, A, B, C
    <3> QED BY <3>1
  <2>3. \A s \in all : s \in R \/ s \in C
    OBVIOUS
  <2>4. R \in A
    BY <2>1
  <2> HIDE DEF A, B, C, R, all
  <2> QED BY <2>2, <2>3, <2>4
<1> HIDE DEF all
<1>a. Len(stops) \in Nat /\ Len(stops) >= 1
  BY <1>1
<1>3. HasRows(r, line, stops, speeds)
  BY <1>a, <1>1, Rows
<1>4. \A i \in 1 .. Len(stops) : r.stops[i].dist \in Nat /\ stops[i] \in all
  <2>1. \A i \in 1 .. Len(stops) : ProjectOntoPolyline(stops[i].at, line).dist \in Nat
    BY <1>1, Projected
  <2>2. \A i \in 1 .. Len(stops) : r.stops[i].dist \in Nat
    BY <1>3, <2>1 DEF HasRows
  <2>3. \A i \in 1 .. Len(stops) : stops[i] \in all
    BY <1>1
  <2> QED BY <2>2, <2>3
<1>5. v \in (Nat \ {0}) \cup {NoBaseline}
  BY MapAssumption, QueryAssumption
<1>6. IsServed(r)
  <2>1. /\ Len(r.stops) = Len(stops) /\ DOMAIN r.stops = 1 .. Len(stops) /\ DOMAIN r.segs = 1 .. Len(stops) - 1
        /\ \A i \in 1 .. Len(stops) : r.stops[i].at = stops[i].at
        /\ \A i \in 1 .. Len(stops) - 1 :
              /\ r.segs[i].length = Abs(r.stops[i + 1].dist - r.stops[i].dist)
              /\ r.segs[i].avgSpeed = speeds[i]
    BY <1>3 DEF HasRows
  <2>2. \A i \in 1 .. Len(stops) : stops[i].at \in Point /\ r.stops[i].dist \in Nat
    BY <1>1, <1>4
  <2>3. \A i \in 1 .. Len(stops) - 1 : speeds[i] \in (Nat \ {0}) \cup {NoBaseline}
    BY <1>1, <1>5
  <2> QED BY <1>a, <2>1, <2>2, <2>3 DEF IsServed
<1> QED BY <1>2, <1>3, <1>4, <1>6 DEF StopsKnown, HasRows

(* So are the directions of the other relations.                           *)
LEMMA OthersServed ==
  /\ Len(Others) \in Nat /\ DOMAIN Others = 1 .. Len(Others)
  /\ \A d \in DOMAIN Others : IsServed(Others[d].dir) /\ StopsKnown(Others[d].dir) /\ Others[d].rank \in Int
<1>1. Len(Others) \in Nat /\ DOMAIN Others = 1 .. Len(Others)
      /\ \A d \in DOMAIN Others : Others[d] \in Range(Others)
  BY QueryAssumption
<1>2. ASSUME NEW d \in DOMAIN Others
      PROVE  IsServed(Others[d].dir) /\ StopsKnown(Others[d].dir) /\ Others[d].rank \in Int
  <2>1. IsSurveyed(Others[d].dir) /\ Others[d].rank \in Int /\ Others[d] \in Range(Others)
    BY <1>1, <1>2, QueryAssumption
  <2>2. Range(Others[d].dir.stops) \subseteq StopsThere
    BY <2>1 DEF StopsThere
  <2>3. \A i \in DOMAIN Others[d].dir.stops : Others[d].dir.stops[i] \in Range(Others[d].dir.stops)
    BY DEF Range
  <2> QED BY <2>1, <2>2, <2>3, Surveyed DEF StopsKnown
<1> QED BY <1>1, <1>2

(* Every file describes such a direction, and the snapshot is loaded of    *)
(* them.                                                                   *)
LEMMA FilesServed == QueriesInit => IsFiles(files) /\ loaded = Snapshot
<1> SUFFICES ASSUME QueriesInit PROVE IsFiles(files)
  BY DEF QueriesInit
<1>1. PICK v \in AvgSpeeds :
        route = ReconcileOne(relation, Candidates, [i \in 1 .. Len(relation.stops) + Len(Candidates) |-> v])
  BY DEF QueriesInit, Init
<1>2. relation \in Relations /\ files = Files
  BY DEF QueriesInit, Init
<1>3. route = Rejected \/ (IsServed(route) /\ StopsKnown(route))
  <2>1. route = Rejected \/ MadeOf(route, Range(relation.stops) \cup Range(Candidates), v)
    BY <1>1, <1>2, Origin
  <2> QED BY <1>2, <2>1, OwnServed
<1>4. CASE route = Rejected
  BY <1>2, <1>4, OthersServed DEF Files, IsFiles
<1>5. CASE route # Rejected
  <2> DEFINE own == [ref |-> Own.ref, routeId |-> Own.routeId, name |-> Own.name, rank |-> Own.rank, dir |-> route]
  <2>1. own.dir = route /\ own.rank \in Int /\ files = <<own>> \o Others
    BY <1>2, <1>5, QueryAssumption DEF Files
  <2> HIDE DEF own
  <2>2. Others \in Seq(Range(Others))
    BY QueryAssumption
  <2>3. /\ Len(files) = Len(Others) + 1 /\ Len(Others) \in Nat /\ DOMAIN files = 1 .. Len(Others) + 1
        /\ files[1] = own /\ \A d \in 2 .. Len(Others) + 1 : files[d] = Others[d - 1] /\ d - 1 \in DOMAIN Others
    BY <2>1, <2>2
  <2>4. ASSUME NEW d \in 1 .. Len(Others) + 1
        PROVE  IsServed(files[d].dir) /\ StopsKnown(files[d].dir) /\ files[d].rank \in Int
    <3>1. CASE d = 1
      BY <1>3, <1>5, <2>1, <2>3, <3>1
    <3>2. CASE d \in 2 .. Len(Others) + 1
      BY <2>3, <3>2, OthersServed
    <3> QED BY <2>3, <3>1, <3>2
  <2> QED BY <2>3, <2>4 DEF IsFiles
<1> QED BY <1>4, <1>5

(* Of two stops of one node the places are the same.                       *)
LEMMA OnePlace ==
  ASSUME NEW a, NEW b, StopsKnown(a), StopsKnown(b), NEW i \in DOMAIN a.stops, NEW j \in DOMAIN b.stops,
         a.stops[i].id = b.stops[j].id
  PROVE  a.stops[i].at = b.stops[j].at
  BY QueryAssumption DEF StopsKnown

(* Features numbered 1 .. n, in whatever order, are loaded in that order.  *)
LEMMA Numbered ==
  ASSUME NEW n \in Nat, NEW f, f = [i \in 1 .. n |-> f[i]], \A i \in 1 .. n : f[i].sequence = i
  PROVE  BySequence({f[i] : i \in 1 .. n}) = f
<1> DEFINE S == {f[i] : i \in 1 .. n}
           R == {p \in S \X S : p[1].sequence < p[2].sequence}
<1>1. \A i, j \in 1 .. n : f[i] = f[j] => i = j
  OBVIOUS
<1>2. ASSUME NEW m \in 0 .. n
      PROVE  IsFiniteSet({f[i] : i \in 1 .. m}) /\ Cardinality({f[i] : i \in 1 .. m}) = m
  <2> DEFINE T == {f[i] : i \in 1 .. m}
             g == [i \in 1 .. m |-> f[i]]
  <2>1. IsFiniteSet(1 .. m) /\ Cardinality(1 .. m) = m
    BY <1>2, FS_Interval
  <2>2. g \in Bijection(1 .. m, T)
    <3>1. \A i \in 1 .. m : i \in 1 .. n /\ g[i] = f[i] /\ f[i] \in T
      BY <1>2
    <3>2. g \in [1 .. m -> T]
      BY <3>1
    <3>3. \A i, j \in 1 .. m : g[i] = g[j] => i = j
      BY <1>1, <3>1
    <3>4. \A t \in T : \E i \in 1 .. m : g[i] = t
      BY <3>1
    <3> QED BY <3>2, <3>3, <3>4 DEF Bijection, Injection, Surjection, IsInjective
  <2> HIDE DEF T, g
  <2>3. IsFiniteSet(T) /\ Cardinality(1 .. m) = Cardinality(T)
    BY <2>1, <2>2, FS_Bijection DEF ExistsBijection
  <2> QED BY <2>1, <2>3 DEF T
<1>3. Cardinality(S) = n
  <2>1. n \in 0 .. n
    OBVIOUS
  <2> QED BY <1>2, <2>1
<1>4. ASSUME NEW i \in 1 .. n PROVE Cardinality({y \in S : <<y, f[i]>> \in R}) = i - 1
  <2>1. {y \in S : <<y, f[i]>> \in R} = {f[j] : j \in 1 .. i - 1}
    <3>1. \A j \in 1 .. n : <<f[j], f[i]>> \in R <=> j < i
      OBVIOUS
    <3>2. \A j \in 1 .. i - 1 : j \in 1 .. n /\ j < i
      BY <1>4
    <3>3. \A j \in 1 .. n : j < i => j \in 1 .. i - 1
      BY <1>4
    <3> HIDE DEF R
    <3> QED BY <3>1, <3>2, <3>3
  <2>2. i - 1 \in 0 .. n
    BY <1>4
  <2> QED BY <1>2, <2>1, <2>2
<1>5. BySequence(S) = [i \in 1 .. Cardinality(S) |-> CHOOSE x \in S : Cardinality({y \in S : <<y, x>> \in R}) = i - 1]
  BY DEF BySequence, Arranged
<1>6. ASSUME NEW i \in 1 .. n
      PROVE  (CHOOSE x \in S : Cardinality({y \in S : <<y, x>> \in R}) = i - 1) = f[i]
  <2> DEFINE rank(x) == Cardinality({y \in S : <<y, x>> \in R})
  <2>1. \A j \in 1 .. n : rank(f[j]) = j - 1
    BY <1>4
  <2>2. f[i] \in S /\ \A x \in S : \E j \in 1 .. n : x = f[j]
    OBVIOUS
  <2> HIDE DEF rank, S
  <2>3. rank(f[i]) = i - 1 /\ \A x \in S : rank(x) = i - 1 => x = f[i]
    <3>1. ASSUME NEW x \in S, rank(x) = i - 1 PROVE x = f[i]
      <4>1. PICK j \in 1 .. n : x = f[j]
        BY <2>2
      <4>2. j - 1 = i - 1
        BY <2>1, <3>1, <4>1
      <4> QED BY <4>1, <4>2
    <3> QED BY <2>1, <3>1
  <2>4. (CHOOSE x \in S : rank(x) = i - 1) = f[i]
    BY <2>2, <2>3
  <2> QED BY <2>4 DEF rank
<1> HIDE DEF S, R
<1>7. BySequence(S) = [i \in 1 .. n |-> f[i]]
  BY <1>3, <1>5, <1>6
<1> QED BY <1>7 DEF S

(* A snapshot holds of each direction what the files have.                 *)
IsLoaded(L) ==
    /\ DOMAIN L = DOMAIN files
    /\ \A d \in DOMAIN files :
          /\ L[d].ref = files[d].ref /\ L[d].routeId = files[d].routeId
          /\ L[d].name = files[d].name /\ L[d].rank = files[d].rank
          /\ DOMAIN L[d].stops = DOMAIN files[d].dir.stops
          /\ \A i \in DOMAIN files[d].dir.stops :
                /\ L[d].stops[i].sequence = i /\ L[d].stops[i].node = files[d].dir.stops[i].id
                /\ L[d].stops[i].at = files[d].dir.stops[i].at
          /\ DOMAIN L[d].segs = DOMAIN files[d].dir.segs
          /\ \A i \in DOMAIN files[d].dir.segs :
                /\ L[d].segs[i].sequence = i /\ L[d].segs[i].lengthM = files[d].dir.segs[i].length
                /\ L[d].segs[i].baselineSec =
                      IF files[d].dir.segs[i].avgSpeed = NoBaseline THEN Unknown
                      ELSE files[d].dir.segs[i].length \div files[d].dir.segs[i].avgSpeed

(* Loading keeps what the files say (snapshot.service.ts 118-184).         *)
LEMMA Loaded == IsFiles(files) => IsLoaded(Snapshot)
<1> SUFFICES ASSUME IsFiles(files), NEW d \in DOMAIN files
             PROVE  /\ DOMAIN StopsOf(d) = DOMAIN files[d].dir.stops
                    /\ \A i \in DOMAIN files[d].dir.stops :
                          /\ StopsOf(d)[i].sequence = i /\ StopsOf(d)[i].node = files[d].dir.stops[i].id
                          /\ StopsOf(d)[i].at = files[d].dir.stops[i].at
                    /\ DOMAIN SegmentsOf(d) = DOMAIN files[d].dir.segs
                    /\ \A i \in DOMAIN files[d].dir.segs :
                          /\ SegmentsOf(d)[i].sequence = i
                          /\ SegmentsOf(d)[i].lengthM = files[d].dir.segs[i].length
                          /\ SegmentsOf(d)[i].baselineSec =
                                IF files[d].dir.segs[i].avgSpeed = NoBaseline THEN Unknown
                                ELSE files[d].dir.segs[i].length \div files[d].dir.segs[i].avgSpeed
  BY DEF IsLoaded, Snapshot
<1> DEFINE dir == files[d].dir
           n == Len(dir.stops)
           stop == [i \in DOMAIN dir.stops |-> [sequence |-> i, node |-> dir.stops[i].id, at |-> dir.stops[i].at]]
           seg == [i \in DOMAIN dir.segs |-> [sequence |-> i, lengthM |-> dir.segs[i].length,
                     baselineSec |-> IF dir.segs[i].avgSpeed = NoBaseline THEN Unknown
                                     ELSE dir.segs[i].length \div dir.segs[i].avgSpeed]]
<1>1. n \in Nat /\ DOMAIN dir.stops = 1 .. n /\ DOMAIN dir.segs = 1 .. n - 1
  BY DEF IsFiles, IsServed
<1>2. StopsOf(d) = stop
  <2>1. stop = [i \in 1 .. n |-> stop[i]] /\ \A i \in 1 .. n : stop[i].sequence = i
    BY <1>1
  <2>2. StopsOf(d) = BySequence({stop[i] : i \in 1 .. n})
    <3>1. {stop[i] : i \in 1 .. n} = {[sequence |-> i, node |-> dir.stops[i].id, at |-> dir.stops[i].at] :
                                         i \in DOMAIN dir.stops}
      BY <1>1
    <3> QED BY <3>1 DEF StopsOf
  <2> HIDE DEF stop, n
  <2> QED BY <1>1, <2>1, <2>2, Numbered
<1>3. SegmentsOf(d) = seg
  <2> DEFINE m == IF n = 0 THEN 0 ELSE n - 1
  <2>0. m \in Nat /\ 1 .. m = 1 .. n - 1
    BY <1>1
  <2>1. seg = [i \in 1 .. m |-> seg[i]] /\ \A i \in 1 .. m : seg[i].sequence = i
    BY <1>1, <2>0
  <2>2. SegmentsOf(d) = BySequence({seg[i] : i \in 1 .. m})
    <3>1. {seg[i] : i \in 1 .. m} = {[sequence |-> i, lengthM |-> dir.segs[i].length,
                     baselineSec |-> IF dir.segs[i].avgSpeed = NoBaseline THEN Unknown
                                     ELSE dir.segs[i].length \div dir.segs[i].avgSpeed] : i \in DOMAIN dir.segs}
      BY <1>1, <2>0
    <3> QED BY <3>1 DEF SegmentsOf
  <2> DEFINE T == {seg[i] : i \in 1 .. m}
  <2>3. BySequence(T) = seg
    <3> HIDE DEF seg, m, n, dir
    <3> QED BY <2>0, <2>1, Numbered
  <2>4. SegmentsOf(d) = BySequence(T)
    BY <2>2
  <2> HIDE DEF T, seg
  <2> QED BY <2>3, <2>4
<1>4. /\ DOMAIN stop = DOMAIN dir.stops
      /\ \A i \in DOMAIN dir.stops : /\ stop[i].sequence = i /\ stop[i].node = dir.stops[i].id
                                     /\ stop[i].at = dir.stops[i].at
  OBVIOUS
<1>5. /\ DOMAIN seg = DOMAIN dir.segs
      /\ \A i \in DOMAIN dir.segs :
            /\ seg[i].sequence = i /\ seg[i].lengthM = dir.segs[i].length
            /\ seg[i].baselineSec = IF dir.segs[i].avgSpeed = NoBaseline THEN Unknown
                                    ELSE dir.segs[i].length \div dir.segs[i].avgSpeed
  OBVIOUS
<1> HIDE DEF stop, seg
<1> QED BY <1>2, <1>3, <1>4, <1>5

(***************************************************************************)
(* What is found of a bus and a place.                                     *)
(***************************************************************************)

(* The folds of the search, element by element.                            *)
AddIf(S, kept, x) == IF x \in S THEN Append(kept, x) ELSE kept
Adding(acc, seq, S, T) ==
    /\ acc \in [0 .. Len(seq) -> Seq(T)] /\ acc[0] = <<>>
    /\ \A i \in 1 .. Len(seq) : acc[i] = AddIf(S, acc[i - 1], seq[i])
    /\ Among(seq, S) = acc[Len(seq)]

(* Keeping the elements of a set, element by element.                      *)
LEMMA AmongSteps ==
  ASSUME NEW T, NEW seq \in Seq(T), NEW S
  PROVE  \E acc : Adding(acc, seq, S, T)
<1> DEFINE n == Len(seq)
           X == Seq(T)
           step == [i \in 1 .. n |-> [u \in X |-> AddIf(S, u, seq[i])]]
           Folded(k) == k = [s \in SUBSET DOMAIN seq |->
                               IF s = {} THEN <<>>
                               ELSE AddIf(S, k[s \ {Max(s)}], seq[Max(s)])]
<1>1. n \in Nat /\ DOMAIN seq = 1 .. n /\ \A i \in 1 .. n : seq[i] \in T
  OBVIOUS
<1>2. step \in [1 .. n -> [X -> X]] /\ <<>> \in X
  <2>1. ASSUME NEW i \in 1 .. n, NEW u \in X PROVE AddIf(S, u, seq[i]) \in X
    BY <1>1, AppendProperties DEF AddIf
  <2> QED BY <2>1, EmptySeq
<1>3. Among(seq, S) = (CHOOSE k : Folded(k))[DOMAIN seq]
  BY DEF Among, AddIf, FoldLeft, MapThenFoldSet
<1>4. \E k : Folded(k)
  <2>1. PICK g \in [SUBSET (1 .. n) -> X] : Gathers(g, <<>>, step, n)
    <3> HIDE DEF X, step, n
    <3> QED BY <1>1, <1>2, GatherExists
  <2>2. \A s \in SUBSET (1 .. n) : s # {} => Max(s) \in 1 .. n /\ s \ {Max(s)} \in SUBSET (1 .. n)
    <3> HIDE DEF n
    <3> QED BY <1>1, MaxNat
  <2>3. Folded(g)
    <3> HIDE DEF X
    <3> QED BY <1>1, <2>1, <2>2 DEF Gathers
  <2> QED BY <2>3
<1> DEFINE k == CHOOSE k : Folded(k)
<1>5. Folded(k)
  BY <1>4
<1>6. Recurs(k, <<>>, step, n, X)
  <2>1. \A s \in SUBSET (1 .. n) : s # {} => Max(s) \in 1 .. n
    <3> HIDE DEF n
    <3> QED BY <1>1, MaxNat
  <2> HIDE DEF k, X
  <2> QED BY <1>1, <1>5, <2>1 DEF Recurs
<1>7. PICK acc : Gathered(acc, <<>>, step, n, X) /\ acc[n] = k[1 .. n]
  <2> HIDE DEF k, X, step, n
  <2> QED BY <1>1, <1>2, <1>6, GatherSteps
<1>8. acc \in [0 .. n -> X] /\ acc[0] = <<>> /\ \A i \in 1 .. n : acc[i] = step[i][acc[i - 1]]
  <2> HIDE DEF X, step, n
  <2> QED BY <1>7 DEF Gathered
<1>9. Among(seq, S) = acc[n]
  BY <1>1, <1>3, <1>7
<1>10. ASSUME NEW i \in 1 .. n PROVE acc[i] = AddIf(S, acc[i - 1], seq[i])
  <2>1. acc[i - 1] \in X
    <3>1. i - 1 \in 0 .. n
      BY <1>1
    <3> HIDE DEF X, n
    <3> QED BY <1>8, <3>1
  <2>2. step[i][acc[i - 1]] = AddIf(S, acc[i - 1], seq[i])
    <3> HIDE DEF X, n
    <3> QED BY <2>1
  <2> QED BY <1>8, <2>2
<1> QED BY <1>8, <1>9, <1>10 DEF Adding

(* What is kept so far are the elements of the set met so far.             *)
LEMMA AppendRange ==
  ASSUME NEW T, NEW u \in Seq(T), NEW x \in T
  PROVE  Append(u, x) \in Seq(T) /\ \A y : y \in Range(Append(u, x)) <=> (y \in Range(u) \/ y = x)
<1>1. /\ Append(u, x) \in Seq(T) /\ Len(Append(u, x)) = Len(u) + 1 /\ Len(u) \in Nat
      /\ \A i \in 1 .. Len(u) : Append(u, x)[i] = u[i]
      /\ Append(u, x)[Len(u) + 1] = x
  BY AppendProperties, LenProperties
<1>2. DOMAIN u = 1 .. Len(u) /\ DOMAIN Append(u, x) = 1 .. Len(u) + 1
  BY <1>1
<1> DEFINE w == Append(u, x)  n == Len(u)
<1>3. n \in Nat /\ DOMAIN w = 1 .. n + 1 /\ DOMAIN u = 1 .. n /\ w[n + 1] = x /\ \A i \in 1 .. n : w[i] = u[i]
  BY <1>1, <1>2
<1> HIDE DEF w, n
<1>4. \A y : y \in Range(w) <=> (y \in Range(u) \/ y = x)
  <2>1. \A y : y \in Range(w) <=> \E i \in 1 .. n + 1 : y = w[i]
    BY <1>3 DEF Range
  <2>2. \A y : y \in Range(u) <=> \E i \in 1 .. n : y = u[i]
    BY <1>3 DEF Range
  <2>3. \A i \in 1 .. n + 1 : i \in 1 .. n \/ i = n + 1
    BY <1>3
  <2>4. \A i \in 1 .. n : i \in 1 .. n + 1
    BY <1>3
  <2>5. n + 1 \in 1 .. n + 1
    BY <1>3
  <2> QED BY <1>3, <2>1, <2>2, <2>3, <2>4, <2>5
<1> QED BY <1>1, <1>4 DEF w

(* Keeping finds exactly the elements that are in the set, first to last.  *)
LEMMA KeptAmong ==
  ASSUME NEW T, NEW seq \in Seq(T), NEW S
  PROVE  Among(seq, S) \in Seq(T) /\ \A x : x \in Range(Among(seq, S)) <=> (x \in Range(seq) /\ x \in S)
<1> DEFINE n == Len(seq)
<1>1. n \in Nat /\ DOMAIN seq = 1 .. n /\ \A i \in 1 .. n : seq[i] \in T
  OBVIOUS
<1>2. PICK acc : Adding(acc, seq, S, T)
  BY AmongSteps
<1>a. /\ acc \in [0 .. n -> Seq(T)] /\ acc[0] = <<>>
      /\ \A i \in 1 .. n : acc[i] = AddIf(S, acc[i - 1], seq[i])
  BY <1>2 DEF Adding
<1> HIDE DEF n
<1> DEFINE P == {i \in 0 .. n : \A x : x \in Range(acc[i]) <=> \E j \in 1 .. i : x = seq[j] /\ x \in S}
<1>3. 0 \in P
  <2>1. Range(acc[0]) = {}
    BY <1>a DEF Range
  <2> QED BY <1>1, <2>1
<1>4. ASSUME NEW i \in 0 .. n - 1, i \in P PROVE i + 1 \in P
  <2>1. i + 1 \in 1 .. n /\ (i + 1) - 1 = i /\ i \in 0 .. n /\ i + 1 \in 0 .. n /\ i \in Nat
    BY <1>1
  <2>2. acc[i + 1] = AddIf(S, acc[i], seq[i + 1]) /\ acc[i] \in Seq(T) /\ seq[i + 1] \in T
    BY <1>1, <1>a, <2>1
  <2>3. \A x : x \in Range(acc[i + 1]) <=> (x \in Range(acc[i]) \/ (x = seq[i + 1] /\ x \in S))
    BY <2>2, AppendRange DEF AddIf
  <2>4. \A x : x \in Range(acc[i]) <=> \E j \in 1 .. i : x = seq[j] /\ x \in S
    BY <1>4
  <2>5. \A j \in 1 .. i + 1 : j \in 1 .. i \/ j = i + 1
    BY <2>1
  <2>6. (\A j \in 1 .. i : j \in 1 .. i + 1) /\ i + 1 \in 1 .. i + 1
    BY <2>1
  <2>7. \A x : x \in Range(acc[i + 1]) <=> \E j \in 1 .. i + 1 : x = seq[j] /\ x \in S
    BY <2>3, <2>4, <2>5, <2>6
  <2> QED BY <2>1, <2>7
<1>5. \A i \in 0 .. n : i \in P
  <2>1. \A i \in 0 .. n - 1 : i \in P => i + 1 \in P
    <3> HIDE DEF P
    <3> QED BY <1>4
  <2> HIDE DEF P
  <2> QED BY <1>1, <1>3, <2>1, Upwards
<1>6. \A x : x \in Range(acc[n]) <=> \E j \in 1 .. n : x = seq[j] /\ x \in S
  <2>1. n \in P
    <3> HIDE DEF P
    <3> QED BY <1>1, <1>5
  <2> QED BY <2>1
<1>7. acc[n] \in Seq(T)
  BY <1>1, <1>a
<1>8. \A x : x \in Range(seq) <=> \E j \in 1 .. n : x = seq[j]
  BY <1>1 DEF Range
<1>9. Among(seq, S) = acc[n]
  BY <1>2 DEF n, Adding
<1> QED BY <1>6, <1>7, <1>8, <1>9

AddCalls(S, all, d) == all \o Calling(S, d)
AllCalling(S, seq) == FoldLeft(LAMBDA all, d : all \o Calling(S, d), <<>>, seq)
JoiningCalls(acc, seq, S, T) ==
    /\ acc \in [0 .. Len(seq) -> Seq(T)] /\ acc[0] = <<>>
    /\ \A i \in 1 .. Len(seq) : acc[i] = AddCalls(S, acc[i - 1], seq[i])
    /\ AllCalling(S, seq) = acc[Len(seq)]

(* Collecting the stops of directions, direction by direction.             *)
LEMMA CallingSteps ==
  ASSUME NEW T, NEW D, NEW seq \in Seq(D), NEW S, \A d \in D : Calling(S, d) \in Seq(T)
  PROVE  \E acc : JoiningCalls(acc, seq, S, T)
<1> DEFINE n == Len(seq)
           X == Seq(T)
           step == [i \in 1 .. n |-> [u \in X |-> AddCalls(S, u, seq[i])]]
           Folded(k) == k = [s \in SUBSET DOMAIN seq |->
                               IF s = {} THEN <<>>
                               ELSE AddCalls(S, k[s \ {Max(s)}], seq[Max(s)])]
<1>1. n \in Nat /\ DOMAIN seq = 1 .. n /\ \A i \in 1 .. n : seq[i] \in D
  OBVIOUS
<1>2. step \in [1 .. n -> [X -> X]] /\ <<>> \in X
  <2>1. ASSUME NEW i \in 1 .. n, NEW u \in X PROVE AddCalls(S, u, seq[i]) \in X
    BY <1>1, ConcatProperties DEF AddCalls
  <2> QED BY <2>1, EmptySeq
<1>3. AllCalling(S, seq) = (CHOOSE k : Folded(k))[DOMAIN seq]
  BY DEF AllCalling, AddCalls, FoldLeft, MapThenFoldSet
<1>4. \E k : Folded(k)
  <2>1. PICK g \in [SUBSET (1 .. n) -> X] : Gathers(g, <<>>, step, n)
    <3> HIDE DEF X, step, n
    <3> QED BY <1>1, <1>2, GatherExists
  <2>2. \A s \in SUBSET (1 .. n) : s # {} => Max(s) \in 1 .. n /\ s \ {Max(s)} \in SUBSET (1 .. n)
    <3> HIDE DEF n
    <3> QED BY <1>1, MaxNat
  <2>3. Folded(g)
    <3> HIDE DEF X
    <3> QED BY <1>1, <2>1, <2>2 DEF Gathers
  <2> QED BY <2>3
<1> DEFINE k == CHOOSE k : Folded(k)
<1>5. Folded(k)
  BY <1>4
<1>6. Recurs(k, <<>>, step, n, X)
  <2>1. \A s \in SUBSET (1 .. n) : s # {} => Max(s) \in 1 .. n
    <3> HIDE DEF n
    <3> QED BY <1>1, MaxNat
  <2> HIDE DEF k, X
  <2> QED BY <1>1, <1>5, <2>1 DEF Recurs
<1>7. PICK acc : Gathered(acc, <<>>, step, n, X) /\ acc[n] = k[1 .. n]
  <2> HIDE DEF k, X, step, n
  <2> QED BY <1>1, <1>2, <1>6, GatherSteps
<1>8. acc \in [0 .. n -> X] /\ acc[0] = <<>> /\ \A i \in 1 .. n : acc[i] = step[i][acc[i - 1]]
  <2> HIDE DEF X, step, n
  <2> QED BY <1>7 DEF Gathered
<1>9. AllCalling(S, seq) = acc[n]
  BY <1>1, <1>3, <1>7
<1>10. ASSUME NEW i \in 1 .. n PROVE acc[i] = AddCalls(S, acc[i - 1], seq[i])
  <2>1. acc[i - 1] \in X
    <3>1. i - 1 \in 0 .. n
      BY <1>1
    <3> HIDE DEF X, n
    <3> QED BY <1>8, <3>1
  <2>2. step[i][acc[i - 1]] = AddCalls(S, acc[i - 1], seq[i])
    <3> HIDE DEF X, n
    <3> QED BY <2>1
  <2> QED BY <1>8, <2>2
<1> QED BY <1>8, <1>9, <1>10 DEF JoiningCalls

(* What is collected so far are the stops of the directions met so far.    *)
LEMMA JoinRange ==
  ASSUME NEW T, NEW u \in Seq(T), NEW v \in Seq(T)
  PROVE  u \o v \in Seq(T) /\ \A y : y \in Range(u \o v) <=> (y \in Range(u) \/ y \in Range(v))
<1> DEFINE w == u \o v  n == Len(u)  m == Len(v)
<1>1. /\ w \in Seq(T) /\ Len(w) = n + m /\ n \in Nat /\ m \in Nat
      /\ \A i \in 1 .. n + m : w[i] = IF i <= n THEN u[i] ELSE v[i - n]
  BY ConcatProperties, LenProperties
<1>2. DOMAIN u = 1 .. n /\ DOMAIN v = 1 .. m /\ DOMAIN w = 1 .. n + m
  BY <1>1, LenProperties
<1> HIDE DEF w, n, m
<1>3. \A i \in 1 .. n : i \in 1 .. n + m /\ w[i] = u[i]
  BY <1>1
<1>4. \A i \in 1 .. m : i + n \in 1 .. n + m /\ w[i + n] = v[i]
  BY <1>1
<1>5. \A i \in 1 .. n + m : (i \in 1 .. n /\ w[i] = u[i]) \/ (i - n \in 1 .. m /\ w[i] = v[i - n])
  BY <1>1
<1>6. \A y : y \in Range(w) <=> (y \in Range(u) \/ y \in Range(v))
  <2>1. /\ \A y : y \in Range(w) <=> \E i \in 1 .. n + m : y = w[i]
        /\ \A y : y \in Range(u) <=> \E i \in 1 .. n : y = u[i]
        /\ \A y : y \in Range(v) <=> \E i \in 1 .. m : y = v[i]
    BY <1>2 DEF Range
  <2>2. \A y : y \in Range(w) => (y \in Range(u) \/ y \in Range(v))
    BY <2>1, <1>5
  <2>3. \A y : y \in Range(u) => y \in Range(w)
    BY <2>1, <1>3
  <2>4. \A y : y \in Range(v) => y \in Range(w)
    BY <2>1, <1>4
  <2> QED BY <2>2, <2>3, <2>4
<1> QED BY <1>1, <1>6 DEF w

(* Collecting finds exactly the stops of those directions.                 *)
LEMMA CallingAll ==
  ASSUME NEW T, NEW D, NEW seq \in Seq(D), NEW S, \A d \in D : Calling(S, d) \in Seq(T)
  PROVE  /\ AllCalling(S, seq) \in Seq(T)
         /\ \A x : x \in Range(AllCalling(S, seq)) <=> \E d \in Range(seq) : x \in Range(Calling(S, d))
<1> DEFINE n == Len(seq)
<1>1. n \in Nat /\ DOMAIN seq = 1 .. n /\ \A i \in 1 .. n : seq[i] \in D
  OBVIOUS
<1>2. PICK acc : JoiningCalls(acc, seq, S, T)
  BY CallingSteps
<1>a. /\ acc \in [0 .. n -> Seq(T)] /\ acc[0] = <<>>
      /\ \A i \in 1 .. n : acc[i] = AddCalls(S, acc[i - 1], seq[i])
  BY <1>2 DEF JoiningCalls
<1>9. AllCalling(S, seq) = acc[n]
  BY <1>2 DEF n, JoiningCalls
<1> HIDE DEF n
<1> DEFINE In(x, j) == x \in Range(Calling(S, seq[j]))
           P == {i \in 0 .. n : \A x : x \in Range(acc[i]) <=> \E j \in 1 .. i : In(x, j)}
<1>3. 0 \in P
  <2>1. Range(acc[0]) = {}
    BY <1>a DEF Range
  <2> HIDE DEF In
  <2> QED BY <1>1, <2>1
<1>4. ASSUME NEW i \in 0 .. n - 1, i \in P PROVE i + 1 \in P
  <2>1. i + 1 \in 1 .. n /\ (i + 1) - 1 = i /\ i \in 0 .. n /\ i + 1 \in 0 .. n /\ i \in Nat
    BY <1>1
  <2>2. acc[i + 1] = AddCalls(S, acc[i], seq[i + 1]) /\ acc[i] \in Seq(T) /\ seq[i + 1] \in D
    BY <1>1, <1>a, <2>1
  <2>3. \A x : x \in Range(acc[i + 1]) <=> (x \in Range(acc[i]) \/ In(x, i + 1))
    BY <2>2, JoinRange DEF AddCalls
  <2>4. \A x : x \in Range(acc[i]) <=> \E j \in 1 .. i : In(x, j)
    <3> HIDE DEF In
    <3> QED BY <1>4
  <2>5. \A j \in 1 .. i + 1 : j \in 1 .. i \/ j = i + 1
    BY <2>1
  <2>6. (\A j \in 1 .. i : j \in 1 .. i + 1) /\ i + 1 \in 1 .. i + 1
    BY <2>1
  <2> HIDE DEF In
  <2>7. \A x : x \in Range(acc[i + 1]) <=> \E j \in 1 .. i + 1 : In(x, j)
    BY <2>3, <2>4, <2>5, <2>6
  <2> QED BY <2>1, <2>7
<1>5. \A i \in 0 .. n : i \in P
  <2>1. \A i \in 0 .. n - 1 : i \in P => i + 1 \in P
    <3> HIDE DEF P
    <3> QED BY <1>4
  <2> HIDE DEF P
  <2> QED BY <1>1, <1>3, <2>1, Upwards
<1>6. \A x : x \in Range(acc[n]) <=> \E j \in 1 .. n : In(x, j)
  <2>1. n \in P
    <3> HIDE DEF P
    <3> QED BY <1>1, <1>5
  <2> HIDE DEF In
  <2> QED BY <2>1
<1>7. acc[n] \in Seq(T)
  BY <1>1, <1>a
<1>8. \A x : (\E j \in 1 .. n : In(x, j)) <=> \E d \in Range(seq) : x \in Range(Calling(S, d))
  BY <1>1 DEF Range
<1> QED BY <1>6, <1>7, <1>8, <1>9

(* Directions are named in turn; every one is listed.                      *)
LEMMA Listed ==
  ASSUME IsFiles(files), IsLoaded(loaded)
  PROVE  /\ ListRoutes(loaded) \in Seq(DOMAIN files)
         /\ \A d : d \in Range(ListRoutes(loaded)) <=> d \in DOMAIN files
<1> DEFINE D == DOMAIN files
           before(d, e) == \/ loaded[d].rank < loaded[e].rank
                           \/ loaded[d].rank = loaded[e].rank /\ d < e
           R == {p \in D \X D : before(p[1], p[2])}
<1>1. DOMAIN loaded = D /\ D = 1 .. Len(files) /\ Len(files) \in Nat
      /\ \A d \in D : loaded[d].rank \in Int /\ d \in Int
  BY DEF IsFiles, IsLoaded
<1>2. ListRoutes(loaded) = Arranged(D, R)
  BY <1>1 DEF ListRoutes
<1>3. IsFiniteSet(D)
  BY <1>1, FS_Interval
<1>4. StrictOrder(R, D)
  <2>1. \A d, e \in D : <<d, e>> \in R <=> before(d, e)
    OBVIOUS
  <2> HIDE DEF R, D
  <2>2. \A d, e \in D : ~before(d, d) /\ (d # e => before(d, e) \/ before(e, d))
    BY <1>1
  <2>3. \A d, e, g \in D : before(d, e) /\ before(e, g) => before(d, g)
    BY <1>1
  <2> HIDE DEF before
  <2> QED BY <2>1, <2>2, <2>3 DEF StrictOrder
<1> DEFINE t == Arranged(D, R)
<1>5. IsArranged(t, R, D)
  <2> HIDE DEF R, D
  <2> QED BY <1>3, <1>4, InArrangement
<1> HIDE DEF t, R, D
<1>6. t \in Seq(D) /\ Len(t) = Cardinality(D) /\ DOMAIN t = 1 .. Len(t)
  BY <1>5 DEF IsArranged
<1>7. \A d : d \in Range(t) <=> d \in D
  <2>1. \A d \in D : \E i \in 1 .. Len(t) : t[i] = d
    BY <1>5 DEF IsArranged
  <2>2. \A i \in 1 .. Len(t) : t[i] \in D
    BY <1>6
  <2> QED BY <1>6, <2>1, <2>2 DEF Range
<1> QED BY <1>2, <1>6, <1>7 DEF t, D

(* What a bus asked for means, and the stops of those buses.               *)
Numbers(q) == {d \in DOMAIN files : q \in {files[d].ref, files[d].routeId}}
Similar(q) == {d \in DOMAIN files : Includes(files[d].ref, q) \/ Includes(files[d].name, q)}
Means(q) == IF Numbers(q) = {} THEN Similar(q) ELSE Numbers(q)
StopOf(d, i) == [bus |-> d, node |-> files[d].dir.stops[i].id]
CallsOf(d) == {StopOf(d, i) : i \in DOMAIN files[d].dir.stops}

IsMeant(dirs, q) == dirs \in Seq(DOMAIN files) /\ \A d : d \in Range(dirs) <=> d \in Means(q)

(* MatchRoutes finds the buses meant, and nothing else.                    *)
LEMMA RoutesMeant ==
  ASSUME IsFiles(files), IsLoaded(loaded), NEW q
  PROVE  IsMeant(MatchRoutes(loaded, q), q)
<1>1. {d \in DOMAIN loaded : q \in {loaded[d].ref, loaded[d].routeId}} = Numbers(q)
  BY DEF IsLoaded, Numbers
<1>2. Alike(loaded, q) = Similar(q)
  BY DEF IsLoaded, Alike, Similar
<1>3. MatchRoutes(loaded, q) = Among(ListRoutes(loaded), Means(q))
  BY <1>1, <1>2 DEF MatchRoutes, Means
<1>4. Means(q) \subseteq DOMAIN files
  BY DEF Means, Similar, Numbers
<1>5. /\ Among(ListRoutes(loaded), Means(q)) \in Seq(DOMAIN files)
      /\ \A d : d \in Range(Among(ListRoutes(loaded), Means(q)))
                   <=> (d \in Range(ListRoutes(loaded)) /\ d \in Means(q))
  BY Listed, KeptAmong
<1>6. \A d : d \in Range(ListRoutes(loaded)) <=> d \in DOMAIN files
  BY Listed
<1> DEFINE t == Among(ListRoutes(loaded), Means(q))
<1>7. t \in Seq(DOMAIN files) /\ \A d : d \in Range(t) <=> d \in Means(q)
  <2> HIDE DEF t
  <2>1. \A d : d \in Range(t) <=> (d \in Range(ListRoutes(loaded)) /\ d \in Means(q))
    BY <1>5 DEF t
  <2> QED BY <1>4, <1>5, <1>6, <2>1 DEF t
<1> QED BY <1>3, <1>7 DEF IsMeant

(* The stops looked at are those of the buses found.                       *)
LEMMA Stopping ==
  ASSUME IsFiles(files), IsLoaded(loaded), NEW q, NEW p
  PROVE  LET stops == AllCalling(loaded, MatchRoutes(loaded, q))
         IN  /\ stops \in Seq(UNION {CallsOf(d) : d \in DOMAIN files})
             /\ \A s : s \in Range(stops) <=> \E d \in Means(q) : s \in CallsOf(d)
<1> DEFINE D == DOMAIN files
           T == UNION {CallsOf(d) : d \in D}
           stops == AllCalling(loaded, MatchRoutes(loaded, q))
<1>1. ASSUME NEW d \in D
      PROVE  Calling(loaded, d) \in Seq(T) /\ \A s : s \in Range(Calling(loaded, d)) <=> s \in CallsOf(d)
  <2> DEFINE n == Len(files[d].dir.stops)
             c == Calling(loaded, d)
  <2>1. /\ n \in Nat /\ DOMAIN files[d].dir.stops = 1 .. n /\ DOMAIN loaded[d].stops = 1 .. n
        /\ \A i \in 1 .. n : loaded[d].stops[i].node = files[d].dir.stops[i].id
    BY DEF IsFiles, IsServed, IsLoaded
  <2>2. c = [i \in 1 .. n |-> StopOf(d, i)]
    <3> HIDE DEF n
    <3> QED BY <2>1 DEF Calling, StopOf
  <2>3. CallsOf(d) = {StopOf(d, i) : i \in 1 .. n}
    BY <2>1 DEF CallsOf
  <2> HIDE DEF n, c
  <2>4. c \in [1 .. n -> T]
    BY <2>2, <2>3
  <2>5. c \in Seq(T)
    <3> HIDE DEF T
    <3> QED BY <2>1, <2>4, Sequenced
  <2>6. \A s : s \in Range(c) <=> s \in CallsOf(d)
    BY <2>2, <2>3 DEF Range
  <2> QED BY <2>5, <2>6 DEF c
<1>2a. IsMeant(MatchRoutes(loaded, q), q)
  BY RoutesMeant
<1>2. MatchRoutes(loaded, q) \in Seq(D) /\ \A d : d \in Range(MatchRoutes(loaded, q)) <=> d \in Means(q)
  BY <1>2a DEF IsMeant
<1>3. /\ stops \in Seq(T)
      /\ \A x : x \in Range(stops) <=> \E d \in Range(MatchRoutes(loaded, q)) : x \in Range(Calling(loaded, d))
  <2> HIDE DEF T, D
  <2> QED BY <1>1, <1>2, CallingAll
<1>4. Means(q) \subseteq D
  BY DEF Means, Similar, Numbers
<1> QED BY <1>1, <1>2, <1>3, <1>4

(* What is found for a place, if anything is, and when nothing is.         *)
Found(q, p) == MatchStop(loaded, MatchRoutes(loaded, q), p)
IsStop(s, q) == \E d \in Means(q) : \E i \in DOMAIN files[d].dir.stops : s = StopOf(d, i)

(* MatchStop finds a stop that fits, an exact one first, whenever there is *)
(* one.                                                                    *)
LEMMA PlaceFound ==
  ASSUME IsFiles(files), IsLoaded(loaded), NEW q, NEW p \in Texts
  PROVE  /\ Found(q, p) = <<>> => \A s : IsStop(s, q) => ~Includes(StopNames[s.node], p)
         /\ Found(q, p) # <<>> =>
               /\ IsStop(Found(q, p)[1], q) /\ Includes(StopNames[Found(q, p)[1].node], p)
               /\ (\E s : IsStop(s, q) /\ StopNames[s.node] = p) => StopNames[Found(q, p)[1].node] = p
<1> DEFINE T == UNION {CallsOf(d) : d \in DOMAIN files}
           stops == AllCalling(loaded, MatchRoutes(loaded, q))
           called == {s \in Range(stops) : StopNames[s.node] = p}
           like == {s \in Range(stops) : Includes(StopNames[s.node], p)}
           f == Among(stops, called)
           g == Among(stops, like)
<1>1. stops \in Seq(T) /\ \A s : s \in Range(stops) <=> IsStop(s, q)
  BY Stopping DEF IsStop, CallsOf
<1>2. Found(q, p) = f \o g
  BY DEF Found, MatchStop, AllCalling
<1>3. \A s : s \in called <=> (IsStop(s, q) /\ StopNames[s.node] = p)
  BY <1>1
<1>4. \A s : s \in like <=> (IsStop(s, q) /\ Includes(StopNames[s.node], p))
  BY <1>1
<1>5. \A s \in called : Includes(StopNames[s.node], p)
  BY QueryAssumption DEF Includes
<1> HIDE DEF T, called, like, stops
<1>6. /\ f \in Seq(T) /\ g \in Seq(T)
      /\ \A s : s \in Range(f) <=> s \in Range(stops) /\ s \in called
      /\ \A s : s \in Range(g) <=> s \in Range(stops) /\ s \in like
  BY <1>1, KeptAmong
<1>7. \A s : (s \in Range(f) <=> s \in called) /\ (s \in Range(g) <=> s \in like)
  BY <1>6 DEF called, like
<1> HIDE DEF f, g
<1>8. \A u \in Seq(T) : u # <<>> => 1 \in DOMAIN u /\ Len(u) \in Nat /\ Len(u) >= 1 /\ u[1] \in Range(u)
  BY DEF Range
<1>9. Range(<<>>) = {}
  BY DEF Range
<1>10. CASE f # <<>>
  <2>1. f \o g # <<>> /\ (f \o g)[1] = f[1]
    BY <1>6, <1>8, <1>10, ConcatProperties, LenProperties
  <2>2. f[1] \in called
    BY <1>6, <1>7, <1>8, <1>10
  <2> QED BY <1>2, <1>3, <1>5, <2>1, <2>2
<1>11. CASE f = <<>> /\ g # <<>>
  <2>1. f \o g = g
    BY <1>6, <1>11
  <2>2. g[1] \in like /\ ~ \E s : s \in called
    BY <1>6, <1>7, <1>8, <1>9, <1>11
  <2> QED BY <1>2, <1>3, <1>4, <1>11, <2>1, <2>2
<1>12. CASE f = <<>> /\ g = <<>>
  <2>1. f \o g = <<>> /\ ~ \E s : s \in like
    BY <1>7, <1>9, <1>12
  <2> QED BY <1>2, <1>4, <2>1
<1> QED BY <1>10, <1>11, <1>12

Answered(found, q, p) ==
    /\ found.found = "no bus" <=> Means(q) = {}
    /\ found.found # "no bus" => found.bus \in Means(q)
    /\ found.found = "no place" => \A s : IsStop(s, q) => ~Includes(StopNames[s.node], p)
    /\ found.found = "both" =>
          /\ Calls(found.bus, found.node) /\ Includes(StopNames[found.node], p)
          /\ (\E s : IsStop(s, q) /\ StopNames[s.node] = p) => StopNames[found.node] = p

(* Search, taken together.                                                 *)
LEMMA Answers ==
  ASSUME IsFiles(files), IsLoaded(loaded), NEW q \in Texts, NEW p \in Texts
  PROVE  Answered(Search(loaded, q, p), q, p)
<1> DEFINE dirs == MatchRoutes(loaded, q)
           f == Found(q, p)
<1>1. IsMeant(dirs, q)
  BY RoutesMeant
<1>2. Search(loaded, q, p) = IF dirs = <<>> THEN [found |-> "no bus"]
                             ELSE IF f = <<>> THEN [found |-> "no place", bus |-> dirs[1]]
                             ELSE [found |-> "both", bus |-> f[1].bus, node |-> f[1].node]
  BY DEF Search, Found
<1>3. (dirs = <<>> <=> Means(q) = {}) /\ (dirs # <<>> => dirs[1] \in Means(q))
  <2>1. dirs # <<>> => 1 \in DOMAIN dirs
    BY <1>1 DEF IsMeant
  <2>2. Range(<<>>) = {}
    BY DEF Range
  <2> HIDE DEF dirs
  <2> QED BY <1>1, <2>1, <2>2 DEF Range, IsMeant
<1>4. f # <<>> => f[1].bus \in Means(q) /\ Calls(f[1].bus, f[1].node)
  <2>1. \A s : IsStop(s, q) => s.bus \in Means(q) /\ Calls(s.bus, s.node)
    BY DEF IsStop, StopOf, Calls
  <2> HIDE DEF f
  <2> QED BY PlaceFound, <2>1 DEF f
<1>5. /\ f = <<>> => \A s : IsStop(s, q) => ~Includes(StopNames[s.node], p)
      /\ f # <<>> => /\ Includes(StopNames[f[1].node], p)
                     /\ (\E s : IsStop(s, q) /\ StopNames[s.node] = p) => StopNames[f[1].node] = p
  BY PlaceFound
<1> HIDE DEF dirs, f
<1>6. CASE dirs = <<>>
  <2> DEFINE found == Search(loaded, q, p)
  <2>1. found = [found |-> "no bus"]
    BY <1>2, <1>6
  <2> HIDE DEF found
  <2>2. found.found = "no bus"
    BY <2>1
  <2>3. Answered(found, q, p)
    BY <1>3, <1>6, <2>2 DEF Answered
  <2> QED BY <2>3 DEF found
<1>7. CASE dirs # <<>> /\ f = <<>>
  <2> DEFINE found == Search(loaded, q, p)
  <2>1. found = [found |-> "no place", bus |-> dirs[1]]
    BY <1>2, <1>7
  <2> HIDE DEF found
  <2>2. found.found = "no place" /\ found.bus = dirs[1]
    BY <2>1
  <2>3. Answered(found, q, p)
    BY <1>3, <1>5, <1>7, <2>2 DEF Answered
  <2> QED BY <2>3 DEF found
<1>8. CASE dirs # <<>> /\ f # <<>>
  <2> DEFINE found == Search(loaded, q, p)
  <2>1. found = [found |-> "both", bus |-> f[1].bus, node |-> f[1].node]
    BY <1>2, <1>8
  <2> HIDE DEF found
  <2>2. found.found = "both" /\ found.bus = f[1].bus /\ found.node = f[1].node
    BY <2>1
  <2>3. Answered(found, q, p)
    BY <1>3, <1>4, <1>5, <1>8, <2>2 DEF Answered
  <2> QED BY <2>3 DEF found
<1> QED BY <1>6, <1>7, <1>8

CallsAt(q) == {n \in Node : \E d \in Means(q) : Calls(d, n)}

(* So the answer is what was asked for.                                    *)
LEMMA Searched ==
  ASSUME IsFiles(files), IsLoaded(loaded)
  PROVE  SearchFinds
<1>1. ASSUME NEW bus \in Texts, NEW place \in Texts, NEW found, found = Search(loaded, bus, place)
      PROVE  IsAnswer(bus, place, found)
  <2> DEFINE numbered == {d \in DOMAIN files : bus \in {files[d].ref, files[d].routeId}}
             similar == {d \in DOMAIN files : Includes(files[d].ref, bus) \/ Includes(files[d].name, bus)}
             meant == IF numbered = {} THEN similar ELSE numbered
             nodes == {n \in Node : \E d \in meant : Calls(d, n)}
  <2>1. meant = Means(bus)
    BY DEF Means, Numbers, Similar
  <2>2. nodes = CallsAt(bus)
    <3> HIDE DEF meant
    <3> QED BY <2>1 DEF CallsAt
  <2>3. \A n \in CallsAt(bus) : \E s : IsStop(s, bus) /\ s.node = n
    <3>1. SUFFICES ASSUME NEW n \in CallsAt(bus) PROVE \E s : IsStop(s, bus) /\ s.node = n
      OBVIOUS
    <3>2. PICK d \in Means(bus) : Calls(d, n)
      BY DEF CallsAt
    <3>3. PICK i \in DOMAIN files[d].dir.stops : files[d].dir.stops[i].id = n
      BY <3>2 DEF Calls
    <3>4. IsStop(StopOf(d, i), bus) /\ StopOf(d, i).node = n
      BY <3>3 DEF IsStop, StopOf
    <3> QED BY <3>4
  <2>4. Answered(found, bus, place)
    BY <1>1, Answers
  <2> HIDE DEF meant, nodes
  <2>5. /\ (found.found = "no bus") <=> (meant = {})
        /\ found.found # "no bus" => found.bus \in meant
        /\ (found.found = "no place") => ~\E n \in nodes : Includes(StopNames[n], place)
        /\ found.found = "both" =>
              /\ Calls(found.bus, found.node) /\ Includes(StopNames[found.node], place)
              /\ (\E n \in nodes : StopNames[n] = place) => StopNames[found.node] = place
    BY <2>1, <2>2, <2>3, <2>4 DEF Answered
  <2> QED BY <2>5 DEF IsAnswer, meant, nodes
<1> QED BY <1>1 DEF SearchFinds

(***************************************************************************)
(* What is found around a point.                                           *)
(***************************************************************************)

(* There are no more images than elements.                                 *)
LEMMA ImageFinite ==
  ASSUME NEW S, IsFiniteSet(S), NEW f
  PROVE  IsFiniteSet({f[x] : x \in S})
<1> DEFINE T == {f[x] : x \in S}
           g == [x \in S |-> f[x]]
<1>1. g \in Surjection(S, T)
  BY DEF Surjection
<1> HIDE DEF T, g
<1>2. IsFiniteSet(T)
  BY <1>1, FS_Surjection
<1> QED BY <1>2 DEF T

(* The stops of the directions, each as serving a node.                    *)
Serving(d, i) ==
    [direction |-> d, sequence |-> i, node |-> files[d].dir.stops[i].id, at |-> files[d].dir.stops[i].at]
ServingsOf(d) == {Serving(d, i) : i \in DOMAIN files[d].dir.stops}

(* The servings are the stops of the directions, and finitely many.        *)
LEMMA ServedBy ==
  ASSUME IsFiles(files), IsLoaded(loaded)
  PROVE  /\ Servings(loaded) = UNION {ServingsOf(d) : d \in DOMAIN files}
         /\ IsFiniteSet(Servings(loaded))
<1> DEFINE D == DOMAIN files
           of(d) == {[direction |-> d, sequence |-> s.sequence, node |-> s.node, at |-> s.at] :
                        s \in Range(loaded[d].stops)}
<1>1. DOMAIN loaded = D /\ D = 1 .. Len(files) /\ Len(files) \in Nat
  BY DEF IsFiles, IsLoaded
<1>2. ASSUME NEW d \in D PROVE of(d) = ServingsOf(d) /\ IsFiniteSet(ServingsOf(d))
  <2> DEFINE n == Len(files[d].dir.stops)
             st == loaded[d].stops
             g == [i \in 1 .. n |-> Serving(d, i)]
  <2>1. /\ n \in Nat /\ DOMAIN files[d].dir.stops = 1 .. n /\ DOMAIN st = 1 .. n
        /\ \A i \in 1 .. n : /\ st[i].sequence = i /\ st[i].node = files[d].dir.stops[i].id
                             /\ st[i].at = files[d].dir.stops[i].at
    BY DEF IsFiles, IsServed, IsLoaded
  <2>2. ServingsOf(d) = {g[i] : i \in 1 .. n}
    BY <2>1 DEF ServingsOf
  <2>3. of(d) = {[direction |-> d, sequence |-> st[i].sequence, node |-> st[i].node, at |-> st[i].at] : i \in 1 .. n}
    BY <2>1 DEF Range
  <2>4. \A i \in 1 .. n : [direction |-> d, sequence |-> st[i].sequence, node |-> st[i].node, at |-> st[i].at] = g[i]
    BY <2>1 DEF Serving
  <2>5. of(d) = ServingsOf(d)
    <3> HIDE DEF g, n, st
    <3> QED BY <2>2, <2>3, <2>4
  <2>6. n \in Nat
    BY <2>1
  <2> HIDE DEF g, n
  <2>7. IsFiniteSet({g[i] : i \in 1 .. n})
    <3>1. IsFiniteSet(1 .. n)
      BY <2>6, FS_Interval
    <3> QED BY <3>1, ImageFinite
  <2> QED BY <2>2, <2>5, <2>7
<1> DEFINE F == {ServingsOf(d) : d \in D}
           f == [d \in D |-> ServingsOf(d)]
<1>3. Servings(loaded) = UNION F
  <2>1. Servings(loaded) = UNION {of(d) : d \in D}
    BY <1>1 DEF Servings
  <2>2. {of(d) : d \in D} = F
    <3> HIDE DEF of
    <3> QED BY <1>2
  <2> QED BY <2>1, <2>2
<1>4. IsFiniteSet(F) /\ \A T \in F : IsFiniteSet(T)
  <2>1. F = {f[d] : d \in D}
    OBVIOUS
  <2>2. IsFiniteSet(D)
    BY <1>1, FS_Interval
  <2> HIDE DEF f, D
  <2>3. IsFiniteSet({f[d] : d \in D})
    BY <2>2, ImageFinite
  <2> QED BY <1>2, <2>1, <2>3
<1>5. IsFiniteSet(UNION F)
  <2> HIDE DEF F
  <2> QED BY <1>4, FS_UNION
<1> QED BY <1>3, <1>5

(* What is known of a serving.                                             *)
LEMMA IsServing ==
  ASSUME IsFiles(files), IsLoaded(loaded), NEW s \in Servings(loaded)
  PROVE  /\ s = Serving(s.direction, s.sequence)
         /\ s.direction \in DOMAIN files /\ s.direction \in Int
         /\ s.sequence \in DOMAIN files[s.direction].dir.stops /\ s.sequence \in Int
         /\ s.node = files[s.direction].dir.stops[s.sequence].id
         /\ s.at = files[s.direction].dir.stops[s.sequence].at
         /\ s.at \in Point
<1>1. PICK d \in DOMAIN files : s \in ServingsOf(d)
  BY ServedBy
<1>2. PICK i \in DOMAIN files[d].dir.stops : s = Serving(d, i)
  BY <1>1 DEF ServingsOf
<1>3. s.direction = d /\ s.sequence = i /\ s.node = files[d].dir.stops[i].id /\ s.at = files[d].dir.stops[i].at
  BY <1>2 DEF Serving
<1>4. d \in Int /\ i \in Int /\ files[d].dir.stops[i].at \in Point
  BY <1>1, <1>2 DEF IsFiles, IsServed
<1> QED BY <1>1, <1>2, <1>3, <1>4

(* A node is served by the directions that call at it.                     *)
LEMMA Serves ==
  ASSUME IsFiles(files), IsLoaded(loaded), NEW d \in DOMAIN files, NEW i \in DOMAIN files[d].dir.stops
  PROVE  Serving(d, i) \in Servings(loaded)
<1>1. Serving(d, i) \in ServingsOf(d)
  BY DEF ServingsOf
<1> QED BY <1>1, ServedBy

(* Servings follow each other by direction and then by sequence.           *)
LEMMA TurnOrder ==
  ASSUME IsFiles(files), IsLoaded(loaded)
  PROVE  \A s, t, u \in Servings(loaded) :
            /\ ~Earlier(s, s)
            /\ s # t => Earlier(s, t) \/ Earlier(t, s)
            /\ Earlier(s, t) /\ Earlier(t, u) => Earlier(s, u)
<1>1. \A s \in Servings(loaded) : s.direction \in Int /\ s.sequence \in Int /\ s = Serving(s.direction, s.sequence)
  BY IsServing
<1>2. ASSUME NEW s \in Servings(loaded), NEW t \in Servings(loaded), s # t PROVE Earlier(s, t) \/ Earlier(t, s)
  <2>1. s.direction # t.direction \/ s.sequence # t.sequence
    BY <1>1, <1>2
  <2>2. s.direction \in Int /\ s.sequence \in Int /\ t.direction \in Int /\ t.sequence \in Int
    BY <1>1
  <2> QED BY <2>1, <2>2 DEF Earlier
<1>3. \A s, t, u \in Servings(loaded) : ~Earlier(s, s) /\ (Earlier(s, t) /\ Earlier(t, u) => Earlier(s, u))
  BY <1>1 DEF Earlier
<1> QED BY <1>2, <1>3

(* There are ranks to arrange servings by.                                 *)
LEMMA Turns ==
  ASSUME IsFiles(files), IsLoaded(loaded), NEW S \in SUBSET Servings(loaded)
  PROVE  InTurn(S) \in Seq(S) /\ Range(InTurn(S)) = S /\ (S # {} => InTurn(S)[1] \in S)
<1> DEFINE R == {p \in S \X S : Earlier(p[1], p[2])}
           t == Arranged(S, R)
<1>1. IsFiniteSet(S)
  BY ServedBy, FS_Subset
<1>2. StrictOrder(R, S)
  <2>1. \A a, b \in S : <<a, b>> \in R <=> Earlier(a, b)
    OBVIOUS
  <2> HIDE DEF R
  <2> QED BY <2>1, TurnOrder DEF StrictOrder
<1>3. IsArranged(t, R, S)
  <2> HIDE DEF R
  <2> QED BY <1>1, <1>2, InArrangement
<1>4. InTurn(S) = t
  BY DEF InTurn
<1> HIDE DEF t, R
<1> DEFINE n == Cardinality(S)
<1>5. t \in Seq(S) /\ Len(t) = n /\ n \in Nat /\ DOMAIN t = 1 .. n
      /\ (\A i \in 1 .. n : t[i] \in S) /\ \A x \in S : \E i \in 1 .. n : t[i] = x
  BY <1>3 DEF IsArranged
<1> HIDE DEF n
<1>6. Range(t) = S
  BY <1>5 DEF Range
<1>7. S # {} => t[1] \in S
  BY <1>5
<1> QED BY <1>4, <1>5, <1>6, <1>7

(* How far a node is, by whatever serves it.                               *)
AwayOf(node) == OffsetSq((CHOOSE s \in Servings(loaded) : s.node = node).at, Here)

(* That distance is the same for every serving of the node.                *)
LEMMA OneAway ==
  ASSUME IsFiles(files), IsLoaded(loaded), NEW s \in Servings(loaded)
  PROVE  AwayOf(s.node) = OffsetSq(s.at, Here) /\ AwayOf(s.node) \in Int
<1> DEFINE t == CHOOSE t \in Servings(loaded) : t.node = s.node
<1>1. t \in Servings(loaded) /\ t.node = s.node
  OBVIOUS
<1>2. AwayOf(s.node) = OffsetSq(t.at, Here)
  BY DEF AwayOf
<1> HIDE DEF t
<1>3. t.at = s.at
  <2> DEFINE a == files[t.direction].dir
             b == files[s.direction].dir
  <2>1. /\ t.direction \in DOMAIN files /\ s.direction \in DOMAIN files
        /\ t.sequence \in DOMAIN a.stops /\ s.sequence \in DOMAIN b.stops
        /\ t.node = a.stops[t.sequence].id /\ t.at = a.stops[t.sequence].at
        /\ s.node = b.stops[s.sequence].id /\ s.at = b.stops[s.sequence].at
    BY <1>1, IsServing
  <2>2. StopsKnown(a) /\ StopsKnown(b)
    BY <2>1 DEF IsFiles
  <2> HIDE DEF a, b
  <2>3. a.stops[t.sequence].id = b.stops[s.sequence].id
    BY <1>1, <2>1
  <2>4. a.stops[t.sequence].at = b.stops[s.sequence].at
    BY <2>1, <2>2, <2>3, OnePlace
  <2> QED BY <2>1, <2>4
<1>4. s.at \in Point /\ Here \in Point
  BY IsServing, QueryAssumption
<1>5. OffsetSq(s.at, Here) \in Int
  BY <1>4 DEF OffsetSq, Square, Point
<1> QED BY <1>2, <1>3, <1>5

(* The servings of a node, and its row.                                    *)
ServingNode(node) == {s \in Servings(loaded) : s.node = node}
InReach(radius) == {s \in Servings(loaded) : OffsetSq(s.at, Here) <= Square(radius)}
IsRow(row, radius) ==
    /\ ServingNode(row.node) # {} /\ AwayOf(row.node) \in Int /\ AwayOf(row.node) <= Square(radius)
    /\ Range(row.routes) = ServingNode(row.node) /\ row.routes[1] \in ServingNode(row.node)
    /\ OffsetOf(row) = AwayOf(row.node)
    /\ row = [node |-> row.node, routes |-> InTurn(ServingNode(row.node))]

(* All servings of a node are within reach or none is.                     *)
LEMMA WithinNode ==
  ASSUME IsFiles(files), IsLoaded(loaded), NEW radius, NEW s \in InReach(radius)
  PROVE  {t \in InReach(radius) : t.node = s.node} = ServingNode(s.node)
<1>1. \A t \in Servings(loaded) : t.node = s.node => t \in InReach(radius)
  <2>1. ASSUME NEW t \in Servings(loaded), t.node = s.node PROVE t \in InReach(radius)
    <3>1. s \in Servings(loaded) /\ OffsetSq(s.at, Here) <= Square(radius)
      BY DEF InReach
    <3>2. AwayOf(s.node) = OffsetSq(s.at, Here) /\ AwayOf(t.node) = OffsetSq(t.at, Here)
      BY <3>1, OneAway
    <3>3. OffsetSq(t.at, Here) = OffsetSq(s.at, Here)
      BY <2>1, <3>2
    <3> QED BY <3>1, <3>3 DEF InReach
  <2> QED BY <2>1
<1> QED BY <1>1 DEF ServingNode, InReach

(* There is one row for each node within reach, and it lists every         *)
(* direction.                                                              *)
LEMMA RowsThere ==
  ASSUME IsFiles(files), IsLoaded(loaded), NEW radius
  PROVE  /\ IsFiniteSet(ByNode(InReach(radius)))
         /\ \A row \in ByNode(InReach(radius)) : IsRow(row, radius)
         /\ \A s \in Servings(loaded) :
               AwayOf(s.node) <= Square(radius) => \E row \in ByNode(InReach(radius)) : row.node = s.node
<1> DEFINE S == InReach(radius)
           f == [s \in S |-> s.node]
           N == {f[s] : s \in S}
           row(node) == [node |-> node, routes |-> InTurn({s \in S : s.node = node})]
           g == [node \in N |-> row(node)]
<1>1. ByNode(S) = {g[node] : node \in N}
  <2>1. N = {s.node : s \in S}
    OBVIOUS
  <2> HIDE DEF N, S
  <2> QED BY <2>1 DEF ByNode
<1>2. IsFiniteSet(ByNode(S))
  <2>1. IsFiniteSet(S)
    BY ServedBy, FS_Subset DEF InReach
  <2> HIDE DEF S, f
  <2>2. IsFiniteSet(N)
    BY <2>1, ImageFinite
  <2> HIDE DEF N, g
  <2> QED BY <1>1, <2>2, ImageFinite
<1>3. ASSUME NEW r \in ByNode(S) PROVE IsRow(r, radius)
  <2>0. PICK node \in N : r = row(node)
    <3>1. PICK node \in N : r = g[node]
      <4> HIDE DEF g, N, S
      <4> QED BY <1>1
    <3>2. g[node] = row(node)
      <4> HIDE DEF row, N
      <4> QED BY <3>1
    <3> QED BY <3>1, <3>2
  <2>1. PICK s \in S : r = row(s.node)
    <3>1. PICK s \in S : node = s.node
      OBVIOUS
    <3> HIDE DEF row
    <3> QED BY <2>0, <3>1
  <2> DEFINE G == ServingNode(s.node)
  <2>2. s \in Servings(loaded) /\ OffsetSq(s.at, Here) <= Square(radius)
    BY <2>1 DEF InReach
  <2>3. r = [node |-> s.node, routes |-> InTurn(G)]
    <3>1. {t \in S : t.node = s.node} = G
      BY <2>1, WithinNode
    <3> HIDE DEF G
    <3> QED BY <2>1, <3>1
  <2>4. r.node = s.node /\ r.routes = InTurn(G)
    BY <2>3
  <2>5. s \in G /\ G \in SUBSET Servings(loaded)
    BY <2>2 DEF ServingNode
  <2>6. Range(r.routes) = G /\ r.routes[1] \in G
    <3> HIDE DEF G
    <3> QED BY <2>4, <2>5, Turns
  <2>7. AwayOf(s.node) \in Int /\ AwayOf(s.node) <= Square(radius)
    BY <2>2, OneAway
  <2>8. OffsetOf(r) = AwayOf(s.node)
    <3>1. r.routes[1] \in Servings(loaded) /\ r.routes[1].node = s.node
      BY <2>6 DEF ServingNode
    <3>2. AwayOf(r.routes[1].node) = OffsetSq(r.routes[1].at, Here)
      BY <3>1, OneAway
    <3> QED BY <3>1, <3>2 DEF OffsetOf
  <2> HIDE DEF row
  <2> QED BY <2>3, <2>4, <2>5, <2>6, <2>7, <2>8 DEF IsRow
<1>4. ASSUME NEW s \in Servings(loaded), AwayOf(s.node) <= Square(radius)
      PROVE  \E r \in ByNode(S) : r.node = s.node
  <2>1. s \in S
    BY <1>4, OneAway DEF InReach
  <2>2. s.node \in N
    BY <2>1
  <2>3. g[s.node] \in ByNode(S)
    <3> HIDE DEF g, N
    <3> QED BY <1>1, <2>2
  <2>4. g[s.node].node = s.node
    BY <2>2
  <2> QED BY <2>3, <2>4
<1> QED BY <1>2, <1>3, <1>4

(* The rows are ordered by how far they are.                               *)
LEMMA RowsInOrder ==
  ASSUME IsFiles(files), IsLoaded(loaded), NEW radius, NEW rows, rows = ByNode(InReach(radius))
  PROVE  /\ StopsNear(loaded, radius) = NearestFirst(rows)
         /\ IsArranged(NearestFirst(rows), {p \in rows \X rows : Nearer(p[1], p[2])}, rows)
<1> DEFINE R == {p \in rows \X rows : Nearer(p[1], p[2])}
<1>1. IsFiniteSet(rows) /\ \A r \in rows : IsRow(r, radius)
  BY RowsThere
<1>2. \A r \in rows : /\ OffsetOf(r) \in Int /\ r.routes[1] \in Servings(loaded) /\ r.routes[1].node = r.node
                      /\ r = [node |-> r.node, routes |-> InTurn(ServingNode(r.node))]
  BY <1>1 DEF IsRow, ServingNode
<1>3. \A r, q \in rows : r.routes[1] = q.routes[1] => r = q
  <2>1. SUFFICES ASSUME NEW r \in rows, NEW q \in rows, r.routes[1] = q.routes[1] PROVE r = q
    OBVIOUS
  <2>2. r.node = q.node
    BY <1>2, <2>1
  <2> QED BY <1>2, <2>2
<1>4. StrictOrder(R, rows)
  <2>1. \A a, b \in rows : <<a, b>> \in R <=> Nearer(a, b)
    OBVIOUS
  <2> HIDE DEF R
  <2>2. ASSUME NEW a \in rows, NEW b \in rows, NEW c \in rows
        PROVE  /\ ~Nearer(a, a)
               /\ a # b => Nearer(a, b) \/ Nearer(b, a)
               /\ Nearer(a, b) /\ Nearer(b, c) => Nearer(a, c)
    <3> DEFINE s == a.routes[1]  t == b.routes[1]  u == c.routes[1]
    <3>1. /\ s \in Servings(loaded) /\ t \in Servings(loaded) /\ u \in Servings(loaded) /\ (a # b => s # t)
          /\ OffsetOf(a) \in Int /\ OffsetOf(b) \in Int /\ OffsetOf(c) \in Int
      BY <1>2, <1>3
    <3>2. /\ ~Earlier(s, s) /\ (s # t => Earlier(s, t) \/ Earlier(t, s))
          /\ (Earlier(s, t) /\ Earlier(t, u) => Earlier(s, u))
      <4> HIDE DEF s, t, u
      <4> QED BY <3>1, TurnOrder
    <3>3. /\ Nearer(a, b) <=> (OffsetOf(a) < OffsetOf(b) \/ (OffsetOf(a) = OffsetOf(b) /\ Earlier(s, t)))
          /\ Nearer(b, a) <=> (OffsetOf(b) < OffsetOf(a) \/ (OffsetOf(b) = OffsetOf(a) /\ Earlier(t, s)))
          /\ Nearer(b, c) <=> (OffsetOf(b) < OffsetOf(c) \/ (OffsetOf(b) = OffsetOf(c) /\ Earlier(t, u)))
          /\ Nearer(a, c) <=> (OffsetOf(a) < OffsetOf(c) \/ (OffsetOf(a) = OffsetOf(c) /\ Earlier(s, u)))
          /\ Nearer(a, a) <=> (OffsetOf(a) < OffsetOf(a) \/ (OffsetOf(a) = OffsetOf(a) /\ Earlier(s, s)))
      BY DEF Nearer
    <3> HIDE DEF s, t, u
    <3> QED BY <3>1, <3>2, <3>3
  <2> QED BY <2>1, <2>2 DEF StrictOrder
<1>5. IsArranged(Arranged(rows, R), R, rows)
  <2> HIDE DEF R
  <2> QED BY <1>1, <1>4, InArrangement
<1>6. StopsNear(loaded, radius) = NearestFirst(rows)
  BY DEF StopsNear, InReach
<1> QED BY <1>5, <1>6 DEF NearestFirst

(* The directions that serve a node.                                       *)
LEMMA ServingCalls ==
  ASSUME IsFiles(files), IsLoaded(loaded), NEW node
  PROVE  {s.direction : s \in ServingNode(node)} = {d \in DOMAIN files : Calls(d, node)}
<1>1. ASSUME NEW s \in ServingNode(node) PROVE s.direction \in DOMAIN files /\ Calls(s.direction, node)
  BY IsServing DEF ServingNode, Calls
<1>2. ASSUME NEW d \in DOMAIN files, Calls(d, node) PROVE \E s \in ServingNode(node) : s.direction = d
  <2>1. PICK i \in DOMAIN files[d].dir.stops : files[d].dir.stops[i].id = node
    BY <1>2 DEF Calls
  <2>2. Serving(d, i) \in Servings(loaded)
    BY Serves
  <2>3. Serving(d, i).node = node /\ Serving(d, i).direction = d
    BY <2>1 DEF Serving
  <2> QED BY <2>2, <2>3 DEF ServingNode
<1> QED BY <1>1, <1>2

(* The nearest of an arrangement, and no more than asked for.              *)
IsFirst(found, rows, limit) ==
    /\ Len(found) \in Nat /\ Len(found) <= limit /\ Len(found) <= Len(rows)
    /\ DOMAIN found = 1 .. Len(found) /\ \A i \in 1 .. Len(found) : found[i] = rows[i]
    /\ Len(found) = limit \/ Len(found) = Len(rows)

(* Taking the first of an arrangement leaves none nearer out.              *)
LEMMA Taken ==
  ASSUME NEW S, NEW rows \in Seq(S), NEW limit \in Nat,
         NEW found, found = SubSeq(rows, 1, Min({limit, Len(rows)}))
  PROVE  IsFirst(found, rows, limit)
<1> DEFINE n == Len(rows)  k == Min({limit, n})
<1>0. found = SubSeq(rows, 1, k)
  OBVIOUS
<1>1. n \in Nat
  BY LenProperties
<1> HIDE DEF n
<1>2. k \in Nat /\ k <= limit /\ k <= n /\ (k = limit \/ k = n)
  BY <1>1, MinTwo
<1> HIDE DEF k
<1>3. (\A i \in 1 .. k : i \in 1 .. n) /\ \A i \in 1 .. n : rows[i] \in S
  BY <1>1, <1>2 DEF n
<1>4. /\ found \in Seq(S) /\ Len(found) = k
      /\ \A i \in 1 .. k : found[i] = rows[i]
  <2>1. 1 \in Int /\ k \in Int /\ \A i \in 1 .. k : rows[i] \in S
    BY <1>2, <1>3
  <2> DEFINE t == SubSeq(rows, 1, k)
  <2>2. /\ t \in Seq(S) /\ Len(t) = (IF 1 <= k THEN k - 1 + 1 ELSE 0)
        /\ \A i \in 1 .. k - 1 + 1 : t[i] = rows[1 + i - 1]
    BY <2>1, SubSeqProperties
  <2> HIDE DEF t
  <2>3. k - 1 + 1 = k /\ (IF 1 <= k THEN k - 1 + 1 ELSE 0) = k /\ \A i \in 1 .. k : 1 + i - 1 = i
    BY <1>2
  <2>4. t = found
    BY <1>0 DEF t
  <2> QED BY <2>2, <2>3, <2>4
<1>5. Len(found) = k /\ \A i \in 1 .. k : found[i] = rows[i]
  BY <1>2, <1>4
<1>6. DOMAIN found = 1 .. Len(found)
  BY <1>4, LenProperties
<1> QED BY <1>1, <1>2, <1>5, <1>6 DEF n, IsFirst

(* The first rows of that order are what is asked for.                     *)
LEMMA NearbyShown ==
  ASSUME IsFiles(files), IsLoaded(loaded), NEW radius \in Radii, NEW limit \in Limits
  PROVE  IsNearby(Nearby(loaded, radius, limit), Servings(loaded), radius, limit)
<1> DEFINE S == ByNode(InReach(radius))
           R == {p \in S \X S : Nearer(p[1], p[2])}
           rows == NearestFirst(S)
           found == Nearby(loaded, radius, limit)
           n == Len(rows)
           k == Len(found)
           shownNodes == {row.node : row \in Range(found)}
<1>1. IsArranged(rows, R, S) /\ StopsNear(loaded, radius) = rows
  BY RowsInOrder
<1>2. \A row \in S : IsRow(row, radius)
  BY RowsThere
<1>3. \A s \in Servings(loaded) : AwayOf(s.node) <= Square(radius) => \E row \in S : row.node = s.node
  BY RowsThere
<1>4. \A p, q \in S : <<p, q>> \in R <=> Nearer(p, q)
  OBVIOUS
<1>5. found = SubSeq(rows, 1, Min({limit, Len(rows)}))
  <2> HIDE DEF rows
  <2> QED BY <1>1 DEF Nearby
<1> HIDE DEF S, R, rows, found
<1>6. /\ rows \in Seq(S) /\ n \in Nat /\ (\A i \in 1 .. n : rows[i] \in S)
      /\ (\A x \in S : \E i \in 1 .. n : rows[i] = x)
      /\ \A i, j \in 1 .. n : i < j <=> Nearer(rows[i], rows[j])
  BY <1>1, <1>4 DEF IsArranged
<1>7. /\ k \in Nat /\ k <= limit /\ k <= n /\ DOMAIN found = 1 .. k /\ \A i \in 1 .. k : found[i] = rows[i]
      /\ k = limit \/ k = n
  <2>1. limit \in Nat
    BY QueryAssumption
  <2>2. IsFirst(found, rows, limit)
    <3>1. rows \in Seq(S)
      BY <1>6
    <3> QED BY <1>5, <2>1, <3>1, Taken
  <2> QED BY <2>2 DEF IsFirst
<1>8. limit \in Nat
  BY QueryAssumption
<1> DEFINE away(i) == AwayOf(rows[i].node)
<1>9. \A i \in 1 .. n : away(i) \in Int /\ away(i) <= Square(radius) /\ OffsetOf(rows[i]) = away(i)
  BY <1>2, <1>6 DEF IsRow
<1>10. \A i, j \in 1 .. n : i < j => away(i) <= away(j)
  <2> HIDE DEF away, n
  <2> QED BY SMTT(30), <1>6, <1>9 DEF Nearer
<1>11. \A i, j \in 1 .. n : rows[i].node = rows[j].node => i = j
  <2>1. SUFFICES ASSUME NEW i \in 1 .. n, NEW j \in 1 .. n, rows[i].node = rows[j].node PROVE i = j
    OBVIOUS
  <2>2. rows[i] = rows[j]
    <3>1. IsRow(rows[i], radius) /\ IsRow(rows[j], radius)
      BY <1>2, <1>6
    <3>2. /\ rows[i] = [node |-> rows[i].node, routes |-> InTurn(ServingNode(rows[i].node))]
          /\ rows[j] = [node |-> rows[j].node, routes |-> InTurn(ServingNode(rows[j].node))]
      BY <3>1 DEF IsRow
    <3> QED BY <2>1, <3>2
  <2>3. i \in Int /\ j \in Int
    BY <1>6
  <2>4. ~(i < i) /\ ~(j < j) /\ (i < j <=> i < i) /\ (j < i <=> i < i)
    BY <1>6, <2>2
  <2> QED BY <2>3, <2>4
<1> HIDE DEF n, k
<1>12. k = Cardinality(shownNodes)
  <2> DEFINE f == [i \in 1 .. k |-> found[i].node]
  <2>0. \A i \in 1 .. k : i \in 1 .. n /\ found[i] = rows[i] /\ f[i] = rows[i].node
    BY <1>6, <1>7
  <2>1. shownNodes = {f[i] : i \in 1 .. k}
    BY <1>7 DEF Range
  <2>2. \A i, j \in 1 .. k : f[i] = f[j] => i = j
    BY <1>11, <2>0
  <2>3. f = [i \in 1 .. k |-> f[i]]
    OBVIOUS
  <2> HIDE DEF f, shownNodes
  <2>4. f \in Bijection(1 .. k, shownNodes)
    BY <2>1, <2>2, <2>3 DEF Bijection, Injection, Surjection, IsInjective
  <2>5. IsFiniteSet(1 .. k) /\ Cardinality(1 .. k) = k
    BY <1>7, FS_Interval
  <2> QED BY <2>4, <2>5, FS_Bijection DEF ExistsBijection
<1>13. ASSUME NEW i \in 1 .. k
       PROVE  /\ AwayOf(found[i].node) <= Square(radius)
              /\ {s.direction : s \in Range(found[i].routes)} = {d \in DOMAIN files : Calls(d, found[i].node)}
              /\ \A m \in 1 .. i : AwayOf(found[m].node) <= AwayOf(found[i].node)
  <2>1. i \in 1 .. n /\ found[i] = rows[i] /\ i \in Int
    BY <1>6, <1>7
  <2>2. Range(found[i].routes) = ServingNode(found[i].node)
    BY <1>2, <1>6, <2>1 DEF IsRow
  <2>3. \A m \in 1 .. i : m \in 1 .. n /\ found[m] = rows[m] /\ (m < i \/ m = i)
    BY <1>6, <1>7, <2>1
  <2> QED BY <1>9, <1>10, <2>1, <2>2, <2>3, ServingCalls
<1>14. ASSUME NEW node \in {s.node : s \in Servings(loaded)} \ shownNodes, AwayOf(node) <= Square(radius)
       PROVE  k = limit /\ \A row \in Range(found) : AwayOf(row.node) <= AwayOf(node)
  <2>1. PICK row \in S : row.node = node
    BY <1>3, <1>14
  <2>2. PICK j \in 1 .. n : rows[j] = row
    BY <1>6
  <2>3. j \notin 1 .. k
    <3>1. \A i \in 1 .. k : found[i].node \in shownNodes
      BY <1>7 DEF Range
    <3> QED BY <1>7, <1>14, <2>1, <2>2, <3>1
  <2>4. j > k /\ k # n
    BY <1>6, <1>7, <2>2, <2>3
  <2>5. \A i \in 1 .. k : i \in 1 .. n /\ i < j
    BY <1>6, <1>7, <2>4
  <2>6. \A i \in 1 .. k : AwayOf(found[i].node) <= AwayOf(node)
    BY <1>7, <1>10, <2>1, <2>2, <2>5
  <2>7. \A r \in Range(found) : \E i \in 1 .. k : r = found[i]
    BY <1>7 DEF Range
  <2> QED BY <1>7, <2>4, <2>6, <2>7
<1> HIDE DEF shownNodes
<1>15. /\ k = Cardinality(shownNodes) /\ k <= limit
       /\ \A i \in DOMAIN found :
             /\ AwayOf(found[i].node) <= Square(radius)
             /\ {s.direction : s \in Range(found[i].routes)} = {d \in DOMAIN files : Calls(d, found[i].node)}
             /\ \A m \in 1 .. i : AwayOf(found[m].node) <= AwayOf(found[i].node)
       /\ \A node \in {s.node : s \in Servings(loaded)} \ shownNodes :
             AwayOf(node) <= Square(radius) =>
                k = limit /\ \A row \in Range(found) : AwayOf(row.node) <= AwayOf(node)
  BY <1>7, <1>12, <1>13, <1>14
<1> QED BY <1>15 DEF IsNearby, AwayOf, shownNodes, found, k

(* Whatever the radius and the limit.                                      *)
LEMMA AllNearby ==
  ASSUME IsFiles(files), IsLoaded(loaded)
  PROVE  NearbyComplete
BY NearbyShown DEF NearbyComplete

(***************************************************************************)
(* Journeys: what the segments of the way add up to.                       *)
(***************************************************************************)

LengthsOf(C) == MapThenSumSet(LAMBDA s : s.lengthM, C)
SecondsOf(C) == MapThenSumSet(LAMBDA s : s.baselineSec, C)
Timed(C) == ~\E s \in C : s.baselineSec = Unknown

(* The lengths of segments add up, one by one.                             *)
LEMMA LengthsFold ==
  ASSUME NEW E, IsFiniteSet(E), NEW f, \A x \in E : f[x] = x.lengthM /\ f[x] \in Int
  PROVE  LengthsOf(E) = TotalOf(f, E)
<1> DEFINE Eq(g) == g = [s \in SUBSET E |-> IF s = {} THEN 0
                           ELSE (CHOOSE x \in s : TRUE).lengthM + g[s \ {CHOOSE x \in s : TRUE}]]
<1>1. LengthsOf(E) = (CHOOSE g : Eq(g))[E]
  BY DEF LengthsOf, MapThenSumSet, MapThenFoldSet
<1>2. \A g : Eq(g) <=> Folds(g, f, E)
  <2> SUFFICES ASSUME NEW g PROVE Eq(g) <=> Folds(g, f, E)
    OBVIOUS
  <2> DEFINE summed == [s \in SUBSET E |-> IF s = {} THEN 0
                   ELSE (CHOOSE x \in s : TRUE).lengthM + g[s \ {CHOOSE x \in s : TRUE}]]
             folded == [s \in SUBSET E |-> IF s = {} THEN 0 ELSE f[Pick(s)] + g[s \ {Pick(s)}]]
  <2>1. \A s \in SUBSET E : s # {} => Pick(s) \in E
    BY Picked
  <2>2. \A s \in SUBSET E : s # {} => f[Pick(s)] = Pick(s).lengthM
    BY <2>1
  <2>3. summed = folded
    BY <2>2 DEF Pick
  <2> QED BY <2>3 DEF Folds
<1> HIDE DEF Eq
<1>3. PICK h : Folds(h, f, E)
  BY FoldExists
<1>4. PICK g : Eq(g) /\ LengthsOf(E) = g[E]
  BY <1>1, <1>2, <1>3
<1> QED BY <1>2, <1>4, TotalIsFold

(* So do their times, where all are known.                                 *)
LEMMA SecondsFold ==
  ASSUME NEW E, IsFiniteSet(E), NEW f, \A x \in E : f[x] = x.baselineSec /\ f[x] \in Int
  PROVE  SecondsOf(E) = TotalOf(f, E)
<1> DEFINE Eq(g) == g = [s \in SUBSET E |-> IF s = {} THEN 0
                           ELSE (CHOOSE x \in s : TRUE).baselineSec + g[s \ {CHOOSE x \in s : TRUE}]]
<1>1. SecondsOf(E) = (CHOOSE g : Eq(g))[E]
  BY DEF SecondsOf, MapThenSumSet, MapThenFoldSet
<1>2. \A g : Eq(g) <=> Folds(g, f, E)
  <2> SUFFICES ASSUME NEW g PROVE Eq(g) <=> Folds(g, f, E)
    OBVIOUS
  <2> DEFINE summed == [s \in SUBSET E |-> IF s = {} THEN 0
                   ELSE (CHOOSE x \in s : TRUE).baselineSec + g[s \ {CHOOSE x \in s : TRUE}]]
             folded == [s \in SUBSET E |-> IF s = {} THEN 0 ELSE f[Pick(s)] + g[s \ {Pick(s)}]]
  <2>1. \A s \in SUBSET E : s # {} => Pick(s) \in E
    BY Picked
  <2>2. \A s \in SUBSET E : s # {} => f[Pick(s)] = Pick(s).baselineSec
    BY <2>1
  <2>3. summed = folded
    BY <2>2 DEF Pick
  <2> QED BY <2>3 DEF Folds
<1> HIDE DEF Eq
<1>3. PICK h : Folds(h, f, E)
  BY FoldExists
<1>4. PICK g : Eq(g) /\ SecondsOf(E) = g[E]
  BY <1>1, <1>2, <1>3
<1> QED BY <1>2, <1>4, TotalIsFold

(* The segments of a direction, and those from one place to another.       *)
Seg(d, i) == loaded[d].segs[i]
Way(d, a, b) == {Seg(d, i) : i \in a .. b - 1}
StopAt(d, i) == files[d].dir.stops[i]
Onwards(d, i) == StopAt(d, i).dist <= StopAt(d, i + 1).dist

(* The segments of a loaded direction.                                     *)
LEMMA Segments ==
  ASSUME IsFiles(files), IsLoaded(loaded), NEW d \in DOMAIN files
  PROVE  /\ Len(files[d].dir.stops) \in Nat /\ DOMAIN files[d].dir.stops = 1 .. Len(files[d].dir.stops)
         /\ DOMAIN loaded[d].segs = 1 .. Len(files[d].dir.stops) - 1
         /\ \A i \in 1 .. Len(files[d].dir.stops) : StopAt(d, i).dist \in Nat
         /\ \A i \in 1 .. Len(files[d].dir.stops) - 1 :
               /\ Seg(d, i).sequence = i /\ Seg(d, i).lengthM \in Nat
               /\ Seg(d, i).lengthM = Abs(StopAt(d, i + 1).dist - StopAt(d, i).dist)
               /\ Seg(d, i).baselineSec \in Nat \cup {Unknown}
<1> DEFINE dir == files[d].dir
           n == Len(dir.stops)
<1>1. /\ n \in Nat /\ DOMAIN dir.stops = 1 .. n /\ DOMAIN dir.segs = 1 .. n - 1
      /\ \A i \in 1 .. n : dir.stops[i].dist \in Nat
      /\ \A i \in 1 .. n - 1 : /\ dir.segs[i].length = Abs(dir.stops[i + 1].dist - dir.stops[i].dist)
                               /\ dir.segs[i].avgSpeed \in (Nat \ {0}) \cup {NoBaseline}
  BY DEF IsFiles, IsServed
<1>2. /\ DOMAIN loaded[d].segs = DOMAIN dir.segs
      /\ \A i \in DOMAIN dir.segs :
            /\ Seg(d, i).sequence = i /\ Seg(d, i).lengthM = dir.segs[i].length
            /\ Seg(d, i).baselineSec =
                  IF dir.segs[i].avgSpeed = NoBaseline THEN Unknown
                  ELSE dir.segs[i].length \div dir.segs[i].avgSpeed
  BY DEF IsLoaded, Seg
<1>3. \A i \in 1 .. n : StopAt(d, i) = dir.stops[i]
  BY DEF StopAt
<1> HIDE DEF n
<1>4. ASSUME NEW i \in 1 .. n - 1
      PROVE  /\ Seg(d, i).sequence = i /\ Seg(d, i).lengthM \in Nat
             /\ Seg(d, i).lengthM = Abs(StopAt(d, i + 1).dist - StopAt(d, i).dist)
             /\ Seg(d, i).baselineSec \in Nat \cup {Unknown}
  <2> HIDE DEF dir
  <2>1. i \in 1 .. n /\ i + 1 \in 1 .. n
    BY <1>1
  <2>2. dir.segs[i].length \in Nat
    <3>1. dir.stops[i].dist \in Nat /\ dir.stops[i + 1].dist \in Nat
      BY <1>1, <2>1
    <3>2. dir.segs[i].length = Abs(dir.stops[i + 1].dist - dir.stops[i].dist)
      BY <1>1
    <3> QED BY <3>1, <3>2 DEF Abs
  <2>3. Seg(d, i).sequence = i /\ Seg(d, i).lengthM = dir.segs[i].length
    BY <1>1, <1>2
  <2>4. dir.segs[i].avgSpeed # NoBaseline =>
           dir.segs[i].avgSpeed \in Nat \ {0} /\ Seg(d, i).baselineSec = dir.segs[i].length \div dir.segs[i].avgSpeed
    BY <1>1, <1>2
  <2>5. Seg(d, i).baselineSec \in Nat \cup {Unknown}
    <3>1. \A l \in Nat, v \in Nat \ {0} : l \div v \in Nat
      OBVIOUS
    <3>2. dir.segs[i].avgSpeed = NoBaseline => Seg(d, i).baselineSec = Unknown
      BY <1>1, <1>2
    <3> QED BY <2>2, <2>4, <3>1, <3>2
  <2> QED BY <1>1, <1>3, <2>1, <2>2, <2>3, <2>5
<1> QED BY <1>1, <1>2, <1>3, <1>4 DEF n

(* Segments are told apart by their place.                                 *)
LEMMA SeveralSegs ==
  ASSUME IsFiles(files), IsLoaded(loaded), NEW d \in DOMAIN files,
         NEW a \in 1 .. Len(files[d].dir.stops), NEW b \in a .. Len(files[d].dir.stops)
  PROVE  /\ IsFiniteSet(Way(d, a, b))
         /\ \A s \in Way(d, a, b) : s.lengthM \in Nat /\ s.baselineSec \in Nat \cup {Unknown}
         /\ \A i \in a .. b - 1 : i \in 1 .. Len(files[d].dir.stops) - 1
<1> DEFINE n == Len(files[d].dir.stops)
           f == [i \in a .. b - 1 |-> Seg(d, i)]
<1>1. n \in Nat
  BY Segments
<1>2. \A i \in a .. b - 1 : i \in 1 .. n - 1
  <2> HIDE DEF n
  <2> QED BY <1>1 DEF n
<1>3. Way(d, a, b) = {f[i] : i \in a .. b - 1}
  BY DEF Way
<1>4. IsFiniteSet(a .. b - 1)
  <2>1. a \in Int /\ b - 1 \in Int
    BY <1>1
  <2> QED BY <2>1, FS_Interval
<1>5. IsFiniteSet(Way(d, a, b))
  <2> HIDE DEF f
  <2> QED BY <1>3, <1>4, ImageFinite
<1> QED BY <1>2, <1>5, Segments DEF Way

(* One segment more; two ways after each other.                            *)
LEMMA WayGrows ==
  ASSUME IsFiles(files), IsLoaded(loaded), NEW d \in DOMAIN files,
         NEW a \in 1 .. Len(files[d].dir.stops), NEW b \in a .. Len(files[d].dir.stops) - 1
  PROVE  LengthsOf(Way(d, a, b + 1)) = LengthsOf(Way(d, a, b)) + Seg(d, b).lengthM
<1> DEFINE n == Len(files[d].dir.stops)
           E == Way(d, a, b)
           F == Way(d, a, b + 1)
           f == [s \in F |-> s.lengthM]
           x == Seg(d, b)
<1>1. n \in Nat
  BY Segments
<1>2. a \in Int /\ b \in Int /\ b \in a .. n /\ b + 1 \in a .. n /\ b \in 1 .. n - 1
  BY <1>1
<1>3. /\ IsFiniteSet(E) /\ IsFiniteSet(F) /\ \A s \in F : s.lengthM \in Nat
      /\ \A i \in a .. b - 1 : i \in 1 .. n - 1
  <2> HIDE DEF n
  <2> QED BY <1>2, SeveralSegs DEF n
<1>4. F = E \cup {x}
  <2>1. \A i \in a .. (b + 1) - 1 : i \in a .. b - 1 \/ i = b
    BY <1>2
  <2>2. \A i \in a .. b - 1 : i \in a .. (b + 1) - 1
    BY <1>2
  <2>3. b \in a .. (b + 1) - 1
    BY <1>2
  <2> QED BY <2>1, <2>2, <2>3 DEF Way
<1>5. x \notin E
  <2>1. \A i \in a .. b - 1 : Seg(d, i).sequence = i /\ i # b
    BY <1>2, <1>3, Segments
  <2>2. x.sequence = b
    BY <1>2, Segments
  <2> QED BY <2>1, <2>2 DEF Way
<1> HIDE DEF E, F, x
<1>6. /\ \A s \in F : f[s] = s.lengthM /\ f[s] \in Int
      /\ \A s \in E : f[s] = s.lengthM /\ f[s] \in Int
      /\ x \in F
  BY <1>3, <1>4
<1> HIDE DEF f
<1>7. LengthsOf(F) = TotalOf(f, F) /\ LengthsOf(E) = TotalOf(f, E)
  BY <1>3, <1>6, LengthsFold
<1>8. TotalOf(f, E \cup {x}) = TotalOf(f, E) + f[x]
  <2>1. \A y \in E \cup {x} : f[y] \in Int
    BY <1>4, <1>6
  <2> QED BY <1>3, <1>5, <2>1, TotalAdd
<1> QED BY <1>4, <1>6, <1>7, <1>8 DEF E, F, x

(* No way at all is no length.                                             *)
LEMMA WayEmpty == \A d, a : a \in Int => Way(d, a, a) = {} /\ LengthsOf(Way(d, a, a)) = 0
<1> SUFFICES ASSUME NEW d, NEW a \in Int PROVE Way(d, a, a) = {} /\ LengthsOf(Way(d, a, a)) = 0
  OBVIOUS
<1>1. Way(d, a, a) = {}
  BY DEF Way
<1> DEFINE f == [s \in {} |-> 0]
<1>2. IsFiniteSet({}) /\ \A x \in {} : f[x] = x.lengthM /\ f[x] \in Int
  BY FS_EmptySet
<1> HIDE DEF f
<1>3. LengthsOf({}) = 0
  BY <1>2, LengthsFold, TotalEmpty
<1> QED BY <1>1, <1>3

(* A way is no shorter than its ends are apart along the line.             *)
LEMMA WayLength ==
  ASSUME IsFiles(files), IsLoaded(loaded), NEW d \in DOMAIN files,
         NEW a \in 1 .. Len(files[d].dir.stops), NEW b \in a .. Len(files[d].dir.stops)
  PROVE  LET apart == StopAt(d, b).dist - StopAt(d, a).dist
         IN  /\ LengthsOf(Way(d, a, b)) \in Int /\ LengthsOf(Way(d, a, b)) >= apart
             /\ LengthsOf(Way(d, a, b)) = apart <=> \A i \in a .. b - 1 : Onwards(d, i)
<1> DEFINE n == Len(files[d].dir.stops)
           l(m) == LengthsOf(Way(d, a, m))
           at(m) == StopAt(d, m).dist
           Even(m) == \A i \in a .. m - 1 : Onwards(d, i)
           P == {m \in a .. n : l(m) \in Int /\ l(m) >= at(m) - at(a) /\ (l(m) = at(m) - at(a) <=> Even(m))}
<1>1. n \in Nat /\ a \in Nat /\ a \in 1 .. n /\ \A m \in 1 .. n : at(m) \in Nat
  BY Segments
<1>2. a \in P
  <2>1. l(a) = 0
    BY <1>1, WayEmpty
  <2>2. Even(a)
    BY <1>1
  <2>3. a \in a .. n
    BY <1>1
  <2> HIDE DEF l, at, Even, n
  <2> QED BY <1>1, <2>1, <2>2, <2>3
<1>3. ASSUME NEW m \in a .. n - 1, m \in P PROVE m + 1 \in P
  <2>1. m \in a .. n /\ m + 1 \in a .. n /\ m \in 1 .. n - 1 /\ m \in 1 .. n /\ m + 1 \in 1 .. n
    BY <1>1
  <2>2. l(m + 1) = l(m) + Seg(d, m).lengthM
    BY <1>3, WayGrows
  <2>3. Seg(d, m).lengthM = Abs(at(m + 1) - at(m))
    BY <2>1, Segments
  <2>4. Onwards(d, m) <=> at(m) <= at(m + 1)
    BY DEF Onwards
  <2>5. Even(m + 1) <=> Even(m) /\ Onwards(d, m)
    <3>1. \A i \in a .. (m + 1) - 1 : i \in a .. m - 1 \/ i = m
      BY <1>1
    <3>2. \A i \in a .. m - 1 : i \in a .. (m + 1) - 1
      BY <1>1
    <3>3. m \in a .. (m + 1) - 1
      BY <1>1
    <3> QED BY <3>1, <3>2, <3>3
  <2>6. l(m) \in Int /\ l(m) >= at(m) - at(a) /\ (l(m) = at(m) - at(a) <=> Even(m))
    <3> HIDE DEF l, at, Even
    <3> QED BY <1>3
  <2>7. at(m) \in Nat /\ at(m + 1) \in Nat /\ at(a) \in Nat
    BY <1>1, <2>1
  <2> HIDE DEF l, at, Even, n
  <2>8. l(m + 1) \in Int /\ l(m + 1) >= at(m + 1) - at(a) /\ (l(m + 1) = at(m + 1) - at(a) <=> Even(m + 1))
    <3>0. \A v \in Int : /\ Abs(v) \in Nat /\ Abs(v) >= v /\ (Abs(v) = v <=> v >= 0)
      BY DEF Abs
    <3> DEFINE x == Abs(at(m + 1) - at(m))
    <3>1. x \in Nat /\ x >= at(m + 1) - at(m) /\ (x = at(m + 1) - at(m) <=> at(m) <= at(m + 1))
      BY <2>7, <3>0
    <3>2. l(m + 1) = l(m) + x
      BY <2>2, <2>3
    <3> HIDE DEF x
    <3>3. Even(m + 1) <=> Even(m) /\ at(m) <= at(m + 1)
      BY <2>4, <2>5
    <3> QED BY SMTT(30), <2>6, <2>7, <3>1, <3>2, <3>3
  <2> QED BY <2>1, <2>8
<1>4. b \in P
  <2>1. \A m \in a .. n - 1 : m \in P => m + 1 \in P
    <3> HIDE DEF P
    <3> QED BY <1>3
  <2> HIDE DEF P
  <2>2. \A m \in a .. n : m \in P
    BY <1>1, <1>2, <2>1, Upwards
  <2> QED BY <2>2
<1> HIDE DEF l, at, Even
<1> QED BY <1>4 DEF l, at, Even

(* Two ways after each other take as long as both, if that is known.       *)
Duration(C) == IF \E s \in C : s.baselineSec = Unknown THEN Unknown ELSE SecondsOf(C)

(* What the sum of the times is.                                           *)
LEMMA Durations ==
  ASSUME NEW C, IsFiniteSet(C), \A s \in C : s.baselineSec \in Nat \cup {Unknown}
  PROVE  /\ Duration(C) \in Nat \cup {Unknown}
         /\ Duration(C) = Unknown <=> ~Timed(C)
<1>1. CASE Timed(C)
  <2> DEFINE f == [s \in C |-> s.baselineSec]
  <2>1. \A s \in C : f[s] = s.baselineSec /\ f[s] \in Nat /\ f[s] \in Int
    BY <1>1 DEF Timed
  <2> HIDE DEF f
  <2>2. SecondsOf(C) = TotalOf(f, C)
    BY <2>1, SecondsFold
  <2>3. TotalOf(f, C) \in Nat
    BY <2>1, TotalNat
  <2> QED BY <1>1, <2>2, <2>3 DEF Duration, Timed, Unknown
<1>2. CASE ~Timed(C)
  BY <1>2 DEF Duration, Timed
<1> QED BY <1>1, <1>2

(* The times of two ways without a common segment add up.                  *)
LEMMA DurationsAdd ==
  ASSUME NEW A, IsFiniteSet(A), NEW B, IsFiniteSet(B), A \cap B = {},
         \A s \in A \cup B : s.baselineSec \in Nat \cup {Unknown}
  PROVE  Duration(A \cup B) = IF Unknown \in {Duration(A), Duration(B)} THEN Unknown
                              ELSE Duration(A) + Duration(B)
<1>1. (Duration(A) = Unknown <=> ~Timed(A)) /\ (Duration(B) = Unknown <=> ~Timed(B))
  BY Durations
<1>2. Timed(A \cup B) <=> Timed(A) /\ Timed(B)
  BY DEF Timed
<1>3. CASE Timed(A \cup B)
  <2> DEFINE f == [s \in A \cup B |-> s.baselineSec]
  <2>1. \A s \in A \cup B : f[s] = s.baselineSec /\ f[s] \in Int
    BY <1>3 DEF Timed
  <2>2. IsFiniteSet(A \cup B)
    BY FS_Union
  <2> HIDE DEF f
  <2>3. SecondsOf(A \cup B) = TotalOf(f, A \cup B)
    BY <2>1, <2>2, SecondsFold
  <2>4. SecondsOf(A) = TotalOf(f, A) /\ SecondsOf(B) = TotalOf(f, B)
    <3>1. \A s \in A : f[s] = s.baselineSec /\ f[s] \in Int
      BY <2>1
    <3>2. \A s \in B : f[s] = s.baselineSec /\ f[s] \in Int
      BY <2>1
    <3> QED BY <3>1, <3>2, SecondsFold
  <2>5. TotalOf(f, A \cup B) = TotalOf(f, A) + TotalOf(f, B)
    BY <2>1, TotalUnion
  <2>6. Duration(A \cup B) = SecondsOf(A \cup B) /\ Duration(A) = SecondsOf(A) /\ Duration(B) = SecondsOf(B)
    BY <1>2, <1>3 DEF Duration, Timed
  <2> QED BY <1>1, <1>2, <1>3, <2>3, <2>4, <2>5, <2>6
<1>4. CASE ~Timed(A \cup B)
  BY <1>1, <1>2, <1>4 DEF Duration, Timed
<1> QED BY <1>3, <1>4

(* A way by a stop between is two ways.                                    *)
LEMMA WayVia ==
  ASSUME IsFiles(files), IsLoaded(loaded), NEW d \in DOMAIN files,
         NEW a \in 1 .. Len(files[d].dir.stops), NEW b \in a .. Len(files[d].dir.stops),
         NEW c \in b .. Len(files[d].dir.stops)
  PROVE  Duration(Way(d, a, c)) =
            IF Unknown \in {Duration(Way(d, a, b)), Duration(Way(d, b, c))} THEN Unknown
            ELSE Duration(Way(d, a, b)) + Duration(Way(d, b, c))
<1> DEFINE n == Len(files[d].dir.stops)
           A == Way(d, a, b)
           B == Way(d, b, c)
<1>1. n \in Nat
  BY Segments
<1>2. a \in 1 .. n /\ b \in a .. n /\ b \in 1 .. n /\ c \in b .. n /\ c \in a .. n
  <2> HIDE DEF n
  <2> QED BY <1>1 DEF n
<1>3. /\ IsFiniteSet(A) /\ IsFiniteSet(B) /\ \A s \in A \cup B : s.baselineSec \in Nat \cup {Unknown}
      /\ (\A i \in a .. b - 1 : i \in 1 .. n - 1) /\ \A i \in b .. c - 1 : i \in 1 .. n - 1
  BY <1>2, SeveralSegs
<1>4. Way(d, a, c) = A \cup B
  <2> HIDE DEF n
  <2>1. \A i \in a .. c - 1 : i \in a .. b - 1 \/ i \in b .. c - 1
    BY <1>1, <1>2
  <2>2. \A i \in a .. b - 1 : i \in a .. c - 1
    BY <1>1, <1>2
  <2>3. \A i \in b .. c - 1 : i \in a .. c - 1
    BY <1>1, <1>2
  <2> QED BY <2>1, <2>2, <2>3 DEF Way
<1>5. A \cap B = {}
  <2>1. \A i \in 1 .. n - 1 : Seg(d, i).sequence = i
    BY Segments
  <2>2. \A i \in a .. b - 1, j \in b .. c - 1 : i # j
    <3> HIDE DEF n
    <3> QED BY <1>1, <1>2
  <2> HIDE DEF n
  <2>3. \A i \in a .. b - 1, j \in b .. c - 1 : Seg(d, i) # Seg(d, j)
    BY <1>3, <2>1, <2>2
  <2> QED BY <2>3 DEF Way
<1> HIDE DEF A, B
<1>6. Duration(A \cup B) = IF Unknown \in {Duration(A), Duration(B)} THEN Unknown
                           ELSE Duration(A) + Duration(B)
  BY <1>3, <1>5, DurationsAdd
<1> QED BY <1>4, <1>6 DEF A, B

(* A direction calls at one stop before another.                           *)
Precedes(d, a, b) == Calls(d, a) /\ Calls(d, b) /\ PlaceOf(d, a) < PlaceOf(d, b)

(* Where a direction calls.                                                *)
LEMMA Places ==
  ASSUME IsFiles(files), IsLoaded(loaded), NEW d \in DOMAIN files, NEW node
  PROVE  /\ Visits(loaded[d], node) = {i \in DOMAIN files[d].dir.stops : files[d].dir.stops[i].id = node}
         /\ Visits(loaded[d], node) = {} <=> ~Calls(d, node)
         /\ Calls(d, node) => PlaceOf(d, node) \in 1 .. Len(files[d].dir.stops)
<1> DEFINE n == Len(files[d].dir.stops)
           V == {i \in DOMAIN files[d].dir.stops : files[d].dir.stops[i].id = node}
           st == loaded[d].stops
<1>1. /\ n \in Nat /\ DOMAIN files[d].dir.stops = 1 .. n /\ DOMAIN st = 1 .. n
      /\ \A i \in 1 .. n : st[i].sequence = i /\ st[i].node = files[d].dir.stops[i].id
  BY DEF IsFiles, IsServed, IsLoaded
<1>2. Visits(loaded[d], node) = V
  <2>1. \A s : s \in Range(st) <=> \E i \in 1 .. n : s = st[i]
    BY <1>1 DEF Range
  <2>2. Visits(loaded[d], node) = {s.sequence : s \in {s \in Range(st) : s.node = node}}
    BY DEF Visits
  <2> HIDE DEF st, n
  <2> QED BY <1>1, <2>1, <2>2
<1>3. V = {} <=> ~Calls(d, node)
  BY DEF Calls
<1>4. V \in SUBSET Nat /\ V \in SUBSET (1 .. n)
  BY <1>1
<1>5. Calls(d, node) => PlaceOf(d, node) \in 1 .. n
  <2>1. PlaceOf(d, node) = Min(V)
    BY DEF PlaceOf
  <2> HIDE DEF V
  <2> QED BY <1>3, <1>4, <2>1, MinNat
<1> QED BY <1>2, <1>3, <1>5

(* Covered takes the segments between the two places.                      *)
LEMMA CoveredWay ==
  ASSUME IsFiles(files), IsLoaded(loaded), NEW d \in DOMAIN files, NEW from, NEW to
  PROVE  /\ Covered(loaded[d], from, to) # {} <=> Precedes(d, from, to)
         /\ Precedes(d, from, to) =>
               Covered(loaded[d], from, to) = Way(d, PlaceOf(d, from), PlaceOf(d, to))
<1> DEFINE n == Len(files[d].dir.stops)
           a == PlaceOf(d, from)
           b == PlaceOf(d, to)
           C == Covered(loaded[d], from, to)
<1>1. /\ n \in Nat /\ DOMAIN loaded[d].segs = 1 .. n - 1
      /\ \A i \in 1 .. n - 1 : Seg(d, i).sequence = i
  BY Segments
<1>2. /\ Visits(loaded[d], from) = {i \in DOMAIN files[d].dir.stops : files[d].dir.stops[i].id = from}
      /\ Visits(loaded[d], to) = {i \in DOMAIN files[d].dir.stops : files[d].dir.stops[i].id = to}
      /\ Visits(loaded[d], from) = {} <=> ~Calls(d, from)
      /\ Visits(loaded[d], to) = {} <=> ~Calls(d, to)
  BY Places
<1>2a. Min(Visits(loaded[d], from)) = a /\ Min(Visits(loaded[d], to)) = b
  BY <1>2 DEF PlaceOf
<1>3. (Calls(d, from) => a \in 1 .. n) /\ (Calls(d, to) => b \in 1 .. n)
  BY Places
<1> HIDE DEF n, a, b
<1>4. ~(Calls(d, from) /\ Calls(d, to)) => C = {}
  BY <1>2 DEF Covered
<1>5. ASSUME Calls(d, from), Calls(d, to) PROVE C = Way(d, a, b)
  <2>1. C = {s \in Range(loaded[d].segs) : s.sequence \in a .. b - 1}
    BY <1>2, <1>2a, <1>5 DEF Covered
  <2>2. \A s : s \in Range(loaded[d].segs) <=> \E i \in 1 .. n - 1 : s = Seg(d, i)
    BY <1>1 DEF Range, Seg
  <2>3. \A i \in a .. b - 1 : i \in 1 .. n - 1
    BY <1>1, <1>3, <1>5
  <2> HIDE DEF C
  <2>4. \A s : s \in C <=> \E i \in 1 .. n - 1 : s = Seg(d, i) /\ i \in a .. b - 1
    BY <1>1, <2>1, <2>2
  <2>5. \A s : s \in C <=> \E i \in a .. b - 1 : s = Seg(d, i)
    BY <2>3, <2>4
  <2> QED BY <2>5 DEF Way
<1> HIDE DEF C
<1>6. ASSUME Calls(d, from), Calls(d, to) PROVE C # {} <=> a < b
  <2>1. a < b => a \in a .. b - 1
    BY <1>3, <1>6
  <2>2. ~(a < b) => ~ \E i : i \in a .. b - 1
    BY <1>3, <1>6
  <2> QED BY <1>5, <1>6, <2>1, <2>2 DEF Way
<1>7. Precedes(d, from, to) <=> Calls(d, from) /\ Calls(d, to) /\ a < b
  BY DEF Precedes, a, b
<1>8. /\ C # {} <=> Precedes(d, from, to)
      /\ Precedes(d, from, to) => C = Way(d, a, b)
  BY <1>4, <1>5, <1>6, <1>7
<1> QED BY <1>8 DEF C, a, b

(* What is offered between two stops.                                      *)
Offer(d, from, to) ==
    [direction |-> d, distanceM |-> LengthsOf(Way(d, PlaceOf(d, from), PlaceOf(d, to))),
     durationSec |-> Duration(Way(d, PlaceOf(d, from), PlaceOf(d, to)))]
Offers(from, to) == {Offer(d, from, to) : d \in {d \in DOMAIN files : Precedes(d, from, to)}}

(* An offer takes a known time or an unknown one.                          *)
LEMMA OfferTimes ==
  ASSUME IsFiles(files), IsLoaded(loaded), NEW from, NEW to, NEW d \in DOMAIN files, Precedes(d, from, to)
  PROVE  /\ PlaceOf(d, from) \in 1 .. Len(files[d].dir.stops)
         /\ PlaceOf(d, to) \in PlaceOf(d, from) .. Len(files[d].dir.stops)
         /\ Duration(Way(d, PlaceOf(d, from), PlaceOf(d, to))) \in Nat \cup {Unknown}
<1> DEFINE n == Len(files[d].dir.stops)  a == PlaceOf(d, from)  b == PlaceOf(d, to)
<1>1. n \in Nat
  BY Segments
<1>2. a \in 1 .. n /\ b \in 1 .. n
  BY Places DEF Precedes
<1>3. a < b
  BY DEF Precedes
<1> HIDE DEF n, a, b
<1>4. b \in a .. n
  BY <1>1, <1>2, <1>3
<1>5. IsFiniteSet(Way(d, a, b)) /\ \A s \in Way(d, a, b) : s.baselineSec \in Nat \cup {Unknown}
  BY <1>2, <1>4, SeveralSegs DEF n
<1>6. Duration(Way(d, a, b)) \in Nat \cup {Unknown}
  BY <1>5, Durations
<1> QED BY <1>2, <1>4, <1>6 DEF n, a, b

(* FindJourneys arranges these offers, soonest first.                      *)
LEMMA Offered ==
  ASSUME IsFiles(files), IsLoaded(loaded), NEW from, NEW to
  PROVE  IsArranged(FindJourneys(loaded, from, to),
                    {p \in Offers(from, to) \X Offers(from, to) : Sooner(p[1], p[2])}, Offers(from, to))
<1> DEFINE D == {d \in DOMAIN files : Precedes(d, from, to)}
           covered(d) == Covered(loaded[d], from, to)
           S == Offers(from, to)
           R == {p \in S \X S : Sooner(p[1], p[2])}
           found == {Journey(d, covered(d)) : d \in {d \in DOMAIN loaded : covered(d) # {}}}
<1>1. DOMAIN loaded = DOMAIN files /\ DOMAIN files = 1 .. Len(files) /\ Len(files) \in Nat
  BY DEF IsFiles, IsLoaded
<1>2. {d \in DOMAIN loaded : covered(d) # {}} = D
  BY <1>1, CoveredWay
<1>3. \A d \in D : Journey(d, covered(d)) = Offer(d, from, to)
  <2>1. \A d, C : Journey(d, C) = [direction |-> d, distanceM |-> LengthsOf(C), durationSec |-> Duration(C)]
    BY DEF Journey, LengthsOf, Duration, SecondsOf
  <2> QED BY <2>1, CoveredWay DEF Offer
<1>4. found = S
  <2> HIDE DEF covered
  <2> QED BY <1>2, <1>3 DEF Offers
<1>5. FindJourneys(loaded, from, to) = Arranged(S, R)
  <2>1. FindJourneys(loaded, from, to) = Arranged(found, {p \in found \X found : Sooner(p[1], p[2])})
    BY DEF FindJourneys
  <2> HIDE DEF found, S
  <2> QED BY <1>4, <2>1
<1>6. IsFiniteSet(S)
  <2> DEFINE f == [d \in D |-> Offer(d, from, to)]
  <2>1. IsFiniteSet(DOMAIN files)
    BY <1>1, FS_Interval
  <2>2. IsFiniteSet(D)
    BY <2>1, FS_Subset
  <2>3. S = {f[d] : d \in D}
    BY DEF Offers
  <2> HIDE DEF D, f, S
  <2> QED BY <2>2, <2>3, ImageFinite
<1>7. \A j \in S : /\ j.direction \in Int /\ j.durationSec \in Int
                   /\ j = Offer(j.direction, from, to)
  <2>1. SUFFICES ASSUME NEW d \in D, NEW j, j = Offer(d, from, to)
                 PROVE  j.direction \in Int /\ j.durationSec \in Int /\ j = Offer(j.direction, from, to)
    BY DEF Offers
  <2>2. Duration(Way(d, PlaceOf(d, from), PlaceOf(d, to))) \in Nat \cup {Unknown}
    BY OfferTimes
  <2>3. j.direction = d /\ j.durationSec \in Int
    BY <2>1, <2>2 DEF Offer, Unknown
  <2> QED BY <1>1, <2>1, <2>3
<1>8. StrictOrder(R, S)
  <2>1. \A j, k \in S : <<j, k>> \in R <=> Sooner(j, k)
    OBVIOUS
  <2>2. \A j, k \in S : j # k => j.direction # k.direction
    <3> HIDE DEF S
    <3> QED BY <1>7
  <2> HIDE DEF R, S
  <2>3. \A j, k, l \in S : /\ ~Sooner(j, j)
                           /\ Sooner(j, k) /\ Sooner(k, l) => Sooner(j, l)
    BY <1>7 DEF Sooner
  <2>4. \A j, k \in S : j # k => Sooner(j, k) \/ Sooner(k, j)
    BY <1>7, <2>2 DEF Sooner
  <2> QED BY <2>1, <2>3, <2>4 DEF StrictOrder
<1> HIDE DEF S, R
<1>9. IsArranged(Arranged(S, R), R, S)
  BY <1>6, <1>8, InArrangement
<1> QED BY <1>5, <1>9 DEF R, S

(* So none is before a quicker one, and those of unknown time come last.   *)
LEMMA SoonestFirst ==
  ASSUME IsFiles(files), IsLoaded(loaded), NEW from, NEW to, NEW found, found = FindJourneys(loaded, from, to)
  PROVE  /\ Range(found) = Offers(from, to)
         /\ \A m, n \in DOMAIN found :
               /\ found[m] \in Offers(from, to)
               /\ m < n => Sooner(found[m], found[n])
<1> DEFINE S == Offers(from, to)
           R == {p \in S \X S : Sooner(p[1], p[2])}
           c == Cardinality(S)
<1>1. IsArranged(found, R, S)
  BY Offered
<1>2. \A j, k : <<j, k>> \in R => Sooner(j, k)
  OBVIOUS
<1> HIDE DEF R, S
<1>3. /\ DOMAIN found = 1 .. c /\ (\A i \in 1 .. c : found[i] \in S)
      /\ (\A x \in S : \E i \in 1 .. c : found[i] = x)
      /\ \A i, j \in 1 .. c : i < j => <<found[i], found[j]>> \in R
  BY <1>1 DEF IsArranged
<1> HIDE DEF c
<1>4. Range(found) = S
  BY <1>3 DEF Range
<1> QED BY <1>2, <1>3, <1>4 DEF S

(* The hop of a direction is what it offers.                               *)
LEMMA Hops ==
  ASSUME IsFiles(files), IsLoaded(loaded), NEW a, NEW b, NEW d \in DOMAIN files, Precedes(d, a, b)
  PROVE  (CHOOSE j \in Range(FindJourneys(loaded, a, b)) : j.direction = d) = Offer(d, a, b)
<1>1. Range(FindJourneys(loaded, a, b)) = Offers(a, b)
  BY SoonestFirst
<1>2. Offer(d, a, b) \in Offers(a, b) /\ Offer(d, a, b).direction = d
  BY DEF Offers, Offer
<1>3. \A j \in Offers(a, b) : j.direction = d => j = Offer(d, a, b)
  <2>1. SUFFICES ASSUME NEW e \in DOMAIN files, Offer(e, a, b).direction = d PROVE e = d
    BY DEF Offers
  <2> QED BY <2>1 DEF Offer
<1> QED BY <1>1, <1>2, <1>3

(* An offer covers no less than the line has, and exactly that if no stop  *)
(* goes back.                                                              *)
LEMMA OfferIsExact ==
  ASSUME IsFiles(files), IsLoaded(loaded), NEW from, NEW to, NEW d \in DOMAIN files, Precedes(d, from, to)
  PROVE  LET j == Offer(d, from, to)
             apart == StopAt(d, PlaceOf(d, to)).dist - StopAt(d, PlaceOf(d, from)).dist
         IN  /\ j.direction = d /\ j.distanceM >= apart
             /\ j.distanceM = apart <=> \A i \in PlaceOf(d, from) .. PlaceOf(d, to) - 1 : Onwards(d, i)
             /\ j.durationSec \in Nat \cup {Unknown}
<1> DEFINE n == Len(files[d].dir.stops)  a == PlaceOf(d, from)  b == PlaceOf(d, to)
<1>1. a \in 1 .. n /\ b \in a .. n /\ Duration(Way(d, a, b)) \in Nat \cup {Unknown}
  BY OfferTimes
<1>2. Offer(d, from, to).direction = d /\ Offer(d, from, to).distanceM = LengthsOf(Way(d, a, b))
      /\ Offer(d, from, to).durationSec = Duration(Way(d, a, b))
  BY DEF Offer
<1> HIDE DEF a, b
<1>3. LET apart == StopAt(d, b).dist - StopAt(d, a).dist
      IN  /\ LengthsOf(Way(d, a, b)) \in Int /\ LengthsOf(Way(d, a, b)) >= apart
          /\ LengthsOf(Way(d, a, b)) = apart <=> \A i \in a .. b - 1 : Onwards(d, i)
  BY <1>1, WayLength
<1> QED BY <1>1, <1>2, <1>3 DEF a, b

(* Two hops take the time of the journey.                                  *)
LEMMA OffersAdd ==
  ASSUME IsFiles(files), IsLoaded(loaded), NEW from, NEW via, NEW to, NEW d \in DOMAIN files,
         Precedes(d, from, via), Precedes(d, via, to), Precedes(d, from, to)
  PROVE  LET one == Offer(d, from, via).durationSec
             two == Offer(d, via, to).durationSec
         IN  Offer(d, from, to).durationSec = IF Unknown \in {one, two} THEN Unknown ELSE one + two
<1> DEFINE n == Len(files[d].dir.stops)
           a == PlaceOf(d, from)  b == PlaceOf(d, via)  c == PlaceOf(d, to)
<1>1. a \in 1 .. n /\ b \in a .. n /\ c \in b .. n
  BY OfferTimes
<1>2. /\ Offer(d, from, via).durationSec = Duration(Way(d, a, b))
      /\ Offer(d, via, to).durationSec = Duration(Way(d, b, c))
      /\ Offer(d, from, to).durationSec = Duration(Way(d, a, c))
  BY DEF Offer
<1> HIDE DEF a, b, c
<1>3. Duration(Way(d, a, c)) =
         IF Unknown \in {Duration(Way(d, a, b)), Duration(Way(d, b, c))} THEN Unknown
         ELSE Duration(Way(d, a, b)) + Duration(Way(d, b, c))
  BY <1>1, WayVia
<1> QED BY <1>2, <1>3

(* What is found between two stops is what the line has between them.      *)
LEMMA JourneysThere ==
  ASSUME IsFiles(files), IsLoaded(loaded), NEW from, NEW to, NEW nodes
  PROVE  AreJourneys(FindJourneys(loaded, from, to), from, to, nodes)
<1> DEFINE found == FindJourneys(loaded, from, to)
           hop(d, a, b) == CHOOSE j \in Range(FindJourneys(loaded, a, b)) : j.direction = d
<1>1. /\ Range(found) = Offers(from, to)
      /\ \A m, n \in DOMAIN found : found[m] \in Offers(from, to) /\ (m < n => Sooner(found[m], found[n]))
  BY SoonestFirst
<1> HIDE DEF found, hop
<1>2. {j.direction : j \in Range(found)} = {d \in DOMAIN files : Precedes(d, from, to)}
  <2>1. \A d : Offer(d, from, to).direction = d
    BY DEF Offer
  <2> QED BY <1>1, <2>1 DEF Offers
<1>3. ASSUME NEW j \in Range(found)
      PROVE  /\ j.distanceM >= StopAt(j.direction, PlaceOf(j.direction, to)).dist
                                  - StopAt(j.direction, PlaceOf(j.direction, from)).dist
             /\ j.distanceM = StopAt(j.direction, PlaceOf(j.direction, to)).dist
                                  - StopAt(j.direction, PlaceOf(j.direction, from)).dist
                   <=> \A i \in PlaceOf(j.direction, from) .. PlaceOf(j.direction, to) - 1 : Onwards(j.direction, i)
             /\ \A via \in {n \in nodes : Precedes(j.direction, from, n) /\ Precedes(j.direction, n, to)} :
                   IF Unknown \in {hop(j.direction, from, via).durationSec, hop(j.direction, via, to).durationSec}
                   THEN j.durationSec = Unknown
                   ELSE j.durationSec = hop(j.direction, from, via).durationSec + hop(j.direction, via, to).durationSec
  <2>1. PICK d \in DOMAIN files : Precedes(d, from, to) /\ j = Offer(d, from, to)
    BY <1>1 DEF Offers
  <2>2. j.direction = d
    BY <2>1 DEF Offer
  <2>3. /\ j.distanceM >= StopAt(d, PlaceOf(d, to)).dist - StopAt(d, PlaceOf(d, from)).dist
        /\ j.distanceM = StopAt(d, PlaceOf(d, to)).dist - StopAt(d, PlaceOf(d, from)).dist
              <=> \A i \in PlaceOf(d, from) .. PlaceOf(d, to) - 1 : Onwards(d, i)
    BY <2>1, OfferIsExact
  <2>4. ASSUME NEW via \in nodes, Precedes(d, from, via), Precedes(d, via, to)
        PROVE  IF Unknown \in {hop(d, from, via).durationSec, hop(d, via, to).durationSec}
               THEN j.durationSec = Unknown
               ELSE j.durationSec = hop(d, from, via).durationSec + hop(d, via, to).durationSec
    <3>1. hop(d, from, via) = Offer(d, from, via) /\ hop(d, via, to) = Offer(d, via, to)
      BY <2>4, Hops DEF hop
    <3> QED BY <2>1, <2>4, <3>1, OffersAdd
  <2> QED BY <2>2, <2>3, <2>4
<1>4. ASSUME NEW m \in DOMAIN found, NEW n \in DOMAIN found, m < n, found[n].durationSec # Unknown
      PROVE  found[m].durationSec \in 0 .. found[n].durationSec
  <2>1. found[m].durationSec \in Nat \cup {Unknown} /\ found[n].durationSec \in Nat \cup {Unknown}
    <3>1. \A j \in Offers(from, to) : j.durationSec \in Nat \cup {Unknown}
      BY OfferIsExact DEF Offers
    <3> QED BY <1>1, <3>1
  <2>2. Sooner(found[m], found[n])
    BY <1>1, <1>4
  <2> QED BY <1>4, <2>1, <2>2 DEF Sooner, Unknown
<1> QED BY <1>2, <1>3, <1>4 DEF AreJourneys, Precedes, StopAt, Onwards, found, hop

(* Between any two.                                                        *)
LEMMA AllJourneys ==
  ASSUME IsFiles(files), IsLoaded(loaded)
  PROVE  JourneysExact
BY JourneysThere DEF JourneysExact

(***************************************************************************)
(* The snapshot is never changed, nor the files it is of.                  *)
(***************************************************************************)
FilesInv == IsFiles(files) /\ IsLoaded(loaded)

(* It holds throughout.                                                    *)
LEMMA FilesKept == QueriesSpec => []FilesInv
<1>1. QueriesInit => FilesInv
  BY FilesServed, Loaded DEF FilesInv
<1>2. FilesInv /\ [QueriesNext]_<<vars, files, loaded>> => FilesInv'
  <2> SUFFICES ASSUME FilesInv, [QueriesNext]_<<vars, files, loaded>> PROVE FilesInv'
    OBVIOUS
  <2>1. files' = files /\ loaded' = loaded
    BY DEF QueriesNext
  <2> QED BY <2>1 DEF FilesInv, IsFiles, IsLoaded, IsServed, StopsKnown
<1> QED BY <1>1, <1>2, PTL DEF QueriesSpec

(* For any relations, lines and timetables: every direction that calls at  *)
(* one stop before another is offered once, with the length of the line    *)
(* between, or more where it goes back, with times that add up by any stop *)
(* between, and soonest first (snapshot.service.ts 269-302).               *)
THEOREM Journeys == QueriesSpec => []JourneysExact
<1>1. FilesInv => JourneysExact
  BY AllJourneys DEF FilesInv
<1> QED BY <1>1, FilesKept, PTL

(* For any radius and limit the nodes shown around a point are the         *)
(* nearest, each with every direction that calls there, and none within    *)
(* reach is missing unless the limit is reached (stops.controller.ts       *)
(* 18-40).                                                                 *)
THEOREM Around == QueriesSpec => []NearbyComplete
<1>1. FilesInv => NearbyComplete
  BY AllNearby DEF FilesInv
<1> QED BY <1>1, FilesKept, PTL

(* Whatever bus and place are asked for, the bus and stop found are among  *)
(* those meant, an exact name wins, and nothing is found only when there   *)
(* is nothing (search.service.ts 49-100).                                  *)
THEOREM Asked == QueriesSpec => []SearchFinds
<1>1. FilesInv => SearchFinds
  BY Searched DEF FilesInv
<1> QED BY <1>1, FilesKept, PTL

=============================================================================
