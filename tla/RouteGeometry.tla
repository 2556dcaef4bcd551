---------------------------- MODULE RouteGeometry ----------------------------
(***************************************************************************)
(* Lines, projections and distances along a route: geo.ts, routeStore.ts   *)
(* and geo-ingest's geometry.py.  A point is a pair of integers (metres in *)
(* the local plane) and every piece of a line is parallel to an axis, so   *)
(* that lengths and projections are integers; offsets are compared by      *)
(* their squares.                                                          *)
(***************************************************************************)
EXTENDS Integers, SequencesExt

Point == Int \X Int

Between(v, s, t) ==
    LET lo == IF s <= t THEN s ELSE t  hi == IF s <= t THEN t ELSE s
    IN  IF v < lo THEN lo ELSE IF v > hi THEN hi ELSE v

Abs(v) == IF v < 0 THEN -v ELSE v

Sign(v) == IF v > 0 THEN 1 ELSE IF v < 0 THEN -1 ELSE 0

Distance(p, q) == Abs(p[1] - q[1]) + Abs(p[2] - q[2])
Square(v) == v * v
OffsetSq(p, q) == Square(p[1] - q[1]) + Square(p[2] - q[2])

Piece(line) == 1 .. Len(line) - 1
PieceLen(line, i) == Distance(line[i], line[i + 1])
LengthBefore(line, i) ==
    LET before[j \in 1 .. i] == IF j = 1 THEN 0 ELSE before[j - 1] + PieceLen(line, j - 1)
    IN  before[i]
LineLength(line) == LengthBefore(line, Len(line))

(* The point of a piece nearest to p: t clamped to the piece.              *)
NearestOn_NoClamp(p, a, b) ==
    IF a[1] = b[1] THEN <<a[1], p[2]>> ELSE <<p[1], a[2]>>
NearestOn(p, a, b) == <<Between(p[1], a[1], b[1]), Between(p[2], a[2], b[2])>>

(* The first piece that comes nearest; the distance along the line to it.  *)
ProjectOntoPolyline(p, line) ==
    LET on == [i \in Piece(line) |-> NearestOn(p, line[i], line[i + 1])]
        off == [i \in Piece(line) |-> OffsetSq(p, on[i])]
        best == CHOOSE i \in Piece(line) :
                   \A j \in Piece(line) : off[i] < off[j] \/ (off[i] = off[j] /\ i <= j)
    IN  [dist |-> LengthBefore(line, best) + Distance(line[best], on[best]),
         offsetSq |-> off[best]]

(* The point at a distance along the line, clamped to its ends.            *)
PointAtDistance(line, d) ==
    LET reaching == {i \in Piece(line) : LengthBefore(line, i + 1) >= d}
        i == Min(reaching)
        along == d - LengthBefore(line, i)
    IN  CASE d <= 0 -> line[1]
          [] d > 0 /\ reaching # {} ->
                <<line[i][1] + Sign(line[i + 1][1] - line[i][1]) * along,
                  line[i][2] + Sign(line[i + 1][2] - line[i][2]) * along>>
          [] OTHER -> Last(line)

(* What the snapshot says of a direction: r.line, r.total, r.stops with    *)
(* their distance along the line, r.segs from stop i to stop i + 1.        *)
ToDist(r, i) == r.stops[i + 1].dist

(* The index of the segment that covers a distance, the last one beyond.   *)
FindSegmentAtDistance(r, d) ==
    LET covering == {i \in DOMAIN r.segs : d <= ToDist(r, i)}
    IN  IF covering = {} THEN Len(r.segs) ELSE Min(covering)

(* The next stop and how far it is; past the last stop, the last.          *)
NextStopFrom(r, d) ==
    LET ahead == {i \in DOMAIN r.stops : r.stops[i].dist >= d}
    IN  IF ahead = {} THEN [stop |-> Len(r.stops), dist |-> 0]
        ELSE [stop |-> Min(ahead), dist |-> r.stops[Min(ahead)].dist - d]
=============================================================================
