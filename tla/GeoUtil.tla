------------------------------- MODULE GeoUtil -------------------------------
(***************************************************************************)
(* The area test (libs/geoutil): is the station inside the polygon of an   *)
(* alert.  A point is a record of coordinates in tenths of a degree, so    *)
(* that products are in hundredths of a square degree.  The model computes *)
(* exactly; the source rounds to floats, and may decide otherwise where a  *)
(* difference of products, or its distance from the tolerance, is within   *)
(* the rounding.  An area is the sequence of points that set_alertArea     *)
(* cuts out of the text of a <polygon>, the last the same as the first.    *)
(***************************************************************************)
EXTENDS Integers, Sequences, FiniteSets

Tolerance == 16       \* EPSILON * EPSILON
LargeFloat == 999999  \* LARGE_FLOAT: where a ray ends

\* Far enough from the end of a ray to tell: any point on the globe, by far.
Point == [x : {n \in Int : n < LargeFloat - Tolerance}, y : Int]

Abs(n) == IF n < 0 THEN -n ELSE n

\* (q - p) x (r - p)
Cross(p, q, r) == (q.x - p.x) * (r.y - p.y) - (r.x - p.x) * (q.y - p.y)

\* Mutant: the extent of the side is not looked at.
OnLine(s, p, q) == Abs(Cross(p, s, q)) < Tolerance

\* s is within the extent of the side from p to q, and near its line.
IsOnline(s, p, q) ==
  /\ ~(s.x > p.x /\ s.x > q.x)
  /\ ~(s.x < p.x /\ s.x < q.x)
  /\ ~(s.y > p.y /\ s.y > q.y)
  /\ ~(s.y < p.y /\ s.y < q.y)
  /\ Abs(Cross(p, s, q)) < Tolerance

\* On which side of the line through a and b p lies: the sign of a1*x + b1*y + c1.
Side(a, b, p) ==
  (b.y - a.y) * p.x + (a.x - b.x) * p.y + (b.x * a.y - a.x * b.y)

SameSide(a, b, p, q) ==
  \/ Side(a, b, p) > 0 /\ Side(a, b, q) > 0
  \/ Side(a, b, p) < 0 /\ Side(a, b, q) < 0

\* Mutant: only the infinite line of the ray is crossed.
LineIntersects(a, b, p, q) ==
  /\ ~SameSide(a, b, p, q)
  /\ Abs((b.y - a.y) * (p.x - q.x) - (q.y - p.y) * (a.x - b.x)) >= Tolerance

\* The segments ab and pq meet, touching included, and are not parallel.
AreIntersecting(a, b, p, q) ==
  /\ ~SameSide(a, b, p, q)
  /\ ~SameSide(p, q, a, b)
  /\ Abs((b.y - a.y) * (p.x - q.x) - (q.y - p.y) * (a.x - b.x)) >= Tolerance

\* Mutant: the side that closes the polygon is left out.
IsInsideOpen(area, s) ==
  LET sides == 1 .. Len(area) - 2
      ray == [x |-> LargeFloat, y |-> s.y]
  IN  \/ \E i \in sides : IsOnline(s, area[i], area[i + 1])
      \/ Cardinality({i \in sides : AreIntersecting(s, ray, area[i], area[i + 1])}) % 2 = 1

\* s is on a side, or a ray from it crosses the sides an odd number of times.
IsInside(area, s) ==
  LET sides == 1 .. Len(area) - 1
      ray == [x |-> LargeFloat, y |-> s.y]
  IN  \/ \E i \in sides : IsOnline(s, area[i], area[i + 1])
      \/ Cardinality({i \in sides : AreIntersecting(s, ray, area[i], area[i + 1])}) % 2 = 1

-----------------------------------------------------------------------------
(* What the test is meant to decide. *)

\* The point belongs to the polygon, by the rule of the half-open sides: a
\* side counts when it begins at or below the point and ends above it, or
\* the other way round, and passes the point on the right.
Encloses(area, s) ==
  Cardinality({i \in 1 .. Len(area) - 1 :
    LET p == area[i]  q == area[i + 1]
    IN  /\ (p.y > s.y) # (q.y > s.y)
        /\ IF q.y > p.y THEN Cross(p, q, s) > 0 ELSE Cross(p, q, s) < 0}) % 2 = 1

\* The station has the longitude of a corner: its ray runs into the corner.
Level(area, s) == \E i \in DOMAIN area : area[i].y = s.y

\* The station is so close to a side that it is taken to be on it.
OnBorder(area, s) ==
  \E i \in 1 .. Len(area) - 1 :
    LET p == area[i]  q == area[i + 1]
    IN  /\ (s.x - p.x) * (s.x - q.x) <= 0
        /\ (s.y - p.y) * (s.y - q.y) <= 0
        /\ Abs(Cross(p, s, q)) < Tolerance
=============================================================================
