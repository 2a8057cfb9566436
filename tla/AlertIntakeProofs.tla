------------------------- MODULE AlertIntakeProofs -------------------------
(***************************************************************************)
(* The area test decides what it is meant to decide, for any polygon and   *)
(* any station that is not level with a corner; and so alerts are taken    *)
(* where they are meant to be, and nowhere else.                           *)
(***************************************************************************)
EXTENDS AlertIntake, XmlHandlerProofs

-----------------------------------------------------------------------------
(* Products of integers *)

LEMMA ProductSign ==
  ASSUME NEW a \in Int, NEW b \in Int
  PROVE  /\ a * b \in Int
         /\ a > 0 /\ b > 0 => a * b > 0
         /\ a < 0 /\ b < 0 => a * b > 0
         /\ a > 0 /\ b < 0 => a * b < 0
         /\ a < 0 /\ b > 0 => a * b < 0
         /\ a = 0 \/ b = 0 => a * b = 0
OBVIOUS

LEMMA ProductLess ==
  ASSUME NEW a \in Int, NEW b \in Int, NEW c \in Int, NEW d \in Int,
         0 < a, a < b, 0 < c, c < d
  PROVE  a * c < b * d
<1>1. (b - a) * c > 0
  BY ProductSign
<1>2. b * (d - c) > 0
  BY ProductSign
<1>3. (b - a) * c = b * c - a * c /\ b * (d - c) = b * d - b * c
  OBVIOUS
<1>4. a * c \in Int /\ b * c \in Int /\ b * d \in Int
  OBVIOUS
<1> QED
  BY <1>1, <1>2, <1>3, <1>4

-----------------------------------------------------------------------------
(* Sides and rays *)

Ray(s) == [x |-> Geo!LargeFloat, y |-> s.y]

LEMMA PointCoordinates ==
  ASSUME NEW s \in Geo!Point
  PROVE  s.x \in Int /\ s.y \in Int /\ s.x < 999983
BY DEF Geo!Point, Geo!LargeFloat, Geo!Tolerance

\* The line of the ray tells what is above the station from what is below.
LEMMA SideOfRay ==
  ASSUME NEW s \in Geo!Point, NEW p \in Geo!Point
  PROVE  Geo!Side(s, Ray(s), p) = (999999 - s.x) * (s.y - p.y)
<1>1. /\ s.x \in Int /\ s.y \in Int
      /\ p.x \in Int /\ p.y \in Int
  BY PointCoordinates
<1> DEFINE a == s.x
           b == s.y
           c == p.x
           d == p.y
<1>2. Geo!Side(s, Ray(s), p) = (b - b) * c + (a - 999999) * d + (999999 * b - a * b)
  BY DEF Geo!Side, Ray, Geo!LargeFloat
<1>3. a \in Int /\ b \in Int /\ c \in Int /\ d \in Int
  BY <1>1
<1> HIDE DEF a, b, c, d
<1>4. (b - b) * c + (a - 999999) * d + (999999 * b - a * b) = (999999 - a) * (b - d)
  BY <1>3
<1> QED
  BY <1>2, <1>4 DEF a, b, d

\* On which side of a line a point lies, measured from its first point.
LEMMA SideIsCross ==
  ASSUME NEW p \in Geo!Point, NEW q \in Geo!Point,
         NEW t, t.x \in Int, t.y \in Int
  PROVE  Geo!Side(p, q, t) = (q.y - p.y) * (t.x - p.x) - (q.x - p.x) * (t.y - p.y)
<1>1. /\ q.x \in Int /\ q.y \in Int
      /\ p.x \in Int /\ p.y \in Int
  BY PointCoordinates
<1> DEFINE a == p.x
           b == p.y
           c == q.x
           d == q.y
           e == t.x
           f == t.y
<1>2. Geo!Side(p, q, t) = (d - b) * e + (a - c) * f + (c * b - a * d)
  BY DEF Geo!Side
<1>3. a \in Int /\ b \in Int /\ c \in Int /\ d \in Int /\ e \in Int /\ f \in Int
  BY <1>1
<1> HIDE DEF a, b, c, d, e, f
<1>4. (d - b) * e + (a - c) * f + (c * b - a * d) = (d - b) * (e - a) - (c - a) * (f - b)
  BY <1>3
<1> QED
  BY <1>2, <1>4 DEF a, b, c, d, e, f

\* The same for a point as high as the station, on a side of which the station is
\* between the ends: how far the point is to the right of the side, times the height.
LEMMA SideAtHeight ==
  ASSUME NEW s \in Geo!Point, NEW p \in Geo!Point, NEW q \in Geo!Point,
         NEW t, t.x \in Int, t.y = s.y
  PROVE  LET right(height, fall) == height * (t.x - p.x) - (q.x - p.x) * fall
         IN  /\ Geo!Side(p, q, t) = right(q.y - p.y, s.y - p.y)
             /\ Geo!Side(p, q, t) = -right(p.y - q.y, p.y - s.y)
<1>1. /\ s.x \in Int /\ s.y \in Int /\ q.x \in Int /\ q.y \in Int
      /\ p.x \in Int /\ p.y \in Int
  BY PointCoordinates
<1>2. Geo!Side(p, q, t) = (q.y - p.y) * (t.x - p.x) - (q.x - p.x) * (s.y - p.y)
  BY <1>1, SideIsCross
<1> DEFINE a == t.x - p.x
           b == q.x - p.x
           c == p.y
           d == q.y
           e == s.y
<1>3. a \in Int /\ b \in Int /\ c \in Int /\ d \in Int /\ e \in Int
  BY <1>1
<1> HIDE DEF a, b, c, d, e
<1>4. (d - c) * a - b * (e - c) = -((c - d) * a - b * (c - e))
  BY <1>3
<1> QED
  BY <1>2, <1>4 DEF a, b, c, d, e

\* A side that reaches height > fall and does not end right of the end of the ray
\* passes that end on the left.
LEMMA EndOfRay ==
  ASSUME NEW height \in Int, NEW fall \in Int, NEW width \in Int, NEW far \in Int,
         0 < fall, fall < height, 0 < far, width < far
  PROVE  height * far - width * fall > 0
<1>1. CASE width > 0
  <2>1. width * fall < far * height
    BY <1>1, ProductLess
  <2> QED
    BY <2>1
<1>2. CASE width <= 0
  <2>1. height * far > 0
    BY ProductSign
  <2>2. width * fall <= 0
    BY <1>2, ProductSign
  <2>3. height * far \in Int /\ width * fall \in Int
    OBVIOUS
  <2> QED
    BY <2>1, <2>2, <2>3
<1> QED
  BY <1>1, <1>2

\* A point of the line of a side, between the heights of its ends, is between its ends.
LEMMA BetweenEnds ==
  ASSUME NEW height \in Int, NEW fall \in Int, NEW width \in Int, NEW x \in Int,
         0 < fall, fall < height, height * x - width * fall = 0
  PROVE  x * (x - width) <= 0
<1>1. height * x = width * fall /\ height * x \in Int /\ width * fall \in Int
  OBVIOUS
<1>2. ~(x > 0 /\ x > width)
  <2> SUFFICES ASSUME x > 0, x > width PROVE FALSE
    OBVIOUS
  <2>1. height * x - width * fall > 0
    BY EndOfRay
  <2> QED
    BY <2>1
<1>3. ~(x < 0 /\ x < width)
  <2> SUFFICES ASSUME x < 0, x < width PROVE FALSE
    OBVIOUS
  <2>1. height * (-x) - (-width) * fall > 0
    BY EndOfRay
  <2>2. height * (-x) = -(height * x) /\ (-width) * fall = -(width * fall)
    OBVIOUS
  <2> QED
    BY <1>1, <2>1, <2>2
<1>4. CASE x > 0 /\ x <= width
  <2>1. x = width \/ x - width < 0
    BY <1>4
  <2> QED
    BY <1>4, <2>1, ProductSign
<1>5. CASE x < 0 /\ x >= width
  <2>1. x = width \/ x - width > 0
    BY <1>5
  <2> QED
    BY <1>5, <2>1, ProductSign
<1>6. CASE x = 0
  BY <1>6, ProductSign
<1> QED
  BY <1>2, <1>3, <1>4, <1>5, <1>6

-----------------------------------------------------------------------------
(* The area test *)

\* One side, as OnBorder and Geo!Encloses look at it.
Touches(p, q, s) ==
  /\ (s.x - p.x) * (s.x - q.x) <= 0
  /\ (s.y - p.y) * (s.y - q.y) <= 0
  /\ Geo!Abs(Geo!Cross(p, s, q)) < Geo!Tolerance

Passes(p, q, s) ==
  /\ (p.y > s.y) # (q.y > s.y)
  /\ IF q.y > p.y THEN Geo!Cross(p, q, s) > 0 ELSE Geo!Cross(p, q, s) < 0

LEMMA OnlineTouches ==
  ASSUME NEW s \in Geo!Point, NEW p \in Geo!Point, NEW q \in Geo!Point
  PROVE  Geo!IsOnline(s, p, q) <=> Touches(p, q, s)
<1>1. ASSUME NEW a \in Int, NEW b \in Int, NEW c \in Int
      PROVE  (a - b) * (a - c) <= 0 <=> ~(a > b /\ a > c) /\ ~(a < b /\ a < c)
  <2> DEFINE u == a - b
             v == a - c
  <2>1. u \in Int /\ v \in Int
    OBVIOUS
  <2>2. /\ u > 0 <=> a > b
        /\ u < 0 <=> a < b
        /\ v > 0 <=> a > c
        /\ v < 0 <=> a < c
    OBVIOUS
  <2> HIDE DEF u, v
  <2>3. u * v <= 0 <=> ~(u > 0 /\ v > 0) /\ ~(u < 0 /\ v < 0)
    BY <2>1, ProductSign
  <2> QED
    BY <2>2, <2>3 DEF u, v
<1>2. /\ s.x \in Int /\ s.y \in Int /\ q.x \in Int /\ q.y \in Int
      /\ p.x \in Int /\ p.y \in Int
  BY PointCoordinates
<1>3. /\ (s.x - p.x) * (s.x - q.x) <= 0 <=> ~(s.x > p.x /\ s.x > q.x) /\ ~(s.x < p.x /\ s.x < q.x)
      /\ (s.y - p.y) * (s.y - q.y) <= 0 <=> ~(s.y > p.y /\ s.y > q.y) /\ ~(s.y < p.y /\ s.y < q.y)
  BY <1>1, <1>2
<1> QED
  BY <1>3 DEF Geo!IsOnline, Touches

LEMMA CrossIsSide ==
  ASSUME NEW s \in Geo!Point, NEW p \in Geo!Point, NEW q \in Geo!Point
  PROVE  /\ Geo!Cross(p, q, s) = -Geo!Side(p, q, s)
         /\ Geo!Cross(p, s, q) = Geo!Side(p, q, s)
         /\ Geo!Side(p, q, s) \in Int
<1>1. /\ s.x \in Int /\ s.y \in Int /\ q.x \in Int /\ q.y \in Int
      /\ p.x \in Int /\ p.y \in Int
  BY PointCoordinates
<1>2. Geo!Side(p, q, s) = (q.y - p.y) * (s.x - p.x) - (q.x - p.x) * (s.y - p.y)
  BY <1>1, SideIsCross
<1> DEFINE a == s.x - p.x
           b == q.x - p.x
           c == s.y - p.y
           d == q.y - p.y
<1>3. a \in Int /\ b \in Int /\ c \in Int /\ d \in Int
  BY <1>1
<1>4. /\ Geo!Side(p, q, s) = d * a - b * c
      /\ Geo!Cross(p, q, s) = b * c - a * d
      /\ Geo!Cross(p, s, q) = a * d - b * c
  BY <1>2 DEF Geo!Cross
<1> HIDE DEF a, b, c, d
<1>5. /\ d * a - b * c \in Int
      /\ b * c - a * d = -(d * a - b * c)
      /\ a * d - b * c = d * a - b * c
  BY <1>3
<1> QED
  BY <1>4, <1>5

\* A ray and a side are not parallel unless the side is level.
LEMMA NotParallel ==
  ASSUME NEW s \in Geo!Point, NEW p \in Geo!Point, NEW q \in Geo!Point, p.y # q.y
  PROVE  Geo!Abs((Ray(s).y - s.y) * (p.x - q.x) - (q.y - p.y) * (s.x - Ray(s).x)) >= Geo!Tolerance
<1>1. /\ s.x \in Int /\ s.x < 999983 /\ s.y \in Int /\ q.y \in Int /\ p.y \in Int
      /\ p.x \in Int /\ q.x \in Int
  BY PointCoordinates
<1> DEFINE far == 999999 - s.x
           rise == q.y - p.y
           width == p.x - q.x
           level == s.y
<1>2. /\ far \in Int /\ far > 16 /\ rise \in Int /\ rise # 0
      /\ width \in Int /\ level \in Int
  BY <1>1
<1>3. (Ray(s).y - s.y) * (p.x - q.x) - (q.y - p.y) * (s.x - Ray(s).x) =
        (level - level) * width - rise * (-far)
  BY <1>1 DEF Ray, Geo!LargeFloat
<1> HIDE DEF far, rise, width, level
<1>4. (level - level) * width - rise * (-far) = rise * far
  BY <1>2
<1>5. rise * far \in Int /\ (rise * far >= 16 \/ rise * far <= -16)
  <2>1. CASE rise > 0
    <3>1. (rise - 1) * far >= 0
      BY <1>2, <2>1, ProductSign
    <3>2. (rise - 1) * far = rise * far - far
      BY <1>2
    <3> QED
      BY <1>2, <3>1, <3>2
  <2>2. CASE rise < 0
    <3>1. (rise + 1) * far <= 0
      BY <1>2, <2>2, ProductSign
    <3>2. (rise + 1) * far = rise * far + far
      BY <1>2
    <3> QED
      BY <1>2, <3>1, <3>2
  <2> QED
    BY <1>2, <2>1, <2>2
<1> QED
  BY <1>3, <1>4, <1>5 DEF Geo!Abs, Geo!Tolerance

\* Away from its ends and from the side itself, the ray crosses a side just when the
\* rule of the half-open sides counts it.
LEMMA CrossingCounts ==
  ASSUME NEW s \in Geo!Point, NEW p \in Geo!Point, NEW q \in Geo!Point,
         p.y # s.y, q.y # s.y, ~Touches(p, q, s)
  PROVE  Geo!AreIntersecting(s, Ray(s), p, q) <=> Passes(p, q, s)
<1>1. /\ s.x \in Int /\ s.y \in Int /\ q.x \in Int /\ q.y \in Int
      /\ p.x \in Int /\ p.y \in Int
      /\ s.x < 999983 /\ p.x < 999983 /\ q.x < 999983
  BY PointCoordinates
<1> DEFINE above(t) == Geo!Side(s, Ray(s), t)
           of == Geo!Side(p, q, s)
           ray == Geo!Side(p, q, Ray(s))
<1>2. ASSUME NEW t \in Geo!Point
      PROVE  /\ above(t) \in Int
             /\ t.y > s.y => above(t) < 0
             /\ t.y < s.y => above(t) > 0
  <2>1. t.y \in Int /\ 999999 - s.x > 0 /\ s.y - t.y \in Int /\ 999999 - s.x \in Int
    BY <1>1, PointCoordinates
  <2>2. above(t) = (999999 - s.x) * (s.y - t.y)
    BY SideOfRay
  <2>3. /\ t.y > s.y => s.y - t.y < 0
        /\ t.y < s.y => s.y - t.y > 0
    BY <1>1, <2>1
  <2> QED
    BY <2>1, <2>2, <2>3, ProductSign
<1> HIDE DEF above
<1>3. of \in Int /\ Geo!Cross(p, q, s) = -of /\ Geo!Cross(p, s, q) = of
  BY CrossIsSide
<1>4. CASE p.y > s.y /\ q.y > s.y
  BY <1>2, <1>4 DEF Geo!AreIntersecting, Geo!SameSide, Passes, above
<1>5. CASE p.y < s.y /\ q.y < s.y
  <2>1. ~(p.y > s.y) /\ ~(q.y > s.y)
    BY <1>1, <1>5
  <2> QED
    BY <1>2, <1>5, <2>1 DEF Geo!AreIntersecting, Geo!SameSide, Passes, above
<1>6. CASE (p.y > s.y /\ q.y < s.y) \/ (p.y < s.y /\ q.y > s.y)
  <2>1. p.y # q.y /\ (p.y > s.y) # (q.y > s.y)
    BY <1>1, <1>6
  <2>2. ~Geo!SameSide(s, Ray(s), p, q)
    BY <1>2, <1>6 DEF Geo!SameSide, above
  <2>3. Geo!AreIntersecting(s, Ray(s), p, q) <=> ~Geo!SameSide(p, q, s, Ray(s))
    BY <2>1, <2>2, NotParallel DEF Geo!AreIntersecting
  <2>4. of # 0
    <3> SUFFICES ASSUME of = 0 PROVE Touches(p, q, s)
      OBVIOUS
    <3>1. Geo!Abs(Geo!Cross(p, s, q)) < Geo!Tolerance
      BY <1>3 DEF Geo!Abs, Geo!Tolerance
    <3>2. (s.y - p.y) * (s.y - q.y) <= 0
      BY <1>1, <1>6, ProductSign
    <3>3. (s.x - p.x) * ((s.x - p.x) - (q.x - p.x)) <= 0
      <4>1. /\ of = (q.y - p.y) * (s.x - p.x) - (q.x - p.x) * (s.y - p.y)
            /\ of = -((p.y - q.y) * (s.x - p.x) - (q.x - p.x) * (p.y - s.y))
        BY <1>1, SideAtHeight
      <4> DEFINE x == s.x - p.x
                 width == q.x - p.x
      <4>2. x \in Int /\ width \in Int
        BY <1>1
      <4> HIDE DEF x, width
      <4>3. CASE p.y > s.y /\ q.y < s.y
        <5>1. (p.y - q.y) * x - width * (p.y - s.y) = 0
          <6>1. (p.y - q.y) * x \in Int /\ width * (p.y - s.y) \in Int
            BY <1>1, <4>2
          <6> QED
            BY <4>1, <6>1 DEF x, width
        <5> DEFINE height == p.y - q.y
                   fall == p.y - s.y
        <5>2. /\ height \in Int /\ fall \in Int /\ 0 < fall /\ fall < height
              /\ height * x - width * fall = 0
          BY <1>1, <4>3, <5>1
        <5> HIDE DEF height, fall
        <5> QED
          BY <4>2, <5>2, BetweenEnds DEF x, width
      <4>4. CASE p.y < s.y /\ q.y > s.y
        <5>1. (q.y - p.y) * x - width * (s.y - p.y) = 0
          BY <4>1 DEF x, width
        <5> DEFINE height == q.y - p.y
                   fall == s.y - p.y
        <5>2. /\ height \in Int /\ fall \in Int /\ 0 < fall /\ fall < height
              /\ height * x - width * fall = 0
          BY <1>1, <4>4, <5>1
        <5> HIDE DEF height, fall
        <5> QED
          BY <4>2, <5>2, BetweenEnds DEF x, width
      <4> QED
        BY <1>6, <4>3, <4>4
    <3>4. (s.x - p.x) - (q.x - p.x) = s.x - q.x
      BY <1>1
    <3> QED
      BY <3>1, <3>2, <3>3, <3>4 DEF Touches
  <2>5. /\ ray = (q.y - p.y) * (999999 - p.x) - (q.x - p.x) * (s.y - p.y)
        /\ ray = -((p.y - q.y) * (999999 - p.x) - (q.x - p.x) * (p.y - s.y))
    <3>1. Ray(s).x = 999999 /\ Ray(s).y = s.y
      BY DEF Ray, Geo!LargeFloat
    <3> QED
      BY <3>1, SideAtHeight
  <2>6. 999999 - p.x \in Int /\ 999999 - p.x > 0 /\ q.x - p.x < 999999 - p.x /\ q.x - p.x \in Int
    BY <1>1
  <2> DEFINE far == 999999 - p.x
             width == q.x - p.x
  <2>7. /\ far \in Int /\ far > 0 /\ width < far /\ width \in Int
        /\ ray = (q.y - p.y) * far - width * (s.y - p.y)
        /\ ray = -((p.y - q.y) * far - width * (p.y - s.y))
    BY <2>5, <2>6
  <2>10. ray \in Int
    <3> HIDE DEF far, width, ray
    <3>1. (q.y - p.y) * far \in Int /\ width * (s.y - p.y) \in Int
      BY <1>1, <2>7
    <3> QED
      BY <2>7, <3>1
  <2> HIDE DEF far, width, ray, of
  <2>8. CASE p.y > s.y /\ q.y < s.y
    <3>1. (p.y - q.y) * far - width * (p.y - s.y) > 0
      BY <1>1, <2>7, <2>8, EndOfRay
    <3>2. ray < 0
      <4>1. (p.y - q.y) * far \in Int /\ width * (p.y - s.y) \in Int
        BY <1>1, <2>7
      <4> QED
        BY <2>7, <3>1, <4>1
    <3>3. Geo!SameSide(p, q, s, Ray(s)) <=> of < 0
      BY <1>3, <2>10, <3>2 DEF Geo!SameSide, of, ray
    <3>4. ~(q.y > p.y)
      BY <1>1, <2>8
    <3> QED
      BY <1>3, <2>1, <2>3, <2>4, <3>3, <3>4 DEF Passes
  <2>9. CASE p.y < s.y /\ q.y > s.y
    <3>1. ray > 0
      BY <1>1, <2>7, <2>9, EndOfRay
    <3>2. Geo!SameSide(p, q, s, Ray(s)) <=> of > 0
      BY <1>3, <2>10, <3>1 DEF Geo!SameSide, of, ray
    <3>3. q.y > p.y
      BY <1>1, <2>9
    <3> QED
      BY <1>3, <2>1, <2>3, <2>4, <3>2, <3>3 DEF Passes
  <2> QED
    BY <1>6, <2>8, <2>9
<1> QED
  BY <1>1, <1>4, <1>5, <1>6

\* Level with no corner, the test finds a point inside just when it is on a side or
\* the polygon encloses it.
LEMMA InsideDecides ==
  ASSUME NEW area \in Seq(Geo!Point), NEW s \in Geo!Point, ~Geo!Level(area, s)
  PROVE  Geo!IsInside(area, s) <=> Geo!OnBorder(area, s) \/ Geo!Encloses(area, s)
<1> DEFINE sides == 1 .. Len(area) - 1
<1>1. ASSUME NEW i \in sides
      PROVE  /\ area[i] \in Geo!Point /\ area[i + 1] \in Geo!Point
             /\ area[i].y # s.y /\ area[i + 1].y # s.y
  <2>1. /\ i \in DOMAIN area /\ i + 1 \in DOMAIN area
        /\ area[i] \in Geo!Point /\ area[i + 1] \in Geo!Point
    BY LenProperties, ElementOfSeq
  <2> QED
    BY <2>1 DEF Geo!Level
<1>2. Geo!OnBorder(area, s) <=> \E i \in sides : Geo!IsOnline(s, area[i], area[i + 1])
  BY <1>1, OnlineTouches DEF Geo!OnBorder, Touches
<1>3. CASE Geo!OnBorder(area, s)
  BY <1>2, <1>3 DEF Geo!IsInside
<1>4. CASE ~Geo!OnBorder(area, s)
  <2> DEFINE crossed == {i \in sides : Geo!AreIntersecting(s, Ray(s), area[i], area[i + 1])}
             passed == {i \in sides : Passes(area[i], area[i + 1], s)}
  <2>1. \A i \in sides : ~Touches(area[i], area[i + 1], s)
    BY <1>4 DEF Geo!OnBorder, Touches
  <2>2. crossed = passed
    BY <1>1, <2>1, CrossingCounts
  <2>3. Geo!IsInside(area, s) <=> Geo!Cardinality(crossed) % 2 = 1
    BY <1>2, <1>4 DEF Geo!IsInside, Ray
  <2>4. Geo!Encloses(area, s) <=> Geo!Cardinality(passed) % 2 = 1
    BY DEF Geo!Encloses, Passes
  <2> QED
    BY <1>4, <2>2, <2>3, <2>4
<1> QED
  BY <1>3, <1>4

-----------------------------------------------------------------------------
(* Alerts and the place of the station *)

\* What the inductive invariant of the intake says about the place.
LEMMA InvHanded == IInv => HandedWhenInside /\ NotHandedElsewhere
<1> SUFFICES ASSUME IInv PROVE HandedWhenInside /\ NotHandedElsewhere
  OBVIOUS
<1>1. ASSUME NEW d \in Doc, NEW k \in DOMAIN Infos[d], NEW a \in Infos[d][k].areas, a # <<>>,
             ~Geo!Level(Area[a[1]], setup.station)
      PROVE  Inside[<<a[1], setup.station>>] <=>
               \/ Geo!OnBorder(Area[a[1]], setup.station)
               \/ Geo!Encloses(Area[a[1]], setup.station)
  <2>1. a[1] \in DOMAIN Area /\ setup \in Setup
    <3>1. a \in Seq(DOMAIN Area)
      BY AreaConstants
    <3>2. 1 \in 1 .. Len(a)
      BY <1>1, <3>1, EmptySeq
    <3> QED
      BY <3>1, <3>2, ElementOfSeq DEF IInv, TypeOK
  <2>2. /\ Area[a[1]] \in Seq(Geo!Point) /\ setup.station \in Geo!Point
        /\ Inside[<<a[1], setup.station>>] = Geo!IsInside(Area[a[1]], setup.station)
    BY <2>1, AreaConstants
  <2> QED
    BY <1>1, <2>2, InsideDecides
<1>2. HandedWhenInside
  <2> SUFFICES ASSUME NEW d \in Doc, NEW k \in DOMAIN Infos[d],
                      Status[d] = "Actual", Ident[d] \in stored, doing # d,
                      \A j \in 1 .. k : Encloses(Infos[d][j])
               PROVE  Seen(Item(d, k)) \/ \E j \in 1 .. k - 1 : Repeats(d, j)
    BY DEF HandedWhenInside
  <2>1. \A j \in 1 .. k : j \in DOMAIN Infos[d]
    BY IntakeConstants
  <2>2. \A j \in 1 .. k : Covered(Infos[d][j])
    BY <1>1, <2>1 DEF Encloses, Covered
  <2> QED
    BY <2>2 DEF IInv, NoneTurnedAway
<1>3. NotHandedElsewhere
  BY <1>1 DEF IInv, HandedNear, NotHandedElsewhere, Covered
<1> QED
  BY <1>2, <1>3

\* Wherever the station is and whatever polygons alerts have, an alert is taken, or one
\* basically the same is, when in each of its infos so far the first polygon of some area
\* encloses the station, a corner's longitude excepted, unless an info before repeats
\* another one or its own loop is not over (xmlhandler.cpp:126-150, geoutil.cpp:42-43).
THEOREM TakenWhenInside == Spec => []HandedWhenInside
  BY InvHanded, InvariantHolds, PTL

\* Nothing is handed on for a place the station is not in or on the border of, a
\* corner's longitude excepted.
THEOREM NothingFromElsewhere == Spec => []NotHandedElsewhere
  BY InvHanded, InvariantHolds, PTL
=============================================================================
