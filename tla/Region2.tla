------------------------------ MODULE Region2 ------------------------------
(***************************************************************************)
(* The exact planar predicates (arris-math, predicates.rs) and the polygon *)
(* regions of a face's parameter plane that are decided by them            *)
(* (arris-geom, region2.rs): winding numbers, the side of a point, the     *)
(* sweep that finds the segments that meet, and a point inside a region.   *)
(*                                                                         *)
(* The code's predicates are exact on the stored coordinates, so a point   *)
(* is a pair of integers here and they are exact too.  A polygon is its    *)
(* ring of points, a region a sequence of polygons.                        *)
(***************************************************************************)
EXTENDS Integers, FiniteSetsExt, SequencesExt

Sgn(k) == IF k > 0 THEN 1 ELSE IF k < 0 THEN -1 ELSE 0
Lesser(a, b) == IF a <= b THEN a ELSE b
Greater(a, b) == IF a >= b THEN a ELSE b
Magnitude(k) == Greater(k, -k)

Ascending(S) == [i \in 1 .. Cardinality(S) |->
    CHOOSE x \in S : Cardinality({y \in S : y < x}) = i - 1]

Minus(p, q) == <<p[1] - q[1], p[2] - q[2]>>
Cross(u, v) == u[1] * v[2] - u[2] * v[1]
Dot(u, v) == u[1] * v[1] + u[2] * v[2]

\* orient2d: on which side of the line from a to b the point c lies.
Orient(a, b, c) == Sgn(Cross(Minus(b, a), Minus(c, a)))

\* incircle: d inside, on or outside the circle of a counter-clockwise a b c.
InCircle(a, b, c, d) ==
    LET u == Minus(a, d)
        v == Minus(b, d)
        w == Minus(c, d)
    IN  Sgn(Dot(u, u) * Cross(v, w) - Dot(v, v) * Cross(u, w) + Dot(w, w) * Cross(u, v))

-----------------------------------------------------------------------------
(* Polygons.                                                               *)

\* from_points: a point equal to its predecessor is merged.
Ring(points) ==
    LET merged == FoldLeft(LAMBDA r, p : IF r # <<>> /\ Last(r) = p THEN r ELSE Append(r, p),
                           <<>>, points)
    IN  IF Len(merged) > 1 /\ Head(merged) = Last(merged) THEN Front(merged) ELSE merged

Successor(ring, i) == ring[(i % Len(ring)) + 1]
Segments(ring) ==
    SelectSeq([i \in DOMAIN ring |-> <<ring[i], Successor(ring, i)>>],
              LAMBDA s : s[1] # s[2])
SegmentsOf(polygons) == FlattenSeq([k \in DOMAIN polygons |-> Segments(polygons[k])])

\* Half-open in v, so a vertex on the ray is counted once.
Crossing(s, p) ==
    IF s[1][2] <= p[2]
    THEN IF s[2][2] > p[2] /\ Orient(s[1], s[2], p) = 1 THEN 1 ELSE 0
    ELSE IF s[2][2] <= p[2] /\ Orient(s[1], s[2], p) = -1 THEN -1 ELSE 0

SumOver(list, term(_)) == FoldLeft(LAMBDA n, x : n + term(x), 0, list)
WindingOf(segments, p) == SumOver(segments, LAMBDA s : Crossing(s, p))
Winding(polygons, p) == WindingOf(SegmentsOf(polygons), p)
TwiceArea(ring) == SumOver(Segments(ring), LAMBDA s : Cross(s[1], s[2]))

OnSegment(a, b, p) ==
    /\ Orient(a, b, p) = 0
    /\ Lesser(a[1], b[1]) <= p[1] /\ p[1] <= Greater(a[1], b[1])
    /\ Lesser(a[2], b[2]) <= p[2] /\ p[2] <= Greater(a[2], b[2])

MeetBySides(s, t, s1, s2, t1, t2) ==
    \/ s1 * s2 = -1 /\ t1 * t2 = -1
    \/ s1 = 0 /\ OnSegment(t[1], t[2], s[1])
    \/ s2 = 0 /\ OnSegment(t[1], t[2], s[2])
    \/ t1 = 0 /\ OnSegment(s[1], s[2], t[1])
    \/ t2 = 0 /\ OnSegment(s[1], s[2], t[2])
SegmentsIntersect(s, t) ==
    MeetBySides(s, t, Orient(t[1], t[2], s[1]), Orient(t[1], t[2], s[2]),
                      Orient(s[1], s[2], t[1]), Orient(s[1], s[2], t[2]))

\* point_side with no tolerance: on a segment, or inside by the winding number.
PointSide(polygons, p) ==
    IF \E s \in ToSet(SegmentsOf(polygons)) : OnSegment(s[1], s[2], p) THEN "boundary"
    ELSE IF Winding(polygons, p) # 0 THEN "inside" ELSE "outside"

-----------------------------------------------------------------------------
(* SideIndex: the segments filed by the strips of v their spans meet.      *)

\* strip: the ends clamped; heights are in units of 1/count of the span.
Strip(ix, v) ==
    IF ix.count = 1 THEN 0
    ELSE Lesser(Greater(0, ((v - ix.lo) * ix.count) \div ix.span), ix.count - 1)

Filed(shape, s, k) ==
    /\ Strip(shape, Lesser(s[1][2], s[2][2])) <= k
    /\ k <= Strip(shape, Greater(s[1][2], s[2][2]))

FiledIn(shape, segments) ==
    [segments |-> segments,
     strips |-> [k \in 0 .. shape.count - 1 |-> {i \in DOMAIN segments : Filed(shape, segments[i], k)}]]
    @@ shape
StripShape(lo, hi, count) == [lo |-> lo, span |-> hi - lo, count |-> IF lo = hi THEN 1 ELSE count]
Indexed(segments, heights, perStrip) ==
    FiledIn(StripShape(Min(heights), Max(heights),
                       Greater(1, (Len(segments) + perStrip - 1) \div perStrip)),
            segments)
Heights(segments) == UNION {{s[1][2], s[2][2]} : s \in ToSet(segments)}
IndexedBy(segments, perStrip) == Indexed(segments, Heights(segments), perStrip)
SideIndex(polygons, perStrip) == IndexedBy(SegmentsOf(polygons), perStrip)

SideOf(ix, p) ==
    LET at == Strip(ix, p[2])
        near == UNION {ix.strips[k] : k \in Greater(0, at - 1) .. Lesser(at + 1, ix.count - 1)}
    IN  IF \E i \in near : OnSegment(ix.segments[i][1], ix.segments[i][2], p) THEN "boundary"
        ELSE IF MapThenSumSet(LAMBDA i : Crossing(ix.segments[i], p), ix.strips[at]) # 0
             THEN "inside" ELSE "outside"

-----------------------------------------------------------------------------
(* sweep: both lists in order of least u, each segment compared with those *)
(* of the other list whose span has not ended.                             *)

USpan(s) == <<Lesser(s[1][1], s[2][1]), Greater(s[1][1], s[2][1])>>
LeastFirst(list) ==
    SortSeq([i \in DOMAIN list |-> i], LAMBDA i, j :
        \/ USpan(list[i])[1] < USpan(list[j])[1]
        \/ USpan(list[i])[1] = USpan(list[j])[1] /\ i < j)

\* A span that ends where the next begins still meets it.
StillSpansOpen(list, active, u) == {i \in active : USpan(list[i])[2] > u}   \* mutant
StillSpans(list, active, u) == {i \in active : USpan(list[i])[2] >= u}

SweepStart(a, b) == [todoA |-> LeastFirst(a), todoB |-> LeastFirst(b),
                     activeA |-> {}, activeB |-> {}, hits |-> {}]
SweepFromA(w, a, b) ==
    w.todoA # <<>> /\ (w.todoB = <<>> \/ USpan(a[Head(w.todoA)])[1] <= USpan(b[Head(w.todoB)])[1])
StepFromA(w, a, b, keep(_, _), i, spans) ==
    [w EXCEPT !.todoA = Tail(@), !.activeA = @ \cup {i}, !.activeB = spans,
              !.hits = @ \cup {<<i, j>> : j \in {k \in spans : keep(i, k) /\ SegmentsIntersect(a[i], b[k])}}]
StepFromB(w, a, b, keep(_, _), j, spans) ==
    [w EXCEPT !.todoB = Tail(@), !.activeB = @ \cup {j}, !.activeA = spans,
              !.hits = @ \cup {<<i, j>> : i \in {k \in spans : keep(k, j) /\ SegmentsIntersect(a[k], b[j])}}]
SweepStep(w, a, b, keep(_, _)) ==
    IF SweepFromA(w, a, b)
    THEN StepFromA(w, a, b, keep, Head(w.todoA), StillSpans(b, w.activeB, USpan(a[Head(w.todoA)])[1]))
    ELSE StepFromB(w, a, b, keep, Head(w.todoB), StillSpans(a, w.activeA, USpan(b[Head(w.todoB)])[1]))
Sweep(a, b, keep(_, _)) ==
    FoldLeft(LAMBDA w, k : SweepStep(w, a, b, keep), SweepStart(a, b),
             [k \in 1 .. Len(a) + Len(b) |-> k]).hits

\* self_intersections and intersections.
Apart(n, i, j) == i < j /\ ~ (j = i + 1 \/ (i = 1 /\ j = n))
SelfIntersections(ring) ==
    LET s == Segments(ring) IN Sweep(s, s, LAMBDA i, j : Apart(Len(s), i, j))
Intersections(ring, other) ==
    Sweep(Segments(ring), Segments(other), LAMBDA i, j : TRUE)

-----------------------------------------------------------------------------
(* interior_point, with no clearance, over coordinates that are multiples  *)
(* of 4 times every difference of two heights, so that each point it       *)
(* computes is an integer one.                                             *)

\* The heights half-way between two consecutive ones, nearest the middle first.
FromTheMiddle(cuts, twiceMiddle) ==
    LET off(h) == Greater(2 * h - twiceMiddle, twiceMiddle - 2 * h)
    IN  SortSeq(Ascending(cuts), LAMBDA g, h : off(g) < off(h) \/ (off(g) = off(h) /\ g < h))
CutsBetween(levels) ==
    FromTheMiddle({(y + Min({z \in levels : z > y})) \div 2 : y \in levels \ {Max(levels)}},
                  Min(levels) + Max(levels))
CutHeights(polygons) == CutsBetween(Heights(SegmentsOf(polygons)))

\* span_middle: the middle of the widest inside span at a height.
CrossingsAt(segments, h) ==
    SortSeq([i \in DOMAIN segments |->
                LET a == segments[i][1]
                    b == segments[i][2]
                IN  a[1] + ((h - a[2]) * (b[1] - a[1])) \div (b[2] - a[2])],
            LAMBDA x, y : x < y)
InsideSpan(polygons, p) == Winding(polygons, p) # 0
Widest(spans) ==
    {s.at : s \in {s \in spans : \A r \in spans :
        \/ r.width < s.width
        \/ r.width = s.width /\ s.at[1] <= r.at[1]}}
MiddlesAt(polygons, segments, xs, h) ==
    Widest({s \in {[width |-> xs[i + 1] - xs[i], at |-> <<(xs[i] + xs[i + 1]) \div 2, h>>] : i \in 1 .. Len(xs) - 1} :
              /\ InsideSpan(polygons, s.at)
              /\ \A e \in ToSet(segments) : ~ OnSegment(e[1], e[2], s.at)})
SpanMiddle(polygons, segments, h) ==
    LET across == SelectSeq(segments, LAMBDA s : (s[1][2] <= h) # (s[2][2] <= h))
    IN  MiddlesAt(polygons, segments, CrossingsAt(across, h), h)

\* The first cut that holds a span: {} when none does.
FirstFilled(list) ==
    LET filled == {i \in DOMAIN list : list[i] # {}}
    IN  IF filled = {} THEN {} ELSE list[Min(filled)]
MiddlesOf(polygons, segments, cuts) ==
    [i \in DOMAIN cuts |-> SpanMiddle(polygons, segments, cuts[i])]
InteriorPoint(polygons) ==
    FirstFilled(MiddlesOf(polygons, SegmentsOf(polygons), CutHeights(polygons)))

\* A ring on a finer lattice.
Scaled(ring, k) == [i \in DOMAIN ring |-> <<k * ring[i][1], k * ring[i][2]>>]
ScaledAll(polygons, k) == [i \in DOMAIN polygons |-> Scaled(polygons[i], k)]
=============================================================================
