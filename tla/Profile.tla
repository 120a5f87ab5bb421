------------------------------ MODULE Profile ------------------------------
(***************************************************************************)
(* `Profile::edges` (arris-geom, profile.rs): a sketch of an outer loop    *)
(* and holes, each drawn in any orientation, validated once and turned     *)
(* into oriented edges that still name the part of the sketch they are.    *)
(*                                                                         *)
(* A sketch is a sequence of loops, the outer first:                       *)
(*   [kind |-> "circle", centre, radius]                                   *)
(*   [kind |-> "ellipse", centre, reach]  half-axes along u and v          *)
(*   [kind |-> "path", start, segments]   segments [kind |-> "line", to]   *)
(*                                        and [kind |-> "arc", to, via]    *)
(* over integer points with no tolerance.  An edge's `points` are its      *)
(* samples from its start to its end: a curve stands for the polygon       *)
(* through them, an arc's through its via point, a circle's through its    *)
(* quarters.  Elliptic arcs, which differ from circular ones in the curve  *)
(* they carry, are left out.                                               *)
(***************************************************************************)
EXTENDS Region2

Fault(name, where) == [edges |-> <<>>, fault |-> <<name, where>>]
Sound(edges) == [edges |-> edges, fault |-> <<>>]
IsSound(x) == x.fault = <<>>

Plus(p, q) == <<p[1] + q[1], p[2] + q[2]>>
Edge(kind, centre, ccw, points, loop, segment, reversed) ==
    [kind |-> kind, centre |-> centre, ccw |-> ccw, points |-> points,
     loop |-> loop, segment |-> segment, reversed |-> reversed]
Start(e) == Head(e.points)
End(e) == Last(e.points)

-----------------------------------------------------------------------------
(* loop_edges: one loop's edges, in the order drawn or against it.         *)

\* A full turn from the end of the major axis; against it the frame's
\* normal is turned and its first axis stays.
Round(kind, centre, x, y, loop, reversed) ==
    LET s == IF reversed THEN -1 ELSE 1
        at(a, b) == <<centre[1] + a * x[1] + b * s * y[1], centre[2] + a * x[2] + b * s * y[2]>>
    IN  Edge(kind, centre, ~ reversed,
             <<at(1, 0), at(0, 1), at(-1, 0), at(0, -1), at(1, 0)>>, loop, 0, reversed)

CircleEdges(lp, loop, reversed) ==
    IF lp.radius <= 0 THEN Fault("ZeroArea", <<loop>>)
    ELSE Sound(<<Round("circle", lp.centre, <<lp.radius, 0>>, <<0, lp.radius>>, loop, reversed)>>)

\* Radii that agree make a circle; a longer minor radius swaps the axes.
EllipseEdges(lp, loop, reversed) ==
    LET a == lp.reach[1]
        b == lp.reach[2]
        kind == IF a = b THEN "circle" ELSE "ellipse"
    IN  IF a <= 0 \/ b <= 0 THEN Fault("DegenerateEllipse", <<loop, 0>>)
        ELSE IF b > a THEN Sound(<<Round(kind, lp.centre, <<0, b>>, <<-a, 0>>, loop, reversed)>>)
        ELSE Sound(<<Round(kind, lp.centre, <<a, 0>>, <<0, b>>, loop, reversed)>>)

\* The circle through three points: its centre is an integer point here.
Circumcentre(from, b, chord) ==
    LET bb == Dot(b, b)
        cc == Dot(chord, chord)
        d == 2 * Cross(b, chord)
    IN  Plus(from, <<(bb * chord[2] - cc * b[2]) \div d, (cc * b[1] - bb * chord[1]) \div d>>)

\* build_edge: the segment from one point to another, backwards if reversed.
BuildEdge(shape, from, to, loop, segment, reversed) ==
    IF from = to THEN Fault("ShortSegment", <<loop, segment>>)
    ELSE IF shape.kind = "line"
    THEN Sound(<<Edge("line", <<>>, TRUE, <<from, to>>, loop, segment, reversed)>>)
    ELSE LET turn == Orient(from, shape.via, to)
         IN  IF turn = 0 THEN Fault("DegenerateArc", <<loop, segment>>)
             ELSE Sound(<<Edge("circle", Circumcentre(from, Minus(shape.via, from), Minus(to, from)),
                               turn = 1, <<from, shape.via, to>>, loop, segment, reversed)>>)

\* The first fault of a list, or the edges of all of them.
AllSound(results) ==
    LET faulty == {k \in DOMAIN results : ~ IsSound(results[k])}
    IN  IF faulty # {} THEN results[Min(faulty)]
        ELSE Sound(FlattenSeq([k \in DOMAIN results |-> results[k].edges]))
Corner(lp, k) == IF k = 0 THEN lp.start ELSE lp.segments[k].to
PathSegment(lp, n, loop, k, reversed) ==
    LET a == Corner(lp, k)
        b == Corner(lp, (k + 1) % n)
    IN  BuildEdge(lp.segments[k + 1], IF reversed THEN b ELSE a, IF reversed THEN a ELSE b,
                  loop, k, reversed)
PathEdges(lp, loop, reversed) ==
    LET n == Len(lp.segments)
    IN  IF n < 2 THEN Fault("TooFewSegments", <<loop>>)
        ELSE IF lp.segments[n].to # lp.start THEN Fault("NotClosed", <<loop>>)
        ELSE AllSound([j \in 1 .. n |->
                PathSegment(lp, n, loop, IF reversed THEN n - j ELSE j - 1, reversed)])
LoopEdges(lp, loop, reversed) ==
    IF lp.kind = "circle" THEN CircleEdges(lp, loop, reversed)
    ELSE IF lp.kind = "ellipse" THEN EllipseEdges(lp, loop, reversed)
    ELSE PathEdges(lp, loop, reversed)

-----------------------------------------------------------------------------
(* edges: every loop before the next check, and the first fault wins.      *)

\* polygon_of: the ring of a loop, and the segment each of its sides is of.
RingOf(edges) == Ring(FlattenSeq([k \in DOMAIN edges |-> Front(edges[k].points)]))
OwnersOf(edges) ==
    FlattenSeq([k \in DOMAIN edges |-> [i \in 1 .. Len(edges[k].points) - 1 |-> edges[k].segment]])
\* The pair of sides the sweep lists first, as segments of the sketch.
FirstPair(hits, owners) ==
    LET first == CHOOSE h \in hits : \A g \in hits : h[1] < g[1] \/ (h[1] = g[1] /\ h[2] <= g[2])
    IN  <<Lesser(owners[first[1]], owners[first[2]]), Greater(owners[first[1]], owners[first[2]])>>
LoopCheck(edges, ring, loop) ==
    IF TwiceArea(ring) = 0 THEN Fault("ZeroArea", <<loop>>)
    ELSE IF SelfIntersections(ring) # {}
    THEN Fault("SelfIntersecting", <<loop>> \o FirstPair(SelfIntersections(ring), OwnersOf(edges)))
    ELSE Sound(<<>>)

Pairs(n) == SetToSortSeq({p \in (1 .. n) \X (1 .. n) : p[1] < p[2]},
                         LAMBDA p, q : p[1] < q[1] \/ (p[1] = q[1] /\ p[2] < q[2]))
Encloses(rings, a, b) == Winding(<<rings[a]>>, Head(rings[b])) # 0
CrossingCheck(rings) ==
    AllSound([k \in DOMAIN Pairs(Len(rings)) |->
        LET p == Pairs(Len(rings))[k]
        IN  IF Intersections(rings[p[1]], rings[p[2]]) = {} THEN Sound(<<>>)
            ELSE Fault("Crossing", <<p[1] - 1, p[2] - 1>>)])
HoleCheck(rings) ==
    AllSound([k \in 1 .. Len(rings) - 1 |->
        IF Encloses(rings, 1, k + 1) THEN Sound(<<>>) ELSE Fault("HoleOutside", <<k>>)])
NestingCheck(rings) ==
    AllSound([k \in DOMAIN Pairs(Len(rings)) |->
        LET p == Pairs(Len(rings))[k]
        IN  IF p[1] = 1 THEN Sound(<<>>)
            ELSE IF Encloses(rings, p[1], p[2]) THEN Fault("NestedHoles", <<p[1] - 1, p[2] - 1>>)
            ELSE IF Encloses(rings, p[2], p[1]) THEN Fault("NestedHoles", <<p[2] - 1, p[1] - 1>>)
            ELSE Sound(<<>>)])

\* The outer loop counter-clockwise, every hole clockwise.
AsDrawn(sketch, k, ring) == LoopEdges(sketch[k], k - 1, FALSE)           \* mutant
Turned(sketch, k, ring) == LoopEdges(sketch[k], k - 1, (TwiceArea(ring) > 0) # (k = 1))
Oriented(sketch, rings) ==
    [fault |-> <<>>, loops |-> [k \in DOMAIN sketch |-> Turned(sketch, k, rings[k]).edges]]
Refusal(x) == [fault |-> x.fault, loops |-> <<>>]
FirstFault(checks) ==
    LET faulty == {k \in DOMAIN checks : ~ IsSound(checks[k])}
    IN  IF faulty = {} THEN Sound(<<>>) ELSE checks[Min(faulty)]
OfRings(sketch, written, rings) ==
    LET check == FirstFault(<<AllSound([k \in DOMAIN rings |-> LoopCheck(written[k].edges, rings[k], k - 1)]),
                              CrossingCheck(rings), HoleCheck(rings), NestingCheck(rings)>>)
    IN  IF IsSound(check) THEN Oriented(sketch, rings) ELSE Refusal(check)
OfWritten(sketch, written) ==
    IF IsSound(AllSound(written))
    THEN OfRings(sketch, written, [k \in DOMAIN written |-> RingOf(written[k].edges)])
    ELSE Refusal(AllSound(written))
ProfileEdges(sketch) ==
    OfWritten(sketch, [k \in DOMAIN sketch |-> LoopEdges(sketch[k], k - 1, FALSE)])
=============================================================================
