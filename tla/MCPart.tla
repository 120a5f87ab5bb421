---------------------------- MODULE MCPart ----------------------------
(***************************************************************************)
(* Bodies with what makes a mesh hard to close: a corner of three faces, a *)
(* seam, poles, a seam in both directions, holes, an edge two faces ask    *)
(* different things of, and faces that cannot be triangulated.             *)
(*                                                                         *)
(* A pcurve is a line from a to b or the convex lattice polygon of 12      *)
(* sides Round stands for a circle with; samples are at lattice points.    *)
(***************************************************************************)
EXTENDS Part

Line(a, b) == [kind |-> "line", a |-> a, b |-> b]
RoundOf(scale) == [kind |-> "round", scale |-> scale]
Dodecagon == <<<<1, 0>>, <<2, 1>>, <<1, 2>>, <<0, 1>>, <<-1, 2>>, <<-2, 1>>,
          <<-1, 0>>, <<-2, -1>>, <<-1, -2>>, <<0, -1>>, <<1, -2>>, <<2, -1>>>>
RoundAt(i) == <<MapThenSumSet(LAMBDA k : Dodecagon[k][1], 1 .. i),
                MapThenSumSet(LAMBDA k : Dodecagon[k][2], 1 .. i) - 4>>
MCPcurveAt(c, i, n) ==
    IF c.kind = "round"
    THEN LET p == RoundAt((12 \div n) * (i % n)) IN <<c.scale * p[1], c.scale * p[2]>>
    ELSE IF c.kind = "points" THEN PcurvePoint(c, i, n)
    ELSE <<c.a[1] + ((c.b[1] - c.a[1]) * i) \div n, c.a[2] + ((c.b[2] - c.a[2]) * i) \div n>>
MCTravel(c, d) ==
    IF c.kind \in {"round", "points"} THEN 0 ELSE Greater(c.b[d] - c.a[d], c.a[d] - c.b[d])

E(start, end, own) == [start |-> start, end |-> end, degenerate |-> FALSE, own |-> own]
Pole(v) == [start |-> v, end |-> v, degenerate |-> TRUE, own |-> 1]
C(e, forward, pcurve) == [edge |-> e, forward |-> forward, pcurve |-> pcurve]
Face(reversed, steps, loops) == [reversed |-> reversed, steps |-> steps, loops |-> loops]
Flat == <<0, 0>>

Triangle(a, b, c) ==
    \* edges as signed numbers, once round a triangle
    LET p == <<<<0, 0>>, <<4, 0>>, <<0, 4>>>>
        s == <<a, b, c>>
        side(k) == IF s[k] > 0 THEN C(s[k], TRUE, Line(p[k], p[(k % 3) + 1]))
                   ELSE C(-s[k], FALSE, Line(p[(k % 3) + 1], p[k]))
    IN  [k \in 1 .. 3 |-> side(k)]
Tetrahedron ==
    [vertices |-> 4,
     edges |-> <<E(1, 2, 1), E(2, 3, 1), E(3, 1, 1), E(1, 4, 1), E(2, 4, 2), E(3, 4, 1)>>,
     faces |-> <<Face(TRUE, Flat, <<Triangle(1, 2, 3)>>),
                 Face(FALSE, Flat, <<Triangle(1, 5, -4)>>),
                 Face(FALSE, Flat, <<Triangle(2, 6, -5)>>),
                 Face(FALSE, Flat, <<Triangle(3, 4, -6)>>)>>]

\* A lateral face from v = 0 to v = h, its seam at u = 0 and u = 12.
Lateral(low, seam, high, h) ==
    <<C(low, TRUE, Line(<<0, 0>>, <<12, 0>>)), C(seam, TRUE, Line(<<12, 0>>, <<12, h>>)),
      C(high, FALSE, Line(<<0, h>>, <<12, h>>)), C(seam, FALSE, Line(<<0, 0>>, <<0, h>>))>>
Cap(reversed, edge) == Face(reversed, Flat, <<<<C(edge, TRUE, RoundOf(1))>>>>)
Cylinder(step, own) ==
    [vertices |-> 2,
     edges |-> <<E(1, 1, own), E(1, 2, 1), E(2, 2, 3)>>,
     faces |-> <<Face(FALSE, <<step, 0>>, <<Lateral(1, 2, 3, 6)>>), Cap(TRUE, 1), Cap(FALSE, 3)>>]
Sphere(steps) ==
    [vertices |-> 2,
     edges |-> <<Pole(1), E(1, 2, 3), Pole(2)>>,
     faces |-> <<Face(FALSE, steps, <<Lateral(1, 2, 3, 6)>>)>>]
Torus ==
    [vertices |-> 1,
     edges |-> <<E(1, 1, 3), E(1, 1, 4)>>,
     faces |-> <<Face(FALSE, <<4, 3>>, <<Lateral(1, 2, 1, 12)>>)>>]
\* A tube: outside, inside (used reversed), and two caps with a hole each.
Tube ==
    LET cap(reversed, outer, inner) ==
          Face(reversed, Flat, <<<<C(outer, TRUE, RoundOf(2))>>, <<C(inner, FALSE, RoundOf(1))>>>>)
    IN  [vertices |-> 4,
         edges |-> <<E(1, 1, 4), E(1, 2, 1), E(2, 2, 4), E(3, 3, 3), E(3, 4, 1), E(4, 4, 3)>>,
         faces |-> <<Face(FALSE, <<3, 0>>, <<Lateral(1, 2, 3, 6)>>),
                     Face(TRUE, <<4, 0>>, <<Lateral(4, 5, 6, 6)>>),
                     cap(TRUE, 1, 4), cap(FALSE, 3, 6)>>]

\* Faces 2 and 3 cannot be triangulated: one's loops cross, the other's
\* coincide.
Bad ==
    [vertices |-> 2,
     edges |-> <<E(1, 1, 4), E(1, 2, 1), E(2, 2, 4)>>,
     faces |-> <<Face(FALSE, <<3, 0>>, <<Lateral(1, 2, 3, 6)>>),
                 Face(TRUE, Flat, <<<<C(1, TRUE, RoundOf(1))>>, <<C(3, TRUE, RoundOf(1))>>>>),
                 Face(FALSE, Flat, <<<<C(3, TRUE, RoundOf(1))>>,
                                     <<C(2, TRUE, Line(<<0, 0>>, <<20, 0>>)),
                                       C(2, FALSE, Line(<<20, 20>>, <<0, 0>>))>>>>)>>]

LineTo(p) == [kind |-> "line", to |-> p]
ArcTo(p, via) == [kind |-> "arc", to |-> p, via |-> via]
Path(start, segments) == [kind |-> "path", start |-> start, segments |-> segments]
Polygon(points) == Path(points[1], [k \in DOMAIN points |-> LineTo(points[(k % Len(points)) + 1])])
Circle(centre, radius) == [kind |-> "circle", centre |-> centre, radius |-> radius]
Ellipse(centre, a, b) == [kind |-> "ellipse", centre |-> centre, reach |-> <<a, b>>]
Clockwise(points) == [k \in DOMAIN points |-> points[Len(points) + 1 - k]]
Rect(lo, hi) == <<lo, <<hi[1], lo[2]>>, hi, <<lo[1], hi[2]>>>>
Pull(sketch, length, up) ==
    [op |-> "extrude", sketch |-> sketch, length |-> length, normal |-> TRUE, up |-> up, rounding |-> 0,
     blends |-> <<>>, done |-> <<>>]
Axis(origin, along) == [origin |-> origin, along |-> along, inPlane |-> TRUE]
Spin(sketch, axis, angle, rounding) ==
    [op |-> "revolve", sketch |-> sketch, axis |-> axis, angle |-> angle, rounding |-> rounding,
     blends |-> <<>>, done |-> <<>>]
UpAxis == Axis(<<0, 0>>, <<0, 1>>)

Tray == <<Polygon(Rect(<<0, 0>>, <<6, 6>>)), Polygon(Rect(<<2, 2>>, <<4, 4>>))>>
TrayTurned == <<Polygon(Clockwise(Rect(<<0, 0>>, <<6, 6>>))), Circle(<<3, 3>>, 1)>>
Slot == <<Path(<<0, 0>>, <<LineTo(<<6, 0>>), ArcTo(<<6, 6>>, <<9, 3>>), LineTo(<<0, 6>>), ArcTo(<<0, 0>>, <<-3, 3>>)>>)>>
Oval == <<Ellipse(<<0, 0>>, 2, 3)>>
\* A cup drawn from inside: its first run off the axis is the cavity.
Hollow == <<Polygon(<<<<0, 6>>, <<0, 4>>, <<2, 4>>, <<2, 2>>, <<0, 2>>, <<0, 0>>, <<4, 0>>, <<4, 6>>>>)>>
Pipe == <<Polygon(Rect(<<2, 0>>, <<4, 3>>))>>
Disc == <<Polygon(Clockwise(Rect(<<0, 0>>, <<4, 3>>)))>>
Ring3 == <<Circle(<<5, 0>>, 2)>>
Ball == <<Path(<<0, -2>>, <<ArcTo(<<0, 2>>, <<2, 0>>), LineTo(<<0, -2>>)>>)>>
Cone == <<Polygon(<<<<0, 0>>, <<4, 0>>, <<0, 4>>>>)>>
ConeOff == <<Polygon(<<<<-1, 0>>, <<-4, 0>>, <<-1, 3>>>>)>>
Spool == <<Polygon(<<<<0, 0>>, <<4, 1>>, <<4, -1>>>>)>>
Channel == <<Polygon(Rect(<<0, 0>>, <<4, 4>>)), Polygon(Rect(<<1, 1>>, <<3, 3>>))>>
Faulty ==
    {<<Polygon(Rect(<<0, 0>>, <<6, 6>>)), Polygon(Rect(<<4, 2>>, <<8, 4>>))>>,
     <<Polygon(Rect(<<0, 0>>, <<4, 4>>)), Circle(<<9, 9>>, 1)>>,
     <<Polygon(Rect(<<0, 0>>, <<9, 9>>)), Polygon(Rect(<<1, 1>>, <<8, 8>>)), Circle(<<4, 4>>, 1)>>,
     <<Polygon(<<<<0, 0>>, <<4, 4>>, <<4, 0>>, <<0, 6>>>>)>>,
     <<Ellipse(<<4, 0>>, 2, 0)>>, <<Ellipse(<<4, 0>>, 2, 1)>>,
     <<Path(<<0, 0>>, <<LineTo(<<4, 0>>), LineTo(<<4, 0>>), LineTo(<<0, 0>>)>>)>>,
     <<Path(<<0, 0>>, <<LineTo(<<4, 0>>), LineTo(<<4, 4>>)>>)>>,
     <<Path(<<0, -2>>, <<ArcTo(<<0, 2>>, <<0, 0>>), LineTo(<<0, -2>>)>>)>>,
     <<Circle(<<1, 0>>, 2)>>, <<Circle(<<2, 0>>, 2)>>}
MCJobs ==
    {Pull(s, 2, up) : s \in {TrayTurned, Slot, Oval}, up \in BOOLEAN} \cup {Pull(Tray, 3, FALSE)}
    \cup {Spin(s, UpAxis, Turn, r) : r \in {0, Turn},
            s \in {Pipe, Disc, Ring3, Ball, Cone, ConeOff, Spool, Channel, Hollow}}
    \cup {Spin(s, UpAxis, a, 0) : a \in {3, 6, 9}, s \in {Pipe, Disc, Ring3, Ball, Cone, ConeOff, Spool}}
    \cup {Spin(Cone, Axis(<<0, 0>>, along), 9, r) : along \in {<<0, -1>>, <<1, 0>>}, r \in {0, Turn}}
    \cup {Spin(s, UpAxis, 9, 0) : s \in Faulty} \cup {Pull(s, 2, TRUE) : s \in Faulty}

\* What another system writes of a solid: bounds without their seams, closed
\* edges that start elsewhere, edges against their curves, faces turned.
InBound(b, e) == {k \in DOMAIN b.uses : b.uses[k].edge = e}
SeamsOf(b) == {k \in DOMAIN b.uses : Cardinality(InBound(b, b.uses[k].edge)) = 2}
RunsBetween(b) ==
    SelectSeq(FoldLeft(LAMBDA runs, k : IF k \in SeamsOf(b) THEN Append(runs, <<>>)
                                        ELSE Append(Front(runs), Append(Last(runs), b.uses[k])),
                       <<<<>>>>, [k \in DOMAIN b.uses |-> k]), LAMBDA run : run # <<>>)
\* A bound of nothing but seams keeps them.
Unseamed(b) ==
    IF SeamsOf(b) = {} \/ RunsBetween(b) = <<>> THEN <<b>>
    ELSE [i \in DOMAIN RunsBetween(b) |-> [b EXCEPT !.uses = RunsBetween(b)[i]]]
VertexLoop(v) == [kind |-> "vertex", outer |-> FALSE, flag |-> TRUE, vertex |-> v]
ApexLoop(f, face) ==
    LET ends == UNION {{f.edges[e].start, f.edges[e].end} :
                         e \in UNION {{b.uses[k].edge : k \in SeamsOf(b)} : b \in ToSet(face.bounds)}}
        apexes == {v \in ends : RowsAt(face.surface, f.points[v]) # <<>>}
    IN  IF apexes = {} \/ \E b \in ToSet(face.bounds) : RunsBetween(b) = <<>> THEN <<>>
        ELSE <<VertexLoop(CHOOSE v \in apexes : TRUE)>>
MapFaces(f, op(_)) ==
    [f EXCEPT !.shells = [n \in DOMAIN @ |-> [@[n] EXCEPT !.faces = [k \in DOMAIN @ |-> op(@[k])]]]]
Known(f) == [f EXCEPT !.edges = [e \in DOMAIN @ |-> [@[e] EXCEPT !.geometry.pcurves = <<>>]]]
WithoutSeams(f, apexes) ==
    MapFaces(f, LAMBDA face : [face EXCEPT !.bounds =
        FlattenSeq([i \in DOMAIN @ |-> Unseamed(@[i])]) \o (IF apexes THEN ApexLoop(f, face) ELSE <<>>)])
EdgesLeft(f) == ToSet(EdgeIdsOf(f))
\* Closed edges with a vertex of their own and an even number start a
\* quarter further on.
Rolls(f, v) ==
    \E e \in EdgesLeft(f) : f.edges[e].start = v /\ e % 2 = 0 /\ f.edges[e].curve.closes
        /\ \A d \in EdgesLeft(f) \ {e} : v \notin {f.edges[d].start, f.edges[d].end}
EdgeAt(f, v) == CHOOSE e \in EdgesLeft(f) : f.edges[e].start = v
Rolled(f) == [f EXCEPT !.points = [v \in DOMAIN @ |-> IF Rolls(f, v) THEN f.edges[EdgeAt(f, v)].curve.at[2] ELSE @[v]]]
AgainstCurves(f) ==
    [MapFaces(f, LAMBDA face : [face EXCEPT !.bounds = [i \in DOMAIN @ |->
        IF @[i].kind = "vertex" THEN @[i]
        ELSE [@[i] EXCEPT !.uses = [k \in DOMAIN @ |-> [@[k] EXCEPT !.forward = ~ @]]]]])
       EXCEPT !.edges = [e \in DOMAIN @ |-> [@[e] EXCEPT !.start = f.edges[e].end, !.end = f.edges[e].start, !.sense = FALSE]]]
OrientedFaces(f) ==
    MapFaces(f, LAMBDA face : [face EXCEPT !.turned = ~ @, !.sense = ~ @,
        !.bounds = [i \in DOMAIN @ |-> IF @[i].kind = "vertex" THEN @[i] ELSE [@[i] EXCEPT !.flag = ~ @]]])
MCRewritten(f) ==
    {[file |-> f, rounding |-> 0],
     [file |-> WithoutSeams(Known(f), FALSE), rounding |-> Turn],
     [file |-> WithoutSeams(Known(AgainstCurves(f)), TRUE), rounding |-> 0],
     [file |-> OrientedFaces(Rolled(WithoutSeams(Known(f), FALSE))), rounding |-> 0]}

\* Half balls of radius 2: cut along the axis, bounded by a circle through
\* both poles in n edges, and across it, bounded by the equator.
FileBound(uses) == [kind |-> "edges", outer |-> TRUE, flag |-> TRUE, uses |-> uses]
Side(e, forward) == [edge |-> e, forward |-> forward]
FileFace(id, surface, sense, bounds) ==
    [id |-> id, surface |-> surface, sense |-> sense, turned |-> FALSE, bounds |-> bounds]
FileEdge(start, end, curve) ==
    [start |-> start, end |-> end, curve |-> curve, sense |-> TRUE, geometry |-> [kind |-> "surface", pcurves |-> <<>>]]
FileOf(points, edges, faces) ==
    [fault |-> <<>>, points |-> points, edges |-> edges, shells |-> <<[turned |-> FALSE, faces |-> faces]>>]
Globe == [kind |-> "sphere", t |-> 0, radius |-> 2, up |-> TRUE]
Meridian2 == [closes |-> TRUE, at |-> <<<<0, 0, 2>>, <<2, 0, 0>>, <<0, 0, -2>>, <<-2, 0, 0>>>>]
Equator2 == [closes |-> TRUE, at |-> <<<<0, 2, 0>>, <<0, 0, 2>>, <<0, -2, 0>>, <<0, 0, -2>>>>]
CutPlane == [kind |-> "meridian", at |-> 3,
             axis |-> [origin |-> <<0, 0>>, along |-> <<0, 1>>, radial |-> <<1, 0>>]]
Floor == [kind |-> "annulus", t |-> 0, up |-> TRUE]
MeridianEdges(n) ==
    IF n = 1 THEN <<FileEdge(1, 1, Meridian2)>> ELSE <<FileEdge(1, 2, Meridian2), FileEdge(2, 1, Meridian2)>>
HalfBall(n) ==
    FileOf(<<<<0, 0, 2>>, <<0, 0, -2>>>>, MeridianEdges(n),
           <<FileFace(1, Globe, TRUE, <<FileBound([e \in 1 .. n |-> Side(e, TRUE)])>>),
             FileFace(2, CutPlane, FALSE, <<FileBound([e \in 1 .. n |-> Side(n + 1 - e, FALSE)])>>)>>)
\* The bounds of the round face, over the floor.
Over(round, bounds, north) ==
    FileOf(<<<<0, 2, 0>>, <<2, 0, 0>>>>, <<FileEdge(1, 1, Equator2)>>,
           <<FileFace(1, round, TRUE, bounds),
             FileFace(2, Floor, ~ north, <<FileBound(<<Side(1, ~ north)>>)>>)>>)
Dome(north) == Over(Globe, <<FileBound(<<Side(1, north)>>)>>, north)
Barrel == [kind |-> "cylinder", radius |-> 2, up |-> TRUE]
GivenFile(f, rounding, refused) ==
    [op |-> "read", given |-> [file |-> f, rounding |-> rounding], refused |-> refused,
     characteristic |-> 2, volume |-> 32,
     blends |-> <<>>, done |-> <<>>]
\* A loop with an edge missing, a face with no apex, one bounded by a vertex
\* alone, a vertex off the poles, and a round face on the wrong side.
Unreadable ==
    {[HalfBall(2) EXCEPT !.shells[1].faces[2].bounds[1].uses = Tail(@)],
     Over(Barrel, <<FileBound(<<Side(1, TRUE)>>)>>, TRUE),
     Over(Globe, <<VertexLoop(2)>>, TRUE),
     Over(Barrel, <<FileBound(<<Side(1, TRUE)>>), VertexLoop(2)>>, TRUE),
     Over(Globe, <<FileBound(<<Side(1, FALSE)>>)>>, TRUE)}
MCGiven ==
    {GivenFile(f, r, FALSE) : f \in {HalfBall(1), HalfBall(2), Dome(TRUE), Dome(FALSE)}, r \in {0, Turn}}
    \cup {GivenFile(f, 0, TRUE) : f \in Unreadable}

\* Blends of a box: every edge of it, and what is left of it when some of
\* them are blended at size r.
BoxPoints(b) == {0, b[1]} \X {0, b[2]} \X {0, b[3]}
Differs(p, q) == Cardinality({d \in 1 .. 3 : p[d] # q[d]})
BoxEdges(b) == {e \in SUBSET BoxPoints(b) : Cardinality(e) = 2 /\ \A p, q \in e : p # q => Differs(p, q) = 1}
Long(e) == LET p == CHOOSE p \in e : TRUE
               q == CHOOSE q \in e : q # p
           IN  Magnitude(p[1] - q[1]) + Magnitude(p[2] - q[2]) + Magnitude(p[3] - q[3])
Meeting(blended, e) == {d \in blended \ {e} : d \cap e # {}}
\* Ends of an edge where a blend takes from it, in a face of it or at all.
CutEnds(blended, e) == UNION {d \cap e : d \in Meeting(blended, e)}
OnOneFace(d, e) == \E k \in 1 .. 3 : Cardinality({p[k] : p \in d \cup e}) = 1
FacesOfEdge(b, e) == {f \in {1, 2, 3} \X {0, 1} : \A p \in e : p[f[1]] = f[2] * b[f[1]]}
CutEndsOn(b, blended, e, f) == UNION {d \cap e : d \in {d \in Meeting(blended, e) : f \in FacesOfEdge(b, d)}}
TooBig(b, blended, r) ==
    \/ \E e \in BoxEdges(b) \ blended : r * Cardinality(CutEnds(blended, e)) >= Long(e)
    \/ \E e \in blended : \E f \in FacesOfEdge(b, e) : r * Cardinality(CutEndsOn(b, blended, e, f)) >= Long(e)
\* An edge cut to nothing from both ends.
Halved(b, blended, r) ==
    \E e \in BoxEdges(b) \ blended : Cardinality(CutEnds(blended, e)) = 2 /\ 2 * r = Long(e)
WhereMeet(blended, n) == {p \in UNION blended : Cardinality({e \in blended : p \in e}) = n}
BoxLoses(blended, r) ==
    3 * r * r * MapThenSumSet(Long, blended) - 2 * r * r * r * Cardinality(WhereMeet(blended, 2)) - 4 * r * r * r * Cardinality(WhereMeet(blended, 3))
PairOf(e) == LET p == CHOOSE p \in e : TRUE IN <<p, CHOOSE q \in e : q # p>>
Blending(kind, size, edges, refused, removes) ==
    [kind |-> kind, size |-> size, edges |-> edges, refused |-> refused, removes |-> removes]
Rounding(j, blends) == [j EXCEPT !.blends = blends]
BoxBlend(b, kind, blended, r) ==
    Blending(kind, r, [k \in DOMAIN SetToSeq(blended) |-> PairOf(SetToSeq(blended)[k])],
             IF TooBig(b, blended, r) THEN "BlendTooLarge" ELSE "", BoxLoses(blended, r))
BoxJob(b) == Pull(<<Polygon(Rect(<<0, 0>>, <<b[1], b[2]>>))>>, b[3], TRUE)
\* Some of its edges: those at two of its corners, and one across from them.
SomeEdges(b) ==
    {e \in BoxEdges(b) : e \cap {<<0, 0, 0>>, <<b[1], 0, 0>>} # {}} \cup {{<<0, 0, b[3]>>, <<0, b[2], b[3]>>}}
BoxSets(b) == {s \in SUBSET SomeEdges(b) : Cardinality(s) \in 1 .. 3}
Kinds == {"fillet", "chamfer"}
BoxesBlended(b) ==
    {Rounding(BoxJob(b), <<BoxBlend(b, kind, s, r)>>) : kind \in Kinds, r \in {1, 2},
        s \in {s \in BoxSets(b) : ~ Halved(b, s, 2)}}

\* An angle, a shaft with a step, a tray with a hole; edges named by their
\* ends, closed ones by their vertex.
Angle == <<Polygon(<<<<0, 0>>, <<6, 0>>, <<6, 3>>, <<3, 3>>, <<3, 6>>, <<0, 6>>>>)>>
Shaft == <<Polygon(<<<<0, 0>>, <<4, 0>>, <<4, 2>>, <<2, 2>>, <<2, 5>>, <<0, 5>>>>)>>
Plug == <<Circle(<<0, 0>>, 3)>>
Around3(points, z) == [k \in DOMAIN points |-> <<Lift(points[k], z), Lift(points[(k % Len(points)) + 1], z)>>]
Upright(p, lo, hi) == <<<<Lift(p, lo), Lift(p, hi)>>>>
AngleTop == Around3(<<<<0, 0>>, <<6, 0>>, <<6, 3>>, <<3, 3>>, <<3, 6>>, <<0, 6>>>>, 4)
HoleTop == Around3(Rect(<<2, 2>>, <<4, 4>>), 0)
Reflex == Upright(<<3, 3>>, 0, 4)
Edge0 == Upright(<<0, 0>>, 0, 4)
Ring1(p) == <<<<p, p>>>>
\* One blend: its size, its edges, its refusal, what it removes.
One(j, size, edges, refused, removes) ==
    {Rounding(j, <<Blending(kind, size, edges, refused, removes)>>) : kind \in Kinds}
OneOf(j, kind, size, edges, refused, removes) == {Rounding(j, <<Blending(kind, size, edges, refused, removes)>>)}
OnAngle(size, edges, refused, removes) == One(Pull(Angle, 4, TRUE), size, edges, refused, removes)
OnPlug(size, edges, refused, removes) == One(Pull(Plug, 4, TRUE), size, edges, refused, removes)
OnTray(size, edges, refused, removes) == One(Pull(TrayTurned, 5, TRUE), size, edges, refused, removes)
OnShaft(size, edges, refused, removes) == One(Spin(Shaft, UpAxis, Turn, 0), size, edges, refused, removes)
OnSector(angle, size, refused, removes) ==
    One(Spin(Disc, UpAxis, angle, 0), size, <<<<<<0, 0, 0>>, <<3, 0, 0>>>>>>, refused, removes)
Singles ==
    OnAngle(1, Reflex, "", -12) \cup OnAngle(2, Reflex, "", -48) \cup OnAngle(3, Reflex, "BlendTooLarge", 0)
    \cup OnAngle(1, AngleTop, "", 64) \cup OnAngle(1, SubSeq(AngleTop, 3, 4), "", 20)
    \cup OnAngle(1, SubSeq(AngleTop, 3, 3) \o Reflex, "VertexBlend", 0)
    \cup OnAngle(1, SubSeq(AngleTop, 3, 4) \o Reflex, "VertexBlend", 0)
    \cup OnAngle(1, Reflex \o Edge0, "", 0) \cup OnAngle(2, AngleTop, "BlendTooLarge", 0)
    \cup OnAngle(0, Reflex, "NotPositive", 0) \cup OnAngle(1, <<>>, "NoEdges", 0)
    \cup OnAngle(1, Reflex \o Edge0 \o Reflex, "RepeatedEdge", 0)
    \cup OnAngle(1, Reflex \o Upright(<<3, 0>>, 0, 4), "EdgeNotInBody", 0)
    \cup One(Pull(Tray, 3, FALSE), 1, HoleTop, "", 32)
    \cup One(Pull(Tray, 3, FALSE), 1, Upright(<<2, 2>>, 0, -3), "", -9)
    \cup One(Pull(Slot, 2, TRUE), 1, Upright(<<0, 0>>, 0, 2), "TangentChain", 0)
    \cup One(Pull(Slot, 2, TRUE), 1, <<<<<<0, 0, 2>>, <<6, 0, 2>>>>>>, "TangentChain", 0)
    \cup One(Pull(Slot, 2, TRUE), 1, <<<<<<6, 0, 2>>, <<6, 6, 2>>>>>>, "Unsupported", 0)
    \cup One(Pull(Oval, 2, TRUE), 1, Ring1(<<0, 3, 2>>), "Unsupported", 0)
    \cup OnPlug(1, Ring1(<<3, 0, 4>>), "", 32) \cup OnPlug(1, Ring1(<<3, 0, 0>>) \o Ring1(<<3, 0, 4>>), "", 64)
    \cup OnPlug(3, Ring1(<<3, 0, 0>>), "BlendTooLarge", 0) \cup OnPlug(4, Ring1(<<3, 0, 4>>), "BlendTooLarge", 0)
    \cup OneOf(Pull(Plug, 4, TRUE), "chamfer", 2, Ring1(<<3, 0, 4>>), "", 112)
    \cup OneOf(Pull(Plug, 4, TRUE), "fillet", 2, Ring1(<<3, 0, 4>>), "BlendTooLarge", 0)
    \cup OnPlug(1, Upright(<<3, 0>>, 0, 4), "TangentChain", 0)
    \cup OnTray(1, Ring1(<<4, 3, 5>>), "", 16) \cup OnTray(2, Ring1(<<4, 3, 5>>), "BlendTooLarge", 0)
    \cup OnTray(3, Ring1(<<4, 3, 0>>), "BlendTooLarge", 0)
    \cup OnShaft(1, Ring1(<<2, 2, 0>>), "", -28) \cup OnShaft(1, Ring1(<<2, 4, 0>>), "", 44)
    \cup OneOf(Spin(Shaft, UpAxis, Turn, 0), "fillet", 1, Ring1(<<5, 2, 0>>), "BlendTooLarge", 0)
    \cup OneOf(Spin(Shaft, UpAxis, Turn, 0), "chamfer", 1, Ring1(<<5, 2, 0>>), "", 20)
    \cup OnShaft(2, Ring1(<<2, 2, 0>>), "BlendTooLarge", 0)
    \cup OnSector(3, 1, "", 9) \cup OnSector(9, 1, "", -9) \cup OnSector(6, 1, "TangentChain", 0)
    \cup OnSector(3, 4, "BlendTooLarge", 0)
    \cup One(Spin(Cone, UpAxis, 3, 0), 1, <<<<<<0, 0, 0>>, <<4, 0, 0>>>>>>, "VertexBlend", 0)
\* One blend after another.
Twice(j, first, kind, size, edges, refused, removes) ==
    Rounding(j, <<first, Blending(kind, size, edges, refused, removes)>>)
Then(j, first, edges, refused, removes) == {Twice(j, first, kind, 1, edges, refused, removes) : kind \in Kinds}
OnCorner == Blending("chamfer", 2, [k \in 1 .. 3 |-> <<<<0, 0, 0>>, [d \in 1 .. 3 |-> IF d = k THEN <<5, 3, 4>>[d] ELSE 0]>>], "", 112)
Repeated ==
    Then(Pull(Angle, 4, TRUE), Blending("fillet", 1, Reflex, "", -12), <<<<<<6, 3, 4>>, <<4, 3, 4>>>>>>, "TangentChain", 0)
    \cup Then(Pull(Angle, 4, TRUE), Blending("chamfer", 1, Reflex, "", -12), <<<<<<6, 3, 4>>, <<4, 3, 4>>>>>>, "BlendTooLarge", 0)
    \cup Then(Pull(Angle, 4, TRUE), Blending("chamfer", 1, Reflex, "", -12), Reflex, "EdgeNotInBody", 0)
    \cup Then(Pull(Angle, 4, TRUE), Blending("chamfer", 2, Edge0, "", 48), <<<<<<2, 0, 4>>, <<6, 0, 4>>>>>>, "", 13)
    \cup Then(BoxJob(<<5, 3, 4>>), OnCorner, <<<<<<5, 2, 0>>, <<5, 3, 0>>>>>>, "", 4)
    \cup Then(Pull(Plug, 4, TRUE), Blending("fillet", 1, Ring1(<<3, 0, 0>>), "", 32), Ring1(<<3, 0, 4>>), "", 32)
    \cup Then(Pull(Plug, 4, TRUE), Blending("chamfer", 1, Ring1(<<3, 0, 0>>), "", 32), Ring1(<<2, 0, 0>>), "Unsupported", 0)
MCBlendings == MCJobs \cup BoxesBlended(<<5, 3, 4>>) \cup Singles \cup Repeated

\* Two edges across a face from each other, blended to its middle.
MCHalves ==
    {Rounding(BoxJob(<<5, 3, 4>>), <<BoxBlend(<<5, 3, 4>>, kind, s, 2)>>) : kind \in Kinds,
        s \in {s \in SUBSET SomeEdges(<<5, 3, 4>>) : Cardinality(s) = 2 /\ Halved(<<5, 3, 4>>, s, 2)}}
NoBodies == {}

MCMaxInterior == 24
MCBodies ==
    {Tetrahedron, Torus, Tube, Bad, Cylinder(3, 6), Cylinder(4, 3), Cylinder(2, 1)}
      \cup {Sphere(<<s, t>>) : s \in {1, 2, 3, 4}, t \in {2, 3}}
=============================================================================
