------------------------------- MODULE Sweeps ------------------------------
(***************************************************************************)
(* `extrude` and `revolve` (arris-ops, sweep.rs): a validated sketch swept *)
(* into the assembly of a solid, each spec with the part of the sketch it  *)
(* is generated from.                                                      *)
(*                                                                         *)
(* Lengths are integers and angles quarters of a turn, counted in twelfths *)
(* so that a mesh has samples between them; an arc of a sketch starts and  *)
(* ends on a quarter of its circle.  A surface is its                      *)
(* kind and the numbers that place it; a pcurve is a line in (u, v), or on *)
(* a plane the polygon through its samples.  Distances along a cone or a   *)
(* wall are up to a factor, so that they stay integers.  Numbers that are  *)
(* not finite, tolerances and oblique directions are left out.             *)
(***************************************************************************)
EXTENDS Profile

Turn == 12
\* The cosine and the sine of a quarter of a turn, counted in twelfths.
SinOf(a) == <<0, 1, 0, -1>>[((a \div 3) % 4) + 1]
CosOf(a) == SinOf(a + 3)
Direction(a) == <<CosOf(a), SinOf(a)>>
Times(k, p) == <<k * p[1], k * p[2]>>
\* The quarter of its circle a vector points along, its axes given.
QuarterOf(vector, x, y) ==
    IF Dot(vector, x) > 0 THEN 0 ELSE IF Dot(vector, y) > 0 THEN 1
    ELSE IF Dot(vector, x) < 0 THEN 2 ELSE 3

\* A pcurve: its kind is how it is sampled, its ends are a and b.
LineFrom(a, b) == [kind |-> "line", a |-> a, b |-> b]
Through(points) == [kind |-> "points", at |-> points, a |-> Head(points), b |-> Last(points)]
Moved(c, by) == [c EXCEPT !.a = Plus(@, by), !.b = Plus(@, by)]

UseOf(edge, dir, pcurve) == [edge |-> edge, dir |-> dir, pc |-> pcurve]
TurnedRound(uses) ==
    [k \in DOMAIN uses |-> [uses[Len(uses) + 1 - k] EXCEPT !.dir = 1 - @]]
IfAny(b, x) == IF b THEN <<x>> ELSE <<>>
IndexOf(list, name) == CHOOSE k \in DOMAIN list : list[k].name = name
Held(list, name) == \E k \in DOMAIN list : list[k].name = name

\* vertex_index: where the consumer drew the vertex an edge starts at.
VertexOfSegment(e, n) == e.segment                                       \* mutant
VertexIndex(e, n) == IF e.reversed THEN (e.segment + 1) % n ELSE e.segment

\* Every edge of every loop, in walking order, as a function of its place.
OverLoops(loops, at(_, _)) ==
    FlattenSeq([l \in DOMAIN loops |-> FlattenSeq([j \in DOMAIN loops[l] |-> at(l, j)])])
NextIn(loop, j) == (j % Len(loop)) + 1
Before(loop, j) == IF j = 1 THEN Len(loop) ELSE j - 1

-----------------------------------------------------------------------------
(* What both sweeps hand to the assembly.                                  *)

\* place_in_domain: the first use nearest u = 0, each later one continuous
\* with the end of the one before.
Periods(surface) ==
    IF surface.kind \in {"cylinder", "cone", "sphere", "tube", "bar", "ball", "funnel"} THEN <<Turn, 0>>
    ELSE IF surface.kind \in {"torus", "hoop"} THEN <<Turn, Turn>> ELSE <<0, 0>>
WholePeriods(gap, period) ==
    IF period = 0 THEN 0 ELSE ((gap + period \div 2) \div period) * period
ShiftTo(surface, from, to) ==
    <<WholePeriods(to[1] - from[1], Periods(surface)[1]), WholePeriods(to[2] - from[2], Periods(surface)[2])>>
Entry(u) == IF u.dir = 0 THEN u.pc.a ELSE u.pc.b
Exit(u) == IF u.dir = 0 THEN u.pc.b ELSE u.pc.a
PlacedUse(surface, u, target) == [u EXCEPT !.pc = Moved(@, ShiftTo(surface, Entry(u), target))]
LeftWhereReported(surface, uses) == uses                                 \* mutant
PlaceInDomain(surface, uses) ==
    FoldLeft(LAMBDA done, u : Append(done,
                PlacedUse(surface, u, IF done = <<>> THEN <<0, Entry(u)[2]>> ELSE Exit(Last(done)))),
             <<>>, uses)

\* cap_face: every loop as oriented, turned round on a face used reversed.
CapFace(loops, surface, dir, slot(_, _)) ==
    [surf |-> surface, dir |-> dir, loops |->
        [l \in DOMAIN loops |->
            LET uses == [j \in DOMAIN loops[l] |-> UseOf(slot(l, j), 0, Through(loops[l][j].points))]
            IN  IF dir = 1 THEN TurnedRound(uses) ELSE uses]]
\* side_face: one loop, or with `split` one loop of each use.
SideFace(surface, dir, cycle, split) ==
    [surf |-> surface, dir |-> dir, loops |->
        IF split THEN [k \in DOMAIN cycle |-> PlaceInDomain(surface, <<cycle[k]>>)]
        ELSE <<PlaceInDomain(surface, cycle)>>]

\* side_orientation: outward is the right of the walk.
Outward(e) ==
    IF e.kind = "line" THEN LET d == Minus(End(e), Start(e)) IN <<d[2], -d[1]>>
    ELSE IF e.ccw THEN Minus(e.points[2], e.centre) ELSE Minus(e.centre, e.points[2])
SideOrientation(e, normal) == IF Dot(Outward(e), normal) > 0 THEN 0 ELSE 1

Spec3(name, at, role) == [name |-> name, at |-> at, role |-> role]
\* The curve of an edge is the points it is sampled at.
EdgeSpec(name, start, end, deg, curve, role) ==
    [name |-> name, start |-> start, end |-> end, deg |-> deg, curve |-> curve, role |-> role]
FaceSpec(role, face) == [role |-> role, face |-> face]
Part(name, l, k) == <<name, l, k>>

RadiusOf(e) == LET r == Minus(Start(e), e.centre) IN CHOOSE k \in 1 .. 50 : k * k = Dot(r, r)
\* Segments of a sketch a lattice step long along u or v, for walls.
Length(e) ==
    LET d == Minus(End(e), Start(e))
    IN  Greater(Greater(d[1], -d[1]), Greater(d[2], -d[2]))

-----------------------------------------------------------------------------
(* extrude by a height, along the normal or against it.                    *)

Lift(p, height) == p \o <<height>>
ExtrudedVertices(loops, height) ==
    OverLoops(loops, LAMBDA l, j : <<
        Spec3(<<"start", l, j>>, Lift(Start(loops[l][j]), 0),
              Part("StartVertex", l - 1, VertexIndex(loops[l][j], Len(loops[l]))))>>)
    \o OverLoops(loops, LAMBDA l, j : <<
        Spec3(<<"end", l, j>>, Lift(Start(loops[l][j]), height),
              Part("EndVertex", l - 1, VertexIndex(loops[l][j], Len(loops[l]))))>>)
ExtrudedEdges(loops, height) ==
    LET row(name, h, role) == OverLoops(loops, LAMBDA l, j : <<
            EdgeSpec(<<name, l, j>>, <<name, l, j>>, <<name, l, NextIn(loops[l], j)>>, FALSE,
                     [k \in DOMAIN loops[l][j].points |-> Lift(loops[l][j].points[k], h)],
                     Part(role, l - 1, loops[l][j].segment))>>)
    IN  row("start", 0, "StartEdge") \o row("end", height, "EndEdge")
        \o OverLoops(loops, LAMBDA l, j : <<
            EdgeSpec(<<"rise", l, j>>, <<"start", l, j>>, <<"end", l, j>>, FALSE,
                     <<Lift(Start(loops[l][j]), 0), Lift(Start(loops[l][j]), height)>>,
                     Part("Rise", l - 1, VertexIndex(loops[l][j], Len(loops[l]))))>>)

\* A line sweeps a wall, an arc a cylinder about its centre, an ellipse an
\* elliptic one, each with u from the axis of its frame and v the height.
ExtrudedSurface(e, up) ==
    IF e.kind = "line" THEN [kind |-> "wall", from |-> Start(e), to |-> End(e), long |-> Length(e), up |-> up]
    ELSE LET x == IF e.kind = "circle" THEN <<RadiusOf(e), 0>> ELSE Minus(Start(e), e.centre)
             y == IF e.kind = "circle" THEN <<0, RadiusOf(e)>> ELSE Minus(e.points[2], e.centre)
             left == IF Cross(x, y) > 0 THEN y ELSE Times(-1, y)
         IN  [kind |-> "tube", centre |-> e.centre, x |-> x, up |-> up,
              y |-> IF up THEN left ELSE Times(-1, left)]
\* How far an arc turns in its surface's frame, in twelfths.
Turned12(from, to, sense) ==
    LET q == ((to - from) * sense) % 4 IN 3 * sense * (IF q = 0 THEN 4 ELSE q)
ArcOnTube(e, s) ==
    LET from == QuarterOf(Minus(Start(e), e.centre), s.x, s.y)
        to == QuarterOf(Minus(End(e), e.centre), s.x, s.y)
    IN  <<3 * from, 3 * from + Turned12(from, to, IF e.ccw = s.up THEN 1 ELSE -1)>>
AcrossWall(e, s) == IF e.kind = "line" THEN <<0, s.long>> ELSE ArcOnTube(e, s)
\* pcurve_on reports an angle within a turn; 0 may come back as a turn
\* less a rounding.
Reported(u, rounding) == IF u % Turn = 0 THEN rounding ELSE u % Turn
ReportedOn(s, u, rounding) == IF s.kind = "wall" THEN u ELSE Reported(u, rounding)
ExtrudedCycle(es, l, j, next, s, us, length, rounding) ==
    LET u(k) == ReportedOn(s, us[k], rounding)
        edge(k, v, dir) == UseOf(k, dir, LineFrom(<<u(1), v>>, <<u(1) + us[2] - us[1], v>>))
        rise(k, i, dir) == UseOf(k, dir, LineFrom(<<u(i), 0>>, <<u(i), length>>))
    IN  <<edge(IndexOf(es, <<"start", l, j>>), 0, 0), rise(IndexOf(es, <<"rise", l, next>>), 2, 0),
          edge(IndexOf(es, <<"end", l, j>>), length, 1), rise(IndexOf(es, <<"rise", l, j>>), 1, 1)>>
ExtrudedSide(es, loops, l, j, s, job) ==
    LET e == loops[l][j]
        cycle == ExtrudedCycle(es, l, j, NextIn(loops[l], j), s, AcrossWall(e, s), job.length, job.rounding)
        outwards == IF s.kind = "tube" THEN Minus(e.points[2], e.centre)
                    ELSE IF s.up THEN Outward(e) ELSE Times(-1, Outward(e))
    IN  SideFace(s, SideOrientation(e, outwards), IF s.up THEN cycle ELSE TurnedRound(cycle), FALSE)
ExtrudedFaces(es, loops, job) ==
    LET cap(role, name, h, dir) ==
          FaceSpec(Part(role, 0, 0), CapFace(loops, [kind |-> "level", at |-> h], dir,
                                             LAMBDA l, j : IndexOf(es, <<name, l, j>>)))
    IN  <<cap("StartCap", "start", 0, IF job.up THEN 1 ELSE 0),
          cap("EndCap", "end", IF job.up THEN job.length ELSE -job.length, IF job.up THEN 0 ELSE 1)>>
        \o OverLoops(loops, LAMBDA l, j : <<
            FaceSpec(Part("Side", l - 1, loops[l][j].segment),
                     ExtrudedSide(es, loops, l, j, ExtrudedSurface(loops[l][j], job.up), job))>>)
Swept(vertices, edges, shells, roles) ==
    [fault |-> <<>>, vertices |-> vertices, edges |-> edges, shells |-> shells, shellRoles |-> roles]
Degenerate(fault) == [fault |-> fault, vertices |-> <<>>, edges |-> <<>>, shells |-> <<>>, shellRoles |-> <<>>]
ExtrudedTo(loops, es, job, height) ==
    Swept(ExtrudedVertices(loops, height), es, <<ExtrudedFaces(es, loops, job)>>, <<Part("Shell", 0, 0)>>)
ExtrudedOver(loops, job, height) == ExtrudedTo(loops, ExtrudedEdges(loops, height), job, height)
Extrude(job) ==
    IF job.length <= 0 THEN Degenerate(<<"NotPositive">>)
    ELSE IF ~ job.normal THEN Degenerate(<<"DirectionNotNormal">>)
    ELSE IF ~ IsSound(ProfileEdges(job.sketch)) THEN Degenerate(ProfileEdges(job.sketch).fault)
    ELSE ExtrudedOver(ProfileEdges(job.sketch).loops, job, IF job.up THEN job.length ELSE -job.length)
=============================================================================
