------------------------------ MODULE Checker ------------------------------
(***************************************************************************)
(* The fast rows of the checker (arris-check, check.rs and topology.rs),   *)
(* each the set of the violations it reports of a solid                    *)
(*   [model, at, curves]                                                   *)
(* a store of one body, the point of every vertex and the samples of every *)
(* edge's curve.  The image of (u, v) on a surface is its lattice point.   *)
(* Tolerances are zero: rows about them (V1, E5, F2) and about numbers     *)
(* that are not finite are left out, and so is what only a wire or a sheet *)
(* has.                                                                    *)
(***************************************************************************)
EXTENDS Revolve

Plus3(p, q) == [d \in 1 .. 3 |-> p[d] + q[d]]
Minus3(p, q) == [d \in 1 .. 3 |-> p[d] - q[d]]
Times3(k, p) == [d \in 1 .. 3 |-> k * p[d]]
Dot3(p, q) == p[1] * q[1] + p[2] * q[2] + p[3] * q[3]
Cross3(p, q) == <<p[2] * q[3] - p[3] * q[2], p[3] * q[1] - p[1] * q[3], p[1] * q[2] - p[2] * q[1]>>
\* Surfaces placed by a frame: a blend's, about their z from their x.
CircleAt(s, u) == Plus3(Times3(CosOf(u), s.x), Times3(SinOf(u), s.y))
FromFrame(s, out, u, up) == Plus3(s.o, Plus3(Times3(out, CircleAt(s, u)), Times3(up, s.z)))

At3(t, ring) == <<t>> \o ring
OnRing(t, rho, u) == At3(t, Times(rho, Direction(u)))
ImageOf(s, u, v) ==
    CASE s.kind = "cylinder" -> OnRing(v, s.radius, u)
      [] s.kind = "annulus" -> <<s.t, u, v>>
      [] s.kind = "cone" -> OnRing(s.t + Sense(s) * v, s.radius + (v * s.widen) \div s.rise, Sense(s) * u)
      [] s.kind = "sphere" -> OnRing(s.t + s.radius * SinOf(v), s.radius * CosOf(v), u)
      [] s.kind = "torus" -> OnRing(s.t + s.radius * SinOf(v), s.major + s.radius * CosOf(v), u)
      [] s.kind = "meridian" -> OnRing(Along(s.axis, <<u, v>>), Rho(s.axis, <<u, v>>), s.at)
      [] s.kind = "wall" ->
           Lift(Plus(s.from, <<(u * (s.to[1] - s.from[1])) \div s.long, (u * (s.to[2] - s.from[2])) \div s.long>>),
              Sense(s) * v)
      [] s.kind = "tube" ->
           Lift(Plus(s.centre, Plus(Times(CosOf(u), s.x), Times(SinOf(u), s.y))), Sense(s) * v)
      [] s.kind = "flat" -> Plus3(s.o, Plus3(Times3(u, s.x), Times3(v, s.y)))
      [] s.kind = "bar" -> FromFrame(s, s.radius, u, v)
      [] s.kind = "ball" -> FromFrame(s, s.radius * CosOf(v), u, s.radius * SinOf(v))
      [] s.kind = "hoop" -> FromFrame(s, s.major + s.radius * CosOf(v), u, s.radius * SinOf(v))
      [] s.kind = "funnel" -> FromFrame(s, s.radius + v, u, v)
      [] OTHER -> <<u, v, s.at>>
\* Where the image is a lattice point: at quarters of the circles.
OnLattice(s, u, v) ==
    CASE s.kind \in {"sphere", "torus", "ball", "hoop"} -> v % 3 = 0 /\ u % 3 = 0
      [] s.kind \in {"cylinder", "cone", "tube", "bar", "funnel"} -> u % 3 = 0
      [] OTHER -> TRUE
Image(s, uv) == ImageOf(s, uv[1], uv[2])

\* A pcurve at sample i of n, where it is a point of the lattice.
PcurvePoint(c, i, n) ==
    IF c.kind = "points" THEN c.at[((i * (Len(c.at) - 1)) \div n) + 1]
    ELSE <<c.a[1] + ((c.b[1] - c.a[1]) * i) \div n, c.a[2] + ((c.b[2] - c.a[2]) * i) \div n>>
IsSample(c, i, n) ==
    IF c.kind = "points" THEN (i * (Len(c.at) - 1)) % n = 0
    ELSE \A d \in {1, 2} : ((c.b[d] - c.a[d]) * i) % n = 0

-----------------------------------------------------------------------------
(* The uses of a body: a coedge is [face, loop, edge, dir, pc].            *)

FaceIds(m) == UNION {{use.id : use \in ToSet(m.shells[n])} : n \in ToSet(m.bodies[1])}
CoedgesOf(m, f) ==
    FlattenSeq([li \in DOMAIN m.faces[f].loops |->
        [k \in DOMAIN m.faces[f].loops[li] |->
            [face |-> f, loop |-> li, place |-> k, edge |-> m.faces[f].loops[li][k].edge,
             dir |-> m.faces[f].loops[li][k].dir, pc |-> m.faces[f].loops[li][k].pc[1]]]])
CoedgesIn(m) == UNION {ToSet(CoedgesOf(m, f)) : f \in FaceIds(m)}
SurfaceOf(m, c) == m.faces[c.face].surf
EdgeIds(m) == {c.edge : c \in CoedgesIn(m)}
EndsOf(m, u) == IF u.dir = 0 THEN <<m.edges[u.edge].start, m.edges[u.edge].end>>
                ELSE <<m.edges[u.edge].end, m.edges[u.edge].start>>

\* V2: the curve of an edge ends at its vertices.
VertexOffEdge(s, edges) ==
    {<<"V2", e>> : e \in {e \in edges :
        ~ s.model.edges[e].deg /\ <<Head(s.curves[e]), Last(s.curves[e])>>
                                  # <<s.at[s.model.edges[e].start], s.at[s.model.edges[e].end]>>}}
\* V3: the surface at each end of a pcurve is the vertex there.
VertexOffFace(s, coedges) ==
    {<<"V3", c.face, c.edge>> : c \in {c \in coedges :
        <<Image(SurfaceOf(s.model, c), c.pc.a), Image(SurfaceOf(s.model, c), c.pc.b)>>
          # <<s.at[s.model.edges[c.edge].start], s.at[s.model.edges[c.edge].end]>>}}

\* E2: one vertex exactly when the curve returns to its start.
EdgeEnds(s, edges) ==
    {<<"E2", e>> : e \in {e \in edges :
        ~ s.model.edges[e].deg
        /\ (Head(s.curves[e]) = Last(s.curves[e])) # (s.model.edges[e].start = s.model.edges[e].end)}}
\* E4: the image of a pcurve is the curve, at every sample.
OffCurve(s, c, i, n) ==
    LET uv == PcurvePoint(c.pc, i, n)
    IN  /\ IsSample(c.pc, i, n) /\ OnLattice(SurfaceOf(s.model, c), uv[1], uv[2])
        /\ Image(SurfaceOf(s.model, c), uv) # s.curves[c.edge][i + 1]
PcurveOffCurve(s, coedges) ==
    {<<"E4", c.face, c.edge>> : c \in {c \in coedges :
        ~ s.model.edges[c.edge].deg
        /\ \E i \in 0 .. Len(s.curves[c.edge]) - 1 : OffCurve(s, c, i, Len(s.curves[c.edge]) - 1)}}
\* E6: a degenerate edge has one vertex, and one point for an image.
NotSingular(s, c) ==
    \E u \in c.pc.a[1] .. c.pc.b[1] :
        Image(SurfaceOf(s.model, c), <<u, c.pc.a[2]>>) # Image(SurfaceOf(s.model, c), c.pc.a)
DegenerateEdge(s, coedges) ==
    {<<"E6", c.edge>> : c \in {c \in coedges :
        s.model.edges[c.edge].deg
        /\ (s.model.edges[c.edge].start # s.model.edges[c.edge].end \/ NotSingular(s, c))}}

\* A step in (u, v) of exactly a period in one direction.
IsPeriod(surface, d) ==
    \E k \in {1, 2} : Periods(surface)[k] # 0 /\ d[k] \in {Periods(surface)[k], -Periods(surface)[k]}
                      /\ d[3 - k] = 0
\* E7: two uses of an edge in one loop run opposite ways, a period apart.
Seam(s, coedges) ==
    {<<"E7", c.face, c.edge>> : c \in {c \in coedges : \E d \in coedges :
        /\ d.face = c.face /\ d.loop = c.loop /\ d.edge = c.edge /\ d.place # c.place
        /\ \/ c.dir = d.dir
           \/ /\ Periods(SurfaceOf(s.model, c)) # <<0, 0>>
              /\ \/ ~ IsPeriod(SurfaceOf(s.model, c), Minus(c.pc.a, d.pc.a))
                 \/ ~ IsPeriod(SurfaceOf(s.model, c), Minus(c.pc.b, d.pc.b))}}

-----------------------------------------------------------------------------
(* Loops, faces and shells.                                                *)

NextUse(loop, k) == loop[(k % Len(loop)) + 1]
\* L1: a loop has a coedge and closes.
LoopOpen(m, f) ==
    {<<"L1", f, li>> : li \in {li \in DOMAIN m.faces[f].loops :
        m.faces[f].loops[li] = <<>>
        \/ \E k \in DOMAIN m.faces[f].loops[li] :
             EndsOf(m, m.faces[f].loops[li][k])[2] # EndsOf(m, NextUse(m.faces[f].loops[li], k))[1]}}
\* L2: pcurves meet at every junction, or jump by one period.
UvEnds(u) == IF u.dir = 0 THEN <<u.pc[1].a, u.pc[1].b>> ELSE <<u.pc[1].b, u.pc[1].a>>
UvJumpOk(surface, d) == d = <<0, 0>> \/ IsPeriod(surface, d)
PcurveGap(m, f) ==
    {<<"L2", f, li>> : li \in {li \in DOMAIN m.faces[f].loops :
        \E k \in DOMAIN m.faces[f].loops[li] :
            ~ UvJumpOk(m.faces[f].surf, Minus(UvEnds(NextUse(m.faces[f].loops[li], k))[1],
                                              UvEnds(m.faces[f].loops[li][k])[2]))}}
\* L3: an edge once in a face, or twice in one loop of a periodic surface.
EdgeReused(m, f) ==
    {<<"L3", f, c.edge>> : c \in {c \in ToSet(CoedgesOf(m, f)) :
        LET same == {d \in ToSet(CoedgesOf(m, f)) : d.edge = c.edge}
        IN  /\ Cardinality(same) > 1
            /\ ~ /\ Cardinality(same) = 2 /\ Cardinality({d.loop : d \in same}) = 1
                 /\ Periods(m.faces[f].surf) # <<0, 0>>}}
\* L4: every loop turns; outer loops do not nest, holes lie in one of them.
PolygonOf(curves, loop) ==
    FlattenSeq([k \in DOMAIN loop |->
        LET n == Len(curves[loop[k].edge]) - 1
        IN  [i \in 1 .. n |-> PcurvePoint(loop[k].pc[1], IF loop[k].dir = 0 THEN i - 1 ELSE n + 1 - i, n)]])
Within(ring, other) == Winding(<<other>>, Head(ring)) # 0
NestingFaults(f, rings) ==
    LET turning == {k \in DOMAIN rings : TwiceArea(rings[k]) # 0}
        outer == {k \in turning : TwiceArea(rings[k]) > 0}
    IN  {<<"ZeroArea", f, k>> : k \in DOMAIN rings \ turning}
        \cup (IF outer = {} /\ turning # {} THEN {<<"NoOuter", f>>} ELSE {})
        \cup {<<"MultipleOuter", f>> : p \in {p \in outer \X outer :
                p[1] # p[2] /\ Within(rings[p[1]], rings[p[2]])}}
        \cup {<<"HoleOutside", f, k>> : k \in {k \in turning \ outer :
                outer # {} /\ ~ \E o \in outer : Within(rings[k], rings[o])}}
LoopNesting(m, curves, f) ==
    NestingFaults(f, [li \in DOMAIN m.faces[f].loops |-> Ring(PolygonOf(curves, m.faces[f].loops[li]))])
\* F1: a face has a loop, and no pcurve leaves the domain of its surface.
FaceMalformed(m, f) ==
    IF m.faces[f].loops = <<>> THEN {<<"F1", f>>}
    ELSE {<<"F1", f>> : c \in {c \in ToSet(CoedgesOf(m, f)) :
            m.faces[f].surf.kind \in {"sphere", "ball"} /\ ~ {c.pc.a[2], c.pc.b[2]} \subseteq -3 .. 3}}

\* S1, S2, S4: no face twice in a shell, every edge once each way.
FaceUsedTwice(shell) ==
    {<<"S1", shell[i].id>> : i \in {i \in DOMAIN shell : \E j \in DOMAIN shell : i < j /\ shell[i].id = shell[j].id}}
ShellEdgeUses(m, shell) ==
    FlattenSeq([i \in DOMAIN shell |->
        [k \in DOMAIN CoedgesOf(m, shell[i].id) |->
            [edge |-> CoedgesOf(m, shell[i].id)[k].edge,
             dir |-> (CoedgesOf(m, shell[i].id)[k].dir + shell[i].dir) % 2]]])
EdgeUses(m, uses) ==
    {<<"S2", u.edge>> : u \in {u \in ToSet(uses) :
        ~ m.edges[u.edge].deg
        /\ \E d \in {0, 1} : Len(SelectSeq(uses, LAMBDA w : w = [u EXCEPT !.dir = d])) # 1}}
\* S3: the faces of a shell are one component through their edges.
Spread(m, shell, reached) ==
    {f \in {use.id : use \in ToSet(shell)} :
        {c.edge : c \in ToSet(CoedgesOf(m, f))} \cap UNION {{c.edge : c \in ToSet(CoedgesOf(m, g))} : g \in reached} # {}}
ShellDisconnected(m, shell) ==
    LET all == FoldLeft(LAMBDA reached, use : Spread(m, shell, reached), {shell[1].id}, shell)
    IN  IF Cardinality(all) < Cardinality({use.id : use \in ToSet(shell)}) THEN {<<"S3", shell[1].id>>} ELSE {}

FaceRows(m, curves, f) ==
    LoopOpen(m, f) \cup PcurveGap(m, f) \cup EdgeReused(m, f) \cup LoopNesting(m, curves, f) \cup FaceMalformed(m, f)
ShellRows(m, shell) == FaceUsedTwice(shell) \cup EdgeUses(m, ShellEdgeUses(m, shell)) \cup ShellDisconnected(m, shell)
Violations(s) ==
    VertexOffEdge(s, EdgeIds(s.model)) \cup VertexOffFace(s, CoedgesIn(s.model))
    \cup EdgeEnds(s, EdgeIds(s.model)) \cup PcurveOffCurve(s, CoedgesIn(s.model))
    \cup DegenerateEdge(s, CoedgesIn(s.model)) \cup Seam(s, CoedgesIn(s.model))
    \cup UNION {FaceRows(s.model, s.curves, f) : f \in FaceIds(s.model)}
    \cup UNION {ShellRows(s.model, s.model.shells[n]) : n \in ToSet(s.model.bodies[1])}
=============================================================================
