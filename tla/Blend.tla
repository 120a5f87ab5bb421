------------------------------- MODULE Blend -------------------------------
(***************************************************************************)
(* `fillet` and `chamfer` (arris-ops, blend.rs) and the rewrite of a body  *)
(* they share with the other local operations (rebuild.rs): edges of a     *)
(* body replaced by round or flat faces, decided whole before anything is  *)
(* written.                                                                *)
(*                                                                         *)
(* A body is the checker's record of a solid, with its use of every face.  *)
(* Blended edges are lines between square planes, or circles between a     *)
(* plane and a cylinder; every point a blend makes is then a lattice point *)
(* or, of an arc, one a fifth of the lattice apart.  A chamfer's           *)
(* width is counted in steps along its face's diagonal.  Edges along a     *)
(* cylinder, oblique dihedrals and tolerances are left out.                *)
(***************************************************************************)
EXTENDS Pcurves

A == INSTANCE Assembly

\* View::of: every use of an edge in the body's own order, and how the body
\* uses each face.
FaceUses(m) == FlattenSeq([k \in DOMAIN m.bodies[1] |-> m.shells[m.bodies[1][k]]])
View(p) ==
    [uses |-> FlattenSeq([i \in DOMAIN FaceUses(p.model) |-> CoedgesOf(p.model, FaceUses(p.model)[i].id)]),
     dirs |-> [f \in DOMAIN p.model.faces |->
        (CHOOSE use \in ToSet(FaceUses(p.model)) : use.id = f).dir]] @@ p
UsesAt(p, e) == SelectSeq(p.uses, LAMBDA c : c.edge = e)
WalkOrder(p) == Once([i \in DOMAIN p.uses |-> p.uses[i].edge])
EdgesAt(p, v) == {e \in {c.edge : c \in ToSet(p.uses)} : v \in {p.model.edges[e].start, p.model.edges[e].end}}
FacesOn(p, e) == {c.face : c \in ToSet(UsesAt(p, e))}

\* `Surface::normal`, up to a factor on an oblique plane, and `outward`.
SgnOf(w) == [d \in 1 .. 3 |-> Sgn(w[d])]
NormalAt(s, uv) ==
    CASE s.kind = "level" -> <<0, 0, 1>>
      [] s.kind = "wall" -> SgnOf(Cross3(Lift(Minus(s.to, s.from), 0), <<0, 0, Sense(s)>>))
      [] s.kind = "tube" -> SgnOf(Lift(Plus(Times(CosOf(uv[1]), s.x), Times(SinOf(uv[1]), s.y)), 0))
      [] s.kind = "annulus" -> <<1, 0, 0>>
      [] s.kind = "cylinder" -> At3(0, Direction(uv[1]))
      [] s.kind \in {"flat", "meridian"} ->
           Cross3(Minus3(ImageOf(s, 1, 0), ImageOf(s, 0, 0)), Minus3(ImageOf(s, 0, 1), ImageOf(s, 0, 0)))
      [] s.kind = "cone" -> At3(-Sense(s) * s.widen, Times(s.rise, Direction(Sense(s) * uv[1])))
      [] s.kind \in {"sphere", "torus"} -> At3(SinOf(uv[2]), Times(CosOf(uv[2]), Direction(uv[1])))
      [] s.kind \in {"ball", "hoop"} -> Plus3(Times3(CosOf(uv[2]), CircleAt(s, uv[1])), Times3(SinOf(uv[2]), s.z))
      [] s.kind = "funnel" -> Minus3(CircleAt(s, uv[1]), s.z)
      [] OTHER -> CircleAt(s, uv[1])
Facing3(p, c, uv) == Times3(IF p.dirs[c.face] = 0 THEN 1 ELSE -1, NormalAt(SurfaceOf(p.model, c), uv))
Parallel3(a, b) == Cross3(a, b) = <<0, 0, 0>>
\* The normals of an edge's two faces where its curve starts, or at a vertex.
NormalsAt(p, e, v) ==
    [i \in DOMAIN UsesAt(p, e) |->
        Facing3(p, UsesAt(p, e)[i], IF p.model.edges[e].start = v THEN UsesAt(p, e)[i].pc.a ELSE UsesAt(p, e)[i].pc.b)]
Tangent(normals) == Parallel3(normals[1], normals[2])
TangentAt(p, e, v) == Tangent(NormalsAt(p, e, v))
IsPlane(s) == s.kind \in {"level", "wall", "annulus", "meridian", "flat"}
IsStraight(p, e) == Len(p.curves[e]) = 2

Unblended(reason, where) == [fault |-> <<reason, where>>]
FaultsIn(results) == SelectSeq(results, LAMBDA x : x.fault # <<>>)

-----------------------------------------------------------------------------
(* stripe: the blend's surface and its two contacts with the edge's faces. *)

StripeFault(p, e) ==
    IF p.model.edges[e].deg THEN <<"VertexBlend", <<e>>>>
    ELSE IF TangentAt(p, e, p.model.edges[e].start) THEN <<"TangentChain", <<e>>>>
    ELSE IF ~ IsStraight(p, e) \/ \E c \in ToSet(UsesAt(p, e)) : ~ IsPlane(SurfaceOf(p.model, c))
    THEN <<"Unsupported", <<e>>>>
    ELSE <<>>
BlendSurface(kind, size, origin, d, x, off) ==
    IF kind = "fillet"
    THEN [kind |-> "bar", o |-> Plus3(origin, Plus3(off[1], off[2])), x |-> x, y |-> Cross3(d, x), z |-> d, radius |-> size]
    ELSE [kind |-> "flat", o |-> Plus3(origin, off[1]), y |-> d,
          x |-> [i \in 1 .. 3 |-> Sgn(off[2][i] - off[1][i])]]
\* Contact k, the uses in order of u: away from the edge by `off[k]`, along
\* the other face's normal.
StripeBy(p, e, req, d, convex, uses, normals) ==
    LET s == IF convex THEN -1 ELSE 1
        off == <<Times3(req.size * s, normals[2]), Times3(req.size * s, normals[1])>>
    IN  [fault |-> <<>>, edge |-> e, start |-> p.model.edges[e].start, end |-> p.model.edges[e].end,
         d |-> d, convex |-> convex, kind |-> req.kind, size |-> req.size, rounding |-> req.rounding,
         u1 |-> IF req.kind = "fillet" THEN 3 ELSE req.size,
         surf |-> BlendSurface(req.kind, req.size, p.curves[e][1], d, Times3(-s, normals[1]), off),
         origins |-> <<Plus3(p.curves[e][1], off[1]), Plus3(p.curves[e][1], off[2])>>,
         faces |-> <<uses[1].face, uses[2].face>>, uses |-> uses]
\* Convex or concave by the way into the first face against the normal of the
\* second; u runs from the contact the other lies counter-clockwise of.
StripeBetween(p, e, req, d, uses, normals) ==
    LET along == IF (p.dirs[uses[1].face] + uses[1].dir) % 2 = 0 THEN d ELSE Times3(-1, d)
        convex == Dot3(Cross3(normals[1], along), normals[2]) < 0
    IN  IF Dot3(normals[2], Cross3(d, normals[1])) > 0
        THEN StripeBy(p, e, req, d, convex, uses, normals)
        ELSE StripeBy(p, e, req, d, convex, Reverse(uses), Reverse(normals))
StripeUnless(fault, p, req, e) ==
    IF fault # <<>> THEN [fault |-> fault]
    ELSE StripeBetween(p, e, req, SgnOf(Minus3(p.curves[e][2], p.curves[e][1])), UsesAt(p, e),
                       NormalsAt(p, e, p.model.edges[e].start))
StripeOf(p, req, e) == StripeUnless(StripeFault(p, e), p, req, e)

\* `place`: whole turns, so that u at the start is nearest a target.
PlacedAt(surface, c, u) == Moved(c, ShiftTo(surface, c.a, <<u, c.a[2]>>))
OnBlend(s, curve, u) == PlacedAt(s.surf, PcurveOn(s.surf, curve, s.rounding), u)

\* on_side_of_face: points of a chord or of a quarter of a circle between two
\* points of a face, in fifths of the lattice, all on one side of its loops.
ChordSamples(a, b) == {Plus(Times(5 - i, a), Times(i, b)) : i \in 1 .. 4}
QuarterSamples(a, b, c) ==
    {Plus(Plus(Times(3, a), Times(4, b)), Times(-2, c)), Plus(Plus(Times(4, a), Times(3, b)), Times(-2, c))}
FacePolygons(p, f) ==
    [li \in DOMAIN p.model.faces[f].loops |-> Ring(PolygonOf(p.curves, p.model.faces[f].loops[li]))]
AllOnSide(p, f, samples, side) ==
    \A q \in samples : PointSide(ScaledAll(FacePolygons(p, f), 5), q) = side

-----------------------------------------------------------------------------
(* face_end: one end of a blend, trimmed by the face across the corner.    *)

Corner3(p, u, atLo) ==
    LET lp == p.model.faces[u.face].loops[u.loop]
    IN  lp[IF (u.dir = 0) = atLo THEN Before(lp, u.place) ELSE NextIn(lp, u.place)].edge
CornerEdges(p, s, atLo) == <<Corner3(p, s.uses[1], atLo), Corner3(p, s.uses[2], atLo)>>
\* The one other face of both corner edges: none when they disagree.
AcrossOf(p, s, corners) ==
    {f \in FacesOn(p, corners[1]) \cap FacesOn(p, corners[2]) :
        \A k \in {1, 2} : FacesOn(p, corners[k]) = {s.faces[k], f} /\ f \notin ToSet(s.faces)}
EndFault(p, s, v, corners) ==
    IF EdgesAt(p, v) # {s.edge, corners[1], corners[2]} \/ Cardinality(EdgesAt(p, v)) # 3
    THEN <<"VertexBlend", <<s.edge, v>>>>
    ELSE IF \E k \in {1, 2} : p.model.edges[corners[k]].deg THEN <<"VertexBlend", <<s.edge, v>>>>
    ELSE IF \E k \in {1, 2} : TangentAt(p, corners[k], v) THEN <<"TangentChain", <<s.edge, v>>>>
    ELSE IF AcrossOf(p, s, corners) = {} THEN <<"VertexBlend", <<s.edge, v>>>>
    ELSE <<>>

\* Where a line along d from q meets the plane through o square to n.
Pierce(q, d, o, n) == Plus3(q, Times3((Dot3(Minus3(o, q), n) * Sgn(Dot3(d, n))) \div Magnitude(Dot3(d, n)), d))
\* A corner edge cut at a point: where on it in steps, and at which end; the
\* cut is off the edge or leaves none of it when the blend is too large.
TrimOf(p, c, v, at) ==
    LET step == SgnOf(Minus3(p.curves[c][2], p.curves[c][1]))
    IN  [edge |-> c, at |-> at, cutsLo |-> p.model.edges[c].start = v,
         steps |-> Dot3(Minus3(at, p.curves[c][1]), step) \div Dot3(step, step),
         long |-> Dot3(Minus3(p.curves[c][2], p.curves[c][1]), step) \div Dot3(step, step)]
TooShort(t) ==
    \/ t.steps \notin 0 .. t.long
    \/ t.steps = IF t.cutsLo THEN t.long ELSE 0

ArcSamples(s, f, points, axisAt) ==
    IF s.kind = "chamfer" THEN ChordSamples(UvOf(f, points[1]), UvOf(f, points[2]))
    ELSE QuarterSamples(UvOf(f, points[1]), UvOf(f, points[2]), UvOf(f, axisAt))
EndAt(p, s, n, v, f, points, trims, normal) ==
    IF \E k \in {1, 2} : TooShort(trims[k])
    THEN Unblended("BlendTooLarge", <<s.edge, trims[IF TooShort(trims[1]) THEN 1 ELSE 2].edge>>)
    ELSE IF ~ AllOnSide(p, f, ArcSamples(s, p.model.faces[f].surf, points, Pierce(s.surf.o, s.d, points[1], normal)),
                        IF s.convex THEN "inside" ELSE "outside")
    THEN Unblended("BlendTooLarge", <<s.edge, f>>)
    ELSE [fault |-> <<>>, across |-> f, vertex |-> v, points |-> points, trims |-> trims,
          names |-> <<<<"trim", s.edge, n, 1>>, <<"trim", s.edge, n, 2>>>>, arc |-> <<"arc", s.edge, n>>,
          loFirst |-> TRUE, onFace |-> PcurveOn(p.model.faces[f].surf, points, s.rounding),
          onBlend |-> OnBlend(s, points, 0)]
EndAcross(p, s, n, v, corners, f, normal) ==
    LET points == [k \in {1, 2} |-> Pierce(s.origins[k], s.d, p.at[v], normal)]
    IN  IF ~ IsPlane(p.model.faces[f].surf) THEN Unblended("Unsupported", <<s.edge, f>>)
        ELSE IF Dot3(s.d, normal) = 0 THEN Unblended("VertexBlend", <<s.edge, v>>)
        ELSE EndAt(p, s, n, v, f, points, [k \in {1, 2} |-> TrimOf(p, corners[k], v, points[k])], normal)
EndUnless(fault, p, s, n, v, corners) ==
    IF fault # <<>> THEN [fault |-> fault]
    ELSE LET f == CHOOSE f \in AcrossOf(p, s, corners) : TRUE
         IN  EndAcross(p, s, n, v, corners, f, NormalAt(p.model.faces[f].surf, <<0, 0>>))
EndOver(p, s, n, v, corners) == EndUnless(EndFault(p, s, v, corners), p, s, n, v, corners)
\* End 1 is at the edge's start.
FaceEnd(p, s, n) == EndOver(p, s, n, <<s.start, s.end>>[n], CornerEdges(p, s, n = 1))

\* contacts: the lines between the two ends, each inside its face.
ContactOf(p, s, k, a, b) ==
    LET f == s.faces[k]
        on == p.model.faces[f].surf
    IN  IF Dot3(Minus3(b, a), s.d) <= 0 \/ ~ AllOnSide(p, f, ChordSamples(UvOf(on, a), UvOf(on, b)), "inside")
        THEN Unblended("BlendTooLarge", <<s.edge, f>>)
        ELSE [fault |-> <<>>, face |-> f, curve |-> <<a, b>>, onFace |-> PcurveOn(on, <<a, b>>, s.rounding),
              onBlend |-> OnBlend(s, <<a, b>>, IF k = 1 THEN 0 ELSE s.u1)]
Contacts(p, s, lo, hi) == [k \in 1 .. 2 |-> ContactOf(p, s, k, lo.points[k], hi.points[k])]
-----------------------------------------------------------------------------
(* miter: two blends at a vertex whose third edge stays sharp.             *)

\* Where a line meets one square to it that passes through o.
Meet(q, d, o) == Plus3(q, Times3(Dot3(Minus3(o, q), d), d))
SharedContacts(a, b) == {k \in {1, 2} \X {1, 2} : a.faces[k[1]] = b.faces[k[2]]}
ThirdEdges(p, a, b, v) == EdgesAt(p, v) \ {a.edge, b.edge}
\* The two meet from the shared face's point q to the third edge's: for two
\* fillets an arc of the ellipse from its major axis at the latter, for two
\* chamfers the segment.
MiterThrough(p, a, b, v, k, at, trim) ==
    LET qFirst == a.kind = "chamfer"
        curve == IF qFirst THEN at ELSE Reverse(at)
        loFirst == <<qFirst = (k[1] = 1), qFirst = (k[2] = 1)>>
    IN  IF TooShort(trim) THEN Unblended("BlendTooLarge", <<a.edge, b.edge, trim.edge>>)
        ELSE [fault |-> <<>>, kind |-> "miter", vertex |-> v, edges |-> <<a.edge, b.edge>>, shared |-> k, at |-> at,
              qFirst |-> qFirst, curve |-> curve, loFirst |-> loFirst, trim |-> trim,
              onBlend |-> [n \in 1 .. 2 |-> OnBlend(<<a, b>>[n], curve, IF loFirst[n] THEN 0 ELSE a.u1)]]
MiterOver(p, a, b, v, k, c) ==
    LET at == <<Meet(a.origins[k[1]], a.d, b.origins[k[2]]), Meet(a.origins[3 - k[1]], a.d, p.curves[c][1])>>
    IN  IF ~ IsStraight(p, c) THEN Unblended("Unsupported", <<c>>)
        ELSE IF at[2] # Meet(b.origins[3 - k[2]], b.d, p.curves[c][1]) THEN Unblended("VertexBlend", <<a.edge, b.edge, v>>)
        ELSE MiterThrough(p, a, b, v, k, at, TrimOf(p, c, v, at[2]))
Mitred(p, a, b, v) ==
    /\ Cardinality(SharedContacts(a, b)) = 1 /\ Cardinality(EdgesAt(p, v)) = 3
    /\ \E k \in SharedContacts(a, b) : \A c \in ThirdEdges(p, a, b, v) :
         ~ p.model.edges[c].deg /\ FacesOn(p, c) = {a.faces[3 - k[1]], b.faces[3 - k[2]]}
    /\ a.convex = b.convex /\ ~ Parallel3(a.d, b.d)
MiterOf(p, a, b, v) ==
    IF ~ Mitred(p, a, b, v) THEN Unblended("VertexBlend", <<a.edge, b.edge, v>>)
    ELSE MiterOver(p, a, b, v, CHOOSE k \in SharedContacts(a, b) : TRUE, CHOOSE c \in ThirdEdges(p, a, b, v) : TRUE)

-----------------------------------------------------------------------------
(* corner: three blends at a vertex of three planes.                       *)

FacesFound(ss) == Once(ss[1].faces \o ss[2].faces \o ss[3].faces)
PlaceIn(list, x) == CHOOSE i \in DOMAIN list : list[i] = x
\* For each side, the corner's point each of its contacts ends at.
PointsOfSide(ss, faces, side) == [k \in {1, 2} |-> PlaceIn(faces, ss[side].faces[k])]
OnPoint(ss, faces, i) ==
    SelectSeq(<<<<1, 1>>, <<1, 2>>, <<2, 1>>, <<2, 2>>, <<3, 1>>, <<3, 2>>>>, LAMBDA c : ss[c[1]].faces[c[2]] = faces[i])
CornerPoint(ss, faces, i) ==
    LET on == OnPoint(ss, faces, i)
        a == ss[on[1][1]]
        b == ss[on[2][1]]
    IN  Meet(a.origins[on[1][2]], a.d, b.origins[on[2][2]])
SideBetween(ends, i, j) == CHOOSE side \in 1 .. 3 : ToSet(ends[side]) = {i, j}
\* A side of the corner face from one of its points to another.
CornerArc(ss, ends, points, surface, i, j, u, along) ==
    LET side == SideBetween(ends, i, j)
        loFirst == i = ends[side][1]
        curve == <<points[i], points[j]>>
    IN  [side |-> side, ends |-> <<i, j>>, loFirst |-> loFirst, curve |-> curve, along |-> along,
         onBlend |-> OnBlend(ss[side], curve, IF loFirst THEN 0 ELSE ss[side].u1),
         onCorner |-> PlacedAt(surface, PcurveOn(surface, curve, ss[side].rounding), u)]
CornerBy(ss, v, faces, ends, points, c) ==
    [fault |-> <<>>, kind |-> "corner", vertex |-> v, edges |-> <<ss[1].edge, ss[2].edge, ss[3].edge>>,
     faces |-> faces, ends |-> ends, at |-> points, surf |-> c.surf, dir |-> c.dir, pole |-> c.pole,
     walk |-> [w \in 1 .. 3 |-> CornerArc(ss, ends, points, c.surf, c.sides[w][1], c.sides[w][2], c.u[w], w \in c.along)]]
\* Three fillets: the sphere about where their axes meet, from the point of
\* the face off the first blend as its pole; the equator from i to j, the
\* meridian up at j and the one down at i.
BallCorner(ss, points, o, p, i, j) ==
    LET toward(k) == SgnOf(Minus3(points[k], o))
    IN  [surf |-> [kind |-> "ball", o |-> o, z |-> toward(p), x |-> toward(i), y |-> toward(j), radius |-> ss[1].size],
         dir |-> IF ss[1].convex THEN 0 ELSE 1, sides |-> <<<<i, j>>, <<j, p>>, <<i, p>>>>, u |-> <<0, 3, 0>>,
         along |-> {1, 2}, pole |-> <<p>>]
FilletCorner(ss, ends, points) ==
    LET o == Meet(ss[1].surf.o, ss[1].d, ss[2].surf.o)
        p == CHOOSE k \in 1 .. 3 : k \notin ToSet(ends[1])
        from(k) == Minus3(points[k], o)
    IN  IF Dot3(Cross3(from(p), from(ends[1][1])), from(ends[1][2])) > 0
        THEN BallCorner(ss, points, o, p, ends[1][1], ends[1][2])
        ELSE BallCorner(ss, points, o, p, ends[1][2], ends[1][1])
\* Three chamfers: the triangle of the points, its normal outward.
FlatCorner(points, i, j) ==
    [surf |-> [kind |-> "flat", o |-> points[1], x |-> Minus3(points[i], points[1]), y |-> Minus3(points[j], points[1])],
     dir |-> 0, sides |-> <<<<1, i>>, <<i, j>>, <<j, 1>>>>, u |-> <<0, 0, 0>>, along |-> {1, 2, 3}, pole |-> <<>>]
ChamferCorner(points, outward) ==
    IF Dot3(Cross3(Minus3(points[2], points[1]), Minus3(points[3], points[1])), outward) >= 0
    THEN FlatCorner(points, 2, 3) ELSE FlatCorner(points, 3, 2)
OutwardOf(p, faces) ==
    FoldLeft(LAMBDA sum, f : Plus3(sum, Times3(IF p.dirs[f] = 0 THEN 1 ELSE -1, NormalAt(p.model.faces[f].surf, <<0, 0>>))),
             <<0, 0, 0>>, faces)
CornerWith(p, ss, v, faces, ends, points) ==
    CornerBy(ss, v, faces, ends, points,
             IF ss[1].kind = "fillet" THEN FilletCorner(ss, ends, points) ELSE ChamferCorner(points, OutwardOf(p, faces)))
CornerOver(p, ss, v, faces) ==
    CornerWith(p, ss, v, faces, [side \in 1 .. 3 |-> PointsOfSide(ss, faces, side)], [i \in 1 .. 3 |-> CornerPoint(ss, faces, i)])
CornerOf(p, ss, v) ==
    IF /\ EdgesAt(p, v) = {ss[1].edge, ss[2].edge, ss[3].edge} /\ ss[1].convex = ss[2].convex /\ ss[1].convex = ss[3].convex
       /\ Len(FacesFound(ss)) = 3 /\ \A i \in 1 .. 3 : Len(OnPoint(ss, FacesFound(ss), i)) = 2
    THEN CornerOver(p, ss, v, FacesFound(ss))
    ELSE Unblended("VertexBlend", <<ss[1].edge, ss[2].edge, ss[3].edge, v>>)

-----------------------------------------------------------------------------
(* ring: a circle where a plane meets a cylinder, which has no ends.       *)

IsRound(s) == s.kind = "cylinder" \/ (s.kind = "tube" /\ Dot(s.x, s.x) = Dot(s.y, s.y))
RadiusOn(s) == IF s.kind = "tube" THEN Greater(Magnitude(s.x[1]), Magnitude(s.x[2])) ELSE s.radius
AxisOn(s) == IF s.kind = "tube" THEN <<0, 0, Sense(s)>> ELSE <<1, 0, 0>>
Middle3(a, b) == [d \in 1 .. 3 |-> (a[d] + b[d]) \div 2]
\* The vertex's one other edge is the cylinder's seam.
SeamAt(p, e, f) ==
    {c \in EdgesAt(p, p.model.edges[e].start) \ {e} :
        /\ EdgesAt(p, p.model.edges[e].start) = {e, c} /\ ~ p.model.edges[c].deg
        /\ Len(UsesAt(p, c)) = 2 /\ FacesOn(p, c) = {f}}
\* What a ring is decided from: its uses on the plane and on the cylinder,
\* `s` -1 on a convex edge, the sides of the axis the normals are on.
RingBasis(p, req, e, plane, round, seam, normals, convex, o) ==
    LET s == IF convex THEN -1 ELSE 1
        x == SgnOf(Minus3(p.curves[e][1], o))
        z == AxisOn(SurfaceOf(p.model, round))
        sigma == Sgn(Dot3(normals[2], x))
        up == Sgn(Dot3(normals[1], z))
    IN  [edge |-> e, plane |-> plane, round |-> round, seam |-> seam, s |-> s, sigma |-> sigma, up |-> up, x |-> x, z |-> z,
         o |-> o, lifted |-> Plus3(o, Times3(s * req.size * up, z)), big |-> RadiusOn(SurfaceOf(p.model, round)),
         wide |-> RadiusOn(SurfaceOf(p.model, round)) + s * sigma * req.size, outward |-> Plus3(normals[1], Times3(sigma, x)),
         kind |-> req.kind, size |-> req.size, rounding |-> req.rounding]
\* The torus about where the ball's centre goes, or the cone from the
\* narrower circle to the wider, and where the two contacts are on it.
HoopOf(h) ==
    LET plane == IF -h.s * h.up > 0 THEN 3 ELSE 9
        surface == [kind |-> "hoop", o |-> h.lifted, x |-> h.x, y |-> Cross3(h.z, h.x), z |-> h.z,
                    major |-> h.wide, radius |-> h.size]
    IN  [surf |-> surface, plane |-> plane,
         round |-> IF -h.s * h.sigma > 0 THEN (IF plane = 3 THEN 0 ELSE 12) ELSE 6]
FunnelFrom(h, narrow, wide, radius, plane) ==
    LET z == SgnOf(Minus3(wide, narrow))
    IN  [surf |-> [kind |-> "funnel", o |-> narrow, x |-> h.x, y |-> Cross3(z, h.x), z |-> z, radius |-> radius],
         plane |-> plane, round |-> h.size - plane]
RingSurface(h) ==
    IF h.kind = "fillet" THEN HoopOf(h)
    ELSE IF h.wide > h.big THEN FunnelFrom(h, h.lifted, h.o, h.big, h.size)
    ELSE FunnelFrom(h, h.o, h.lifted, h.wide, 0)
CircleOf(curve, from, o, radius) == [i \in DOMAIN curve |-> Plus3(o, Times3(radius, SgnOf(Minus3(curve[i], from))))]
\* placed_uv: whole turns in u and v, nearest a target.
PlacedUv(surface, c, uv) == Moved(c, ShiftTo(surface, c.a, uv))
RingContactOn(p, h, surface, use, curve, v, onFace, onBlend) ==
    LET n == Len(curve) - 1
    IN  IF ~ AllOnSide(p, use.face, {Times(5, PcurvePoint(onFace, i, n)) : i \in 1 .. n - 1}, "inside")
        THEN Unblended("BlendTooLarge", <<h.edge, use.face>>)
        ELSE [fault |-> <<>>, face |-> use.face, curve |-> curve, onFace |-> onFace, alongU |-> onBlend.b[1] > onBlend.a[1],
              onBlend |-> PlacedUv(surface, onBlend, <<IF onBlend.b[1] > onBlend.a[1] THEN 0 ELSE Turn, v>>)]
RingContact(p, h, surface, onRound, v) ==
    LET use == IF onRound THEN h.round ELSE h.plane
        curve == IF onRound THEN CircleOf(p.curves[h.edge], h.o, h.lifted, h.big)
                 ELSE CircleOf(p.curves[h.edge], h.o, h.o, h.wide)
        found == PcurveOn(SurfaceOf(p.model, use), curve, h.rounding)
    IN  RingContactOn(p, h, surface, use, curve, v,
                      IF onRound THEN PlacedAt(SurfaceOf(p.model, use), found, use.pc.a[1]) ELSE found,
                      PcurveOn(surface, curve, h.rounding))
\* The contacts by their v, the blend's seam up from one to the other.
RingOver(p, h, at, contacts, onCylinder, trim, seam, onSeam) ==
    LET low == Lesser(at.plane, at.round)
        normals == [v \in {at.plane, at.round} |-> NormalAt(at.surf, <<0, v>>)]
    IN  IF TooShort(trim) THEN Unblended("BlendTooLarge", <<h.edge, trim.edge>>)
        ELSE [fault |-> <<>>, edge |-> h.edge, surf |-> at.surf, contacts |-> contacts, onCylinder |-> onCylinder,
              dir |-> IF Dot3(Plus3(normals[at.plane], normals[at.round]), h.outward) > 0 THEN 0 ELSE 1,
              seam |-> seam, trim |-> trim,
              seamOnBlend |-> [k \in 1 .. 2 |-> PlacedUv(at.surf, onSeam, <<<<0, Turn>>[k], low>>)]]
RingSeamed(p, h, at, contacts, onCylinder, seam) ==
    RingOver(p, h, at, contacts, onCylinder,
             TrimOf(p, h.seam, p.model.edges[h.edge].start, contacts[onCylinder].curve[1]), seam, PcurveOn(at.surf, seam, h.rounding))
RingWith(p, h, at, contacts, onCylinder) ==
    IF FaultsIn(contacts) # <<>> THEN Head(FaultsIn(contacts))
    ELSE RingSeamed(p, h, at, contacts, onCylinder, <<contacts[1].curve[1], contacts[2].curve[1]>>)
RingInOrder(p, h, at, onCylinder) ==
    RingWith(p, h, at, [k \in 1 .. 2 |-> RingContact(p, h, at.surf, k = onCylinder, IF k = onCylinder THEN at.round ELSE at.plane)],
             onCylinder)
RingOn(p, h, at) == RingInOrder(p, h, at, IF at.round < at.plane THEN 1 ELSE 2)
RingBased(p, h) ==
    IF h.wide <= 0 THEN Unblended("BlendTooLarge", <<h.edge, h.plane.face>>)
    ELSE IF h.kind = "fillet" /\ h.wide <= h.size THEN Unblended("BlendTooLarge", <<h.edge, h.round.face>>)
    ELSE RingOn(p, h, RingSurface(h))
RingBetween(p, req, e, plane, round, normals) ==
    LET seams == SeamAt(p, e, round.face)
        way == SgnOf(Minus3(p.curves[e][2], p.curves[e][Len(p.curves[e]) - 1]))
        along == IF (p.dirs[plane.face] + plane.dir) % 2 = 0 THEN way ELSE Times3(-1, way)
        convex == Dot3(Cross3(normals[1], along), normals[2]) < 0
    IN  IF seams = {} THEN Unblended("VertexBlend", <<e>>)
        ELSE IF Parallel3(normals[1], normals[2]) THEN Unblended("TangentChain", <<e>>)
        ELSE RingBased(p, RingBasis(p, req, e, plane, round, CHOOSE c \in seams : TRUE, normals, convex,
                                    Middle3(p.curves[e][1], p.curves[e][3])))
RingFrom(p, req, e, uses, normals, first) ==
    RingBetween(p, req, e, uses[first], uses[3 - first], <<normals[first], normals[3 - first]>>)
RingOfEdge(p, req, e) ==
    LET plane == {k \in {1, 2} : /\ IsPlane(SurfaceOf(p.model, UsesAt(p, e)[k]))
                                 /\ IsRound(SurfaceOf(p.model, UsesAt(p, e)[3 - k]))}
    IN  IF plane = {} THEN Unblended("Unsupported", <<e>>)
        ELSE RingFrom(p, req, e, UsesAt(p, e), NormalsAt(p, e, p.model.edges[e].start), Min(plane))

-----------------------------------------------------------------------------
(* build: the rings, where blends meet, their ends and their contacts, all *)
(* decided before anything is written.  A decision is [fault, rings,       *)
(* meets, blends].                                                         *)

Decided(rings, meets, blends) == [fault |-> <<>>, rings |-> rings, meets |-> meets, blends |-> blends]
Each(list, make(_)) == FlattenSeq([i \in DOMAIN list |-> make(list[i])])

\* One end of a blend, by the miter or the corner at its vertex or the face
\* across: the points and the names of its contacts' ends and its arc.
MiterEnd(m, side) ==
    LET of(k) == IF k = m.shared[side] THEN 1 ELSE 2
    IN  [fault |-> <<>>, across |-> 0, points |-> <<m.at[of(1)], m.at[of(2)]>>,
         names |-> <<<<"miter", m.vertex, of(1)>>, <<"miter", m.vertex, of(2)>>>>, arc |-> <<"miter", m.vertex>>,
         loFirst |-> m.loFirst[side], onBlend |-> m.onBlend[side]]
CornerEnd(m, side) ==
    LET arc == CHOOSE arc \in ToSet(m.walk) : arc.side = side
    IN  [fault |-> <<>>, across |-> 0, points |-> <<m.at[m.ends[side][1]], m.at[m.ends[side][2]]>>,
         names |-> <<<<"corner", m.vertex, m.ends[side][1]>>, <<"corner", m.vertex, m.ends[side][2]>>>>,
         arc |-> <<"side", m.vertex, side>>, loFirst |-> arc.loFirst, onBlend |-> arc.onBlend]
EndOfBlend(p, s, n, meets) ==
    LET here == SelectSeq(meets, LAMBDA m : m.vertex = <<s.start, s.end>>[n])
    IN  IF here = <<>> THEN FaceEnd(p, s, n)
        ELSE IF here[1].kind = "miter" THEN MiterEnd(here[1], PlaceIn(here[1].edges, s.edge))
        ELSE CornerEnd(here[1], PlaceIn(here[1].edges, s.edge))
BlendOver(s, ends, contacts) ==
    IF FaultsIn(contacts) # <<>> THEN Head(FaultsIn(contacts))
    ELSE [fault |-> <<>>, stripe |-> s, ends |-> ends, contacts |-> contacts]
BlendBetween(p, s, ends) ==
    IF FaultsIn(ends) # <<>> THEN Head(FaultsIn(ends)) ELSE BlendOver(s, ends, Contacts(p, s, ends[1], ends[2]))
BlendOf(p, s, meets) == BlendBetween(p, s, [n \in 1 .. 2 |-> EndOfBlend(p, s, n, meets)])

EndsAtVertex(p, open, v) ==
    SumOver(open, LAMBDA e : (IF p.model.edges[e].start = v THEN 1 ELSE 0) + (IF p.model.edges[e].end = v THEN 1 ELSE 0))
Crowded(p, open) == {v \in 1 .. p.model.vertices : EndsAtVertex(p, open, v) > 3}
MeetingVertices(stripes) ==
    Ascending({v \in UNION {{s.start, s.end} : s \in ToSet(stripes)} :
        Cardinality({s.edge : s \in {s \in ToSet(stripes) : v \in {s.start, s.end}}}) > 1})
MeetingOf(p, v, ss) == IF Len(ss) = 2 THEN MiterOf(p, ss[1], ss[2], v) ELSE CornerOf(p, ss, v)
MeetingsOf(p, stripes, at) ==
    [i \in DOMAIN at |-> MeetingOf(p, at[i], SelectSeq(stripes, LAMBDA s : at[i] \in {s.start, s.end}))]
WithBlends(rings, meets, blends) ==
    IF FaultsIn(blends) # <<>> THEN Head(FaultsIn(blends)) ELSE Decided(rings, meets, blends)
WithMeets(p, rings, stripes, meets) ==
    IF FaultsIn(meets) # <<>> THEN Head(FaultsIn(meets))
    ELSE WithBlends(rings, meets, [i \in DOMAIN stripes |-> BlendOf(p, stripes[i], meets)])
WithStripes(p, rings, stripes) ==
    IF FaultsIn(stripes) # <<>> THEN Head(FaultsIn(stripes))
    ELSE WithMeets(p, rings, stripes, MeetingsOf(p, stripes, MeetingVertices(stripes)))
WithRings(p, req, rings, open) ==
    IF FaultsIn(rings) # <<>> THEN Head(FaultsIn(rings))
    ELSE IF Crowded(p, open) # {} THEN Unblended("VertexBlend", <<Min(Crowded(p, open))>>)
    ELSE WithStripes(p, rings, [i \in DOMAIN open |-> StripeOf(p, req, open[i])])
ClosesOn(p, e) == ~ p.model.edges[e].deg /\ p.model.edges[e].start = p.model.edges[e].end
DecideOver(p, req, order) ==
    LET closed == SelectSeq(order, LAMBDA e : ClosesOn(p, e))
    IN  WithRings(p, req, [i \in DOMAIN closed |-> RingOfEdge(p, req, closed[i])],
                  SelectSeq(order, LAMBDA e : ~ ClosesOn(p, e)))
\* blend: the size and the edges asked for, each once and of the body, in the
\* body's order.
FaultyEdges(p, edges) ==
    {i \in DOMAIN edges : edges[i] \in {edges[j] : j \in 1 .. i - 1} \/ edges[i] \notin ToSet(WalkOrder(p))}
EdgeFault(p, edges, i) ==
    Unblended(IF edges[i] \in {edges[j] : j \in 1 .. i - 1} THEN "RepeatedEdge" ELSE "EdgeNotInBody", <<edges[i]>>)
Decide(p, req) ==
    IF req.size <= 0 THEN Unblended("NotPositive", <<>>)
    ELSE IF req.edges = <<>> THEN Unblended("NoEdges", <<>>)
    ELSE IF FaultyEdges(p, req.edges) # {} THEN EdgeFault(p, req.edges, Min(FaultyEdges(p, req.edges)))
    ELSE DecideOver(p, req, SelectSeq(WalkOrder(p), LAMBDA e : e \in ToSet(req.edges)))

-----------------------------------------------------------------------------
(* The rewrite: the new vertices and edges, the faces whose loops change,  *)
(* and the faces added.  A name <<"kept", id>> is the body's own.          *)

KeptAs(id) == <<"kept", id>>
MitersMade(d) == SelectSeq(d.meets, LAMBDA m : m.kind = "miter")
CornersMade(d) == SelectSeq(d.meets, LAMBDA m : m.kind = "corner")
NewVertex3(name, at) == [name |-> name, at |-> at]
NewVertices(d) ==
    Each(MitersMade(d), LAMBDA m : [k \in 1 .. 2 |-> NewVertex3(<<"miter", m.vertex, k>>, m.at[k])])
    \o Each(CornersMade(d), LAMBDA m : [k \in 1 .. 3 |-> NewVertex3(<<"corner", m.vertex, k>>, m.at[k])])
    \o Each(d.blends, LAMBDA b : Each(b.ends, LAMBDA end :
            IF end.across = 0 THEN <<>> ELSE [k \in 1 .. 2 |-> NewVertex3(end.names[k], end.points[k])]))
    \o Each(d.rings, LAMBDA r : [k \in 1 .. 2 |-> NewVertex3(<<"ring", r.edge, k>>, r.contacts[k].curve[1])])

NewEdge(name, start, end, curve) ==
    [name |-> name, start |-> start, end |-> end, deg |-> FALSE, curve |-> curve, piece |-> 0]
MiterEdge(m) ==
    LET at(k) == <<"miter", m.vertex, k>>
    IN  NewEdge(<<"miter", m.vertex>>, at(IF m.qFirst THEN 1 ELSE 2), at(IF m.qFirst THEN 2 ELSE 1), m.curve)
CornerEdge(m, side) ==
    LET arc == CHOOSE arc \in ToSet(m.walk) : arc.side = side
    IN  NewEdge(<<"side", m.vertex, side>>, <<"corner", m.vertex, arc.ends[1]>>, <<"corner", m.vertex, arc.ends[2]>>, arc.curve)
PoleEdge(m, i) ==
    LET at == <<"corner", m.vertex, i>>
    IN  [NewEdge(<<"pole", m.vertex>>, at, at, <<m.at[i], m.at[i]>>) EXCEPT !.deg = TRUE]
ContactEdge(b, k) ==
    NewEdge(<<"contact", b.stripe.edge, k>>, b.ends[1].names[k], b.ends[2].names[k], b.contacts[k].curve)
ArcEdge(end) == NewEdge(end.arc, end.names[1], end.names[2], end.points)
RingEdge(r, k) == NewEdge(<<"contact", r.edge, k>>, <<"ring", r.edge, k>>, <<"ring", r.edge, k>>, r.contacts[k].curve)

\* The cuts, and the edges they shorten at either end or at both.
CutBy(trim, name) == [trim |-> trim, name |-> name]
CutsOf(d) ==
    Each(MitersMade(d), LAMBDA m : <<CutBy(m.trim, <<"miter", m.vertex, 2>>)>>)
    \o Each(d.blends, LAMBDA b : Each(b.ends, LAMBDA end :
            IF end.across = 0 THEN <<>> ELSE [k \in 1 .. 2 |-> CutBy(end.trims[k], end.names[k])]))
    \o Each(d.rings, LAMBDA r : <<CutBy(r.trim, <<"ring", r.edge, r.onCylinder>>)>>)
ShortenedAs(p, e, lo, hi) ==
    [id |-> e, long |-> (lo \o hi)[1].trim.long,
     lo |-> IF lo = <<>> THEN 0 ELSE lo[1].trim.steps, hi |-> IF hi = <<>> THEN (lo \o hi)[1].trim.long ELSE hi[1].trim.steps,
     start |-> IF lo = <<>> THEN KeptAs(p.model.edges[e].start) ELSE lo[1].name,
     end |-> IF hi = <<>> THEN KeptAs(p.model.edges[e].end) ELSE hi[1].name,
     curve |-> <<IF lo = <<>> THEN p.curves[e][1] ELSE lo[1].trim.at, IF hi = <<>> THEN p.curves[e][2] ELSE hi[1].trim.at>>]
ShortenedOf(p, cuts) ==
    LET ids == Ascending({c.trim.edge : c \in ToSet(cuts)})
        of(e, lo) == SelectSeq(cuts, LAMBDA c : c.trim.edge = e /\ c.trim.cutsLo = lo)
    IN  [i \in DOMAIN ids |-> ShortenedAs(p, ids[i], of(ids[i], TRUE), of(ids[i], FALSE))]
PieceEdge(s) == [NewEdge(<<"cut", s.id>>, s.start, s.end, s.curve) EXCEPT !.piece = s.id]
NewEdges(d, shortened) ==
    Each(MitersMade(d), LAMBDA m : <<MiterEdge(m)>>)
    \o Each(CornersMade(d), LAMBDA m : [side \in 1 .. 3 |-> CornerEdge(m, side)]
                                   \o [i \in DOMAIN m.pole |-> PoleEdge(m, m.pole[i])])
    \o Each(d.blends, LAMBDA b : <<ContactEdge(b, 1), ContactEdge(b, 2)>>
                                 \o Each(b.ends, LAMBDA end : IF end.across = 0 THEN <<>> ELSE <<ArcEdge(end)>>))
    \o Each(d.rings, LAMBDA r : <<RingEdge(r, 1), RingEdge(r, 2),
            NewEdge(<<"seam", r.edge>>, <<"ring", r.edge, 1>>, <<"ring", r.edge, 2>>, r.seam)>>)
    \o [i \in DOMAIN shortened |-> PieceEdge(shortened[i])]

\* A face's loops: a blended edge is its contact there, a shortened one its
\* piece, and where a vertex is consumed its arc is walked.
StoredUse(edge, dir, pcurve) == [edge |-> edge, dir |-> dir, pc |-> pcurve]
ReplacedBy(d, f, e) ==
    Each(d.blends, LAMBDA b : SelectSeq([k \in 1 .. 2 |-> [face |-> b.contacts[k].face, of |-> b.stripe.edge,
            name |-> <<"contact", b.stripe.edge, k>>, pc |-> b.contacts[k].onFace]], LAMBDA c : c.face = f /\ c.of = e))
    \o Each(d.rings, LAMBDA r : SelectSeq([k \in 1 .. 2 |-> [face |-> r.contacts[k].face, of |-> r.edge,
            name |-> <<"contact", r.edge, k>>, pc |-> r.contacts[k].onFace]], LAMBDA c : c.face = f /\ c.of = e))
PartOf(c, lo, hi, long) ==
    LET at(k) == <<c.a[1] + ((c.b[1] - c.a[1]) * k) \div long, c.a[2] + ((c.b[2] - c.a[2]) * k) \div long>>
    IN  IF c.kind = "points" THEN Through(<<at(lo), at(hi)>>) ELSE LineFrom(at(lo), at(hi))
UseAfter(u, replaced, cut) ==
    IF replaced # <<>> THEN StoredUse(replaced[1].name, u.dir, replaced[1].pc)
    ELSE IF cut # <<>> THEN StoredUse(<<"cut", u.edge>>, u.dir, PartOf(u.pc[1], cut[1].lo, cut[1].hi, cut[1].long))
    ELSE StoredUse(KeptAs(u.edge), u.dir, u.pc[1])
ArcAfter(p, d, f, u) ==
    Each(d.blends, LAMBDA b : Each(b.ends, LAMBDA end :
        IF end.across = f /\ end.vertex = EndsOf(p.model, u)[2]
        THEN <<StoredUse(end.arc, IF end.loFirst = (u.edge = end.trims[1].edge) THEN 0 ELSE 1, end.onFace)>> ELSE <<>>))
LoopAfter(p, d, shortened, f, lp) ==
    Each(lp, LAMBDA u : <<UseAfter(u, ReplacedBy(d, f, u.edge), SelectSeq(shortened, LAMBDA s : s.id = u.edge))>>
                        \o ArcAfter(p, d, f, u))
LoopsAfter(p, d, shortened, f) ==
    [li \in DOMAIN p.model.faces[f].loops |-> LoopAfter(p, d, shortened, f, p.model.faces[f].loops[li])]
Touched(p, d, shortened, f) ==
    \E lp \in ToSet(p.model.faces[f].loops) : \E u \in ToSet(lp) :
        ReplacedBy(d, f, u.edge) # <<>> \/ \E s \in ToSet(shortened) : s.id = u.edge

\* The faces added: a blend's round its start arc, its far contact, its end
\* arc and its near contact; a corner's round its sides; a ring's about.
AddedFace(name, beside, surface, dir, uses) ==
    [name |-> name, beside |-> beside, surf |-> surface, dir |-> dir, loops |-> <<uses>>]
Along1(yes) == IF yes THEN 0 ELSE 1
BlendFace(b) ==
    LET e == b.stripe.edge
    IN  AddedFace(<<"blend", e>>, b.contacts[1].face, b.stripe.surf, Along1(b.stripe.convex),
            <<StoredUse(b.ends[1].arc, Along1(b.ends[1].loFirst), b.ends[1].onBlend),
              StoredUse(<<"contact", e, 2>>, 0, b.contacts[2].onBlend),
              StoredUse(b.ends[2].arc, Along1(~ b.ends[2].loFirst), b.ends[2].onBlend),
              StoredUse(<<"contact", e, 1>>, 1, b.contacts[1].onBlend)>>)
\* The pole is crossed after the second side.
CornerFace(m) ==
    LET side(w) == StoredUse(<<"side", m.vertex, m.walk[w].side>>, Along1(m.walk[w].along), m.walk[w].onCorner)
    IN  AddedFace(<<"corner", m.vertex>>, m.faces[1], m.surf, m.dir,
            <<side(1), side(2)>> \o [i \in DOMAIN m.pole |-> StoredUse(<<"pole", m.vertex>>, 1, LineFrom(<<0, 3>>, <<3, 3>>))]
            \o <<side(3)>>)
RingFace(r) ==
    AddedFace(<<"blend", r.edge>>, r.contacts[1].face, r.surf, r.dir,
        <<StoredUse(<<"contact", r.edge, 1>>, Along1(r.contacts[1].alongU), r.contacts[1].onBlend),
          StoredUse(<<"seam", r.edge>>, 0, r.seamOnBlend[2]),
          StoredUse(<<"contact", r.edge, 2>>, Along1(~ r.contacts[2].alongU), r.contacts[2].onBlend),
          StoredUse(<<"seam", r.edge>>, 1, r.seamOnBlend[1])>>)
FacesAdded(d) ==
    Each(d.blends, LAMBDA b : <<BlendFace(b)>>) \o Each(CornersMade(d), LAMBDA m : <<CornerFace(m)>>)
    \o Each(d.rings, LAMBDA r : <<RingFace(r)>>)

\* What `rewrite` is handed: [vertices, edges, faces, added].
RewriteOver(p, d, shortened) ==
    [vertices |-> NewVertices(d), edges |-> NewEdges(d, shortened), added |-> FacesAdded(d),
     faces |-> [f \in {f \in DOMAIN p.model.faces : Touched(p, d, shortened, f)} |-> LoopsAfter(p, d, shortened, f)]]
\* A shortened edge may be as short as nothing, but not shorter.
Overcut(shortened) == SelectSeq(shortened, LAMBDA s : s.lo > s.hi)
RewriteOf(p, d, shortened) ==
    IF Overcut(shortened) # <<>> THEN Unblended("BlendTooLarge", <<Overcut(shortened)[1].id>>)
    ELSE [fault |-> <<>>] @@ RewriteOver(p, d, shortened)

PlaceOfName(list, name) == CHOOSE i \in DOMAIN list : list[i].name = name
KeyOf(list, name) == IF name[1] = "kept" THEN A!Kept(name[2]) ELSE A!New(PlaceOfName(list, name))
SpecOf(rw, surface, dir, loops) ==
    [keep |-> 0, surf |-> surface, dir |-> dir,
     loops |-> [li \in DOMAIN loops |-> A!Effective(dir, [k \in DOMAIN loops[li] |->
        [edge |-> KeyOf(rw.edges, loops[li][k].edge), dir |-> loops[li][k].dir, pc |-> <<loops[li][k].pc>>]])]]
\* The faces of shell n after it: its own, then the added beside them.
ShellAt(m, n) == m.shells[m.bodies[1][n]]
AddedTo(p, rw, n) == SelectSeq(rw.added, LAMBDA face : face.beside \in {use.id : use \in ToSet(ShellAt(p.model, n))})
OwnSpec(p, rw, use) ==
    IF use.id \in DOMAIN rw.faces THEN SpecOf(rw, p.model.faces[use.id].surf, use.dir, rw.faces[use.id]) ELSE A!KeepFace(use)
ShellSpecs(p, rw, n) ==
    [k \in DOMAIN ShellAt(p.model, n) |-> OwnSpec(p, rw, ShellAt(p.model, n)[k])]
    \o [k \in DOMAIN AddedTo(p, rw, n) |->
            LET face == AddedTo(p, rw, n)[k] IN SpecOf(rw, face.surf, face.dir, face.loops)]
AssemblyOf(p, rw) ==
    [vertices |-> [k \in DOMAIN rw.vertices |-> [keep |-> 0]],
     edges |-> [k \in DOMAIN rw.edges |->
        [keep |-> 0, start |-> KeyOf(rw.vertices, rw.edges[k].start), end |-> KeyOf(rw.vertices, rw.edges[k].end),
         deg |-> rw.edges[k].deg]],
     shells |-> [n \in DOMAIN p.model.bodies[1] |-> ShellSpecs(p, rw, n)]]
\* The store with the body built beside the one blended.
Rebuilt(p, rw, builder) ==
    [model |-> A!Finish(p.model, builder), at |-> p.at \o [k \in DOMAIN rw.vertices |-> rw.vertices[k].at],
     curves |-> p.curves \o [k \in DOMAIN rw.edges |-> rw.edges[k].curve]]

-----------------------------------------------------------------------------
(* Provenance: what is gone of the body is modified into its replacement   *)
(* or its piece or deleted, and what the blends made is generated from the *)
(* blended edges.                                                          *)

EntitiesOf(m, b) ==
    {<<"vertex", v>> : v \in A!VerticesOfBody(m, b)} \cup {<<"edge", e>> : e \in A!EdgesOfBody(m, b)}
    \cup {<<"face", f>> : f \in A!FacesOfBody(m, b)}
VertexNamed(p, rw, name) == <<"vertex", p.model.vertices + PlaceOfName(rw.vertices, name)>>
EdgeNamed(p, rw, name) == <<"edge", Len(p.model.edges) + PlaceOfName(rw.edges, name)>>
FaceNamed(p, rw, out, name) ==
    LET n == CHOOSE n \in DOMAIN p.model.bodies[1] : \E face \in ToSet(AddedTo(p, rw, n)) : face.name = name
    IN  <<"face", out.model.shells[out.model.bodies[2][n]][Len(ShellAt(p.model, n)) + PlaceOfName(AddedTo(p, rw, n), name)].id>>
ModifiedFaces(p, rw, out) ==
    UNION {{<<<<"face", ShellAt(p.model, n)[k].id>>, <<"face", out.model.shells[out.model.bodies[2][n]][k].id>>>> :
              k \in {k \in DOMAIN ShellAt(p.model, n) : ShellAt(p.model, n)[k].id \in DOMAIN rw.faces}} :
             n \in DOMAIN p.model.bodies[1]}
ModifiedEdges(p, rw) ==
    {<<<<"edge", rw.edges[k].piece>>, <<"edge", Len(p.model.edges) + k>>>> : k \in {k \in DOMAIN rw.edges : rw.edges[k].piece # 0}}
MadeBy(p, rw, out, b) ==
    {FaceNamed(p, rw, out, <<"blend", b.stripe.edge>>)}
    \cup {EdgeNamed(p, rw, <<"contact", b.stripe.edge, k>>) : k \in {1, 2}}
    \cup UNION {{EdgeNamed(p, rw, end.arc)} \cup {VertexNamed(p, rw, end.names[k]) : k \in {1, 2}} : end \in ToSet(b.ends)}
MadeAtCorner(p, rw, out, m) ==
    {FaceNamed(p, rw, out, <<"corner", m.vertex>>)}
    \cup {EdgeNamed(p, rw, <<"pole", m.vertex>>) : i \in ToSet(m.pole)}
MadeByRing(p, rw, out, r) ==
    {FaceNamed(p, rw, out, <<"blend", r.edge>>), EdgeNamed(p, rw, <<"seam", r.edge>>)}
    \cup {EdgeNamed(p, rw, <<"contact", r.edge, k>>) : k \in {1, 2}} \cup {VertexNamed(p, rw, <<"ring", r.edge, k>>) : k \in {1, 2}}
GeneratedBy(p, d, rw, out) ==
    UNION {{<<"edge", b.stripe.edge>>} \X MadeBy(p, rw, out, b) : b \in ToSet(d.blends)}
    \cup UNION {{<<"edge", e>> : e \in ToSet(m.edges)} \X MadeAtCorner(p, rw, out, m) : m \in ToSet(CornersMade(d))}
    \cup UNION {{<<"edge", r.edge>>} \X MadeByRing(p, rw, out, r) : r \in ToSet(d.rings)}
RecordsOver(p, out, modified, generated) ==
    LET gone == EntitiesOf(p.model, 1) \ EntitiesOf(out.model, 2)
    IN  [modified |-> {pair \in modified : pair[1] \in gone}, generated |-> generated,
         deleted |-> gone \ {pair[1] : pair \in modified}]
Records(p, d, rw, out) ==
    RecordsOver(p, out, ModifiedFaces(p, rw, out) \cup ModifiedEdges(p, rw), GeneratedBy(p, d, rw, out))

\* The body built as a solid of its own, its entities in id order.
Renumbered(out, vs, es, fs, shells) ==
    LET use(u) == [u EXCEPT !.edge = PlaceIn(es, @)]
        face(f) == [f EXCEPT !.loops = [li \in DOMAIN @ |-> [k \in DOMAIN @[li] |-> use(@[li][k])]]]
        edge(e) == [e EXCEPT !.start = PlaceIn(vs, @), !.end = PlaceIn(vs, @)]
    IN  [model |->
           [vertices |-> Len(vs), edges |-> [k \in DOMAIN es |-> edge(out.model.edges[es[k]])],
            faces |-> [k \in DOMAIN fs |-> face(out.model.faces[fs[k]])],
            shells |-> [n \in DOMAIN shells |-> [k \in DOMAIN shells[n] |-> [shells[n][k] EXCEPT !.id = PlaceIn(fs, @)]]],
            bodies |-> <<[n \in DOMAIN shells |-> n]>>],
         at |-> [k \in DOMAIN vs |-> out.at[vs[k]]], curves |-> [k \in DOMAIN es |-> out.curves[es[k]]]]
Alone(out, b) ==
    Renumbered(out, Ascending(A!VerticesOfBody(out.model, b)), Ascending(A!EdgesOfBody(out.model, b)),
               Ascending(A!FacesOfBody(out.model, b)), A!Shells(out.model, b))
=============================================================================
