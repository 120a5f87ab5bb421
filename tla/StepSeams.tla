----------------------------- MODULE StepSeams -----------------------------
(***************************************************************************)
(* The rest of `build` in the STEP reader (reader/topology.rs): what a     *)
(* face needs to be one region of (u, v) and the file left out - a seam    *)
(* between two loops that wrap a period, a seam to an apex - the place of  *)
(* its loops in the surface's domain, and the assembly.                    *)
(***************************************************************************)
EXTENDS StepRead

-----------------------------------------------------------------------------
(* A seam from a bound to a singular point.                                *)

Distance2(p, q) == LET d == <<p[1] - q[1], p[2] - q[2], p[3] - q[3]>> IN d[1] * d[1] + d[2] * d[2] + d[3] * d[3]
NearestStart(at, row, uses) ==
    LET far(k) == Distance2(at.points[uses[k].from], row.point)
    IN  uses[CHOOSE k \in DOMAIN uses : \A i \in DOMAIN uses : far(k) < far(i) \/ (far(k) = far(i) /\ k <= i)].from
SeamUse(index, dir, curve, from, to, pc) ==
    [edge |-> <<"rebuilt", index>>, dir |-> dir, pc |-> pc, n |-> Len(curve) - 1, from |-> from, to |-> to]
SeamEdge(curve, from, to) == [curve |-> curve, start |-> from, end |-> to, deg |-> FALSE]
\* seam_to and join: along the ruling or the meridian to the point and back.
SeamJoined(at, from, apex, uses, rebuilt, pc, rounding) ==
    LET curve == <<at.points[from], at.points[apex]>>
        i == Len(rebuilt) + 1
        start == FirstOf({k \in DOMAIN uses : uses[k].from = from})
    IN  [uses |-> Rotated(uses, start)
                  \o <<SeamUse(i, 0, curve, from, apex, pc), SeamUse(i, 1, curve, apex, from, pc)>>,
         rebuilt |-> Append(rebuilt, SeamEdge(curve, from, apex)), index |-> i]
SeamTo(at, row, apex, uses, rebuilt, rounding) ==
    LET from == NearestStart(at, row, uses)
    IN  SeamJoined(at, from, apex, uses, rebuilt,
                   PcurveOn(at.surface, <<at.points[from], at.points[apex]>>, rounding), rounding)
\* A bound that reaches a singular point has no seam to one.
HasSeamTo(at, row, uses) == RowsAt(at.surface, at.points[NearestStart(at, row, uses)]) = <<>>

\* seam_crosses: a chord of a file edge across the seam, off its ends.
UvAt(u, i) == PcurvePoint(u.pc, i, u.n)
ProperlyCross(a, b, c, d) ==
    Cross(Minus(b, a), Minus(c, a)) * Cross(Minus(b, a), Minus(d, a)) < 0
    /\ Cross(Minus(d, c), Minus(a, c)) * Cross(Minus(d, c), Minus(b, c)) < 0
ChordCrosses(at, a, b, c, d) ==
    LET by == ShiftTo(at.surface, c, a) IN ProperlyCross(a, b, Plus(c, by), Plus(d, by))
SeamCrosses(at, uses, index) ==
    \E s \in ToSet(uses) :
        /\ s.edge = <<"rebuilt", index>> /\ s.dir = 0
        /\ \E u \in ToSet(uses) :
             u.edge[1] = "file" /\ \E i \in 0 .. u.n - 1 : ChordCrosses(at, Entry(s), Exit(s), UvAt(u, i), UvAt(u, i + 1))

\* A walk, or why there is none.
Uncrossed(at, w, index) ==
    IF w.ok /\ SeamCrosses(at, w.uses, index) THEN [w EXCEPT !.ok = FALSE, !.fault = <<"SeamCrosses">>] ELSE w
WalkToApex(at, joined) == Uncrossed(at, WalkOf(at, joined.uses, joined.rebuilt), joined.index)
JoinedToApex(at, row, apex, uses, rebuilt, rounding) ==
    IF HasSeamTo(at, row, uses)
    THEN WalkToApex(at, SeamTo(at, row, apex, uses, rebuilt, rounding))
    ELSE [ok |-> FALSE, uses |-> uses, rebuilt |-> rebuilt, fault |-> <<"BoundReachesApex">>]

-----------------------------------------------------------------------------
(* Bands: two loops that wrap once round one period.                       *)

Chained(uses) == \A k \in DOMAIN uses : uses[k].to = uses[(k % Len(uses)) + 1].from
TurnsOf(s, uses) == ShiftTo(s, Entry(Head(uses)), Exit(Last(uses)))
\* The period a loop wraps once, 0 for none.
Wraps(s, uses) ==
    LET turns == TurnsOf(s, uses)
    IN  IF ~ Chained(uses) THEN 0
        ELSE IF turns[1] \in {Turn, -Turn} /\ turns[2] = 0 THEN 1
        ELSE IF turns[2] \in {Turn, -Turn} /\ turns[1] = 0 THEN 2 ELSE 0
Wrapping(s, loops) == SelectSeq([k \in DOMAIN loops |-> k], LAMBDA k : Wraps(s, loops[k]) # 0)

\* isocurves: the pieces from one point to the other along which parameter
\* k stays; on a torus both arcs, the shorter first.
IsoArc(s, uv, d, way, quarters) ==
    [i \in 1 .. quarters + 1 |-> Image(s, [uv EXCEPT ![d] = @ + way * 3 * (i - 1)])]
Arcs(s, uv, d, gap, first) ==
    LET q == gap \div 3
        up == IF q = 0 THEN 4 ELSE q
        down == IF q = 0 THEN 4 ELSE 4 - q
        rising == IsoArc(s, uv, d, 1, up)
        falling == IsoArc(s, uv, d, -1, down)
    IN  IF up < down \/ (up = down /\ first = 1) THEN <<rising, falling>> ELSE <<falling, rising>>
FacesAlong(s, k, ua, ub, b) == Image(s, [ub EXCEPT ![k] = ua[k]]) = b
Isocurves(s, k, a, b) ==
    LET ua == UvOf(s, a)
        ub == UvOf(s, b)
    IN  IF ~ FacesAlong(s, k, ua, ub, b) THEN <<>>
        ELSE IF s.kind \in {"cylinder", "cone", "tube"} THEN (IF a = b THEN <<>> ELSE <<<<a, b>>>>)
        ELSE IF s.kind = "torus" THEN Arcs(s, ua, 3 - k, (ub[3 - k] - ua[3 - k]) % Turn, IF k = 1 THEN -1 ELSE 1)
        ELSE <<>>

\* The two loops from a vertex of each, the seam out between and back.
BandUses(first, second, index, curve, pc) ==
    LET va == Head(first).from
        vb == Head(second).from
    IN  first \o <<SeamUse(index, 0, curve, va, vb, pc)>> \o second \o <<SeamUse(index, 1, curve, vb, va, pc)>>
\* The seam is entered after the degenerate edges of the walk.
TriedSeam == 0
SeamIndexed(uses, index) ==
    [k \in DOMAIN uses |-> IF uses[k].edge = <<"rebuilt", TriedSeam>> THEN [uses[k] EXCEPT !.edge[2] = index] ELSE uses[k]]
WithSeam(w, curve, va, vb) ==
    IF ~ w.ok THEN w
    ELSE [w EXCEPT !.uses = SeamIndexed(w.uses, Len(w.rebuilt) + 1), !.rebuilt = Append(w.rebuilt, SeamEdge(curve, va, vb))]
BandTried(at, first, second, curve, rebuilt, rounding) ==
    WithSeam(Uncrossed(at, WalkOf(at, BandUses(first, second, TriedSeam, curve, PcurveOn(at.surface, curve, rounding)), rebuilt),
                       TriedSeam),
             curve, Head(first).from, Head(second).from)
SeamsBetween(at, k, first, second) ==
    FlattenSeq([a \in DOMAIN first |-> FlattenSeq([b \in DOMAIN second |->
        LET found == Isocurves(at.surface, k, at.points[first[a].from], at.points[second[b].from])
        IN  [i \in DOMAIN found |-> [a |-> a, b |-> b, curve |-> found[i]]]])])
NoBand == [ok |-> FALSE, fault |-> <<>>]
\* The first seam whose walk closes and crosses nothing.
FirstSeam(at, first, second, seams, rebuilt, rounding) ==
    FoldLeft(LAMBDA found, x : IF found.ok THEN found
                ELSE BandTried(at, Rotated(first, x.a), Rotated(second, x.b), x.curve, rebuilt, rounding),
             NoBand, seams)
BandOf(at, k, first, second, rebuilt, rounding) ==
    FirstSeam(at, first, second, SeamsBetween(at, k, first, second), rebuilt, rounding)

\* Where the other loop faces the first vertex of the one: a file edge and
\* its sample.
FacesTarget(at, k, u, i, target) == (UvAt(u, i)[k] - target) % Turn = 0
CutsIn(at, k, uses, target) ==
    FlattenSeq([j \in DOMAIN uses |->
        IF uses[j].edge[1] # "file" THEN <<>>
        ELSE SelectSeq([i \in 1 .. uses[j].n - 1 |-> <<uses[j].edge[2], i>>],
                       LAMBDA c : FacesTarget(at, k, uses[j], c[2], target))])
CutFor(at, k, first, second) == CutsIn(at, k, second, UvOf(at.surface, at.points[Head(first).from])[k])

\* apex: the singular point on the side of the loop the face is on.
ApexRows(at, k, uses) ==
    LET heading == Sign(Exit(Last(uses))[k] - Entry(Head(uses))[k])
        side == heading * SenseAlong(at, k, 1)
    IN  IF k # 1 THEN <<>>
        ELSE SelectSeq(Rows(at.surface), LAMBDA row : (row.value - Entry(Head(uses))[2]) * side > 0)

-----------------------------------------------------------------------------
(* A face of the file as loops of uses.                                    *)

JunctionsOn(r, surface, flipped) == [surface |-> surface, points |-> r.points, flipped |-> flipped]
FlippedOf(face) == ~ face.sense # face.turned
Refused(r, fault) == [r EXCEPT !.fault = fault]

\* The face being read: its loops so far beside the solid's state.
AddedLoop(x, w, id) ==
    IF ~ w.ok THEN [x EXCEPT !.r = Refused(@, w.fault \o <<id>>)]
    ELSE [x EXCEPT !.loops = Append(@, w.uses), !.r.rebuilt = w.rebuilt]
VertexBounds(face) == SelectSeq(face.bounds, LAMBDA b : b.kind = "vertex")
ApexOf(r, face) == IF VertexBounds(face) = <<>> THEN 0 ELSE PlaceOf(r.vertexIds, <<"vertex", VertexBounds(face)[1].vertex>>)
BoundWalk(at, r, face, uses, apex, rounding) ==
    IF apex = 0 THEN WalkOf(at, uses, r.rebuilt)
    ELSE IF RowsAt(at.surface, r.points[apex]) = <<>>
    THEN [ok |-> FALSE, uses |-> uses, rebuilt |-> r.rebuilt, fault |-> <<"VertexLoopOffPoint">>]
    ELSE JoinedToApex(at, RowsAt(at.surface, r.points[apex])[1], apex, uses, r.rebuilt, rounding)
ReadBound(x, at, face, bound, rounding) ==
    IF x.r.fault # <<>> \/ bound.kind = "vertex" THEN x
    ELSE AddedLoop(x, BoundWalk(at, x.r, face, UsesOfBound(x.r, face, bound, rounding), ApexOf(x.r, face), rounding),
                   face.id)
ReadBounds(r, at, face, rounding) ==
    IF VertexBounds(face) # <<>> /\ Len(face.bounds) # 2
    THEN [r |-> Refused(r, <<"VertexLoopBesideOthers", face.id>>), loops |-> <<>>]
    ELSE FoldLeft(LAMBDA x, bound : ReadBound(x, at, face, bound, rounding), [r |-> r, loops |-> <<>>], face.bounds)

LoopSet(loops, i, uses) == [li \in DOMAIN loops |-> IF li = i THEN uses ELSE loops[li]]
\* The one wrapping loop closed at its apex, a vertex of its own.
ApexVertex(r, row, id) == [r EXCEPT !.points = Append(@, row.point), !.vertexIds = Append(@, <<"face", id>>)]
ClosedAtApex(x, r, face, row, k, rounding) ==
    LET w == JoinedToApex(JunctionsOn(r, face.surface, FlippedOf(face)), row, Len(r.points), x.loops[k], r.rebuilt, rounding)
    IN  IF w.ok THEN [r |-> [r EXCEPT !.rebuilt = w.rebuilt], loops |-> LoopSet(x.loops, k, w.uses)]
        ELSE [x EXCEPT !.r = Refused(r, w.fault \o <<face.id>>)]
AtApex(x, face, rows, k, rounding) ==
    IF rows = <<>> THEN [x EXCEPT !.r = Refused(@, <<"NoApex", face.id>>)]
    ELSE ClosedAtApex(x, ApexVertex(x.r, rows[1], face.id), face, rows[1], k, rounding)

\* Both loops as one, in the place of the first.
Merged3(x, w, i, j) ==
    [r |-> [x.r EXCEPT !.rebuilt = w.rebuilt], loops |-> RemoveAt(LoopSet(x.loops, i, w.uses), j)]
\* Split.apply: a use of the edge in two, in the walk's order.
SubPcurve(u, i, j) ==
    IF u.pc.kind = "points" THEN Through(SubSeq(u.pc.at, i + 1, j + 1)) ELSE LineFrom(UvAt(u, i), UvAt(u, j))
Halves(u, split) ==
    LET before == [u EXCEPT !.pc = SubPcurve(u, 0, split.at), !.n = split.at]
        after == [u EXCEPT !.pc = SubPcurve(u, split.at, u.n), !.n = u.n - split.at, !.edge[2] = split.new]
    IN  IF u.dir = 0 THEN <<[before EXCEPT !.to = split.vertex], [after EXCEPT !.from = split.vertex]>>
        ELSE <<[after EXCEPT !.to = split.vertex], [before EXCEPT !.from = split.vertex]>>
Applied(split, uses) ==
    FlattenSeq([k \in DOMAIN uses |->
        IF uses[k].edge = <<"file", split.edge>> /\ split.at < uses[k].n THEN Halves(uses[k], split) ELSE <<uses[k]>>])
AppliedAll(split, loops) == [li \in DOMAIN loops |-> Applied(split, loops[li])]
SplitBy(r, cut) == [edge |-> cut[1], at |-> cut[2], vertex |-> Len(r.points) + 1, new |-> Len(r.edges) + 1]
CutOnce(x, split) ==
    [r |-> [CutAt(x.r, split.edge, split.at + 1) EXCEPT !.splits = Append(@, split)],
     loops |-> AppliedAll(split, x.loops)]
MayCut(r, cut) == cut[1] <= r.fileEdges /\ \A s \in ToSet(r.splits) : s.edge # cut[1]

BandAgain(x, at, face, i, j, k, rounding) ==
    LET w == BandOf(at, k, x.loops[i], x.loops[j], x.r.rebuilt, rounding)
    IN  IF w.ok THEN Merged3(x, w, i, j) ELSE [x EXCEPT !.r = Refused(@, <<"SplitLeavesNoSeam", face.id>>)]
BandAfterCut(x, face, i, j, k, rounding) ==
    BandAgain(x, JunctionsOn(x.r, face.surface, FlippedOf(face)), face, i, j, k, rounding)
CutAndBand(x, face, cuts, i, j, k, rounding) ==
    IF cuts = <<>> THEN [x EXCEPT !.r = Refused(@, <<"NoIsocurve", face.id>>)]
    ELSE IF ~ MayCut(x.r, cuts[1]) THEN [x EXCEPT !.r = Refused(@, <<"SecondSplit", face.id>>)]
    ELSE BandAfterCut(CutOnce(x, SplitBy(x.r, cuts[1])), face, i, j, k, rounding)
OneLoop(x, at, face, i, j, k, w, rounding) ==
    IF w.ok THEN Merged3(x, w, i, j)
    ELSE CutAndBand(x, face, CutFor(at, k, x.loops[i], x.loops[j]), i, j, k, rounding)
Banded(x, at, face, wrapping, rounding) ==
    CASE Len(wrapping) = 1 ->
           AtApex(x, face, ApexRows(at, Wraps(face.surface, x.loops[wrapping[1]]), x.loops[wrapping[1]]), wrapping[1], rounding)
      [] Len(wrapping) = 2 ->
           LET k == Wraps(face.surface, x.loops[wrapping[1]])
           IN  IF k # Wraps(face.surface, x.loops[wrapping[2]])
               THEN [x EXCEPT !.r = Refused(@, <<"DifferentPeriods", face.id>>)]
               ELSE OneLoop(x, at, face, wrapping[1], wrapping[2], k,
                            BandOf(at, k, x.loops[wrapping[1]], x.loops[wrapping[2]], x.r.rebuilt, rounding), rounding)
      [] OTHER -> x
WithBand(x, at, face, rounding) ==
    IF x.r.fault # <<>> \/ VertexBounds(face) # <<>> THEN x
    ELSE Banded(x, at, face, Wrapping(face.surface, x.loops), rounding)

\* Every edge rebuilt on a face is generated from that face.
EnteredFace(x, face, shell) ==
    [x.r EXCEPT !.rebuiltFaces = @ \o [k \in 1 .. Len(x.r.rebuilt) - Len(@) |-> face.id],
                !.walked = Append(@, [surface |-> face.surface, flipped |-> FlippedOf(face), loops |-> x.loops,
                                      shell |-> shell, id |-> face.id])]
ReadFaceAt(r, at, face, shell, rounding) ==
    EnteredFace(WithBand(ReadBounds(r, at, face, rounding), at, face, rounding), face, shell)
ReadFace(r, face, shell, rounding) ==
    ReadFaceAt(r, JunctionsOn(r, face.surface, FlippedOf(face)), face, shell, rounding)

-----------------------------------------------------------------------------
(* After the last face: splits, places, and the assembly.                  *)

SplitEverywhere(r) ==
    FoldLeft(LAMBDA a, split :
        Shortened([a EXCEPT !.walked = [k \in DOMAIN a.walked |->
                      [a.walked[k] EXCEPT !.loops = AppliedAll(split, @)]]],
                  split.edge, split.at + 1, split.vertex), r, r.splits)

\* place_loops: the centre of the widest loop into the domain, every other
\* loop into the period from the widest's lower bound.
Bounds2(uses, d) ==
    LET S == UNION {{2 * u.pc.a[d], 2 * u.pc.b[d], Mid2(u)[d]} : u \in ToSet(uses)} IN <<Min(S), Max(S)>>
WidestOf(boxes) ==
    CHOOSE k \in DOMAIN boxes : \A i \in DOMAIN boxes :
        LET w(n) == boxes[n][2] - boxes[n][1] IN w(k) > w(i) \/ (w(k) = w(i) /\ k <= i)
\* Boxes are doubled, and so are their centres' periods.
PlaceShift(box, lo2, p) == -(p * (((box[1] + box[2]) - 2 * lo2) \div (4 * p)))
PlacedAlong(loops, d, p, boxes, widest) ==
    LET low == widest[1] - 2 * (p * ((widest[1] + widest[2]) \div (4 * p)))
    IN  [li \in DOMAIN loops |->
          LET shift == PlaceShift(boxes[li], low, p)
          IN  [k \in DOMAIN loops[li] |-> Shifted(loops[li][k], IF d = 1 THEN <<shift, 0>> ELSE <<0, shift>>)]]
PlacedIn(loops, d, p, boxes) ==
    IF p = 0 \/ loops = <<>> THEN loops ELSE PlacedAlong(loops, d, p, boxes, boxes[WidestOf(boxes)])
PlacedOnce(surface, loops, d) ==
    PlacedIn(loops, d, Periods(surface)[d], [li \in DOMAIN loops |-> Bounds2(loops[li], d)])
LeftInPlace(surface, loops) == loops                                      \* mutant
PlaceLoops(surface, loops) == PlacedOnce(surface, PlacedOnce(surface, loops, 1), 2)

SlotOfEdge(r, edge) == IF edge[1] = "file" THEN edge[2] ELSE Len(r.edges) + edge[2]
\* What the assembly is handed, each entity with the one of the file it is
\* generated from: a vertex or an edge cut off an edge from that edge, a
\* rebuilt one from its face.
FaceRead(r, w, loops) ==
    FaceSpec(<<"face", w.id>>,
        [surf |-> w.surface, dir |-> IF w.flipped THEN 1 ELSE 0,
         loops |-> [li \in DOMAIN loops |-> [k \in DOMAIN loops[li] |->
            UseOf(SlotOfEdge(r, loops[li][k].edge), loops[li][k].dir, loops[li][k].pc)]]])
EdgesRead(r) ==
    [k \in DOMAIN r.edges |->
        EdgeSpec(k, r.edges[k].start, r.edges[k].end, FALSE, r.edges[k].curve, <<"edge", r.edgeIds[k]>>)]
    \o [k \in DOMAIN r.rebuilt |->
        EdgeSpec(Len(r.edges) + k, r.rebuilt[k].start, r.rebuilt[k].end, r.rebuilt[k].deg, r.rebuilt[k].curve,
                 <<"face", r.rebuiltFaces[k]>>)]
Built(r) ==
    Swept([k \in DOMAIN r.points |-> Spec3(k, r.points[k], r.vertexIds[k])], EdgesRead(r),
          [n \in 1 .. Max({w.shell : w \in ToSet(r.walked)}) |->
             LET faces == SelectSeq(r.walked, LAMBDA w : w.shell = n)
             IN  [k \in DOMAIN faces |-> FaceRead(r, faces[k], PlaceLoops(faces[k].surface, faces[k].loops))]],
          <<>>)
BuiltFrom(r) == Built(SplitEverywhere(r))
=============================================================================
