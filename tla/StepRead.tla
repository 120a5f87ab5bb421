----------------------------- MODULE StepRead ------------------------------
(***************************************************************************)
(* The topology half of the STEP reader (arris-io, step/reader/            *)
(* topology.rs): a solid of a file (see StepWrite) as the assembly of a    *)
(* body.  A file holds no pcurve the reader takes, no degenerate edge and  *)
(* may hold no seam; the reader projects every edge onto its faces, joins  *)
(* each bound into one walk of (u, v), and rebuilds what was left out.     *)
(*                                                                         *)
(* The geometry is exact here, so gaps and their tolerances, fits, `meet`  *)
(* and NURBS are left out.  A curve is its points at quarters; a use is    *)
(*   [edge, dir, pc, n, from, to]                                          *)
(* of <<"file", i>> or <<"rebuilt", i>>, n steps of its curve long.        *)
(***************************************************************************)
EXTENDS StepWrite, Pcurves

-----------------------------------------------------------------------------
(* file_solid and the head of `build`: the entities in the order of their  *)
(* first use, and the edges with their ranges.                             *)

\* closed_shell and face: each flag that is false turns the face once.
TurnedFace(shell, face) == [face EXCEPT !.turned = @ # shell.turned]
FacesOf(file) == FlattenSeq([n \in DOMAIN file.shells |->
    [k \in DOMAIN file.shells[n].faces |-> <<n, TurnedFace(file.shells[n], file.shells[n].faces[k])>>]])
BoundsIn(file) == FlattenSeq([k \in DOMAIN FacesOf(file) |-> FacesOf(file)[k][2].bounds])
EdgeIdsOf(file) ==
    Once(FlattenSeq([k \in DOMAIN BoundsIn(file) |->
        IF BoundsIn(file)[k].kind = "vertex" THEN <<>>
        ELSE [i \in DOMAIN BoundsIn(file)[k].uses |-> BoundsIn(file)[k].uses[i].edge]]))
VertexIdsOf(file) ==
    Once(FlattenSeq([k \in DOMAIN BoundsIn(file) |->
        IF BoundsIn(file)[k].kind = "vertex" THEN <<BoundsIn(file)[k].vertex>>
        ELSE FlattenSeq([i \in DOMAIN BoundsIn(file)[k].uses |->
                <<file.edges[BoundsIn(file)[k].uses[i].edge].start, file.edges[BoundsIn(file)[k].uses[i].edge].end>>])]))
PlaceOf(list, x) == CHOOSE k \in DOMAIN list : list[k] = x

\* edge_range: from one vertex to the other along the curve, past its
\* period where the end is not past the start, all of it for a closed edge.
PlaceOn(curve, p) == PlaceOf(curve.at, p)
Range3(curve, start, end) ==
    LET n == Len(curve.at)
        lo == PlaceOn(curve, start)
        hi == PlaceOn(curve, end)
    IN  IF ~ curve.closes THEN SubSeq(curve.at, lo, hi)
        ELSE [k \in 1 .. (IF hi > lo THEN hi - lo ELSE hi - lo + n) + 1 |-> curve.at[((lo + k - 2) % n) + 1]]
\* The Arris edge runs along its curve: against the file's where the file's
\* does not.
AlongOf(e) == e.sense
ResolvedEdge(file, vertexIds, e, along) ==
    LET start == IF along THEN e.start ELSE e.end
        end == IF along THEN e.end ELSE e.start
    IN  [curve |-> Range3(e.curve, file.points[start], file.points[end]), along |-> along,
         start |-> PlaceOf(vertexIds, start), end |-> PlaceOf(vertexIds, end)]
Resolved(file, edgeIds, vertexIds) ==
    [points |-> [k \in DOMAIN vertexIds |-> file.points[vertexIds[k]]],
     vertexIds |-> [k \in DOMAIN vertexIds |-> <<"vertex", vertexIds[k]>>],
     edges |-> [k \in DOMAIN edgeIds |->
        ResolvedEdge(file, vertexIds, file.edges[edgeIds[k]], AlongOf(file.edges[edgeIds[k]]))],
     edgeIds |-> edgeIds, pieces |-> [k \in DOMAIN edgeIds |-> <<k>>], fileEdges |-> Len(edgeIds),
     splits |-> <<>>, rebuilt |-> <<>>, rebuiltFaces |-> <<>>, walked |-> <<>>, fault |-> <<>>]

\* `through`: where a curve passes a point strictly inside.
PassesAt(curve, p) ==
    IF p \in {Head(curve), Last(curve)} THEN 0 ELSE FirstOf({i \in 2 .. Len(curve) - 1 : curve[i] = p})
\* An edge is cut in two at sample i: the part after it is a new edge.
CutAt(r, e, i) ==
    [r EXCEPT !.points = Append(@, r.edges[e].curve[i]),
              !.vertexIds = Append(@, <<"edge", r.edgeIds[e]>>), !.edgeIds = Append(@, r.edgeIds[e]),
              !.edges = Append(@, [r.edges[e] EXCEPT !.curve = SubSeq(@, i, Len(@)), !.start = Len(r.points) + 1])]
Shortened(r, e, i, vertex) ==
    [r EXCEPT !.edges[e].curve = SubSeq(@, 1, i), !.edges[e].end = vertex]
SplitPiece(r, k, at, e, i) ==
    [Shortened(CutAt(r, e, i), e, i, Len(r.points) + 1)
       EXCEPT !.pieces[k] = InsertAt(@, at + 1, Len(r.edges) + 1)]
SplitAtPoint(r, k, p) ==
    LET hit == FirstOf({at \in DOMAIN r.pieces[k] : PassesAt(r.edges[r.pieces[k][at]].curve, p) # 0})
    IN  IF hit = 0 THEN r
        ELSE SplitPiece(r, k, hit, r.pieces[k][hit], PassesAt(r.edges[r.pieces[k][hit]].curve, p))
StepsOfBound(r, bound) ==
    IF bound.kind = "vertex" THEN <<>>
    ELSE [i \in DOMAIN bound.uses |-> [edge |-> PlaceOf(r.edgeIds, bound.uses[i].edge), forward |-> bound.uses[i].forward]]
\* Every edge that runs through a singular point of a face it bounds.
SplitOnFace(r, face) ==
    FoldLeft(LAMBDA a, row : FoldLeft(LAMBDA b, bound :
        FoldLeft(LAMBDA c, step : SplitAtPoint(c, step.edge, row.point), b, StepsOfBound(b, bound)),
        a, face.bounds), r, Rows(face.surface))
SplitAtPoles(r, file) == FoldLeft(LAMBDA a, f : SplitOnFace(a, f[2]), r, FacesOf(file))
Entities(file) == SplitAtPoles(Resolved(file, EdgeIdsOf(file), VertexIdsOf(file)), file)

-----------------------------------------------------------------------------
(* Walks: the uses of a bound as one line through (u, v).                  *)

TurnedWalk(steps) ==
    [k \in DOMAIN steps |-> [steps[Len(steps) + 1 - k] EXCEPT !.forward = ~ @]]
TurnedIf(turns, steps) == IF turns THEN TurnedWalk(steps) ELSE steps
WalkOfBound(r, face, bound) ==
    TurnedIf(face.turned, TurnedIf(~ bound.flag, StepsOfBound(r, bound)))
\* Each edge's pieces, in the walk's direction.
PiecesInOrder(r, step) ==
    LET run == IF step.forward = r.edges[step.edge].along THEN r.pieces[step.edge] ELSE Reverse(r.pieces[step.edge])
    IN  [k \in DOMAIN run |-> [edge |-> run[k], forward |-> step.forward]]
FileUse(r, s, step, e, rounding) ==
    LET dir == IF step.forward = e.along THEN 0 ELSE 1
    IN  [edge |-> <<"file", step.edge>>, dir |-> dir, pc |-> PcurveOn(s, e.curve, rounding),
         n |-> Len(e.curve) - 1, from |-> IF dir = 0 THEN e.start ELSE e.end,
         to |-> IF dir = 0 THEN e.end ELSE e.start]
UsesOfBound(r, face, bound, rounding) ==
    LET walk == WalkOfBound(r, face, bound)
        steps == FlattenSeq([k \in DOMAIN walk |-> PiecesInOrder(r, walk[k])])
    IN  [k \in DOMAIN steps |-> FileUse(r, face.surface, steps[k], r.edges[steps[k].edge], rounding)]

Mid2(u) == Plus(u.pc.a, u.pc.b)
Heading(u) == IF u.dir = 0 THEN Minus(u.pc.b, u.pc.a) ELSE Minus(u.pc.a, u.pc.b)
Shifted(u, by) == [u EXCEPT !.pc = Moved(@, by)]
Sign(x) == IF x > 0 THEN 1 ELSE IF x < 0 THEN -1 ELSE 0

\* `sense`: the way along a row that keeps a face on that side of it on the
\* walk's left, about the effective normal.
SenseAlong(at, free, side) ==
    (IF free = 1 THEN side ELSE -side) * (IF at.flipped THEN -1 ELSE 1)
TurnsIn(at, prev, next) ==
    LET turn == Cross(Heading(prev), Heading(next)) IN IF at.flipped THEN turn < 0 ELSE turn > 0
\* A singular point's degenerate use, along its row.
AlongRow(vertex, from, along) ==
    [edge |-> <<"rebuilt", 0>>, dir |-> 0, pc |-> LineFrom(from, Plus(from, along)),
     n |-> 1, from |-> vertex, to |-> vertex]
DegenerateAt(points, vertex) == [curve |-> <<points[vertex], points[vertex]>>, start |-> vertex, end |-> vertex, deg |-> TRUE]

NoJunction(fault) == [ok |-> FALSE, by |-> <<0, 0>>, row |-> <<>>, fault |-> fault]
Junction(by, row) == [ok |-> TRUE, by |-> by, row |-> row, fault |-> <<>>]
\* Off the singular points a use starts where the one before it ends.
PlainJunction(at, vertex, d, movable) ==
    LET by == <<WholePeriods(-d[1], Periods(at.surface)[1]), WholePeriods(-d[2], Periods(at.surface)[2])>>
    IN  IF Plus(d, by) # <<0, 0>> THEN NoJunction(<<"OpenLoop", vertex>>)
        ELSE Junction(IF movable THEN by ELSE <<0, 0>>, <<>>)
\* How far the walk runs along the row: not at all where it turns there
\* towards the face, a whole turn where it turns back on itself.
RunAlong(at, prev, next, sense, d) ==
    LET run == (sense * d) % Turn
    IN  IF run # 0 THEN run ELSE IF TurnsIn(at, prev, next) THEN 0 ELSE Turn
RowJunction(at, vertex, end, d, sense, run, movable) ==
    LET by == <<sense * run - d[1], 0>>
    IN  IF ~ movable /\ by # <<0, 0>> THEN NoJunction(<<"OpenLoop", vertex>>)
        ELSE IF run = 0 THEN Junction(by, <<>>)
        ELSE IF sense * (d[1] + by[1]) <= 0 THEN NoJunction(<<"OpenLoop", vertex>>)
        ELSE Junction(by, <<AlongRow(vertex, end, Plus(d, by))>>)
SideOfRow(row, prev, next) ==
    LET first == Mid2(prev)[2] - 2 * row.value IN IF first # 0 THEN Sign(first) ELSE Sign(Mid2(next)[2] - 2 * row.value)
SingularJunction(at, prev, next, row, d, movable) ==
    LET side == SideOfRow(row, prev, next)
        sense == SenseAlong(at, 1, side)
    IN  IF side = 0 THEN NoJunction(<<"OpenLoop", prev.to>>)
        ELSE RowJunction(at, prev.to, Exit(prev), d, sense, RunAlong(at, prev, next, sense, d[1]), movable)
JunctionOf(at, prev, next, movable) ==
    LET rows == RowsAt(at.surface, at.points[prev.to])
        d == Minus(Entry(next), Exit(prev))
    IN  IF rows = <<>> THEN PlainJunction(at, prev.to, d, movable)
        ELSE SingularJunction(at, prev, next, rows[1], d, movable)

\* `walk`: from a use that does not start at a singular point.
Rotated(uses, k) == SubSeq(uses, k, Len(uses)) \o SubSeq(uses, 1, k - 1)
StartOff(at, uses) ==
    LET plain == FirstOf({k \in DOMAIN uses : RowsAt(at.surface, at.points[uses[k].from]) = <<>>})
    IN  IF plain = 0 THEN uses ELSE Rotated(uses, plain)
\* The degenerate uses of a walk are entered among the rebuilt edges.
Entered(at, w, row) ==
    IF row = <<>> THEN w
    ELSE [w EXCEPT !.rebuilt = Append(@, DegenerateAt(at.points, row[1].from)),
                   !.uses = Append(@, [row[1] EXCEPT !.edge = <<"rebuilt", Len(w.rebuilt) + 1>>])]
Joined(at, w, j, next) ==
    IF ~ w.ok THEN w
    ELSE IF ~ j.ok THEN [w EXCEPT !.ok = FALSE, !.fault = j.fault]
    ELSE IF next = <<>> THEN Entered(at, w, j.row)
    ELSE LET v == Entered(at, w, j.row)
         IN  [v EXCEPT !.uses = Append(@, Shifted(next[1], j.by)), !.last = Shifted(next[1], j.by)]
WalkedFrom(at, uses, rebuilt) ==
    FoldLeft(LAMBDA w, next : Joined(at, w, JunctionOf(at, w.last, next, TRUE), <<next>>),
             [ok |-> TRUE, uses |-> <<Head(uses)>>, last |-> Head(uses), rebuilt |-> rebuilt, fault |-> <<>>],
             Tail(uses))
Closed(at, w) == Joined(at, w, JunctionOf(at, w.last, Head(w.uses), FALSE), <<>>)
WalkOf(at, uses, rebuilt) == Closed(at, WalkedFrom(at, StartOff(at, uses), rebuilt))
=============================================================================
