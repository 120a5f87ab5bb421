----------------------------- MODULE Tessellate -----------------------------
(***************************************************************************)
(* `tessellate_with` (arris-mesh, tessellate.rs): the edges of a body are  *)
(* sampled once, the loops of its faces are walked through the pcurves at  *)
(* those samples, every face is triangulated in its own (u, v) by a worker *)
(* of its own, and the triangles are collected in face order into a mesh   *)
(* over shared positions (trimesh.rs), with a block of face-local vertices *)
(* beside it (corners.rs).                                                 *)
(*                                                                         *)
(* A body is [vertices, edges, faces]: a number of vertices; edges         *)
(* [start, end, degenerate, own] with the samples the curve itself asks    *)
(* for; faces [reversed, steps, loops], a loop a sequence of coedges       *)
(* [edge, forward, pcurve].  Parameter planes are integer lattices already *)
(* scaled for the triangulation; a step of 0 is an infinite one.           *)
(***************************************************************************)
EXTENDS CdtMesh

CONSTANTS
    Bodies,               \* the bodies meshed
    PcurveAt(_, _, _),    \* the point of a pcurve at sample i of n
    Travel(_, _),         \* how far a pcurve goes along a direction
    MaxInterior           \* MAX_INTERIOR_POINTS

VARIABLES
    body,                 \* the body meshed
    phase,                \* sample | gather | work | done | failed
    mesh,                 \* the mesh so far
    samples,              \* the samples of every edge
    works,                \* what the faces gathered so far hand their workers
    results,              \* what each worker returned
    met,                  \* the first face that failed, by the clock
    error                 \* the face the error names, 0 for none
vars == <<body, phase, mesh, samples, works, results, met, error>>

Ceil(a, b) == (a + b - 1) \div b
EdgesOfBody == DOMAIN body.edges
FacesOfBody == DOMAIN body.faces
Coedges(f) == FlattenSeq(body.faces[f].loops)

-----------------------------------------------------------------------------
(* Passes one and two.                                                     *)

\* What the faces ask of an edge, so no step travels farther than they allow.
Asked(f, c) ==
    {IF body.faces[f].steps[d] = 0 THEN 0 ELSE Ceil(Travel(c.pcurve, d), body.faces[f].steps[d])
       : d \in {1, 2}}
Required(e) ==
    Max({0} \cup UNION {UNION {Asked(f, c) : c \in {c \in ToSet(Coedges(f)) : c.edge = e}}
                          : f \in FacesOfBody})
SegmentCount(e) ==
    Greater(1, Greater(IF body.edges[e].degenerate THEN 1 ELSE body.edges[e].own, Required(e)))

\* Every vertex a position, then every edge a run of them between its ends.
InnerSamples(e) == IF body.edges[e].degenerate THEN 0 ELSE SegmentCount(e) - 1
FirstSample(e) == body.vertices + MapThenSumSet(InnerSamples, {d \in EdgesOfBody : d < e})
IndicesOf(e) ==
    [i \in 0 .. SegmentCount(e) |->
        IF i = 0 \/ body.edges[e].degenerate THEN body.edges[e].start
        ELSE IF i = SegmentCount(e) THEN body.edges[e].end
        ELSE FirstSample(e) + i]
Polyline(e) ==
    IF body.edges[e].degenerate THEN <<body.edges[e].start>>
    ELSE [i \in 1 .. SegmentCount(e) + 1 |-> IndicesOf(e)[i - 1]]

EmptyMesh == [positions |-> 0, triangles |-> <<>>, faces |-> <<>>, edges |-> <<>>,
              corners |-> [positions |-> <<>>, triangles |-> <<>>, ranges |-> <<>>]]

Init ==
    /\ body \in Bodies
    /\ phase = "sample" /\ mesh = EmptyMesh /\ samples = <<>> /\ works = <<>>
    /\ results = <<>> /\ met = 0 /\ error = 0

Sample ==
    /\ phase = "sample"
    /\ samples' = [e \in EdgesOfBody |-> [n |-> SegmentCount(e), indices |-> IndicesOf(e)]]
    /\ mesh' = [mesh EXCEPT
                  !.positions = body.vertices + MapThenSumSet(InnerSamples, EdgesOfBody),
                  !.edges = [e \in EdgesOfBody |-> Polyline(e)]]
    /\ phase' = "gather"
    /\ UNCHANGED <<body, works, results, met, error>>

-----------------------------------------------------------------------------
(* Pass three: a face's rings, its interior points, its part of the block. *)

\* All but the last sample of a coedge in walking order.
Walk(c) ==
    LET n == samples[c.edge].n
    IN  [k \in 1 .. n |-> IF c.forward THEN k - 1 ELSE n + 1 - k]
Walked(loop) ==
    FlattenSeq([k \in DOMAIN loop |->
        [i \in DOMAIN Walk(loop[k]) |->
            [uv    |-> PcurveAt(loop[k].pcurve, Walk(loop[k])[i], samples[loop[k].edge].n),
             index |-> samples[loop[k].edge].indices[Walk(loop[k])[i]]]]])
\* A point at the (u, v) of the one before it is merged, and so is the last.
Merged(walked) ==
    LET ring == FoldLeft(LAMBDA r, x : IF r # <<>> /\ Last(r).uv = x.uv THEN r ELSE Append(r, x),
                         <<>>, walked)
    IN  IF Len(ring) > 1 /\ Head(ring).uv = Last(ring).uv THEN Front(ring) ELSE ring
Points(ring) == [i \in DOMAIN ring |-> ring[i].uv]

\* interior_grid: a lattice at most the steps apart, strictly inside the box,
\* of the points the loops wind around and do not pass through.
Grid(f, polygons) ==
    LET steps == body.faces[f].steps
        uvs == UNION {ToSet(r) : r \in ToSet(polygons)}
        lo(d) == Min({p[d] : p \in uvs})
        length(d) == Max({p[d] : p \in uvs}) - lo(d)
        count(d) == IF steps[d] = 0 THEN 1 ELSE Greater(1, Ceil(length(d), steps[d]))
        at(d, i) == lo(d) + (length(d) * i) \div count(d)
    IN  [count |-> count(1) * count(2),
         points |-> SelectSeq(
            FlattenSeq([i \in 1 .. count(1) - 1 |->
                [j \in 1 .. count(2) - 1 |-> <<at(1, i), at(2, j)>>]]),
            LAMBDA p : PointSide(polygons, p) = "inside")]

WorkOf(f, rings, polygons, grid) ==
    [input |-> [polygons |-> polygons, interior |-> grid.points],
     shared |-> FlattenSeq([l \in DOMAIN rings |-> [i \in DOMAIN rings[l] |-> rings[l][i].index]])
                \o [i \in DOMAIN grid.points |-> mesh.positions + i],
     base |-> Len(mesh.corners.positions)]
Take(w) ==
    /\ works' = Append(works, w)
    /\ mesh' = [mesh EXCEPT !.positions = @ + Len(w.input.interior),
                            !.corners.positions = @ \o w.shared,
                            !.corners.ranges = Append(@, <<w.base + 1, w.base + Len(w.shared)>>)]
Gather ==
    /\ phase = "gather" /\ Len(works) < Len(body.faces)
    /\ LET f == Len(works) + 1
       IN  \E rings \in {[l \in DOMAIN body.faces[f].loops |-> Merged(Walked(body.faces[f].loops[l]))]} :
           \E polygons \in {[l \in DOMAIN rings |-> Points(rings[l])]} :
           \E grid \in {Grid(f, polygons)} :
             IF grid.count > MaxInterior
             THEN phase' = "failed" /\ error' = f /\ UNCHANGED <<works, mesh>>
             ELSE Take(WorkOf(f, rings, polygons, grid)) /\ UNCHANGED <<phase, error>>
    /\ UNCHANGED <<body, samples, results, met>>
Dispatch ==
    /\ phase = "gather" /\ Len(works) = Len(body.faces)
    /\ phase' = "work"
    /\ results' = [f \in FacesOfBody |-> [done |-> FALSE]]
    /\ UNCHANGED <<body, mesh, samples, works, met, error>>

-----------------------------------------------------------------------------
(* Pass four: triangulate_face on any worker, in any order.                *)

Uncollapsed(t) == t[1] # t[2] /\ t[2] # t[3] /\ t[3] # t[1]

Local(w, i) == w.base + i
NeverTurned(t, reversed) == t                                            \* mutant
Wind(t, reversed) == IF reversed THEN <<t[1], t[3], t[2]>> ELSE t

\* Both index spaces of the triangles that do not collapse onto an index.
\* VertexRef: the point of a ring, then of the next, then the interior.
Shared(w, t) == <<w.shared[t[1]], w.shared[t[2]], w.shared[t[3]]>>
InBothIndices(w, reversed, failed, kept) ==
    [done |-> TRUE, failed |-> failed,
     shared |-> [i \in DOMAIN kept |-> Wind(Shared(w, kept[i]), reversed)],
     local |-> [i \in DOMAIN kept |->
                  Wind(<<Local(w, kept[i][1]), Local(w, kept[i][2]), Local(w, kept[i][3])>>, reversed)]]
OfAnswer(w, reversed, answer) ==
    InBothIndices(w, reversed, answer.fail # NoFail,
             SelectSeq(answer.triangles, LAMBDA t : Uncollapsed(Shared(w, t))))
FaceTriangles(w, reversed) == OfAnswer(w, reversed, Triangulate(w.input))

Work(f) ==
    /\ phase = "work" /\ f \in FacesOfBody /\ ~ results[f].done
    /\ results' = [results EXCEPT ![f] = FaceTriangles(works[f], body.faces[f].reversed)]
    /\ met' = IF met = 0 /\ results'[f].failed THEN f ELSE met
    /\ UNCHANGED <<body, phase, mesh, samples, works, error>>

\* Every result first, then the first error in face order.
FirstMet(failing) == met                                                 \* mutant
FirstInOrder(failing) == Min(failing)
Collect ==
    /\ phase = "work" /\ \A f \in FacesOfBody : results[f].done
    /\ LET failing == {f \in FacesOfBody : results[f].failed}
           all == [f \in FacesOfBody |-> results[f]]
       IN  IF failing # {}
           THEN phase' = "failed" /\ error' = FirstInOrder(failing) /\ UNCHANGED mesh
           ELSE /\ phase' = "done" /\ UNCHANGED error
                /\ mesh' = [mesh EXCEPT
                     !.triangles = FlattenSeq([f \in FacesOfBody |-> results[f].shared]),
                     !.faces = [f \in FacesOfBody |-> Len(results[f].shared)],
                     !.corners.triangles = FlattenSeq([f \in FacesOfBody |-> results[f].local])]
    /\ UNCHANGED <<body, samples, works, results, met>>

AnyWork == \E f \in FacesOfBody : Work(f)
\* The call has returned.
Ended == phase \in {"done", "failed"} /\ UNCHANGED vars
Next == Sample \/ Gather \/ Dispatch \/ AnyWork \/ Collect \/ Ended
Spec == Init /\ [][Next]_vars

-----------------------------------------------------------------------------
(* Properties.                                                             *)

TypeOK ==
    /\ phase \in {"sample", "gather", "work", "done", "failed"}
    /\ error \in FacesOfBody \cup {0} /\ (error # 0 <=> phase = "failed")
    /\ \A f \in DOMAIN works :
         /\ ToSet(works[f].shared) \subseteq 1 .. mesh.positions
         /\ Len(works[f].shared) = Len(AllPoints(works[f].input))

DirectedEdges(t) == {<<t[1], t[2]>>, <<t[2], t[3]>>, <<t[3], t[1]>>}
Triangles == ToSet(mesh.triangles)

\* The mesh of a body is closed (TriMesh::is_closed, "the mesh of a solid is
\* closed by construction"): no triangle has an index twice, every directed
\* edge is there once, and so is its opposite - at seams, at poles, on
\* reversed faces and round holes.
Watertight ==
    phase = "done" =>
        LET sides == UNION {DirectedEdges(t) : t \in Triangles}
        IN  /\ mesh.triangles # <<>>
            /\ Cardinality(sides) = 3 * Len(mesh.triangles)
            /\ \A s \in sides : s[1] # s[2] /\ <<s[2], s[1]>> \in sides

\* The mesh is a surface of the body's own Euler characteristic, the one its
\* vertices, edges, faces and loops have: no handle is filled, no hole made.
KeepsTheGenus ==
    phase = "done" =>
        LET sides == UNION {{{s[1], s[2]} : s \in DirectedEdges(t)} : t \in Triangles}
            loops == MapThenSumSet(LAMBDA f : Len(body.faces[f].loops), FacesOfBody)
            real == {e \in EdgesOfBody : ~ body.edges[e].degenerate}
        IN  Cardinality(UNION sides) - Cardinality(sides) + Len(mesh.triangles)
              = body.vertices - Cardinality(real) + 2 * Len(body.faces) - loops

\* Every position of the mesh is used: no sample of an edge and no interior
\* point is left out of the surface ("every topo vertex of the body is one
\* mesh vertex", and every sample a position).
EveryPositionIsUsed ==
    phase = "done" => UNION {{t[1], t[2], t[3]} : t \in Triangles} = 1 .. mesh.positions

\* Between two samples no loop of any face travels farther than that face's
\* chord steps, whichever of an edge's faces asked for more samples.
StepsStayShort ==
    \A f \in DOMAIN works : \A r \in ToSet(works[f].input.polygons) : \A s \in ToSet(Segments(r)) :
        \A d \in {1, 2} :
            body.faces[f].steps[d] # 0 =>
                Greater(s[2][d] - s[1][d], s[1][d] - s[2][d]) <= body.faces[f].steps[d]

\* The corner block describes these triangles of these faces: parallel to
\* the mesh's, each local vertex of its own face's range and standing on the
\* position the mesh's triangle names (TriMesh::with_corners).
FaceOfTriangle(i) ==
    Min({f \in FacesOfBody : MapThenSumSet(LAMBDA g : mesh.faces[g], 1 .. f) >= i})
CornersFollowTheMesh ==
    phase = "done" =>
        LET block == mesh.corners
        IN  /\ Len(block.triangles) = Len(mesh.triangles)
            /\ \A i \in DOMAIN block.triangles : \A k \in 1 .. 3 :
                 LET range == block.ranges[FaceOfTriangle(i)]
                 IN  /\ block.triangles[i][k] \in range[1] .. range[2]
                     /\ block.positions[block.triangles[i][k]] = mesh.triangles[i][k]

\* The mesh is the boundary of the body, no loop of a face travels farther at
\* a step than the face's chord steps, and its corner block describes it.
MeshIsTheSurface ==
    TypeOK /\ Watertight /\ KeepsTheGenus /\ EveryPositionIsUsed /\ CornersFollowTheMesh /\ StepsStayShort

\* Whichever worker fails first by the clock, the error names the first face
\* in face order whose loops cannot be triangulated (triangulate_faces).
IsFirst(f, failing) == f \in failing /\ \A g \in failing : f <= g
ErrorIsTheFirstFaces ==
    phase = "failed" =>
        IF Len(works) < Len(body.faces) THEN error = Len(works) + 1
        ELSE IsFirst(error, {f \in DOMAIN works : Triangulate(works[f].input).fail # NoFail})
=============================================================================
