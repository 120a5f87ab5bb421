-------------------------------- MODULE Cdt --------------------------------
(***************************************************************************)
(* `triangulate` (arris-mesh, cdt.rs) as the sequential machine it is: the *)
(* points of the polygons are walked to and inserted in hierarchical       *)
(* order, then every polygon segment is made an edge, then the interior    *)
(* points are inserted, each followed by Lawson's flips one edge at a      *)
(* time; then the triangles of the region are told from the rest.          *)
(*                                                                         *)
(* An input is [polygons |-> a sequence of rings, interior |-> points].    *)
(***************************************************************************)
EXTENDS CdtMesh

CONSTANT Inputs            \* the inputs triangulated

VARIABLES
    input,                 \* the input of this run
    m,                     \* the mesh
    todo,                  \* what is still to insert
    walk,                  \* the walk under way: [t, steps], or [t |-> 0]
    phase,                 \* check | ready | walk | legalize | done | failed
    out,                   \* the triangles of the region, once done
    tick                   \* alternates with every step taken
vars == <<input, m, todo, walk, phase, out, tick>>

Tick == tick' = 1 - tick
NoWalk == [t |-> 0, steps |-> 0]
Idle == NewMesh(<<<<0, 0>>>>)

Init ==
    /\ input \in Inputs
    /\ m = Idle /\ todo = <<>> /\ walk = NoWalk /\ phase = "check" /\ out = <<>> /\ tick = 0

Refuse ==
    /\ phase = "check" /\ TooFew(input) # {}
    /\ phase' = "failed"
    /\ m' = [m EXCEPT !.fail = [kind |-> "polygon", polygon |-> Min(TooFew(input))]]
    /\ UNCHANGED <<input, todo, walk, out>> /\ Tick
Prepare ==
    /\ phase = "check" /\ TooFew(input) = {}
    /\ m' = NewMesh(AllPoints(input))
    /\ todo' = Jobs(input)
    /\ phase' = "ready"
    /\ UNCHANGED <<input, walk, out>> /\ Tick

\* What a step that changed the mesh goes on with.
After(mesh) ==
    IF Failed(mesh) THEN "failed" ELSE IF mesh.stack # <<>> THEN "legalize" ELSE "ready"

StartPoint ==
    /\ phase = "ready" /\ todo # <<>> /\ Head(todo).job = "point"
    /\ walk' = [t |-> WalkStart(m, IF Head(todo).near = 0 THEN m.last ELSE m.vt[Head(todo).near]),
                steps |-> 0]
    /\ phase' = "walk"
    /\ UNCHANGED <<input, m, todo, out>> /\ Tick

Target == At(m, Head(todo).p)
Insert(loc) ==
    /\ m' = InsertLocated(m, Head(todo).p, loc)
    /\ phase' = After(m') /\ todo' = Tail(todo) /\ walk' = NoWalk
\* Over the first edge the point is behind; at the bound, scan.
Uncounted(steps) == steps                                    \* mutant
Counted(steps) == steps + 1
Next1(t) == m.tri[t].n[Min(Behind(m, t, Target))]
WalkOn ==
    /\ phase = "walk" /\ walk.steps < WalkBound(m) /\ Behind(m, walk.t, Target) # {}
    /\ Next1(walk.t) # 0
    /\ walk' = [t |-> Next1(walk.t), steps |-> Counted(walk.steps)]
    /\ UNCHANGED <<input, m, todo, phase, out>> /\ Tick
Arrive ==
    /\ phase = "walk" /\ walk.steps < WalkBound(m) /\ Behind(m, walk.t, Target) = {}
    /\ Insert(Located(m, walk.t, Target))
    /\ UNCHANGED <<input, out>> /\ Tick
ScanAll ==
    /\ phase = "walk" /\ walk.steps = WalkBound(m)
    /\ Insert(Scan(m, Target))
    /\ UNCHANGED <<input, out>> /\ Tick

Legalize ==
    /\ phase = "legalize"
    /\ m' = LegalizeOnce(m) /\ phase' = After(m')
    /\ UNCHANGED <<input, todo, walk, out>> /\ Tick

StartSegment ==
    /\ phase = "ready" /\ todo # <<>> /\ Head(todo).job = "segment"
    /\ m' = InsertConstraint(m, Head(todo).a, Head(todo).b, Head(todo).segment)
    /\ phase' = After(m')
    \* named: a failure keeps the segment being inserted.
    /\ todo' = IF phase' = "failed" THEN todo ELSE Tail(todo)
    /\ UNCHANGED <<input, walk, out>> /\ Tick

Finish ==
    /\ phase = "ready" /\ todo = <<>>
    /\ IF 0 \in DOMAIN Windings(m)
       THEN m' = Internal(m, "the constraints do not close") /\ phase' = "failed" /\ UNCHANGED out
       ELSE out' = RegionTriangles(m) /\ phase' = "done" /\ UNCHANGED m
    /\ UNCHANGED <<input, todo, walk>> /\ Tick

\* The call has returned.
Ended == phase \in {"done", "failed"}
Return == Ended /\ UNCHANGED vars

Next ==
    \/ Refuse \/ Prepare \/ StartPoint \/ WalkOn \/ Arrive \/ ScanAll \/ Legalize
    \/ StartSegment \/ Finish \/ Return

\* One thread runs the function to its end: until it has returned, a step is
\* taken.  Every step flips tick and no state before the end is without one
\* (TLC checks that there is no deadlock), so this is weak fairness of Next.
Running == ~ Ended /\ Tick
Spec == Init /\ [][Next]_vars /\ WF_tick(Running)

-----------------------------------------------------------------------------
(* Properties.                                                             *)

Inserted == {v \in 1 .. Len(m.pts) : v > Real(m) \/ \E t \in Alive(m) : v \in Corners(m, t)}
TwiceAreaOf(t) ==
    Cross(Minus(At(m, m.tri[t].v[2]), At(m, m.tri[t].v[1])),
          Minus(At(m, m.tri[t].v[3]), At(m, m.tri[t].v[1])))

\* Every slot is alive or free exactly once, and the walk stands on a slot.
TypeOK ==
    /\ phase \in {"check", "ready", "walk", "legalize", "done", "failed"}
    /\ \A t \in DOMAIN m.tri : Cardinality(Corners(m, t)) = 3
    /\ ToSet(m.free) = DOMAIN m.tri \ Alive(m) /\ IsInjective(m.free)
    /\ walk.t \in Alive(m) \cup {0} /\ walk.steps \in 0 .. WalkBound(m)

\* Neighbours point at each other across the edge they share, and the
\* triangle recorded for a vertex is alive and has it as a corner: a slot
\* freed and reused never leaves a stale pointer (link, alloc, kill, flip).
NeighboursAgree ==
    /\ \A t \in Alive(m), i \in 1 .. 3 :
        LET o == m.tri[t].n[i]
        IN  o # 0 => /\ m.tri[o].alive
                     /\ \E j \in 1 .. 3 : /\ m.tri[o].n[j] = t
                                          /\ From(m, o, j) = To(m, t, i)
                                          /\ To(m, o, j) = From(m, t, i)
    /\ \A v \in Inserted : m.tri[m.vt[v]].alive /\ v \in Corners(m, m.vt[v])

\* The alive triangles are counter-clockwise and tile the bounding triangle,
\* after every split, flip and retriangulation (insert, flip, fill).
TilesTheBox ==
    /\ \A t \in Alive(m) : TwiceAreaOf(t) > 0
    /\ MapThenSumSet(TwiceAreaOf, Alive(m))
         = LET n == Real(m)
           IN  Cross(Minus(m.pts[n + 2], m.pts[n + 1]), Minus(m.pts[n + 3], m.pts[n + 1]))
IsATriangulation == TypeOK /\ NeighboursAgree /\ TilesTheBox

\* A segment once made an edge stays one, whatever is flipped, split or
\* retriangulated afterwards (`every input polygon segment is an edge`).
SegmentsStayEdges ==
    \A e \in DOMAIN m.con : \E t \in Alive(m) : e \subseteq Corners(m, t)

\* Whenever no edge is left on the stack, every edge that is no constraint
\* is locally Delaunay: the positions on the stack, which flips rewrite,
\* never lose an edge that had to be looked at (legalize).
LocallyDelaunay ==
    phase \in {"ready", "walk", "done"} =>
        \A t \in Alive(m), i \in 1 .. 3 :
            \/ m.tri[t].n[i] = 0
            \/ {From(m, t, i), To(m, t, i)} \in DOMAIN m.con
            \/ CircleSign(m, t, i) # 1
ConstrainedDelaunay == SegmentsStayEdges /\ LocallyDelaunay

\* The triangles returned are those the polygons wind around, each with its
\* centre inside by the region's own winding number (windings).
Centre3(v) == <<At(m, v[1])[1] + At(m, v[2])[1] + At(m, v[3])[1],
                At(m, v[1])[2] + At(m, v[2])[2] + At(m, v[3])[2]>>
CoversTheRegion ==
    phase = "done" =>
        LET three == ScaledAll(Rings(input), 3)
        IN  ToSet(out) = {Canonical(m.tri[t].v) : t \in {t \in Alive(m) :
                              /\ Corners(m, t) \subseteq 1 .. Real(m)
                              /\ Winding(three, Centre3(m.tri[t].v)) # 0}}

\* The input is refused exactly when two of its points coincide, a point is
\* on a segment it does not end, or two segments cross or coincide; and the
\* error names such a pair (CdtError).  `Internal` is never the answer.
Pts == AllPoints(input)
SegmentList == SegmentJobs(input)
JobOf(s) == SegmentList[StartOf(input, s[1]) + s[2]]
Ends(j) == {j.a, j.b}
Coincide(i, j) == Ends(i) = Ends(j)
CrossAt(pts, i, j) ==
    /\ Orient(pts[i.a], pts[i.b], pts[j.a]) * Orient(pts[i.a], pts[i.b], pts[j.b]) = -1
    /\ Orient(pts[j.a], pts[j.b], pts[i.a]) * Orient(pts[j.a], pts[j.b], pts[i.b]) = -1
LiesOn(pts, v, j) == v \notin Ends(j) /\ OnSegment(pts[j.a], pts[j.b], pts[v])
Degenerate ==
    LET pts == Pts
        jobs == SegmentList
    IN  \/ ~ IsInjective(pts)
        \/ \E j \in ToSet(jobs) : \E v \in DOMAIN pts : LiesOn(pts, v, j)
        \/ \E i, j \in ToSet(jobs) : i # j /\ (Coincide(i, j) \/ CrossAt(pts, i, j))
NamedRight(f) ==
    CASE f.kind = "polygon" -> Cardinality(ToSet(Rings(input)[f.polygon])) < 3
      [] f.kind = "duplicate" -> f.a # f.b /\ Pts[f.a] = Pts[f.b]
      [] f.kind = "on" -> LiesOn(Pts, f.vertex, JobOf(f.segment))
      [] f.kind = "crossing" -> CrossAt(Pts, JobOf(f.existing), Head(todo))
      [] f.kind = "coincident" -> JobOf(f.existing) # Head(todo) /\ Coincide(JobOf(f.existing), Head(todo))
      [] OTHER -> FALSE
RefusesExactlyTheDegenerate ==
    /\ phase = "done" => ~ Degenerate
    /\ phase = "failed" => NamedRight(m.fail)

\* The region's sweep finds the pairs of segments that meet that comparing
\* every pair finds, its strips answer every point's side as walking every
\* segment does, and the interior point it picks is strictly inside
\* (Polygon2::intersections, SideIndex, interior_point).
AllMeetings(a, b) == {<<i, j>> \in (DOMAIN a) \X (DOMAIN b) : SegmentsIntersect(a[i], b[j])}
SweepFindsEveryMeeting ==
    phase = "check" =>
        \A r, s \in ToSet(Rings(input)) :
            /\ Intersections(r, s) = AllMeetings(Segments(r), Segments(s))
            /\ SelfIntersections(r) = {x \in AllMeetings(Segments(r), Segments(r)) :
                                          Apart(Len(Segments(r)), x[1], x[2])}
StripsAnswerAsTheWalk ==
    phase = "check" /\ TooFew(input) = {} =>
        \A p \in {Minus(q, d) : q \in ToSet(AllPoints(input)), d \in {<<0, 0>>, <<1, 0>>, <<1, 1>>, <<0, 1>>}} :
            SideOf(SideIndex(Rings(input), 2), p) = PointSide(Rings(input), p)
Rises(in) == UNION {{Greater(s[2][2] - s[1][2], s[1][2] - s[2][2])
                       : s \in ToSet(Segments(in.polygons[k]))} : k \in DOMAIN in.polygons} \ {0}
Common(in) == {k \in 1 .. 60 : \A d \in Rises(in) : k % d = 0}
InteriorPointIsInside ==
    phase = "done" /\ Common(input) # {} =>
        LET fine == ScaledAll(input.polygons, 4 * Min(Common(input)))
        IN  /\ Cardinality(InteriorPoint(fine)) <= 1
            /\ \A p \in InteriorPoint(fine) : PointSide(fine, p) = "inside"
            /\ out # <<>> => InteriorPoint(fine) # {}
RegionQueriesAgree == SweepFindsEveryMeeting /\ StripsAnswerAsTheWalk /\ InteriorPointIsInside

\* The walk is bounded and flips stop: every call returns (locate, legalize).
Terminates == <>Ended
=============================================================================
