-------------------------------- MODULE Part --------------------------------
(***************************************************************************)
(* A part from its sketch to its mesh: a sweep (sweep.rs) hands its specs  *)
(* to `assemble`, which proves them, `finish` stores them (builder.rs),    *)
(* the checker reads what was stored, and the stored body is tessellated.  *)
(* A body may also be given as it is and only be meshed.  The mesh of a    *)
(* sweep is read in space: a position is the point its vertex, its edge's  *)
(* sample or its face's interior point stands for.                         *)
(* A part stored may first go through a STEP file, its own or one another  *)
(* system writes of it, and a file may be given; or edges of it may be     *)
(* blended, time after time.                                               *)
(***************************************************************************)
EXTENDS Tessellate, StepSeams, Blend

CONSTANTS
    Sweepings,            \* the sweeps asked for
    Rewritten(_),         \* the files of the solid of a file, with what a
                          \* projection answers for an angle of 0
    Given                 \* files given: jobs with one and what it is of

VARIABLES
    job,                  \* the sweep asked for, or NoJob, with the blends
                          \* still to make of it and those made
    stage,                \* asked | refused | swept | rejected | stored | meshing,
                          \* and written | reading | unread | read
    made,                 \* what the sweep, the reader or a blend made, or
                          \* its fault
    part,                 \* the solid stored: the checker's record
    file,                 \* the file being read, and its rounding
    read                  \* what is read of it so far
partVars == <<job, stage, made, part, file, read>>

NoJob == [op |-> "none", blends |-> <<>>, done |-> <<>>]
NoBody == [vertices |-> 0, edges |-> <<>>, faces |-> <<>>]
NoPart == [model |-> A!EmptyStore, at |-> <<>>, curves |-> <<>>]
NoFile == [file |-> <<>>, rounding |-> 0]
NothingRead == [fault |-> <<>>]

PartInit ==
    /\ made = Degenerate(<<>>) /\ part = NoPart /\ read = NothingRead
    /\ \/ Init /\ job = NoJob /\ stage = "meshing" /\ file = NoFile
       \/ /\ \/ job \in Sweepings /\ stage = "asked" /\ file = NoFile
             \/ job \in Given /\ stage = "written" /\ file = job.given
          /\ body = NoBody /\ phase = "sample" /\ mesh = EmptyMesh /\ samples = <<>> /\ works = <<>>
          /\ results = <<>> /\ met = 0 /\ error = 0

SweepJob ==
    /\ stage = "asked"
    /\ made' = IF job.op = "extrude" THEN Extrude(job) ELSE Revolve(job)
    /\ stage' = IF made'.fault = <<>> THEN "swept" ELSE "refused"
    /\ UNCHANGED <<job, part, file, read, vars>>

\* The specs as the assembly takes them, keyed by their place.
Specs(x) ==
    [vertices |-> [k \in DOMAIN x.vertices |-> [keep |-> 0]],
     edges |-> [k \in DOMAIN x.edges |->
        [keep |-> 0, start |-> A!New(IndexOf(x.vertices, x.edges[k].start)),
         end |-> A!New(IndexOf(x.vertices, x.edges[k].end)), deg |-> x.edges[k].deg]],
     shells |-> [n \in DOMAIN x.shells |-> [k \in DOMAIN x.shells[n] |->
        LET face == x.shells[n][k].face
        IN  [keep |-> 0, surf |-> face.surf, dir |-> face.dir,
             loops |-> [li \in DOMAIN face.loops |-> [j \in DOMAIN face.loops[li] |->
                [edge |-> A!New(face.loops[li][j].edge), dir |-> face.loops[li][j].dir,
                 pc |-> <<face.loops[li][j].pc>>]]]]]]]
Store(x, b) ==
    [model |-> A!Finish(A!EmptyStore, b),
     at |-> [k \in DOMAIN x.vertices |-> x.vertices[k].at],
     curves |-> [k \in DOMAIN x.edges |-> x.edges[k].curve]]
Refuses(staged) == ~ staged.ok \/ ~ A!Proven(staged.b)
\* `apply`: the staged specs are proved, and stored in one go.
Assembled ==
    /\ stage = "swept"
    /\ \E staged \in {A!Staged(A!EmptyStore, Specs(made))} :
         IF Refuses(staged) THEN stage' = "rejected" /\ UNCHANGED part
         ELSE stage' = "stored" /\ part' = Store(made, staged.b)
    /\ UNCHANGED <<job, made, file, read, vars>>

\* fillet, chamfer: the edges named by their ends, the blends of them decided,
\* the body rewritten, proved, and stored beside the one it was.
EdgeBetween(pair) ==
    LET found == {e \in DOMAIN part.curves : {Head(part.curves[e]), Last(part.curves[e])} = {pair[1], pair[2]}}
    IN  IF found = {} THEN 0 ELSE Min(found)
BlendAsked(blend) ==
    [kind |-> blend.kind, size |-> blend.size, rounding |-> job.rounding,
     edges |-> [k \in DOMAIN blend.edges |-> EdgeBetween(blend.edges[k])]]
BlendRefused(stageThen, faulty) == stage' = stageThen /\ made' = faulty /\ UNCHANGED part
BlendInto(p, d, rw, out) ==
    /\ stage' = "stored" /\ part' = Alone(out, 2)
    /\ made' = [fault |-> <<>>, before |-> p, after |-> out, blended |-> {b.stripe.edge : b \in ToSet(d.blends)}
                  \cup {r.edge : r \in ToSet(d.rings)}, records |-> Records(p, d, rw, out)]
Rewriting(p, d, rw) ==
    IF rw.fault # <<>> THEN BlendRefused("refused", rw)
    ELSE \E staged \in {A!Staged(p.model, AssemblyOf(p, rw))} :
            IF Refuses(staged) THEN BlendRefused("rejected", rw)
            ELSE \E out \in {Rebuilt(p, rw, staged.b)} : BlendInto(p, d, rw, out)
Blended ==
    /\ stage = "stored" /\ job.blends # <<>>
    /\ \E p \in {View(part)} : \E d \in {Decide(p, BlendAsked(Head(job.blends)))} :
         IF d.fault # <<>> THEN BlendRefused("refused", d)
         ELSE \E rw \in {RewriteOf(p, d, ShortenedOf(p, CutsOf(d)))} : Rewriting(part, d, rw)
    /\ job' = [job EXCEPT !.blends = Tail(@), !.done = Append(@, Head(job.blends))]
    /\ UNCHANGED <<file, read, vars>>

\* A file of the part, and the reader over it: its entities, then face by
\* face, then the assembly.  Bound: no file is written of a blended part.
WriteFile ==
    /\ stage = "stored" /\ job.blends = <<>> /\ job.done = <<>>
    /\ file' \in Rewritten(Write(part))
    /\ stage' = IF file'.file.fault = <<>> THEN "written" ELSE "unread"
    /\ UNCHANGED <<job, made, part, read, vars>>
ReadEntities ==
    /\ stage = "written"
    /\ read' = Entities(file.file)
    /\ stage' = "reading"
    /\ UNCHANGED <<job, made, part, file, vars>>
FacesLeft == Len(read.walked) < Len(FacesOf(file.file))
ReadNext ==
    /\ stage = "reading" /\ FacesLeft
    /\ \E f \in {FacesOf(file.file)[Len(read.walked) + 1]} : read' = ReadFace(read, f[2], f[1], file.rounding)
    /\ stage' = IF read'.fault = <<>> THEN "reading" ELSE "unread"
    /\ UNCHANGED <<job, made, part, file, vars>>
\* The body is assembled and checked, and kept if nothing is found.
UnreadFor(fault) ==
    stage' = "unread" /\ read' = Refused(read, fault) /\ UNCHANGED part
CheckedAs(solid) ==
    IF Violations(solid) # {} THEN UnreadFor(<<"Invalid", Violations(solid)>>)
    ELSE stage' = "read" /\ part' = solid /\ UNCHANGED read
Build ==
    /\ stage = "reading" /\ ~ FacesLeft
    /\ made' = BuiltFrom(read)
    /\ \E staged \in {A!Staged(A!EmptyStore, Specs(made'))} :
         IF Refuses(staged) THEN UnreadFor(<<"Topology">>)
         ELSE \E solid \in {Store(made', staged.b)} : CheckedAs(solid)
    /\ UNCHANGED <<job, file, vars>>

\* What tessellate reads of the stored body: its faces in id order.
StepsOf(surface) ==
    CASE surface.kind \in {"sphere", "torus", "ball", "hoop"} -> <<3, 3>>
      [] surface.kind \in {"cylinder", "cone", "tube", "bar", "funnel"} -> <<3, 0>>
      [] OTHER -> <<0, 0>>
MeshedEdge(e) ==
    [start |-> part.model.edges[e].start, end |-> part.model.edges[e].end,
     degenerate |-> part.model.edges[e].deg, own |-> Len(part.curves[e]) - 1]
DirOf(f) == LET shell == CHOOSE n \in DOMAIN part.model.shells : \E use \in ToSet(part.model.shells[n]) : use.id = f
            IN  (CHOOSE use \in ToSet(part.model.shells[shell]) : use.id = f).dir
MeshedFace(f) ==
    [reversed |-> DirOf(f) = 1, steps |-> StepsOf(part.model.faces[f].surf),
     loops |-> [li \in DOMAIN part.model.faces[f].loops |->
        [k \in DOMAIN part.model.faces[f].loops[li] |->
            LET u == part.model.faces[f].loops[li][k]
            IN  [edge |-> u.edge, forward |-> u.dir = 0, pcurve |-> u.pc[1]]]]]
StartMesh ==
    /\ stage \in {"stored", "read"} /\ job.blends = <<>>
    /\ body' = [vertices |-> part.model.vertices,
                edges |-> [e \in DOMAIN part.model.edges |-> MeshedEdge(e)],
                faces |-> [f \in DOMAIN part.model.faces |-> MeshedFace(f)]]
    /\ stage' = "meshing"
    /\ UNCHANGED <<job, made, part, file, read, phase, mesh, samples, works, results, met, error>>
\* Bound: the faces of a part made here are worked in order, those of a body
\* given in every order.
OneByOne == job = NoJob \/ \A f \in 2 .. Len(results') : results'[f].done => results'[f - 1].done
Tessellating == stage = "meshing" /\ Next /\ OneByOne /\ UNCHANGED partVars
Refusing == stage \in {"refused", "unread"} /\ UNCHANGED <<vars, partVars>>
PartNext ==
    \/ SweepJob \/ Assembled \/ Blended \/ WriteFile \/ ReadEntities \/ ReadNext \/ Build
    \/ StartMesh \/ Tessellating \/ Refusing
PartSpec == PartInit /\ [][PartNext]_<<vars, partVars>>

-----------------------------------------------------------------------------
(* Properties.                                                             *)

\* What a sweep returns, `assemble` proves and every fast row of the checker
\* accepts ("Every Body an operation returns passes the fast subset"): loops
\* placed in the domain close and meet their edges on every surface, seams a
\* period apart and poles included, and every edge is used once each way.
TheCheckerFindsNothing ==
    /\ stage # "rejected"
    /\ stage = "stored" => Violations(part) = {}

\* The corner of the sketch the consumer drew as (loop, segment).
Drawn(l, k) ==
    LET lp == job.sketch[l + 1]
    IN  CASE lp.kind = "circle" -> Plus(lp.centre, <<lp.radius, 0>>)
          [] lp.kind = "ellipse" ->
               Plus(lp.centre, IF lp.reach[2] > lp.reach[1] THEN <<0, lp.reach[2]>> ELSE <<lp.reach[1], 0>>)
          [] OTHER -> Corner(lp, k % Len(lp.segments))
\* Where it is at the start of the sweep, and at its end.
Height3 == IF job.up THEN job.length ELSE -job.length
Radius3(p) == LET r == Rho(InPlane(job.axis), p) IN Greater(r, -r)
SweptTo(p, atEnd) ==
    IF job.op = "extrude" THEN Lift(p, IF atEnd THEN Height3 ELSE 0)
    ELSE <<Along(job.axis, p)>> \o Times(Radius3(p), Direction(IF atEnd THEN job.angle ELSE 0))
\* The points an entity named <<role, loop, segment>> reaches.
Corners3(role) ==
    LET at(k, atEnd) == SweptTo(Drawn(role[2], role[3] + k), atEnd)
    IN  CASE role[1] = "StartVertex" -> {at(0, FALSE)}
          [] role[1] = "EndVertex" -> {at(0, TRUE)}
          [] role[1] = "StartEdge" -> {at(0, FALSE), at(1, FALSE)}
          [] role[1] = "EndEdge" -> {at(0, TRUE), at(1, TRUE)}
          [] role[1] = "Rise" -> {at(0, FALSE), at(0, TRUE)}
          [] OTHER -> {at(0, FALSE), at(1, FALSE), at(0, TRUE), at(1, TRUE)}
EdgeReach(e) == {Head(made.edges[e].curve), Last(made.edges[e].curve)}
FaceReach(face) == UNION {UNION {EdgeReach(u.edge) : u \in ToSet(lp)} : lp \in ToSet(face.loops)}
SideFaces == {x \in UNION {ToSet(shell) : shell \in ToSet(made.shells)} : x.role[1] = "Side"}
\* A full turn leaves out the vertex where a disc meets the axis.
Points3 == {v.at : v \in ToSet(made.vertices)}
NamesAreDrawn ==
    /\ \A v \in ToSet(made.vertices) : Corners3(v.role) = {v.at}
    /\ \A e \in DOMAIN made.edges : Corners3(made.edges[e].role) = EdgeReach(e)
    /\ \A x \in SideFaces : Corners3(x.role) \cap Points3 = FaceReach(x.face)
    /\ Cardinality({v.role : v \in ToSet(made.vertices)}) = Len(made.vertices)

\* The Euler characteristic of the sketch turned or pulled: a full turn makes
\* a sphere of every run of it off the axis and a torus of a loop that is.
RunsOffTheAxis ==
    {c \in {<<l, k>> : l \in 1 .. Len(job.sketch), k \in 0 .. 7} :
        /\ job.sketch[c[1]].kind = "path" /\ c[2] < Len(job.sketch[c[1]].segments)
        /\ Radius3(Drawn(c[1] - 1, c[2])) = 0
        /\ \/ job.sketch[c[1]].segments[c[2] + 1].kind = "arc"
           \/ Radius3(Drawn(c[1] - 1, c[2] + 1)) # 0}
CharacteristicDrawn ==
    IF job.op = "read" THEN job.characteristic
    ELSE IF job.op = "revolve" /\ job.angle = Turn THEN 2 * Cardinality(RunsOffTheAxis)
    ELSE 2 - 2 * (Len(job.sketch) - 1)
Characteristic ==
    LET m == part.model
    IN  m.vertices - Cardinality({e \in DOMAIN m.edges : ~ m.edges[e].deg}) + 2 * Len(m.faces)
          - MapThenSumSet(LAMBDA f : Len(m.faces[f].loops), DOMAIN m.faces)

\* The ends of the edges at a vertex are one ring of corners of faces: a body
\* that touches itself in a point is no solid (SweepError::NonManifold).
Leaves(u) == <<u.edge, 1 + u.dir>>
Arrives(u) == <<u.edge, 2 - u.dir>>
CornersOfFaces(m) ==
    UNION {UNION {{{Arrives(lp[k]), Leaves(NextUse(lp, k))} : k \in DOMAIN lp}
                    : lp \in ToSet(m.faces[f].loops)} : f \in DOMAIN m.faces}
    \cup {{<<e, 1>>, <<e, 2>>} : e \in {e \in DOMAIN m.edges : m.edges[e].deg}}
EdgeEndsAt(m, v) ==
    {<<e, 1>> : e \in {e \in DOMAIN m.edges : m.edges[e].start = v}}
    \cup {<<e, 2>> : e \in {e \in DOMAIN m.edges : m.edges[e].end = v}}
RingAround(corners, ends) ==
    FoldSet(LAMBDA x, reached : reached \cup UNION {c \in corners : c \cap reached # {}},
            {CHOOSE x \in ends : TRUE}, ends)
OneRingEach(m) ==
    \A v \in 1 .. m.vertices : RingAround(CornersOfFaces(m), EdgeEndsAt(m, v)) = EdgeEndsAt(m, v)

\* What a blend took of a body is deleted - the edges blended and their ends -
\* or modified into one entity, and what it put there has an origin.
Gone == EntitiesOf(made.before.model, 1) \ EntitiesOf(made.after.model, 2)
Come == EntitiesOf(made.after.model, 2) \ EntitiesOf(made.before.model, 1)
EndsBlended == UNION {{made.before.model.edges[e].start, made.before.model.edges[e].end} : e \in made.blended}
BlendAccounts ==
    /\ made.records.deleted = {<<"edge", e>> : e \in made.blended} \cup {<<"vertex", v>> : v \in EndsBlended}
    /\ {pair[1] : pair \in made.records.modified} = Gone \ made.records.deleted
    /\ \A pair \in made.records.modified : pair[1][1] = pair[2][1]
    /\ Cardinality({pair[2] : pair \in made.records.modified}) = Cardinality(Gone \ made.records.deleted)
    /\ Come = {pair[2] : pair \in made.records.modified \cup made.records.generated}
    /\ {pair[1] : pair \in made.records.generated} = {<<"edge", e>> : e \in made.blended}
BlendsAsExpected ==
    job.done # <<>> =>
        /\ stage = "refused" => made.fault[1] = Last(job.done).refused
        /\ stage = "stored" => Last(job.done).refused = "" /\ BlendAccounts

\* A sweep is the sketch the consumer drew, whichever way round its loops
\* were drawn and whichever side of the axis they are on: every entity names
\* the corner or the segment of the sketch it stands on, no name twice, the
\* body stored has the characteristic of the sketch turned or pulled, and no
\* point of it is pinched (the roles of `sweep_roles` in sweep.rs).  Its
\* blends are made or refused as the room there is for them says, and account
\* for all they took and put there (blend.rs; `rewrite` in rebuild.rs).
PartIsWhatWasAsked ==
    /\ stage = "swept" => NamesAreDrawn
    /\ stage = "stored" => Characteristic = CharacteristicDrawn /\ OneRingEach(part.model)
    /\ BlendsAsExpected

\* What an entity read is generated from is the entity of the file it
\* stands on: a vertex a point, one on an edge or a face's apex; an edge the
\* edge it is or is a piece of, all of it between them, or the face that
\* needed it; a face the face of its surface.
PointsNamed(name) ==
    CASE name[1] = "vertex" -> {file.file.points[name[2]]}
      [] name[1] = "edge" -> ToSet(file.file.edges[name[2]].curve.at)
      [] OTHER -> {row.point : row \in UNION {ToSet(Rows(f[2].surface)) :
                     f \in {f \in ToSet(FacesOf(file.file)) : f[2].id = name[2]}}}
FacesMade == UNION {ToSet(shell) : shell \in ToSet(made.shells)}
FacesAround(e) == {x.role : x \in {x \in FacesMade : \E lp \in ToSet(x.face.loops) : \E u \in ToSet(lp) : u.edge = e}}
PointOf(v) == file.file.points[v]
Between(e) ==
    ToSet(IF e.sense THEN Range3(e.curve, PointOf(e.start), PointOf(e.end))
          ELSE Range3(e.curve, PointOf(e.end), PointOf(e.start)))
PiecesNamed(id) == UNION {ToSet(e.curve) : e \in {e \in ToSet(made.edges) : e.role = <<"edge", id>>}}
EntitiesNameTheFile ==
    /\ \A v \in ToSet(made.vertices) : v.at \in PointsNamed(v.role)
    /\ \A e \in DOMAIN made.edges : made.edges[e].role[1] = "face" => FacesAround(e) = {made.edges[e].role}
    /\ \A e \in ToSet(EdgeIdsOf(file.file)) : PiecesNamed(e) = Between(file.file.edges[e])
    /\ {<<x.role[2], x.face.surf>> : x \in FacesMade} = {<<f[2].id, f[2].surface>> : f \in ToSet(FacesOf(file.file))}
\* A pcurve the file gives of an edge is the one the reader finds for it, up
\* to whole periods.
SamplesOf(c, n) == {PcurvePoint(c, i, n) : i \in {i \in 0 .. n : IsSample(c, i, n)}}
SamePcurve(surface, c, d, n) ==
    SamplesOf(Moved(c, ShiftTo(surface, c.a, d.a)), n) = SamplesOf(d, n)
PcurvesAreTheFiles ==
    \A c \in CoedgesIn(part.model) :
        made.edges[c.edge].role[1] = "edge" =>
            LET given == file.file.edges[made.edges[c.edge].role[2]].geometry.pcurves
            IN  given = <<>> \/ \E p \in ToSet(given) :
                    /\ p.surface = SurfaceOf(part.model, c)
                    /\ SamePcurve(p.surface, c.pc, p.pc, Len(made.edges[c.edge].curve) - 1)
\* The one refusal: a circle between two bands that both ask for a cut of it.
BandsOn(e) ==
    {f \in ToSet(FacesOf(file.file)) :
        /\ Periods(f[2].surface)[1] # 0 /\ Len(f[2].bounds) = 2
        /\ \E b \in ToSet(f[2].bounds) : b.kind = "edges" /\ \E u \in ToSet(b.uses) : u.edge = e}
CutTwice ==
    read.fault # <<>> /\ read.fault[1] = "SecondSplit"
    /\ \E split \in ToSet(read.splits) : Cardinality(BandsOn(read.edgeIds[split.edge])) = 2
\* A face is where a projection onto its surface answers: its widest loop is
\* about a centre in the surface's own period.
CentreTwice(lp, d) ==
    LET reach == UNION {{u.pc[1].a[d], u.pc[1].b[d]} : u \in ToSet(lp)} IN Min(reach) + Max(reach)
FacesInTheirPeriod ==
    \A f \in ToSet(part.model.faces) : \A d \in {d \in {1, 2} : Periods(f.surf)[d] # 0} :
        \E lp \in ToSet(f.loops) : CentreTwice(lp, d) \in 0 .. 2 * Periods(f.surf)[d] - 1
GivenFaulty == job.op = "read" /\ job.refused
\* And the other: of the two arcs between the circles of a torus the shorter
\* is the seam, whichever side the face is on.
LongWayRound ==
    job.op = "revolve" /\ job.angle \in 6 .. Turn - 1 /\ read.fault # <<>> /\ read.fault[1] = "Invalid"
    /\ \A fault \in read.fault[2] :
         fault[1] = "NoOuter" /\ read.walked[fault[2]].surface.kind = "torus"
\* A solid written to a file reads back as itself, and so does what another
\* system writes of it: with its seams and poles left out, with its edges
\* against their curves, with circles that start elsewhere - the reader
\* refuses none of them but for a circle two bands would cut and a band of a
\* torus half way round or more, the body read has the characteristic of the
\* sketch and no pinch, each face where projections answer, and says of what
\* entity of the file each of its own is (`build` in topology.rs and its header).
FileReadsBack ==
    /\ stage = "unread" => CutTwice \/ LongWayRound \/ GivenFaulty
    /\ stage = "read" =>
         ~ GivenFaulty /\ Characteristic = CharacteristicDrawn /\ OneRingEach(part.model) /\ EntitiesNameTheFile
         /\ PcurvesAreTheFiles /\ FacesInTheirPeriod

\* Six times the volume under triangles, by their corners in space.
Det3(p, q, r) ==
    p[1] * (q[2] * r[3] - q[3] * r[2]) - p[2] * (q[1] * r[3] - q[3] * r[1])
    + p[3] * (q[1] * r[2] - q[2] * r[1])
VolumeUnder(at, triangles) ==
    FoldLeft(LAMBDA sum, t : sum + Det3(at[t[1]], at[t[2]], at[t[3]]), 0, triangles)
\* Where the positions of the mesh are.
PointsOfMesh ==
    part.at
    \o FlattenSeq([e \in DOMAIN part.curves |->
         IF part.model.edges[e].deg THEN <<>> ELSE Tail(Front(part.curves[e]))])
    \o FlattenSeq([f \in DOMAIN works |-> [i \in DOMAIN works[f].input.interior |->
         Image(part.model.faces[f].surf, works[f].input.interior[i])]])
TrianglesOf(f) ==
    LET first == MapThenSumSet(LAMBDA g : mesh.faces[g], 1 .. f - 1)
    IN  SubSeq(mesh.triangles, first + 1, first + mesh.faces[f])
ShellVolume(at, shell) == MapThenSumSet(LAMBDA f : VolumeUnder(at, TrianglesOf(f)), {use.id : use \in ToSet(shell)})

\* The same of the sketch: a prism over its area, or wedges of a quarter of
\* a turn over its sides.
PrismOver(ring) == 3 * TwiceArea(ring) * job.length
WedgesUnder(ring) ==
    LET wedge(s) == (Along(job.axis, s[2]) - Along(job.axis, s[1]))
                    * (Radius3(s[1]) * Radius3(s[1]) + Radius3(s[1]) * Radius3(s[2]) + Radius3(s[2]) * Radius3(s[2]))
    IN  (job.angle \div 3) * FoldLeft(LAMBDA sum, s : sum + wedge(s), 0, Segments(ring))
SweptVolume(k) ==
    LET ring == RingOf(LoopEdges(job.sketch[k], k - 1, FALSE).edges)
    IN  Magnitude(IF job.op = "extrude" THEN PrismOver(ring) ELSE WedgesUnder(ring))
VolumeDrawn ==
    IF job.op = "read" THEN job.volume
    ELSE SweptVolume(1) - MapThenSumSet(SweptVolume, 2 .. Len(job.sketch))
           - SumOver(job.done, LAMBDA blend : blend.removes)
\* The mesh of a sweep encloses what the sketch sweeps, outer loop less holes,
\* with its normals outward: the volume by its triangles is the volume by the
\* sketch, and the first shell is the one around all the others, which are
\* cavities in it (outer_chain, side_orientation in sweep.rs).
MeshEnclosesTheSweep ==
    phase = "done" /\ job # NoJob =>
        LET volumes == [n \in DOMAIN part.model.shells |-> ShellVolume(PointsOfMesh, part.model.shells[n])]
        IN  /\ \A n \in DOMAIN volumes : IF n = 1 THEN volumes[n] > 0 ELSE volumes[n] < 0
            /\ FoldFunction(LAMBDA v, sum : v + sum, 0, volumes) = VolumeDrawn
=============================================================================
