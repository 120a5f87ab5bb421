------------------------------ MODULE CdtMesh ------------------------------
(***************************************************************************)
(* The triangulation under construction (arris-mesh, cdt.rs, `Mesh`): the  *)
(* input points followed by the three corners of the bounding triangle,    *)
(* triangles in slots that a removed triangle frees for the next one, one  *)
(* incident triangle per vertex to start a walk from, and the constrained  *)
(* edges.  One operator per step of the algorithm; points and slots are    *)
(* numbered from 1, and slot 0 is "no neighbour".                          *)
(*                                                                         *)
(* An operator that may fail returns the mesh with `fail` set; `stack` is  *)
(* the list of edges <<slot, index>> that legalize is still to look at.    *)
(***************************************************************************)
EXTENDS Region2

NoFail == [kind |-> "none"]
Failed(s) == s.fail # NoFail

Nx(i) == (i % 3) + 1
Pv(i) == Nx(Nx(i))
Tri(v) == [v |-> v, n |-> <<0, 0, 0>>, alive |-> TRUE]

\* Mesh::new over points whose box has even coordinates: a triangle six
\* half-extents wide and six high around it.
Bounding(points) ==
    LET xs == {p[1] : p \in ToSet(points)}
        ys == {p[2] : p \in ToSet(points)}
        r == Greater(Greater(Max(xs) - Min(xs), Max(ys) - Min(ys)) \div 2, 2)
        c == <<(Min(xs) + Max(xs)) \div 2, (Min(ys) + Max(ys)) \div 2>>
    IN  << <<c[1] - 6 * r, c[2] - 3 * r>>, <<c[1] + 6 * r, c[2] - 3 * r>>, <<c[1], c[2] + 6 * r>> >>

NewMesh(points) ==
    LET n == Len(points)
    IN  [pts |-> points \o Bounding(points), tri |-> <<Tri(<<n + 1, n + 2, n + 3>>)>>,
         free |-> <<>>, vt |-> [v \in 1 .. n + 3 |-> 1], con |-> [e \in {} |-> e], last |-> 1,
         stack |-> <<>>, fail |-> NoFail]

Real(m) == Len(m.pts) - 3
Alive(m) == {t \in DOMAIN m.tri : m.tri[t].alive}
From(m, t, i) == m.tri[t].v[i]
To(m, t, i) == m.tri[t].v[Nx(i)]
Apex(m, t, i) == m.tri[t].v[Pv(i)]
Corners(m, t) == ToSet(m.tri[t].v)
At(m, v) == m.pts[v]
Con(m, a, b) == {a, b} \in DOMAIN m.con

-----------------------------------------------------------------------------
(* alloc, kill, edge_index, link.                                          *)

Alloc(m, v) ==
    LET t == IF m.free # <<>> THEN Last(m.free) ELSE Len(m.tri) + 1
    IN  [m EXCEPT !.tri = [s \in DOMAIN m.tri \cup {t} |-> IF s = t THEN Tri(v) ELSE m.tri[s]],
                  !.free = IF m.free # <<>> THEN Front(@) ELSE @,
                  !.vt = [x \in DOMAIN @ |-> IF x \in ToSet(v) THEN t ELSE @[x]],
                  !.last = t]
Kill(m, t) == [m EXCEPT !.tri[t].alive = FALSE, !.free = Append(@, t)]

EdgeIndices(m, t, a, b) == {i \in 1 .. 3 : From(m, t, i) = a /\ To(m, t, i) = b}
EdgeIndex(m, t, a, b) == Min(EdgeIndices(m, t, a, b))

Internal(m, what) == [m EXCEPT !.fail = [kind |-> "internal", what |-> what]]

\* Both sides of an edge point at each other.
LinkOneWay(m, t, i, other) == [m EXCEPT !.tri[t].n[i] = other]           \* mutant
Link(m, t, i, other) ==
    IF other = 0 THEN [m EXCEPT !.tri[t].n[i] = 0]
    ELSE IF EdgeIndices(m, other, To(m, t, i), From(m, t, i)) = {} THEN Internal(m, "edge")
    ELSE [m EXCEPT !.tri = [m.tri EXCEPT
            ![t].n[i] = other,
            ![other].n[EdgeIndex(m, other, To(m, t, i), From(m, t, i))] = t]]

-----------------------------------------------------------------------------
(* locate: one step of the walk, and the scan it falls back on.            *)

Signs(m, t, p) == [i \in 1 .. 3 |-> Orient(At(m, From(m, t, i)), At(m, To(m, t, i)), p)]
Behind(m, t, p) == {i \in 1 .. 3 : Signs(m, t, p)[i] = -1}
WalkBound(m) == 2 * Len(m.tri) + 8
WalkStart(m, from) == IF from \in Alive(m) THEN from ELSE m.last

\* classify: inside, on the one edge whose sign is zero, or on a vertex.
Located(m, t, p) ==
    LET zeros == {i \in 1 .. 3 : Signs(m, t, p)[i] = 0}
        shared == CHOOSE i \in zeros : \A j \in zeros \ {i} : Nx(j) = i
    IN  CASE zeros = {} -> [at |-> "inside", t |-> t]
          [] Cardinality(zeros) = 1 -> [at |-> "edge", t |-> t, i |-> CHOOSE i \in zeros : TRUE]
          [] OTHER -> [at |-> "vertex", v |-> From(m, t, shared)]

Containing(m, p) == {t \in Alive(m) : Behind(m, t, p) = {}}
Scan(m, p) == Located(m, Min(Containing(m, p)), p)

-----------------------------------------------------------------------------
(* insert: the split of a triangle or of an edge.                          *)

LinkThree(m, t, t1, t2, n) ==
    [Link(Link(m, t1, 1, n[2]), t2, 1, n[3]) EXCEPT !.stack = <<<<t, 1>>, <<t1, 1>>, <<t2, 1>>>>]
ThirdOfThree(m, p, t, t1, t2, v, n) ==
    LinkThree([m EXCEPT !.vt[v[1]] = t, !.vt[v[2]] = t, !.vt[p] = t,
                        !.tri[t].n = <<n[1], t1, t2>>,
                        !.tri[t1].n = <<n[2], t2, t>>,
                        !.tri[t2].n = <<n[3], t, t1>>], t, t1, t2, n)
SecondOfThree(m, p, t, t1, v, n) == ThirdOfThree(m, p, t, t1, m.last, v, n)
FirstOfThree(m, p, t, v, n) == SecondOfThree(Alloc(m, <<v[3], v[1], p>>), p, t, m.last, v, n)
SplitTriangle(m, p, t) ==
    LET v == m.tri[t].v
    IN  FirstOfThree(Alloc([m EXCEPT !.tri[t].v = <<v[1], v[2], p>>], <<v[2], v[3], p>>),
                     p, t, v, m.tri[t].n)

\* The two triangles on an edge: a b c and b a d, x and y beyond the other
\* edges of the first from b on, z and w of the second from a on.
QuadOf(m, t, i, t2, j) ==
    [a |-> From(m, t, i), b |-> To(m, t, i), c |-> Apex(m, t, i), d |-> Apex(m, t2, j), t2 |-> t2,
     x |-> m.tri[t].n[Nx(i)], y |-> m.tri[t].n[Pv(i)],
     z |-> m.tri[t2].n[Nx(j)], w |-> m.tri[t2].n[Pv(j)]]
Quad(m, t, i) ==
    QuadOf(m, t, i, m.tri[t].n[i], EdgeIndex(m, m.tri[t].n[i], To(m, t, i), From(m, t, i)))

LinkFour(m, t, t1, t3, q) ==
    [Link(Link(m, t1, 2, q.x), t3, 2, q.z) EXCEPT
        !.stack = <<<<t, 3>>, <<t1, 2>>, <<q.t2, 3>>, <<t3, 2>>>>]
FourOf(m, p, t, t1, t3, q) ==
    LinkFour([m EXCEPT
                !.vt = [v \in DOMAIN @ |-> IF v \in {q.a, q.c, p} THEN t
                                           ELSE IF v \in {q.b, q.d} THEN q.t2 ELSE @[v]],
                !.tri = [m.tri EXCEPT ![t].n = <<t3, t1, q.y>>, ![t1].n = <<q.t2, q.x, t>>,
                                      ![q.t2].n = <<t1, t3, q.w>>, ![t3].n = <<t, q.z, q.t2>>]],
             t, t1, t3, q)
FourthOfFour(m, p, t, t1, q) == FourOf(m, p, t, t1, m.last, q)
ThirdOfFour(m, p, t, q) == FourthOfFour(Alloc(m, <<p, q.a, q.d>>), p, t, m.last, q)
SplitQuad(m, p, t, q) ==
    ThirdOfFour(Alloc([m EXCEPT !.tri = [m.tri EXCEPT ![t].v = <<q.a, p, q.c>>, ![q.t2].v = <<q.b, p, q.d>>]],
                      <<p, q.b, q.c>>), p, t, q)
SplitEdge(m, p, t, i) ==
    IF Con(m, From(m, t, i), To(m, t, i))
    THEN [m EXCEPT !.fail = [kind |-> "on", vertex |-> p,
                             segment |-> m.con[{From(m, t, i), To(m, t, i)}].segment]]
    ELSE IF m.tri[t].n[i] = 0 THEN Internal(m, "boundary")
    ELSE SplitQuad(m, p, t, Quad(m, t, i))

InsertLocated(m, p, loc) ==
    CASE loc.at = "vertex" -> [m EXCEPT !.fail = [kind |-> "duplicate", a |-> loc.v, b |-> p]]
      [] loc.at = "inside" -> SplitTriangle(m, p, loc.t)
      [] OTHER -> SplitEdge(m, p, loc.t, loc.i)

-----------------------------------------------------------------------------
(* legalize: one edge off the stack, flipped when the vertex across it     *)
(* lies strictly inside the circle.                                        *)

CircleSign(m, t, i) ==
    LET q == Quad(m, t, i) IN InCircle(At(m, q.a), At(m, q.b), At(m, q.c), At(m, q.d))

\* Strict: cocircular points are never flipped back and forth.
Illegal(m, t, i) ==
    /\ m.tri[t].alive
    /\ m.tri[t].n[i] # 0
    /\ ~ Con(m, From(m, t, i), To(m, t, i))
    /\ CircleSign(m, t, i) = 1

LinkFlipped(m, t, q) ==
    [Link(Link(m, t, 2, q.z), q.t2, 2, q.x) EXCEPT
        !.vt = [v \in DOMAIN @ |-> IF v \in {q.a, q.c, q.d} THEN t ELSE IF v = q.b THEN q.t2 ELSE @[v]],
        !.last = t]
FlipQuad(m, t, q) ==
    LinkFlipped([m EXCEPT !.tri = [m.tri EXCEPT
                    ![t].v = <<q.c, q.a, q.d>>, ![t].n = <<q.y, q.z, q.t2>>,
                    ![q.t2].v = <<q.d, q.b, q.c>>, ![q.t2].n = <<q.w, q.x, t>>]], t, q)
Flip(m, t, i) == FlipQuad(m, t, Quad(m, t, i))

\* The four edges around the flipped pair go back on the stack.
AroundFirst(t, t2) == <<<<t, 1>>, <<t, 2>>>>                             \* mutant
Around(t, t2) == <<<<t, 1>>, <<t, 2>>, <<t2, 1>>, <<t2, 2>>>>
LegalizeOnce(m) ==
    LET t == Last(m.stack)[1]
        i == Last(m.stack)[2]
        rest == Front(m.stack)
    IN  IF Illegal(m, t, i)
        THEN [Flip(m, t, i) EXCEPT !.stack = rest \o Around(t, m.tri[t].n[i])]
        ELSE [m EXCEPT !.stack = rest]

-----------------------------------------------------------------------------
(* insert_constraint.                                                      *)

\* fan: the triangles around a vertex with the index of the vertex in each.
Spoke(m, t, a) == [t |-> t, k |-> Min({k \in 1 .. 3 : From(m, t, k) = a})]
RECURSIVE FanFrom(_, _, _, _)
FanFrom(m, a, t, out) ==
    LET s == Spoke(m, t, a)
        next == m.tri[t].n[s.k]
    IN  IF next = m.vt[a] \/ next = 0 THEN Append(out, s)
        ELSE FanFrom(m, a, next, Append(out, s))
Fan(m, a) == FanFrom(m, a, m.vt[a], <<>>)

NeverAhead(m, a, b, x) == FALSE                                          \* mutant

\* The vertices on the segment that leave its start along it.
Ahead(m, a, b, x) ==
    /\ Orient(At(m, a), At(m, b), At(m, x)) = 0
    /\ Dot(Minus(At(m, x), At(m, a)), Minus(At(m, b), At(m, a))) > 0

\* The crossed triangles, the edge left by the last, the chains either side.
RECURSIVE Strip2(_, _, _, _)
Strip2(m, a, b, s) ==
    LET i == EdgeIndex(m, s.t, s.right, s.left)
        next == m.tri[s.t].n[i]
        e == Quad(m, s.t, i).d
        on == [s EXCEPT !.t = next, !.crossed = Append(@, next)]
    IN  IF Con(m, s.right, s.left)
        THEN [s EXCEPT !.fail = [kind |-> "crossing",
                                 existing |-> m.con[{s.right, s.left}].segment]]
        ELSE IF e = b THEN on
        ELSE CASE Orient(At(m, a), At(m, b), At(m, e)) = 0 -> [s EXCEPT !.fail = [kind |-> "on", vertex |-> e]]
               [] Orient(At(m, a), At(m, b), At(m, e)) = 1 ->
                    Strip2(m, a, b, [on EXCEPT !.lefts = Append(@, e), !.left = e])
               [] OTHER -> Strip2(m, a, b, [on EXCEPT !.rights = Append(@, e), !.right = e])

\* fill: the triangle on the base whose circle holds no other vertex of the
\* pseudo-polygon, then the two pseudo-polygons it leaves.
Best(m, poly) ==
    FoldLeft(LAMBDA c, i : IF InCircle(At(m, poly[1]), At(m, poly[2]),
                                       At(m, poly[c]), At(m, poly[i])) = 1
                           THEN i ELSE c,
             3, [k \in 1 .. Len(poly) - 3 |-> k + 3])
RECURSIVE Fill(_, _)
Fill(s, poly) ==
    IF Len(poly) < 3 \/ Failed(s.m) THEN s
    ELSE LET c == Best(s.m, poly)
             v == <<poly[1], poly[2], poly[c]>>
             m1 == Alloc(s.m, v)
         IN  IF Orient(At(s.m, v[1]), At(s.m, v[2]), At(s.m, v[3])) # 1
             THEN [s EXCEPT !.m = Internal(@, "pseudo-polygon")]
             ELSE Fill(Fill([m |-> m1, made |-> Append(s.made, m1.last)],
                            <<poly[c], poly[2]>> \o SubSeq(poly, 3, c - 1)),
                       <<poly[1], poly[c]>> \o SubSeq(poly, c + 1, Len(poly)))

\* The new triangles are linked to each other and to what was beyond.
EdgesOf(m, ts) == {<<t, i>> : t \in ts, i \in 1 .. 3}
LinkMade(m, made, outside) ==
    FoldLeft(LAMBDA s, e :
        LET t == e[1]
            i == e[2]
            inner == {f \in EdgesOf(s, ToSet(made)) :
                        From(s, f[1], f[2]) = To(s, t, i) /\ To(s, f[1], f[2]) = From(s, t, i)}
            beyond == {o \in outside : o.from = From(s, t, i) /\ o.to = To(s, t, i)}
        IN  IF Failed(s) THEN s
            ELSE IF inner # {} THEN [s EXCEPT !.tri[t].n[i] = (CHOOSE f \in inner : TRUE)[1]]
            ELSE IF beyond # {} THEN Link(s, t, i, (CHOOSE o \in beyond : TRUE).n)
            ELSE Internal(s, "matches nothing"),
        m, FlattenSeq([k \in DOMAIN made |-> <<<<made[k], 1>>, <<made[k], 2>>, <<made[k], 3>>>>]))

Constrain(m, a, b, segment) ==
    [m EXCEPT !.con = [k \in DOMAIN @ \cup {{a, b}} |->
        IF k = {a, b} THEN [segment |-> segment, from |-> a, to |-> b] ELSE @[k]]]

\* The crossed triangles give way to the two pseudo-polygons, and every edge
\* of what was made is looked at by legalize.
Relegalize(made) ==
    FlattenSeq([k \in DOMAIN made |-> <<<<made[k], 1>>, <<made[k], 2>>, <<made[k], 3>>>>])

Relinked(both, a, b, segment, outside) ==
    IF Failed(both.m) THEN both.m
    ELSE [Constrain(LinkMade(both.m, both.made, outside), a, b, segment) EXCEPT !.stack = Relegalize(both.made)]
Retriangulate(m, a, b, segment, strip) ==
    LET crossed == ToSet(strip.crossed)
        outside == {[from |-> From(m, e[1], e[2]), to |-> To(m, e[1], e[2]),
                     n |-> m.tri[e[1]].n[e[2]]]
                      : e \in {e \in EdgesOf(m, crossed) : m.tri[e[1]].n[e[2]] \notin crossed}}
        left == Fill([m |-> FoldLeft(Kill, m, strip.crossed), made |-> <<>>], <<a, b>> \o Reverse(strip.lefts))
    IN  Relinked(Fill(left, <<b, a>> \o strip.rights), a, b, segment, outside)

CrossStrip(m, a, b, segment, strip) ==
    CASE strip.fail.kind = "on" -> [m EXCEPT !.fail = [kind |-> "on", vertex |-> strip.fail.vertex,
                                                       segment |-> segment]]
      [] strip.fail.kind = "crossing" -> [m EXCEPT !.fail = strip.fail]
      [] OTHER -> Retriangulate(m, a, b, segment, strip)

\* The spokes of the fan, each with the edge across it: from the one on the
\* right of the segment to the one on its left.
Rim(m, s) == [t |-> s.t, right |-> To(m, s.t, s.k), left |-> Apex(m, s.t, s.k)]
Leave(m, a, b, segment, rims) ==
    LET side(x) == Orient(At(m, a), At(m, b), At(m, x))
        out == {s \in ToSet(rims) : side(s.right) = -1 /\ side(s.left) = 1}
    IN  IF out = {} THEN Internal(m, "leaves through no triangle")
        ELSE LET s == CHOOSE s \in out : TRUE
             IN  CrossStrip(m, a, b, segment,
                    Strip2(m, a, b, s @@ [crossed |-> <<s.t>>, lefts |-> <<s.left>>,
                                          rights |-> <<s.right>>, fail |-> NoFail]))
Cast(m, a, b, segment, rims) ==
    LET ends(s) == {s.right, s.left}
        ahead == SelectSeq(rims, LAMBDA s : \E x \in ends(s) : Ahead(m, a, b, x))
    IN  IF \E s \in ToSet(rims) : b \in ends(s) THEN Constrain(m, a, b, segment)
        ELSE IF ahead # <<>>
             THEN [m EXCEPT !.fail = [kind |-> "on", segment |-> segment,
                     vertex |-> CHOOSE x \in ends(ahead[1]) : Ahead(m, a, b, x)]]
        ELSE Leave(m, a, b, segment, rims)
RimsOf(m, fan) == [k \in DOMAIN fan |-> Rim(m, fan[k])]
InsertConstraint(m, a, b, segment) ==
    IF Con(m, a, b) THEN [m EXCEPT !.fail = [kind |-> "coincident", existing |-> m.con[{a, b}].segment]]
    ELSE Cast(m, a, b, segment, RimsOf(m, Fan(m, a)))

-----------------------------------------------------------------------------
(* windings, and the triangles of the region.                              *)

Delta(m, t, i) ==
    LET c == m.con[{From(m, t, i), To(m, t, i)}]
    IN  IF ~ Con(m, From(m, t, i), To(m, t, i)) THEN 0
        ELSE IF c.from = From(m, t, i) THEN -1 ELSE 1

\* Breadth first from a corner of the bounding triangle; a triangle reached
\* with two counts is a structural fault, Clash.
Clash == "clash"
RECURSIVE WindingsFrom(_, _, _)
WindingsFrom(m, seen, queue) ==
    IF queue = <<>> THEN seen
    ELSE LET t == Head(queue)
             reached == FoldLeft(LAMBDA s, i :
                LET o == m.tri[t].n[i]
                    w == s.seen[t] + Delta(m, t, i)
                IN  IF o = 0 \/ s.clash THEN s
                    ELSE IF o \in DOMAIN s.seen THEN [s EXCEPT !.clash = s.seen[o] # w]
                    ELSE [s EXCEPT !.seen = [u \in DOMAIN @ \cup {o} |->
                                                IF u = o THEN w ELSE s.seen[u]],
                                   !.queue = Append(@, o)],
                [seen |-> seen, queue |-> Tail(queue), clash |-> FALSE], <<1, 2, 3>>)
         IN  IF reached.clash THEN [u \in {0} |-> Clash]
             ELSE WindingsFrom(m, reached.seen, reached.queue)
Windings(m) ==
    LET start == m.vt[Real(m) + 1] IN WindingsFrom(m, [t \in {start} |-> 0], <<start>>)

\* One spelling per triangle: the smallest index leads.
Canonical(v) ==
    LET k == CHOOSE i \in 1 .. 3 : v[i] = Min(ToSet(v))
    IN  <<v[k], v[Nx(k)], v[Pv(k)]>>
InRegionIfPositive(m, w, t) ==                                           \* mutant
    m.tri[t].alive /\ (\A v \in Corners(m, t) : v <= Real(m)) /\ w[t] > 0
InRegion(m, w, t) ==
    /\ m.tri[t].alive
    /\ \A v \in Corners(m, t) : v <= Real(m)
    /\ t \in DOMAIN w /\ w[t] # 0
RegionTriangles(m) ==
    LET w == Windings(m)
        slots == SelectSeq([t \in DOMAIN m.tri |-> t], LAMBDA t : InRegion(m, w, t))
    IN  [k \in DOMAIN slots |-> Canonical(m.tri[slots[k]].v)]

-----------------------------------------------------------------------------
(* The order of insertion: bit_reversal and parent, over indices from 0.   *)

Pow2(k) == 2 ^ k
Bits(n) == Min({k \in 0 .. 8 : Pow2(k) >= n})
ReverseBits(r, bits) ==
    MapThenSumSet(LAMBDA k : ((r \div Pow2(k)) % 2) * Pow2(bits - 1 - k), 0 .. bits - 1)
BitReversal(n) ==
    SelectSeq([r \in 1 .. Pow2(Bits(n)) |-> ReverseBits(r - 1, Bits(n))], LAMBDA i : i < n)

\* The lowest set bit cleared.
Parent(i) == i - Max({Pow2(k) : k \in {k \in 0 .. 8 : Pow2(k) <= i /\ i % Pow2(k) = 0}})

-----------------------------------------------------------------------------
(* An input [polygons, interior] and what is inserted of it, in order.     *)

\* Coordinates are doubled so that the box has an integer centre.
Rings(in) == [k \in DOMAIN in.polygons |-> Scaled(Ring(in.polygons[k]), 2)]
RingPoints(in) == FlattenSeq(Rings(in))
AllPoints(in) == RingPoints(in) \o Scaled(in.interior, 2)

\* starts: the point before polygon k's first one.
StartOf(in, k) == SumOver(SubSeq(Rings(in), 1, k - 1), Len)

PointJobsIn(first, order) ==
    [k \in DOMAIN order |->
        LET i == order[k]
        IN  [job |-> "point", p |-> first + i + 1,
             near |-> IF i = 0 THEN 0 ELSE first + Parent(i) + 1]]
PointJobs(first, n) == PointJobsIn(first, BitReversal(n))
SegmentJobsOf(rings) ==
    FlattenSeq([k \in DOMAIN rings |->
        LET n == Len(rings[k])
            at == SumOver(SubSeq(rings, 1, k - 1), Len)
        IN  [i \in 1 .. n |-> [job |-> "segment", a |-> at + i, b |-> at + (i % n) + 1,
                               segment |-> <<k, i>>]]])
SegmentJobs(in) == SegmentJobsOf(Rings(in))
Jobs(in) ==
    LET ringPoints == Len(RingPoints(in))
    IN  PointJobs(0, ringPoints) \o SegmentJobs(in) \o PointJobs(ringPoints, Len(in.interior))


\* A polygon of fewer than three distinct points is refused first.
TooFew(in) == {k \in DOMAIN in.polygons : Cardinality(ToSet(Rings(in)[k])) < 3}

-----------------------------------------------------------------------------
(* `triangulate` from its input to its result, for a caller that does not  *)
(* look between its steps.                                                 *)

RECURSIVE Locate(_, _, _, _)
Locate(m, p, t, steps) ==
    IF steps = WalkBound(m) THEN Scan(m, p)
    ELSE IF Behind(m, t, p) = {} THEN Located(m, t, p)
    ELSE IF m.tri[t].n[Min(Behind(m, t, p))] = 0 THEN Scan(m, p)
    ELSE Locate(m, p, m.tri[t].n[Min(Behind(m, t, p))], steps + 1)
\* Sixteen edges at a time, and the jobs by halves: a shallow recursion.
RECURSIVE LegalizeSome(_, _)
LegalizeSome(m, k) ==
    IF Failed(m) \/ m.stack = <<>> THEN m
    ELSE IF k = 0 THEN LegalizeOnce(m) ELSE LegalizeSome(LegalizeSome(m, k - 1), k - 1)
RECURSIVE LegalizeAll(_)
LegalizeAll(m) == IF Failed(m) \/ m.stack = <<>> THEN m ELSE LegalizeAll(LegalizeSome(m, 4))
DoJob(m, j) ==
    IF j.job = "segment" THEN InsertConstraint(m, j.a, j.b, j.segment)
    ELSE InsertLocated(m, j.p, Locate(m, At(m, j.p),
            WalkStart(m, IF j.near = 0 THEN m.last ELSE m.vt[j.near]), 0))
RECURSIVE DoJobs(_, _)
DoJobs(m, jobs) ==
    IF Failed(m) \/ jobs = <<>> THEN m
    ELSE IF Len(jobs) = 1 THEN LegalizeAll(DoJob(m, jobs[1]))
    ELSE LET half == Len(jobs) \div 2
         IN  DoJobs(DoJobs(m, SubSeq(jobs, 1, half)), SubSeq(jobs, half + 1, Len(jobs)))
Triangulated(in) == DoJobs(NewMesh(AllPoints(in)), Jobs(in))
Answer(in, m) ==
    IF TooFew(in) # {}
    THEN [fail |-> [kind |-> "polygon", polygon |-> Min(TooFew(in))], triangles |-> <<>>]
    ELSE IF Failed(m) THEN [fail |-> m.fail, triangles |-> <<>>]
    ELSE [fail |-> NoFail, triangles |-> RegionTriangles(m)]
Triangulate(in) == Answer(in, Triangulated(in))
=============================================================================
