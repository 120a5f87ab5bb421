-------------------------------- MODULE Pave --------------------------------
(***************************************************************************)
(* The pave model of a boolean (arris-ops, boolean/pave.rs): what two      *)
(* solids meet in - face pairs, edges piercing faces, edges of coincident  *)
(* faces crossing - merged into section vertices, the paves they put on    *)
(* the edges, section curves cut into section edges, and the pieces of     *)
(* edges that lie in a face (images) or along an edge (common blocks) of   *)
(* the other operand.                                                      *)
(*                                                                         *)
(* Two planes cross or coincide: nothing touches, no curve closes, no face *)
(* is singular, so the passes about those have nothing to do.  `read` is   *)
(* the pair of operands read once.                                         *)
(***************************************************************************)
EXTENDS Solids

ById(list, id) == list[CHOOSE n \in DOMAIN list : list[n].id = id]
Edge(read, side, id) == ById(read[side].edges, id)
Face(read, side, id) == ById(read[side].faces, id)
SideOfEdge(read, id) == IF \E n \in DOMAIN read[1].edges : read[1].edges[n].id = id THEN 1 ELSE 2
EdgeOf(read, id) == Edge(read, SideOfEdge(read, id), id)

-----------------------------------------------------------------------------
(* face_pairs, hits, crossings.                                            *)

FacePairs(read) ==
    Flat([i \in DOMAIN read[1].faces |->
      Flat([j \in DOMAIN read[2].faces |->
        LET f == read[1].faces[i]
            g == read[2].faces[j]
        IN  IF Touching(f.bounds, g.bounds)
            THEN <<[a |-> f.id, b |-> g.id, coincident |-> f.axis = g.axis]>> ELSE <<>>])])

Landing(f, p, s) ==
    LET v == {v \in f.corners : s.v[v] = p} IN IF v = {} THEN 0 ELSE Min(v)
\* A hit in the edge's range and in the face or on its boundary.
HitsOf(s, e, f) ==
    LET p == [d \in 1 .. 3 |-> IF d = f.axis THEN f.level ELSE e.p[d]]
    IN  IF e.axis = f.axis /\ Touching(e.bounds, f.bounds) /\ OnFace(f, p)
        THEN <<[edge |-> e.id, face |-> f.id, t |-> TOf(e, p), point |-> p,
                at |-> VertexAt(e, p), on |-> Landing(f, p, s)]>>
        ELSE <<>>
Across(read, Op(_, _)) ==
    Flat([k \in 1 .. 2 |->
      Flat([i \in DOMAIN read[k].edges |->
        Flat([j \in DOMAIN read[3 - k].faces |-> Op(read[k].edges[i], read[3 - k].faces[j])])])])
Hits(s, read) ==
    SortSeq(Across(read, LAMBDA e, f : HitsOf(s, e, f)),
            LAMBDA x, y : \/ x.edge < y.edge
                          \/ x.edge = y.edge /\ (x.t < y.t \/ (x.t = y.t /\ x.face < y.face)))
\* The edges that lie in the plane of a face of the other operand.
CoincidentEdges(read) ==
    Across(read, LAMBDA e, f :
        IF e.axis # f.axis /\ e.p[f.axis] = f.level /\ Touching(e.bounds, f.bounds)
        THEN <<<<e.id, f.id>>>> ELSE <<>>)

EdgePairs(read, pairs) ==
    Flat([k \in DOMAIN pairs |->
      IF ~ pairs[k].coincident THEN <<>>
      ELSE LET fa == Face(read, 1, pairs[k].a)
               fb == Face(read, 2, pairs[k].b)
           IN  Flat([i \in DOMAIN fa.edges |->
                 Flat([j \in DOMAIN fb.edges |->
                   LET ea == Edge(read, 1, fa.edges[i])
                       eb == Edge(read, 2, fb.edges[j])
                   IN  IF Touching(ea.bounds, eb.bounds) THEN <<<<ea, eb>>>> ELSE <<>>])])])
SameCurve(edgePairs) == {<<x[1].id, x[2].id>> : x \in {x \in ToSet(edgePairs) : Collinear(x[1], x[2])}}
Crossings(edgePairs) ==
    LET crossing(x) ==
          LET p == [d \in 1 .. 3 |-> IF d = x[1].axis THEN x[2].p[d] ELSE x[1].p[d]]
          IN  [a |-> x[1].id, ta |-> TOf(x[1], p), b |-> x[2].id, tb |-> TOf(x[2], p), point |-> p,
               existing |-> {VertexAt(x[1], p), VertexAt(x[2], p)} \ {0}]
        found == SelectSeq(edgePairs, LAMBDA x : x[1].axis # x[2].axis)
    IN  SortSeq(Once([i \in DOMAIN found |-> crossing(found[i])]),
                LAMBDA x, y : \/ x.a < y.a
                              \/ x.a = y.a /\ (x.ta < y.ta \/ (x.ta = y.ta /\ x.b < y.b)))

-----------------------------------------------------------------------------
(* merge: the section vertices are the components of the candidate points  *)
(* under "the same within a tolerance".                                    *)

\* A point that may be a section vertex, its tolerance, the vertices it names.
Candidate == [point : [1 .. 3 -> Int], tolerance : Nat, existing : SUBSET Nat]
Square(n) == n * n
SquareDistance(p, q) == Square(p[1] - q[1]) + Square(p[2] - q[2]) + Square(p[3] - q[3])
Same(x, y) ==
    \/ SquareDistance(x.point, y.point) <= Square(x.tolerance + y.tolerance)
    \/ x.existing \cap y.existing # {}
\* The classes of 1 .. n under the closure of a symmetric relation.
Joined(n, meet(_, _)) ==
    FoldLeft(LAMBDA classes, k :
                LET met == {c \in classes : \E j \in c : meet(j, k)}
                IN  (classes \ met) \cup {{k} \cup UNION met},
             {}, [k \in 1 .. n |-> k])
\* components: a forest of parents; node by node, the roots of a node and of
\* the later ones that are the same as it are put under the least of them.
Root(parent, k) == LET up[j \in DOMAIN parent] == IF parent[j] = j THEN j ELSE up[parent[j]] IN up[k]
JoinNodes(parent, ks) == [k \in DOMAIN parent |-> IF k \in ks THEN Min(ks) ELSE parent[k]]   \* mutant
JoinRoots(parent, ks) ==
    LET roots == {Root(parent, k) : k \in ks}
    IN  [k \in DOMAIN parent |-> IF k \in roots THEN Min(roots) ELSE parent[k]]
Components(nodes) ==
    LET n == DOMAIN nodes
        same(j) == {j} \cup {k \in n : k > j /\ Same(nodes[j], nodes[k])}
        \* A function, so that TLC has one forest at hand before it makes the next.
        joined(j) == [parent \in [n -> n] |-> JoinRoots(parent, same(j))]
        after[j \in 0 .. Len(nodes)] ==
            IF j = 0 THEN [k \in n |-> k] ELSE joined(j)[after[j - 1]]
        last == after[Len(nodes)]
    IN  [k \in n |-> Root(last, k)]

Candidates(hits, crossings) ==
    [i \in DOMAIN hits |-> [point |-> hits[i].point, tolerance |-> 0,
                            existing |-> {hits[i].at, hits[i].on} \ {0}]]
    \o [i \in DOMAIN crossings |-> [point |-> crossings[i].point, tolerance |-> 0,
                                    existing |-> crossings[i].existing]]
\* labels: with every operand vertex a candidate names beside it.
Labels(s, candidates) ==
    LET named == Ascending(UNION {c.existing : c \in ToSet(candidates)})
        nodes == candidates \o [i \in DOMAIN named |->
                   [point |-> s.v[named[i]], tolerance |-> 0, existing |-> {named[i]}]]
    IN  SubSeq(Components(nodes), 1, Len(candidates))

\* A vertex is numbered by its first member; existing ones, ascending.
Merge(s, hits, crossings) ==
    LET candidates == Candidates(hits, crossings)
        label == Labels(s, candidates)
        firsts == Ascending(ToSet(label))
        members(k) == {i \in DOMAIN label : label[i] = firsts[k]}
        existing(k) == UNION {candidates[i].existing : i \in members(k)}
    IN  [vertices |-> [k \in DOMAIN firsts |->
            [point |-> IF existing(k) = {} THEN candidates[firsts[k]].point ELSE s.v[Min(existing(k))],
             hits |-> {i \in members(k) : i <= Len(hits)},
             crossings |-> {i - Len(hits) : i \in {i \in members(k) : i > Len(hits)}},
             existing |-> Ascending(existing(k))]],
         of |-> [i \in DOMAIN label |-> CHOOSE k \in DOMAIN firsts : firsts[k] = label[i]]]

-----------------------------------------------------------------------------
(* pave_edges, pave_coincident_edges.                                      *)

AtEnd(e, v) == {e.start, e.end} \cap ToSet(v.existing) # {}
\* One pave per vertex per edge, ascending by t.
Paved(list, t, k) ==
    IF \E x \in ToSet(list) : x.vertex = k THEN list
    ELSE SortSeq(Append(list, [t |-> t, vertex |-> k]), LAMBDA x, y : x.t < y.t)
PaveAll(paves, wanted) ==
    FoldLeft(LAMBDA p, w : [p EXCEPT ![w[1]] = Paved(@, w[2], w[3])], paves, wanted)
NoPaves(read) ==
    [e \in {e.id : e \in ToSet(read[1].edges) \cup ToSet(read[2].edges)} |-> <<>>]

PavesOfHits(read, hits, crossings, merged) ==
    LET hit(i) == LET h == hits[i]
                      k == merged.of[i]
                  IN  IF h.at # 0 \/ AtEnd(EdgeOf(read, h.edge), merged.vertices[k]) THEN <<>>
                      ELSE <<<<h.edge, h.t, k>>>>
        end(k, side, id, t) ==
          IF AtEnd(Edge(read, side, id), merged.vertices[k]) THEN <<>> ELSE <<<<id, t, k>>>>
        crossing(i) == LET x == crossings[i]
                           k == merged.of[Len(hits) + i]
                       IN  end(k, 1, x.a, x.ta) \o end(k, 2, x.b, x.tb)
    IN  PaveAll(NoPaves(read), Flat([i \in DOMAIN hits |-> hit(i)])
                               \o Flat([i \in DOMAIN crossings |-> crossing(i)]))

\* Every edge of a coincident face, or in a face of the other operand, paved
\* by every vertex inside it.
PavesOfCoincident(read, i) ==
    LET shared == {k \in DOMAIN i.pairs : i.pairs[k].coincident}
        edges == UNION {ToSet(Face(read, 1, i.pairs[k].a).edges) : k \in shared}
                 \cup UNION {ToSet(Face(read, 2, i.pairs[k].b).edges) : k \in shared}
                 \cup {x[1] : x \in ToSet(i.coincident)}
        inside(e, v) == /\ OnLine(e, v.point) /\ ~ AtEnd(e, v)
                        /\ 0 < TOf(e, v.point) /\ TOf(e, v.point) < e.length
        wanted(id) == LET e == EdgeOf(read, id)
                          on == SelectSeq([k \in DOMAIN i.vertices |-> k],
                                          LAMBDA k : inside(e, i.vertices[k]))
                      IN  [n \in DOMAIN on |-> <<id, TOf(e, i.vertices[on[n]].point), on[n]>>]
        ids == Ascending(edges)
    IN  PaveAll(i.paves, Flat([n \in DOMAIN ids |-> wanted(ids[n])]))

-----------------------------------------------------------------------------
(* sections: each pair's line cut at the vertices on it, the blocks inside *)
(* both faces and along no edge of either kept as section edges.           *)

Halfway(p, q) == [d \in 1 .. 3 |-> (p[d] + q[d]) \div 2]
StrictlyInside(e, lo, hi, p) == OnLine(e, p) /\ lo < TOf(e, p) /\ TOf(e, p) < hi
InsideBoth(f, g, p) == SideOfFace(f, p) = "inside" /\ SideOfFace(g, p) = "inside"
SectionsOfPair(read, i, k) ==
    LET f == Face(read, 1, i.pairs[k].a)
        g == Face(read, 2, i.pairs[k].b)
        axis == CHOOSE d \in 1 .. 3 : d \notin {f.axis, g.axis}
        on == SelectSeq([n \in DOMAIN i.vertices |-> n],
                LAMBDA n : i.vertices[n].point[f.axis] = f.level /\ i.vertices[n].point[g.axis] = g.level)
        at(n) == i.vertices[n].point
        paves == SortSeq(on, LAMBDA x, y : at(x)[axis] < at(y)[axis])
        edges == [n \in DOMAIN f.edges |-> Edge(read, 1, f.edges[n])]
                 \o [n \in DOMAIN g.edges |-> Edge(read, 2, g.edges[n])]
        middle(n) == Halfway(at(paves[n]), at(paves[n + 1]))
        isAnEdge(n) == \E e \in ToSet(edges) : e.axis = axis /\ StrictlyInside(e, 0, e.length, middle(n))
        blocks == [n \in 1 .. Len(paves) - 1 |->
                     [pair |-> k, axis |-> axis, start |-> paves[n], end |-> paves[n + 1], n |-> n]]
        kept == SelectSeq(blocks, LAMBDA b : ~ isAnEdge(b.n) /\ InsideBoth(f, g, middle(b.n)))
    IN  [n \in DOMAIN kept |->
           [pair |-> k, axis |-> axis, start |-> kept[n].start, end |-> kept[n].end]]
Sections(read, i) ==
    Flat([k \in DOMAIN i.pairs |-> IF i.pairs[k].coincident THEN <<>> ELSE SectionsOfPair(read, i, k)])

-----------------------------------------------------------------------------
(* coincident: the pieces of edges in, or along an edge of, a face.        *)

\* An end as the section vertex it is merged into, if it is.
Canonical(i, v) ==
    LET at == {k \in DOMAIN i.vertices : v \in ToSet(i.vertices[k].existing)}
    IN  IF at = {} THEN <<"v", v>> ELSE <<"s", Min(at)>>
BlocksOf(i, e) ==
    LET paves == i.paves[e.id]
        stops == <<[t |-> 0, end |-> Canonical(i, e.start)]>>
                 \o [k \in DOMAIN paves |-> [t |-> paves[k].t, end |-> <<"s", paves[k].vertex>>]]
                 \o <<[t |-> e.length, end |-> Canonical(i, e.end)]>>
    IN  [k \in 1 .. Len(stops) - 1 |->
           [index |-> k, lo |-> stops[k].t, hi |-> stops[k + 1].t,
            start |-> stops[k].end, end |-> stops[k + 1].end,
            middle |-> Halfway(PointAt(e, stops[k].t), PointAt(e, stops[k + 1].t))]]

AtMostOne(list) == IF list = <<>> THEN <<>> ELSE <<Head(list)>>

\* matching_block: the piece of an edge of the other face that a piece is,
\* or the fault where two overlap and are not the same.
Meets(e, b, g, c) ==
    StrictlyInside(g, c.lo, c.hi, b.middle) \/ StrictlyInside(e, b.lo, b.hi, c.middle)
Equal(e, b, g, c) ==
    /\ StrictlyInside(g, c.lo, c.hi, b.middle) /\ StrictlyInside(e, b.lo, b.hi, c.middle)
    /\ IF e.sign = g.sign THEN b.start = c.start /\ b.end = c.end
       ELSE b.start = c.end /\ b.end = c.start
MatchesOn(i, e, b, g) ==
    LET met == SelectSeq(BlocksOf(i, g), LAMBDA c : Meets(e, b, g, c))
    IN  [c \in DOMAIN met |-> [edge |-> g.id, block |-> met[c], reversed |-> e.sign # g.sign,
                               fault |-> ~ Equal(e, b, g, met[c])]]
Matching(read, i, side, e, b, other) ==
    LET same(g) == IF side = 1 THEN <<e.id, g>> \in i.same ELSE <<g, e.id>> \in i.same
        edges == SelectSeq(other.edges, same)
    IN  AtMostOne(Flat([n \in DOMAIN edges |-> MatchesOn(i, e, b, Edge(read, 3 - side, edges[n]))]))

\* Each piece of each edge of both faces of each coincident pair: a common
\* block, an image, or nothing.
Nothing == [images |-> <<>>, blocks |-> <<>>, fault |-> ""]
Fault(what) == [Nothing EXCEPT !.fault = what]
Image(k, e, b, other) ==
    IF SideOfFace(other, b.middle) # "inside" THEN Nothing
    ELSE [Nothing EXCEPT !.images = <<[pair |-> k, edge |-> e.id, index |-> b.index, on |-> other.id]>>]
Placed(k, side, e, other, b, match) ==
    IF match = <<>> THEN Image(k, e, b, other)
    ELSE IF match[1].fault THEN Fault("common block")
    ELSE IF side = 1 THEN Nothing
    ELSE [Nothing EXCEPT !.blocks = <<[a |-> <<match[1].edge, match[1].block.index>>,
                                       b |-> <<e.id, b.index>>, reversed |-> match[1].reversed]>>]
PlacedOf(read, i, k, side, e, other, blocks) ==
    [j \in DOMAIN blocks |-> Placed(k, side, e, other, blocks[j], Matching(read, i, side, e, blocks[j], other))]
PlacedAll(read, i, k, side, edges, other) ==
    Flat([n \in DOMAIN edges |-> PlacedOf(read, i, k, side, edges[n], other, BlocksOf(i, edges[n]))])
OfFaces(read, i, k, f, g) ==
    PlacedAll(read, i, k, 1, [n \in DOMAIN f.edges |-> Edge(read, 1, f.edges[n])], g)
    \o PlacedAll(read, i, k, 2, [n \in DOMAIN g.edges |-> Edge(read, 2, g.edges[n])], f)
OfPair(read, i, k) ==
    IF ~ i.pairs[k].coincident THEN <<>>
    ELSE OfFaces(read, i, k, Face(read, 1, i.pairs[k].a), Face(read, 2, i.pairs[k].b))

\* An edge in a face of the other operand that no face of its own is
\* coincident with: its pieces inside are images there.
PairsOfEdge(read, i, side, edge, face) ==
    LET owners == {f.id : f \in {f \in ToSet(read[side].faces) : Contains(f.edges, edge)}}
    IN  {k \in DOMAIN i.pairs :
           IF side = 1 THEN i.pairs[k].a \in owners /\ i.pairs[k].b = face
           ELSE i.pairs[k].b \in owners /\ i.pairs[k].a = face}
InFace(blocks, k, e, b, other, match) ==
    IF match = <<>> THEN Image(k, e, b, other)
    ELSE IF match[1].fault \/ \A y \in ToSet(blocks) :
              {y.a, y.b} # {<<e.id, b.index>>, <<match[1].edge, match[1].block.index>>}
    THEN Fault("no common block")
    ELSE Nothing
OfEdge(read, i, blocks, side, e, other, with) ==
    LET pieces == BlocksOf(i, e)
    IN  IF with = {} \/ \E k \in with : i.pairs[k].coincident THEN <<>>
        ELSE [j \in DOMAIN pieces |->
                InFace(blocks, Min(with), e, pieces[j], other, Matching(read, i, side, e, pieces[j], other))]
OfEdges(read, i, blocks) ==
    Flat([n \in DOMAIN i.coincident |->
            LET edge == i.coincident[n][1]
                face == i.coincident[n][2]
                side == SideOfEdge(read, edge)
            IN  OfEdge(read, i, blocks, side, Edge(read, side, edge), Face(read, 3 - side, face),
                       PairsOfEdge(read, i, side, edge, face))])

\* A common block is recorded once, with the first piece of a found for it.
FirstOfEach(found) ==
    LET first == SelectSeq([n \in DOMAIN found |-> n], LAMBDA n : \A m \in 1 .. n - 1 : found[m].b # found[n].b)
    IN  [n \in DOMAIN first |-> found[first[n]]]
Together(all, blocks) ==
    LET faults == SelectSeq(all, LAMBDA x : x.fault # "")
    IN  [images |-> Flat([n \in DOMAIN all |-> all[n].images]), blocks |-> blocks,
         fault |-> IF faults = <<>> THEN "" ELSE faults[1].fault]
WithEdges(read, i, ofPairs, blocks) == Together(ofPairs \o OfEdges(read, i, blocks), blocks)
WithPairs(read, i, ofPairs) ==
    WithEdges(read, i, ofPairs, FirstOfEach(Flat([n \in DOMAIN ofPairs |-> ofPairs[n].blocks])))
Coincident(read, i) == WithPairs(read, i, Flat([k \in DOMAIN i.pairs |-> OfPair(read, i, k)]))
=============================================================================
