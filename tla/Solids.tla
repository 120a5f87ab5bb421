------------------------------- MODULE Solids -------------------------------
(***************************************************************************)
(* Solids with faces square to the axes, as the boolean reads its operands *)
(* (boolean/faces.rs) and the checker classifies points and nests shells   *)
(* (arris-check, classify.rs and lumps.rs).  Every tolerance is zero and   *)
(* every coordinate a multiple of 4, so the middle of any two of them is   *)
(* an integer.                                                             *)
(*                                                                         *)
(* A store holds v, the points of its vertices; e, edges [start, end]      *)
(* along straight lines; f, faces [axis, level, loops], the normal of the  *)
(* surface being the axis itself and a loop a sequence of [edge, forward]. *)
(* A body is [id, shells, cells]: shells [id, faces], faces used as        *)
(* [face, reversed]; cells are the cells of side 4 it is meant to fill,    *)
(* which no operation reads but to classify a point.                       *)
(***************************************************************************)
EXTENDS Region2

Second(a) == (a % 3) + 1
Third(a) == ((a + 1) % 3) + 1
UV(a, p) == <<p[Second(a)], p[Third(a)]>>
Lift(a, level, uv) ==
    [d \in 1 .. 3 |-> IF d = a THEN level ELSE IF d = Second(a) THEN uv[1] ELSE uv[2]]
Once(seq) ==
    LET first == SelectSeq([i \in DOMAIN seq |-> i], LAMBDA i : \A j \in 1 .. i - 1 : seq[j] # seq[i])
    IN  [k \in DOMAIN first |-> seq[first[k]]]
Flat(seqs) == FlattenSeq(seqs)

-----------------------------------------------------------------------------
(* FaceInfo and EdgeInfo: the faces and edges of an operand, read once.    *)

BoundsOf(points) ==
    [lo |-> [d \in 1 .. 3 |-> Min({p[d] : p \in points})],
     hi |-> [d \in 1 .. 3 |-> Max({p[d] : p \in points})]]
Touching(x, y) == \A d \in 1 .. 3 : x.lo[d] <= y.hi[d] /\ y.lo[d] <= x.hi[d]

FromOf(s, u) == IF u.forward THEN s.e[u.edge].start ELSE s.e[u.edge].end
FaceInfo(s, use) ==
    LET face == s.f[use.face]
        at(u) == s.v[FromOf(s, u)]
        uses == Flat(face.loops)
    IN  [id |-> use.face, reversed |-> use.reversed, axis |-> face.axis, level |-> face.level,
         edges |-> Once([i \in DOMAIN uses |-> uses[i].edge]),
         corners |-> {FromOf(s, u) : u \in ToSet(uses)},
         rings |-> [l \in DOMAIN face.loops |->
                      [i \in DOMAIN face.loops[l] |-> UV(face.axis, at(face.loops[l][i]))]],
         bounds |-> BoundsOf({at(u) : u \in ToSet(uses)})]
EdgeInfo(s, e) ==
    LET p == s.v[s.e[e].start]
        q == s.v[s.e[e].end]
        a == CHOOSE d \in 1 .. 3 : p[d] # q[d]
    IN  [id |-> e, start |-> s.e[e].start, end |-> s.e[e].end, p |-> p, q |-> q, axis |-> a,
         sign |-> IF p[a] < q[a] THEN 1 ELSE -1,
         length |-> IF p[a] < q[a] THEN q[a] - p[a] ELSE p[a] - q[a],
         bounds |-> BoundsOf({p, q})]

FaceUses(body) == Flat([i \in DOMAIN body.shells |-> body.shells[i].faces])
ReadBody(s, body) ==
    LET uses == FaceUses(body)
        faces == [i \in DOMAIN uses |-> FaceInfo(s, uses[i])]
        edges == Once(Flat([i \in DOMAIN faces |-> faces[i].edges]))
    IN  [id |-> body.id, cells |-> body.cells, faces |-> faces,
         edges |-> [i \in DOMAIN edges |-> EdgeInfo(s, edges[i])],
         vertices |-> UNION {{s.e[edges[i]].start, s.e[edges[i]].end} : i \in DOMAIN edges},
         shells |-> body.shells]

\* A point of an edge's line and its parameter, the distance from the start.
TOf(e, p) == (p[e.axis] - e.p[e.axis]) * e.sign
PointAt(e, t) == [d \in 1 .. 3 |-> IF d = e.axis THEN e.p[d] + e.sign * t ELSE e.p[d]]
OnLine(e, p) == \A d \in 1 .. 3 : d = e.axis \/ e.p[d] = p[d]
InRange(e, t) == 0 <= t /\ t <= e.length
VertexAt(e, p) == IF p = e.p THEN e.start ELSE IF p = e.q THEN e.end ELSE 0
Collinear(e, g) == e.axis = g.axis /\ OnLine(e, g.p)

\* FaceDomain::side, and the vertex or edge of the face a boundary point is on.
SideOfFace(f, p) == PointSide(f.rings, UV(f.axis, p))
OnFace(f, p) == p[f.axis] = f.level /\ SideOfFace(f, p) # "outside"

-----------------------------------------------------------------------------
(* Classifier::classify and lumps.                                         *)

CellsAt(p) == {c \in [1 .. 3 -> UNION {{(p[d] \div 4) - 1, p[d] \div 4} : d \in 1 .. 3}] :
                 \A d \in 1 .. 3 : 4 * c[d] <= p[d] /\ p[d] <= 4 * c[d] + 4}
\* Inside, outside, or on the first face that holds the point.
Classify(operand, p) ==
    LET near == CellsAt(p)
        holds == {i \in DOMAIN operand.faces : OnFace(operand.faces[i], p)}
    IN  IF near \subseteq operand.cells THEN [class |-> "inside", face |-> 0]
        ELSE IF near \cap operand.cells = {} THEN [class |-> "outside", face |-> 0]
        ELSE [class |-> "on", face |-> IF holds = {} THEN 0 ELSE operand.faces[Min(holds)].id]

\* shell_volumes: twice the volume a shell encloses, signed.
RingsArea(f) == FoldLeft(LAMBDA a, r : a + TwiceArea(r), 0, f.rings)
Volume(faces) ==
    FoldLeft(LAMBDA a, f : IF f.axis # 1 THEN a
                           ELSE IF f.reversed THEN a - f.level * RingsArea(f)
                           ELSE a + f.level * RingsArea(f), 0, faces)

\* Classifier::contains by a ray along the first axis, from a point no face
\* of the shell is beside.
Surrounds(faces, p) ==
    LET beyond == {i \in DOMAIN faces : /\ faces[i].axis = 1 /\ faces[i].level > p[1]
                                        /\ SideOfFace(faces[i], p) = "inside"}
    IN  Cardinality(beyond) % 2 = 1
ShellPoint(faces) ==
    LET f == faces[1] IN [d \in 1 .. 3 |-> Lift(f.axis, f.level, f.rings[1][1])[d] + 1]
FacesMeet(f, g) ==
    /\ Touching(f.bounds, g.bounds)
    /\ \E uv \in UNION {ToSet(r) : r \in ToSet(f.rings)} : OnFace(g, Lift(f.axis, f.level, uv))

\* nesting: roles, then meetings, then containment; each void to its
\* innermost container, the deepest shell around it.
InnermostOf(within, depth, i) ==
    CHOOSE j \in within[i] : \A k \in within[i] : depth[j] > depth[k] \/ (depth[j] = depth[k] /\ j <= k)
Nesting(shells) ==
    LET n == DOMAIN shells
        volume == [i \in n |-> Volume(shells[i])]
        outer == {i \in n : volume[i] > 0}
        within == [i \in n |-> {j \in n \ {i} : Surrounds(shells[j], ShellPoint(shells[i]))}]
        depth == [i \in n |-> Cardinality(within[i])]
        misplaced == {i \in n :
            IF within[i] = {} THEN i \notin outer
            ELSE (i \in outer) = (InnermostOf(within, depth, i) \in outer)}
        meeting == \E i, j \in n : i < j /\ \E f \in ToSet(shells[i]), g \in ToSet(shells[j]) : FacesMeet(f, g)
        voids(o) == Ascending({v \in n \ outer : InnermostOf(within, depth, v) = o})
        outers == Ascending(outer)
    IN  IF (\E i \in n : volume[i] = 0) \/ outer = {} THEN [fault |-> "roles", lumps |-> <<>>]
        ELSE IF Cardinality(n) = 1 THEN [fault |-> "", lumps |-> <<<<1>>>>]
        ELSE IF meeting THEN [fault |-> "overlap", lumps |-> <<>>]
        ELSE IF misplaced # {} THEN [fault |-> "nesting", lumps |-> <<>>]
        ELSE [fault |-> "", lumps |-> [k \in DOMAIN outers |-> <<outers[k]>> \o voids(outers[k])]]
=============================================================================
