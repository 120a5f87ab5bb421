----------------------------- MODULE MCBoolean -----------------------------
(***************************************************************************)
(* Boxes on the lattice and the recipes over them: every way two boxes can *)
(* lie along each axis, up to the order of the axes, under each operation, *)
(* and chains whose targets are not boxes.                                 *)
(***************************************************************************)
EXTENDS Boolean

\* A box of cells lo .. hi - 1: corners numbered by bits, edges along an
\* axis by the bits of the other two, faces by axis and side.
Bit(n, d) == (n \div (IF d = 1 THEN 1 ELSE IF d = 2 THEN 2 ELSE 4)) % 2
CornerOf(k, a, b, c) == 8 * (k - 1) + 1 + a + 2 * b + 4 * c
\* The corner with bit x along the axis, y along the second and z the third.
CornerAt(k, d, x, y, z) ==
    LET at(n) == IF n = d THEN x ELSE IF n = Second(d) THEN y ELSE z
    IN  CornerOf(k, at(1), at(2), at(3))
EdgeAt(k, d, y, z) == 12 * (k - 1) + 4 * (d - 1) + 2 * z + y + 1
BoxPoints(box, k) ==
    [n \in 1 .. 8 |-> [d \in 1 .. 3 |-> 4 * (IF Bit(n - 1, d) = 0 THEN box.lo[d] ELSE box.hi[d])]]
BoxEdges(k) ==
    [n \in 1 .. 12 |-> LET d == ((n - 1) \div 4) + 1
                           y == (n - 1) % 2
                           z == ((n - 1) \div 2) % 2
                       IN  [start |-> CornerAt(k, d, 0, y, z), end |-> CornerAt(k, d, 1, y, z)]]
\* Counter-clockwise about the axis: along the second axis at third 0, along
\* the third at second 1, and back.
BoxFaces(box, k) ==
    [n \in 1 .. 6 |->
        LET d == ((n - 1) \div 2) + 1
            x == (n - 1) % 2
            s == Second(d)
            t == Third(d)
        IN  [axis |-> d, level |-> 4 * (IF x = 0 THEN box.lo[d] ELSE box.hi[d]),
             loops |-> <<<<[edge |-> EdgeAt(k, s, 0, x), forward |-> TRUE],
                           [edge |-> EdgeAt(k, t, x, 1), forward |-> TRUE],
                           [edge |-> EdgeAt(k, s, 1, x), forward |-> FALSE],
                           [edge |-> EdgeAt(k, t, x, 0), forward |-> FALSE]>>>>]]
BoxBody(box, k) ==
    [id |-> k, cells |-> LET along(d) == box.lo[d] .. box.hi[d] - 1
                         IN  along(1) \X along(2) \X along(3),
     shells |-> <<[id |-> k, faces |-> [n \in 1 .. 6 |-> [face |-> 6 * (k - 1) + n, reversed |-> n % 2 = 1]]]>>]
Box(lo, hi) == [lo |-> lo, hi |-> hi]

\* The first box is the target, the others the tools in order.
Recipe(boxes, ops) == [boxes |-> boxes, ops |-> ops, nodes |-> {}]
BoxStore(r) ==
    LET n == DOMAIN r.boxes
    IN  [v |-> Flat([k \in n |-> BoxPoints(r.boxes[k], k)]),
         e |-> Flat([k \in n |-> BoxEdges(k)]),
         f |-> Flat([k \in n |-> BoxFaces(r.boxes[k], k)]),
         shells |-> Len(r.boxes), bodies |-> Len(r.boxes)]
BodyOfBox(r, k) == BoxBody(r.boxes[k], k)

\* The ways two intervals lie, the mirrored ones left out.
Along == <<<<0, 1, 2, 3>>, <<0, 1, 1, 2>>, <<0, 2, 1, 3>>, <<0, 1, 0, 2>>,
           <<0, 2, 0, 1>>, <<1, 2, 0, 3>>, <<0, 3, 1, 2>>, <<0, 1, 0, 1>>>>
TwoBoxes(x, y, z) ==
    <<Box(<<x[1], y[1], z[1]>>, <<x[2], y[2], z[2]>>), Box(<<x[3], y[3], z[3]>>, <<x[4], y[4], z[4]>>)>>
Pairs == {Recipe(TwoBoxes(Along[p[1]], Along[p[2]], Along[p[3]]), <<p[4]>>) :
            p \in {p \in (1 .. 8) \X (1 .. 8) \X (1 .. 8) \X {"fuse", "common", "cut"} :
                     p[1] <= p[2] /\ p[2] <= p[3]}}

\* A corner notched twice, one notch below the other.
Column == Recipe(<<Box(<<0, 0, 0>>, <<2, 2, 2>>), Box(<<0, 0, 1>>, <<1, 1, 2>>), Box(<<0, 0, 0>>, <<1, 1, 1>>)>>,
                 <<"cut", "cut">>)
Chains == {
    Column,
    \* a void, a solid in it, and a void in that
    Recipe(<<Box(<<0, 0, 0>>, <<7, 7, 7>>), Box(<<1, 1, 1>>, <<6, 6, 6>>),
             Box(<<2, 2, 2>>, <<5, 5, 5>>), Box(<<3, 3, 3>>, <<4, 4, 4>>)>>, <<"cut", "fuse", "cut">>),
    \* a void at one end, then cut in two
    Recipe(<<Box(<<0, 0, 0>>, <<5, 3, 3>>), Box(<<1, 1, 1>>, <<2, 2, 2>>), Box(<<3, 0, 0>>, <<4, 3, 3>>)>>,
           <<"cut", "cut">>),
    \* drilled through, then the hole capped by a wider block
    Recipe(<<Box(<<0, 0, 0>>, <<5, 5, 1>>), Box(<<2, 2, 0>>, <<3, 3, 1>>), Box(<<1, 1, 1>>, <<4, 4, 2>>)>>,
           <<"cut", "fuse">>),
    \* notches at opposite corners that meet in a vertex
    Recipe(<<Box(<<0, 0, 0>>, <<2, 2, 2>>), Box(<<0, 0, 1>>, <<1, 1, 2>>), Box(<<1, 1, 0>>, <<2, 2, 1>>)>>,
           <<"cut", "cut">>),
    \* an L cut in two lumps at its corner
    Recipe(<<Box(<<1, 1, 1>>, <<4, 2, 2>>), Box(<<1, 2, 1>>, <<2, 4, 2>>), Box(<<0, 0, 0>>, <<3, 3, 3>>)>>,
           <<"fuse", "cut">>),
    \* drilled through, then the hole plugged half way
    Recipe(<<Box(<<0, 0, 0>>, <<3, 3, 2>>), Box(<<1, 1, 0>>, <<2, 2, 2>>), Box(<<1, 1, 0>>, <<2, 2, 1>>)>>,
           <<"cut", "fuse">>),
    \* cut in two lumps, then joined along an edge only: refused
    Recipe(<<Box(<<0, 0, 0>>, <<3, 1, 1>>), Box(<<1, 0, 0>>, <<2, 1, 1>>), Box(<<1, 1, 0>>, <<2, 2, 1>>)>>,
           <<"cut", "fuse">>)}
\* A box fused of two flush ones, and a cut whose face lies over their seam.
FlushSeam == {
    Recipe(<<Box(<<0, 0, 0>>, <<3, 1, 1>>), Box(<<0, 1, 0>>, <<1, 3, 1>>), Box(<<0, 0, 0>>, <<2, 2, 2>>)>>,
           <<"fuse", "cut">>)}
\* Candidates on a line with tolerances, some naming an operand vertex:
\* every list of up to three, and four in every order that a chain links.
OnALine(x) == [d \in 1 .. 3 |-> IF d = 1 THEN x ELSE 0]
Sampled == [point : {OnALine(0), OnALine(1), OnALine(3)}, tolerance : {0, 1}, existing : {{}, {1}}]
Linked == {f \in [1 .. 4 -> 1 .. 4] : \A j, k \in 1 .. 4 : j # k => f[j] # f[k]}
SomeNodes ==
    UNION {[1 .. n -> Sampled] : n \in 1 .. 3}
    \cup {[k \in 1 .. 4 |-> [point |-> OnALine(2 * f[k]), tolerance |-> 1, existing |-> {}]] : f \in Linked}
Merging == [Recipe(TwoBoxes(Along[1], Along[1], Along[1]), <<"fuse">>) EXCEPT !.nodes = SomeNodes]
AllRecipes == Pairs \cup Chains \cup {Merging}
=============================================================================
