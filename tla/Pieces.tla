------------------------------- MODULE Pieces -------------------------------
(***************************************************************************)
(* The split of one face by the paves on its edges and by the section      *)
(* edges and images that lie in it (arris-ops, boolean/pieces.rs): an      *)
(* arrangement of half-edges in the (u, v) plane of the face, the cycles   *)
(* its walk closes, and the regions they bound.                            *)
(*                                                                         *)
(* Every half-edge is along u or v, so its direction is a quarter: 0 is    *)
(* +u, 1 is +v, 2 is -u and 3 is -v, and a turn is a number of quarters.   *)
(* A vertex of the split is <<"v", id>> of an operand or <<"s", k>> of the *)
(* section; an edge piece is <<"sub", edge, index>> or <<"sec", k, 0>>.    *)
(* A piece of an edge is [edge, start, end, p, q], p and q its end points. *)
(***************************************************************************)
EXTENDS Pave

Quarter(a, b) == IF b[1] > a[1] THEN 0 ELSE IF b[2] > a[2] THEN 1 ELSE IF b[1] < a[1] THEN 2 ELSE 3
Back(q) == (q + 2) % 4
TurnOf(from, to) == LET k == (to - from + 4) % 4
                    IN IF k = 3 THEN -1 ELSE IF k = 2 THEN -2 ELSE k

-----------------------------------------------------------------------------
(* loops: each coedge cut at its paves, a piece with an alias replaced by  *)
(* the piece it stands for; consecutive pieces share a node.               *)

Walked(axis, piece, against) ==
    [vertex |-> IF against THEN piece.end ELSE piece.start,
     at |-> UV(axis, IF against THEN piece.q ELSE piece.p),
     dir |-> IF against THEN Quarter(UV(axis, piece.q), UV(axis, piece.p))
             ELSE Quarter(UV(axis, piece.p), UV(axis, piece.q)),
     edge |-> piece.edge, forward |-> ~ against]
Steps(axis, uses, subs, alias) ==
    Flat([n \in DOMAIN uses |->
      LET own == subs[uses[n].edge]
          against == ~ uses[n].forward
          ordered == IF against THEN Reverse(own) ELSE own
      IN  [i \in DOMAIN ordered |->
             LET e == ordered[i].edge
             IN  IF e \in DOMAIN alias
                 THEN Walked(axis, alias[e].piece, against # alias[e].reversed)
                 ELSE Walked(axis, ordered[i], against)]])

WithLoop(arr, steps) ==
    LET base == Len(arr.nodes)
    IN  [nodes |-> arr.nodes \o [k \in DOMAIN steps |-> [uv |-> steps[k].at, vertex |-> steps[k].vertex]],
         halves |-> arr.halves \o
            [k \in DOMAIN steps |->
               [from |-> base + k, to |-> base + (k % Len(steps)) + 1, dir |-> steps[k].dir,
                edge |-> steps[k].edge, forward |-> steps[k].forward, twin |-> 0]]]

\* image_near: on a face that is nowhere periodic every image of a vertex
\* is at its point, and of equally near ones the least is taken.
Images(arr, vertex) == {k \in DOMAIN arr.nodes : arr.nodes[k].vertex = vertex}
WithNode(arr, vertex, uv) ==
    IF Images(arr, vertex) # {} THEN arr
    ELSE [arr EXCEPT !.nodes = Append(@, [uv |-> uv, vertex |-> vertex])]
NodeOf(arr, vertex) ==
    IF Images(arr, vertex) = {} THEN Len(arr.nodes) ELSE Min(Images(arr, vertex))
\* sections: a pair of half-edges, each the other's twin.
WithSection(arr, axis, piece) ==
    LET placed == WithNode(arr, piece.start, UV(axis, piece.p))
        start == NodeOf(placed, piece.start)
        both == WithNode(placed, piece.end, UV(axis, piece.q))
        end == NodeOf(both, piece.end)
        dir == Quarter(UV(axis, piece.p), UV(axis, piece.q))
        h == Len(arr.halves) + 1
    IN  [both EXCEPT !.halves = @ \o
           <<[from |-> start, to |-> end, dir |-> dir, edge |-> piece.edge, forward |-> TRUE, twin |-> h + 1],
             [from |-> end, to |-> start, dir |-> Back(dir), edge |-> piece.edge, forward |-> FALSE, twin |-> h]>>]

Arrangement(face, subs, sections, alias) ==
    FoldLeft(LAMBDA arr, piece : WithSection(arr, face.axis, piece),
             FoldLeft(LAMBDA arr, l : WithLoop(arr, Steps(face.axis, l, subs, alias)),
                      [nodes |-> <<>>, halves |-> <<>>], face.loops),
             sections)

-----------------------------------------------------------------------------
(* order and next: at each node the half-edges that leave and the stubs of *)
(* the one-sided ones that arrive; two of one direction touch tangentially.*)

Entries(arr, n) ==
    LET h == arr.halves
    IN  {[half |-> k, stub |-> FALSE, dir |-> h[k].dir] : k \in {k \in DOMAIN h : h[k].from = n}}
        \cup {[half |-> k, stub |-> TRUE, dir |-> Back(h[k].dir)]
                : k \in {k \in DOMAIN h : h[k].to = n /\ h[k].twin = 0}}
TangentContact(arr) ==
    \E n \in DOMAIN arr.nodes : \E x, y \in Entries(arr, n) : x # y /\ x.dir = y.dir
\* The next entry clockwise from the direction the half-edge arrives from.
NextEntry(arr, k) ==
    LET back == Back(arr.halves[k].dir)
        at(q) == {x \in Entries(arr, arr.halves[k].to) : x.dir = (back + 4 - q) % 4}
        turns == {q \in 1 .. 3 : at(q) # {}}
    IN  IF turns = {} THEN {} ELSE at(Min(turns))
BrokenWalk(arr) ==
    \E k \in DOMAIN arr.halves : \A x \in NextEntry(arr, k) : x.stub
Next2(arr) == [k \in DOMAIN arr.halves |-> (CHOOSE x \in NextEntry(arr, k) : TRUE).half]

\* cycles: in the order of their first half-edge.
CycleFrom(next, k) ==
    FoldLeft(LAMBDA c, i : IF next[Last(c)] = k THEN c ELSE Append(c, next[Last(c)]), <<k>>, next)
Cycles(next) ==
    FoldLeft(LAMBDA found, k : IF \E c \in ToSet(found) : Contains(c, k) THEN found
                               ELSE Append(found, CycleFrom(next, k)),
             <<>>, [k \in DOMAIN next |-> k])

\* turns: +4 quarters is counter-clockwise, -4 clockwise.
Quarters(arr, c) ==
    FoldLeft(LAMBDA total, i : total + TurnOf(arr.halves[c[i]].dir,
                                              arr.halves[c[(i % Len(c)) + 1]].dir),
             0, [i \in DOMAIN c |-> i])

-----------------------------------------------------------------------------
(* regions and split_face.                                                 *)

RingOf(arr, c) == Ring([i \in DOMAIN c |-> arr.nodes[arr.halves[c[i]].from].uv])
UsesOf(arr, c) == [i \in DOMAIN c |-> [edge |-> arr.halves[c[i]].edge, forward |-> arr.halves[c[i]].forward]]
\* The innermost outer cycle around a hole that does not pass through it.
Size(ring) == LET a == TwiceArea(ring) IN IF a < 0 THEN -a ELSE a
OutermostAround(around, rings) ==                                        \* mutant
    CHOOSE c \in around : \A d \in around : Size(rings[c]) > Size(rings[d]) \/ (Size(rings[c]) = Size(rings[d]) /\ c <= d)
InnermostAround(around, rings) ==
    CHOOSE c \in around : \A d \in around : Size(rings[c]) < Size(rings[d]) \/ (Size(rings[c]) = Size(rings[d]) /\ c <= d)
Broken(fault) == [fault |-> fault, pieces |-> <<>>]
Around(arr, cycles, rings, outer, h) ==
    LET node == arr.halves[cycles[h][1]].from
    IN  {c \in outer : /\ node \notin {arr.halves[k].from : k \in ToSet(cycles[c])}
                       /\ WindingOf(Segments(rings[c]), arr.nodes[node].uv) # 0}
PieceOf(arr, cycles, rings, loops) ==
    LET own == [l \in DOMAIN loops |-> rings[loops[l]]]
    IN  [loops |-> [l \in DOMAIN loops |-> UsesOf(arr, cycles[loops[l]])],
         rings |-> own, inside |-> InteriorPoint(own)]
WithPoints(pieces) ==
    IF \E n \in DOMAIN pieces : pieces[n].inside = {} THEN Broken("no interior")
    ELSE [fault |-> "",
          pieces |-> [n \in DOMAIN pieces |->
             [loops |-> pieces[n].loops, rings |-> pieces[n].rings,
              uv |-> CHOOSE p \in pieces[n].inside : TRUE]]]
\* A piece is an outer cycle and the holes it is the innermost around.
WithHoles(arr, cycles, rings, outer, around) ==
    IF \E h \in DOMAIN around : around[h] = {} THEN Broken("hole")
    ELSE WithPoints([n \in DOMAIN outer |->
            PieceOf(arr, cycles, rings,
                    <<outer[n]>> \o Ascending({h \in DOMAIN around : InnermostAround(around[h], rings) = outer[n]}))])
RegionsOf(arr, cycles, rings, quarters) ==
    LET outer == {c \in DOMAIN cycles : quarters[c] = 4}
        holes == {c \in DOMAIN cycles : quarters[c] = -4}
    IN  IF outer \cup holes # DOMAIN cycles THEN Broken("turn")
        ELSE WithHoles(arr, cycles, rings, Ascending(outer),
                       [h \in holes |-> Around(arr, cycles, rings, outer, h)])
RegionsOfCycles(arr, cycles) ==
    RegionsOf(arr, cycles, [c \in DOMAIN cycles |-> RingOf(arr, cycles[c])],
              [c \in DOMAIN cycles |-> Quarters(arr, cycles[c])])
Regions(arr) == RegionsOfCycles(arr, Cycles(Next2(arr)))

Split(arr) == IF TangentContact(arr) THEN Broken("tangent contact")
              ELSE IF BrokenWalk(arr) THEN Broken("walk")
              ELSE Regions(arr)
SplitFace(face, subs, touched, sections, alias) ==
    LET edges == {u.edge : u \in UNION {ToSet(l) : l \in ToSet(face.loops)}}
    IN  [untouched |-> sections = <<>> /\ edges \cap touched = {}]
        @@ Split(Arrangement(face, subs, sections, alias))
=============================================================================
