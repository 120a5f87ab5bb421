------------------------------ MODULE Boolean ------------------------------
(***************************************************************************)
(* fuse, common and cut of two solids (arris-ops, boolean/result.rs and    *)
(* rebuild.rs): the operands read, their pave model built, every face      *)
(* split, each piece classified against the other operand and kept by the  *)
(* selection table, the kept pieces grouped into shells, ordered lump by   *)
(* lump, assembled by ids kept or appended, and recorded.  One action is   *)
(* one pass; a recipe applies operations one after another, the body made  *)
(* by one being the target of the next.                                    *)
(***************************************************************************)
EXTENDS Pieces

CONSTANTS
    Recipes,      \* [ops, nodes, ...]: operations in order, and lists of
                  \* [point, tolerance, existing] for Components to label
    StoreOf(_),   \* the model a recipe begins with
    BodyOf(_, _)  \* its first target, and the tool of each step after it

ASSUME BooleanAssumption == \A r \in Recipes : \A nodes \in r.nodes : nodes \in Seq(Candidate)

VARIABLES
    recipe, step,   \* the recipe being applied and its step
    phase,          \* the pass to run next
    store, target,  \* the model and the body of the last result
    read,           \* the operands, read once
    i,              \* Interferences
    build,          \* the vertices, sub-edges and aliases of the result
    splits,         \* split_face of each face of both operands
    kept,           \* the pieces that survive
    shells,         \* their indices in kept, shell by shell
    made,           \* what assembly made
    record,         \* the provenance
    outcome         \* "", "built", a refusal or an internal fault

vars == <<recipe, step, phase, store, target, read, i, build, splits, kept, shells, made, record, outcome>>

Op == recipe.ops[step]

-----------------------------------------------------------------------------
(* The selection table.                                                    *)

SelectUnflipped(op, side, inside) ==                                     \* mutant
    IF inside = (op = "common" \/ (op = "cut" /\ side = 2)) THEN {FALSE} ELSE {}
Select(op, side, inside) ==
    CASE op = "fuse" /\ ~ inside -> {FALSE}
      [] op = "common" /\ inside -> {FALSE}
      [] op = "cut" /\ side = 1 /\ ~ inside -> {FALSE}
      [] op = "cut" /\ side = 2 /\ inside -> {TRUE}
      [] OTHER -> {}
SelectOn(op, side, agree) == side = 1 /\ (IF op = "cut" THEN ~ agree ELSE agree)
Policy(op, side) == IF op = "cut" /\ side = 2 THEN "regenerate" ELSE "reuse"
SideOfVertex(r, v) == IF v \in r[1].vertices THEN 1 ELSE 2

-----------------------------------------------------------------------------
(* realise_vertices, sub_edges, aliases.                                   *)

\* The representative of merged operand vertices is one of a reused operand.
Representative(op, r, existing) ==
    LET reused == SelectSeq(existing, LAMBDA v : Policy(op, SideOfVertex(r, v)) = "reuse")
    IN  IF reused = <<>> THEN existing[1] ELSE reused[1]
Realise(op, r, vertices) ==
    LET rep(k) == Representative(op, r, vertices[k].existing)
        others(k) == IF vertices[k].existing = <<>> THEN {} ELSE ToSet(vertices[k].existing) \ {rep(k)}
    IN  [vrefs |-> [k \in DOMAIN vertices |->
                      IF vertices[k].existing = <<>> THEN <<"s", k>> ELSE <<"v", rep(k)>>],
         merged |-> [v \in UNION {others(k) : k \in DOMAIN vertices} |->
                      Min({k \in DOMAIN vertices : v \in others(k)})]]
VrefOfOperand(rv, v) == IF v \in DOMAIN rv.merged THEN rv.vrefs[rv.merged[v]] ELSE <<"v", v>>

SubEdges(r, paves, rv, id) ==
    LET e == EdgeOf(r, id)
        stops == <<[v |-> VrefOfOperand(rv, e.start), p |-> e.p]>>
                 \o [k \in DOMAIN paves[id] |->
                       [v |-> rv.vrefs[paves[id][k].vertex], p |-> PointAt(e, paves[id][k].t)]]
                 \o <<[v |-> VrefOfOperand(rv, e.end), p |-> e.q]>>
    IN  [n \in 1 .. Len(stops) - 1 |->
           [edge |-> <<"sub", id, n>>, start |-> stops[n].v, end |-> stops[n + 1].v,
            p |-> stops[n].p, q |-> stops[n + 1].p]]
TouchedEnds(r, rv, id) ==
    LET e == EdgeOf(r, id)
    IN  VrefOfOperand(rv, e.start) # <<"v", e.start>> \/ VrefOfOperand(rv, e.end) # <<"v", e.end>>
Alias(blocks, subs) ==
    [ref \in {<<"sub", b.b[1], b.b[2]>> : b \in ToSet(blocks)} |->
        LET b == CHOOSE b \in ToSet(blocks) : <<"sub", b.b[1], b.b[2]>> = ref
        IN  [piece |-> subs[b.a[1]][b.a[2]], reversed |-> b.reversed]]
Built(op, r, x) ==
    LET rv == Realise(op, r, x.vertices)
        ids == DOMAIN x.paves
        subs == [id \in ids |-> SubEdges(r, x.paves, rv, id)]
    IN  [vrefs |-> rv.vrefs, merged |-> rv.merged, subs |-> subs,
         touched |-> {id \in ids : x.paves[id] # <<>> \/ TouchedEnds(r, rv, id)}
                     \cup {b.b[1] : b \in ToSet(x.blocks)},
         alias |-> Alias(x.blocks, subs)]

\* edges_by_face: the section edges on a face, then the images.
OnFaceOf(x, b, f) ==
    LET ks == SelectSeq([k \in DOMAIN x.sections |-> k],
                        LAMBDA k : f \in {x.pairs[x.sections[k].pair].a, x.pairs[x.sections[k].pair].b})
        ims == SelectSeq(x.images, LAMBDA im : im.on = f)
        section(k) == LET s == x.sections[k]
                      IN [edge |-> <<"sec", k, 0>>, start |-> b.vrefs[s.start], end |-> b.vrefs[s.end],
                          p |-> x.vertices[s.start].point, q |-> x.vertices[s.end].point]
    IN  [n \in DOMAIN ks |-> section(ks[n])] \o [n \in DOMAIN ims |-> b.subs[ims[n].edge][ims[n].index]]

-----------------------------------------------------------------------------
(* select: each piece classified and kept or dropped; the pieces of a face *)
(* that survive listed in split order.                                     *)

Work(r) == [n \in DOMAIN r[1].faces |-> [side |-> 1, face |-> r[1].faces[n]]]
           \o [n \in DOMAIN r[2].faces |-> [side |-> 2, face |-> r[2].faces[n]]]
Partner(x, side, f, g) ==
    \E p \in ToSet(x.pairs) : p.coincident /\ (IF side = 1 THEN p.a = f /\ p.b = g ELSE p.a = g /\ p.b = f)
\* Whether a piece survives, flipped or not, and the face it stands for.
Verdict(op, r, x, w, piece) ==
    LET class == Classify(r[3 - w.side], Lift(w.face.axis, w.face.level, piece.uv))
        g == Face(r, 3 - w.side, class.face)
        drop == [keep |-> FALSE, flip |-> FALSE, standsFor |-> 0, on |-> FALSE, fault |-> ""]
        flips == Select(op, w.side, class.class = "inside")
    IN  IF class.class # "on"
        THEN IF flips = {} THEN drop
             ELSE [drop EXCEPT !.keep = TRUE, !.flip = TRUE \in flips]
        ELSE IF ~ Partner(x, w.side, w.face.id, class.face) THEN [drop EXCEPT !.fault = "unsupported"]
        ELSE IF SelectOn(op, w.side, w.face.reversed = g.reversed)
        THEN [drop EXCEPT !.keep = TRUE, !.standsFor = class.face]
        ELSE [drop EXCEPT !.on = TRUE]

\* boundary_key: the operand edges, then the faces of pairs, ascending.
BoundaryKey(s, x, loops) ==
    LET edges == {u.edge : u \in UNION {ToSet(l) : l \in ToSet(loops)}}
        face(f) == Len(s.e) + f
    IN  Ascending({e[2] : e \in {e \in edges : e[1] = "sub"}}
                  \cup UNION {{face(x.pairs[x.sections[e[2]].pair].a), face(x.pairs[x.sections[e[2]].pair].b)}
                                : e \in {e \in edges : e[1] = "sec"}})
Before(k, l) ==
    \/ \E n \in DOMAIN l : /\ n \notin DOMAIN k \/ k[n] < l[n]
                           /\ \A j \in 1 .. n - 1 : j \in DOMAIN k /\ k[j] = l[j]
SplitOrder(s, x, list, pieces) ==
    LET key == [n \in ToSet(pieces) |-> BoundaryKey(s, x, list[n].loops)]
    IN  SortSeq(pieces, LAMBDA k, l :
            \/ Before(key[k], key[l])
            \/ key[k] = key[l] /\ (\/ list[k].uv[1] < list[l].uv[1]
                                   \/ list[k].uv[1] = list[l].uv[1] /\ list[k].uv[2] < list[l].uv[2]))

Kept(op, all, w, split, verdicts, ns) ==
    all.list \o
        [k \in DOMAIN ns |->
           [side |-> w.side, face |-> w.face.id, axis |-> w.face.axis, level |-> w.face.level,
            whole |-> split.untouched /\ Policy(op, w.side) = "reuse",
            reversed |-> w.face.reversed # verdicts[ns[k]].flip,
            loops |-> split.pieces[ns[k]].loops, uv |-> split.pieces[ns[k]].uv,
            standsFor |-> verdicts[ns[k]].standsFor]]
WithKept(s, x, all, w, split, verdicts, list) ==
    [list |-> list,
     of |-> Append(all.of, [face |-> w.face.id, untouched |-> split.untouched,
                            pieces |-> SplitOrder(s, x, list, [k \in 1 .. Len(list) - Len(all.list) |-> Len(all.list) + k])]),
     droppedOn |-> all.droppedOn \/ \E n \in DOMAIN verdicts : verdicts[n].on,
     fault |-> IF all.fault # "" THEN all.fault
               ELSE IF \E n \in DOMAIN verdicts : verdicts[n].fault # "" THEN "unsupported" ELSE ""]
WithVerdicts(op, s, x, all, w, split, verdicts) ==
    WithKept(s, x, all, w, split, verdicts,
             Kept(op, all, w, split, verdicts,
                  SelectSeq([n \in DOMAIN split.pieces |-> n], LAMBDA n : verdicts[n].keep)))
SelectFace(op, s, r, x, all, w, split) ==
    WithVerdicts(op, s, x, all, w, split,
                 [n \in DOMAIN split.pieces |-> Verdict(op, r, x, w, split.pieces[n])])
SelectAll(op, s, r, x, all) ==
    FoldLeft(LAMBDA k, n : SelectFace(op, s, r, x, k, Work(r)[n], all[n]),
             [list |-> <<>>, of |-> <<>>, droppedOn |-> FALSE, fault |-> ""],
             [n \in DOMAIN all |-> n])

-----------------------------------------------------------------------------
(* shells: the pieces joined by the edges they share, and the refusals.    *)

UsesIn(piece) == Flat(piece.loops)
EdgesIn(piece) == {u.edge : u \in ToSet(UsesIn(piece))}
Shells(list) ==
    LET edges == [k \in DOMAIN list |-> EdgesIn(list[k])]
        classes == Joined(Len(list), LAMBDA j, k : edges[j] \cap edges[k] # {})
    IN  [n \in 1 .. Cardinality(classes) |->
           Ascending(CHOOSE c \in classes : Min(c) = Ascending({Min(d) : d \in classes})[n])]
EdgeEnds(x, b, ref) ==
    IF ref[1] = "sub" THEN <<b.subs[ref[2]][ref[3]].start, b.subs[ref[2]][ref[3]].end>>
    ELSE <<b.vrefs[x.sections[ref[2]].start], b.vrefs[x.sections[ref[2]].end]>>

OverusedEdge(list) ==
    LET uses == Flat([k \in DOMAIN list |-> UsesIn(list[k])])
    IN  \E ref \in {u.edge : u \in ToSet(uses)} :
            Cardinality({n \in DOMAIN uses : uses[n].edge = ref}) > 2
SharedVertex(x, b, list, groups) ==
    LET reached(g) == UNION {ToSet(EdgeEnds(x, b, ref)) : ref \in UNION {EdgesIn(list[k]) : k \in ToSet(g)}}
    IN  \E g, h \in DOMAIN groups : g # h /\ reached(groups[g]) \cap reached(groups[h]) # {}
\* pinched: a vertex whose corners close into more than one fan.
NeverPinched(x, b, list) == FALSE                                        \* mutant
Pinched(x, b, list) ==
    LET loops == Flat([k \in DOMAIN list |-> list[k].loops])
        into(u) == EdgeEnds(x, b, u.edge)[IF u.forward THEN 2 ELSE 1]
        corners == Flat([l \in DOMAIN loops |-> [n \in DOMAIN loops[l] |->
                     [at |-> into(loops[l][n]),
                      edges |-> {loops[l][n].edge, loops[l][(n % Len(loops[l])) + 1].edge}]]])
        fans(v) == LET at == SelectSeq(corners, LAMBDA c : c.at = v)
                   IN  Joined(Len(at), LAMBDA j, k : at[j].edges \cap at[k].edges # {})
    IN  \E v \in {c.at : c \in ToSet(corners)} : Cardinality(fans(v)) > 1
Refusal(x, b, k, groups) ==
        IF k.list = <<>> THEN IF k.droppedOn THEN "ZeroThickness" ELSE "Empty"
        ELSE IF OverusedEdge(k.list) \/ SharedVertex(x, b, k.list, groups) \/ Pinched(x, b, k.list)
        THEN "NonManifold" ELSE ""

-----------------------------------------------------------------------------
(* rebuild::assembly and the builder: entities kept by id or appended.     *)

\* Section vertices, then operand vertices, each ascending.
InOrder(refs) ==
    LET ids(tag) == Ascending({v[2] : v \in {v \in refs : v[1] = tag}})
    IN  [n \in DOMAIN ids("s") |-> <<"s", ids("s")[n]>>] \o [n \in DOMAIN ids("v") |-> <<"v", ids("v")[n]>>]
VertexNew(op, r, v) == v[1] = "s" \/ Policy(op, SideOfVertex(r, v[2])) = "regenerate"
EdgeNew(op, r, b, ref) ==
    \/ ref[1] = "sec"
    \/ ref[2] \in b.touched
    \/ Policy(op, SideOfEdge(r, ref[2])) = "regenerate"

Assembled(op, s, r, x, b, list, order) ==
    LET usedEdges == UNION {EdgesIn(list[k]) : k \in DOMAIN list}
        usedVertices == UNION {ToSet(EdgeEnds(x, b, ref)) : ref \in usedEdges}
        newVertices == SelectSeq(InOrder(usedVertices), LAMBDA v : VertexNew(op, r, v))
        vertexId(v) == IF VertexNew(op, r, v)
                       THEN Len(s.v) + (CHOOSE n \in DOMAIN newVertices : newVertices[n] = v) ELSE v[2]
        subRefs(side) == Flat([n \in DOMAIN r[side].edges |->
                           [k \in DOMAIN b.subs[r[side].edges[n].id] |-> <<"sub", r[side].edges[n].id, k>>]])
        refs == subRefs(1) \o subRefs(2) \o [k \in DOMAIN x.sections |-> <<"sec", k, 0>>]
        newEdges == SelectSeq(refs, LAMBDA ref : ref \in usedEdges /\ EdgeNew(op, r, b, ref))
        edgeId(ref) == IF EdgeNew(op, r, b, ref)
                       THEN Len(s.e) + (CHOOSE n \in DOMAIN newEdges : newEdges[n] = ref) ELSE ref[2]
        pieces == Flat(order)
        added == SelectSeq(pieces, LAMBDA k : ~ list[k].whole)
        faceId(k) == IF list[k].whole THEN list[k].face
                     ELSE Len(s.f) + (CHOOSE n \in DOMAIN added : added[n] = k)
        faceOf(p) == [axis |-> p.axis, level |-> p.level,
                      loops |-> [l \in DOMAIN p.loops |-> [n \in DOMAIN p.loops[l] |->
                                   [edge |-> edgeId(p.loops[l][n].edge), forward |-> p.loops[l][n].forward]]]]
        point(v) == IF v[1] = "s" THEN x.vertices[v[2]].point ELSE s.v[v[2]]
    IN  [vertices |-> [v \in usedVertices |-> vertexId(v)],
         edges |-> [ref \in usedEdges |-> edgeId(ref)],
         faces |-> [k \in DOMAIN list |-> faceId(k)],
         store |->
           [v |-> s.v \o [n \in DOMAIN newVertices |-> point(newVertices[n])],
            e |-> s.e \o [n \in DOMAIN newEdges |->
                            [start |-> vertexId(EdgeEnds(x, b, newEdges[n])[1]),
                             end |-> vertexId(EdgeEnds(x, b, newEdges[n])[2])]],
            f |-> s.f \o [n \in DOMAIN added |-> faceOf(list[added[n]])],
            shells |-> s.shells + Len(order), bodies |-> s.bodies + 1],
         shells |-> [n \in DOMAIN order |->
            [id |-> s.shells + n,
             faces |-> [m \in DOMAIN order[n] |->
                          [face |-> faceId(order[n][m]), reversed |-> list[order[n][m]].reversed]]]],
         body |-> s.bodies + 1]

\* lump_order: assembled once into a copy, the shells put lump by lump.
AsGrouped(op, s, r, x, b, list, groups) == [fault |-> "", shells |-> groups]   \* mutant
NestingOf(scratch) ==
    Nesting([n \in DOMAIN scratch.shells |->
               [m \in DOMAIN scratch.shells[n].faces |-> FaceInfo(scratch.store, scratch.shells[n].faces[m])]])
ByLump(groups, found) ==
    LET order == Flat(found.lumps)
    IN  [fault |-> found.fault, shells |-> [n \in DOMAIN order |-> groups[order[n]]]]
LumpOrder(op, s, r, x, b, list, groups) ==
    ByLump(groups, NestingOf(Assembled(op, s, r, x, b, list, groups)))

-----------------------------------------------------------------------------
(* write_provenance and the records boolean() adds: rows                   *)
(* <<relation, input, output>>, a deleted shape its own output.            *)

Shape(kind, id) == <<kind, id>>
Row(relation, in, out) == <<relation, in, out>>
RowsOf(policy, in, images) ==
    IF policy = "regenerate"
    THEN <<Row("deleted", in, in)>> \o [n \in DOMAIN images |-> Row("generated", in, images[n])]
    ELSE IF images = <<>> THEN <<Row("deleted", in, in)>>
    ELSE IF images = <<in>> THEN <<>>
    ELSE [n \in DOMAIN images |-> Row("modified", in, images[n])]
OwnPieceOnly(b, ref) == ref                                              \* mutant
StoodForBy(b, ref) == IF ref \in DOMAIN b.alias THEN b.alias[ref].piece.edge ELSE ref
OperandRows(op, r, b, k, m, side) ==
    LET policy == Policy(op, side)
        vref(v) == VrefOfOperand(b, v)
        vertexRows(v) == RowsOf(policy, Shape("vertex", v),
            IF vref(v) \in DOMAIN m.vertices THEN <<Shape("vertex", m.vertices[vref(v)])>> ELSE <<>>)
        edgeRows(e) ==
          LET refs == [n \in DOMAIN b.subs[e] |-> StoodForBy(b, b.subs[e][n].edge)]
              held == SelectSeq(refs, LAMBDA ref : ref \in DOMAIN m.edges)
          IN  RowsOf(policy, Shape("edge", e), Once([n \in DOMAIN held |-> Shape("edge", m.edges[held[n]])]))
        faceRows(f) ==
          LET of == SelectSeq(k.of, LAMBDA o : o.face = f)[1].pieces
          IN  RowsOf(policy, Shape("face", f), [n \in DOMAIN of |-> Shape("face", m.faces[of[n]])])
        vs == Ascending(r[side].vertices)
        rows(seq, Op1(_)) == Flat([n \in DOMAIN seq |-> Op1(seq[n])])
    IN  rows(vs, vertexRows)
        \o rows([n \in DOMAIN r[side].edges |-> r[side].edges[n].id], edgeRows)
        \o rows([n \in DOMAIN r[side].faces |-> r[side].faces[n].id], faceRows)
        \o (IF policy = "regenerate"
            THEN [n \in DOMAIN r[side].shells |->
                    Row("deleted", Shape("shell", r[side].shells[n].id), Shape("shell", r[side].shells[n].id))]
                 \o <<Row("deleted", Shape("body", r[side].id), Shape("body", r[side].id))>>
            ELSE <<Row("modified", Shape("body", r[side].id), Shape("body", m.body))>>)

\* A result shell comes from the shells of the reused operands its pieces
\* came from, or, made of a cut tool's alone, is generated from the tool's.
ShellRows(op, r, list, m, groups) ==
    LET shellOf(side, f) ==
          (CHOOSE x \in ToSet(r[side].shells) : \E u \in ToSet(x.faces) : u.face = f).id
        from(n, side) == Ascending({shellOf(side, list[p].face) : p \in {p \in ToSet(groups[n]) : list[p].side = side}})
        reused(n) == Flat([side \in 1 .. 2 |-> IF Policy(op, side) = "reuse" THEN from(n, side) ELSE <<>>])
        rows(n) == IF reused(n) = <<>>
                   THEN LET all == from(n, 1) \o from(n, 2)
                        IN [j \in DOMAIN all |-> Row("generated", Shape("shell", all[j]), Shape("shell", m.shells[n].id))]
                   ELSE [j \in DOMAIN reused(n) |->
                          Row("modified", Shape("shell", reused(n)[j]), Shape("shell", m.shells[n].id))]
        reached == UNION {ToSet(reused(n)) : n \in DOMAIN groups}
        gone(side) == IF Policy(op, side) # "reuse" THEN <<>>
                      ELSE SelectSeq([n \in DOMAIN r[side].shells |-> r[side].shells[n].id],
                                     LAMBDA id : id \notin reached)
    IN  Flat([n \in DOMAIN groups |-> rows(n)])
        \o Flat([side \in 1 .. 2 |-> [n \in DOMAIN gone(side) |->
                   Row("deleted", Shape("shell", gone(side)[n]), Shape("shell", gone(side)[n]))]])
StandsForRows(list, m) ==
    Flat([k \in DOMAIN list |->
            IF list[k].standsFor = 0 THEN <<>>
            ELSE <<Row("generated", Shape("face", list[k].standsFor), Shape("face", m.faces[k]))>>])
VertexRows(x, b, m) ==
    LET new == SelectSeq([k \in DOMAIN x.vertices |-> k],
                         LAMBDA k : b.vrefs[k][1] = "s" /\ b.vrefs[k] \in DOMAIN m.vertices)
        out(k) == Shape("vertex", m.vertices[b.vrefs[k]])
        hits(k) == Ascending(x.vertices[k].hits)
        crossings(k) == Ascending(x.vertices[k].crossings)
        rows(k) == Flat([n \in DOMAIN hits(k) |->
                          <<Row("generated", Shape("edge", x.hits[hits(k)[n]].edge), out(k)),
                            Row("generated", Shape("face", x.hits[hits(k)[n]].face), out(k))>>])
                   \o Flat([n \in DOMAIN crossings(k) |->
                          <<Row("generated", Shape("edge", x.crossings[crossings(k)[n]].a), out(k)),
                            Row("generated", Shape("edge", x.crossings[crossings(k)[n]].b), out(k))>>])
    IN  Flat([n \in DOMAIN new |-> rows(new[n])])
SectionRows(x, m) ==
    LET ks == SelectSeq([k \in DOMAIN x.sections |-> k], LAMBDA k : <<"sec", k, 0>> \in DOMAIN m.edges)
        out(k) == Shape("edge", m.edges[<<"sec", k, 0>>])
        pair(k) == x.pairs[x.sections[k].pair]
    IN  Flat([n \in DOMAIN ks |-> <<Row("generated", Shape("face", pair(ks[n]).a), out(ks[n])),
                                    Row("generated", Shape("face", pair(ks[n]).b), out(ks[n]))>>])
Recorded(op, r, x, b, k, m, groups) ==
    OperandRows(op, r, b, k, m, 1) \o OperandRows(op, r, b, k, m, 2)
    \o ShellRows(op, r, k.list, m, groups) \o StandsForRows(k.list, m)
    \o VertexRows(x, b, m) \o SectionRows(x, m)

-----------------------------------------------------------------------------
(* The passes.                                                             *)

NoInterference == [pairs |-> <<>>, hits |-> <<>>, crossings |-> <<>>, same |-> {}, coincident |-> <<>>,
                   vertices |-> <<>>, of |-> <<>>, paves |-> <<>>, sections |-> <<>>,
                   images |-> <<>>, blocks |-> <<>>]
NoBuild == [vrefs |-> <<>>, merged |-> <<>>, subs |-> <<>>, touched |-> {}, alias |-> <<>>]
NoKept == [list |-> <<>>, of |-> <<>>, droppedOn |-> FALSE, fault |-> ""]

Init ==
    /\ recipe \in Recipes
    /\ step = 1 /\ phase = "open" /\ outcome = ""
    /\ store = StoreOf(recipe) /\ target = BodyOf(recipe, 1)
    /\ read = <<>> /\ i = NoInterference /\ build = NoBuild /\ splits = <<>> /\ kept = NoKept
    /\ shells = <<>> /\ made = <<>> /\ record = <<>>

\* The end of a pass: on to the next, or over with a fault or a refusal.
Then(next, fault) ==
    /\ phase' = IF fault = "" THEN next ELSE "done"
    /\ outcome' = fault

Open ==
    /\ phase = "open"
    /\ read' = <<ReadBody(store, target), ReadBody(store, BodyOf(recipe, step + 1))>>
    /\ i' = NoInterference /\ build' = NoBuild /\ splits' = <<>> /\ kept' = NoKept
    /\ shells' = <<>> /\ made' = <<>> /\ record' = <<>>
    /\ Then("meet", "")
    /\ UNCHANGED <<recipe, step, store, target>>
Meet ==
    /\ phase = "meet"
    /\ \E pairs \in {FacePairs(read)} : \E edgePairs \in {EdgePairs(read, pairs)} :
          i' = [i EXCEPT !.pairs = pairs, !.hits = Hits(store, read), !.coincident = CoincidentEdges(read),
                          !.crossings = Crossings(edgePairs), !.same = SameCurve(edgePairs)]
    /\ Then("merge", "")
    /\ UNCHANGED <<recipe, step, store, target, read, build, splits, kept, shells, made, record>>
MergeAll ==
    /\ phase = "merge"
    /\ \E merged \in {Merge(store, i.hits, i.crossings)} :
          i' = [i EXCEPT !.vertices = merged.vertices, !.of = merged.of,
                          !.paves = PavesOfHits(read, i.hits, i.crossings, merged)]
    /\ Then("section", "")
    /\ UNCHANGED <<recipe, step, store, target, read, build, splits, kept, shells, made, record>>
Section ==
    /\ phase = "section"
    /\ i' = [i EXCEPT !.sections = Sections(read, i), !.paves = PavesOfCoincident(read, i)]
    /\ Then("place", "")
    /\ UNCHANGED <<recipe, step, store, target, read, build, splits, kept, shells, made, record>>
Place ==
    /\ phase = "place"
    /\ \E placed \in {Coincident(read, i)} :
           /\ i' = [i EXCEPT !.images = placed.images, !.blocks = placed.blocks]
           /\ Then("realise", placed.fault)
    /\ UNCHANGED <<recipe, step, store, target, read, build, splits, kept, shells, made, record>>
RealiseAll ==
    /\ phase = "realise"
    /\ build' = Built(Op, read, i)
    /\ Then("split", "")
    /\ UNCHANGED <<recipe, step, store, target, read, i, splits, kept, shells, made, record>>
SplitAll ==
    /\ phase = "split"
    /\ \E work \in {Work(read)} :
          splits' = [n \in DOMAIN work |->
                       SplitFace(store.f[work[n].face.id], build.subs, build.touched,
                                 OnFaceOf(i, build, work[n].face.id), build.alias)]
    /\ LET bad == SelectSeq(splits', LAMBDA x : x.fault # "")
       IN  Then("select", IF bad = <<>> THEN "" ELSE bad[1].fault)
    /\ UNCHANGED <<recipe, step, store, target, read, i, build, kept, shells, made, record>>
SelectPieces ==
    /\ phase = "select"
    /\ kept' = SelectAll(Op, store, read, i, splits)
    /\ Then("group", kept'.fault)
    /\ UNCHANGED <<recipe, step, store, target, read, i, build, splits, shells, made, record>>
Group ==
    /\ phase = "group"
    /\ shells' = Shells(kept.list)
    /\ Then(IF Len(shells') > 1 THEN "order" ELSE "assemble", Refusal(i, build, kept, shells'))
    /\ UNCHANGED <<recipe, step, store, target, read, i, build, splits, kept, made, record>>
Order ==
    /\ phase = "order"
    /\ \E found \in {LumpOrder(Op, store, read, i, build, kept.list, shells)} :
          shells' = found.shells /\ Then("assemble", found.fault)
    /\ UNCHANGED <<recipe, step, store, target, read, i, build, splits, kept, made, record>>

\* The cells a result is meant to fill: what classify reads of it later.
CellsOf(op, a, b) == CASE op = "fuse" -> a \cup b [] op = "common" -> a \cap b [] op = "cut" -> a \ b
Assemble ==
    /\ phase = "assemble"
    /\ \E m \in {Assembled(Op, store, read, i, build, kept.list, shells)} :
           /\ made' = [shells |-> m.shells, body |-> m.body]
           /\ store' = m.store
           /\ target' = [id |-> m.body, shells |-> m.shells, cells |-> CellsOf(Op, read[1].cells, read[2].cells)]
           /\ record' = Recorded(Op, read, i, build, kept, m, shells)
    /\ phase' = "done" /\ outcome' = "built"
    /\ UNCHANGED <<recipe, step, read, i, build, splits, kept, shells>>
Continue ==
    /\ phase = "done" /\ step < Len(recipe.ops)
    /\ step' = step + 1
    /\ Then("open", "")
    /\ UNCHANGED <<recipe, store, target, read, i, build, splits, kept, shells, made, record>>
Ended == phase = "done" /\ step = Len(recipe.ops) /\ UNCHANGED vars

Next == Open \/ Meet \/ MergeAll \/ Section \/ Place \/ RealiseAll \/ SplitAll \/ SelectPieces
        \/ Group \/ Order \/ Assemble \/ Continue \/ Ended
Spec == Init /\ [][Next]_vars

-----------------------------------------------------------------------------
(* Properties.                                                             *)

\* Every pass leaves values of the shapes the next reads: each pave and
\* section end names a section vertex, each piece is longer than nothing,
\* each kept piece is of a face of its operand.
TypeOK ==
    /\ phase \in {"open", "meet", "merge", "section", "place", "realise", "split", "select",
                  "group", "order", "assemble", "done"}
    /\ \A e \in DOMAIN i.paves : \A n \in DOMAIN i.paves[e] : i.paves[e][n].vertex \in DOMAIN i.vertices
    /\ \A x \in ToSet(i.sections) : {x.start, x.end} \subseteq DOMAIN i.vertices /\ x.start # x.end
    /\ \A e \in DOMAIN build.subs : \A x \in ToSet(build.subs[e]) : x.p # x.q /\ x.start # x.end
    /\ \A k \in ToSet(kept.list) : \E f \in ToSet(read[k.side].faces) : f.id = k.face

Done == phase = "done"
Result == [faces |-> Flat([n \in DOMAIN made.shells |->
                       [m \in DOMAIN made.shells[n].faces |-> FaceInfo(store, made.shells[n].faces[m])]])]

\* The unit squares of a face, each with the side its solid is not on.
SquaresOf(f) ==
    LET range(d) == (f.bounds.lo[d] \div 4) .. (f.bounds.hi[d] \div 4) - 1
    IN  {[axis |-> f.axis, level |-> f.level, u |-> at[1], v |-> at[2]]
           : at \in {uv \in range(Second(f.axis)) \X range(Third(f.axis)) :
                 PointSide(f.rings, <<4 * uv[1] + 2, 4 * uv[2] + 2>>) = "inside"}}
Oriented(f) == {<<s, f.reversed>> : s \in SquaresOf(f)}
\* The squares between a cell of the set and one that is not.
BoundaryOf(cells) ==
    LET square(c, d, level) == [axis |-> d, level |-> 4 * level, u |-> c[Second(d)], v |-> c[Third(d)]]
    IN  UNION {{<<square(c, d, c[d] + 1), FALSE>> : c \in {c \in cells : [c EXCEPT ![d] = @ + 1] \notin cells}}
               \cup {<<square(c, d, c[d]), TRUE>> : c \in {c \in cells : [c EXCEPT ![d] = @ - 1] \notin cells}}
                 : d \in 1 .. 3}

\* A boolean's result is the regularised set operation: its faces cover the
\* boundary of the union, intersection or difference of the two solids,
\* facing out, and no unit square of it twice.
ResultIsTheSet ==
    (Done /\ outcome = "built") =>
        LET fs == Result.faces
        IN  /\ UNION {Oriented(f) : f \in ToSet(fs)} = BoundaryOf(target.cells)
            /\ \A m, n \in DOMAIN fs : m # n => SquaresOf(fs[m]) \cap SquaresOf(fs[n]) = {}

\* Whether a set of cells is bounded by a manifold: round every lattice point
\* the cells of the set, and those not of it, are joined through their faces.
JoinedCells(cells) ==
    \/ cells = {}
    \/ LET near(c, d) == Cardinality({k \in 1 .. 3 : c[k] # d[k]}) = 1
           grown(S) == S \cup {c \in cells : \E d \in S : near(c, d)}
           one == {CHOOSE c \in cells : TRUE}
       IN  FoldLeft(LAMBDA S, n : grown(S), one, <<1, 2, 3, 4, 5, 6, 7>>) = cells
Manifold(cells) ==
    LET points == UNION {{[d \in 1 .. 3 |-> c[d] + k[d]] : k \in [1 .. 3 -> 0 .. 1]} : c \in cells}
        round(p) == {[d \in 1 .. 3 |-> p[d] - k[d]] : k \in [1 .. 3 -> 0 .. 1]}
    IN  \A p \in points : JoinedCells(round(p) \cap cells) /\ JoinedCells(round(p) \ cells)

\* A boolean refuses exactly the results it cannot hold: nothing left, with
\* no thickness when the two boundaries share a face's worth, and a solid
\* that touches itself along an edge or at a vertex.  It never faults.
RefusesExactly ==
    Done =>
        LET cells == CellsOf(Op, read[1].cells, read[2].cells)
            shared == {x[1] : x \in BoundaryOf(read[1].cells)} \cap {x[1] : x \in BoundaryOf(read[2].cells)}
        IN  outcome = (IF cells = {} THEN IF shared = {} THEN "Empty" ELSE "ZeroThickness"
                       ELSE IF ~ Manifold(cells) THEN "NonManifold" ELSE "built")

\* Every edge of a result is used twice, both times by faces of one shell
\* and in opposite directions as the faces are oriented.
EdgesPairUp ==
    (Done /\ outcome = "built") =>
        LET uses == Flat([n \in DOMAIN made.shells |-> Flat([m \in DOMAIN made.shells[n].faces |->
                      LET use == made.shells[n].faces[m]
                          walk == Flat(store.f[use.face].loops)
                      IN  [k \in DOMAIN walk |-> [edge |-> walk[k].edge, shell |-> n,
                                                  forward |-> walk[k].forward # use.reversed]]])])
        IN  \A k \in DOMAIN uses :
                LET same == {l \in DOMAIN uses \ {k} : uses[l].edge = uses[k].edge}
                IN  /\ Cardinality(same) = 1
                    /\ \A l \in same : uses[l].shell = uses[k].shell /\ uses[l].forward # uses[k].forward

\* The shells of a result come lump by lump, each lump - a component of the
\* solid - its outer shell and then the shells of its voids.
LumpDiameter == 24   \* no cell of a lump is farther than this from another
LumpOfShell(faces, cells) ==
    LET f == faces[1]
        s == CHOOSE s \in SquaresOf(f) : TRUE
        at == Lift(f.axis, (f.level \div 4) - (IF f.reversed THEN 0 ELSE 1), <<s.u, s.v>>)
        beside(c) == UNION {{[c EXCEPT ![d] = @ - 1], [c EXCEPT ![d] = @ + 1]} : d \in 1 .. 3}
        grown(S) == S \cup (UNION {beside(c) : c \in S} \cap cells)
    IN  FoldLeft(LAMBDA S, n : grown(S), {at}, [n \in 1 .. LumpDiameter |-> n])
LumpsInOrder ==
    (Done /\ outcome = "built" /\ Len(made.shells) > 1) =>
        LET faces == [n \in DOMAIN made.shells |->
                        [m \in DOMAIN made.shells[n].faces |-> FaceInfo(store, made.shells[n].faces[m])]]
            lump == [n \in DOMAIN faces |-> LumpOfShell(faces[n], target.cells)]
        IN  \A n \in DOMAIN faces :
                IF Volume(faces[n]) > 0 THEN \A m \in 1 .. n - 1 : lump[m] # lump[n]
                ELSE n > 1 /\ lump[n - 1] = lump[n]
ClosedShellsInOrder == TypeOK /\ EdgesPairUp /\ LumpsInOrder

\* The pieces of a face tile it, and none of them crosses the boundary of
\* the other operand: one point of a piece decides it all.
PiecesTile ==
    phase = "select" =>
        \A n \in DOMAIN splits :
            LET w == Work(read)[n]
                other == read[3 - w.side].cells
                here(p) == SquaresOf([axis |-> w.face.axis, level |-> w.face.level,
                                      rings |-> p.rings, bounds |-> w.face.bounds])
                above(s) == Lift(s.axis, s.level \div 4, <<s.u, s.v>>) \in other
                below(s) == Lift(s.axis, (s.level \div 4) - 1, <<s.u, s.v>>) \in other
                ps == splits[n].pieces
            IN  /\ UNION {here(p) : p \in ToSet(ps)} = SquaresOf(w.face)
                /\ \A k, l \in DOMAIN ps : k # l => here(ps[k]) \cap here(ps[l]) = {}
                /\ \A p \in ToSet(ps) : \A s, t \in here(p) : above(s) = above(t) /\ below(s) = below(t)

\* What a shape of the store occupies, and what a body reaches.
EdgesOf(s, ids) == UNION {{u.edge : u \in UNION {ToSet(l) : l \in ToSet(s.f[f].loops)}} : f \in ids}
ClosureOf(s, groups) ==
    LET faces == {u.face : u \in UNION {ToSet(x.faces) : x \in ToSet(groups)}}
        edges == EdgesOf(s, faces)
    IN  {Shape("face", f) : f \in faces} \cup {Shape("edge", e) : e \in edges}
        \cup {Shape("vertex", v) : v \in UNION {{s.e[e].start, s.e[e].end} : e \in edges}}
OnEdge(p, e) == LET x == EdgeInfo(store, e) IN OnLine(x, p) /\ InRange(x, TOf(x, p))
Stored(f) == FaceInfo(store, [face |-> f, reversed |-> FALSE])
Within(in, out) ==
    CASE in[1] = "vertex" /\ out[1] = "vertex" -> store.v[in[2]] = store.v[out[2]]
      [] in[1] = "edge" /\ out[1] = "vertex" -> OnEdge(store.v[out[2]], in[2])
      [] in[1] = "edge" /\ out[1] = "edge" ->
            \A v \in {store.e[out[2]].start, store.e[out[2]].end} : OnEdge(store.v[v], in[2])
      [] in[1] = "face" /\ out[1] = "vertex" -> OnFace(Stored(in[2]), store.v[out[2]])
      [] in[1] = "face" /\ out[1] = "edge" ->
            \A v \in {store.e[out[2]].start, store.e[out[2]].end} : OnFace(Stored(in[2]), store.v[v])
      [] in[1] = "face" /\ out[1] = "face" -> SquaresOf(Stored(out[2])) \subseteq SquaresOf(Stored(in[2]))
      [] OTHER -> in[1] = out[1]

\* A record is true and complete: its inputs are the operands', its outputs
\* the result's and lie in what they are said to come from; an entity of an
\* operand is kept by id with no row, or deleted, or modified, and is only
\* deleted when nothing of the result lies in it; every entity of the result
\* that is no operand's has an origin.
RowsFor(x) == SelectSeq(record, LAMBDA r : r[2] = x)
RecordAccounts ==
    (Done /\ outcome = "built") =>
        LET out == ClosureOf(store, made.shells)
            in == <<ClosureOf(store, read[1].shells), ClosureOf(store, read[2].shells)>>
            solid == {"vertex", "edge", "face"}
            rows == SelectSeq(record, LAMBDA r : r[2][1] \in solid)
        IN  /\ \A r \in ToSet(rows) : r[2] \in in[1] \cup in[2]
            /\ \A r \in ToSet(rows) : r[1] # "deleted" => r[3] \in out /\ Within(r[2], r[3])
            /\ \A side \in 1 .. 2 : \A x \in in[side] :
                 LET is(relation) == \E r \in ToSet(RowsFor(x)) : r[1] = relation
                     alike == {y \in out : y[1] = x[1] /\ Within(x, y)}
                 IN  IF Policy(Op, side) = "regenerate" THEN is("deleted") /\ x \notin out
                     ELSE /\ is("deleted") => x \notin out /\ ~ is("modified") /\ (x[1] # "face" => alike = {})
                          /\ is("modified") \/ is("deleted") \/ x \in out
                          /\ x[1] # "face" => \A y \in alike : y = x \/ Row("modified", x, y) \in ToSet(record)
            /\ \A y \in out \ (in[1] \cup in[2]) : \E r \in ToSet(rows) : r[1] # "deleted" /\ r[3] = y

\* What a boolean shares with its operands: a vertex where a reused operand
\* has one is that operand's, and a face the other operand does not reach is,
\* if it survives, the same face, with its edges; nothing of a cut's tool is
\* shared (RecordAccounts).
KeptById ==
    (Done /\ outcome = "built") =>
        LET out == ClosureOf(store, made.shells)
            reused == {side \in 1 .. 2 : Policy(Op, side) = "reuse"}
            old == UNION {read[side].vertices : side \in reused}
            squares == UNION {SquaresOf(f) : f \in ToSet(Result.faces)}
        IN  /\ \A y \in {y \in out : y[1] = "vertex"} :
                 (\E v \in old : store.v[v] = store.v[y[2]]) => y[2] \in old
            /\ \A side \in reused : \A f \in ToSet(read[side].faces) :
                 /\ \A g \in ToSet(read[3 - side].faces) : ~ Touching(f.bounds, g.bounds)
                 /\ SquaresOf(f) \cap squares # {}
                 => Shape("face", f.id) \in out
RecordIsTrue == RecordAccounts /\ KeptById

\* The section vertices are the classes of the transitive closure of "the
\* same within a tolerance", whatever order the candidates come in: the class
\* of one is what no set closed under sameness that holds it can leave out,
\* and its label the least of it.
Whole(nodes, S) == \A j \in S, k \in DOMAIN nodes : Same(nodes[j], nodes[k]) => k \in S
ClassOf(nodes, k) ==
    {j \in DOMAIN nodes : \A S \in SUBSET DOMAIN nodes : k \in S /\ Whole(nodes, S) => j \in S}
ComponentsAreClasses ==
    phase = "merge" => \A nodes \in recipe.nodes : \A k \in DOMAIN nodes :
        Components(nodes)[k] = Min(ClassOf(nodes, k))
=============================================================================
