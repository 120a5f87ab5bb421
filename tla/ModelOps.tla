----------------------------- MODULE ModelOps ------------------------------
(***************************************************************************)
(* The model of arris-topo (crates/arris-topo/src/model.rs, walk.rs): five *)
(* entity arenas and the derived adjacency, as pure operators on a model   *)
(* record `m`.  Geometry arenas are left out: they hold no references and  *)
(* behave as an arena with no index.                                       *)
(*                                                                         *)
(* Entities, with the data the adjacency and the walk read:                *)
(*   edge   [start, end]            vertex ids                             *)
(*   face   <<loop, ...>>           a loop is a sequence of edge ids       *)
(*   shell  <<face id, ...>>                                               *)
(*   body   [shells, edges, verts]  sequences of ids; the free ones last   *)
(* The index lists are the code's `Indices`: a vector per kind, whose      *)
(* position slot+1 belongs to a slot; the vector may be longer than the    *)
(* arena, because a refilled slot gets one more empty list at its end.     *)
(***************************************************************************)
EXTENDS Slots, Order, SequencesExt

Kinds == {"vertex", "edge", "face", "shell", "body"}

Fields == Kinds \cup {"vertex_edges", "edge_uses", "face_shells"}

EmptyModel == [field \in Fields |-> IF field \in Kinds THEN EmptyArena ELSE <<>>]

Has(m, kind, id) == Resolves(m[kind], id)
Get(m, kind, id) == m[kind].val[id.slot]
LiveOf(m, kind) == LiveIds(m[kind])

-----------------------------------------------------------------------------
(* What the entity in slot i contributes to the list of one slot: the      *)
(* places in it that refer to that slot, as <<i, ...>>.  A reference that  *)
(* does not resolve contributes nothing.                                   *)

\* The places of a face's coedges, and the edges they use.
Places(f) == UNION {{<<li, ci>> : ci \in DOMAIN f[li]} : li \in DOMAIN f}
EdgesOf(f) == {f[p[1]][p[2]] : p \in Places(f)}

EndsAt(m, e, slot) == \E v \in {e.start, e.end} : v.slot = slot /\ Has(m, "vertex", v)
EndPlaces(m, i, e, slot) == IF EndsAt(m, e, slot) THEN {<<i, 0, 0>>} ELSE {}
UsePlaces(m, i, f, slot) ==
    LET here(e) == e.slot = slot /\ Has(m, "edge", e)
    IN  {<<i, p[1], p[2]>> : p \in {p \in Places(f) : here(f[p[1]][p[2]])}}
ShellPlaces(m, i, sh, slot) ==
    {<<i, k, 0>> : k \in {k \in DOMAIN sh : sh[k].slot = slot /\ Has(m, "face", sh[k])}}

\* Places in the order the loops of the code meet them become entries.
Owners(a, P) == LET o == InOrder(P) IN [n \in DOMAIN o |-> IdOf(a, o[n][1])]
Uses(a, P) == LET o == InOrder(P) IN
    [n \in DOMAIN o |-> [face |-> IdOf(a, o[n][1]), at |-> <<o[n][2], o[n][3]>>]]

-----------------------------------------------------------------------------
(* Appends.                                                                *)

PushVertex(m, v) ==
    [m EXCEPT !.vertex = Push(@, v), !.vertex_edges = Append(@, <<>>)]

\* An edge is listed at each vertex once: a closed edge finds itself at the
\* tail of the list when its second end is indexed.
PushEdge(m, e) ==
    LET id == NextId(m.edge)
        listed(l) == l # <<>> /\ Last(l) = id
    IN  [m EXCEPT
           !.edge = Push(@, e),
           !.vertex_edges = [s \in DOMAIN @ |->
               IF EndsAt(m, e, s - 1) /\ ~ listed(@[s]) THEN Append(@[s], id)
                                                       ELSE @[s]],
           !.edge_uses = Append(@, <<>>)]

\* Mutant of PushFace: the uses of the outer loop only.
PushFaceOuter(m, f) ==
    LET after == Push(m.face, f)
    IN  [m EXCEPT
           !.face = after,
           !.edge_uses = [s \in DOMAIN @ |-> @[s] \o
               Uses(after, UsePlaces(m, NextSlot(m.face), <<f[1]>>, s - 1))],
           !.face_shells = Append(@, <<>>)]

PushFace(m, f) ==
    LET after == Push(m.face, f)
    IN  [m EXCEPT
           !.face = after,
           !.edge_uses = [s \in DOMAIN @ |-> @[s] \o
               Uses(after, UsePlaces(m, NextSlot(m.face), f, s - 1))],
           !.face_shells = Append(@, <<>>)]

PushShell(m, sh) ==
    LET after == Push(m.shell, sh)
    IN  [m EXCEPT
           !.shell = after,
           !.face_shells = [s \in DOMAIN @ |-> @[s] \o
               Owners(after, ShellPlaces(m, NextSlot(m.shell), sh, s - 1))]]

PushBody(m, b) == [m EXCEPT !.body = Push(@, b)]

-----------------------------------------------------------------------------
(* The walk of a body and its closure: what resolves on the way down.      *)

Resolving(m, kind, ids) == {id \in ids : Has(m, kind, id)}

\* Mutant of Closure: the edges of a face's outer loop only.
ClosureOuter(m, body) ==
    LET b == Get(m, "body", body)
        shells == Resolving(m, "shell", ToSet(b.shells))
        faces  == Resolving(m, "face",
                    UNION {ToSet(Get(m, "shell", s)) : s \in shells})
        edges  == Resolving(m, "edge", ToSet(b.edges) \cup
                    UNION {ToSet(Get(m, "face", f)[1]) : f \in faces})
        verts  == Resolving(m, "vertex", ToSet(b.verts) \cup
                    UNION {{Get(m, "edge", e).start, Get(m, "edge", e).end} :
                             e \in edges})
    IN  [vertex |-> verts, edge |-> edges, face |-> faces, shell |-> shells,
         body |-> {body}]

Closure(m, body) ==
    LET b == Get(m, "body", body)
        shells == Resolving(m, "shell", ToSet(b.shells))
        faces  == Resolving(m, "face",
                    UNION {ToSet(Get(m, "shell", s)) : s \in shells})
        edges  == Resolving(m, "edge", ToSet(b.edges) \cup
                    UNION {EdgesOf(Get(m, "face", f)) : f \in faces})
        verts  == Resolving(m, "vertex", ToSet(b.verts) \cup
                    UNION {{Get(m, "edge", e).start, Get(m, "edge", e).end} :
                             e \in edges})
    IN  [vertex |-> verts, edge |-> edges, face |-> faces, shell |-> shells,
         body |-> {body}]

ReachableFrom(m, bodies, kind) == UNION {Closure(m, b)[kind] : b \in bodies}

-----------------------------------------------------------------------------
(* `rebuild_indices`: the lists over again, from all the places there are. *)

EndsIn(m, slot) ==
    UNION {EndPlaces(m, i, m.edge.val[i], slot) : i \in Occupied(m.edge)}
UsesIn(m, slot) ==
    UNION {UsePlaces(m, i, m.face.val[i], slot) : i \in Occupied(m.face)}
ShellsIn(m, slot) ==
    UNION {ShellPlaces(m, i, m.shell.val[i], slot) : i \in Occupied(m.shell)}

RebuildIndices(m) ==
    [m EXCEPT
       !.vertex_edges = [s \in 1 .. m.vertex.len |-> Owners(m.edge, EndsIn(m, s - 1))],
       !.edge_uses    = [s \in 1 .. m.edge.len |-> Uses(m.face, UsesIn(m, s - 1))],
       !.face_shells  = [s \in 1 .. m.face.len |-> Owners(m.shell, ShellsIn(m, s - 1))]]

\* Mutant of RetainModel: the indices are not rebuilt.
RetainStaleIndices(m, bodies) ==
    LET swept(kind) ==
            FreeSlots(m[kind], Indices(m[kind]) \
                        {id.slot : id \in ReachableFrom(m, bodies, kind)})
    IN  [field \in DOMAIN m |->
            IF field \in Kinds THEN swept(field) ELSE m[field]]

\* `retain`: everything outside the closures of `bodies` is freed.
RetainModel(m, bodies) ==
    LET swept(kind) ==
            FreeSlots(m[kind], Indices(m[kind]) \
                        {id.slot : id \in ReachableFrom(m, bodies, kind)})
    IN  RebuildIndices([field \in DOMAIN m |->
            IF field \in Kinds THEN swept(field) ELSE m[field]])

-----------------------------------------------------------------------------
(* Rollback: `at` maps each kind to the mark of entry.                     *)

MarksOf(m) == [kind \in Kinds |-> Mark(m[kind])]

AppendedTail(a, mark) == {i \in Indices(a) : i >= mark.len}   \* mutant
\* The slots the transaction appended to: refilled ones and the tail.
AppendedSlots(a, mark) ==
    ReusedSince(a, mark) \cup {i \in Indices(a) : i >= mark.len}
Appended(a, mark) ==
    {a.val[i] : i \in AppendedSlots(a, mark) \cap Occupied(a)}

\* `while list.last() is gone { list.pop() }`, given where the list is not.
PopTo(list, staying) == SubSeq(list, 1, Max({0} \cup staying))
CutTo(lists, n) == SubSeq(lists, 1, IF n < Len(lists) THEN n ELSE Len(lists))

RollbackModel(m, at) ==
    LET edges  == AppendedSlots(m.edge, at["edge"])
        faces  == AppendedSlots(m.face, at["face"])
        shells == AppendedSlots(m.shell, at["shell"])
        \* the slots whose lists an appended entity is popped off
        verts  == UNION {{e.start.slot, e.end.slot} :
                           e \in Appended(m.edge, at["edge"])}
        used   == UNION {{e.slot : e \in EdgesOf(f)} :
                           f \in Appended(m.face, at["face"])}
        held   == UNION {{f.slot : f \in ToSet(s)} :
                           s \in Appended(m.shell, at["shell"])}
        edgesOf(l)  == {k \in DOMAIN l : l[k].slot \notin edges}
        usesOf(l)   == {k \in DOMAIN l : l[k].face.slot \notin faces}
        shellsOf(l) == {k \in DOMAIN l : l[k].slot \notin shells}
    IN  [field \in DOMAIN m |->
            CASE field = "vertex_edges" ->
                    CutTo([s \in DOMAIN m[field] |-> LET l == m[field][s] IN
                              IF s - 1 \in verts THEN PopTo(l, edgesOf(l)) ELSE l],
                          at["vertex"].len)
              [] field = "edge_uses" ->
                    CutTo([s \in DOMAIN m[field] |-> LET l == m[field][s] IN
                              IF s - 1 \in used THEN PopTo(l, usesOf(l)) ELSE l],
                          at["edge"].len)
              [] field = "face_shells" ->
                    CutTo([s \in DOMAIN m[field] |-> LET l == m[field][s] IN
                              IF s - 1 \in held THEN PopTo(l, shellsOf(l)) ELSE l],
                          at["face"].len)
              [] OTHER -> Rollback(m[field], at[field])]
=============================================================================
