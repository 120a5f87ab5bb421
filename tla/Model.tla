------------------------------- MODULE Model -------------------------------
(***************************************************************************)
(* A model over its life: unchecked appends of every entity kind, `retain`,*)
(* a native-format round trip, and nested transactions.  What is at stake  *)
(* is that the derived adjacency, which every step maintains by hand,      *)
(* still says what the entities say.                                       *)
(***************************************************************************)
EXTENDS Import

CONSTANTS
    MaxSlots,     \* bound: slots per kind, a function of the kind
    GenLimit,     \* bound: a slot at this generation is freed no more
    MaxDepth,     \* bound: nested transactions
    RetainInTx,   \* may the closure of a transaction call `retain`
    FaceShapes(_),  \* the faces worth appending over a set of edge ids
    ShellShapes(_), \* the shells worth appending over a set of face ids
    BodyShapes(_, _, _), \* bodies over sets of shell, edge and vertex ids
    Dangling      \* may an edge be appended with an end that was freed

ASSUME ModelAssumption ==
    /\ MaxSlots \in [Kinds -> Nat]
    /\ GenLimit \in Nat /\ GenLimit < GenModulus
    /\ RetainInTx \in BOOLEAN /\ Dangling \in BOOLEAN

VARIABLES m,    \* the model
          txs   \* the model as each open transaction found it, innermost last
vars == <<m, txs>>

Innermost == txs[Len(txs)]
Room(kind) == m[kind].free = {} => m[kind].len < MaxSlots[kind]

Init == m = EmptyModel /\ txs = <<>>

AddVertex == /\ Room("vertex")
             /\ m' = PushVertex(m, "point")
             /\ UNCHANGED txs

\* An id of a freed slot: what a raw insert may refer to in vain.
Freed(kind) == {[slot |-> i, gen |-> m[kind].gen[i] - 1] :
                  i \in {j \in Indices(m[kind]) : m[kind].gen[j] > 0}}
Ends == LiveOf(m, "vertex") \cup (IF Dangling THEN Freed("vertex") ELSE {})
AddEdge == /\ Room("edge")
           /\ \E start, end \in Ends :
                m' = PushEdge(m, [start |-> start, end |-> end])
           /\ UNCHANGED txs

AddFace == /\ Room("face")
           /\ \E f \in FaceShapes(LiveOf(m, "edge")) : m' = PushFace(m, f)
           /\ UNCHANGED txs

AddShell == /\ Room("shell")
            /\ \E s \in ShellShapes(LiveOf(m, "face")) : m' = PushShell(m, s)
            /\ UNCHANGED txs

AddBody == /\ Room("body")
           /\ \E b \in BodyShapes(LiveOf(m, "shell"), LiveOf(m, "edge"),
                                  LiveOf(m, "vertex")) : m' = PushBody(m, b)
           /\ UNCHANGED txs

Retain == /\ txs = <<>> \/ RetainInTx
          /\ \A kind \in Kinds : \A i \in Occupied(m[kind]) :
                m[kind].gen[i] < GenLimit
          /\ \E bodies \in SUBSET LiveOf(m, "body") : m' = RetainModel(m, bodies)
          /\ UNCHANGED txs

\* Written in the native format and read back: the slots as they are, the
\* indices rebuilt.
Reload == /\ txs = <<>>
          /\ m' = RebuildIndices([field \in DOMAIN m |->
                     IF field \in Kinds
                     THEN ReadBack(SlotsOf(m[field]), m[field].len)
                     ELSE m[field]])
          /\ UNCHANGED txs

Begin == /\ Len(txs) < MaxDepth
         /\ txs' = Append(txs, m)
         /\ UNCHANGED m
Commit == /\ txs # <<>>
          /\ txs' = Front(txs)
          /\ UNCHANGED m
Abort == /\ txs # <<>>
         /\ m' = RollbackModel(m, MarksOf(Innermost))
         /\ txs' = Front(txs)

Next == \/ AddVertex \/ AddEdge \/ AddFace \/ AddShell \/ AddBody
        \/ Retain \/ Reload
        \/ Begin \/ Commit \/ Abort
Spec == Init /\ [][Next]_vars

-----------------------------------------------------------------------------
(***************************************************************************)
(* Properties.                                                             *)
(***************************************************************************)

Ids == [slot : Nat, gen : 0 .. (GenModulus - 1)]
Values(kind) ==
    CASE kind = "vertex" -> {"point"}
      [] kind = "edge"   -> [start : Ids, end : Ids]
      [] kind = "face"   -> Seq(Seq(Ids))
      [] kind = "shell"  -> Seq(Ids)
      [] kind = "body"   -> [shells : Seq(Ids), edges : Seq(Ids), verts : Seq(Ids)]

\* Arenas are arenas, and every slot has its index list.
TypeOK == /\ \A kind \in Kinds : IsArena(m[kind], Values(kind))
          /\ Len(m.vertex_edges) >= m.vertex.len
          /\ Len(m.edge_uses) >= m.edge.len
          /\ Len(m.face_shells) >= m.face.len

\* model.rs vertex_edges, "every edge that starts or ends at `vertex`, each
\* once", edge_uses, "every use of `edge` by a loop", and face_shells, "every
\* shell that uses `face`": at every live entity the list and the entities
\* agree, whatever was appended, freed, rolled back and reloaded.
EdgesListed(x) ==
    \A v \in LiveOf(x, "vertex") :
        LET list == x.vertex_edges[v.slot + 1]
        IN  /\ ToSet(list) = {e \in LiveOf(x, "edge") :
                                EndsAt(x, Get(x, "edge", e), v.slot)}
            /\ Cardinality(ToSet(list)) = Len(list)
PlacesOf(x, f, e) == LET loops == Get(x, "face", f)
                     IN  {p \in Places(loops) : loops[p[1]][p[2]] = e}
UsesListed(x) ==
    \A e \in LiveOf(x, "edge") :
        LET list == x.edge_uses[e.slot + 1]
        IN  /\ ToSet(list) = UNION {{[face |-> f, at |-> p] : p \in PlacesOf(x, f, e)} :
                                      f \in LiveOf(x, "face")}
            /\ Cardinality(ToSet(list)) = Len(list)
Where(list, id) == {k \in DOMAIN list : list[k] = id}
ShellsListed(x) ==
    \A f \in LiveOf(x, "face") : \A s \in LiveOf(x, "shell") :
        Cardinality(Where(x.face_shells[f.slot + 1], s)) =
        Cardinality(Where(Get(x, "shell", s), f))
VertexEdgesExact == EdgesListed(m)
NoDeadEntries ==
    \A f \in LiveOf(m, "face") :
        ToSet(m.face_shells[f.slot + 1]) \subseteq LiveOf(m, "shell")
IndexListsExact == TypeOK /\ UsesListed(m) /\ ShellsListed(m) /\ NoDeadEntries

\* model.rs transaction, "arenas, indices and the next id all return to what
\* they were at entry": the spare empty lists past the arena's end apart.
SameModel(a, b) ==
    /\ \A kind \in Kinds : a[kind] = b[kind]
    /\ CutTo(a.vertex_edges, a.vertex.len) = CutTo(b.vertex_edges, b.vertex.len)
    /\ CutTo(a.edge_uses, a.edge.len) = CutTo(b.edge_uses, b.edge.len)
    /\ CutTo(a.face_shells, a.face.len) = CutTo(b.face_shells, b.face.len)
RollbackRestoresModel ==
    \A k \in DOMAIN txs : SameModel(RollbackModel(m, MarksOf(txs[k])), txs[k])

\* retain: what is kept keeps what it stands on.  Every reference a live
\* entity was appended with resolves still, so no walk of a live body comes
\* out shorter than the body that was built.
RefsResolve(x) ==
    \A kind \in Kinds : \A id \in LiveOf(x, kind) : \A k \in Kinds :
        References(kind, Get(x, kind, id))[k] \subseteq LiveOf(x, k)
ReferencesResolve == RefsResolve(m)

-----------------------------------------------------------------------------
(* `import`, from the model into itself (a clone of it is the other), into *)
(* what it was when a transaction began, and into a fresh model.           *)

Targets == {m, EmptyModel} \cup ToSet(txs)
Imports == {[into |-> t, body |-> b] : t \in Targets, b \in LiveOf(m, "body")}
Result(i) == ImportBody(i.into, m, i.body)

\* model.rs import, "a reference in `other` that does not resolve is
\* NotFound and nothing is appended": the call fails exactly when the
\* closure refers to something it does not hold, and then the model and
\* its index lists are what they were.
Whole(x, body) ==
    \A kind \in Kinds : \A id \in Closure(x, body)[kind] : \A k \in Kinds :
        References(kind, Get(x, kind, id))[k] \subseteq Closure(x, body)[k]
ImportIsAllOrNothing ==
    \A i \in Imports :
        LET r == Result(i)
        IN  /\ r.found = Whole(m, i.body)
            /\ ~ r.found => SameModel(r.m, i.into)

\* "Deep-copies `body`": the closure of the copy is the image of the closure
\* of the original under a map that joins no two ids, every copied id is
\* new, what was there stands as it stood, and the index lists take in the
\* copy, whichever slots it filled.
CopiesTheClosure ==
    \A i \in Imports :
        LET r == Result(i)
            old == Closure(m, i.body)
            new == Closure(r.m, r.map["body"][i.body])
        IN  r.found =>
            /\ \A kind \in Kinds :
                 /\ DOMAIN r.map[kind] = old[kind]
                 /\ new[kind] = {r.map[kind][id] : id \in old[kind]}
                 /\ Cardinality(new[kind]) = Cardinality(old[kind])
                 /\ \A id \in new[kind] : ~ Has(i.into, kind, id)
                 /\ \A id \in LiveOf(i.into, kind) :
                      Has(r.m, kind, id) /\ Get(r.m, kind, id) = Get(i.into, kind, id)
            /\ EdgesListed(r.m) /\ UsesListed(r.m) /\ ShellsListed(r.m)

\* "a dense copy": into a fresh model the copy's ids start at zero, run
\* without gaps at generation zero, and keep the order of the old ones.
FreshImportIsDense ==
    \A body \in LiveOf(m, "body") :
        LET r == ImportBody(EmptyModel, m, body)
        IN  r.found => \A kind \in Kinds :
              /\ LiveOf(r.m, kind) =
                   {[slot |-> k - 1, gen |-> 0] : k \in 1 .. Cardinality(Closure(m, body)[kind])}
              /\ \A x, y \in Closure(m, body)[kind] :
                   x.slot < y.slot => r.map[kind][x].slot < r.map[kind][y].slot
ImportIsADeepCopy == CopiesTheClosure /\ FreshImportIsDense
=============================================================================
