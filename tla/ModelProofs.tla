---------------------------- MODULE ModelProofs ----------------------------
(***************************************************************************)
(* The promises of the model, for any number of entities, any depth of     *)
(* transactions, any generation width and any shapes the appended entities *)
(* may have: references resolve, every index list holds exactly the        *)
(* references there are, an error puts back the lists of entry, and an     *)
(* import copies a whole closure or nothing.                               *)
(*                                                                         *)
(* The three lists are one thing three times: for a slot of the listed     *)
(* kind, an entry for every place in an entity of the owner kind that      *)
(* refers to the slot.  The proofs are about that one thing; the three     *)
(* come apart only where an entity's places are looked at.                 *)
(***************************************************************************)
EXTENDS Model, SlotsProofs

-----------------------------------------------------------------------------
(***************************************************************************)
(* The five arenas of a model, and what each operation does to them.       *)
(***************************************************************************)

Typed(x) == /\ x = [field \in Fields |-> x[field]]
            /\ \A kind \in Kinds : IsArena(x[kind], Values(kind))

\* Nothing was freed: every arena of x extends the same arena of y.
Grown(x, y) == \A kind \in Kinds : Extends(x[kind], y[kind])

\* One entity more, in the arena of its kind.
IsPush(y, x, kind, v) ==
    /\ y = [field \in Fields |-> y[field]]
    /\ y[kind] = Push(x[kind], v)
    /\ \A k \in Kinds \ {kind} : y[k] = x[k]

LEMMA KindsAreFields ==
    /\ Kinds \subseteq Fields
    /\ \A field \in Fields : field \in Kinds
          \/ field = "vertex_edges" \/ field = "edge_uses" \/ field = "face_shells"
    /\ "vertex_edges" \notin Kinds
    /\ "edge_uses" \notin Kinds
    /\ "face_shells" \notin Kinds
BY DEF Fields, Kinds

LEMMA PushVertexArenas ==
    ASSUME NEW x, Typed(x), NEW v, NEW y, y = PushVertex(x, v)
    PROVE  IsPush(y, x, "vertex", v)
BY DEF PushVertex, IsPush, Typed, Fields, Kinds

LEMMA PushEdgeArenas ==
    ASSUME NEW x, Typed(x), NEW v, NEW y, y = PushEdge(x, v)
    PROVE  IsPush(y, x, "edge", v)
BY DEF PushEdge, IsPush, Typed, Fields, Kinds

LEMMA PushFaceArenas ==
    ASSUME NEW x, Typed(x), NEW v, NEW y, y = PushFace(x, v)
    PROVE  IsPush(y, x, "face", v)
BY DEF PushFace, IsPush, Typed, Fields, Kinds

LEMMA PushShellArenas ==
    ASSUME NEW x, Typed(x), NEW v, NEW y, y = PushShell(x, v)
    PROVE  IsPush(y, x, "shell", v)
BY DEF PushShell, IsPush, Typed, Fields, Kinds

LEMMA PushBodyArenas ==
    ASSUME NEW x, Typed(x), NEW v, NEW y, y = PushBody(x, v)
    PROVE  IsPush(y, x, "body", v)
BY DEF PushBody, IsPush, Typed, Fields, Kinds

LEMMA RebuildArenas ==
    ASSUME NEW x, x = [field \in Fields |-> x[field]], NEW y, y = RebuildIndices(x)
    PROVE  /\ y = [field \in Fields |-> y[field]]
           /\ \A kind \in Kinds : y[kind] = x[kind]
BY DEF RebuildIndices, Fields, Kinds

\* A push keeps the types, and only adds.
LEMMA PushTyped ==
    ASSUME NEW x, Typed(x), NEW kind \in Kinds, NEW v \in Values(kind),
           NEW y, IsPush(y, x, kind, v)
    PROVE  Typed(y) /\ Grown(y, x)
<1>1. ASSUME NEW k \in Kinds
      PROVE  IsArena(y[k], Values(k)) /\ Extends(y[k], x[k])
  <2>0. IsArena(x[k], Values(k)) /\ IsArena(x[kind], Values(kind))
    BY DEF Typed
  <2>1. CASE k = kind
    <3>1. IsArena(Push(x[kind], v), Values(kind))
      BY <2>0, PushProperties
    <3>2. Extends(Push(x[kind], v), x[kind])
      BY <2>0, PushExtends
    <3> QED
      BY <2>1, <3>1, <3>2 DEF IsPush
  <2>2. CASE k # kind
    BY <2>0, <2>2, ExtendsItself DEF IsPush
  <2> QED
    BY <2>1, <2>2
<1> QED
  BY <1>1 DEF Typed, Grown, IsPush

LEMMA GrownItself == ASSUME NEW x, Typed(x) PROVE Grown(x, x)
BY ExtendsItself DEF Typed, Grown

LEMMA GrownTransitive ==
    ASSUME NEW x, NEW y, NEW z, Typed(x), Typed(y), Typed(z),
           Grown(x, y), Grown(y, z)
    PROVE  Grown(x, z)
<1> SUFFICES ASSUME NEW kind \in Kinds PROVE Extends(x[kind], z[kind])
  BY DEF Grown
<1>1. /\ IsArena(x[kind], Values(kind))
      /\ IsArena(y[kind], Values(kind))
      /\ IsArena(z[kind], Values(kind))
      /\ Extends(x[kind], y[kind])
      /\ Extends(y[kind], z[kind])
  BY DEF Typed, Grown
<1> QED
  BY <1>1, ExtendsTransitive

\* An error puts the arenas of entry back, whatever was appended meanwhile.
LEMMA RollbackArenas ==
    ASSUME NEW x, NEW y, Typed(x), Typed(y), Grown(x, y)
    PROVE  /\ Typed(RollbackModel(x, MarksOf(y)))
           /\ \A kind \in Kinds : RollbackModel(x, MarksOf(y))[kind] = y[kind]
<1> DEFINE r == RollbackModel(x, MarksOf(y))
<1>1. DOMAIN x = Fields
  BY DEF Typed
<1>2. r = [field \in Fields |-> r[field]]
  BY <1>1 DEF RollbackModel
<1>3. ASSUME NEW kind \in Kinds PROVE r[kind] = y[kind]
  <2>1. /\ kind \in Fields
        /\ kind # "vertex_edges"
        /\ kind # "edge_uses"
        /\ kind # "face_shells"
    BY KindsAreFields
  <2>2. r[kind] = Rollback(x[kind], MarksOf(y)[kind])
    BY <1>1, <2>1 DEF RollbackModel
  <2>3. MarksOf(y)[kind] = Mark(y[kind])
    BY DEF MarksOf
  <2>4. /\ IsArena(x[kind], Values(kind))
        /\ IsArena(y[kind], Values(kind))
        /\ Extends(x[kind], y[kind])
    BY DEF Typed, Grown
  <2> QED
    BY <2>2, <2>3, <2>4, RollbackUndoesAppends
<1> HIDE DEF r
<1>4. Typed(r)
  BY <1>2, <1>3 DEF Typed
<1> QED
  BY <1>3, <1>4 DEF r

\* A model written and read back keeps its arenas.
LEMMA ReloadArenas ==
    ASSUME NEW x, Typed(x), NEW y,
           y = RebuildIndices([field \in DOMAIN x |->
                 IF field \in Kinds THEN ReadBack(SlotsOf(x[field]), x[field].len)
                                    ELSE x[field]])
    PROVE  /\ Typed(y)
           /\ \A kind \in Kinds : y[kind] = x[kind]
<1> DEFINE z == [field \in DOMAIN x |->
                   IF field \in Kinds THEN ReadBack(SlotsOf(x[field]), x[field].len)
                                      ELSE x[field]]
<1>1. /\ z = [field \in Fields |-> z[field]]
      /\ \A kind \in Kinds : z[kind] = ReadBack(SlotsOf(x[kind]), x[kind].len)
  BY KindsAreFields DEF Typed
<1> HIDE DEF z
<1>2. \A kind \in Kinds : z[kind] = x[kind]
  BY <1>1, ReadBackIsTheArena DEF Typed
<1>3. y = RebuildIndices(z)
  BY DEF z
<1>4. /\ y = [field \in Fields |-> y[field]]
      /\ \A kind \in Kinds : y[kind] = z[kind]
  <2>1. z = [field \in Fields |-> z[field]]
    BY <1>1
  <2> QED
    BY <1>3, <2>1, RebuildArenas
<1> QED
  BY <1>2, <1>4 DEF Typed

\* f is what the sweep of `retain` leaves of a, for the ids of R.
SweptTo(f, a, R) == /\ R \subseteq LiveIds(a)
                    /\ f = FreeSlots(a, Indices(a) \ {id.slot : id \in R})

\* `retain` keeps, of the live ids, those it was given, and their values.
LEMMA LiveAfterSweep ==
    ASSUME NEW V, NEW a, IsArena(a, V), NEW R, NEW f, SweptTo(f, a, R)
    PROVE  /\ IsArena(f, V)
           /\ LiveIds(f) = R
           /\ \A id \in R : f.val[id.slot] = a.val[id.slot]
<1> DEFINE gone == Indices(a) \ {id.slot : id \in R}
<1>0. R \subseteq LiveIds(a) /\ f = FreeSlots(a, gone)
  BY DEF SweptTo
<1>1. /\ IsArena(f, V)
      /\ Occupied(f) = Occupied(a) \ gone
      /\ \A j \in Occupied(f) : f.val[j] = a.val[j]
      /\ \A j \in Indices(a) : f.gen[j] = IF j \in gone \cap Occupied(a)
                                          THEN Bump(a.gen[j]) ELSE a.gen[j]
  BY <1>0, FreeSlotsProperties
<1>2. Occupied(a) \subseteq Indices(a)
  BY ArenaFields
<1>3. \A j \in Occupied(f) : IdOf(f, j) = IdOf(a, j)
  BY <1>1, <1>2 DEF IdOf
<1>4. \A id \in R : id.slot \in Occupied(a) /\ id = IdOf(a, id.slot)
  BY <1>0 DEF LiveIds, IdOf
<1>5. Occupied(f) = {id.slot : id \in R}
  BY <1>1, <1>2, <1>4
<1>6. LiveIds(f) = R
  <2>1. ASSUME NEW id \in LiveIds(f) PROVE id \in R
    <3>1. PICK j \in Occupied(f) : id = IdOf(f, j)
      BY DEF LiveIds
    <3>2. PICK r \in R : j = r.slot
      BY <1>5
    <3> QED
      BY <1>3, <1>4, <3>1, <3>2
  <2>2. ASSUME NEW id \in R PROVE id \in LiveIds(f)
    <3>1. id.slot \in Occupied(f)
      BY <1>5
    <3>2. id = IdOf(f, id.slot)
      BY <1>3, <1>4, <3>1
    <3> QED
      BY <3>1, <3>2 DEF LiveIds
  <2> QED
    BY <2>1, <2>2
<1> QED
  BY <1>1, <1>5, <1>6

\* A slot the sweep empties moves on one generation, the others stay.
LEMMA SweepProperties ==
    ASSUME NEW V, NEW a, IsArena(a, V), NEW R, NEW f, SweptTo(f, a, R)
    PROVE  /\ Indices(f) = Indices(a)
           /\ Occupied(f) \subseteq Occupied(a)
           /\ \A j \in Occupied(f) : f.val[j] = a.val[j]
           /\ \A j \in Indices(a) : f.gen[j] =
                IF j \in Occupied(a) \ Occupied(f) THEN Bump(a.gen[j]) ELSE a.gen[j]
<1> DEFINE gone == Indices(a) \ {id.slot : id \in R}
<1>0. f = FreeSlots(a, gone)
  BY DEF SweptTo
<1> HIDE DEF gone
<1>1. /\ f.len = a.len
      /\ Occupied(f) = Occupied(a) \ gone
      /\ \A j \in Occupied(f) : f.val[j] = a.val[j]
      /\ \A j \in Indices(a) : f.gen[j] = IF j \in gone \cap Occupied(a)
                                          THEN Bump(a.gen[j]) ELSE a.gen[j]
  BY <1>0, FreeSlotsProperties
<1>2. Indices(f) = Indices(a)
  BY <1>1 DEF Indices
<1>3. \A j : j \in gone \cap Occupied(a) <=> j \in Occupied(a) \ Occupied(f)
  BY <1>1
<1> QED
  BY <1>1, <1>2, <1>3

LEMMA RetainArenas ==
    ASSUME NEW x, Typed(x), NEW bodies,
           \A kind \in Kinds : ReachableFrom(x, bodies, kind) \subseteq LiveOf(x, kind),
           NEW y, y = RetainModel(x, bodies)
    PROVE  /\ Typed(y)
           /\ \A kind \in Kinds :
                /\ SweptTo(y[kind], x[kind], ReachableFrom(x, bodies, kind))
                /\ LiveOf(y, kind) = ReachableFrom(x, bodies, kind)
                /\ \A id \in LiveOf(y, kind) : Get(y, kind, id) = Get(x, kind, id)
<1> DEFINE swept(kind) == FreeSlots(x[kind], Indices(x[kind]) \
                             {id.slot : id \in ReachableFrom(x, bodies, kind)})
           z == [field \in DOMAIN x |-> IF field \in Kinds THEN swept(field)
                                                           ELSE x[field]]
<1>1. /\ z = [field \in Fields |-> z[field]]
      /\ \A kind \in Kinds : z[kind] = swept(kind)
  BY KindsAreFields DEF Typed
<1>2. y = RebuildIndices(z)
  BY DEF RetainModel
<1> HIDE DEF z
<1>3. /\ y = [field \in Fields |-> y[field]]
      /\ \A kind \in Kinds : y[kind] = z[kind]
  BY <1>1, <1>2, RebuildArenas
<1>4. ASSUME NEW kind \in Kinds
      PROVE  /\ IsArena(y[kind], Values(kind))
             /\ SweptTo(y[kind], x[kind], ReachableFrom(x, bodies, kind))
             /\ LiveOf(y, kind) = ReachableFrom(x, bodies, kind)
             /\ \A id \in LiveOf(y, kind) : Get(y, kind, id) = Get(x, kind, id)
  <2> DEFINE stay == ReachableFrom(x, bodies, kind)
  <2>1. /\ IsArena(x[kind], Values(kind))
        /\ SweptTo(y[kind], x[kind], stay)
    BY <1>1, <1>3 DEF Typed, LiveOf, SweptTo
  <2> HIDE DEF stay
  <2>2. /\ IsArena(y[kind], Values(kind))
        /\ LiveIds(y[kind]) = stay
        /\ \A id \in stay : y[kind].val[id.slot] = x[kind].val[id.slot]
    BY <2>1, LiveAfterSweep
  <2> QED
    BY <2>1, <2>2 DEF stay, LiveOf, Get
<1> QED
  BY <1>3, <1>4 DEF Typed

-----------------------------------------------------------------------------
(***************************************************************************)
(* References.                                                             *)
(***************************************************************************)

\* A live id resolves, and conversely.
LEMMA LiveResolves ==
    ASSUME NEW x, NEW kind
    PROVE  /\ \A id \in LiveOf(x, kind) : Has(x, kind, id)
           /\ \A id \in LiveOf(x, kind) : id.slot \in Occupied(x[kind])
BY DEF LiveOf, LiveIds, Has, Resolves, IdOf

LEMMA KindCases ==
    ASSUME NEW kind \in Kinds
    PROVE  \/ kind = "vertex" \/ kind = "edge" \/ kind = "face"
           \/ kind = "shell" \/ kind = "body"
BY DEF Kinds

LEMMA ReferencesOf ==
    ASSUME NEW v
    PROVE  /\ \A k \in Kinds : References("vertex", v)[k] = {}
           /\ \A k \in Kinds : References("edge", v)[k] =
                IF k = "vertex" THEN {v.start, v.end} ELSE {}
           /\ \A k \in Kinds : References("face", v)[k] =
                IF k = "edge" THEN EdgesOf(v) ELSE {}
           /\ \A k \in Kinds : References("shell", v)[k] =
                IF k = "face" THEN ToSet(v) ELSE {}
           /\ \A k \in Kinds : References("body", v)[k] =
                CASE k = "shell"  -> ToSet(v.shells)
                  [] k = "edge"   -> ToSet(v.edges)
                  [] k = "vertex" -> ToSet(v.verts)
                  [] OTHER        -> {}
BY DEF References, Kinds

\* The reference of each kind, one by one.
LEMMA RefsByKind ==
    ASSUME NEW x, RefsResolve(x)
    PROVE  /\ \A e \in LiveOf(x, "edge") :
                {Get(x, "edge", e).start, Get(x, "edge", e).end} \subseteq LiveOf(x, "vertex")
           /\ \A f \in LiveOf(x, "face") :
                EdgesOf(Get(x, "face", f)) \subseteq LiveOf(x, "edge")
           /\ \A s \in LiveOf(x, "shell") :
                ToSet(Get(x, "shell", s)) \subseteq LiveOf(x, "face")
           /\ \A b \in LiveOf(x, "body") :
                /\ ToSet(Get(x, "body", b).shells) \subseteq LiveOf(x, "shell")
                /\ ToSet(Get(x, "body", b).edges) \subseteq LiveOf(x, "edge")
                /\ ToSet(Get(x, "body", b).verts) \subseteq LiveOf(x, "vertex")
<1>1. \A kind \in Kinds : \A id \in LiveOf(x, kind) : \A k \in Kinds :
         References(kind, Get(x, kind, id))[k] \subseteq LiveOf(x, k)
  BY DEF RefsResolve
<1>2. /\ "vertex" \in Kinds /\ "edge" \in Kinds /\ "face" \in Kinds
      /\ "shell" \in Kinds /\ "body" \in Kinds
  BY DEF Kinds
<1>3. ASSUME NEW e \in LiveOf(x, "edge")
      PROVE  {Get(x, "edge", e).start, Get(x, "edge", e).end} \subseteq LiveOf(x, "vertex")
  <2>1. References("edge", Get(x, "edge", e))["vertex"] \subseteq LiveOf(x, "vertex")
    BY <1>1, <1>2
  <2>2. References("edge", Get(x, "edge", e))["vertex"] = {Get(x, "edge", e).start, Get(x, "edge", e).end}
    BY <1>2, ReferencesOf
  <2> QED
    BY <2>1, <2>2
<1>4. ASSUME NEW f \in LiveOf(x, "face")
      PROVE  EdgesOf(Get(x, "face", f)) \subseteq LiveOf(x, "edge")
  <2>1. References("face", Get(x, "face", f))["edge"] \subseteq LiveOf(x, "edge")
    BY <1>1, <1>2
  <2>2. References("face", Get(x, "face", f))["edge"] = EdgesOf(Get(x, "face", f))
    BY <1>2, ReferencesOf
  <2> QED
    BY <2>1, <2>2
<1>5. ASSUME NEW s \in LiveOf(x, "shell")
      PROVE  ToSet(Get(x, "shell", s)) \subseteq LiveOf(x, "face")
  <2>1. References("shell", Get(x, "shell", s))["face"] \subseteq LiveOf(x, "face")
    BY <1>1, <1>2
  <2>2. References("shell", Get(x, "shell", s))["face"] = ToSet(Get(x, "shell", s))
    BY <1>2, ReferencesOf
  <2> QED
    BY <2>1, <2>2
<1>6. ASSUME NEW b \in LiveOf(x, "body"), NEW g, g = Get(x, "body", b)
      PROVE  /\ ToSet(g.shells) \subseteq LiveOf(x, "shell")
             /\ ToSet(g.edges) \subseteq LiveOf(x, "edge")
             /\ ToSet(g.verts) \subseteq LiveOf(x, "vertex")
  <2>1. /\ References("body", g)["shell"] \subseteq LiveOf(x, "shell")
        /\ References("body", g)["edge"] \subseteq LiveOf(x, "edge")
        /\ References("body", g)["vertex"] \subseteq LiveOf(x, "vertex")
    BY <1>1, <1>2, <1>6
  <2>2. /\ References("body", g)["shell"] = ToSet(g.shells)
        /\ References("body", g)["edge"] = ToSet(g.edges)
        /\ References("body", g)["vertex"] = ToSet(g.verts)
    BY <1>2, ReferencesOf
  <2> QED
    BY <2>1, <2>2
<1> QED
  BY <1>3, <1>4, <1>5, <1>6

\* The closure of a live body of a model whose references resolve is live,
\* and refers to nothing outside itself.
LEMMA ClosureIsClosed ==
    ASSUME NEW x, RefsResolve(x), NEW body \in LiveOf(x, "body")
    PROVE  \A kind \in Kinds :
             /\ Closure(x, body)[kind] \subseteq LiveOf(x, kind)
             /\ \A id \in Closure(x, body)[kind] : \A k \in Kinds :
                  References(kind, Get(x, kind, id))[k] \subseteq Closure(x, body)[k]
<1> DEFINE b == Get(x, "body", body)
           shellRefs == ToSet(b.shells)
           shells == Resolving(x, "shell", shellRefs)
           faceRefs == UNION {ToSet(Get(x, "shell", s)) : s \in shells}
           faces == Resolving(x, "face", faceRefs)
           edgeRefs == ToSet(b.edges) \cup UNION {EdgesOf(Get(x, "face", f)) : f \in faces}
           edges == Resolving(x, "edge", edgeRefs)
           vertRefs == ToSet(b.verts) \cup
               UNION {{Get(x, "edge", e).start, Get(x, "edge", e).end} : e \in edges}
           verts == Resolving(x, "vertex", vertRefs)
<1>0. \A kind \in Kinds : \A ids \in SUBSET LiveOf(x, kind) :
         Resolving(x, kind, ids) = ids
  BY LiveResolves DEF Resolving
<1>1. Closure(x, body) = [vertex |-> verts, edge |-> edges, face |-> faces,
                          shell |-> shells, body |-> {body}]
  BY DEF Closure
<1>k. /\ "vertex" \in Kinds /\ "edge" \in Kinds /\ "face" \in Kinds
      /\ "shell" \in Kinds /\ "body" \in Kinds
  BY DEF Kinds
<1>2. /\ ToSet(b.shells) \subseteq LiveOf(x, "shell")
      /\ ToSet(b.edges) \subseteq LiveOf(x, "edge")
      /\ ToSet(b.verts) \subseteq LiveOf(x, "vertex")
  BY RefsByKind
<1>3. \A s \in LiveOf(x, "shell") : ToSet(Get(x, "shell", s)) \subseteq LiveOf(x, "face")
  BY RefsByKind
<1>4. \A f \in LiveOf(x, "face") : EdgesOf(Get(x, "face", f)) \subseteq LiveOf(x, "edge")
  BY RefsByKind
<1>5. \A e \in LiveOf(x, "edge") :
         {Get(x, "edge", e).start, Get(x, "edge", e).end} \subseteq LiveOf(x, "vertex")
  BY RefsByKind
<1> HIDE DEF b
<1>6. shells = shellRefs /\ shells \subseteq LiveOf(x, "shell")
  BY <1>0, <1>2, <1>k
<1> HIDE DEF shells
<1>7. faces = faceRefs /\ faces \subseteq LiveOf(x, "face")
  <2>1. faceRefs \subseteq LiveOf(x, "face")
    BY <1>3, <1>6
  <2> QED
    BY <1>0, <1>k, <2>1
<1> HIDE DEF faces
<1>8. edges = edgeRefs /\ edges \subseteq LiveOf(x, "edge")
  <2>1. edgeRefs \subseteq LiveOf(x, "edge")
    BY <1>2, <1>4, <1>7
  <2> QED
    BY <1>0, <1>k, <2>1
<1> HIDE DEF edges
<1>9. verts = vertRefs /\ verts \subseteq LiveOf(x, "vertex")
  <2>1. vertRefs \subseteq LiveOf(x, "vertex")
    BY <1>2, <1>5, <1>8
  <2> QED
    BY <1>0, <1>k, <2>1
<1> HIDE DEF verts
<1>10. ASSUME NEW kind \in Kinds, NEW id \in Closure(x, body)[kind], NEW k \in Kinds
       PROVE  References(kind, Get(x, kind, id))[k] \subseteq Closure(x, body)[k]
  <2> DEFINE g == Get(x, kind, id)
  <2> HIDE DEF g
  <2> SUFFICES References(kind, g)[k] \subseteq Closure(x, body)[k]
    BY DEF g
  <2>1. CASE kind = "vertex"
    BY <2>1, ReferencesOf
  <2>2. CASE kind = "edge"
    <3>1. id \in edges
      BY <1>1, <1>10, <2>2
    <3>2. {g.start, g.end} \subseteq verts
      BY <1>9, <2>2, <3>1 DEF g
    <3>3. References(kind, g)[k] = IF k = "vertex" THEN {g.start, g.end} ELSE {}
      BY <2>2, ReferencesOf
    <3>4. Closure(x, body)["vertex"] = verts
      BY <1>1
    <3> QED
      BY <3>2, <3>3, <3>4
  <2>3. CASE kind = "face"
    <3>1. id \in faces
      BY <1>1, <1>10, <2>3
    <3>2. EdgesOf(g) \subseteq edges
      BY <1>8, <2>3, <3>1 DEF g
    <3>3. References(kind, g)[k] = IF k = "edge" THEN EdgesOf(g) ELSE {}
      BY <2>3, ReferencesOf
    <3>4. Closure(x, body)["edge"] = edges
      BY <1>1
    <3> QED
      BY <3>2, <3>3, <3>4
  <2>4. CASE kind = "shell"
    <3>1. id \in shells
      BY <1>1, <1>10, <2>4
    <3>2. ToSet(g) \subseteq faces
      BY <1>7, <2>4, <3>1 DEF g
    <3>3. References(kind, g)[k] = IF k = "face" THEN ToSet(g) ELSE {}
      BY <2>4, ReferencesOf
    <3>4. Closure(x, body)["face"] = faces
      BY <1>1
    <3> QED
      BY <3>2, <3>3, <3>4
  <2>5. CASE kind = "body"
    <3>1. g = b
      BY <1>1, <1>10, <2>5 DEF b, g
    <3>2. /\ ToSet(b.shells) \subseteq shells
          /\ ToSet(b.edges) \subseteq edges
          /\ ToSet(b.verts) \subseteq verts
      BY <1>6, <1>8, <1>9
    <3>3. /\ Closure(x, body)["shell"] = shells
          /\ Closure(x, body)["edge"] = edges
          /\ Closure(x, body)["vertex"] = verts
      BY <1>1
    <3>4. References(kind, b)[k] = CASE k = "shell"  -> ToSet(b.shells)
                                     [] k = "edge"   -> ToSet(b.edges)
                                     [] k = "vertex" -> ToSet(b.verts)
                                     [] OTHER        -> {}
      BY <2>5, ReferencesOf
    <3> QED
      BY <3>1, <3>2, <3>3, <3>4
  <2> QED
    BY <2>1, <2>2, <2>3, <2>4, <2>5, KindCases
<1>11. ASSUME NEW kind \in Kinds
       PROVE  Closure(x, body)[kind] \subseteq LiveOf(x, kind)
  BY <1>1, <1>6, <1>7, <1>8, <1>9, KindCases
<1> QED
  BY <1>10, <1>11

-----------------------------------------------------------------------------
(***************************************************************************)
(* Values and ids.                                                         *)
(***************************************************************************)

LEMMA ValuesOf ==
    /\ Values("vertex") = {"point"}
    /\ Values("edge") = [start : Ids, end : Ids]
    /\ Values("face") = Seq(Seq(Ids))
    /\ Values("shell") = Seq(Ids)
    /\ Values("body") = [shells : Seq(Ids), edges : Seq(Ids), verts : Seq(Ids)]
BY DEF Values

LEMMA LiveAreIds ==
    ASSUME NEW x, Typed(x), NEW kind \in Kinds
    PROVE  /\ LiveOf(x, kind) \subseteq Ids
           /\ \A id \in Ids : Has(x, kind, id) => id \in LiveOf(x, kind)
           /\ \A id \in LiveOf(x, kind) : Get(x, kind, id) \in Values(kind)
<1>1. IsArena(x[kind], Values(kind))
  BY DEF Typed
<1>2. /\ x[kind].len \in Nat
      /\ x[kind].gen \in [Indices(x[kind]) -> 0 .. (GenModulus - 1)]
      /\ x[kind].val \in [Occupied(x[kind]) -> Values(kind)]
      /\ Occupied(x[kind]) \subseteq Indices(x[kind])
  BY <1>1, ArenaFields
<1>3. \A i \in Occupied(x[kind]) : IdOf(x[kind], i) \in Ids
  BY <1>2 DEF Ids, IdOf, Indices
<1>4. ASSUME NEW id \in Ids, Has(x, kind, id) PROVE id \in LiveOf(x, kind)
  <2>1. id.slot \in Occupied(x[kind]) /\ x[kind].gen[id.slot] = id.gen
    BY <1>4 DEF Has, Resolves
  <2>2. id = [slot |-> id.slot, gen |-> id.gen]
    BY DEF Ids
  <2>3. id = IdOf(x[kind], id.slot)
    BY <2>1, <2>2 DEF IdOf
  <2> QED
    BY <2>1, <2>3 DEF LiveOf, LiveIds
<1>5. \A id \in LiveOf(x, kind) : id.slot \in Occupied(x[kind])
  BY LiveResolves
<1> QED
  BY <1>2, <1>3, <1>4, <1>5 DEF LiveOf, LiveIds, Get

\* The places of a face's coedges.
LEMMA PlacesOfFace ==
    ASSUME NEW S, NEW f \in Seq(Seq(S)), NEW p \in Places(f)
    PROVE  /\ p = <<p[1], p[2]>>
           /\ p[1] \in DOMAIN f /\ p[1] \in Nat
           /\ p[2] \in DOMAIN f[p[1]] /\ p[2] \in Nat
           /\ f[p[1]][p[2]] \in S
<1>1. PICK li \in DOMAIN f : p \in {<<li, ci>> : ci \in DOMAIN f[li]}
  BY DEF Places
<1>2. PICK ci \in DOMAIN f[li] : p = <<li, ci>>
  BY <1>1
<1>3. li \in 1 .. Len(f) /\ Len(f) \in Nat
  BY LenProperties
<1>4. f[li] \in Seq(S)
  BY <1>3, ElementOfSeq
<1>5. ci \in 1 .. Len(f[li]) /\ Len(f[li]) \in Nat
  BY <1>4, LenProperties
<1>6. f[li][ci] \in S
  BY <1>4, <1>5, ElementOfSeq
<1> QED
  BY <1>2, <1>3, <1>5, <1>6

LEMMA EdgesOfFace ==
    ASSUME NEW S, NEW f \in Seq(Seq(S))
    PROVE  EdgesOf(f) \subseteq S
BY PlacesOfFace DEF EdgesOf

LEMMA ElementsOfSeq ==
    ASSUME NEW S, NEW s \in Seq(S)
    PROVE  ToSet(s) \subseteq S
<1>1. DOMAIN s = 1 .. Len(s)
  BY LenProperties
<1> QED
  BY <1>1, ElementOfSeq DEF ToSet

\* The closure of a live body is live, whether or not all references resolve.
LEMMA ClosureIsLive ==
    ASSUME NEW x, Typed(x), NEW body \in LiveOf(x, "body"), NEW kind \in Kinds
    PROVE  Closure(x, body)[kind] \subseteq LiveOf(x, kind)
<1> DEFINE c == Closure(x, body)
<1>k. /\ "vertex" \in Kinds /\ "edge" \in Kinds /\ "face" \in Kinds
      /\ "shell" \in Kinds /\ "body" \in Kinds
  BY DEF Kinds
<1>0. \A k \in Kinds : \A ids \in SUBSET Ids : Resolving(x, k, ids) \subseteq LiveOf(x, k)
  BY LiveAreIds DEF Resolving
<1>1. Get(x, "body", body) \in [shells : Seq(Ids), edges : Seq(Ids), verts : Seq(Ids)]
  BY <1>k, LiveAreIds, ValuesOf
<1>2. /\ ToSet(Get(x, "body", body).shells) \subseteq Ids
      /\ ToSet(Get(x, "body", body).edges) \subseteq Ids
      /\ ToSet(Get(x, "body", body).verts) \subseteq Ids
  BY <1>1, ElementsOfSeq
<1>3. c["shell"] \subseteq LiveOf(x, "shell")
  BY <1>0, <1>2, <1>k DEF Closure
<1>4. \A s \in LiveOf(x, "shell") : ToSet(Get(x, "shell", s)) \subseteq Ids
  BY <1>k, LiveAreIds, ValuesOf, ElementsOfSeq
<1>5. c["face"] \subseteq LiveOf(x, "face")
  <2>1. c["face"] = Resolving(x, "face", UNION {ToSet(Get(x, "shell", s)) : s \in c["shell"]})
    BY DEF Closure
  <2>2. UNION {ToSet(Get(x, "shell", s)) : s \in c["shell"]} \subseteq Ids
    BY <1>3, <1>4
  <2> QED
    BY <1>0, <1>k, <2>1, <2>2
<1>6. \A f \in LiveOf(x, "face") : EdgesOf(Get(x, "face", f)) \subseteq Ids
  BY <1>k, LiveAreIds, ValuesOf, EdgesOfFace
<1>7. c["edge"] \subseteq LiveOf(x, "edge")
  <2> DEFINE refs == ToSet(Get(x, "body", body).edges) \cup
                       UNION {EdgesOf(Get(x, "face", f)) : f \in c["face"]}
  <2>1. c["edge"] = Resolving(x, "edge", refs)
    BY DEF Closure
  <2>2. refs \subseteq Ids
    BY <1>2, <1>5, <1>6
  <2> QED
    BY <1>0, <1>k, <2>1, <2>2
<1>8. \A e \in LiveOf(x, "edge") :
         {Get(x, "edge", e).start, Get(x, "edge", e).end} \subseteq Ids
  <2>1. \A e \in LiveOf(x, "edge") : Get(x, "edge", e) \in [start : Ids, end : Ids]
    BY <1>k, LiveAreIds, ValuesOf
  <2> QED
    BY <2>1
<1>9. c["vertex"] \subseteq LiveOf(x, "vertex")
  <2> DEFINE refs == ToSet(Get(x, "body", body).verts) \cup
               UNION {{Get(x, "edge", e).start, Get(x, "edge", e).end} : e \in c["edge"]}
  <2>1. c["vertex"] = Resolving(x, "vertex", refs)
    BY DEF Closure
  <2>2. refs \subseteq Ids
    BY <1>2, <1>7, <1>8
  <2> QED
    BY <1>0, <1>k, <2>1, <2>2
<1>10. c["body"] = {body}
  BY DEF Closure
<1> QED
  BY <1>3, <1>5, <1>7, <1>9, <1>10, KindCases
-----------------------------------------------------------------------------
(***************************************************************************)
(* The steps.                                                              *)
(***************************************************************************)

\* The shapes appended refer to what they were given, as `Entity` payloads
\* built from live handles do.
ShapesRefer ==
    \A edges, faces, shells, verts \in SUBSET Ids :
        /\ FaceShapes(edges) \subseteq Seq(Seq(edges))
        /\ ShellShapes(faces) \subseteq Seq(faces)
        /\ BodyShapes(shells, edges, verts) \subseteq
              [shells : Seq(shells), edges : Seq(edges), verts : Seq(verts)]

\* A step that appends, and what it appends refers to.
Appending == AddVertex \/ AddEdge \/ AddFace \/ AddShell \/ AddBody

LEMMA SeqOfSeqMonotonic ==
    ASSUME NEW S, NEW T, S \subseteq T, NEW f \in Seq(Seq(S))
    PROVE  f \in Seq(Seq(T))
<1>1. Seq(S) \subseteq Seq(T)
  BY SeqMonotonic
<1> QED
  BY <1>1, SeqMonotonic

\* The ids an append may be given.
Given(k) == LiveOf(m, k) \cup (IF Dangling THEN Freed(k) ELSE {})

LEMMA AppendedIsTyped ==
    ASSUME ShapesRefer, Typed(m), Appending
    PROVE  /\ UNCHANGED txs
           /\ \E kind \in Kinds : \E v \in Values(kind) :
                /\ m' = PushOf(m, kind, v)
                /\ IsPush(m', m, kind, v)
                /\ \A k \in Kinds : References(kind, v)[k] \subseteq Given(k)
<1>p. \A v : /\ PushOf(m, "vertex", v) = PushVertex(m, v)
             /\ PushOf(m, "edge", v) = PushEdge(m, v)
             /\ PushOf(m, "face", v) = PushFace(m, v)
             /\ PushOf(m, "shell", v) = PushShell(m, v)
             /\ PushOf(m, "body", v) = PushBody(m, v)
  BY DEF PushOf
<1>g. \A k \in Kinds : LiveOf(m, k) \subseteq Given(k)
  BY DEF Given
<1>k. /\ "vertex" \in Kinds /\ "edge" \in Kinds /\ "face" \in Kinds
      /\ "shell" \in Kinds /\ "body" \in Kinds
  BY DEF Kinds
<1>l. /\ LiveOf(m, "vertex") \subseteq Ids /\ LiveOf(m, "edge") \subseteq Ids
      /\ LiveOf(m, "face") \subseteq Ids /\ LiveOf(m, "shell") \subseteq Ids
  BY <1>k, LiveAreIds
<1>1. CASE AddVertex
  <2>1. m' = PushVertex(m, "point") /\ UNCHANGED txs
    BY <1>1 DEF AddVertex
  <2>2. IsPush(m', m, "vertex", "point")
    BY <2>1, PushVertexArenas
  <2>3. "point" \in Values("vertex")
    BY ValuesOf
  <2>4. \A k \in Kinds : References("vertex", "point")[k] \subseteq LiveOf(m, k)
    BY ReferencesOf
  <2> QED
    BY <1>k, <1>p, <1>g, <2>1, <2>2, <2>3, <2>4
<1>2. CASE AddEdge
  <2>1. PICK start \in Ends, end \in Ends :
           m' = PushEdge(m, [start |-> start, end |-> end])
    BY <1>2 DEF AddEdge
  <2> DEFINE e == [start |-> start, end |-> end]
  <2>2. Freed("vertex") \subseteq Ids
    <3>1. IsArena(m["vertex"], Values("vertex"))
      BY <1>k DEF Typed
    <3>2. /\ m["vertex"].len \in Nat
          /\ m["vertex"].gen \in [Indices(m["vertex"]) -> 0 .. (GenModulus - 1)]
      BY <3>1, ArenaFields
    <3>3. \A i \in Indices(m["vertex"]) : m["vertex"].gen[i] > 0 =>
             /\ i \in Nat
             /\ m["vertex"].gen[i] - 1 \in 0 .. (GenModulus - 1)
      BY <3>2, GenAssumption DEF Indices
    <3> QED
      BY <3>3 DEF Freed, Ids
  <2>3. start \in Ids /\ end \in Ids
    BY <1>l, <2>2 DEF Ends
  <2>4. e \in Values("edge")
    BY <2>3, ValuesOf
  <2>5. start \in Given("vertex") /\ end \in Given("vertex")
    BY DEF Ends, Given
  <2> HIDE DEF e
  <2>6. IsPush(m', m, "edge", e)
    BY <2>1, PushEdgeArenas DEF e
  <2>9. m' = PushOf(m, "edge", e)
    BY <1>p, <2>1 DEF e
  <2>7. \A k \in Kinds : References("edge", e)[k] \subseteq Given(k)
    <3>1. e.start = start /\ e.end = end
      BY DEF e
    <3>2. \A k \in Kinds : References("edge", e)[k] =
             IF k = "vertex" THEN {e.start, e.end} ELSE {}
      BY ReferencesOf
    <3> QED
      BY <2>5, <3>1, <3>2
  <2>8. UNCHANGED txs
    BY <1>2 DEF AddEdge
  <2> QED
    BY <1>k, <1>p, <1>g, <2>4, <2>6, <2>7, <2>8, <2>9
<1>3. CASE AddFace
  <2>1. PICK f \in FaceShapes(LiveOf(m, "edge")) : m' = PushFace(m, f)
    BY <1>3 DEF AddFace
  <2>2. f \in Seq(Seq(LiveOf(m, "edge")))
    BY <1>l, <2>1 DEF ShapesRefer
  <2>3. f \in Values("face")
    BY <1>l, <2>2, SeqOfSeqMonotonic, ValuesOf
  <2>4. IsPush(m', m, "face", f)
    BY <2>1, PushFaceArenas
  <2>5. \A k \in Kinds : References("face", f)[k] \subseteq LiveOf(m, k)
    <3>1. EdgesOf(f) \subseteq LiveOf(m, "edge")
      BY <2>2, EdgesOfFace
    <3>2. \A k \in Kinds : References("face", f)[k] =
             IF k = "edge" THEN EdgesOf(f) ELSE {}
      BY ReferencesOf
    <3> QED
      BY <3>1, <3>2
  <2>6. UNCHANGED txs
    BY <1>3 DEF AddFace
  <2>7. m' = PushOf(m, "face", f)
    BY <1>p, <2>1
  <2> QED
    BY <1>k, <1>g, <2>3, <2>4, <2>5, <2>6, <2>7
<1>4. CASE AddShell
  <2>1. PICK s \in ShellShapes(LiveOf(m, "face")) : m' = PushShell(m, s)
    BY <1>4 DEF AddShell
  <2>2. s \in Seq(LiveOf(m, "face"))
    BY <1>l, <2>1 DEF ShapesRefer
  <2>3. s \in Values("shell")
    BY <1>l, <2>2, SeqMonotonic, ValuesOf
  <2>4. IsPush(m', m, "shell", s)
    BY <2>1, PushShellArenas
  <2>5. \A k \in Kinds : References("shell", s)[k] \subseteq LiveOf(m, k)
    <3>1. ToSet(s) \subseteq LiveOf(m, "face")
      BY <2>2, ElementsOfSeq
    <3>2. \A k \in Kinds : References("shell", s)[k] =
             IF k = "face" THEN ToSet(s) ELSE {}
      BY ReferencesOf
    <3> QED
      BY <3>1, <3>2
  <2>6. UNCHANGED txs
    BY <1>4 DEF AddShell
  <2>7. m' = PushOf(m, "shell", s)
    BY <1>p, <2>1
  <2> QED
    BY <1>k, <1>g, <2>3, <2>4, <2>5, <2>6, <2>7
<1>5. CASE AddBody
  <2>1. PICK b \in BodyShapes(LiveOf(m, "shell"), LiveOf(m, "edge"), LiveOf(m, "vertex")) :
           m' = PushBody(m, b)
    BY <1>5 DEF AddBody
  <2>2. b \in [shells : Seq(LiveOf(m, "shell")), edges : Seq(LiveOf(m, "edge")),
               verts : Seq(LiveOf(m, "vertex"))]
    BY <1>l, <2>1 DEF ShapesRefer
  <2>3. b \in Values("body")
    <3>1. /\ b.shells \in Seq(Ids) /\ b.edges \in Seq(Ids) /\ b.verts \in Seq(Ids)
      BY <1>l, <2>2, SeqMonotonic
    <3>2. b = [shells |-> b.shells, edges |-> b.edges, verts |-> b.verts]
      BY <2>2
    <3>3. b \in [shells : Seq(Ids), edges : Seq(Ids), verts : Seq(Ids)]
      BY <3>1, <3>2
    <3> QED
      BY <3>3, ValuesOf
  <2>4. IsPush(m', m, "body", b)
    BY <2>1, PushBodyArenas
  <2>5. \A k \in Kinds : References("body", b)[k] \subseteq LiveOf(m, k)
    <3>1. /\ ToSet(b.shells) \subseteq LiveOf(m, "shell")
          /\ ToSet(b.edges) \subseteq LiveOf(m, "edge")
          /\ ToSet(b.verts) \subseteq LiveOf(m, "vertex")
      BY <2>2, ElementsOfSeq
    <3>2. \A k \in Kinds : References("body", b)[k] =
                CASE k = "shell"  -> ToSet(b.shells)
                  [] k = "edge"   -> ToSet(b.edges)
                  [] k = "vertex" -> ToSet(b.verts)
                  [] OTHER        -> {}
      BY ReferencesOf
    <3> QED
      BY <3>1, <3>2
  <2>6. UNCHANGED txs
    BY <1>5 DEF AddBody
  <2>7. m' = PushOf(m, "body", b)
    BY <1>p, <2>1
  <2> QED
    BY <1>k, <1>g, <2>3, <2>4, <2>5, <2>6, <2>7
<1> QED
  BY <1>1, <1>2, <1>3, <1>4, <1>5 DEF Appending

-----------------------------------------------------------------------------
(***************************************************************************)
(* Types, and that a transaction only adds.                                *)
(***************************************************************************)

\* Between the entry of a transaction and now, and between the entries of two
\* nested ones, nothing was freed.
ShapeInv ==
    /\ Typed(m)
    /\ txs \in Seq({txs[k] : k \in DOMAIN txs})
    /\ \A k \in DOMAIN txs : Typed(txs[k]) /\ Grown(m, txs[k])
    /\ \A k \in DOMAIN txs : \A j \in DOMAIN txs : j <= k => Grown(txs[k], txs[j])

LEMMA ShapeInit == Init => ShapeInv
<1> SUFFICES ASSUME Init PROVE ShapeInv
  OBVIOUS
<1>1. /\ m = [field \in Fields |-> IF field \in Kinds THEN EmptyArena ELSE <<>>]
      /\ txs = <<>>
  BY DEF Init, EmptyModel
<1>2. \A kind \in Kinds : m[kind] = EmptyArena
  BY <1>1, KindsAreFields
<1>3. \A kind \in Kinds : IsArena(EmptyArena, Values(kind))
  BY EmptyIsArena
<1>4. Typed(m)
  BY <1>1, <1>2, <1>3 DEF Typed
<1>5. DOMAIN txs = {} /\ txs \in Seq({txs[k] : k \in DOMAIN txs})
  BY <1>1, EmptySeq
<1> QED
  BY <1>4, <1>5 DEF ShapeInv

\* A step that leaves the transactions alone and only adds keeps ShapeInv.
LEMMA ShapeAdds ==
    ASSUME ShapeInv, UNCHANGED txs, Typed(m'), Grown(m', m)
    PROVE  ShapeInv'
<1>1. ASSUME NEW k \in DOMAIN txs PROVE Grown(m', txs[k])
  <2>1. Typed(m) /\ Typed(txs[k]) /\ Grown(m, txs[k])
    BY DEF ShapeInv
  <2> QED
    BY <2>1, GrownTransitive
<1> QED
  BY <1>1 DEF ShapeInv

LEMMA ShapeAppending ==
    ASSUME ShapesRefer, ShapeInv, Appending
    PROVE  ShapeInv' /\ UNCHANGED txs /\ Typed(m') /\ Grown(m', m)
<1>1. Typed(m)
  BY DEF ShapeInv
<1>2. PICK kind \in Kinds : \E v \in Values(kind) : IsPush(m', m, kind, v)
  BY <1>1, AppendedIsTyped
<1>3. Typed(m') /\ Grown(m', m)
  BY <1>1, <1>2, PushTyped
<1>4. UNCHANGED txs
  BY <1>1, AppendedIsTyped
<1> QED
  BY <1>3, <1>4, ShapeAdds

LEMMA ShapeRetain ==
    ASSUME ~ RetainInTx, ShapeInv, Retain
    PROVE  /\ ShapeInv'
           /\ txs = <<>> /\ UNCHANGED txs
           /\ \E bodies \in SUBSET LiveOf(m, "body") :
                /\ m' = RetainModel(m, bodies)
                /\ \A kind \in Kinds :
                     /\ SweptTo(m'[kind], m[kind], ReachableFrom(m, bodies, kind))
                     /\ LiveOf(m', kind) = ReachableFrom(m, bodies, kind)
                     /\ \A id \in LiveOf(m', kind) : Get(m', kind, id) = Get(m, kind, id)
<1>1. txs = <<>> /\ UNCHANGED txs
  BY DEF Retain
<1>2. PICK bodies \in SUBSET LiveOf(m, "body") : m' = RetainModel(m, bodies)
  BY DEF Retain
<1>3. Typed(m)
  BY DEF ShapeInv
<1>4. \A kind \in Kinds : ReachableFrom(m, bodies, kind) \subseteq LiveOf(m, kind)
  <2> SUFFICES ASSUME NEW kind \in Kinds, NEW b \in bodies
               PROVE  Closure(m, b)[kind] \subseteq LiveOf(m, kind)
    BY DEF ReachableFrom
  <2> QED
    BY <1>3, ClosureIsLive
<1>5. /\ Typed(m')
      /\ \A kind \in Kinds :
           /\ SweptTo(m'[kind], m[kind], ReachableFrom(m, bodies, kind))
           /\ LiveOf(m', kind) = ReachableFrom(m, bodies, kind)
           /\ \A id \in LiveOf(m', kind) : Get(m', kind, id) = Get(m, kind, id)
  BY <1>2, <1>3, <1>4, RetainArenas
<1>6. DOMAIN txs = {} /\ DOMAIN txs' = {}
  BY <1>1
<1>7. ShapeInv'
  BY <1>1, <1>5, <1>6 DEF ShapeInv
<1> QED
  BY <1>1, <1>2, <1>5, <1>7

LEMMA ShapeReload ==
    ASSUME ShapeInv, Reload
    PROVE  /\ ShapeInv'
           /\ txs = <<>> /\ UNCHANGED txs
           /\ \A kind \in Kinds : m'[kind] = m[kind]
<1>1. /\ txs = <<>> /\ UNCHANGED txs
      /\ m' = RebuildIndices([field \in DOMAIN m |->
                 IF field \in Kinds THEN ReadBack(SlotsOf(m[field]), m[field].len)
                                    ELSE m[field]])
  BY DEF Reload
<1>2. Typed(m)
  BY DEF ShapeInv
<1>3. Typed(m') /\ \A kind \in Kinds : m'[kind] = m[kind]
  BY <1>1, <1>2, ReloadArenas
<1>4. DOMAIN txs = {} /\ DOMAIN txs' = {}
  BY <1>1
<1>5. ShapeInv'
  BY <1>1, <1>3, <1>4 DEF ShapeInv
<1> QED
  BY <1>1, <1>3, <1>5

LEMMA ShapeBegin ==
    ASSUME ShapeInv, Begin
    PROVE  /\ ShapeInv'
           /\ m' = m
           /\ \A k \in DOMAIN txs' : txs'[k] = m \/ (k \in DOMAIN txs /\ txs'[k] = txs[k])
<1>1. txs' = Append(txs, m) /\ m' = m
  BY DEF Begin
<1>2. txs \in Seq({txs[k] : k \in DOMAIN txs}) /\ Typed(m)
  BY DEF ShapeInv
<1>3. /\ DOMAIN txs = 1 .. Len(txs)
      /\ Len(txs) \in Nat
      /\ txs' \in Seq({txs'[k] : k \in DOMAIN txs'})
      /\ DOMAIN txs' = 1 .. (Len(txs) + 1)
      /\ \A k \in 1 .. Len(txs) : txs'[k] = txs[k]
      /\ txs'[Len(txs) + 1] = m
  BY <1>1, <1>2, EnterTx
<1>4. \A k \in DOMAIN txs' : k \in DOMAIN txs \/ k = Len(txs) + 1
  BY <1>3
<1>5. Grown(m, m)
  BY <1>2, GrownItself
<1>6. \A k \in DOMAIN txs' : Typed(txs'[k]) /\ Grown(m, txs'[k])
  BY <1>2, <1>3, <1>4, <1>5 DEF ShapeInv
<1>7. ASSUME NEW k \in DOMAIN txs', NEW j \in DOMAIN txs', j <= k
      PROVE  Grown(txs'[k], txs'[j])
  <2>1. CASE k = Len(txs) + 1
    BY <1>3, <1>6, <2>1
  <2>2. CASE k \in DOMAIN txs
    <3>1. j \in DOMAIN txs
      BY <1>3, <1>7, <2>2
    <3> QED
      BY <1>3, <1>7, <2>2, <3>1 DEF ShapeInv
  <2> QED
    BY <1>4, <2>1, <2>2
<1>8. ShapeInv'
  BY <1>1, <1>2, <1>3, <1>6, <1>7 DEF ShapeInv
<1>9. \A k \in DOMAIN txs' : txs'[k] = m \/ (k \in DOMAIN txs /\ txs'[k] = txs[k])
  BY <1>3, <1>4
<1> QED
  BY <1>1, <1>8, <1>9

\* What is left of the transactions when the innermost returns.
LEMMA FrontOfTxs ==
    ASSUME ShapeInv, txs # <<>>, txs' = Front(txs)
    PROVE  /\ Len(txs) \in DOMAIN txs
           /\ txs' \in Seq({txs'[k] : k \in DOMAIN txs'})
           /\ \A k \in DOMAIN txs' : k \in DOMAIN txs /\ k < Len(txs) /\ txs'[k] = txs[k]
<1>1. txs \in Seq({txs[k] : k \in DOMAIN txs})
  BY DEF ShapeInv
<1>2. txs' = SubSeq(txs, 1, Len(txs) - 1)
  BY DEF Front
<1>3. /\ DOMAIN txs = 1 .. Len(txs)
      /\ Len(txs) \in Nat \ {0}
      /\ txs' \in Seq({txs'[k] : k \in DOMAIN txs'})
      /\ \A k \in DOMAIN txs' : k \in DOMAIN txs /\ k < Len(txs) /\ txs'[k] = txs[k]
  BY <1>1, <1>2, LeaveTx
<1> QED
  BY <1>3

LEMMA ShapeCommit ==
    ASSUME ShapeInv, Commit
    PROVE  /\ ShapeInv'
           /\ m' = m
           /\ \A k \in DOMAIN txs' : k \in DOMAIN txs /\ txs'[k] = txs[k]
<1>1. txs # <<>> /\ txs' = Front(txs) /\ m' = m
  BY DEF Commit
<1>2. /\ txs' \in Seq({txs'[k] : k \in DOMAIN txs'})
      /\ \A k \in DOMAIN txs' : k \in DOMAIN txs /\ txs'[k] = txs[k]
  BY <1>1, FrontOfTxs
<1>3. ShapeInv'
  BY <1>1, <1>2 DEF ShapeInv
<1> QED
  BY <1>1, <1>2, <1>3

LEMMA ShapeAbort ==
    ASSUME ShapeInv, Abort
    PROVE  /\ ShapeInv'
           /\ Len(txs) \in DOMAIN txs
           /\ m' = RollbackModel(m, MarksOf(txs[Len(txs)]))
           /\ \A kind \in Kinds : m'[kind] = txs[Len(txs)][kind]
           /\ \A k \in DOMAIN txs' : /\ k \in DOMAIN txs /\ k < Len(txs)
                                     /\ txs'[k] = txs[k]
<1>1. txs # <<>> /\ txs' = Front(txs) /\ m' = RollbackModel(m, MarksOf(txs[Len(txs)]))
  BY DEF Abort, Innermost
<1>2. /\ Len(txs) \in DOMAIN txs
      /\ txs' \in Seq({txs'[k] : k \in DOMAIN txs'})
      /\ \A k \in DOMAIN txs' : k \in DOMAIN txs /\ k < Len(txs) /\ txs'[k] = txs[k]
  BY <1>1, FrontOfTxs
<1>3. Typed(m) /\ Typed(txs[Len(txs)]) /\ Grown(m, txs[Len(txs)])
  BY <1>2 DEF ShapeInv
<1>4. Typed(m') /\ \A kind \in Kinds : m'[kind] = txs[Len(txs)][kind]
  BY <1>1, <1>3, RollbackArenas
<1>5. \A k \in DOMAIN txs' : Grown(m', txs'[k])
  <2> SUFFICES ASSUME NEW k \in DOMAIN txs' PROVE Grown(m', txs'[k])
    OBVIOUS
  <2>1. k \in DOMAIN txs /\ k < Len(txs) /\ txs'[k] = txs[k]
    BY <1>2
  <2>2. txs[Len(txs)] = txs[Len(txs)] /\ k <= Len(txs)
    <3>1. k \in Nat /\ Len(txs) \in Nat
      BY LeaveTx, <1>1, <2>1 DEF ShapeInv
    <3> QED
      BY <2>1, <3>1
  <2>3. Grown(txs[Len(txs)], txs[k])
    BY <1>2, <2>1, <2>2 DEF ShapeInv
  <2> QED
    BY <1>4, <2>1, <2>3 DEF Grown
<1>6. ShapeInv'
  BY <1>2, <1>4, <1>5 DEF ShapeInv
<1> QED
  BY <1>1, <1>2, <1>4, <1>6

LEMMA ShapeNext == ShapesRefer /\ ~ RetainInTx /\ ShapeInv /\ [Next]_vars => ShapeInv'
<1> SUFFICES ASSUME ShapesRefer, ~ RetainInTx, ShapeInv, [Next]_vars PROVE ShapeInv'
  OBVIOUS
<1>1. CASE UNCHANGED vars
  BY <1>1 DEF vars, ShapeInv
<1> QED
  BY <1>1, ShapeAppending, ShapeRetain, ShapeReload, ShapeBegin, ShapeCommit, ShapeAbort
     DEF Next, Appending

-----------------------------------------------------------------------------
(***************************************************************************)
(* References resolve, where no entity is appended with one that does not. *)
(***************************************************************************)

RefInv == /\ ShapeInv
          /\ RefsResolve(m)
          /\ \A k \in DOMAIN txs : RefsResolve(txs[k])

\* What the references of a model say is said of its arenas alone.
LEMMA RefsOfArenas ==
    ASSUME NEW x, NEW y, RefsResolve(x), \A kind \in Kinds : y[kind] = x[kind]
    PROVE  RefsResolve(y)
BY DEF RefsResolve, LiveOf, Get

LEMMA RefsAfterPush ==
    ASSUME NEW x, Typed(x), RefsResolve(x), NEW kind \in Kinds,
           NEW v \in Values(kind), NEW y, IsPush(y, x, kind, v),
           \A k \in Kinds : References(kind, v)[k] \subseteq LiveOf(x, k)
    PROVE  RefsResolve(y)
<1>1. IsArena(x[kind], Values(kind)) /\ y[kind] = Push(x[kind], v)
  BY DEF Typed, IsPush
<1>2. PICK new \in LiveIds(y[kind]) :
         /\ LiveIds(y[kind]) = LiveIds(x[kind]) \cup {new}
         /\ y[kind].val[new.slot] = v
         /\ \A id \in LiveIds(x[kind]) : y[kind].val[id.slot] = x[kind].val[id.slot]
  BY <1>1, LiveAfterPush
<1>3. \A k \in Kinds : LiveOf(x, k) \subseteq LiveOf(y, k)
  BY <1>2 DEF LiveOf, IsPush
<1>4. ASSUME NEW k \in Kinds, NEW id \in LiveOf(y, k), NEW j \in Kinds
      PROVE  References(k, Get(y, k, id))[j] \subseteq LiveOf(x, j)
  <2>1. CASE id \in LiveOf(x, k)
    <3>1. Get(y, k, id) = Get(x, k, id)
      BY <1>2, <2>1 DEF Get, LiveOf, IsPush
    <3> QED
      BY <2>1, <3>1 DEF RefsResolve
  <2>2. CASE id \notin LiveOf(x, k)
    <3>1. k = kind /\ id = new
      BY <1>2, <2>2 DEF LiveOf, IsPush
    <3> QED
      BY <1>2, <3>1 DEF Get
  <2> QED
    BY <2>1, <2>2
<1> QED
  BY <1>3, <1>4 DEF RefsResolve

LEMMA RefsAfterRetain ==
    ASSUME NEW x, RefsResolve(x), NEW bodies \in SUBSET LiveOf(x, "body"), NEW y,
           \A kind \in Kinds :
             /\ LiveOf(y, kind) = ReachableFrom(x, bodies, kind)
             /\ \A id \in LiveOf(y, kind) : Get(y, kind, id) = Get(x, kind, id)
    PROVE  RefsResolve(y)
<1> SUFFICES ASSUME NEW kind \in Kinds, NEW id \in LiveOf(y, kind), NEW k \in Kinds
             PROVE  References(kind, Get(y, kind, id))[k] \subseteq LiveOf(y, k)
  BY DEF RefsResolve
<1>1. PICK b \in bodies : id \in Closure(x, b)[kind]
  BY DEF ReachableFrom
<1>2. References(kind, Get(x, kind, id))[k] \subseteq Closure(x, b)[k]
  BY <1>1, ClosureIsClosed
<1>3. Closure(x, b)[k] \subseteq LiveOf(y, k)
  BY DEF ReachableFrom
<1> QED
  BY <1>2, <1>3

LEMMA RefNext ==
    ShapesRefer /\ ~ RetainInTx /\ ~ Dangling /\ RefInv /\ [Next]_vars => RefInv'
<1> SUFFICES ASSUME ShapesRefer, ~ RetainInTx, ~ Dangling, RefInv, [Next]_vars
             PROVE  RefInv'
  OBVIOUS
<1>0. /\ ShapeInv /\ ShapeInv' /\ RefsResolve(m)
      /\ \A k \in DOMAIN txs : RefsResolve(txs[k])
  BY ShapeNext DEF RefInv
<1>1. CASE Appending
  <2>1. Typed(m)
    BY <1>0 DEF ShapeInv
  <2>2. PICK kind \in Kinds : \E v \in Values(kind) :
           /\ IsPush(m', m, kind, v)
           /\ \A k \in Kinds : References(kind, v)[k] \subseteq Given(k)
    BY <1>1, <2>1, AppendedIsTyped
  <2>3. PICK v \in Values(kind) :
           /\ IsPush(m', m, kind, v)
           /\ \A k \in Kinds : References(kind, v)[k] \subseteq LiveOf(m, k)
    BY <2>2 DEF Given
  <2>4. RefsResolve(m')
    BY <1>0, <2>1, <2>3, RefsAfterPush
  <2>5. UNCHANGED txs
    BY <1>1, <2>1, AppendedIsTyped
  <2> QED
    BY <1>0, <2>4, <2>5 DEF RefInv
<1>2. CASE Retain
  <2>1. txs = <<>> /\ UNCHANGED txs
    BY <1>0, <1>2, ShapeRetain
  <2>2. PICK bodies \in SUBSET LiveOf(m, "body") :
           \A kind \in Kinds :
             /\ LiveOf(m', kind) = ReachableFrom(m, bodies, kind)
             /\ \A id \in LiveOf(m', kind) : Get(m', kind, id) = Get(m, kind, id)
    BY <1>0, <1>2, ShapeRetain
  <2>3. RefsResolve(m')
    BY <1>0, <2>2, RefsAfterRetain
  <2> QED
    BY <1>0, <2>1, <2>3 DEF RefInv
<1>3. CASE Reload
  BY <1>0, <1>3, ShapeReload, RefsOfArenas DEF RefInv
<1>4. CASE Begin
  BY <1>0, <1>4, ShapeBegin DEF RefInv
<1>5. CASE Commit
  BY <1>0, <1>5, ShapeCommit DEF RefInv
<1>6. CASE Abort
  <2>1. /\ Len(txs) \in DOMAIN txs
        /\ \A kind \in Kinds : m'[kind] = txs[Len(txs)][kind]
        /\ \A k \in DOMAIN txs' : k \in DOMAIN txs /\ txs'[k] = txs[k]
    BY <1>0, <1>6, ShapeAbort
  <2>2. RefsResolve(m')
    BY <1>0, <2>1, RefsOfArenas
  <2> QED
    BY <1>0, <2>1, <2>2 DEF RefInv
<1>7. CASE UNCHANGED vars
  BY <1>0, <1>7 DEF vars, RefInv
<1> QED
  BY <1>1, <1>2, <1>3, <1>4, <1>5, <1>6, <1>7 DEF Next, Appending

\* Whatever is appended, retained, reloaded and rolled back in whatever order,
\* every reference of a live entity resolves: `retain` keeps what it keeps
\* together with all that stands under it, and a slot it empties is not taken
\* for the entity that was there.  The hypotheses are that appends are given
\* live ids (`Dangling` is the raw insert that may not be) and that no closure
\* of a transaction calls `retain`.
THEOREM ReferencesHold ==
    ASSUME ShapesRefer, ~ RetainInTx, ~ Dangling
    PROVE  Spec => []ReferencesResolve
<1>1. Init => RefInv
  <2> SUFFICES ASSUME Init PROVE RefInv
    OBVIOUS
  <2>1. /\ ShapeInv
        /\ m = [field \in Fields |-> IF field \in Kinds THEN EmptyArena ELSE <<>>]
        /\ txs = <<>>
    BY ShapeInit DEF Init, EmptyModel
  <2>2. \A kind \in Kinds : LiveOf(m, kind) = {}
    <3>1. \A kind \in Kinds : m[kind] = EmptyArena
      BY <2>1, KindsAreFields
    <3> QED
      BY <3>1 DEF LiveOf, LiveIds, Occupied, EmptyArena, EmptyFun
  <2>3. RefsResolve(m)
    BY <2>2 DEF RefsResolve
  <2>4. DOMAIN txs = {}
    BY <2>1
  <2> QED
    BY <2>1, <2>3, <2>4 DEF RefInv
<1>2. RefInv /\ [Next]_vars => RefInv'
  BY RefNext
<1>3. RefInv => ReferencesResolve
  BY DEF RefInv, ReferencesResolve
<1> QED
  BY <1>1, <1>2, <1>3, PTL DEF Spec

-----------------------------------------------------------------------------
(***************************************************************************)
(* A list of entries, one per place, in some order.                        *)
(***************************************************************************)

\* l holds entry[p] once for every place p of P.
Lists(l, entry, P) ==
    \E o : /\ Enumerates(o, P)
           /\ l = [n \in 1 .. Len(o) |-> entry[o[n]]]

\* The entries of the two kinds of list.
OwnerEntry(a) == [p \in Triples |-> IdOf(a, p[1])]
UseEntry(a) == [p \in Triples |-> [face |-> IdOf(a, p[1]), at |-> <<p[2], p[3]>>]]

LEMMA OwnersLists ==
    ASSUME NEW a, NEW P \in SUBSET Triples, IsFiniteSet(P)
    PROVE  Lists(Owners(a, P), OwnerEntry(a), P)
<1> DEFINE o == InOrder(P)
<1>1. Enumerates(o, P)
  BY InOrderEnumerates
<1>2. DOMAIN o = 1 .. Len(o) /\ \A n \in 1 .. Len(o) : o[n] \in Triples
  BY <1>1, LenProperties, ElementOfSeq DEF Enumerates
<1>3. Owners(a, P) = [n \in DOMAIN o |-> IdOf(a, o[n][1])]
  BY DEF Owners
<1> HIDE DEF o
<1>4. Owners(a, P) = [n \in 1 .. Len(o) |-> OwnerEntry(a)[o[n]]]
  BY <1>2, <1>3 DEF OwnerEntry
<1> QED
  BY <1>1, <1>4 DEF Lists

LEMMA UsesLists ==
    ASSUME NEW a, NEW P \in SUBSET Triples, IsFiniteSet(P)
    PROVE  Lists(Uses(a, P), UseEntry(a), P)
<1> DEFINE o == InOrder(P)
<1>1. Enumerates(o, P)
  BY InOrderEnumerates
<1>2. DOMAIN o = 1 .. Len(o) /\ \A n \in 1 .. Len(o) : o[n] \in Triples
  BY <1>1, LenProperties, ElementOfSeq DEF Enumerates
<1>3. Uses(a, P) = [n \in DOMAIN o |->
                      [face |-> IdOf(a, o[n][1]), at |-> <<o[n][2], o[n][3]>>]]
  BY DEF Uses
<1> HIDE DEF o
<1>4. Uses(a, P) = [n \in 1 .. Len(o) |-> UseEntry(a)[o[n]]]
  BY <1>2, <1>3 DEF UseEntry
<1> QED
  BY <1>1, <1>4 DEF Lists

\* A list is a sequence of the entries of its places, none left out.
LEMMA ListElements ==
    ASSUME NEW l, NEW entry, NEW P, Lists(l, entry, P)
    PROVE  /\ Len(l) \in Nat /\ DOMAIN l = 1 .. Len(l)
           /\ \A n \in 1 .. Len(l) : \E p \in P : l[n] = entry[p]
           /\ \A p \in P : \E n \in 1 .. Len(l) : l[n] = entry[p]
           /\ \A E : (\A p \in P : entry[p] \in E) => l \in Seq(E)
<1>1. PICK o : /\ Enumerates(o, P)
               /\ l = [n \in 1 .. Len(o) |-> entry[o[n]]]
  BY DEF Lists
<1>2. o \in Seq(P) /\ Len(o) \in Nat
  BY <1>1, LenProperties DEF Enumerates
<1>3. \A n \in 1 .. Len(o) : o[n] \in P
  BY <1>2, ElementOfSeq
<1>4. l = [n \in 1 .. Len(o) |-> l[n]] /\ Len(l) = Len(o)
  BY <1>1, <1>2
<1>5. ASSUME NEW E, \A p \in P : entry[p] \in E PROVE l \in Seq(E)
  <2>1. l \in [1 .. Len(o) -> E]
    BY <1>1, <1>3, <1>4, <1>5
  <2> QED
    BY <1>2, <2>1
<1>6. \A p \in P : \E n \in 1 .. Len(o) : o[n] = p
  BY <1>1 DEF Enumerates
<1> QED
  BY <1>1, <1>2, <1>3, <1>4, <1>5, <1>6

LEMMA ListsSame ==
    ASSUME NEW l, NEW entry, NEW P, Lists(l, entry, P),
           NEW other, \A p \in P : other[p] = entry[p]
    PROVE  Lists(l, other, P)
<1>1. PICK o : /\ Enumerates(o, P)
               /\ l = [n \in 1 .. Len(o) |-> entry[o[n]]]
  BY DEF Lists
<1>2. \A n \in 1 .. Len(o) : o[n] \in P
  BY <1>1, ElementOfSeq DEF Enumerates
<1>3. l = [n \in 1 .. Len(o) |-> other[o[n]]]
  BY <1>1, <1>2
<1> QED
  BY <1>1, <1>3 DEF Lists

LEMMA ListsHolds ==
    ASSUME NEW l, NEW entry, NEW P, Lists(l, entry, P), NEW e
    PROVE  e \in ToSet(l) <=> \E p \in P : e = entry[p]
<1>1. /\ DOMAIN l = 1 .. Len(l)
      /\ \A n \in 1 .. Len(l) : \E p \in P : l[n] = entry[p]
      /\ \A p \in P : \E n \in 1 .. Len(l) : l[n] = entry[p]
  BY ListElements
<1>2. e \in ToSet(l) <=> \E n \in DOMAIN l : e = l[n]
  BY DEF ToSet
<1> QED
  BY <1>1, <1>2

\* An entry is in the list as often as there are places with that entry.
Positions(l, e) == {k \in DOMAIN l : l[k] = e}
PlacesWith(entry, P, e) == {p \in P : entry[p] = e}

LEMMA ListsCount ==
    ASSUME NEW l, NEW entry, NEW P, Lists(l, entry, P), NEW e
    PROVE  Cardinality(Positions(l, e)) = Cardinality(PlacesWith(entry, P, e))
<1> DEFINE S == {k \in DOMAIN l : l[k] = e}
           T == {p \in P : entry[p] = e}
<1>1. PICK o : /\ Enumerates(o, P)
               /\ l = [n \in 1 .. Len(o) |-> entry[o[n]]]
  BY DEF Lists
<1>2. /\ Len(o) \in Nat
      /\ \A n \in 1 .. Len(o) : o[n] \in P
      /\ \A p \in P : \E n \in 1 .. Len(o) : o[n] = p
      /\ \A i, j \in 1 .. Len(o) : o[i] = o[j] => i = j
  BY <1>1, LenProperties, ElementOfSeq DEF Enumerates
<1>3. DOMAIN l = 1 .. Len(o) /\ \A n \in 1 .. Len(o) : l[n] = entry[o[n]]
  BY <1>1
<1> DEFINE f == [k \in S |-> o[k]]
<1>4. f \in [S -> T]
  BY <1>2, <1>3
<1>5. \A i, j \in S : f[i] = f[j] => i = j
  BY <1>2, <1>3
<1>6. \A t \in T : \E k \in S : f[k] = t
  BY <1>2, <1>3
<1>7. S \in SUBSET (1 .. Len(o))
  BY <1>3
<1> HIDE DEF S, T, f
<1>8. f \in Bijection(S, T)
  BY <1>4, <1>5, <1>6, Fun_IsBij
<1>9. IsFiniteSet(S)
  <2>1. IsFiniteSet(1 .. Len(o))
    BY <1>2, FS_Interval
  <2> QED
    BY <1>7, <2>1, FS_Subset
<1>10. Cardinality(T) = Cardinality(S)
  BY <1>8, <1>9, FS_Bijection DEF ExistsBijection
<1> QED
  BY <1>10 DEF S, T, Positions, PlacesWith

\* The places of a list all have entries of their own.
Apart(entry, P) == \A p, q \in P : entry[p] = entry[q] => p = q

LEMMA ListsOnce ==
    ASSUME NEW l, NEW entry, NEW P, Lists(l, entry, P), Apart(entry, P)
    PROVE  Cardinality(ToSet(l)) = Len(l)
<1>1. PICK o : /\ Enumerates(o, P)
               /\ l = [n \in 1 .. Len(o) |-> entry[o[n]]]
  BY DEF Lists
<1>2. /\ Len(o) \in Nat
      /\ \A n \in 1 .. Len(o) : o[n] \in P
      /\ \A i, j \in 1 .. Len(o) : o[i] = o[j] => i = j
  BY <1>1, LenProperties, ElementOfSeq DEF Enumerates
<1>3. /\ DOMAIN l = 1 .. Len(o) /\ Len(l) = Len(o)
      /\ \A n \in 1 .. Len(o) : l[n] = entry[o[n]]
  BY <1>1, <1>2
<1> DEFINE N == 1 .. Len(o)
           f == [n \in N |-> l[n]]
<1>4. ToSet(l) = {l[n] : n \in N}
  BY <1>3 DEF ToSet
<1>5. \A i, j \in N : l[i] = l[j] => i = j
  BY <1>2, <1>3 DEF Apart
<1>6. IsFiniteSet(N) /\ Cardinality(N) = Len(o)
  <2>1. ASSUME NEW n \in Nat PROVE IsFiniteSet(1 .. n) /\ Cardinality(1 .. n) = n
    <3>1. 1 \in Int /\ n \in Int
      OBVIOUS
    <3>2. IsFiniteSet(1 .. n) /\ Cardinality(1 .. n) = IF 1 > n THEN 0 ELSE n - 1 + 1
      BY <3>1, FS_Interval
    <3> QED
      BY <3>2
  <2> QED
    BY <1>2, <2>1
<1> HIDE DEF N
<1>7. f \in [N -> ToSet(l)] /\ \A t \in ToSet(l) : \E n \in N : f[n] = t
  BY <1>4
<1>8. \A i, j \in N : f[i] = f[j] => i = j
  BY <1>5
<1> HIDE DEF f
<1>9. f \in Bijection(N, ToSet(l))
  BY <1>7, <1>8, Fun_IsBij
<1>10. Cardinality(ToSet(l)) = Cardinality(N)
  BY <1>6, <1>9, FS_Bijection DEF ExistsBijection
<1> QED
  BY <1>3, <1>6, <1>10

LEMMA ListsNothing ==
    ASSUME NEW entry
    PROVE  Lists(<<>>, entry, {})
<1>1. <<>> \in Seq({}) /\ Len(<<>>) = 0
  BY EmptySeq
<1>2. 1 .. 0 = {}
  OBVIOUS
<1>3. Enumerates(<<>>, {})
  BY <1>1, <1>2 DEF Enumerates
<1>4. <<>> = [n \in 1 .. Len(<<>>) |-> entry[<<>>[n]]]
  BY <1>1, <1>2
<1> QED
  BY <1>3, <1>4 DEF Lists

LEMMA ListsOne ==
    ASSUME NEW entry, NEW p
    PROVE  Lists(<<entry[p]>>, entry, {p})
<1> DEFINE o == <<p>>
<1>1. o \in Seq({p}) /\ Len(o) = 1 /\ o[1] = p
  OBVIOUS
<1>2. 1 .. 1 = {1}
  OBVIOUS
<1> HIDE DEF o
<1>3. Enumerates(o, {p})
  BY <1>1, <1>2 DEF Enumerates
<1>4. <<entry[p]>> = [n \in 1 .. Len(o) |-> entry[o[n]]]
  BY <1>1, <1>2
<1> QED
  BY <1>3, <1>4 DEF Lists

\* Lists of different places, one behind the other.
LEMMA ListsConcat ==
    ASSUME NEW l, NEW k, NEW entry, NEW P, NEW Q,
           Lists(l, entry, P), Lists(k, entry, Q), P \cap Q = {}
    PROVE  Lists(l \o k, entry, P \cup Q)
<1>1. PICK o : /\ Enumerates(o, P)
               /\ l = [n \in 1 .. Len(o) |-> entry[o[n]]]
  BY DEF Lists
<1>2. PICK u : /\ Enumerates(u, Q)
               /\ k = [n \in 1 .. Len(u) |-> entry[u[n]]]
  BY DEF Lists
<1> DEFINE R == P \cup Q
           E == {entry[p] : p \in R}
<1>3. /\ o \in Seq(R) /\ Len(o) \in Nat /\ \A n \in 1 .. Len(o) : o[n] \in P
      /\ u \in Seq(R) /\ Len(u) \in Nat /\ \A n \in 1 .. Len(u) : u[n] \in Q
  BY <1>1, <1>2, LenProperties, ElementOfSeq, SeqMonotonic DEF Enumerates
<1>4. /\ l \in Seq(E) /\ Len(l) = Len(o)
      /\ k \in Seq(E) /\ Len(k) = Len(u)
  <2>1. l \in [1 .. Len(o) -> E] /\ k \in [1 .. Len(u) -> E]
    BY <1>1, <1>2, <1>3
  <2> HIDE DEF E
  <2>2. l \in Seq(E) /\ Len(l) = Len(o)
    BY <1>3, <2>1
  <2>3. k \in Seq(E) /\ Len(k) = Len(u)
    BY <1>3, <2>1
  <2> QED
    BY <2>2, <2>3
<1> DEFINE w == o \o u
           N == Len(o) + Len(u)
<1> HIDE DEF R, E
<1>5. /\ w \in Seq(R)
      /\ Len(w) = N
      /\ \A n \in 1 .. N : w[n] = IF n <= Len(o) THEN o[n] ELSE u[n - Len(o)]
  BY <1>3, ConcatProperties
<1>6. /\ l \o k \in Seq(E)
      /\ Len(l \o k) = N
      /\ \A n \in 1 .. N : (l \o k)[n] = IF n <= Len(o) THEN l[n] ELSE k[n - Len(o)]
  <2> HIDE DEF w
  <2>1. /\ l \o k \in Seq(E)
        /\ Len(l \o k) = Len(l) + Len(k)
        /\ \A n \in 1 .. Len(l) + Len(k) :
              (l \o k)[n] = IF n <= Len(l) THEN l[n] ELSE k[n - Len(l)]
    BY <1>4, ConcatProperties
  <2> QED
    BY <1>4, <2>1
<1> HIDE DEF w
<1>7. \A n \in 1 .. N : \/ n \in 1 .. Len(o)
                        \/ ~ (n <= Len(o)) /\ n - Len(o) \in 1 .. Len(u)
  BY <1>3
<1>8. \A p \in R : \E n \in 1 .. N : w[n] = p
  <2> SUFFICES ASSUME NEW p \in R PROVE \E n \in 1 .. N : w[n] = p
    OBVIOUS
  <2>1. CASE p \in P
    <3>1. PICK n \in 1 .. Len(o) : o[n] = p
      BY <1>1, <2>1 DEF Enumerates
    <3>2. n \in 1 .. N /\ n <= Len(o)
      BY <1>3
    <3> QED
      BY <1>5, <3>1, <3>2
  <2>2. CASE p \in Q
    <3>1. PICK n \in 1 .. Len(u) : u[n] = p
      BY <1>2, <2>2 DEF Enumerates
    <3>2. /\ n + Len(o) \in 1 .. N /\ ~ (n + Len(o) <= Len(o))
          /\ (n + Len(o)) - Len(o) = n
      BY <1>3
    <3> QED
      BY <1>5, <3>1, <3>2
  <2> QED
    BY <2>1, <2>2 DEF R
<1>9. ASSUME NEW i \in 1 .. N, NEW j \in 1 .. N, w[i] = w[j]
      PROVE  i = j
  <2>1. CASE i <= Len(o) /\ j <= Len(o)
    <3>1. i \in 1 .. Len(o) /\ j \in 1 .. Len(o) /\ o[i] = o[j]
      BY <1>5, <1>7, <1>9, <2>1
    <3> QED
      BY <1>1, <3>1 DEF Enumerates
  <2>2. CASE ~ (i <= Len(o)) /\ ~ (j <= Len(o))
    <3>1. /\ i - Len(o) \in 1 .. Len(u) /\ j - Len(o) \in 1 .. Len(u)
          /\ u[i - Len(o)] = u[j - Len(o)]
      BY <1>3, <1>5, <1>7, <1>9, <2>2
    <3>2. i - Len(o) = j - Len(o)
      BY <1>2, <3>1 DEF Enumerates
    <3> QED
      BY <1>3, <3>2
  <2>3. CASE i <= Len(o) /\ ~ (j <= Len(o))
    <3>2. w[i] = o[i] /\ i \in 1 .. Len(o)
      BY <1>3, <1>5, <2>3
    <3>3. w[j] = u[j - Len(o)] /\ j - Len(o) \in 1 .. Len(u)
      BY <1>5, <1>7, <2>3
    <3>1. w[i] \in P /\ w[j] \in Q
      BY <1>3, <3>2, <3>3
    <3> QED
      BY <1>9, <3>1
  <2>4. CASE ~ (i <= Len(o)) /\ j <= Len(o)
    <3>1. i - Len(o) \in 1 .. Len(u) /\ j \in 1 .. Len(o)
      BY <1>7, <2>4
    <3>2. w[i] \in Q
      BY <1>3, <1>5, <2>4, <3>1
    <3>3. w[j] \in P
      BY <1>3, <1>5, <2>4, <3>1
    <3> QED
      BY <1>9, <3>2, <3>3
  <2> QED
    BY <2>1, <2>2, <2>3, <2>4
<1>10. Enumerates(w, R)
  BY <1>5, <1>8, <1>9 DEF Enumerates
<1>11. l \o k = [n \in 1 .. Len(w) |-> entry[w[n]]]
  <2>1. ASSUME NEW n \in 1 .. N PROVE (l \o k)[n] = entry[w[n]]
    <3>1. CASE n \in 1 .. Len(o)
      <4>1. (l \o k)[n] = l[n] /\ w[n] = o[n]
        BY <1>3, <1>5, <1>6, <3>1
      <4> QED
        BY <1>1, <3>1, <4>1
    <3>2. CASE ~ (n <= Len(o)) /\ n - Len(o) \in 1 .. Len(u)
      <4>1. (l \o k)[n] = k[n - Len(o)] /\ w[n] = u[n - Len(o)]
        BY <1>3, <1>5, <1>6, <3>2
      <4> QED
        BY <1>2, <3>2, <4>1
    <3> QED
      BY <1>7, <3>1, <3>2
  <2>2. DOMAIN (l \o k) = 1 .. N /\ l \o k = [n \in 1 .. N |-> (l \o k)[n]]
    BY <1>6, LenProperties
  <2> QED
    BY <1>5, <2>1, <2>2
<1> QED
  BY <1>10, <1>11 DEF Lists, R

-----------------------------------------------------------------------------
(***************************************************************************)
(* What a rollback leaves of a list, and of a vector of lists.             *)
(***************************************************************************)

\* l begins with all of k.
Prolongs(l, k) == /\ Len(k) <= Len(l)
                  /\ \A n \in 1 .. Len(k) : l[n] = k[n]

LEMMA PopToPrefix ==
    ASSUME NEW E, NEW l \in Seq(E), NEW k \in Seq(E), Prolongs(l, k),
           NEW staying, staying = 1 .. Len(k)
    PROVE  PopTo(l, staying) = k
<1> DEFINE N == Len(k)
           S == {0} \cup staying
<1>1. N \in Nat /\ Len(l) \in Nat /\ N <= Len(l)
  BY LenProperties DEF Prolongs
<1>2. Max(S) = N
  <2>1. N \in S /\ \A y \in S : N >= y
    BY <1>1
  <2>2. \A x \in S : (\A y \in S : x >= y) => x = N
    BY <1>1, <2>1
  <2>3. Max(S) \in S /\ \A y \in S : Max(S) >= y
    <3> HIDE DEF S, N
    <3> QED
      BY <2>1 DEF Max
  <2> HIDE DEF S, N
  <2> QED
    BY <2>2, <2>3
<1>3. PopTo(l, staying) = SubSeq(l, 1, N)
  BY <1>2 DEF PopTo
<1> HIDE DEF N
<1>4. \A i \in 1 .. N : l[i] \in E /\ l[i] = k[i]
  <2>1. \A i \in 1 .. N : i \in 1 .. Len(l)
    BY <1>1
  <2> QED
    BY <2>1, ElementOfSeq DEF Prolongs, N
<1> DEFINE u == SubSeq(l, 1, N)
<1>5. /\ u \in Seq(E)
      /\ Len(u) = N
      /\ \A i \in 1 .. N : u[i] = l[i]
  BY <1>1, <1>4, SubSeqProperties
<1> HIDE DEF u
<1>6. u = k
  BY <1>4, <1>5, SeqEqual DEF N
<1> QED
  BY <1>3, <1>6 DEF u

LEMMA CutProperties ==
    ASSUME NEW E, NEW v \in Seq(E), NEW c \in Nat, c <= Len(v)
    PROVE  /\ CutTo(v, c) \in Seq(E)
           /\ Len(CutTo(v, c)) = c
           /\ \A s \in 1 .. c : CutTo(v, c)[s] = v[s]
<1>1. Len(v) \in Nat
  BY LenProperties
<1>2. CutTo(v, c) = SubSeq(v, 1, c)
  BY <1>1 DEF CutTo
<1>3. \A i \in 1 .. c : v[i] \in E
  <2>1. \A i \in 1 .. c : i \in 1 .. Len(v)
    BY <1>1
  <2> QED
    BY <2>1, ElementOfSeq
<1> DEFINE u == SubSeq(v, 1, c)
<1>4. /\ u \in Seq(E)
      /\ Len(u) = c
      /\ \A i \in 1 .. c : u[i] = v[i]
  BY <1>3, SubSeqProperties
<1> QED
  BY <1>2, <1>4

LEMMA CutSame ==
    ASSUME NEW E, NEW v \in Seq(E), NEW w \in Seq(E), NEW c \in Nat,
           c <= Len(v), c <= Len(w), \A s \in 1 .. c : v[s] = w[s]
    PROVE  CutTo(v, c) = CutTo(w, c)
<1> DEFINE p == CutTo(v, c)
           q == CutTo(w, c)
<1>1. /\ p \in Seq(E) /\ Len(p) = c /\ \A s \in 1 .. c : p[s] = v[s]
      /\ q \in Seq(E) /\ Len(q) = c /\ \A s \in 1 .. c : q[s] = w[s]
  BY CutProperties
<1> HIDE DEF p, q
<1>2. \A s \in 1 .. Len(p) : p[s] = q[s]
  BY <1>1
<1>3. p = q
  BY <1>1, <1>2, SeqEqual
<1> QED
  BY <1>3 DEF p, q

LEMMA CutTwice ==
    ASSUME NEW E, NEW v \in Seq(E), NEW c \in Nat, c <= Len(v)
    PROVE  CutTo(CutTo(v, c), c) = CutTo(v, c)
<1> DEFINE u == CutTo(v, c)
<1>1. u \in Seq(E) /\ Len(u) = c
  BY CutProperties
<1>2. CutTo(u, c) = SubSeq(u, 1, Len(u))
  BY <1>1 DEF CutTo
<1> HIDE DEF u
<1>3. SubSeq(u, 1, Len(u)) = u
  BY <1>1, SubSeqFull
<1> QED
  BY <1>2, <1>3 DEF u

-----------------------------------------------------------------------------
(***************************************************************************)
(* The lists of a model.                                                   *)
(***************************************************************************)

IndexFields == {"vertex_edges", "edge_uses", "face_shells"}

Owner(field) == CASE field = "vertex_edges" -> "edge"
                  [] field = "edge_uses"    -> "face"
                  [] field = "face_shells"  -> "shell"
Listed(field) == CASE field = "vertex_edges" -> "vertex"
                   [] field = "edge_uses"    -> "edge"
                   [] field = "face_shells"  -> "face"

\* The places of the entity v in slot i that refer to a slot, and of all.
PlacesBy(x, field, i, v, slot) ==
    CASE field = "vertex_edges" -> EndPlaces(x, i, v, slot)
      [] field = "edge_uses"    -> UsePlaces(x, i, v, slot)
      [] field = "face_shells"  -> ShellPlaces(x, i, v, slot)
PlacesIn(x, field, slot) ==
    CASE field = "vertex_edges" -> EndsIn(x, slot)
      [] field = "edge_uses"    -> UsesIn(x, slot)
      [] field = "face_shells"  -> ShellsIn(x, slot)

\* The references of v that a list is about.
Refs(field, v) == References(Owner(field), v)[Listed(field)]

\* The entry of a place, and the slot of the entity it speaks of.
Entry(x, field) == IF field = "edge_uses" THEN UseEntry(x["face"])
                                          ELSE OwnerEntry(x[Owner(field)])
EntrySet(field) == IF field = "edge_uses" THEN [face : Ids, at : Nat \X Nat] ELSE Ids
OwnerSlot(field, entry) == IF field = "edge_uses" THEN entry.face.slot ELSE entry.slot

LEMMA FieldFacts ==
    ASSUME NEW field \in IndexFields
    PROVE  /\ Owner(field) \in Kinds /\ Listed(field) \in Kinds
           /\ Owner(field) # Listed(field)
           /\ field \in Fields /\ field \notin Kinds
           /\ field = "vertex_edges" => Owner(field) = "edge" /\ Listed(field) = "vertex"
           /\ field = "edge_uses" => Owner(field) = "face" /\ Listed(field) = "edge"
           /\ field = "face_shells" => Owner(field) = "shell" /\ Listed(field) = "face"
           /\ field = "vertex_edges" \/ field = "edge_uses" \/ field = "face_shells"
BY DEF IndexFields, Owner, Listed, Kinds, Fields

LEMMA RefsOf ==
    ASSUME NEW v
    PROVE  /\ Refs("vertex_edges", v) = {v.start, v.end}
           /\ Refs("edge_uses", v) = EdgesOf(v)
           /\ Refs("face_shells", v) = ToSet(v)
<1>1. "vertex" \in Kinds /\ "edge" \in Kinds /\ "face" \in Kinds
  BY DEF Kinds
<1>2. /\ Refs("vertex_edges", v) = References("edge", v)["vertex"]
      /\ Refs("edge_uses", v) = References("face", v)["edge"]
      /\ Refs("face_shells", v) = References("shell", v)["face"]
  BY DEF Refs, Owner, Listed
<1> QED
  BY <1>1, <1>2, ReferencesOf

-----------------------------------------------------------------------------
(***************************************************************************)
(* The places of one entity.                                               *)
(***************************************************************************)

LEMMA ReferencesTyped ==
    ASSUME NEW kind \in Kinds, NEW v \in Values(kind), NEW k \in Kinds
    PROVE  References(kind, v)[k] \subseteq Ids
<1>1. CASE kind = "vertex"
  BY <1>1, ReferencesOf
<1>2. CASE kind = "edge"
  <2>1. v.start \in Ids /\ v.end \in Ids
    BY <1>2, ValuesOf
  <2>2. References(kind, v)[k] = IF k = "vertex" THEN {v.start, v.end} ELSE {}
    BY <1>2, ReferencesOf
  <2> QED
    BY <2>1, <2>2
<1>3. CASE kind = "face"
  <2>1. EdgesOf(v) \subseteq Ids
    BY <1>3, ValuesOf, EdgesOfFace
  <2>2. References(kind, v)[k] = IF k = "edge" THEN EdgesOf(v) ELSE {}
    BY <1>3, ReferencesOf
  <2> QED
    BY <2>1, <2>2
<1>4. CASE kind = "shell"
  <2>1. ToSet(v) \subseteq Ids
    BY <1>4, ValuesOf, ElementsOfSeq
  <2>2. References(kind, v)[k] = IF k = "face" THEN ToSet(v) ELSE {}
    BY <1>4, ReferencesOf
  <2> QED
    BY <2>1, <2>2
<1>5. CASE kind = "body"
  <2>1. v \in [shells : Seq(Ids), edges : Seq(Ids), verts : Seq(Ids)]
    BY <1>5, ValuesOf
  <2>2. ToSet(v.shells) \subseteq Ids /\ ToSet(v.edges) \subseteq Ids /\ ToSet(v.verts) \subseteq Ids
    BY <2>1, ElementsOfSeq
  <2>3. References(kind, v)[k] = CASE k = "shell"  -> ToSet(v.shells)
                                   [] k = "edge"   -> ToSet(v.edges)
                                   [] k = "vertex" -> ToSet(v.verts)
                                   [] OTHER        -> {}
    BY <1>5, ReferencesOf
  <2> QED
    BY <2>2, <2>3
<1> QED
  BY <1>1, <1>2, <1>3, <1>4, <1>5, KindCases

LEMMA PlacesByFacts ==
    ASSUME NEW x, NEW field \in IndexFields, NEW v \in Values(Owner(field)),
           NEW i \in Nat, NEW slot, NEW p \in PlacesBy(x, field, i, v, slot)
    PROVE  /\ p \in Triples
           /\ p[1] = i
           /\ \E r \in Refs(field, v) : r.slot = slot /\ Has(x, Listed(field), r)
<1>1. CASE field = "vertex_edges"
  <2>1. p \in EndPlaces(x, i, v, slot)
    BY <1>1 DEF PlacesBy
  <2>2. EndsAt(x, v, slot) /\ p = <<i, 0, 0>>
    BY <2>1 DEF EndPlaces
  <2> QED
    BY <1>1, <2>2, FieldFacts, RefsOf DEF EndsAt, Triples
<1>2. CASE field = "edge_uses"
  <2>1. p \in UsePlaces(x, i, v, slot)
    BY <1>2 DEF PlacesBy
  <2>2. PICK q \in Places(v) : /\ p = <<i, q[1], q[2]>>
                               /\ v[q[1]][q[2]].slot = slot
                               /\ Has(x, "edge", v[q[1]][q[2]])
    BY <2>1 DEF UsePlaces
  <2>3. v \in Seq(Seq(Ids))
    BY <1>2, FieldFacts, ValuesOf
  <2>4. q[1] \in Nat /\ q[2] \in Nat
    BY <2>3, PlacesOfFace
  <2>5. v[q[1]][q[2]] \in EdgesOf(v)
    BY DEF EdgesOf
  <2> QED
    BY <1>2, <2>2, <2>4, <2>5, FieldFacts, RefsOf DEF Triples
<1>3. CASE field = "face_shells"
  <2>1. p \in ShellPlaces(x, i, v, slot)
    BY <1>3 DEF PlacesBy
  <2>2. PICK k \in DOMAIN v : /\ p = <<i, k, 0>>
                              /\ v[k].slot = slot
                              /\ Has(x, "face", v[k])
    BY <2>1 DEF ShellPlaces
  <2>3. v \in Seq(Ids)
    BY <1>3, FieldFacts, ValuesOf
  <2>4. k \in Nat
    BY <2>3, LenProperties
  <2>5. v[k] \in ToSet(v)
    BY DEF ToSet
  <2> QED
    BY <1>3, <2>2, <2>4, <2>5, FieldFacts, RefsOf DEF Triples
<1> QED
  BY <1>1, <1>2, <1>3, FieldFacts

\* The places of an entity are as many as it has references, so finitely many.
LEMMA PlacesOfFinite ==
    ASSUME NEW S, NEW f \in Seq(Seq(S))
    PROVE  IsFiniteSet(Places(f))
<1> DEFINE row(li) == {<<li, ci>> : ci \in DOMAIN f[li]}
           rows == {row(li) : li \in DOMAIN f}
<1>1. DOMAIN f = 1 .. Len(f) /\ Len(f) \in Nat
  BY LenProperties
<1>2. ASSUME NEW li \in DOMAIN f PROVE IsFiniteSet(row(li))
  <2>1. f[li] \in Seq(S)
    BY <1>1, ElementOfSeq
  <2>2. DOMAIN f[li] = 1 .. Len(f[li]) /\ Len(f[li]) \in Nat
    BY <2>1, LenProperties
  <2>3. IsFiniteSet(DOMAIN f[li])
    BY <2>2, FS_Interval
  <2> DEFINE g == [ci \in DOMAIN f[li] |-> <<li, ci>>]
  <2>4. g \in Surjection(DOMAIN f[li], row(li))
    BY Fun_IsSurj
  <2> QED
    BY <2>3, <2>4, FS_Surjection
<1>3. IsFiniteSet(DOMAIN f)
  BY <1>1, FS_Interval
<1> DEFINE h == [li \in DOMAIN f |-> row(li)]
<1>4. h \in Surjection(DOMAIN f, rows)
  <2> HIDE DEF row
  <2> QED
    BY Fun_IsSurj
<1>5. IsFiniteSet(rows)
  BY <1>3, <1>4, FS_Surjection
<1>6. \A T \in rows : IsFiniteSet(T)
  BY <1>2
<1>7. Places(f) = UNION rows
  BY DEF Places
<1> QED
  BY <1>5, <1>6, <1>7, FS_UNION

LEMMA PlacesByFinite ==
    ASSUME NEW x, NEW field \in IndexFields, NEW v \in Values(Owner(field)),
           NEW i, NEW slot
    PROVE  IsFiniteSet(PlacesBy(x, field, i, v, slot))
<1>1. CASE field = "vertex_edges"
  <2>1. /\ PlacesBy(x, field, i, v, slot) \in SUBSET {<<i, 0, 0>>}
        /\ IsFiniteSet({<<i, 0, 0>>})
    BY <1>1, FS_Singleton DEF PlacesBy, EndPlaces
  <2> QED
    BY <2>1, FS_Subset
<1>2. CASE field = "edge_uses"
  <2> DEFINE Q == Places(v)
             g == [p \in Q |-> <<i, p[1], p[2]>>]
             T == {g[p] : p \in Q}
  <2>1. IsFiniteSet(Q)
    BY <1>2, FieldFacts, ValuesOf, PlacesOfFinite
  <2>2. g \in Surjection(Q, T)
    BY Fun_IsSurj
  <2>3. IsFiniteSet(T)
    BY <2>1, <2>2, FS_Surjection
  <2>4. PlacesBy(x, field, i, v, slot) \in SUBSET T
    BY <1>2 DEF PlacesBy, UsePlaces
  <2> QED
    BY <2>3, <2>4, FS_Subset
<1>3. CASE field = "face_shells"
  <2> DEFINE Q == DOMAIN v
             g == [k \in Q |-> <<i, k, 0>>]
             T == {g[k] : k \in Q}
  <2>1. v \in Seq(Ids)
    BY <1>3, FieldFacts, ValuesOf
  <2>2. IsFiniteSet(Q)
    BY <2>1, LenProperties, FS_Interval
  <2>3. g \in Surjection(Q, T)
    BY Fun_IsSurj
  <2>4. IsFiniteSet(T)
    BY <2>2, <2>3, FS_Surjection
  <2>5. PlacesBy(x, field, i, v, slot) \in SUBSET T
    BY <1>3 DEF PlacesBy, ShellPlaces
  <2> QED
    BY <2>4, <2>5, FS_Subset
<1> QED
  BY <1>1, <1>2, <1>3, FieldFacts

\* Which places refer to a slot depends on what is live there, and no more.
LEMMA PlacesBySame ==
    ASSUME NEW x, NEW y, NEW field \in IndexFields, NEW v, NEW i, NEW slot,
           \A r \in Refs(field, v) : r.slot = slot =>
              (Has(x, Listed(field), r) <=> Has(y, Listed(field), r))
    PROVE  PlacesBy(x, field, i, v, slot) = PlacesBy(y, field, i, v, slot)
<1>1. CASE field = "vertex_edges"
  <2>1. \A r \in {v.start, v.end} : r.slot = slot =>
           (Has(x, "vertex", r) <=> Has(y, "vertex", r))
    BY <1>1, FieldFacts, RefsOf
  <2>2. EndsAt(x, v, slot) <=> EndsAt(y, v, slot)
    BY <2>1 DEF EndsAt
  <2> QED
    BY <1>1, <2>2 DEF PlacesBy, EndPlaces
<1>2. CASE field = "edge_uses"
  <2>1. \A r \in EdgesOf(v) : r.slot = slot =>
           (Has(x, "edge", r) <=> Has(y, "edge", r))
    BY <1>2, FieldFacts, RefsOf
  <2>2. \A p \in Places(v) : v[p[1]][p[2]] \in EdgesOf(v)
    BY DEF EdgesOf
  <2>3. {p \in Places(v) : v[p[1]][p[2]].slot = slot /\ Has(x, "edge", v[p[1]][p[2]])}
      = {p \in Places(v) : v[p[1]][p[2]].slot = slot /\ Has(y, "edge", v[p[1]][p[2]])}
    BY <2>1, <2>2
  <2>4. UsePlaces(x, i, v, slot) = UsePlaces(y, i, v, slot)
    BY <2>3 DEF UsePlaces
  <2> QED
    BY <1>2, <2>4 DEF PlacesBy
<1>3. CASE field = "face_shells"
  <2>1. \A r \in ToSet(v) : r.slot = slot =>
           (Has(x, "face", r) <=> Has(y, "face", r))
    BY <1>3, FieldFacts, RefsOf
  <2>2. \A k \in DOMAIN v : v[k] \in ToSet(v)
    BY DEF ToSet
  <2>3. {k \in DOMAIN v : v[k].slot = slot /\ Has(x, "face", v[k])}
      = {k \in DOMAIN v : v[k].slot = slot /\ Has(y, "face", v[k])}
    BY <2>1, <2>2
  <2>4. ShellPlaces(x, i, v, slot) = ShellPlaces(y, i, v, slot)
    BY <2>3 DEF ShellPlaces
  <2> QED
    BY <1>3, <2>4 DEF PlacesBy
<1> QED
  BY <1>1, <1>2, <1>3, FieldFacts

-----------------------------------------------------------------------------
(***************************************************************************)
(* No reference is ahead of its slot: what does not resolve names a value  *)
(* that was freed, and never one that a later append could put there.      *)
(***************************************************************************)

NotAhead(x, k, r) ==
    /\ r \in Ids
    /\ Has(x, k, r) \/ (r.slot \in Indices(x[k]) /\ r.gen < x[k].gen[r.slot])

NoneAhead(x) ==
    \A field \in IndexFields : \A i \in Occupied(x[Owner(field)]) :
        \A r \in Refs(field, x[Owner(field)].val[i]) : NotAhead(x, Listed(field), r)

\* An arena that only grew resolves the same references.
LEMMA HasAgrees ==
    ASSUME NEW x, NEW y, Typed(x), Typed(y), Grown(y, x), NEW k \in Kinds,
           NEW r, NotAhead(x, k, r)
    PROVE  /\ Has(y, k, r) <=> Has(x, k, r)
           /\ NotAhead(y, k, r)
<1>1. /\ IsArena(x[k], Values(k)) /\ IsArena(y[k], Values(k))
      /\ Extends(y[k], x[k])
  BY DEF Typed, Grown
<1>2. /\ x[k].len \in Nat /\ y[k].len \in Nat
      /\ Occupied(x[k]) \subseteq Indices(x[k])
      /\ Indices(x[k]) = 0 .. (x[k].len - 1)
      /\ Indices(y[k]) = 0 .. (y[k].len - 1)
      /\ x[k].gen \in [Indices(x[k]) -> 0 .. (GenModulus - 1)]
  BY <1>1, ArenaFields DEF Indices
<1>3. Indices(x[k]) \subseteq Indices(y[k])
  BY <1>1, <1>2 DEF Extends
<1>4. /\ r \in Ids /\ r.gen \in Nat
      /\ r.slot \in Indices(x[k])
      /\ Has(x, k, r) \/ r.gen < x[k].gen[r.slot]
  BY <1>2, GenAssumption DEF NotAhead, Has, Resolves, Ids
<1>5. y[k].gen[r.slot] = x[k].gen[r.slot] /\ x[k].gen[r.slot] \in Int
  BY <1>1, <1>2, <1>4, GenAssumption DEF Extends
<1>6. CASE Has(x, k, r)
  <2>1. Has(y, k, r)
    BY <1>1, <1>5, <1>6 DEF Has, Resolves, Extends
  <2> QED
    BY <1>4, <1>6, <2>1 DEF NotAhead
<1>7. CASE r.gen < x[k].gen[r.slot]
  <2>1. r.gen # x[k].gen[r.slot]
    BY <1>4, <1>5, <1>7
  <2>2. ~ Has(x, k, r) /\ ~ Has(y, k, r)
    BY <1>5, <2>1 DEF Has, Resolves
  <2> QED
    BY <1>3, <1>4, <1>5, <1>7, <2>2 DEF NotAhead
<1> QED
  BY <1>4, <1>6, <1>7

\* A live id is not ahead, and neither is the id a freed slot had.
LEMMA LiveNotAhead ==
    ASSUME NEW x, Typed(x), NEW k \in Kinds, NEW r \in LiveOf(x, k)
    PROVE  NotAhead(x, k, r)
BY LiveAreIds, LiveResolves DEF NotAhead

LEMMA AheadOfArenas ==
    ASSUME NEW x, NEW y, NoneAhead(x), \A kind \in Kinds : y[kind] = x[kind]
    PROVE  NoneAhead(y)
BY FieldFacts DEF NoneAhead, NotAhead, Has

LEMMA AheadAfterPush ==
    ASSUME NEW x, Typed(x), NoneAhead(x), NEW kind \in Kinds, NEW v \in Values(kind),
           NEW y, IsPush(y, x, kind, v),
           \A field \in IndexFields : Owner(field) = kind =>
              \A r \in Refs(field, v) : NotAhead(x, Listed(field), r)
    PROVE  NoneAhead(y)
<1>1. Typed(y) /\ Grown(y, x)
  BY PushTyped
<1> SUFFICES ASSUME NEW field \in IndexFields, NEW i \in Occupied(y[Owner(field)]),
                    NEW r \in Refs(field, y[Owner(field)].val[i])
             PROVE  NotAhead(y, Listed(field), r)
  BY DEF NoneAhead
<1> DEFINE O == Owner(field)
<1>2. O \in Kinds /\ Listed(field) \in Kinds
  BY FieldFacts
<1>3. NotAhead(x, Listed(field), r)
  <2>1. CASE i \in Occupied(x[O])
    <3>1. y[O].val[i] = x[O].val[i]
      BY <1>1, <1>2, <2>1 DEF Grown, Extends
    <3> QED
      BY <2>1, <3>1 DEF NoneAhead
  <2>2. CASE i \notin Occupied(x[O])
    <3>1. O = kind
      BY <1>2, <2>2 DEF IsPush
    <3>2. IsArena(x[kind], Values(kind)) /\ y[kind] = Push(x[kind], v)
      BY DEF Typed, IsPush
    <3>3. i = NextSlot(x[kind]) /\ y[kind].val[i] = v
      BY <2>2, <3>1, <3>2, PushProperties
    <3> QED
      BY <3>1, <3>3
  <2> QED
    BY <2>1, <2>2
<1> QED
  BY <1>1, <1>2, <1>3, HasAgrees

LEMMA GivenNotAhead ==
    ASSUME Typed(m), NEW k \in Kinds, NEW r \in Given(k)
    PROVE  NotAhead(m, k, r)
<1>1. CASE r \in LiveOf(m, k)
  BY <1>1, LiveNotAhead
<1>2. CASE r \in Freed(k)
  <2>1. PICK i \in Indices(m[k]) : /\ m[k].gen[i] > 0
                                   /\ r = [slot |-> i, gen |-> m[k].gen[i] - 1]
    BY <1>2 DEF Freed
  <2>2. IsArena(m[k], Values(k))
    BY DEF Typed
  <2>3. /\ m[k].len \in Nat
        /\ m[k].gen \in [Indices(m[k]) -> 0 .. (GenModulus - 1)]
    BY <2>2, ArenaFields
  <2>4. /\ i \in Nat
        /\ m[k].gen[i] - 1 \in 0 .. (GenModulus - 1)
        /\ m[k].gen[i] - 1 < m[k].gen[i]
    BY <2>1, <2>3, GenAssumption DEF Indices
  <2> QED
    BY <2>1, <2>4 DEF NotAhead, Ids
<1> QED
  BY <1>1, <1>2 DEF Given

\* What `retain` frees moves on, and what it keeps resolves as it did.  Here
\* the generations must not come round.
LEMMA AheadAfterRetain ==
    ASSUME NEW x, Typed(x), NoneAhead(x), NEW y, NEW bodies,
           \A kind \in Kinds : \A i \in Occupied(x[kind]) : x[kind].gen[i] < GenLimit,
           \A kind \in Kinds :
              SweptTo(y[kind], x[kind], ReachableFrom(x, bodies, kind))
    PROVE  NoneAhead(y)
<1> SUFFICES ASSUME NEW field \in IndexFields, NEW i \in Occupied(y[Owner(field)]),
                    NEW r \in Refs(field, y[Owner(field)].val[i])
             PROVE  NotAhead(y, Listed(field), r)
  BY DEF NoneAhead
<1> DEFINE O == Owner(field)
           k == Listed(field)
<1>1. O \in Kinds /\ k \in Kinds
  BY FieldFacts
<1>2. IsArena(x[O], Values(O)) /\ IsArena(x[k], Values(k))
  BY <1>1 DEF Typed
<1>3. i \in Occupied(x[O]) /\ y[O].val[i] = x[O].val[i]
  BY <1>1, <1>2, SweepProperties
<1>4. NotAhead(x, k, r)
  BY <1>3 DEF NoneAhead
<1> HIDE DEF O, k
<1>5. /\ Indices(y[k]) = Indices(x[k])
      /\ Occupied(y[k]) \subseteq Occupied(x[k])
      /\ \A j \in Indices(x[k]) : y[k].gen[j] =
           IF j \in Occupied(x[k]) \ Occupied(y[k]) THEN Bump(x[k].gen[j]) ELSE x[k].gen[j]
  BY <1>1, <1>2, SweepProperties
<1>6. /\ Occupied(x[k]) \subseteq Indices(x[k])
      /\ x[k].gen \in [Indices(x[k]) -> 0 .. (GenModulus - 1)]
  BY <1>2, ArenaFields
<1>7. /\ r \in Ids
      /\ r.gen \in Nat
      /\ r.slot \in Indices(x[k])
  BY <1>4, <1>6, GenAssumption DEF NotAhead, Has, Resolves, Ids
<1>8. x[k].gen[r.slot] \in Nat
  BY <1>6, <1>7, GenAssumption
<1>9. CASE r.slot \in Occupied(x[k]) \ Occupied(y[k])
  <2>1. x[k].gen[r.slot] < GenLimit
    BY <1>1, <1>9
  <2>2. y[k].gen[r.slot] = x[k].gen[r.slot] + 1
    BY <1>5, <1>7, <1>8, <1>9, <2>1, ModelAssumption, GenAssumption DEF Bump
  <2>3. r.gen <= x[k].gen[r.slot]
    BY <1>4, <1>7, <1>8 DEF NotAhead, Has, Resolves
  <2>4. r.gen < y[k].gen[r.slot]
    BY <1>7, <1>8, <2>2, <2>3
  <2> QED
    BY <1>5, <1>7, <2>4 DEF NotAhead, k
<1>10. CASE r.slot \notin Occupied(x[k]) \ Occupied(y[k])
  <2>1. y[k].gen[r.slot] = x[k].gen[r.slot]
    BY <1>5, <1>7, <1>10
  <2>2. Has(x, k, r) => Has(y, k, r)
    BY <1>10, <2>1 DEF Has, Resolves
  <2> QED
    BY <1>4, <1>5, <1>7, <2>1, <2>2 DEF NotAhead, k
<1> QED
  BY <1>9, <1>10

-----------------------------------------------------------------------------
(***************************************************************************)
(* The places there are, and what a push adds to them.                     *)
(***************************************************************************)

LEMMA PlacesInIs ==
    ASSUME NEW x, NEW field \in IndexFields, NEW slot
    PROVE  PlacesIn(x, field, slot) =
             UNION {PlacesBy(x, field, i, x[Owner(field)].val[i], slot) :
                      i \in Occupied(x[Owner(field)])}
<1>1. CASE field = "vertex_edges"
  BY <1>1, FieldFacts DEF PlacesIn, PlacesBy, EndsIn
<1>2. CASE field = "edge_uses"
  BY <1>2, FieldFacts DEF PlacesIn, PlacesBy, UsesIn
<1>3. CASE field = "face_shells"
  BY <1>3, FieldFacts DEF PlacesIn, PlacesBy, ShellsIn
<1> QED
  BY <1>1, <1>2, <1>3, FieldFacts

\* The values an arena holds, and the slots it holds them in.
LEMMA HeldValues ==
    ASSUME NEW x, Typed(x), NEW kind \in Kinds
    PROVE  /\ IsFiniteSet(Occupied(x[kind]))
           /\ \A i \in Occupied(x[kind]) : i \in Nat /\ i < x[kind].len
           /\ \A i \in Occupied(x[kind]) : x[kind].val[i] \in Values(kind)
           /\ x[kind].len \in Nat
<1>1. IsArena(x[kind], Values(kind))
  BY DEF Typed
<1>2. /\ x[kind].len \in Nat
      /\ Occupied(x[kind]) \subseteq 0 .. (x[kind].len - 1)
      /\ x[kind].val \in [Occupied(x[kind]) -> Values(kind)]
  BY <1>1, ArenaFields DEF Indices
<1>3. IsFiniteSet(0 .. (x[kind].len - 1))
  BY <1>2, FS_Interval
<1>4. IsFiniteSet(Occupied(x[kind]))
  BY <1>2, <1>3, FS_Subset
<1> QED
  BY <1>2, <1>4

LEMMA PlacesInFacts ==
    ASSUME NEW x, Typed(x), NEW field \in IndexFields, NEW slot,
           NEW p \in PlacesIn(x, field, slot)
    PROVE  /\ p \in Triples
           /\ p[1] \in Occupied(x[Owner(field)])
           /\ \E r \in Refs(field, x[Owner(field)].val[p[1]]) :
                r.slot = slot /\ Has(x, Listed(field), r)
           /\ slot \in Occupied(x[Listed(field)])
<1> DEFINE O == Owner(field)
<1>1. PICK i \in Occupied(x[O]) : p \in PlacesBy(x, field, i, x[O].val[i], slot)
  BY PlacesInIs
<1>2. O \in Kinds
  BY FieldFacts
<1>3. i \in Nat /\ x[O].val[i] \in Values(O)
  BY <1>2, HeldValues
<1>4. /\ p \in Triples
      /\ p[1] = i
      /\ \E r \in Refs(field, x[O].val[i]) : r.slot = slot /\ Has(x, Listed(field), r)
  BY <1>1, <1>3, PlacesByFacts
<1> QED
  BY <1>4 DEF Has, Resolves

LEMMA PlacesInFinite ==
    ASSUME NEW x, Typed(x), NEW field \in IndexFields, NEW slot
    PROVE  IsFiniteSet(PlacesIn(x, field, slot)) /\ PlacesIn(x, field, slot) \in SUBSET Triples
<1> DEFINE O == Owner(field)
           by(i) == PlacesBy(x, field, i, x[O].val[i], slot)
           all == {by(i) : i \in Occupied(x[O])}
           g == [i \in Occupied(x[O]) |-> by(i)]
<1>1. O \in Kinds
  BY FieldFacts
<1>2. /\ IsFiniteSet(Occupied(x[O]))
      /\ \A i \in Occupied(x[O]) : x[O].val[i] \in Values(O)
  BY <1>1, HeldValues
<1>3. \A i \in Occupied(x[O]) : IsFiniteSet(by(i))
  BY <1>2, PlacesByFinite
<1>4. PlacesIn(x, field, slot) = UNION all
  BY PlacesInIs
<1> HIDE DEF by
<1>5. g \in Surjection(Occupied(x[O]), all)
  BY Fun_IsSurj
<1>6. IsFiniteSet(all)
  BY <1>2, <1>5, FS_Surjection
<1>7. IsFiniteSet(UNION all)
  BY <1>3, <1>6, FS_UNION
<1> QED
  BY <1>4, <1>7, PlacesInFacts

\* Nothing refers to a slot that holds nothing.
LEMMA NoPlaces ==
    ASSUME NEW x, Typed(x), NEW field \in IndexFields, NEW slot,
           slot \notin Occupied(x[Listed(field)])
    PROVE  PlacesIn(x, field, slot) = {}
BY PlacesInFacts

\* The places are read off the arenas.
LEMMA PlacesOfArenas ==
    ASSUME NEW x, NEW y, \A kind \in Kinds : y[kind] = x[kind],
           NEW field \in IndexFields, NEW slot
    PROVE  /\ PlacesIn(y, field, slot) = PlacesIn(x, field, slot)
           /\ Entry(y, field) = Entry(x, field)
<1> DEFINE O == Owner(field)
<1>1. /\ y[O] = x[O] /\ y[Listed(field)] = x[Listed(field)]
      /\ y["face"] = x["face"]
  BY FieldFacts DEF Kinds
<1>2. ASSUME NEW i, NEW v
      PROVE  PlacesBy(y, field, i, v, slot) = PlacesBy(x, field, i, v, slot)
  <2>1. \A r \in Refs(field, v) : r.slot = slot =>
           (Has(y, Listed(field), r) <=> Has(x, Listed(field), r))
    BY <1>1 DEF Has
  <2> QED
    BY <2>1, PlacesBySame
<1>3. Entry(y, field) = Entry(x, field)
  BY <1>1 DEF Entry
<1>4. PlacesIn(y, field, slot) =
        UNION {PlacesBy(y, field, i, x[O].val[i], slot) : i \in Occupied(x[O])}
  BY <1>1, PlacesInIs
<1>5. PlacesIn(x, field, slot) =
        UNION {PlacesBy(x, field, i, x[O].val[i], slot) : i \in Occupied(x[O])}
  BY PlacesInIs
<1> QED
  BY <1>2, <1>3, <1>4, <1>5

\* What an entity contributes is what it did, while nothing is freed.
LEMMA PlacesByGrown ==
    ASSUME NEW x, NEW y, Typed(x), Typed(y), Grown(y, x), NoneAhead(x),
           NEW field \in IndexFields, NEW slot, NEW i \in Occupied(x[Owner(field)])
    PROVE  /\ i \in Occupied(y[Owner(field)])
           /\ PlacesBy(y, field, i, y[Owner(field)].val[i], slot) =
              PlacesBy(x, field, i, x[Owner(field)].val[i], slot)
<1> DEFINE O == Owner(field)
           v == x[O].val[i]
<1>1. O \in Kinds /\ Listed(field) \in Kinds
  BY FieldFacts
<1>2. i \in Occupied(y[O]) /\ y[O].val[i] = v
  BY <1>1 DEF Grown, Extends
<1>3. \A r \in Refs(field, v) : NotAhead(x, Listed(field), r)
  BY DEF NoneAhead
<1> HIDE DEF v
<1>4. \A r \in Refs(field, v) : Has(y, Listed(field), r) <=> Has(x, Listed(field), r)
  BY <1>1, <1>3, HasAgrees
<1>5. PlacesBy(y, field, i, v, slot) = PlacesBy(x, field, i, v, slot)
  BY <1>4, PlacesBySame
<1> QED
  BY <1>2, <1>5 DEF v

LEMMA EntryGrown ==
    ASSUME NEW x, NEW y, Typed(x), Typed(y), Grown(y, x),
           NEW field \in IndexFields, NEW slot, NEW p \in PlacesIn(x, field, slot)
    PROVE  Entry(y, field)[p] = Entry(x, field)[p]
<1> DEFINE O == Owner(field)
<1>1. O \in Kinds /\ (field = "edge_uses" => O = "face")
  BY FieldFacts
<1>2. p \in Triples /\ p[1] \in Occupied(x[O])
  BY PlacesInFacts
<1>3. IsArena(x[O], Values(O)) /\ Extends(y[O], x[O])
  BY <1>1 DEF Typed, Grown
<1>4. p[1] \in Indices(x[O])
  BY <1>2, <1>3, ArenaFields
<1>5. IdOf(y[O], p[1]) = IdOf(x[O], p[1])
  BY <1>3, <1>4 DEF Extends, IdOf
<1> HIDE DEF O
<1>6. CASE field = "edge_uses"
  BY <1>1, <1>2, <1>5, <1>6 DEF Entry, UseEntry
<1>7. CASE field # "edge_uses"
  BY <1>2, <1>5, <1>7 DEF Entry, OwnerEntry, O
<1> QED
  BY <1>6, <1>7

-----------------------------------------------------------------------------
(***************************************************************************)
(* Every list holds the places there are.                                  *)
(***************************************************************************)

Indexed(x) ==
    \A field \in IndexFields :
        /\ x[field] \in Seq(Seq(EntrySet(field)))
        /\ Len(x[field]) >= x[Listed(field)].len
        /\ \A s \in 1 .. Len(x[field]) :
             Lists(x[field][s], Entry(x, field), PlacesIn(x, field, s - 1))

LEMMA EntryTyped ==
    ASSUME NEW x, Typed(x), NEW field \in IndexFields, NEW slot,
           NEW p \in PlacesIn(x, field, slot)
    PROVE  /\ Entry(x, field)[p] \in EntrySet(field)
           /\ OwnerSlot(field, Entry(x, field)[p]) = p[1]
<1> DEFINE O == Owner(field)
<1>1. O \in Kinds /\ (field = "edge_uses" => O = "face")
  BY FieldFacts
<1>2. p \in Triples /\ p[1] \in Occupied(x[O])
  BY PlacesInFacts
<1>3. IsArena(x[O], Values(O))
  BY <1>1 DEF Typed
<1>4. p[1] \in Nat /\ p[1] \in Indices(x[O])
  BY <1>1, <1>2, <1>3, HeldValues, ArenaFields
<1>5. x[O].gen[p[1]] \in 0 .. (GenModulus - 1)
  BY <1>3, <1>4, ArenaFields
<1>6. IdOf(x[O], p[1]) \in Ids /\ IdOf(x[O], p[1]).slot = p[1]
  BY <1>4, <1>5 DEF IdOf, Ids
<1> HIDE DEF O
<1>7. CASE field = "edge_uses"
  <2>1. Entry(x, field)[p] = [face |-> IdOf(x[O], p[1]), at |-> <<p[2], p[3]>>]
    BY <1>1, <1>2, <1>7 DEF Entry, UseEntry
  <2>2. <<p[2], p[3]>> \in Nat \X Nat
    BY <1>2 DEF Triples
  <2> QED
    BY <1>6, <1>7, <2>1, <2>2 DEF EntrySet, OwnerSlot
<1>8. CASE field # "edge_uses"
  <2>1. Entry(x, field)[p] = IdOf(x[O], p[1])
    BY <1>2, <1>8 DEF Entry, OwnerEntry, O
  <2> QED
    BY <1>6, <1>8, <2>1 DEF EntrySet, OwnerSlot
<1> QED
  BY <1>7, <1>8

\* What a list of places holds, entry by entry.
LEMMA ListTyped ==
    ASSUME NEW x, Typed(x), NEW field \in IndexFields, NEW slot, NEW P, NEW l,
           P \subseteq PlacesIn(x, field, slot), Lists(l, Entry(x, field), P)
    PROVE  /\ l \in Seq(EntrySet(field))
           /\ Len(l) \in Nat /\ DOMAIN l = 1 .. Len(l)
           /\ \A n \in 1 .. Len(l) : \E p \in P :
                /\ l[n] = Entry(x, field)[p]
                /\ OwnerSlot(field, l[n]) = p[1]
<1> DEFINE entry == Entry(x, field)
           E == EntrySet(field)
<1>1. \A p \in P : entry[p] \in E /\ OwnerSlot(field, entry[p]) = p[1]
  BY EntryTyped
<1> HIDE DEF entry, E
<1>2. Lists(l, entry, P)
  BY DEF entry
<1>3. Len(l) \in Nat /\ DOMAIN l = 1 .. Len(l)
  BY <1>2, ListElements
<1>4. \A n \in 1 .. Len(l) : \E p \in P : l[n] = entry[p]
  BY <1>2, ListElements
<1>5. l \in Seq(E)
  BY <1>1, <1>2, ListElements
<1> QED
  BY <1>1, <1>3, <1>4, <1>5 DEF entry, E

LEMMA IndexedList ==
    ASSUME NEW x, Typed(x), Indexed(x), NEW field \in IndexFields,
           NEW s \in 1 .. Len(x[field])
    PROVE  /\ x[field][s] \in Seq(EntrySet(field))
           /\ Len(x[field][s]) \in Nat
           /\ \A n \in 1 .. Len(x[field][s]) : \E p \in PlacesIn(x, field, s - 1) :
                /\ x[field][s][n] = Entry(x, field)[p]
                /\ OwnerSlot(field, x[field][s][n]) = p[1]
                /\ p[1] \in Occupied(x[Owner(field)])
<1> DEFINE l == x[field][s]
           P == PlacesIn(x, field, s - 1)
<1>1. Lists(l, Entry(x, field), P)
  BY DEF Indexed
<1> HIDE DEF l
<1>2. /\ l \in Seq(EntrySet(field))
      /\ Len(l) \in Nat
      /\ \A n \in 1 .. Len(l) : \E p \in P :
           l[n] = Entry(x, field)[p] /\ OwnerSlot(field, l[n]) = p[1]
  BY <1>1, ListTyped
<1>3. \A p \in P : p[1] \in Occupied(x[Owner(field)])
  BY PlacesInFacts
<1> QED
  BY <1>2, <1>3 DEF l

LEMMA IndexedOwners ==
    ASSUME NEW x, Typed(x), Indexed(x), NEW field \in IndexFields,
           NEW s \in 1 .. Len(x[field]), NEW n \in 1 .. Len(x[field][s])
    PROVE  OwnerSlot(field, x[field][s][n]) \in Occupied(x[Owner(field)])
<1> DEFINE l == x[field][s]
           P == PlacesIn(x, field, s - 1)
<1>1. Lists(l, Entry(x, field), P)
  BY DEF Indexed
<1> HIDE DEF l
<1>2. n \in 1 .. Len(l)
  BY DEF l
<1>3. PICK p \in P : OwnerSlot(field, l[n]) = p[1]
  BY <1>1, <1>2, ListTyped
<1>4. p[1] \in Occupied(x[Owner(field)])
  BY PlacesInFacts
<1> QED
  BY <1>3, <1>4 DEF l

\* What the push of v into x does to the lists of one field.
IndexPush(y, x, field, kind, v) ==
    /\ kind = Owner(field) =>
         /\ y[field] = [s \in DOMAIN x[field] |-> y[field][s]]
         /\ \A s \in DOMAIN x[field] : \E new :
              /\ y[field][s] = x[field][s] \o new
              /\ Lists(new, Entry(y, field),
                       PlacesBy(x, field, NextSlot(x[kind]), v, s - 1))
    /\ kind = Listed(field) => y[field] = Append(x[field], <<>>)
    /\ kind # Owner(field) /\ kind # Listed(field) => y[field] = x[field]

\* The places of the entity about to be pushed.
LEMMA NewPlaces ==
    ASSUME NEW x, Typed(x), NEW field \in IndexFields, NEW v \in Values(Owner(field)),
           NEW slot
    PROVE  LET P == PlacesBy(x, field, NextSlot(x[Owner(field)]), v, slot)
           IN  /\ P \in SUBSET Triples
               /\ IsFiniteSet(P)
               /\ \A p \in P : p[1] = NextSlot(x[Owner(field)])
<1> DEFINE O == Owner(field)
           i == NextSlot(x[O])
<1>1. O \in Kinds
  BY FieldFacts
<1>2. i \in Nat
  BY <1>1, NextSlotIsEmpty DEF Typed
<1> HIDE DEF i
<1>3. \A p \in PlacesBy(x, field, i, v, slot) : p \in Triples /\ p[1] = i
  BY <1>2, PlacesByFacts
<1>4. IsFiniteSet(PlacesBy(x, field, i, v, slot))
  BY PlacesByFinite
<1> QED
  BY <1>3, <1>4 DEF i

\* A vector of lists has one list per position.
LEMMA IndexedVector ==
    ASSUME NEW x, Indexed(x), NEW field \in IndexFields
    PROVE  /\ Len(x[field]) \in Nat
           /\ DOMAIN x[field] = 1 .. Len(x[field])
           /\ x[field] = [s \in 1 .. Len(x[field]) |-> x[field][s]]
<1>1. x[field] \in Seq(Seq(EntrySet(field)))
  BY DEF Indexed
<1> QED
  BY <1>1, LenProperties

LEMMA EdgeIndexes ==
    ASSUME NEW x, Typed(x), Indexed(x), NEW v \in Values("edge"), NEW y,
           y = PushEdge(x, v)
    PROVE  IndexPush(y, x, "vertex_edges", "edge", v)
<1> DEFINE f == "vertex_edges"
           i == NextSlot(x["edge"])
           id == NextId(x["edge"])
           P(s) == PlacesBy(x, f, i, v, s - 1)
<1>1. f \in IndexFields /\ "edge" \in Kinds
  BY DEF IndexFields, Kinds
<1>2. Owner(f) = "edge" /\ Listed(f) = "vertex"
  BY <1>1, FieldFacts
<1>3. y["edge"] = Push(x["edge"], v) /\ IsArena(x["edge"], Values("edge"))
  BY <1>1, PushEdgeArenas DEF IsPush, Typed
<1>4. IdOf(y["edge"], i) = id /\ i \notin Occupied(x["edge"]) /\ i \in Nat
  BY <1>3, PushProperties, NextSlotIsEmpty
<1>5. y[f] = [s \in DOMAIN x[f] |->
                IF EndsAt(x, v, s - 1) /\ ~ (x[f][s] # <<>> /\ Last(x[f][s]) = id)
                THEN Append(x[f][s], id) ELSE x[f][s]]
  BY DEF PushEdge, Typed, Fields, Kinds
<1>i. id.slot = i
  BY <1>4 DEF IdOf
<1>6. ASSUME NEW s \in DOMAIN x[f]
      PROVE  \E new : /\ y[f][s] = x[f][s] \o new
                      /\ Lists(new, Entry(y, f), P(s))
  <2> DEFINE l == x[f][s]
  <2>1. s \in 1 .. Len(x[f])
    BY <1>1, IndexedVector
  <2>a. l \in Seq(EntrySet(f)) /\ Len(l) \in Nat
    BY <1>1, <2>1, IndexedList
  <2>b. \A n \in 1 .. Len(l) : OwnerSlot(f, l[n]) \in Occupied(x[Owner(f)])
    BY <1>1, <2>1, IndexedOwners
  <2> HIDE DEF l
  <2>2. /\ l \in Seq(EntrySet(f)) /\ Len(l) \in Nat
        /\ \A n \in 1 .. Len(l) : OwnerSlot(f, l[n]) \in Occupied(x["edge"])
    <3>1. Occupied(x[Owner(f)]) = Occupied(x["edge"])
      BY <1>2
    <3> QED
      BY <2>a, <2>b, <3>1
  <2>3. l # <<>> => Last(l) # id
    <3> SUFFICES ASSUME l # <<>> PROVE Last(l) # id
      OBVIOUS
    <3>1. Len(l) \in 1 .. Len(l)
      BY <2>2, EmptySeq
    <3>2. Last(l).slot \in Occupied(x["edge"])
      BY <2>2, <3>1 DEF Last, OwnerSlot
    <3> QED
      BY <1>4, <1>i, <3>2
  <2>4. y[f][s] = IF EndsAt(x, v, s - 1) THEN Append(l, id) ELSE l
    BY <1>5, <2>3 DEF l
  <2>5. CASE EndsAt(x, v, s - 1)
    <3>1. P(s) = {<<i, 0, 0>>}
      BY <2>5 DEF PlacesBy, EndPlaces
    <3>2. Entry(y, f)[<<i, 0, 0>>] = id
      BY <1>2, <1>4 DEF Entry, OwnerEntry, Triples
    <3>3. Lists(<<id>>, Entry(y, f), P(s))
      BY <3>1, <3>2, ListsOne
    <3>4. Append(l, id) = l \o <<id>>
      <4>1. l \in Seq(EntrySet(f) \cup {id}) /\ id \in EntrySet(f) \cup {id}
        BY <2>2, SeqMonotonic
      <4> QED
        BY <4>1, AppendIsConcat
    <3> QED
      BY <2>4, <2>5, <3>3, <3>4 DEF l
  <2>6. CASE ~ EndsAt(x, v, s - 1)
    <3>1. P(s) = {}
      BY <2>6 DEF PlacesBy, EndPlaces
    <3>2. Lists(<<>>, Entry(y, f), P(s))
      BY <3>1, ListsNothing
    <3>3. l = l \o <<>>
      BY <2>2, ConcatEmptySeq
    <3> QED
      BY <2>4, <2>6, <3>2, <3>3 DEF l
  <2> QED
    BY <2>5, <2>6
<1>7. y[f] = [s \in DOMAIN x[f] |-> y[f][s]]
  BY <1>5
<1> QED
  BY <1>2, <1>6, <1>7 DEF IndexPush

LEMMA FaceIndexes ==
    ASSUME NEW x, Typed(x), Indexed(x), NEW v \in Values("face"), NEW y,
           y = PushFace(x, v)
    PROVE  IndexPush(y, x, "edge_uses", "face", v)
<1> DEFINE f == "edge_uses"
           i == NextSlot(x["face"])
           P(s) == PlacesBy(x, f, i, v, s - 1)
           new(s) == Uses(Push(x["face"], v), P(s))
<1>1. f \in IndexFields /\ "face" \in Kinds
  BY DEF IndexFields, Kinds
<1>2. Owner(f) = "face" /\ Listed(f) = "edge"
  BY <1>1, FieldFacts
<1>3. y["face"] = Push(x["face"], v)
  BY <1>1, PushFaceArenas DEF IsPush
<1>4. \A s : P(s) = UsePlaces(x, i, v, s - 1)
  BY DEF PlacesBy
<1>5. y[f] = [s \in DOMAIN x[f] |->
                x[f][s] \o Uses(Push(x["face"], v), UsePlaces(x, i, v, s - 1))]
  BY DEF PushFace, Typed, Fields, Kinds
<1>6. ASSUME NEW s \in DOMAIN x[f]
      PROVE  /\ y[f][s] = x[f][s] \o new(s)
             /\ Lists(new(s), Entry(y, f), P(s))
  <2>1. y[f][s] = x[f][s] \o new(s)
    BY <1>4, <1>5
  <2>2. P(s) \in SUBSET Triples /\ IsFiniteSet(P(s))
    BY <1>1, <1>2, NewPlaces
  <2> HIDE DEF P
  <2>3. Lists(new(s), UseEntry(y["face"]), P(s))
    BY <1>3, <2>2, UsesLists
  <2> QED
    BY <2>1, <2>3 DEF Entry
<1>7. y[f] = [s \in DOMAIN x[f] |-> y[f][s]]
  BY <1>5
<1> QED
  BY <1>2, <1>6, <1>7 DEF IndexPush

LEMMA ShellIndexes ==
    ASSUME NEW x, Typed(x), Indexed(x), NEW v \in Values("shell"), NEW y,
           y = PushShell(x, v)
    PROVE  IndexPush(y, x, "face_shells", "shell", v)
<1> DEFINE f == "face_shells"
           i == NextSlot(x["shell"])
           P(s) == PlacesBy(x, f, i, v, s - 1)
           new(s) == Owners(Push(x["shell"], v), P(s))
<1>1. f \in IndexFields /\ "shell" \in Kinds
  BY DEF IndexFields, Kinds
<1>2. Owner(f) = "shell" /\ Listed(f) = "face"
  BY <1>1, FieldFacts
<1>3. y["shell"] = Push(x["shell"], v)
  BY <1>1, PushShellArenas DEF IsPush
<1>4. \A s : P(s) = ShellPlaces(x, i, v, s - 1)
  BY DEF PlacesBy
<1>5. y[f] = [s \in DOMAIN x[f] |->
                x[f][s] \o Owners(Push(x["shell"], v), ShellPlaces(x, i, v, s - 1))]
  BY DEF PushShell, Typed, Fields, Kinds
<1>6. ASSUME NEW s \in DOMAIN x[f]
      PROVE  /\ y[f][s] = x[f][s] \o new(s)
             /\ Lists(new(s), Entry(y, f), P(s))
  <2>1. y[f][s] = x[f][s] \o new(s)
    BY <1>4, <1>5
  <2>2. P(s) \in SUBSET Triples /\ IsFiniteSet(P(s))
    BY <1>1, <1>2, NewPlaces
  <2> HIDE DEF P
  <2>3. Lists(new(s), OwnerEntry(y["shell"]), P(s))
    BY <1>3, <2>2, OwnersLists
  <2> QED
    BY <1>2, <2>1, <2>3 DEF Entry
<1>7. y[f] = [s \in DOMAIN x[f] |-> y[f][s]]
  BY <1>5
<1> QED
  BY <1>2, <1>6, <1>7 DEF IndexPush

\* The lists an append does not fill: one more empty one, or none.
LEMMA PushIndexes ==
    ASSUME NEW x, Typed(x), Indexed(x), NEW kind \in Kinds, NEW v \in Values(kind),
           NEW y, y = PushOf(x, kind, v), NEW field \in IndexFields
    PROVE  IndexPush(y, x, field, kind, v)
<1>1. CASE kind = "vertex"
  <2>1. y = PushVertex(x, v)
    BY <1>1 DEF PushOf
  <2>2. /\ y["vertex_edges"] = Append(x["vertex_edges"], <<>>)
        /\ y["edge_uses"] = x["edge_uses"]
        /\ y["face_shells"] = x["face_shells"]
    BY <2>1 DEF PushVertex, Typed, Fields, Kinds
  <2> QED
    BY <1>1, <2>2, FieldFacts DEF IndexPush
<1>2. CASE kind = "edge"
  <2>1. y = PushEdge(x, v)
    BY <1>2 DEF PushOf
  <2>2. /\ y["edge_uses"] = Append(x["edge_uses"], <<>>)
        /\ y["face_shells"] = x["face_shells"]
    BY <2>1 DEF PushEdge, Typed, Fields, Kinds
  <2>3. IndexPush(y, x, "vertex_edges", "edge", v)
    BY <1>2, <2>1, EdgeIndexes
  <2>4. CASE field = "vertex_edges"
    BY <1>2, <2>3, <2>4
  <2>5. CASE field # "vertex_edges"
    BY <1>2, <2>2, <2>5, FieldFacts DEF IndexPush
  <2> QED
    BY <2>4, <2>5
<1>3. CASE kind = "face"
  <2>1. y = PushFace(x, v)
    BY <1>3 DEF PushOf
  <2>2. /\ y["vertex_edges"] = x["vertex_edges"]
        /\ y["face_shells"] = Append(x["face_shells"], <<>>)
    BY <2>1 DEF PushFace, Typed, Fields, Kinds
  <2>3. IndexPush(y, x, "edge_uses", "face", v)
    BY <1>3, <2>1, FaceIndexes
  <2>4. CASE field = "edge_uses"
    BY <1>3, <2>3, <2>4
  <2>5. CASE field # "edge_uses"
    BY <1>3, <2>2, <2>5, FieldFacts DEF IndexPush
  <2> QED
    BY <2>4, <2>5
<1>4. CASE kind = "shell"
  <2>1. y = PushShell(x, v)
    BY <1>4 DEF PushOf
  <2>2. /\ y["vertex_edges"] = x["vertex_edges"]
        /\ y["edge_uses"] = x["edge_uses"]
    BY <2>1 DEF PushShell, Typed, Fields, Kinds
  <2>3. IndexPush(y, x, "face_shells", "shell", v)
    BY <1>4, <2>1, ShellIndexes
  <2>4. CASE field = "face_shells"
    BY <1>4, <2>3, <2>4
  <2>5. CASE field # "face_shells"
    BY <1>4, <2>2, <2>5, FieldFacts DEF IndexPush
  <2> QED
    BY <2>4, <2>5
<1>5. CASE kind = "body"
  <2>1. y = PushBody(x, v)
    BY <1>5 DEF PushOf
  <2>2. /\ y["vertex_edges"] = x["vertex_edges"]
        /\ y["edge_uses"] = x["edge_uses"]
        /\ y["face_shells"] = x["face_shells"]
    BY <2>1 DEF PushBody, Typed, Fields, Kinds
  <2> QED
    BY <1>5, <2>2, FieldFacts DEF IndexPush
<1> QED
  BY <1>1, <1>2, <1>3, <1>4, <1>5, KindCases

-----------------------------------------------------------------------------
\* The places after a push: those there were, and those of the new entity.
LEMMA PlacesPushed ==
    ASSUME NEW x, Typed(x), NoneAhead(x), NEW field \in IndexFields,
           NEW v \in Values(Owner(field)), NEW y, IsPush(y, x, Owner(field), v), NEW slot
    PROVE  LET new == PlacesBy(x, field, NextSlot(x[Owner(field)]), v, slot)
           IN  /\ PlacesIn(y, field, slot) = PlacesIn(x, field, slot) \cup new
               /\ PlacesIn(x, field, slot) \cap new = {}
<1> DEFINE O == Owner(field)
           i == NextSlot(x[O])
           old(j) == PlacesBy(x, field, j, x[O].val[j], slot)
           now(j) == PlacesBy(y, field, j, y[O].val[j], slot)
           new == PlacesBy(x, field, i, v, slot)
<1>1. O \in Kinds /\ Listed(field) \in Kinds /\ O # Listed(field)
  BY FieldFacts
<1>2. Typed(y) /\ Grown(y, x)
  BY <1>1, PushTyped
<1>3. IsArena(x[O], Values(O)) /\ y[O] = Push(x[O], v)
  BY <1>1 DEF Typed, IsPush
<1>4. /\ Occupied(y[O]) = Occupied(x[O]) \cup {i}
      /\ y[O].val[i] = v
      /\ i \notin Occupied(x[O])
  BY <1>3, PushProperties, NextSlotIsEmpty
<1>5. \A j \in Occupied(x[O]) : now(j) = old(j)
  BY <1>2, PlacesByGrown
<1>6. now(i) = new
  <2>1. y[Listed(field)] = x[Listed(field)]
    BY <1>1 DEF IsPush
  <2>2. \A r \in Refs(field, v) : r.slot = slot =>
           (Has(y, Listed(field), r) <=> Has(x, Listed(field), r))
    BY <2>1 DEF Has
  <2>3. PlacesBy(y, field, i, v, slot) = PlacesBy(x, field, i, v, slot)
    BY <2>2, PlacesBySame
  <2> QED
    BY <1>4, <2>3
<1>7. \A p \in PlacesIn(x, field, slot) : p[1] \in Occupied(x[O])
  BY PlacesInFacts
<1>8. \A p \in new : p[1] = i
  BY NewPlaces
<1>9. /\ PlacesIn(x, field, slot) = UNION {old(j) : j \in Occupied(x[O])}
      /\ PlacesIn(y, field, slot) = UNION {now(j) : j \in Occupied(y[O])}
  BY PlacesInIs
<1> HIDE DEF O, i, old, now, new
<1>10. PlacesIn(y, field, slot) = PlacesIn(x, field, slot) \cup new
  BY <1>4, <1>5, <1>6, <1>9
<1>11. PlacesIn(x, field, slot) \cap new = {}
  BY <1>4, <1>7, <1>8
<1> QED
  BY <1>10, <1>11 DEF new, i, O

LEMMA PlacesKept ==
    ASSUME NEW x, Typed(x), NoneAhead(x), NEW kind \in Kinds, NEW v \in Values(kind),
           NEW y, IsPush(y, x, kind, v), NEW field \in IndexFields, Owner(field) # kind,
           NEW slot
    PROVE  PlacesIn(y, field, slot) = PlacesIn(x, field, slot)
<1> DEFINE O == Owner(field)
           old(j) == PlacesBy(x, field, j, x[O].val[j], slot)
           now(j) == PlacesBy(y, field, j, y[O].val[j], slot)
<1>1. O \in Kinds
  BY FieldFacts
<1>2. Typed(y) /\ Grown(y, x)
  BY PushTyped
<1>3. y[O] = x[O]
  BY <1>1 DEF IsPush
<1>4. \A j \in Occupied(x[O]) : now(j) = old(j)
  BY <1>2, PlacesByGrown
<1>5. /\ PlacesIn(x, field, slot) = UNION {old(j) : j \in Occupied(x[O])}
      /\ PlacesIn(y, field, slot) = UNION {now(j) : j \in Occupied(y[O])}
  BY PlacesInIs
<1> HIDE DEF O, old, now
<1> QED
  BY <1>3, <1>4, <1>5

\* l goes on where k ends, with entries of owners outside S.
AddsOutside(l, k, field, S) ==
    /\ Prolongs(l, k)
    /\ \A n \in 1 .. Len(l) : n > Len(k) => OwnerSlot(field, l[n]) \notin S

\* Every list of y goes on where that of x ends, with owners new to y.
ListsGrown(y, x) ==
    \A field \in IndexFields : \A s \in 1 .. x[Listed(field)].len :
        AddsOutside(y[field][s], x[field][s], field, Occupied(x[Owner(field)]))

LEMMA AddsNothing ==
    ASSUME NEW l, NEW field, NEW S, Len(l) \in Nat
    PROVE  AddsOutside(l, l, field, S)
BY DEF AddsOutside, Prolongs

LEMMA AddsMore ==
    ASSUME NEW field, NEW S, NEW T, S \subseteq T, NEW l, NEW k, NEW j,
           Len(l) \in Nat, Len(k) \in Nat, Len(j) \in Nat,
           AddsOutside(l, k, field, T), AddsOutside(k, j, field, S)
    PROVE  AddsOutside(l, j, field, S)
<1>1. Len(j) <= Len(k) /\ Len(k) <= Len(l)
  BY DEF AddsOutside, Prolongs
<1>2. \A n \in 1 .. Len(j) : l[n] = j[n]
  BY <1>1 DEF AddsOutside, Prolongs
<1>3. ASSUME NEW n \in 1 .. Len(l), n > Len(j) PROVE OwnerSlot(field, l[n]) \notin S
  <2>1. CASE n > Len(k)
    BY <1>3, <2>1 DEF AddsOutside
  <2>2. CASE ~ (n > Len(k))
    <3>1. n \in 1 .. Len(k) /\ l[n] = k[n]
      BY <1>3, <2>2 DEF AddsOutside, Prolongs
    <3> QED
      BY <1>3, <3>1 DEF AddsOutside
  <2> QED
    BY <2>1, <2>2
<1> QED
  BY <1>1, <1>2, <1>3 DEF AddsOutside, Prolongs

\* The list of a slot the new entity may refer to.
LEMMA ListPushed ==
    ASSUME NEW x, Typed(x), NoneAhead(x), NEW field \in IndexFields,
           NEW v \in Values(Owner(field)), NEW y, IsPush(y, x, Owner(field), v), NEW slot,
           NEW l, Lists(l, Entry(x, field), PlacesIn(x, field, slot)),
           NEW new, Lists(new, Entry(y, field),
                          PlacesBy(x, field, NextSlot(x[Owner(field)]), v, slot))
    PROVE  /\ Lists(l \o new, Entry(y, field), PlacesIn(y, field, slot))
           /\ AddsOutside(l \o new, l, field, Occupied(x[Owner(field)]))
<1> DEFINE O == Owner(field)
           i == NextSlot(x[O])
           P == PlacesIn(x, field, slot)
           N == PlacesBy(x, field, i, v, slot)
           E == EntrySet(field)
<1>1. O \in Kinds
  BY FieldFacts
<1>2. Typed(y) /\ Grown(y, x)
  BY <1>1, PushTyped
<1>3. PlacesIn(y, field, slot) = P \cup N /\ P \cap N = {}
  BY PlacesPushed
<1>4. \A p \in P : Entry(y, field)[p] = Entry(x, field)[p]
  BY <1>2, EntryGrown
<1>5. \A p \in N : p[1] = i
  BY NewPlaces
<1>6. i \notin Occupied(x[O])
  BY <1>1, NextSlotIsEmpty DEF Typed
<1> HIDE DEF O, i, P, N, E
<1>7. Lists(l, Entry(x, field), P) /\ Lists(new, Entry(y, field), N)
  BY DEF P, N, i, O
<1>8. Lists(l, Entry(y, field), P)
  BY <1>4, <1>7, ListsSame
<1>9. Lists(l \o new, Entry(y, field), P \cup N)
  BY <1>3, <1>7, <1>8, ListsConcat
<1>10. l \in Seq(E) /\ Len(l) \in Nat
  <2>1. P \subseteq PlacesIn(x, field, slot)
    BY DEF P
  <2> QED
    BY <1>7, <2>1, ListTyped DEF E
<1>11. N \subseteq PlacesIn(y, field, slot)
  BY <1>3
<1>12. new \in Seq(E) /\ Len(new) \in Nat
  BY <1>2, <1>7, <1>11, ListTyped DEF E
<1>13. ASSUME NEW n \in 1 .. Len(new) PROVE OwnerSlot(field, new[n]) = i
  <2>1. PICK p \in N : new[n] = Entry(y, field)[p]
    BY <1>7, ListElements
  <2>2. OwnerSlot(field, Entry(y, field)[p]) = p[1]
    BY <1>2, <1>11, EntryTyped
  <2> QED
    BY <1>5, <2>1, <2>2
<1>14. /\ Len(l \o new) = Len(l) + Len(new)
       /\ \A n \in 1 .. Len(l) + Len(new) :
             (l \o new)[n] = IF n <= Len(l) THEN l[n] ELSE new[n - Len(l)]
  BY <1>10, <1>12, ConcatProperties
<1>15. AddsOutside(l \o new, l, field, Occupied(x[O]))
  <2> DEFINE w == l \o new
  <2> HIDE DEF w
  <2>1. Len(l) <= Len(w) /\ \A n \in 1 .. Len(l) : w[n] = l[n]
    BY <1>10, <1>12, <1>14 DEF w
  <2>2. ASSUME NEW n \in 1 .. Len(w), n > Len(l)
        PROVE  OwnerSlot(field, w[n]) \notin Occupied(x[O])
    <3>1. n - Len(l) \in 1 .. Len(new) /\ w[n] = new[n - Len(l)]
      BY <1>10, <1>12, <1>14, <2>2 DEF w
    <3> QED
      BY <1>6, <1>13, <3>1
  <2>3. AddsOutside(w, l, field, Occupied(x[O]))
    BY <2>1, <2>2 DEF AddsOutside, Prolongs
  <2> QED
    BY <2>3 DEF w
<1> QED
  BY <1>3, <1>9, <1>15 DEF O

\* The list of a slot it cannot refer to.
LEMMA ListKept ==
    ASSUME NEW x, Typed(x), NoneAhead(x), NEW kind \in Kinds, NEW v \in Values(kind),
           NEW y, IsPush(y, x, kind, v), NEW field \in IndexFields, Owner(field) # kind,
           NEW slot, NEW l, Lists(l, Entry(x, field), PlacesIn(x, field, slot))
    PROVE  /\ Lists(l, Entry(y, field), PlacesIn(y, field, slot))
           /\ AddsOutside(l, l, field, Occupied(x[Owner(field)]))
<1> DEFINE P == PlacesIn(x, field, slot)
<1>1. Typed(y) /\ Grown(y, x)
  BY PushTyped
<1>2. PlacesIn(y, field, slot) = P
  BY PlacesKept
<1>3. \A p \in P : Entry(y, field)[p] = Entry(x, field)[p]
  BY <1>1, EntryGrown
<1> HIDE DEF P
<1>4. Lists(l, Entry(x, field), P)
  BY DEF P
<1>5. Lists(l, Entry(y, field), P)
  BY <1>3, <1>4, ListsSame
<1>6. Len(l) \in Nat
  BY <1>4, ListElements
<1> QED
  BY <1>2, <1>5, <1>6, AddsNothing

\* The lists of one field, put together again.
Vector(w, n) == n \in Nat /\ w = [s \in 1 .. n |-> w[s]]

LEMMA VectorIsIndexed ==
    ASSUME NEW x, Typed(x), NEW field \in IndexFields, NEW n, Vector(x[field], n),
           n >= x[Listed(field)].len,
           \A s \in 1 .. n : Lists(x[field][s], Entry(x, field), PlacesIn(x, field, s - 1))
    PROVE  /\ x[field] \in Seq(Seq(EntrySet(field)))
           /\ Len(x[field]) = n
           /\ Len(x[field]) >= x[Listed(field)].len
           /\ \A s \in 1 .. Len(x[field]) :
                Lists(x[field][s], Entry(x, field), PlacesIn(x, field, s - 1))
<1> DEFINE w == x[field]
           E == EntrySet(field)
           P(s) == PlacesIn(x, field, s - 1)
<1>1. \A s \in 1 .. n : w[s] \in Seq(E)
  <2> SUFFICES ASSUME NEW s \in 1 .. n PROVE w[s] \in Seq(E)
    OBVIOUS
  <2>1. Lists(w[s], Entry(x, field), P(s)) /\ P(s) \subseteq PlacesIn(x, field, s - 1)
    OBVIOUS
  <2> QED
    BY <2>1, ListTyped
<1> HIDE DEF w, E
<1>2. n \in Nat /\ w = [s \in 1 .. n |-> w[s]]
  BY DEF Vector, w
<1>3. w \in [1 .. n -> Seq(E)]
  BY <1>1, <1>2
<1>4. w \in Seq(Seq(E)) /\ Len(w) = n
  BY <1>2, <1>3
<1> QED
  BY <1>4 DEF w, E

LEMMA PushIndexed ==
    ASSUME NEW x, Typed(x), NoneAhead(x), Indexed(x), NEW kind \in Kinds,
           NEW v \in Values(kind), NEW y, y = PushOf(x, kind, v), IsPush(y, x, kind, v)
    PROVE  Indexed(y) /\ ListsGrown(y, x)
<1>1. Typed(y) /\ Grown(y, x)
  BY PushTyped
<1>2. ASSUME NEW field \in IndexFields
      PROVE  /\ y[field] \in Seq(Seq(EntrySet(field)))
             /\ Len(y[field]) >= y[Listed(field)].len
             /\ \A s \in 1 .. Len(y[field]) :
                  Lists(y[field][s], Entry(y, field), PlacesIn(y, field, s - 1))
             /\ \A s \in 1 .. x[Listed(field)].len :
                  AddsOutside(y[field][s], x[field][s], field, Occupied(x[Owner(field)]))
  <2> DEFINE O == Owner(field)
             K == Listed(field)
             n == Len(x[field])
             kept(s) == AddsOutside(y[field][s], x[field][s], field, Occupied(x[O]))
             full(s) == Lists(y[field][s], Entry(y, field), PlacesIn(y, field, s - 1))
  <2>1. O \in Kinds /\ K \in Kinds /\ O # K
    BY FieldFacts
  <2>2. IndexPush(y, x, field, kind, v)
    BY PushIndexes
  <2>3. /\ n \in Nat /\ n >= x[K].len
        /\ DOMAIN x[field] = 1 .. n
        /\ Vector(x[field], n)
    BY IndexedVector DEF Indexed, Vector
  <2>4. \A s \in 1 .. n : Lists(x[field][s], Entry(x, field), PlacesIn(x, field, s - 1))
    BY DEF Indexed
  <2>5. /\ x[K].len \in Nat /\ y[K].len \in Nat
        /\ kind # K => y[K].len = x[K].len
        /\ kind = K => y[K].len <= x[K].len + 1
    <3>1. /\ x[K].len \in Nat /\ y[K].len \in Nat
      BY <1>1, <2>1, HeldValues
    <3>2. kind # K => y[K] = x[K]
      BY <2>1 DEF IsPush
    <3>3. kind = K => y[K].len = IF x[K].free = {} THEN x[K].len + 1 ELSE x[K].len
      <4>1. IsArena(x[kind], Values(kind)) /\ y[kind] = Push(x[kind], v)
        BY DEF Typed, IsPush
      <4> QED
        BY <4>1, PushProperties
    <3> QED
      BY <3>1, <3>2, <3>3
  <2>6. CASE kind = O
    <3>1. Vector(y[field], n)
      BY <2>2, <2>3, <2>6 DEF IndexPush, Vector
    <3>2. ASSUME NEW s \in 1 .. n PROVE full(s) /\ kept(s)
      <4>1. PICK new : /\ y[field][s] = x[field][s] \o new
                       /\ Lists(new, Entry(y, field),
                                PlacesBy(x, field, NextSlot(x[O]), v, s - 1))
        BY <2>2, <2>3, <2>6 DEF IndexPush
      <4>2. Lists(x[field][s], Entry(x, field), PlacesIn(x, field, s - 1))
        BY <2>4
      <4>3. IsPush(y, x, O, v) /\ v \in Values(O)
        BY <2>6
      <4> DEFINE l == x[field][s]
      <4> HIDE DEF l
      <4>4. Lists(l, Entry(x, field), PlacesIn(x, field, s - 1))
        BY <4>2 DEF l
      <4>5. /\ Lists(l \o new, Entry(y, field), PlacesIn(y, field, s - 1))
            /\ AddsOutside(l \o new, l, field, Occupied(x[O]))
        BY <4>1, <4>3, <4>4, ListPushed
      <4> QED
        BY <4>1, <4>5 DEF l
    <3>3. n >= y[K].len
      BY <2>1, <2>3, <2>5, <2>6
    <3>4. /\ y[field] \in Seq(Seq(EntrySet(field)))
          /\ Len(y[field]) = n
          /\ Len(y[field]) >= y[K].len
      BY <1>1, <3>1, <3>2, <3>3, VectorIsIndexed
    <3>5. \A s \in 1 .. x[K].len : s \in 1 .. n
      BY <2>3, <2>5
    <3> QED
      BY <3>2, <3>4, <3>5
  <2>7. CASE kind # O
    <3>1. ASSUME NEW s \in 1 .. n
          PROVE  /\ Lists(x[field][s], Entry(y, field), PlacesIn(y, field, s - 1))
                 /\ AddsOutside(x[field][s], x[field][s], field, Occupied(x[O]))
      <4> DEFINE l == x[field][s]
      <4>1. Lists(l, Entry(x, field), PlacesIn(x, field, s - 1))
        BY <2>4
      <4> HIDE DEF l
      <4>2. /\ Lists(l, Entry(y, field), PlacesIn(y, field, s - 1))
            /\ AddsOutside(l, l, field, Occupied(x[O]))
        BY <2>7, <4>1, ListKept
      <4> QED
        BY <4>2 DEF l
    <3>2. \A s \in 1 .. x[K].len : s \in 1 .. n
      BY <2>3, <2>5
    <3>3. CASE kind # K
      <4>1. y[field] = x[field] /\ y[K].len = x[K].len
        BY <2>2, <2>5, <2>7, <3>3 DEF IndexPush
      <4>2. \A s \in 1 .. n : full(s) /\ kept(s)
        BY <3>1, <4>1
      <4>3. x[field] \in Seq(Seq(EntrySet(field)))
        BY DEF Indexed
      <4> QED
        BY <2>3, <3>2, <4>1, <4>2, <4>3
    <3>4. CASE kind = K
      <4>1. y[field] = Append(x[field], <<>>)
        BY <2>2, <3>4 DEF IndexPush
      <4>2. x[field] \in Seq(Seq(EntrySet(field))) /\ <<>> \in Seq(EntrySet(field))
        BY EmptySeq DEF Indexed
      <4>3. /\ y[field] \in Seq(Seq(EntrySet(field)))
            /\ Len(y[field]) = n + 1
            /\ \A s \in 1 .. n : y[field][s] = x[field][s]
            /\ y[field][n + 1] = <<>>
        BY <4>1, <4>2, AppendProperties
      <4>4. full(n + 1)
        <5>1. n \notin Occupied(x[K])
          BY <2>1, <2>3, HeldValues
        <5>2. PlacesIn(x, field, n) = {}
          BY <5>1, NoPlaces
        <5>3. PlacesIn(y, field, n) = {}
          BY <2>7, <5>2, PlacesKept
        <5>4. (n + 1) - 1 = n
          BY <2>3
        <5> QED
          BY <4>3, <5>3, <5>4, ListsNothing
      <4>5. \A s \in 1 .. n : full(s) /\ kept(s)
        BY <3>1, <4>3
      <4>6. \A s \in 1 .. (n + 1) : full(s)
        <5>1. \A s \in 1 .. (n + 1) : s \in 1 .. n \/ s = n + 1
          BY <2>3
        <5> QED
          BY <4>4, <4>5, <5>1
      <4>7. n + 1 >= y[K].len
        BY <2>3, <2>5, <3>4
      <4> QED
        BY <3>2, <4>3, <4>5, <4>6, <4>7
    <3> QED
      BY <3>3, <3>4
  <2> QED
    BY <2>6, <2>7
<1>3. Indexed(y)
  BY <1>2 DEF Indexed
<1>4. ListsGrown(y, x)
  BY <1>2 DEF ListsGrown
<1> QED
  BY <1>3, <1>4

-----------------------------------------------------------------------------
(***************************************************************************)
(* Lists made over, and lists cut back.                                    *)
(***************************************************************************)

\* `rebuild_indices` holds the places there are, whatever the lists held.
LEMMA RebuildIndexed ==
    ASSUME NEW z, Typed(z), NEW y, y = RebuildIndices(z)
    PROVE  Indexed(y)
<1>1. /\ y = [field \in Fields |-> y[field]]
      /\ \A kind \in Kinds : y[kind] = z[kind]
  BY RebuildArenas DEF Typed
<1>2. Typed(y)
  BY <1>1 DEF Typed
<1>3. ASSUME NEW field \in IndexFields
      PROVE  /\ Vector(y[field], z[Listed(field)].len)
             /\ \A s \in 1 .. z[Listed(field)].len :
                  Lists(y[field][s], Entry(z, field), PlacesIn(z, field, s - 1))
  <2> DEFINE O == Owner(field)
             n == z[Listed(field)].len
             P(s) == PlacesIn(z, field, s - 1)
  <2>1. n \in Nat
    BY FieldFacts, HeldValues
  <2>2. \A s : P(s) \in SUBSET Triples /\ IsFiniteSet(P(s))
    BY PlacesInFinite
  <2>3. \A s : Lists(Owners(z[O], P(s)), OwnerEntry(z[O]), P(s))
    <3> HIDE DEF P
    <3> QED
      BY <2>2, OwnersLists
  <2>4. \A s : Lists(Uses(z[O], P(s)), UseEntry(z[O]), P(s))
    <3> HIDE DEF P
    <3> QED
      BY <2>2, UsesLists
  <2>5. CASE field = "vertex_edges"
    <3>1. y["vertex_edges"] =
            [s \in 1 .. z["vertex"].len |-> Owners(z["edge"], EndsIn(z, s - 1))]
      BY DEF RebuildIndices, Typed, Fields, Kinds
    <3>2. \A s : P(s) = EndsIn(z, s - 1)
      BY <2>5 DEF PlacesIn
    <3>3. y[field] = [s \in 1 .. n |-> Owners(z[O], P(s))]
      BY <2>5, <3>1, <3>2, FieldFacts
    <3>4. Entry(z, field) = OwnerEntry(z[O])
      BY <2>5 DEF Entry
    <3> HIDE DEF n, P, O
    <3> QED
      BY <2>1, <2>3, <3>3, <3>4 DEF Vector, P, n
  <2>6. CASE field = "face_shells"
    <3>1. y["face_shells"] =
            [s \in 1 .. z["face"].len |-> Owners(z["shell"], ShellsIn(z, s - 1))]
      BY DEF RebuildIndices, Typed, Fields, Kinds
    <3>2. \A s : P(s) = ShellsIn(z, s - 1)
      BY <2>6 DEF PlacesIn
    <3>3. y[field] = [s \in 1 .. n |-> Owners(z[O], P(s))]
      BY <2>6, <3>1, <3>2, FieldFacts
    <3>4. Entry(z, field) = OwnerEntry(z[O])
      BY <2>6 DEF Entry
    <3> HIDE DEF n, P, O
    <3> QED
      BY <2>1, <2>3, <3>3, <3>4 DEF Vector, P, n
  <2>7. CASE field = "edge_uses"
    <3>1. y["edge_uses"] =
            [s \in 1 .. z["edge"].len |-> Uses(z["face"], UsesIn(z, s - 1))]
      BY DEF RebuildIndices, Typed, Fields, Kinds
    <3>2. \A s : P(s) = UsesIn(z, s - 1)
      BY <2>7 DEF PlacesIn
    <3>3. y[field] = [s \in 1 .. n |-> Uses(z[O], P(s))]
      BY <2>7, <3>1, <3>2, FieldFacts
    <3>4. Entry(z, field) = UseEntry(z[O])
      BY <2>7, FieldFacts DEF Entry
    <3> HIDE DEF n, P, O
    <3> QED
      BY <2>1, <2>4, <3>3, <3>4 DEF Vector, P, n
  <2> QED
    BY <2>5, <2>6, <2>7, FieldFacts
<1>4. ASSUME NEW field \in IndexFields
      PROVE  /\ y[field] \in Seq(Seq(EntrySet(field)))
             /\ Len(y[field]) >= y[Listed(field)].len
             /\ \A s \in 1 .. Len(y[field]) :
                  Lists(y[field][s], Entry(y, field), PlacesIn(y, field, s - 1))
  <2> DEFINE n == z[Listed(field)].len
  <2>1. y[Listed(field)].len = n /\ n \in Nat
    BY <1>1, FieldFacts, HeldValues
  <2>2. \A s : PlacesIn(y, field, s - 1) = PlacesIn(z, field, s - 1)
    BY <1>1, PlacesOfArenas
  <2>3. Entry(y, field) = Entry(z, field)
    BY <1>1, PlacesOfArenas
  <2>4. \A s \in 1 .. n : Lists(y[field][s], Entry(y, field), PlacesIn(y, field, s - 1))
    BY <1>3, <2>2, <2>3
  <2>5. Vector(y[field], n) /\ n >= y[Listed(field)].len
    BY <1>3, <2>1
  <2> HIDE DEF n
  <2> QED
    BY <1>2, <2>4, <2>5, VectorIsIndexed
<1> QED
  BY <1>4 DEF Indexed

LEMMA GrownListsItself ==
    ASSUME NEW x, Typed(x), Indexed(x)
    PROVE  ListsGrown(x, x)
<1> SUFFICES ASSUME NEW field \in IndexFields, NEW s \in 1 .. x[Listed(field)].len
             PROVE  AddsOutside(x[field][s], x[field][s], field, Occupied(x[Owner(field)]))
  BY DEF ListsGrown
<1>1. s \in 1 .. Len(x[field])
  <2>1. Len(x[field]) \in Nat /\ Len(x[field]) >= x[Listed(field)].len
    BY IndexedVector DEF Indexed
  <2>2. x[Listed(field)].len \in Nat
    BY FieldFacts, HeldValues
  <2> QED
    BY <2>1, <2>2
<1>2. Len(x[field][s]) \in Nat
  BY <1>1, IndexedList
<1> QED
  BY <1>2, AddsNothing

LEMMA ListsGrownTransitive ==
    ASSUME NEW x, NEW y, NEW z, Typed(x), Typed(y), Typed(z),
           Indexed(x), Indexed(y), Indexed(z), Grown(z, y), Grown(y, x),
           ListsGrown(z, y), ListsGrown(y, x)
    PROVE  ListsGrown(z, x)
<1> SUFFICES ASSUME NEW field \in IndexFields, NEW s \in 1 .. x[Listed(field)].len
             PROVE  AddsOutside(z[field][s], x[field][s], field, Occupied(x[Owner(field)]))
  BY DEF ListsGrown
<1> DEFINE O == Owner(field)
           K == Listed(field)
<1>1. O \in Kinds /\ K \in Kinds
  BY FieldFacts
<1>2. /\ x[K].len \in Nat /\ y[K].len \in Nat /\ z[K].len \in Nat
      /\ x[K].len <= y[K].len /\ y[K].len <= z[K].len
  BY <1>1, HeldValues DEF Grown, Extends
<1>3. s \in 1 .. y[K].len
  BY <1>2
<1>4. /\ Len(x[field]) \in Nat /\ Len(x[field]) >= x[K].len
      /\ Len(y[field]) \in Nat /\ Len(y[field]) >= y[K].len
      /\ Len(z[field]) \in Nat /\ Len(z[field]) >= z[K].len
  BY IndexedVector DEF Indexed
<1>5. s \in 1 .. Len(x[field]) /\ s \in 1 .. Len(y[field]) /\ s \in 1 .. Len(z[field])
  BY <1>2, <1>3, <1>4
<1>6. /\ Len(x[field][s]) \in Nat
      /\ Len(y[field][s]) \in Nat
      /\ Len(z[field][s]) \in Nat
  BY <1>5, IndexedList
<1>7. Occupied(x[O]) \subseteq Occupied(y[O])
  BY <1>1 DEF Grown, Extends
<1>8. /\ AddsOutside(z[field][s], y[field][s], field, Occupied(y[O]))
      /\ AddsOutside(y[field][s], x[field][s], field, Occupied(x[O]))
  BY <1>3 DEF ListsGrown
<1> QED
  BY <1>6, <1>7, <1>8, AddsMore

-----------------------------------------------------------------------------
\* Of the slots that hold something, those a transaction appended to are the
\* ones that held nothing when it began.
LEMMA AppendedOf ==
    ASSUME NEW V, NEW a, NEW b, IsArena(a, V), IsArena(b, V), Extends(a, b),
           NEW i \in Occupied(a)
    PROVE  i \in AppendedSlots(a, Mark(b)) <=> i \notin Occupied(b)
<1>1. /\ a.len \in Nat
      /\ Occupied(a) \subseteq Indices(a)
      /\ a.free = Indices(a) \ Occupied(a)
  BY ArenaFields
<1>2. /\ b.len \in Nat
      /\ Occupied(b) \subseteq Indices(b)
      /\ b.free = Indices(b) \ Occupied(b)
  BY ArenaFields
<1>3. AppendedSlots(a, Mark(b)) = (b.free \ a.free) \cup {j \in Indices(a) : j >= b.len}
  BY DEF AppendedSlots, ReusedSince, Mark
<1>4. i \in Indices(a) /\ i \in Nat
  BY <1>1 DEF Indices
<1>5. i \in Indices(b) <=> i < b.len
  BY <1>2, <1>4 DEF Indices
<1> QED
  BY <1>1, <1>2, <1>3, <1>4, <1>5

\* The slots whose lists the rollback pops, and what it leaves of a list.
Touched(x, t, field) ==
    UNION {{r.slot : r \in Refs(field, v)} :
             v \in Appended(x[Owner(field)], Mark(t[Owner(field)]))}
Popped(x, t, field, s) ==
    LET l    == x[field][s]
        gone == AppendedSlots(x[Owner(field)], Mark(t[Owner(field)]))
    IN  IF s - 1 \in Touched(x, t, field)
        THEN PopTo(l, {k \in DOMAIN l : OwnerSlot(field, l[k]) \notin gone})
        ELSE l

LEMMA RollbackLists ==
    ASSUME NEW x, Typed(x), NEW t, NEW field \in IndexFields
    PROVE  RollbackModel(x, MarksOf(t))[field] =
             CutTo([s \in DOMAIN x[field] |-> Popped(x, t, field, s)], t[Listed(field)].len)
<1> DEFINE at == MarksOf(t)
           r == RollbackModel(x, at)
<1>1. \A kind \in Kinds : at[kind] = Mark(t[kind])
  BY DEF MarksOf
<1>2. DOMAIN x = Fields /\ field \in Fields
  BY FieldFacts DEF Typed
<1>3. /\ at["vertex"].len = t["vertex"].len
      /\ at["edge"] = Mark(t["edge"]) /\ at["edge"].len = t["edge"].len
      /\ at["face"] = Mark(t["face"]) /\ at["face"].len = t["face"].len
      /\ at["shell"] = Mark(t["shell"])
  BY <1>1 DEF Mark, Kinds
<1> HIDE DEF at
<1>4. CASE field = "vertex_edges"
  <2> DEFINE gone == AppendedSlots(x["edge"], at["edge"])
             verts == UNION {{e.start.slot, e.end.slot} : e \in Appended(x["edge"], at["edge"])}
             left(l) == {k \in DOMAIN l : l[k].slot \notin gone}
             pop(s) == IF s - 1 \in verts THEN PopTo(x[field][s], left(x[field][s]))
                                          ELSE x[field][s]
  <2>1. r[field] = CutTo([s \in DOMAIN x[field] |-> pop(s)], at["vertex"].len)
    BY <1>2, <1>4 DEF RollbackModel
  <2>2. Owner(field) = "edge" /\ Listed(field) = "vertex"
    BY <1>4, FieldFacts
  <2>3. \A e : {q.slot : q \in Refs(field, e)} = {e.start.slot, e.end.slot}
    <3>1. \A e : Refs(field, e) = {e.start, e.end}
      BY <1>4, RefsOf
    <3> QED
      BY <3>1
  <2>4. verts = Touched(x, t, field)
    BY <1>3, <2>2, <2>3 DEF Touched
  <2>5. \A l : left(l) = {k \in DOMAIN l : OwnerSlot(field, l[k]) \notin gone}
    BY <1>4 DEF OwnerSlot
  <2>6. gone = AppendedSlots(x[Owner(field)], Mark(t[Owner(field)]))
    BY <1>3, <2>2
  <2> HIDE DEF gone, verts, left
  <2>7. \A s : pop(s) = Popped(x, t, field, s)
    BY <2>4, <2>5, <2>6 DEF Popped
  <2> HIDE DEF pop
  <2> QED
    BY <1>3, <2>1, <2>2, <2>7 DEF at
<1>5. CASE field = "edge_uses"
  <2> DEFINE gone == AppendedSlots(x["face"], at["face"])
             used == UNION {{e.slot : e \in EdgesOf(f)} : f \in Appended(x["face"], at["face"])}
             left(l) == {k \in DOMAIN l : l[k].face.slot \notin gone}
             pop(s) == IF s - 1 \in used THEN PopTo(x[field][s], left(x[field][s]))
                                         ELSE x[field][s]
  <2>1. r[field] = CutTo([s \in DOMAIN x[field] |-> pop(s)], at["edge"].len)
    BY <1>2, <1>5 DEF RollbackModel
  <2>2. Owner(field) = "face" /\ Listed(field) = "edge"
    BY <1>5, FieldFacts
  <2>3. \A f : Refs(field, f) = EdgesOf(f)
    BY <1>5, RefsOf
  <2>4. used = Touched(x, t, field)
    BY <1>3, <2>2, <2>3 DEF Touched
  <2>5. \A l : left(l) = {k \in DOMAIN l : OwnerSlot(field, l[k]) \notin gone}
    BY <1>5 DEF OwnerSlot
  <2>6. gone = AppendedSlots(x[Owner(field)], Mark(t[Owner(field)]))
    BY <1>3, <2>2
  <2> HIDE DEF gone, used, left
  <2>7. \A s : pop(s) = Popped(x, t, field, s)
    BY <2>4, <2>5, <2>6 DEF Popped
  <2> HIDE DEF pop
  <2> QED
    BY <1>3, <2>1, <2>2, <2>7 DEF at
<1>6. CASE field = "face_shells"
  <2> DEFINE gone == AppendedSlots(x["shell"], at["shell"])
             held == UNION {{f.slot : f \in ToSet(sh)} : sh \in Appended(x["shell"], at["shell"])}
             left(l) == {k \in DOMAIN l : l[k].slot \notin gone}
             pop(s) == IF s - 1 \in held THEN PopTo(x[field][s], left(x[field][s]))
                                         ELSE x[field][s]
  <2>1. r[field] = CutTo([s \in DOMAIN x[field] |-> pop(s)], at["face"].len)
    BY <1>2, <1>6 DEF RollbackModel
  <2>2. Owner(field) = "shell" /\ Listed(field) = "face"
    BY <1>6, FieldFacts
  <2>3. \A sh : Refs(field, sh) = ToSet(sh)
    BY <1>6, RefsOf
  <2>4. held = Touched(x, t, field)
    BY <1>3, <2>2, <2>3 DEF Touched
  <2>5. \A l : left(l) = {k \in DOMAIN l : OwnerSlot(field, l[k]) \notin gone}
    BY <1>6 DEF OwnerSlot
  <2>6. gone = AppendedSlots(x[Owner(field)], Mark(t[Owner(field)]))
    BY <1>3, <2>2
  <2> HIDE DEF gone, held, left
  <2>7. \A s : pop(s) = Popped(x, t, field, s)
    BY <2>4, <2>5, <2>6 DEF Popped
  <2> HIDE DEF pop
  <2> QED
    BY <1>3, <2>1, <2>2, <2>7 DEF at
<1> QED
  BY <1>4, <1>5, <1>6, FieldFacts

\* A list is popped back to what it was at entry.
LEMMA PoppedIsEntry ==
    ASSUME NEW x, NEW t, Typed(x), Typed(t), Indexed(x), Indexed(t), Grown(x, t),
           ListsGrown(x, t), NEW field \in IndexFields, NEW s \in 1 .. t[Listed(field)].len
    PROVE  Popped(x, t, field, s) = t[field][s]
<1> DEFINE O == Owner(field)
           K == Listed(field)
           E == EntrySet(field)
           l == x[field][s]
           k == t[field][s]
           gone == AppendedSlots(x[O], Mark(t[O]))
           left == {n \in DOMAIN l : OwnerSlot(field, l[n]) \notin gone}
<1>1. O \in Kinds /\ K \in Kinds
  BY FieldFacts
<1>2. s \in 1 .. Len(x[field]) /\ s \in 1 .. Len(t[field])
  <2>1. /\ x[K].len \in Nat /\ t[K].len \in Nat /\ t[K].len <= x[K].len
    BY <1>1, HeldValues DEF Grown, Extends
  <2>2. /\ Len(x[field]) \in Nat /\ Len(x[field]) >= x[K].len
        /\ Len(t[field]) \in Nat /\ Len(t[field]) >= t[K].len
    BY IndexedVector DEF Indexed
  <2> QED
    BY <2>1, <2>2
<1>3. /\ l \in Seq(E) /\ Len(l) \in Nat
      /\ k \in Seq(E) /\ Len(k) \in Nat
  BY <1>2, IndexedList
<1>4. DOMAIN l = 1 .. Len(l)
  BY <1>3, LenProperties
<1>5. AddsOutside(l, k, field, Occupied(t[O]))
  BY DEF ListsGrown
<1>6. \A n \in 1 .. Len(l) : OwnerSlot(field, l[n]) \in Occupied(x[O])
  BY <1>2, IndexedOwners
<1>7. \A n \in 1 .. Len(k) : OwnerSlot(field, k[n]) \in Occupied(t[O])
  BY <1>2, IndexedOwners
<1>8. \A i \in Occupied(x[O]) : i \in gone <=> i \notin Occupied(t[O])
  <2>1. IsArena(x[O], Values(O)) /\ IsArena(t[O], Values(O)) /\ Extends(x[O], t[O])
    BY <1>1 DEF Typed, Grown
  <2> QED
    BY <2>1, AppendedOf
<1>t. s - 1 \notin Touched(x, t, field) =>
        \A n \in 1 .. Len(l) : OwnerSlot(field, l[n]) \notin gone
  <2> SUFFICES ASSUME NEW n \in 1 .. Len(l), OwnerSlot(field, l[n]) \in gone
               PROVE  s - 1 \in Touched(x, t, field)
    OBVIOUS
  <2>1. Lists(l, Entry(x, field), PlacesIn(x, field, s - 1))
    BY <1>2 DEF Indexed
  <2> HIDE DEF l, gone, O
  <2>2. PICK p \in PlacesIn(x, field, s - 1) : l[n] = Entry(x, field)[p]
    BY <2>1, ListElements
  <2>3. OwnerSlot(field, l[n]) = p[1]
    BY <2>2, EntryTyped
  <2>4. /\ p[1] \in Occupied(x[O])
        /\ \E r \in Refs(field, x[O].val[p[1]]) : r.slot = s - 1
    BY PlacesInFacts DEF O
  <2>5. x[O].val[p[1]] \in Appended(x[O], Mark(t[O]))
    BY <2>3, <2>4 DEF Appended, gone
  <2> QED
    BY <2>4, <2>5 DEF Touched, O
<1>9. Popped(x, t, field, s) = IF s - 1 \in Touched(x, t, field) THEN PopTo(l, left) ELSE l
  BY DEF Popped
<1> HIDE DEF l, k, gone, E
<1>10. /\ Len(k) <= Len(l)
       /\ \A n \in 1 .. Len(k) : n \in 1 .. Len(l) /\ l[n] = k[n]
  BY <1>3, <1>5 DEF AddsOutside, Prolongs
<1>11. \A n \in 1 .. Len(l) : OwnerSlot(field, l[n]) \notin gone <=> n <= Len(k)
  <2> SUFFICES ASSUME NEW n \in 1 .. Len(l)
               PROVE  OwnerSlot(field, l[n]) \notin gone <=> n <= Len(k)
    OBVIOUS
  <2>1. CASE n <= Len(k)
    <3>1. n \in 1 .. Len(k)
      BY <1>3, <2>1
    <3>2. OwnerSlot(field, l[n]) \in Occupied(t[O])
      BY <1>7, <1>10, <3>1
    <3> QED
      BY <1>6, <1>8, <2>1, <3>2
  <2>2. CASE ~ (n <= Len(k))
    <3>1. n > Len(k)
      BY <1>3, <2>2
    <3>2. OwnerSlot(field, l[n]) \notin Occupied(t[O])
      BY <1>5, <3>1 DEF AddsOutside
    <3> QED
      BY <1>6, <1>8, <2>2, <3>2
  <2> QED
    BY <2>1, <2>2
<1>12. left = 1 .. Len(k)
  BY <1>3, <1>4, <1>10, <1>11
<1> HIDE DEF left
<1>13. CASE s - 1 \in Touched(x, t, field)
  <2>1. Prolongs(l, k)
    BY <1>5 DEF AddsOutside
  <2>2. PopTo(l, left) = k
    BY <1>3, <1>12, <2>1, PopToPrefix
  <2> QED
    BY <1>9, <1>13, <2>2 DEF k
<1>14. CASE s - 1 \notin Touched(x, t, field)
  <2>1. \A n \in 1 .. Len(l) : n <= Len(k)
    BY <1>11, <1>14, <1>t
  <2>2. Len(l) = Len(k)
    BY <1>3, <1>10, <2>1
  <2>3. l = k
    BY <1>3, <1>10, <2>2, SeqEqual
  <2> QED
    BY <1>9, <1>14, <2>3 DEF k
<1> QED
  BY <1>13, <1>14

\* An error puts back every list of entry, and drops the lists of the slots
\* that came after.
LEMMA RollbackPutsBack ==
    ASSUME NEW x, NEW t, Typed(x), Typed(t), Indexed(x), Indexed(t), Grown(x, t),
           ListsGrown(x, t), NEW field \in IndexFields
    PROVE  /\ RollbackModel(x, MarksOf(t))[field] = CutTo(t[field], t[Listed(field)].len)
           /\ t[field] \in Seq(Seq(EntrySet(field)))
           /\ t[Listed(field)].len \in Nat /\ t[Listed(field)].len <= Len(t[field])
<1> DEFINE K == Listed(field)
           c == t[K].len
           n == Len(x[field])
           w == [s \in 1 .. n |-> Popped(x, t, field, s)]
           E == {w[s] : s \in 1 .. n} \cup Seq(EntrySet(field))
<1>1. K \in Kinds
  BY FieldFacts
<1>2. /\ c \in Nat /\ n \in Nat /\ c <= n
      /\ Len(t[field]) \in Nat /\ c <= Len(t[field])
      /\ t[field] \in Seq(Seq(EntrySet(field)))
  <2>1. /\ x[K].len \in Nat /\ t[K].len \in Nat /\ t[K].len <= x[K].len
    BY <1>1, HeldValues DEF Grown, Extends
  <2>2. /\ Len(x[field]) \in Nat /\ Len(x[field]) >= x[K].len
        /\ Len(t[field]) \in Nat /\ Len(t[field]) >= t[K].len
        /\ t[field] \in Seq(Seq(EntrySet(field)))
    BY IndexedVector DEF Indexed
  <2> QED
    BY <2>1, <2>2
<1>3. DOMAIN x[field] = 1 .. n
  BY IndexedVector
<1>4. RollbackModel(x, MarksOf(t))[field] = CutTo(w, c)
  BY <1>3, RollbackLists
<1>5. \A s \in 1 .. c : w[s] = t[field][s]
  <2>1. \A s \in 1 .. c : s \in 1 .. n
    BY <1>2
  <2> QED
    BY <2>1, PoppedIsEntry
<1> HIDE DEF c, n
<1>6. w \in Seq(E) /\ Len(w) = n
  <2>1. w \in [1 .. n -> E]
    OBVIOUS
  <2> HIDE DEF w, E
  <2> QED
    BY <1>2, <2>1
<1>7. t[field] \in Seq(E)
  <2>1. Seq(EntrySet(field)) \subseteq E
    OBVIOUS
  <2> HIDE DEF E
  <2> QED
    BY <1>2, <2>1, SeqMonotonic
<1> HIDE DEF w, E
<1>8. CutTo(w, c) = CutTo(t[field], c)
  BY <1>2, <1>5, <1>6, <1>7, CutSame
<1> QED
  BY <1>2, <1>4, <1>8 DEF c

LEMMA RollbackSame ==
    ASSUME NEW x, NEW t, Typed(x), Typed(t), Indexed(x), Indexed(t), Grown(x, t),
           ListsGrown(x, t)
    PROVE  SameModel(RollbackModel(x, MarksOf(t)), t)
<1> DEFINE r == RollbackModel(x, MarksOf(t))
<1>1. \A kind \in Kinds : r[kind] = t[kind]
  BY RollbackArenas
<1>2. ASSUME NEW field \in IndexFields
      PROVE  CutTo(r[field], t[Listed(field)].len) = CutTo(t[field], t[Listed(field)].len)
  <2> DEFINE c == t[Listed(field)].len
  <2>1. /\ r[field] = CutTo(t[field], c)
        /\ t[field] \in Seq(Seq(EntrySet(field)))
        /\ c \in Nat /\ c <= Len(t[field])
    BY RollbackPutsBack
  <2> HIDE DEF r, c
  <2>2. CutTo(CutTo(t[field], c), c) = CutTo(t[field], c)
    BY <2>1, CutTwice
  <2> QED
    BY <2>1, <2>2 DEF c
<1> HIDE DEF r
<1>3. /\ "vertex_edges" \in IndexFields /\ Listed("vertex_edges") = "vertex"
      /\ "edge_uses" \in IndexFields /\ Listed("edge_uses") = "edge"
      /\ "face_shells" \in IndexFields /\ Listed("face_shells") = "face"
  BY FieldFacts DEF IndexFields
<1>4. r["vertex"] = t["vertex"] /\ r["edge"] = t["edge"] /\ r["face"] = t["face"]
  BY <1>1 DEF Kinds
<1>5. /\ CutTo(r["vertex_edges"], t["vertex"].len) = CutTo(t["vertex_edges"], t["vertex"].len)
      /\ CutTo(r["edge_uses"], t["edge"].len) = CutTo(t["edge_uses"], t["edge"].len)
      /\ CutTo(r["face_shells"], t["face"].len) = CutTo(t["face_shells"], t["face"].len)
  BY <1>2, <1>3
<1>6. SameModel(r, t)
  BY <1>1, <1>4, <1>5 DEF SameModel
<1> QED
  BY <1>6 DEF r

LEMMA RollbackIndexed ==
    ASSUME NEW x, NEW t, Typed(x), Typed(t), Indexed(x), Indexed(t), Grown(x, t),
           ListsGrown(x, t), NEW r, r = RollbackModel(x, MarksOf(t))
    PROVE  /\ Indexed(r)
           /\ \A field \in IndexFields : \A s \in 1 .. t[Listed(field)].len :
                r[field][s] = t[field][s]
<1>1. Typed(r) /\ \A kind \in Kinds : r[kind] = t[kind]
  BY RollbackArenas
<1>2. ASSUME NEW field \in IndexFields
      PROVE  /\ r[field] \in Seq(Seq(EntrySet(field)))
             /\ Len(r[field]) >= r[Listed(field)].len
             /\ \A s \in 1 .. Len(r[field]) :
                  Lists(r[field][s], Entry(r, field), PlacesIn(r, field, s - 1))
             /\ \A s \in 1 .. t[Listed(field)].len : r[field][s] = t[field][s]
  <2> DEFINE c == t[Listed(field)].len
             E == Seq(EntrySet(field))
  <2>1. /\ r[field] = CutTo(t[field], c)
        /\ t[field] \in Seq(E)
        /\ c \in Nat /\ c <= Len(t[field])
    BY RollbackPutsBack
  <2>2. r[Listed(field)].len = c
    BY <1>1, FieldFacts
  <2> HIDE DEF c, E
  <2>3. /\ r[field] \in Seq(E)
        /\ Len(r[field]) = c
        /\ \A s \in 1 .. c : r[field][s] = t[field][s]
    BY <2>1, CutProperties
  <2>4. ASSUME NEW s \in 1 .. c
        PROVE  Lists(r[field][s], Entry(r, field), PlacesIn(r, field, s - 1))
    <3>1. Len(t[field]) \in Nat
      BY IndexedVector
    <3>2. s \in 1 .. Len(t[field])
      BY <2>1, <3>1
    <3>3. Lists(t[field][s], Entry(t, field), PlacesIn(t, field, s - 1))
      BY <3>2 DEF Indexed
    <3>4. /\ PlacesIn(r, field, s - 1) = PlacesIn(t, field, s - 1)
          /\ Entry(r, field) = Entry(t, field)
      BY <1>1, PlacesOfArenas
    <3> QED
      BY <2>3, <3>3, <3>4
  <2>5. Len(r[field]) >= r[Listed(field)].len
    BY <2>1, <2>2, <2>3
  <2>6. \A s \in 1 .. Len(r[field]) :
           Lists(r[field][s], Entry(r, field), PlacesIn(r, field, s - 1))
    BY <2>3, <2>4
  <2> QED
    BY <2>3, <2>5, <2>6 DEF c, E
<1>3. Indexed(r)
  BY <1>2 DEF Indexed
<1> QED
  BY <1>2, <1>3

\* What had grown out of an earlier entry has when a later one is put back.
LEMMA RollbackGrown ==
    ASSUME NEW t, NEW u, Typed(t), Typed(u), Grown(t, u), ListsGrown(t, u), NEW r,
           \A kind \in Kinds : r[kind] = t[kind],
           \A field \in IndexFields : \A s \in 1 .. t[Listed(field)].len :
              r[field][s] = t[field][s]
    PROVE  ListsGrown(r, u)
<1> SUFFICES ASSUME NEW field \in IndexFields, NEW s \in 1 .. u[Listed(field)].len
             PROVE  AddsOutside(r[field][s], u[field][s], field, Occupied(u[Owner(field)]))
  BY DEF ListsGrown
<1>1. /\ u[Listed(field)].len \in Nat /\ t[Listed(field)].len \in Nat
      /\ u[Listed(field)].len <= t[Listed(field)].len
  BY FieldFacts, HeldValues DEF Grown, Extends
<1>2. s \in 1 .. t[Listed(field)].len
  BY <1>1
<1>3. r[field][s] = t[field][s]
  BY <1>2
<1> QED
  BY <1>3 DEF ListsGrown

-----------------------------------------------------------------------------
(***************************************************************************)
(* The invariant, step by step.                                            *)
(***************************************************************************)

IndexInv ==
    /\ ShapeInv
    /\ Indexed(m) /\ NoneAhead(m)
    /\ \A k \in DOMAIN txs :
         Indexed(txs[k]) /\ NoneAhead(txs[k]) /\ ListsGrown(m, txs[k])
    /\ \A k \in DOMAIN txs : \A j \in DOMAIN txs : j <= k => ListsGrown(txs[k], txs[j])

LEMMA IndexInit == Init => IndexInv
<1> SUFFICES ASSUME Init PROVE IndexInv
  OBVIOUS
<1>1. /\ ShapeInv
      /\ m = [field \in Fields |-> IF field \in Kinds THEN EmptyArena ELSE <<>>]
      /\ txs = <<>>
  BY ShapeInit DEF Init, EmptyModel
<1>2. \A kind \in Kinds : m[kind].len = 0 /\ Occupied(m[kind]) = {}
  <2>1. \A kind \in Kinds : m[kind] = EmptyArena
    BY <1>1, KindsAreFields
  <2> QED
    BY <2>1 DEF Occupied, EmptyArena, EmptyFun
<1>3. ASSUME NEW field \in IndexFields
      PROVE  /\ m[field] \in Seq(Seq(EntrySet(field)))
             /\ Len(m[field]) >= m[Listed(field)].len
             /\ \A s \in 1 .. Len(m[field]) :
                  Lists(m[field][s], Entry(m, field), PlacesIn(m, field, s - 1))
  <2>1. m[field] = <<>>
    BY <1>1, FieldFacts
  <2>2. <<>> \in Seq(Seq(EntrySet(field))) /\ Len(<<>>) = 0
    BY EmptySeq
  <2>3. m[Listed(field)].len = 0
    BY <1>2, FieldFacts
  <2> QED
    BY <2>1, <2>2, <2>3
<1>4. Indexed(m)
  BY <1>3 DEF Indexed
<1>5. NoneAhead(m)
  BY <1>2, FieldFacts DEF NoneAhead
<1>6. DOMAIN txs = {}
  BY <1>1
<1> QED
  BY <1>1, <1>4, <1>5, <1>6 DEF IndexInv

\* A step that leaves the transactions alone and only adds keeps the rest.
LEMMA IndexAdds ==
    ASSUME IndexInv, ShapeInv', UNCHANGED txs, Typed(m'), Grown(m', m), Indexed(m'),
           NoneAhead(m'), ListsGrown(m', m)
    PROVE  IndexInv'
<1>1. ASSUME NEW k \in DOMAIN txs PROVE ListsGrown(m', txs[k])
  <2>1. /\ Typed(m) /\ Typed(txs[k]) /\ Grown(m, txs[k])
        /\ Indexed(m) /\ Indexed(txs[k]) /\ ListsGrown(m, txs[k])
    BY DEF IndexInv, ShapeInv
  <2> QED
    BY <2>1, ListsGrownTransitive
<1> QED
  BY <1>1 DEF IndexInv

LEMMA IndexAppending ==
    ASSUME ShapesRefer, IndexInv, Appending
    PROVE  IndexInv'
<1>1. ShapeInv /\ Typed(m) /\ Indexed(m) /\ NoneAhead(m)
  BY DEF IndexInv, ShapeInv
<1>2. ShapeInv' /\ UNCHANGED txs /\ Typed(m') /\ Grown(m', m)
  BY <1>1, ShapeAppending
<1>3. PICK kind \in Kinds : \E v \in Values(kind) :
         /\ m' = PushOf(m, kind, v)
         /\ IsPush(m', m, kind, v)
         /\ \A k \in Kinds : References(kind, v)[k] \subseteq Given(k)
  BY <1>1, AppendedIsTyped
<1>4. PICK v \in Values(kind) :
         /\ m' = PushOf(m, kind, v)
         /\ IsPush(m', m, kind, v)
         /\ \A k \in Kinds : References(kind, v)[k] \subseteq Given(k)
  BY <1>3
<1>5. ASSUME NEW field \in IndexFields, Owner(field) = kind
      PROVE  \A r \in Refs(field, v) : NotAhead(m, Listed(field), r)
  <2>1. Listed(field) \in Kinds
    BY FieldFacts
  <2>2. Refs(field, v) \subseteq Given(Listed(field))
    BY <1>4, <1>5, <2>1 DEF Refs
  <2> QED
    BY <1>1, <2>1, <2>2, GivenNotAhead
<1>6. NoneAhead(m')
  BY <1>1, <1>4, <1>5, AheadAfterPush
<1>7. Indexed(m') /\ ListsGrown(m', m)
  BY <1>1, <1>4, PushIndexed
<1> QED
  BY <1>2, <1>6, <1>7, IndexAdds

\* No transaction is open, so nothing is to be compared with.
LEMMA IndexAlone ==
    ASSUME IndexInv, ShapeInv', txs = <<>>, UNCHANGED txs, Indexed(m'), NoneAhead(m')
    PROVE  IndexInv'
<1>1. DOMAIN txs = {} /\ DOMAIN txs' = {}
  OBVIOUS
<1> QED
  BY <1>1 DEF IndexInv

LEMMA RebuiltIsIndexed ==
    ASSUME NEW z, z = [field \in Fields |-> z[field]], NEW y, Typed(y), y = RebuildIndices(z)
    PROVE  Indexed(y)
<1>1. \A kind \in Kinds : y[kind] = z[kind]
  BY RebuildArenas
<1>2. Typed(z)
  BY <1>1 DEF Typed
<1> QED
  BY <1>2, RebuildIndexed

LEMMA IndexRetain ==
    ASSUME ~ RetainInTx, IndexInv, Retain
    PROVE  IndexInv'
<1>1. ShapeInv /\ Typed(m) /\ NoneAhead(m)
  BY DEF IndexInv, ShapeInv
<1>2. ShapeInv' /\ txs = <<>> /\ UNCHANGED txs
  BY <1>1, ShapeRetain
<1>3. PICK bodies \in SUBSET LiveOf(m, "body") :
         /\ m' = RetainModel(m, bodies)
         /\ \A kind \in Kinds :
              /\ SweptTo(m'[kind], m[kind], ReachableFrom(m, bodies, kind))
              /\ LiveOf(m', kind) = ReachableFrom(m, bodies, kind)
              /\ \A id \in LiveOf(m', kind) : Get(m', kind, id) = Get(m, kind, id)
  BY <1>1, ShapeRetain
<1>4. \A kind \in Kinds : \A i \in Occupied(m[kind]) : m[kind].gen[i] < GenLimit
  BY DEF Retain
<1>5. NoneAhead(m')
  <2>1. \A kind \in Kinds : SweptTo(m'[kind], m[kind], ReachableFrom(m, bodies, kind))
    BY <1>3
  <2> QED
    BY <1>1, <1>4, <2>1, AheadAfterRetain
<1>6. Indexed(m')
  <2> DEFINE swept(kind) == FreeSlots(m[kind], Indices(m[kind]) \
                               {id.slot : id \in ReachableFrom(m, bodies, kind)})
             z == [field \in DOMAIN m |-> IF field \in Kinds THEN swept(field) ELSE m[field]]
  <2>1. m' = RebuildIndices(z)
    BY <1>3 DEF RetainModel
  <2>2. z = [field \in Fields |-> z[field]]
    BY <1>1 DEF Typed
  <2>3. Typed(m')
    BY <1>2 DEF ShapeInv
  <2> HIDE DEF z
  <2> QED
    BY <2>1, <2>2, <2>3, RebuiltIsIndexed
<1> QED
  BY <1>2, <1>5, <1>6, IndexAlone

LEMMA IndexReload ==
    ASSUME IndexInv, Reload
    PROVE  IndexInv'
<1>1. ShapeInv /\ Typed(m) /\ NoneAhead(m)
  BY DEF IndexInv, ShapeInv
<1>2. /\ ShapeInv' /\ txs = <<>> /\ UNCHANGED txs
      /\ \A kind \in Kinds : m'[kind] = m[kind]
  BY <1>1, ShapeReload
<1>3. NoneAhead(m')
  BY <1>1, <1>2, AheadOfArenas
<1>4. Indexed(m')
  <2> DEFINE z == [field \in DOMAIN m |->
                     IF field \in Kinds THEN ReadBack(SlotsOf(m[field]), m[field].len)
                                        ELSE m[field]]
  <2>1. m' = RebuildIndices(z)
    BY DEF Reload
  <2>2. z = [field \in Fields |-> z[field]]
    BY <1>1 DEF Typed
  <2>3. Typed(m')
    BY <1>2 DEF ShapeInv
  <2> HIDE DEF z
  <2> QED
    BY <2>1, <2>2, <2>3, RebuiltIsIndexed
<1> QED
  BY <1>2, <1>3, <1>4, IndexAlone

LEMMA IndexBegin ==
    ASSUME IndexInv, Begin
    PROVE  IndexInv'
<1>1. ShapeInv /\ Typed(m) /\ Indexed(m) /\ NoneAhead(m)
  BY DEF IndexInv, ShapeInv
<1>2. /\ ShapeInv' /\ m' = m
      /\ \A k \in DOMAIN txs' : txs'[k] = m \/ (k \in DOMAIN txs /\ txs'[k] = txs[k])
  BY <1>1, ShapeBegin
<1>3. ListsGrown(m, m)
  BY <1>1, GrownListsItself
<1>4. \A k \in DOMAIN txs' :
         Indexed(txs'[k]) /\ NoneAhead(txs'[k]) /\ ListsGrown(m, txs'[k])
  BY <1>1, <1>2, <1>3 DEF IndexInv
<1>5. /\ txs' = Append(txs, m)
      /\ txs \in Seq({txs[k] : k \in DOMAIN txs})
  BY <1>1 DEF Begin, ShapeInv
<1>6. /\ DOMAIN txs = 1 .. Len(txs)
      /\ Len(txs) \in Nat
      /\ DOMAIN txs' = 1 .. (Len(txs) + 1)
      /\ \A k \in 1 .. Len(txs) : txs'[k] = txs[k]
      /\ txs'[Len(txs) + 1] = m
  BY <1>5, EnterTx
<1>7. ASSUME NEW k \in DOMAIN txs', NEW j \in DOMAIN txs', j <= k
      PROVE  ListsGrown(txs'[k], txs'[j])
  <2>1. CASE k = Len(txs) + 1
    BY <1>4, <1>6, <2>1
  <2>2. CASE k # Len(txs) + 1
    <3>1. k \in DOMAIN txs /\ j \in DOMAIN txs
      BY <1>6, <1>7, <2>2
    <3> QED
      BY <1>6, <1>7, <3>1 DEF IndexInv
  <2> QED
    BY <2>1, <2>2
<1> QED
  BY <1>1, <1>2, <1>4, <1>7 DEF IndexInv

LEMMA IndexCommit ==
    ASSUME IndexInv, Commit
    PROVE  IndexInv'
<1>1. ShapeInv
  BY DEF IndexInv
<1>2. /\ ShapeInv' /\ m' = m
      /\ \A k \in DOMAIN txs' : k \in DOMAIN txs /\ txs'[k] = txs[k]
  BY <1>1, ShapeCommit
<1> QED
  BY <1>2 DEF IndexInv

LEMMA IndexAbort ==
    ASSUME IndexInv, Abort
    PROVE  IndexInv'
<1> DEFINE t == txs[Len(txs)]
<1>1. ShapeInv
  BY DEF IndexInv
<1>2. /\ ShapeInv'
      /\ Len(txs) \in DOMAIN txs
      /\ m' = RollbackModel(m, MarksOf(t))
      /\ \A kind \in Kinds : m'[kind] = t[kind]
      /\ \A k \in DOMAIN txs' : k \in DOMAIN txs /\ k < Len(txs) /\ txs'[k] = txs[k]
  BY <1>1, ShapeAbort
<1>3. /\ Typed(m) /\ Typed(t) /\ Grown(m, t)
      /\ Indexed(m) /\ Indexed(t) /\ NoneAhead(t) /\ ListsGrown(m, t)
  BY <1>2 DEF IndexInv, ShapeInv
<1> HIDE DEF t
<1>4. /\ Indexed(m')
      /\ \A field \in IndexFields : \A s \in 1 .. t[Listed(field)].len :
           m'[field][s] = t[field][s]
  BY <1>2, <1>3, RollbackIndexed
<1>5. NoneAhead(m')
  BY <1>2, <1>3, AheadOfArenas
<1>6. ASSUME NEW k \in DOMAIN txs' PROVE ListsGrown(m', txs'[k])
  <2>1. k \in DOMAIN txs /\ k < Len(txs) /\ txs'[k] = txs[k]
    BY <1>2
  <2>2. k <= Len(txs)
    <3>1. k \in Nat /\ Len(txs) \in Nat
      <4>1. txs # <<>> /\ txs \in Seq({txs[i] : i \in DOMAIN txs})
        BY <1>1 DEF Abort, ShapeInv
      <4>2. DOMAIN txs = 1 .. Len(txs) /\ Len(txs) \in Nat \ {0}
        BY <4>1, LeaveTx
      <4> QED
        BY <2>1, <4>2
    <3> QED
      BY <2>1, <3>1
  <2>3. Typed(txs[k]) /\ Grown(t, txs[k]) /\ ListsGrown(t, txs[k])
    BY <1>2, <2>1, <2>2 DEF IndexInv, ShapeInv, t
  <2>4. ListsGrown(m', txs[k])
    BY <1>2, <1>3, <1>4, <2>3, RollbackGrown
  <2> QED
    BY <2>1, <2>4
<1>7. /\ \A k \in DOMAIN txs' : Indexed(txs'[k]) /\ NoneAhead(txs'[k])
      /\ \A k \in DOMAIN txs' : \A j \in DOMAIN txs' : j <= k => ListsGrown(txs'[k], txs'[j])
  BY <1>2 DEF IndexInv
<1> QED
  BY <1>2, <1>4, <1>5, <1>6, <1>7 DEF IndexInv

LEMMA IndexNext == ShapesRefer /\ ~ RetainInTx /\ IndexInv /\ [Next]_vars => IndexInv'
<1> SUFFICES ASSUME ShapesRefer, ~ RetainInTx, IndexInv, [Next]_vars PROVE IndexInv'
  OBVIOUS
<1>1. CASE UNCHANGED vars
  BY <1>1 DEF vars, IndexInv, ShapeInv
<1> QED
  BY <1>1, IndexAppending, IndexRetain, IndexReload, IndexBegin, IndexCommit, IndexAbort
     DEF Next, Appending

\* An error inside a transaction, at whatever depth and after whatever appends,
\* puts back the arenas of entry and every index list, slot by slot: the pops
\* of a rollback stop exactly where the list of entry ends.
THEOREM RollbackIsExact ==
    ASSUME ShapesRefer, ~ RetainInTx
    PROVE  Spec => []RollbackRestoresModel
<1>1. IndexInv => RollbackRestoresModel
  BY RollbackSame DEF IndexInv, ShapeInv, RollbackRestoresModel
<1> QED
  BY <1>1, IndexInit, IndexNext, PTL DEF Spec

-----------------------------------------------------------------------------
(***************************************************************************)
(* What the lists of live entities say, entity by entity.                  *)
(***************************************************************************)

\* The list of a live entity, and the places it lists.
LEMMA LiveLists ==
    ASSUME NEW x, Typed(x), Indexed(x), NEW field \in IndexFields,
           NEW id \in LiveOf(x, Listed(field))
    PROVE  Lists(x[field][id.slot + 1], Entry(x, field), PlacesIn(x, field, id.slot))
<1> DEFINE L == Listed(field)
<1>1. L \in Kinds
  BY FieldFacts
<1>2. id.slot \in Occupied(x[L])
  BY LiveResolves
<1>3. id.slot \in Nat /\ id.slot < x[L].len /\ x[L].len \in Nat
  BY <1>1, <1>2, HeldValues
<1>4. /\ x[field] \in Seq(Seq(EntrySet(field)))
      /\ Len(x[field]) >= x[L].len
      /\ \A s \in 1 .. Len(x[field]) :
           Lists(x[field][s], Entry(x, field), PlacesIn(x, field, s - 1))
  BY DEF Indexed
<1>5. Len(x[field]) \in Nat
  BY <1>4, LenProperties
<1>6. id.slot + 1 \in 1 .. Len(x[field]) /\ (id.slot + 1) - 1 = id.slot
  BY <1>3, <1>4, <1>5
<1> QED
  BY <1>4, <1>6

\* Live ids are the ids of the occupied slots.
LEMMA LiveSlots ==
    ASSUME NEW x, Typed(x), NEW kind \in Kinds
    PROVE  /\ \A i \in Occupied(x[kind]) :
                /\ IdOf(x[kind], i) \in LiveOf(x, kind)
                /\ IdOf(x[kind], i).slot = i
                /\ Get(x, kind, IdOf(x[kind], i)) = x[kind].val[i]
           /\ \A id \in LiveOf(x, kind) :
                /\ id.slot \in Occupied(x[kind])
                /\ id = IdOf(x[kind], id.slot)
                /\ Get(x, kind, id) = x[kind].val[id.slot]
           /\ \A r \in Ids : \A id \in LiveOf(x, kind) :
                (r.slot = id.slot /\ Has(x, kind, r)) <=> r = id
<1>1. /\ \A i \in Occupied(x[kind]) :
           /\ IdOf(x[kind], i) \in LiveOf(x, kind)
           /\ IdOf(x[kind], i).slot = i
           /\ Get(x, kind, IdOf(x[kind], i)) = x[kind].val[i]
      /\ \A id \in LiveOf(x, kind) :
           /\ id.slot \in Occupied(x[kind])
           /\ id = IdOf(x[kind], id.slot)
           /\ Get(x, kind, id) = x[kind].val[id.slot]
  BY DEF LiveOf, LiveIds, IdOf, Get
<1>2. LiveOf(x, kind) \subseteq Ids
  BY LiveAreIds
<1>3. \A id \in LiveOf(x, kind) : Has(x, kind, id)
  BY LiveResolves
<1>4. ASSUME NEW r \in Ids, NEW id \in LiveOf(x, kind)
      PROVE  (r.slot = id.slot /\ Has(x, kind, r)) <=> r = id
  <2>1. id \in Ids
    BY <1>2
  <2>2. r = id => r.slot = id.slot /\ Has(x, kind, r)
    BY <1>3
  <2>3. ASSUME r.slot = id.slot, Has(x, kind, r) PROVE r = id
    <3>1. r.gen = id.gen
      BY <1>3, <2>3 DEF Has, Resolves
    <3> QED
      BY <2>1, <2>3, <3>1 DEF Ids
  <2> QED
    BY <2>2, <2>3
<1> QED
  BY <1>1, <1>4

LEMMA EdgesAreListed ==
    ASSUME NEW x, Typed(x), Indexed(x)
    PROVE  EdgesListed(x)
<1> SUFFICES ASSUME NEW v \in LiveOf(x, "vertex")
             PROVE  LET list == x.vertex_edges[v.slot + 1]
                    IN  /\ ToSet(list) = {e \in LiveOf(x, "edge") :
                                            EndsAt(x, Get(x, "edge", e), v.slot)}
                        /\ Cardinality(ToSet(list)) = Len(list)
  BY DEF EdgesListed
<1> DEFINE l == x.vertex_edges[v.slot + 1]
           P == EndsIn(x, v.slot)
           entry == OwnerEntry(x["edge"])
           O == Occupied(x["edge"])
<1>1. "edge" \in Kinds /\ "vertex_edges" \in IndexFields
  BY DEF Kinds, IndexFields
<1>2. Lists(l, entry, P)
  <2>1. Owner("vertex_edges") = "edge" /\ Listed("vertex_edges") = "vertex"
    BY <1>1, FieldFacts
  <2>2. Lists(x["vertex_edges"][v.slot + 1], Entry(x, "vertex_edges"),
              PlacesIn(x, "vertex_edges", v.slot))
    BY <1>1, <2>1, LiveLists
  <2>3. Entry(x, "vertex_edges") = entry /\ PlacesIn(x, "vertex_edges", v.slot) = P
    BY <2>1 DEF Entry, PlacesIn
  <2> QED
    BY <2>2, <2>3
<1>3. \A p : p \in P <=>
        \E i \in O : p = <<i, 0, 0>> /\ EndsAt(x, x["edge"].val[i], v.slot)
  BY DEF EndsIn, EndPlaces
<1>4. \A i \in O : i \in Nat
  BY <1>1, HeldValues
<1>5. \A i \in O : entry[<<i, 0, 0>>] = IdOf(x["edge"], i)
  BY <1>4 DEF OwnerEntry, Triples
<1>6. /\ \A i \in O : /\ IdOf(x["edge"], i) \in LiveOf(x, "edge")
                       /\ IdOf(x["edge"], i).slot = i
                       /\ Get(x, "edge", IdOf(x["edge"], i)) = x["edge"].val[i]
      /\ \A e \in LiveOf(x, "edge") : /\ e.slot \in O
                                       /\ e = IdOf(x["edge"], e.slot)
                                       /\ Get(x, "edge", e) = x["edge"].val[e.slot]
  BY <1>1, LiveSlots
<1> HIDE DEF l, P, entry, O
<1>7. \A e : e \in ToSet(l) <=>
        e \in LiveOf(x, "edge") /\ EndsAt(x, Get(x, "edge", e), v.slot)
  <2> SUFFICES ASSUME NEW e
               PROVE  e \in ToSet(l) <=>
                        e \in LiveOf(x, "edge") /\ EndsAt(x, Get(x, "edge", e), v.slot)
    OBVIOUS
  <2>1. e \in ToSet(l) <=> \E p \in P : e = entry[p]
    BY <1>2, ListsHolds
  <2>2. (\E p \in P : e = entry[p]) <=>
          \E i \in O : e = IdOf(x["edge"], i) /\ EndsAt(x, x["edge"].val[i], v.slot)
    BY <1>3, <1>5
  <2> QED
    BY <1>6, <2>1, <2>2
<1>8. Apart(entry, P)
  BY <1>3, <1>5, <1>6 DEF Apart
<1>9. Cardinality(ToSet(l)) = Len(l)
  BY <1>2, <1>8, ListsOnce
<1> QED
  BY <1>7, <1>9 DEF l

LEMMA UsesAreListed ==
    ASSUME NEW x, Typed(x), Indexed(x)
    PROVE  UsesListed(x)
<1> SUFFICES ASSUME NEW e \in LiveOf(x, "edge")
             PROVE  LET list == x.edge_uses[e.slot + 1]
                    IN  /\ ToSet(list) =
                             UNION {{[face |-> f, at |-> p] : p \in PlacesOf(x, f, e)} :
                                      f \in LiveOf(x, "face")}
                        /\ Cardinality(ToSet(list)) = Len(list)
  BY DEF UsesListed
<1> DEFINE l == x.edge_uses[e.slot + 1]
           P == UsesIn(x, e.slot)
           entry == UseEntry(x["face"])
           O == Occupied(x["face"])
           val(i) == x["face"].val[i]
<1>1. "edge" \in Kinds /\ "face" \in Kinds /\ "edge_uses" \in IndexFields
  BY DEF Kinds, IndexFields
<1>2. Lists(l, entry, P)
  <2>1. Owner("edge_uses") = "face" /\ Listed("edge_uses") = "edge"
    BY <1>1, FieldFacts
  <2>2. Lists(x["edge_uses"][e.slot + 1], Entry(x, "edge_uses"),
              PlacesIn(x, "edge_uses", e.slot))
    BY <1>1, <2>1, LiveLists
  <2>3. Entry(x, "edge_uses") = entry /\ PlacesIn(x, "edge_uses", e.slot) = P
    BY DEF Entry, PlacesIn
  <2> QED
    BY <2>2, <2>3
\* The places of a face, and which of them are about e.
<1>3. ASSUME NEW i \in O, NEW q \in Places(val(i))
      PROVE  /\ i \in Nat /\ q[1] \in Nat /\ q[2] \in Nat /\ q = <<q[1], q[2]>>
             /\ val(i)[q[1]][q[2]] \in Ids
  <2>1. i \in Nat /\ val(i) \in Values("face")
    BY <1>1, HeldValues
  <2>2. val(i) \in Seq(Seq(Ids))
    BY <2>1, ValuesOf
  <2> HIDE DEF val
  <2> QED
    BY <2>1, <2>2, PlacesOfFace
<1>4. ASSUME NEW i \in O, NEW q \in Places(val(i))
      PROVE  (val(i)[q[1]][q[2]].slot = e.slot /\ Has(x, "edge", val(i)[q[1]][q[2]]))
             <=> val(i)[q[1]][q[2]] = e
  BY <1>1, <1>3, LiveSlots
<1>5. \A p : p \in P <=>
        \E i \in O : \E q \in Places(val(i)) :
           p = <<i, q[1], q[2]>> /\ val(i)[q[1]][q[2]] = e
  <2>1. \A p : p \in P <=> \E i \in O : p \in UsePlaces(x, i, val(i), e.slot)
    BY DEF UsesIn
  <2>2. ASSUME NEW i \in O, NEW p
        PROVE  p \in UsePlaces(x, i, val(i), e.slot) <=>
                 \E q \in Places(val(i)) : p = <<i, q[1], q[2]>> /\ val(i)[q[1]][q[2]] = e
    <3>1. p \in UsePlaces(x, i, val(i), e.slot) <=>
            \E q \in Places(val(i)) :
               /\ p = <<i, q[1], q[2]>>
               /\ val(i)[q[1]][q[2]].slot = e.slot /\ Has(x, "edge", val(i)[q[1]][q[2]])
      BY DEF UsePlaces
    <3> HIDE DEF val
    <3> QED
      BY <1>4, <3>1
  <2> HIDE DEF P, O, val
  <2> QED
    BY <2>1, <2>2
<1>6. \A i \in O : \A q \in Places(val(i)) :
        entry[<<i, q[1], q[2]>>] = [face |-> IdOf(x["face"], i), at |-> q]
  BY <1>3 DEF UseEntry, Triples
<1>7. /\ \A i \in O : /\ IdOf(x["face"], i) \in LiveOf(x, "face")
                       /\ IdOf(x["face"], i).slot = i
                       /\ Get(x, "face", IdOf(x["face"], i)) = val(i)
      /\ \A f \in LiveOf(x, "face") : /\ f.slot \in O
                                       /\ f = IdOf(x["face"], f.slot)
                                       /\ Get(x, "face", f) = val(f.slot)
  BY <1>1, LiveSlots
<1> HIDE DEF l, P, entry, O, val
<1> DEFINE all == UNION {{[face |-> f, at |-> p] : p \in PlacesOf(x, f, e)} :
                           f \in LiveOf(x, "face")}
<1>8. \A u : u \in all <=>
        \E i \in O : \E q \in Places(val(i)) :
           u = [face |-> IdOf(x["face"], i), at |-> q] /\ val(i)[q[1]][q[2]] = e
  <2>1. \A u : u \in all <=>
          \E f \in LiveOf(x, "face") : \E q \in Places(Get(x, "face", f)) :
             u = [face |-> f, at |-> q] /\ Get(x, "face", f)[q[1]][q[2]] = e
    BY DEF PlacesOf
  <2> HIDE DEF all
  <2> QED
    BY <1>7, <2>1
<1> HIDE DEF all
<1>9. \A u : u \in ToSet(l) <=> u \in all
  <2> SUFFICES ASSUME NEW u PROVE u \in ToSet(l) <=> u \in all
    OBVIOUS
  <2>1. u \in ToSet(l) <=> \E p \in P : u = entry[p]
    BY <1>2, ListsHolds
  <2> DEFINE used(i, q) == u = [face |-> IdOf(x["face"], i), at |-> q]
                           /\ val(i)[q[1]][q[2]] = e
  <2>2. (\E p \in P : u = entry[p]) <=> \E i \in O : \E q \in Places(val(i)) : used(i, q)
    <3>1. ASSUME NEW p \in P, u = entry[p]
          PROVE  \E i \in O : \E q \in Places(val(i)) : used(i, q)
      <4>1. PICK i \in O : \E q \in Places(val(i)) :
                p = <<i, q[1], q[2]>> /\ val(i)[q[1]][q[2]] = e
        BY <1>5
      <4>2. PICK q \in Places(val(i)) : p = <<i, q[1], q[2]>> /\ val(i)[q[1]][q[2]] = e
        BY <4>1
      <4>3. used(i, q)
        BY <1>6, <3>1, <4>2
      <4> QED
        BY <4>3
    <3>2. ASSUME NEW i \in O, NEW q \in Places(val(i)), used(i, q)
          PROVE  \E p \in P : u = entry[p]
      <4>1. <<i, q[1], q[2]>> \in P
        BY <1>5, <3>2
      <4>2. u = entry[<<i, q[1], q[2]>>]
        BY <1>6, <3>2
      <4> QED
        BY <4>1, <4>2
    <3> HIDE DEF used
    <3> QED
      BY <3>1, <3>2
  <2> QED
    BY <1>8, <2>1, <2>2
<1>10. Apart(entry, P)
  <2> SUFFICES ASSUME NEW p \in P, NEW r \in P, entry[p] = entry[r]
               PROVE  p = r
    BY DEF Apart
  <2>1. PICK i \in O : \E q \in Places(val(i)) : p = <<i, q[1], q[2]>>
    BY <1>5
  <2>2. PICK q \in Places(val(i)) : p = <<i, q[1], q[2]>>
    BY <2>1
  <2>3. PICK j \in O : \E t \in Places(val(j)) : r = <<j, t[1], t[2]>>
    BY <1>5
  <2>4. PICK t \in Places(val(j)) : r = <<j, t[1], t[2]>>
    BY <2>3
  <2>5. [face |-> IdOf(x["face"], i), at |-> q] = [face |-> IdOf(x["face"], j), at |-> t]
    BY <1>6, <2>2, <2>4
  <2>6. IdOf(x["face"], i) = IdOf(x["face"], j) /\ q = t
    BY <2>5
  <2>7. i = j
    BY <1>7, <2>6
  <2> QED
    BY <2>2, <2>4, <2>6, <2>7
<1>11. Cardinality(ToSet(l)) = Len(l)
  BY <1>2, <1>10, ListsOnce
<1> QED
  BY <1>9, <1>11 DEF l, all

LEMMA ShellsAreListed ==
    ASSUME NEW x, Typed(x), Indexed(x), NEW f \in LiveOf(x, "face")
    PROVE  /\ \A s \in LiveOf(x, "shell") :
                Cardinality(Where(x.face_shells[f.slot + 1], s)) =
                Cardinality(Where(Get(x, "shell", s), f))
           /\ ToSet(x.face_shells[f.slot + 1]) \subseteq LiveOf(x, "shell")
<1> DEFINE l == x.face_shells[f.slot + 1]
           P == ShellsIn(x, f.slot)
           entry == OwnerEntry(x["shell"])
           O == Occupied(x["shell"])
           val(i) == x["shell"].val[i]
<1>1. "face" \in Kinds /\ "shell" \in Kinds /\ "face_shells" \in IndexFields
  BY DEF Kinds, IndexFields
<1>2. Lists(l, entry, P)
  <2>1. Owner("face_shells") = "shell" /\ Listed("face_shells") = "face"
    BY <1>1, FieldFacts
  <2>2. Lists(x["face_shells"][f.slot + 1], Entry(x, "face_shells"),
              PlacesIn(x, "face_shells", f.slot))
    BY <1>1, <2>1, LiveLists
  <2>3. Entry(x, "face_shells") = entry /\ PlacesIn(x, "face_shells", f.slot) = P
    BY <2>1 DEF Entry, PlacesIn
  <2> QED
    BY <2>2, <2>3
<1>3. ASSUME NEW i \in O
      PROVE  /\ i \in Nat /\ val(i) \in Seq(Ids)
             /\ DOMAIN val(i) \subseteq Nat
             /\ \A k \in DOMAIN val(i) : val(i)[k] \in Ids
  <2>1. i \in Nat /\ val(i) \in Values("shell")
    BY <1>1, HeldValues
  <2>2. val(i) \in Seq(Ids)
    BY <2>1, ValuesOf
  <2> HIDE DEF val
  <2> QED
    BY <2>1, <2>2, LenProperties, ElementOfSeq
<1>4. \A i \in O : \A k \in DOMAIN val(i) :
        (val(i)[k].slot = f.slot /\ Has(x, "face", val(i)[k])) <=> val(i)[k] = f
  BY <1>1, <1>3, LiveSlots
<1>5. \A p : p \in P <=>
        \E i \in O : \E k \in DOMAIN val(i) : p = <<i, k, 0>> /\ val(i)[k] = f
  BY <1>4 DEF ShellsIn, ShellPlaces
<1>6. \A i \in O : \A k \in DOMAIN val(i) : entry[<<i, k, 0>>] = IdOf(x["shell"], i)
  BY <1>3 DEF OwnerEntry, Triples
<1>7. /\ \A i \in O : /\ IdOf(x["shell"], i) \in LiveOf(x, "shell")
                       /\ IdOf(x["shell"], i).slot = i
      /\ \A s \in LiveOf(x, "shell") : /\ s.slot \in O
                                        /\ s = IdOf(x["shell"], s.slot)
                                        /\ Get(x, "shell", s) = val(s.slot)
  BY <1>1, LiveSlots
<1> HIDE DEF l, P, entry, O, val
<1>8. ASSUME NEW s \in LiveOf(x, "shell")
      PROVE  Cardinality(Where(l, s)) = Cardinality(Where(Get(x, "shell", s), f))
  <2> DEFINE S == {p \in P : entry[p] = s}
             W == {k \in DOMAIN val(s.slot) : val(s.slot)[k] = f}
             g == [k \in W |-> <<s.slot, k, 0>>]
  <2>1. s.slot \in O /\ s = IdOf(x["shell"], s.slot)
    BY <1>7
  <2>2. g \in [W -> S]
    BY <1>5, <1>6, <2>1
  <2>3. \A j, k \in W : g[j] = g[k] => j = k
    OBVIOUS
  <2>4. \A p \in S : \E k \in W : g[k] = p
    <3> SUFFICES ASSUME NEW p \in S PROVE \E k \in W : p = <<s.slot, k, 0>>
      OBVIOUS
    <3>1. PICK i \in O : \E k \in DOMAIN val(i) : p = <<i, k, 0>> /\ val(i)[k] = f
      BY <1>5
    <3>2. PICK k \in DOMAIN val(i) : p = <<i, k, 0>> /\ val(i)[k] = f
      BY <3>1
    <3>3. IdOf(x["shell"], i) = s
      BY <1>6, <3>2
    <3>4. i = s.slot
      BY <1>7, <3>3
    <3> QED
      BY <3>2, <3>4
  <2>5. W \in SUBSET DOMAIN val(s.slot) /\ IsFiniteSet(DOMAIN val(s.slot))
    <3>1. val(s.slot) \in Seq(Ids)
      BY <1>3, <2>1
    <3>2. /\ DOMAIN val(s.slot) = 1 .. Len(val(s.slot))
          /\ Len(val(s.slot)) \in Nat
      BY <3>1, LenProperties
    <3>3. IsFiniteSet(1 .. Len(val(s.slot)))
      BY <3>2, FS_Interval
    <3> QED
      BY <3>2, <3>3
  <2>6. W = Where(Get(x, "shell", s), f)
    BY <1>7 DEF Where
  <2>7. Cardinality(Where(l, s)) = Cardinality(S)
    <3>1. Cardinality(Positions(l, s)) = Cardinality(PlacesWith(entry, P, s))
      BY <1>2, ListsCount
    <3> QED
      BY <3>1 DEF Where, Positions, PlacesWith
  <2> HIDE DEF S, W, g
  <2>8. g \in Bijection(W, S)
    BY <2>2, <2>3, <2>4, Fun_IsBij
  <2>9. IsFiniteSet(W)
    BY <2>5, FS_Subset
  <2>10. Cardinality(S) = Cardinality(W)
    BY <2>8, <2>9, FS_Bijection DEF ExistsBijection
  <2> QED
    BY <2>6, <2>7, <2>10
<1>9. ASSUME NEW s \in ToSet(l) PROVE s \in LiveOf(x, "shell")
  <2>1. PICK p \in P : s = entry[p]
    BY <1>2, ListsHolds
  <2> QED
    BY <1>5, <1>6, <1>7, <2>1
<1> QED
  BY <1>8, <1>9 DEF l

LEMMA IndicesHold ==
    ASSUME IndexInv
    PROVE  IndexListsExact
<1>1. Typed(m) /\ Indexed(m)
  BY DEF IndexInv, ShapeInv
<1>2. TypeOK
  <2>1. "vertex_edges" \in IndexFields /\ "edge_uses" \in IndexFields /\ "face_shells" \in IndexFields
    BY DEF IndexFields
  <2>2. \A field \in IndexFields : Len(m[field]) >= m[Listed(field)].len
    BY <1>1 DEF Indexed
  <2>3. \A kind \in Kinds : IsArena(m[kind], Values(kind))
    BY <1>1 DEF Typed
  <2> QED
    BY <2>1, <2>2, <2>3, FieldFacts DEF TypeOK
<1>3. UsesListed(m)
  BY <1>1, UsesAreListed
<1>4. ShellsListed(m) /\ NoDeadEntries
  BY <1>1, ShellsAreListed DEF ShellsListed, NoDeadEntries
<1> QED
  BY <1>2, <1>3, <1>4 DEF IndexListsExact

\* Every list about a vertex holds each live edge that starts or ends there,
\* once, and nothing else, after any sequence of appends, retains, reloads and
\* errors: the adjacency never says more or less than the entities do.
THEOREM VertexEdgesHold ==
    ASSUME ShapesRefer, ~ RetainInTx
    PROVE  Spec => []VertexEdgesExact
<1>1. IndexInv => VertexEdgesExact
  BY EdgesAreListed DEF IndexInv, ShapeInv, VertexEdgesExact
<1> QED
  BY <1>1, IndexInit, IndexNext, PTL DEF Spec

\* The same of the other two lists.  Every use of an edge by a loop is listed at
\* the edge, once, with the place it has in the face; a shell is listed at a
\* face as often as it names the face; and no list holds what is gone.
THEOREM IndicesAreExact ==
    ASSUME ShapesRefer, ~ RetainInTx
    PROVE  Spec => []IndexListsExact
<1> QED
  BY IndicesHold, IndexInit, IndexNext, PTL DEF Spec

-----------------------------------------------------------------------------
(***************************************************************************)
(* An import, one entity after the other.                                  *)
(***************************************************************************)

\* What holds of none and of one more holds of all.
LEMMA ByCount ==
    ASSUME NEW N \in Nat, NEW G, 0 \in G,
           \A n \in 1 .. N : n - 1 \in G => n \in G
    PROVE  \A n \in 0 .. N : n \in G
<1> SUFFICES ASSUME NEW j \in 0 .. N, j \notin G PROVE FALSE
  OBVIOUS
<1> DEFINE T == {n \in 0 .. N : n \notin G}
<1>1. T \in SUBSET Nat /\ T # {}
  OBVIOUS
<1>2. PICK n \in T : \A k \in T : n <= k
  <2> HIDE DEF T
  <2> QED
    BY <1>1, LeastOfNats
<1>3. n \in 1 .. N /\ n - 1 \in 0 .. N
  OBVIOUS
<1> QED
  BY <1>2, <1>3

\* f goes through what CopyAll computes, up to the n-th id.
CopyGoes(f, st, x, kind, ids, n) ==
    f = [i \in 0 .. n |-> IF i = 0 THEN st ELSE CopyOne(f[i - 1], x, kind, ids[i])]

LEMMA CopyGoesOn ==
    ASSUME NEW st, NEW x, NEW kind, NEW ids, NEW n \in Nat \ {0}, NEW f,
           CopyGoes(f, st, x, kind, ids, n - 1)
    PROVE  \E g : CopyGoes(g, st, x, kind, ids, n)
<1> DEFINE last == CopyOne(f[n - 1], x, kind, ids[n])
           g == [i \in 0 .. n |-> IF i = n THEN last ELSE f[i]]
<1>1. g[n] = last /\ \A i \in 0 .. (n - 1) : g[i] = f[i]
  OBVIOUS
<1>2. \A i \in 0 .. (n - 1) : f[i] = IF i = 0 THEN st ELSE CopyOne(f[i - 1], x, kind, ids[i])
  BY DEF CopyGoes
<1>3. g = [i \in 0 .. n |-> g[i]]
  OBVIOUS
<1>4. last = CopyOne(g[n - 1], x, kind, ids[n])
  BY <1>1
<1> HIDE DEF g, last
<1>5. ASSUME NEW i \in 0 .. n
      PROVE  g[i] = IF i = 0 THEN st ELSE CopyOne(g[i - 1], x, kind, ids[i])
  <2>1. CASE i = n
    BY <1>1, <1>4, <2>1
  <2>2. CASE i # n
    <3>1. i \in 0 .. (n - 1) /\ (i # 0 => i - 1 \in 0 .. (n - 1))
      BY <2>2
    <3> QED
      BY <1>1, <1>2, <3>1
  <2> QED
    BY <2>1, <2>2
<1>6. CopyGoes(g, st, x, kind, ids, n)
  BY <1>3, <1>5 DEF CopyGoes
<1> QED
  BY <1>6

\* The loop is its steps.
LEMMA CopyAllGoes ==
    ASSUME NEW st, NEW x, NEW kind, NEW ids, Len(ids) \in Nat
    PROVE  \E f : /\ f[0] = st
                  /\ \A n \in 1 .. Len(ids) : f[n] = CopyOne(f[n - 1], x, kind, ids[n])
                  /\ CopyAll(st, x, kind, ids) = f[Len(ids)]
<1> DEFINE N == Len(ids)
           G == {n \in Nat : \E f : CopyGoes(f, st, x, kind, ids, n)}
<1>1. 0 \in G
  <2> DEFINE f0 == [i \in 0 .. 0 |-> st]
  <2>1. CopyGoes(f0, st, x, kind, ids, 0)
    BY DEF CopyGoes
  <2> QED
    BY <2>1
<1>2. \A n \in 1 .. N : n - 1 \in G => n \in G
  BY CopyGoesOn
<1>3. N \in G
  <2> HIDE DEF G, N
  <2>1. N \in Nat
    BY DEF N
  <2>2. \A n \in 0 .. N : n \in G
    BY <1>1, <1>2, <2>1, ByCount
  <2> QED
    BY <2>1, <2>2
<1>4. PICK f : CopyGoes(f, st, x, kind, ids, N)
  BY <1>3
<1>5. f[0] = st /\ \A n \in 1 .. N : f[n] = CopyOne(f[n - 1], x, kind, ids[n])
  BY <1>4 DEF CopyGoes
<1>6. ASSUME NEW g, CopyGoes(g, st, x, kind, ids, N) PROVE g = f
  <2>1. g[0] = st /\ \A n \in 1 .. N : g[n] = CopyOne(g[n - 1], x, kind, ids[n])
    BY <1>6 DEF CopyGoes
  <2> DEFINE H == {n \in Nat : g[n] = f[n]}
  <2>2. 0 \in H
    BY <1>5, <2>1
  <2>3. \A n \in 1 .. N : n - 1 \in H => n \in H
    BY <1>5, <2>1
  <2>4. \A n \in 0 .. N : n \in H
    <3> HIDE DEF H, N
    <3>1. N \in Nat
      BY DEF N
    <3> QED
      BY <2>2, <2>3, <3>1, ByCount
  <2> QED
    BY <1>4, <1>6, <2>4 DEF CopyGoes
<1>7. CopyAll(st, x, kind, ids) = f[N]
  BY <1>4, <1>6 DEF CopyAll, CopyGoes
<1> QED
  BY <1>5, <1>7

-----------------------------------------------------------------------------
(***************************************************************************)
(* The ids of a closure in the order they are copied.                      *)
(***************************************************************************)

LEMMA SlotOrderLists ==
    ASSUME NEW C \in SUBSET Ids, IsFiniteSet(C)
    PROVE  /\ Enumerates(SlotOrder(C), C)
           /\ Len(SlotOrder(C)) = Cardinality(C)
           /\ \A i, j \in 1 .. Len(SlotOrder(C)) :
                i < j => SlotOrder(C)[i].slot <= SlotOrder(C)[j].slot
<1> DEFINE P == {<<id.slot, id.gen, 0>> : id \in C}
           o == InOrder(P)
           s == SlotOrder(C)
           g == [id \in C |-> <<id.slot, id.gen, 0>>]
<1>1. \A id \in C : id.slot \in Nat /\ id.gen \in Nat /\ id = [slot |-> id.slot, gen |-> id.gen]
  BY GenAssumption DEF Ids
<1>2. g \in Bijection(C, P)
  <2>1. g \in [C -> P] /\ \A p \in P : \E id \in C : g[id] = p
    OBVIOUS
  <2>2. \A a, b \in C : g[a] = g[b] => a = b
    BY <1>1
  <2> HIDE DEF g, P
  <2> QED
    BY <2>1, <2>2, Fun_IsBij
<1>3. IsFiniteSet(P) /\ Cardinality(P) = Cardinality(C)
  <2> HIDE DEF g, P
  <2> QED
    BY <1>2, FS_Bijection DEF ExistsBijection
<1>4. P \in SUBSET Triples
  BY <1>1 DEF Triples
<1> HIDE DEF P
<1>5. Enumerates(o, P) /\ Len(o) = Cardinality(P)
  BY <1>3, <1>4, InOrderEnumerates
<1>6. \A i, j \in 1 .. Len(o) : i < j => UpTo(o[i], o[j])
  BY <1>3, <1>4, InOrderAscends
<1>7. s = [n \in DOMAIN o |-> [slot |-> o[n][1], gen |-> o[n][2]]]
  BY DEF SlotOrder, P
<1> HIDE DEF o, s
<1>8. DOMAIN o = 1 .. Len(o) /\ Len(o) \in Nat /\ \A n \in 1 .. Len(o) : o[n] \in P
  BY <1>5, LenProperties, ElementOfSeq DEF Enumerates
<1>9. \A p \in P : /\ [slot |-> p[1], gen |-> p[2]] \in C
                   /\ p = <<p[1], p[2], 0>>
                   /\ p[1] \in Nat /\ p[2] \in Nat
  BY <1>1 DEF P
<1>10. \A n \in 1 .. Len(o) : s[n] = [slot |-> o[n][1], gen |-> o[n][2]] /\ s[n] \in C
  BY <1>7, <1>8, <1>9
<1>11. s = [n \in 1 .. Len(o) |-> s[n]]
  BY <1>7, <1>8
<1>12. s \in Seq(C) /\ Len(s) = Len(o)
  <2>1. s \in [1 .. Len(o) -> C]
    BY <1>10, <1>11
  <2> QED
    BY <1>8, <2>1
<1>17. \A n \in 1 .. Len(s) : n \in 1 .. Len(o) /\ s[n].slot = o[n][1] /\ s[n].gen = o[n][2]
  <2> SUFFICES ASSUME NEW n \in 1 .. Len(s)
               PROVE  n \in 1 .. Len(o) /\ s[n].slot = o[n][1] /\ s[n].gen = o[n][2]
    OBVIOUS
  <2>1. n \in 1 .. Len(o)
    BY <1>12
  <2> DEFINE p == o[n]
             u == p[1]
             v == p[2]
  <2>2. s[n] = [slot |-> u, gen |-> v]
    BY <1>10, <2>1
  <2> HIDE DEF u, v
  <2>3. s[n].slot = u /\ s[n].gen = v
    BY <2>2
  <2> QED
    BY <2>1, <2>3 DEF u, v
<1>13. ASSUME NEW id \in C PROVE \E n \in 1 .. Len(s) : s[n] = id
  <2>1. <<id.slot, id.gen, 0>> \in P
    BY DEF P
  <2>2. PICK n \in 1 .. Len(o) : o[n] = <<id.slot, id.gen, 0>>
    BY <1>5, <2>1 DEF Enumerates
  <2>3. s[n] = id
    BY <1>1, <1>10, <2>2
  <2> QED
    BY <1>12, <2>3
<1>14. ASSUME NEW i \in 1 .. Len(s), NEW j \in 1 .. Len(s), s[i] = s[j] PROVE i = j
  <2>1. o[i] \in P /\ o[j] \in P
    BY <1>8, <1>12
  <2>2. o[i][1] = o[j][1] /\ o[i][2] = o[j][2]
    BY <1>17, <1>14
  <2>3. o[i] = o[j]
    BY <1>9, <2>1, <2>2
  <2> QED
    BY <1>5, <1>12, <2>3 DEF Enumerates
<1>15. ASSUME NEW i \in 1 .. Len(s), NEW j \in 1 .. Len(s), i < j
       PROVE  s[i].slot <= s[j].slot
  <2>1. UpTo(o[i], o[j]) /\ o[i] \in P /\ o[j] \in P
    BY <1>6, <1>8, <1>12, <1>15
  <2>2. o[i][1] <= o[j][1]
    <3>1. o[i][1] \in Nat /\ o[j][1] \in Nat
      BY <1>9, <2>1
    <3>2. o[i][1] < o[j][1] \/ o[i][1] = o[j][1]
      BY <2>1, Zenon DEF UpTo
    <3> HIDE DEF P
    <3> QED
      BY <3>1, <3>2
  <2> QED
    BY <1>17, <2>2
<1>16. Enumerates(s, C)
  BY <1>12, <1>13, <1>14 DEF Enumerates
<1> QED
  BY <1>3, <1>5, <1>12, <1>15, <1>16 DEF s

\* A closure is finite, being live.
LEMMA LiveFinite ==
    ASSUME NEW x, Typed(x), NEW kind \in Kinds
    PROVE  IsFiniteSet(LiveOf(x, kind))
<1> DEFINE a == x[kind]
           O == Occupied(a)
           g == [i \in O |-> IdOf(a, i)]
<1>1. a.len \in Nat /\ O \subseteq Indices(a)
  <2>1. IsArena(a, Values(kind))
    BY DEF Typed
  <2> QED
    BY <2>1, ArenaFields
<1>2. IsFiniteSet(0 .. (a.len - 1))
  BY <1>1, FS_Interval
<1>3. IsFiniteSet(O)
  BY <1>1, <1>2, FS_Subset DEF Indices
<1>4. LiveOf(x, kind) = {g[i] : i \in O}
  BY DEF LiveOf, LiveIds
<1> HIDE DEF O
<1>5. g \in Surjection(O, {g[i] : i \in O})
  BY Fun_IsSurj
<1> QED
  BY <1>3, <1>4, <1>5, FS_Surjection

-----------------------------------------------------------------------------
(***************************************************************************)
(* What a model is between two appends, and what one has added to another. *)
(***************************************************************************)

Hale(x) == Typed(x) /\ Indexed(x) /\ NoneAhead(x)
GrownFrom(x, t) == Hale(x) /\ Hale(t) /\ Grown(x, t) /\ ListsGrown(x, t)

LEMMA HaleEmpty == Hale(EmptyModel)
<1> DEFINE e == EmptyModel
<1>1. e = [field \in Fields |-> IF field \in Kinds THEN EmptyArena ELSE <<>>]
  BY DEF EmptyModel
<1> HIDE DEF e
<1>2. \A kind \in Kinds : e[kind] = EmptyArena
  BY <1>1, KindsAreFields
<1>3. \A kind \in Kinds : e[kind].len = 0 /\ Occupied(e[kind]) = {}
  BY <1>2 DEF Occupied, EmptyArena, EmptyFun
<1>4. Typed(e)
  BY <1>1, <1>2, EmptyIsArena DEF Typed
<1>5. ASSUME NEW field \in IndexFields
      PROVE  /\ e[field] \in Seq(Seq(EntrySet(field)))
             /\ Len(e[field]) >= e[Listed(field)].len
             /\ \A s \in 1 .. Len(e[field]) :
                  Lists(e[field][s], Entry(e, field), PlacesIn(e, field, s - 1))
  <2>1. e[field] = <<>>
    BY <1>1, FieldFacts
  <2>2. <<>> \in Seq(Seq(EntrySet(field))) /\ Len(<<>>) = 0
    BY EmptySeq
  <2>3. e[Listed(field)].len = 0
    BY <1>3, FieldFacts
  <2> QED
    BY <2>1, <2>2, <2>3
<1>6. Indexed(e)
  BY <1>5 DEF Indexed
<1>7. NoneAhead(e)
  BY <1>3, FieldFacts DEF NoneAhead
<1> QED
  BY <1>4, <1>6, <1>7 DEF Hale, e

LEMMA GrownFromItself == ASSUME NEW t, Hale(t) PROVE GrownFrom(t, t)
BY GrownItself, GrownListsItself DEF Hale, GrownFrom

LEMMA GrownFromTransitive ==
    ASSUME NEW x, NEW y, NEW t, GrownFrom(y, x), GrownFrom(x, t)
    PROVE  GrownFrom(y, t)
<1>1. /\ Typed(x) /\ Typed(y) /\ Typed(t) /\ Indexed(x) /\ Indexed(y) /\ Indexed(t)
      /\ Grown(y, x) /\ Grown(x, t) /\ ListsGrown(y, x) /\ ListsGrown(x, t)
      /\ Hale(y) /\ Hale(t)
  BY DEF GrownFrom, Hale
<1>2. Grown(y, t)
  BY <1>1, GrownTransitive
<1>3. ListsGrown(y, t)
  BY <1>1, ListsGrownTransitive
<1> QED
  BY <1>1, <1>2, <1>3 DEF GrownFrom

\* An append of any kind is one to the arena of the kind.
LEMMA PushOfArenas ==
    ASSUME NEW x, Typed(x), NEW kind \in Kinds, NEW v, NEW y, y = PushOf(x, kind, v)
    PROVE  IsPush(y, x, kind, v)
<1>1. CASE kind = "vertex"
  BY <1>1, PushVertexArenas DEF PushOf
<1>2. CASE kind = "edge"
  BY <1>2, PushEdgeArenas DEF PushOf
<1>3. CASE kind = "face"
  BY <1>3, PushFaceArenas DEF PushOf
<1>4. CASE kind = "shell"
  BY <1>4, PushShellArenas DEF PushOf
<1>5. CASE kind = "body"
  BY <1>5, PushBodyArenas DEF PushOf
<1> QED
  BY <1>1, <1>2, <1>3, <1>4, <1>5, KindCases

\* An entity whose references resolve can always be appended.
LEMMA HalePushed ==
    ASSUME NEW x, Hale(x), NEW kind \in Kinds, NEW v \in Values(kind),
           \A k \in Kinds : References(kind, v)[k] \subseteq LiveOf(x, k),
           NEW y, y = PushOf(x, kind, v)
    PROVE  GrownFrom(y, x) /\ IsPush(y, x, kind, v)
<1>0. Typed(x) /\ Indexed(x) /\ NoneAhead(x)
  BY DEF Hale
<1>1. IsPush(y, x, kind, v)
  BY <1>0, PushOfArenas
<1>2. Typed(y) /\ Grown(y, x)
  BY <1>0, <1>1, PushTyped
<1>3. ASSUME NEW field \in IndexFields, Owner(field) = kind
      PROVE  \A r \in Refs(field, v) : NotAhead(x, Listed(field), r)
  <2>1. Listed(field) \in Kinds
    BY FieldFacts
  <2>2. Refs(field, v) \subseteq LiveOf(x, Listed(field))
    BY <1>3, <2>1 DEF Refs
  <2> QED
    BY <1>0, <2>1, <2>2, LiveNotAhead
<1>4. NoneAhead(y)
  BY <1>0, <1>1, <1>3, AheadAfterPush
<1>5. Indexed(y) /\ ListsGrown(y, x)
  BY <1>0, <1>1, PushIndexed
<1> QED
  BY <1>0, <1>1, <1>2, <1>4, <1>5 DEF GrownFrom, Hale

\* What is live after an append, and where the new entity went.
LEMMA PushedLive ==
    ASSUME NEW x, Typed(x), NEW kind \in Kinds, NEW v \in Values(kind), NEW y,
           IsPush(y, x, kind, v), NEW id, id = NextId(x[kind])
    PROVE  /\ id \in Ids /\ id \notin LiveOf(x, kind)
           /\ LiveOf(y, kind) = LiveOf(x, kind) \cup {id}
           /\ Get(y, kind, id) = v
           /\ \A r \in LiveOf(x, kind) : Get(y, kind, r) = Get(x, kind, r)
           /\ \A k \in Kinds \ {kind} : y[k] = x[k]
           /\ x[kind].free = {} =>
                /\ y[kind].free = {} /\ y[kind].len = x[kind].len + 1
                /\ id = [slot |-> x[kind].len, gen |-> 0]
<1> DEFINE a == x[kind]
           b == y[kind]
           i == NextSlot(a)
<1>0. IsArena(a, Values(kind)) /\ b = Push(a, v)
  BY DEF Typed, IsPush
<1>1. /\ IsArena(b, Values(kind))
      /\ b.len = IF a.free = {} THEN a.len + 1 ELSE a.len
      /\ Occupied(b) = Occupied(a) \cup {i}
      /\ b.free = a.free \ {i}
      /\ b.val[i] = v
      /\ \A j \in Occupied(a) : b.val[j] = a.val[j]
      /\ \A j \in Indices(a) : b.gen[j] = a.gen[j]
      /\ IdOf(b, i) = id
  BY <1>0, PushProperties
<1>2. /\ i \notin Occupied(a)
      /\ Occupied(a) \subseteq Indices(a)
  BY <1>0, NextSlotIsEmpty, ArenaFields
<1>3. LiveOf(y, kind) = LiveIds(b) /\ LiveOf(x, kind) = LiveIds(a)
  BY DEF LiveOf
<1>4. Typed(y)
  BY PushTyped
<1>5. a.free = {} => id = [slot |-> a.len, gen |-> 0]
  BY DEF NextId
<1> HIDE DEF i, a, b
<1>6. \A j \in Occupied(a) : IdOf(b, j) = IdOf(a, j)
  BY <1>1, <1>2 DEF IdOf
<1>7. LiveIds(b) = LiveIds(a) \cup {id}
  BY <1>1, <1>6 DEF LiveIds
<1>8. id.slot = i /\ \A r \in LiveIds(a) : r.slot \in Occupied(a)
  BY <1>1 DEF IdOf, LiveIds
<1>9. id \notin LiveIds(a)
  BY <1>2, <1>8
<1>10. id \in Ids
  <2>1. LiveOf(y, kind) \subseteq Ids
    BY <1>4, LiveAreIds
  <2> QED
    BY <1>3, <1>7, <2>1
<1>11. Get(y, kind, id) = v
  BY <1>1, <1>8 DEF Get, b
<1>12. \A r \in LiveOf(x, kind) : Get(y, kind, r) = Get(x, kind, r)
  BY <1>1, <1>3, <1>8 DEF Get, a, b
<1> QED
  BY <1>1, <1>3, <1>5, <1>7, <1>9, <1>10, <1>11, <1>12 DEF IsPush, a, b

-----------------------------------------------------------------------------
(***************************************************************************)
(* Translation: the entity over again, its references through the map.     *)
(***************************************************************************)

Known(map, kind, v) == \A k \in Kinds : References(kind, v)[k] \subseteq DOMAIN map[k]
MapsIds(map) == \A k \in Kinds : \A id \in DOMAIN map[k] : map[k][id] \in Ids
Image(f, S) == {f[r] : r \in S}

LEMMA EachIs ==
    ASSUME NEW f, NEW ids \in Seq(Ids), ToSet(ids) \subseteq DOMAIN f,
           \A r \in DOMAIN f : f[r] \in Ids
    PROVE  /\ Each(f, ids) \in Seq(Ids)
           /\ ToSet(Each(f, ids)) = Image(f, ToSet(ids))
<1> DEFINE e == Each(f, ids)
<1>1. DOMAIN ids = 1 .. Len(ids) /\ Len(ids) \in Nat
  BY LenProperties
<1>2. e = [i \in 1 .. Len(ids) |-> f[ids[i]]]
  BY <1>1 DEF Each
<1> HIDE DEF e
<1>3. \A i \in 1 .. Len(ids) : ids[i] \in DOMAIN f
  BY <1>1 DEF ToSet
<1>4. e \in [1 .. Len(ids) -> Ids]
  BY <1>2, <1>3
<1>5. e \in Seq(Ids)
  BY <1>1, <1>4
<1>6. ToSet(e) = Image(f, ToSet(ids))
  BY <1>1, <1>2 DEF ToSet, Image
<1> QED
  BY <1>5, <1>6 DEF e

LEMMA FaceIs ==
    ASSUME NEW f, NEW v \in Seq(Seq(Ids)), EdgesOf(v) \subseteq DOMAIN f,
           \A r \in DOMAIN f : f[r] \in Ids, NEW w, w = [l \in DOMAIN v |-> Each(f, v[l])]
    PROVE  w \in Seq(Seq(Ids)) /\ EdgesOf(w) = Image(f, EdgesOf(v))
<1>1. DOMAIN v = 1 .. Len(v) /\ Len(v) \in Nat /\ \A l \in DOMAIN v : v[l] \in Seq(Ids)
  BY LenProperties, ElementOfSeq
<1>2. \A l \in DOMAIN v : \A c \in DOMAIN v[l] : <<l, c>> \in Places(v)
  BY DEF Places
<1>3. \A l \in DOMAIN v : ToSet(v[l]) \subseteq DOMAIN f
  <2> SUFFICES ASSUME NEW l \in DOMAIN v, NEW c \in DOMAIN v[l] PROVE v[l][c] \in DOMAIN f
    BY DEF ToSet
  <2> DEFINE p == <<l, c>>
  <2>1. p \in Places(v) /\ p[1] = l /\ p[2] = c
    BY <1>2
  <2> HIDE DEF p
  <2>2. v[p[1]][p[2]] \in EdgesOf(v)
    BY <2>1 DEF EdgesOf
  <2> QED
    BY <2>1, <2>2
<1>4. \A l \in DOMAIN v : w[l] = Each(f, v[l]) /\ w[l] \in Seq(Ids)
  BY <1>1, <1>3, EachIs
<1>5. w \in [1 .. Len(v) -> Seq(Ids)]
  BY <1>1, <1>4
<1>6. w \in Seq(Seq(Ids)) /\ DOMAIN w = DOMAIN v
  BY <1>1, <1>5
<1>7. \A l \in DOMAIN v : DOMAIN w[l] = DOMAIN v[l] /\ \A c \in DOMAIN v[l] : w[l][c] = f[v[l][c]]
  BY <1>4 DEF Each
<1>8. Places(w) = Places(v)
  BY <1>6, <1>7 DEF Places
<1>9. \A p \in Places(v) : w[p[1]][p[2]] = f[v[p[1]][p[2]]]
  <2> SUFFICES ASSUME NEW p \in Places(v) PROVE w[p[1]][p[2]] = f[v[p[1]][p[2]]]
    OBVIOUS
  <2>1. p[1] \in DOMAIN v /\ p[2] \in DOMAIN v[p[1]]
    BY PlacesOfFace
  <2> QED
    BY <1>7, <2>1
<1>10. EdgesOf(w) = Image(f, EdgesOf(v))
  <2>1. EdgesOf(w) = {f[v[p[1]][p[2]]] : p \in Places(v)}
    BY <1>8, <1>9 DEF EdgesOf
  <2> DEFINE e(p) == v[p[1]][p[2]]
  <2>2. EdgesOf(v) = {e(p) : p \in Places(v)} /\ EdgesOf(w) = {f[e(p)] : p \in Places(v)}
    BY <2>1 DEF EdgesOf
  <2> HIDE DEF e
  <2> QED
    BY <2>2 DEF Image
<1> QED
  BY <1>6, <1>10

\* A translation is an entity of the same kind, over the images.
LEMMA TranslatedIs ==
    ASSUME NEW map, MapsIds(map), NEW kind \in Kinds, NEW v \in Values(kind),
           Known(map, kind, v), NEW w, w = Translated(map, kind, v)
    PROVE  /\ w \in Values(kind)
           /\ \A k \in Kinds : References(kind, w)[k] = Image(map[k], References(kind, v)[k])
<1>k. /\ "vertex" \in Kinds /\ "edge" \in Kinds /\ "face" \in Kinds
      /\ "shell" \in Kinds /\ "body" \in Kinds
  BY DEF Kinds
<1>0. \A f : Image(f, {}) = {}
  BY DEF Image
<1>m. \A k \in Kinds : \A id \in DOMAIN map[k] : map[k][id] \in Ids
  BY DEF MapsIds
<1>1. CASE kind = "vertex"
  <2>1. w = v
    BY <1>1 DEF Translated
  <2> QED
    BY <1>0, <1>1, <2>1, ReferencesOf
<1>2. CASE kind = "edge"
  <2> DEFINE f == map["vertex"]
  <2>1. w = [start |-> f[v.start], end |-> f[v.end]]
    BY <1>2 DEF Translated
  <2>2. {v.start, v.end} \subseteq DOMAIN f
    BY <1>2, <1>k, ReferencesOf DEF Known
  <2> HIDE DEF f
  <2>3. f[v.start] \in Ids /\ f[v.end] \in Ids
    BY <1>k, <1>m, <2>2 DEF f
  <2>4. w \in Values(kind) /\ w.start = f[v.start] /\ w.end = f[v.end]
    BY <1>2, <2>1, <2>3, ValuesOf
  <2>5. {w.start, w.end} = Image(f, {v.start, v.end})
    BY <2>4 DEF Image
  <2>6. \A k \in Kinds : References(kind, w)[k] = Image(map[k], References(kind, v)[k])
    BY <1>0, <1>2, <2>5, ReferencesOf DEF f
  <2> QED
    BY <2>4, <2>6
<1>3. CASE kind = "face"
  <2> DEFINE f == map["edge"]
  <2>1. w = [l \in DOMAIN v |-> Each(f, v[l])] /\ v \in Seq(Seq(Ids))
    BY <1>3, ValuesOf DEF Translated
  <2>2. EdgesOf(v) \subseteq DOMAIN f /\ \A r \in DOMAIN f : f[r] \in Ids
    BY <1>3, <1>k, <1>m, ReferencesOf DEF Known
  <2> HIDE DEF f
  <2>3. w \in Seq(Seq(Ids)) /\ EdgesOf(w) = Image(f, EdgesOf(v))
    BY <2>1, <2>2, FaceIs
  <2>4. \A k \in Kinds : References(kind, w)[k] = Image(map[k], References(kind, v)[k])
    BY <1>0, <1>3, <2>3, ReferencesOf DEF f
  <2> QED
    BY <1>3, <2>3, <2>4, ValuesOf
<1>4. CASE kind = "shell"
  <2> DEFINE f == map["face"]
  <2>1. w = Each(f, v) /\ v \in Seq(Ids)
    BY <1>4, ValuesOf DEF Translated
  <2>2. ToSet(v) \subseteq DOMAIN f /\ \A r \in DOMAIN f : f[r] \in Ids
    BY <1>4, <1>k, <1>m, ReferencesOf DEF Known
  <2> HIDE DEF f
  <2>3. w \in Seq(Ids) /\ ToSet(w) = Image(f, ToSet(v))
    BY <2>1, <2>2, EachIs
  <2>4. \A k \in Kinds : References(kind, w)[k] = Image(map[k], References(kind, v)[k])
    BY <1>0, <1>4, <2>3, ReferencesOf DEF f
  <2> QED
    BY <1>4, <2>3, <2>4, ValuesOf
<1>5. CASE kind = "body"
  <2> DEFINE f == map["shell"]
             g == map["edge"]
             h == map["vertex"]
             shells == v.shells
             edges == v.edges
             verts == v.verts
  <2>1. w = [shells |-> Each(f, shells), edges |-> Each(g, edges), verts |-> Each(h, verts)]
    BY <1>5 DEF Translated
  <2>2. shells \in Seq(Ids) /\ edges \in Seq(Ids) /\ verts \in Seq(Ids)
    BY <1>5, ValuesOf
  <2>3. \A k \in Kinds : References(kind, v)[k] =
            CASE k = "shell"  -> ToSet(shells)
              [] k = "edge"   -> ToSet(edges)
              [] k = "vertex" -> ToSet(verts)
              [] OTHER        -> {}
    BY <1>5, ReferencesOf
  <2>4. /\ ToSet(shells) \subseteq DOMAIN f /\ ToSet(edges) \subseteq DOMAIN g
        /\ ToSet(verts) \subseteq DOMAIN h
    BY <1>k, <2>3 DEF Known
  <2>5. /\ \A r \in DOMAIN f : f[r] \in Ids
        /\ \A r \in DOMAIN g : g[r] \in Ids
        /\ \A r \in DOMAIN h : h[r] \in Ids
    BY <1>k, <1>m
  <2> HIDE DEF f, g, h, shells, edges, verts
  <2>6. /\ Each(f, shells) \in Seq(Ids) /\ ToSet(Each(f, shells)) = Image(f, ToSet(shells))
        /\ Each(g, edges) \in Seq(Ids) /\ ToSet(Each(g, edges)) = Image(g, ToSet(edges))
        /\ Each(h, verts) \in Seq(Ids) /\ ToSet(Each(h, verts)) = Image(h, ToSet(verts))
    BY <2>2, <2>4, <2>5, EachIs
  <2>7. w.shells = Each(f, shells) /\ w.edges = Each(g, edges) /\ w.verts = Each(h, verts)
    BY <2>1
  <2>8. \A k \in Kinds : References(kind, w)[k] =
            CASE k = "shell"  -> ToSet(w.shells)
              [] k = "edge"   -> ToSet(w.edges)
              [] k = "vertex" -> ToSet(w.verts)
              [] OTHER        -> {}
    BY <1>5, ReferencesOf
  <2>9. \A k \in Kinds : References(kind, w)[k] = Image(map[k], References(kind, v)[k])
    <3> SUFFICES ASSUME NEW k \in Kinds
                 PROVE  References(kind, w)[k] = Image(map[k], References(kind, v)[k])
      OBVIOUS
    <3>1. CASE k = "shell"
      BY <2>3, <2>6, <2>7, <2>8, <3>1 DEF f
    <3>2. CASE k = "edge"
      BY <2>3, <2>6, <2>7, <2>8, <3>2 DEF g
    <3>3. CASE k = "vertex"
      BY <2>3, <2>6, <2>7, <2>8, <3>3 DEF h
    <3>4. CASE k # "shell" /\ k # "edge" /\ k # "vertex"
      BY <1>0, <2>3, <2>8, <3>4
    <3> QED
      BY <3>1, <3>2, <3>3, <3>4
  <2>10. w \in Values(kind)
    BY <1>5, <2>1, <2>6, ValuesOf
  <2> QED
    BY <2>9, <2>10
<1> QED
  BY <1>1, <1>2, <1>3, <1>4, <1>5, KindCases

\* A map that holds what another holds translates as it does.
LEMMA TranslatedSame ==
    ASSUME NEW map, NEW more, NEW kind \in Kinds, NEW v \in Values(kind),
           Known(map, kind, v),
           \A k \in Kinds : \A r \in DOMAIN map[k] :
              r \in DOMAIN more[k] /\ more[k][r] = map[k][r]
    PROVE  Translated(more, kind, v) = Translated(map, kind, v) /\ Known(more, kind, v)
<1>k. /\ "vertex" \in Kinds /\ "edge" \in Kinds /\ "face" \in Kinds
      /\ "shell" \in Kinds /\ "body" \in Kinds
  BY DEF Kinds
<1>0. Known(more, kind, v)
  BY DEF Known
<1>a. ASSUME NEW k \in Kinds, NEW ids, ToSet(ids) \subseteq DOMAIN map[k]
      PROVE  Each(more[k], ids) = Each(map[k], ids)
  BY <1>a DEF Each, ToSet
<1>1. CASE kind = "vertex"
  BY <1>0, <1>1 DEF Translated
<1>2. CASE kind = "edge"
  <2>1. {v.start, v.end} \subseteq DOMAIN map["vertex"]
    <3>1. References("edge", v)["vertex"] = {v.start, v.end}
      BY <1>k, ReferencesOf
    <3> QED
      BY <1>2, <1>k, <3>1 DEF Known
  <2>2. /\ more["vertex"][v.start] = map["vertex"][v.start]
        /\ more["vertex"][v.end] = map["vertex"][v.end]
    BY <1>k, <2>1
  <2> QED
    BY <1>0, <1>2, <2>2 DEF Translated
<1>3. CASE kind = "face"
  <2>0. References(kind, v)["edge"] = EdgesOf(v)
    BY <1>3, <1>k, ReferencesOf
  <2>1. EdgesOf(v) \subseteq DOMAIN map["edge"]
    BY <1>k, <2>0 DEF Known
  <2>2. ASSUME NEW l \in DOMAIN v PROVE ToSet(v[l]) \subseteq DOMAIN map["edge"]
    <3> SUFFICES ASSUME NEW c \in DOMAIN v[l] PROVE v[l][c] \in EdgesOf(v)
      BY <2>1 DEF ToSet
    <3> DEFINE p == <<l, c>>
    <3>1. p \in Places(v) /\ p[1] = l /\ p[2] = c
      BY DEF Places
    <3> HIDE DEF p
    <3>2. v[p[1]][p[2]] \in EdgesOf(v)
      BY <3>1 DEF EdgesOf
    <3> QED
      BY <3>1, <3>2
  <2>3. \A l \in DOMAIN v : Each(more["edge"], v[l]) = Each(map["edge"], v[l])
    BY <1>a, <1>k, <2>2
  <2> QED
    BY <1>0, <1>3, <2>3 DEF Translated
<1>4. CASE kind = "shell"
  <2>0. References(kind, v)["face"] = ToSet(v)
    BY <1>4, <1>k, ReferencesOf
  <2>1. ToSet(v) \subseteq DOMAIN map["face"]
    BY <1>k, <2>0 DEF Known
  <2>2. Each(more["face"], v) = Each(map["face"], v)
    BY <1>a, <1>k, <2>1
  <2> QED
    BY <1>0, <1>4, <2>2 DEF Translated
<1>5. CASE kind = "body"
  <2> DEFINE shells == v.shells
             edges == v.edges
             verts == v.verts
  <2>1. \A k \in Kinds : References(kind, v)[k] =
            CASE k = "shell"  -> ToSet(shells)
              [] k = "edge"   -> ToSet(edges)
              [] k = "vertex" -> ToSet(verts)
              [] OTHER        -> {}
    BY <1>5, ReferencesOf
  <2>2. /\ ToSet(shells) \subseteq DOMAIN map["shell"]
        /\ ToSet(edges) \subseteq DOMAIN map["edge"]
        /\ ToSet(verts) \subseteq DOMAIN map["vertex"]
    BY <1>k, <2>1 DEF Known
  <2> HIDE DEF shells, edges, verts
  <2>3. /\ Each(more["shell"], shells) = Each(map["shell"], shells)
        /\ Each(more["edge"], edges) = Each(map["edge"], edges)
        /\ Each(more["vertex"], verts) = Each(map["vertex"], verts)
    BY <1>a, <1>k, <2>2
  <2>4. /\ Translated(more, kind, v) =
             [shells |-> Each(more["shell"], shells), edges |-> Each(more["edge"], edges),
              verts |-> Each(more["vertex"], verts)]
        /\ Translated(map, kind, v) =
             [shells |-> Each(map["shell"], shells), edges |-> Each(map["edge"], edges),
              verts |-> Each(map["vertex"], verts)]
    BY <1>5 DEF Translated, shells, edges, verts
  <2> QED
    BY <1>0, <2>3, <2>4
<1> QED
  BY <1>1, <1>2, <1>3, <1>4, <1>5, KindCases

-----------------------------------------------------------------------------
(***************************************************************************)
(* What has been copied so far: under every id of the map stands the       *)
(* translation of the entity it is the copy of, and nothing else is new.   *)
(***************************************************************************)

CopiesOf(y, map, t, x, kind) ==
    /\ DOMAIN map[kind] \subseteq LiveOf(x, kind)
    /\ LiveOf(y, kind) = LiveOf(t, kind) \cup Image(map[kind], DOMAIN map[kind])
    /\ \A id \in DOMAIN map[kind] :
         /\ map[kind][id] \notin LiveOf(t, kind)
         /\ Known(map, kind, Get(x, kind, id))
         /\ Get(y, kind, map[kind][id]) = Translated(map, kind, Get(x, kind, id))
    /\ \A a, b \in DOMAIN map[kind] : map[kind][a] = map[kind][b] => a = b

Copies(st, t, x) ==
    /\ st = [found |-> st.found, m |-> st.m, map |-> st.map]
    /\ st.found \in BOOLEAN
    /\ GrownFrom(st.m, t)
    /\ st.map = [kind \in Kinds |-> st.map[kind]]
    /\ \A kind \in Kinds : CopiesOf(st.m, st.map, t, x, kind)

\* What one more entity does to the map and the arenas.
Appends(new, st, kind, id) ==
    LET at == NextId(st.m[kind])
    IN  /\ new.map[kind] = Put(st.map[kind], id, at)
        /\ st.m[kind].free = {} =>
             /\ new.m[kind].free = {} /\ new.m[kind].len = st.m[kind].len + 1
             /\ at = [slot |-> st.m[kind].len, gen |-> 0]


LEMMA CopyOneIs ==
    ASSUME NEW x, Typed(x), NEW t, NEW st, Copies(st, t, x), NEW kind \in Kinds,
           NEW id \in LiveOf(x, kind), id \notin DOMAIN st.map[kind],
           NEW new, new = CopyOne(st, x, kind, id)
    PROVE  /\ Copies(new, t, x)
           /\ new.found <=> st.found /\ Known(st.map, kind, Get(x, kind, id))
           /\ \A k \in Kinds \ {kind} : new.map[k] = st.map[k] /\ new.m[k] = st.m[k]
           /\ new.found => Appends(new, st, kind, id)
<1> DEFINE v == Get(x, kind, id)
           at == NextId(st.m[kind])
           w == Translated(st.map, kind, v)
           y == PushOf(st.m, kind, w)
           more == [st.map EXCEPT ![kind] = Put(@, id, at)]
<1>0. /\ st = [found |-> st.found, m |-> st.m, map |-> st.map]
      /\ st.found \in BOOLEAN
      /\ GrownFrom(st.m, t)
      /\ st.map = [k \in Kinds |-> st.map[k]]
      /\ \A k \in Kinds : CopiesOf(st.m, st.map, t, x, k)
  BY DEF Copies
<1>1. CASE ~ (st.found /\ Known(st.map, kind, v))
  <2>1. new = [st EXCEPT !.found = FALSE]
    BY <1>1 DEF CopyOne, Known
  <2>2. /\ new.found = FALSE /\ new.m = st.m /\ new.map = st.map
        /\ new = [found |-> new.found, m |-> new.m, map |-> new.map]
    BY <1>0, <2>1
  <2>3. Copies(new, t, x)
    BY <1>0, <2>2 DEF Copies
  <2> QED
    BY <1>1, <2>2, <2>3
<1>2. CASE st.found /\ Known(st.map, kind, v)
  <2>1. new = [found |-> TRUE, m |-> y, map |-> more]
    BY <1>2 DEF CopyOne, Known
  <2>2. /\ \A k \in Kinds \ {kind} : more[k] = st.map[k]
        /\ more[kind] = Put(st.map[kind], id, at)
        /\ more = [k \in Kinds |-> more[k]]
    BY <1>0
  <2>3. v \in Values(kind)
    BY LiveAreIds
  <2>t. Hale(st.m) /\ Typed(st.m) /\ Hale(t) /\ Typed(t)
    BY <1>0 DEF GrownFrom, Hale
  <2>4. MapsIds(st.map) /\ \A k \in Kinds : Image(st.map[k], DOMAIN st.map[k]) \subseteq LiveOf(st.m, k)
    <3>1. \A k \in Kinds : Image(st.map[k], DOMAIN st.map[k]) \subseteq LiveOf(st.m, k)
      BY <1>0 DEF CopiesOf
    <3>2. \A k \in Kinds : LiveOf(st.m, k) \subseteq Ids
      BY <2>t, LiveAreIds
    <3> QED
      BY <3>1, <3>2 DEF MapsIds, Image
  <2> HIDE DEF v, more, y, w, at
  <2>5. w \in Values(kind) /\ \A k \in Kinds : References(kind, w)[k] \subseteq LiveOf(st.m, k)
    <3>1. /\ w \in Values(kind)
          /\ \A k \in Kinds : References(kind, w)[k] = Image(st.map[k], References(kind, v)[k])
      BY <1>2, <2>3, <2>4, TranslatedIs DEF w
    <3>2. \A k \in Kinds : Image(st.map[k], References(kind, v)[k]) \subseteq Image(st.map[k], DOMAIN st.map[k])
      BY <1>2 DEF Known, Image
    <3> QED
      BY <2>4, <3>1, <3>2
  <2>6. GrownFrom(y, st.m) /\ IsPush(y, st.m, kind, w)
    BY <2>t, <2>5, HalePushed DEF y
  <2>7. /\ at \notin LiveOf(st.m, kind)
        /\ LiveOf(y, kind) = LiveOf(st.m, kind) \cup {at}
        /\ Get(y, kind, at) = w
        /\ \A r \in LiveOf(st.m, kind) : Get(y, kind, r) = Get(st.m, kind, r)
        /\ \A k \in Kinds \ {kind} : y[k] = st.m[k]
        /\ st.m[kind].free = {} =>
             /\ y[kind].free = {} /\ y[kind].len = st.m[kind].len + 1
             /\ at = [slot |-> st.m[kind].len, gen |-> 0]
    BY <2>t, <2>5, <2>6, PushedLive DEF at
  <2>8. GrownFrom(y, t)
    BY <1>0, <2>6, GrownFromTransitive
  <2>9. /\ DOMAIN more[kind] = DOMAIN st.map[kind] \cup {id} /\ more[kind][id] = at
        /\ \A r \in DOMAIN st.map[kind] : more[kind][r] = st.map[kind][r]
        /\ Image(more[kind], DOMAIN more[kind]) = Image(st.map[kind], DOMAIN st.map[kind]) \cup {at}
    <3> DEFINE f == st.map[kind]
               g == more[kind]
    <3>1. g = Put(f, id, at) /\ id \notin DOMAIN f
      BY <2>2
    <3> HIDE DEF f, g
    <3>2. /\ DOMAIN g = DOMAIN f \cup {id} /\ g[id] = at
          /\ \A r \in DOMAIN f : g[r] = f[r]
      BY <3>1 DEF Put
    <3>3. Image(g, DOMAIN g) = Image(f, DOMAIN f) \cup {at}
      BY <3>2 DEF Image
    <3> QED
      BY <3>2, <3>3 DEF f, g
  <2>10. \A k \in Kinds : \A r \in DOMAIN st.map[k] :
            r \in DOMAIN more[k] /\ more[k][r] = st.map[k][r]
    BY <2>2, <2>9
  <2>11. ASSUME NEW k \in Kinds, NEW u \in Values(k), Known(st.map, k, u)
         PROVE  Translated(more, k, u) = Translated(st.map, k, u) /\ Known(more, k, u)
    BY <2>10, <2>11, TranslatedSame
  <2>12. \A k \in Kinds : \A r \in LiveOf(x, k) : Get(x, k, r) \in Values(k)
    BY LiveAreIds
  <2>13. ASSUME NEW k \in Kinds, k # kind PROVE CopiesOf(y, more, t, x, k)
    <3>1. y[k] = st.m[k] /\ more[k] = st.map[k] /\ CopiesOf(st.m, st.map, t, x, k)
      BY <1>0, <2>2, <2>7, <2>13
    <3>2. LiveOf(y, k) = LiveOf(st.m, k) /\ \A r : Get(y, k, r) = Get(st.m, k, r)
      BY <3>1 DEF LiveOf, Get
    <3> QED
      BY <2>11, <2>12, <3>1, <3>2 DEF CopiesOf
  <2>14. CopiesOf(y, more, t, x, kind)
    <3> DEFINE D == DOMAIN st.map[kind]
               f == st.map[kind]
               g == more[kind]
    <3>1. /\ D \subseteq LiveOf(x, kind)
          /\ LiveOf(st.m, kind) = LiveOf(t, kind) \cup Image(f, D)
          /\ \A r \in D : /\ f[r] \notin LiveOf(t, kind)
                          /\ Known(st.map, kind, Get(x, kind, r))
                          /\ Get(st.m, kind, f[r]) = Translated(st.map, kind, Get(x, kind, r))
          /\ \A a, b \in D : f[a] = f[b] => a = b
      BY <1>0 DEF CopiesOf
    <3>2. DOMAIN g = D \cup {id} /\ g[id] = at /\ \A r \in D : g[r] = f[r]
      BY <2>9
    <3>3. DOMAIN g \subseteq LiveOf(x, kind)
      BY <3>1, <3>2
    <3>4. LiveOf(y, kind) = LiveOf(t, kind) \cup Image(g, DOMAIN g)
      BY <2>7, <2>9, <3>1
    <3>5. ASSUME NEW r \in DOMAIN g
          PROVE  /\ g[r] \notin LiveOf(t, kind)
                 /\ Known(more, kind, Get(x, kind, r))
                 /\ Get(y, kind, g[r]) = Translated(more, kind, Get(x, kind, r))
      <4>1. CASE r = id
        <5>1. Translated(more, kind, v) = w /\ Known(more, kind, v)
          BY <1>2, <2>3, <2>11 DEF w
        <5> QED
          BY <2>7, <3>1, <3>2, <4>1, <5>1 DEF v
      <4>2. CASE r # id
        <5>1. r \in D /\ g[r] = f[r]
          BY <3>2, <4>2
        <5>2. f[r] \in LiveOf(st.m, kind)
          BY <3>1, <5>1 DEF Image
        <5>3. Get(y, kind, f[r]) = Get(st.m, kind, f[r])
          BY <2>7, <5>2
        <5>4. /\ Translated(more, kind, Get(x, kind, r)) = Translated(st.map, kind, Get(x, kind, r))
              /\ Known(more, kind, Get(x, kind, r))
          BY <2>11, <2>12, <3>1, <5>1
        <5> QED
          BY <3>1, <5>1, <5>3, <5>4
      <4> QED
        BY <4>1, <4>2
    <3>6. \A r \in D : f[r] # at
      BY <2>7, <3>1 DEF Image
    <3>7. \A a, b \in DOMAIN g : g[a] = g[b] => a = b
      BY <3>1, <3>2, <3>6
    <3> QED
      BY <3>3, <3>4, <3>5, <3>7 DEF CopiesOf
  <2>15. Copies(new, t, x)
    <3>1. \A k \in Kinds : CopiesOf(y, more, t, x, k)
      BY <2>13, <2>14
    <3>2. /\ new.found = TRUE /\ new.m = y /\ new.map = more
          /\ new = [found |-> new.found, m |-> new.m, map |-> new.map]
      BY <2>1
    <3> QED
      BY <2>2, <2>8, <3>1, <3>2 DEF Copies
  <2>16. Appends(new, st, kind, id)
    BY <2>1, <2>2, <2>7 DEF Appends, at
  <2> QED
    BY <1>2, <2>1, <2>2, <2>7, <2>15, <2>16 DEF v
<1> QED
  BY <1>1, <1>2

-----------------------------------------------------------------------------
(***************************************************************************)
(* The loop over the ids of one kind, from r on, after n of them.          *)
(***************************************************************************)

FirstIds(ids, n) == {ids[i] : i \in 1 .. n}
Dense(st, kind, ids, n) ==
    /\ st.m[kind].free = {} /\ st.m[kind].len = n
    /\ \A i \in 1 .. n : st.map[kind][ids[i]] = [slot |-> i - 1, gen |-> 0]

Upto(st, r, x, kind, ids, n) ==
    /\ \A k \in Kinds \ {kind} : st.map[k] = r.map[k] /\ st.m[k] = r.m[k]
    /\ st.found <=> r.found /\ \A i \in 1 .. n : Known(r.map, kind, Get(x, kind, ids[i]))
    /\ DOMAIN st.map[kind] \subseteq FirstIds(ids, n)
    /\ st.found => DOMAIN st.map[kind] = FirstIds(ids, n)
    /\ st.found /\ r.m[kind] = EmptyArena => Dense(st, kind, ids, n)

LEMMA NoneOfItsKind ==
    ASSUME NEW kind \in Kinds, NEW v
    PROVE  References(kind, v)[kind] = {}
<1>1. CASE kind = "vertex"
  BY <1>1, ReferencesOf
<1>2. CASE kind = "edge"
  BY <1>2, ReferencesOf
<1>3. CASE kind = "face"
  BY <1>3, ReferencesOf
<1>4. CASE kind = "shell"
  BY <1>4, ReferencesOf
<1>5. CASE kind = "body"
  BY <1>5, ReferencesOf
<1> QED
  BY <1>1, <1>2, <1>3, <1>4, <1>5, KindCases

LEMMA UptoStarts ==
    ASSUME NEW r, NEW x, NEW kind, NEW ids, DOMAIN r.map[kind] = {}, r.found \in BOOLEAN
    PROVE  Upto(r, r, x, kind, ids, 0)
<1>1. 1 .. 0 = {} /\ FirstIds(ids, 0) = {}
  BY DEF FirstIds
<1>2. r.m[kind] = EmptyArena => Dense(r, kind, ids, 0)
  BY <1>1 DEF Dense, EmptyArena
<1> QED
  BY <1>1, <1>2 DEF Upto

LEMMA UptoGoesOn ==
    ASSUME NEW x, Typed(x), NEW t, NEW r, NEW kind \in Kinds, NEW ids, NEW n \in Nat \ {0},
           \A i \in 1 .. n : ids[i] \in LiveOf(x, kind),
           \A i \in 1 .. n, j \in 1 .. n : ids[i] = ids[j] => i = j,
           NEW st, Copies(st, t, x), Upto(st, r, x, kind, ids, n - 1),
           NEW new, new = CopyOne(st, x, kind, ids[n])
    PROVE  Copies(new, t, x) /\ Upto(new, r, x, kind, ids, n)
<1> DEFINE id == ids[n]
           v == Get(x, kind, id)
           at == NextId(st.m[kind])
           known(i) == Known(r.map, kind, Get(x, kind, ids[i]))
<1>1. /\ \A k \in Kinds \ {kind} : st.map[k] = r.map[k] /\ st.m[k] = r.m[k]
      /\ st.found <=> r.found /\ \A i \in 1 .. (n - 1) : known(i)
      /\ DOMAIN st.map[kind] \subseteq FirstIds(ids, n - 1)
      /\ st.found => DOMAIN st.map[kind] = FirstIds(ids, n - 1)
      /\ st.found /\ r.m[kind] = EmptyArena => Dense(st, kind, ids, n - 1)
  BY DEF Upto
<1>2. id \in LiveOf(x, kind) /\ id \notin FirstIds(ids, n - 1)
  BY DEF FirstIds
<1>3. id \notin DOMAIN st.map[kind]
  BY <1>1, <1>2
<1>4. /\ Copies(new, t, x)
      /\ new.found <=> st.found /\ Known(st.map, kind, v)
      /\ \A k \in Kinds \ {kind} : new.map[k] = st.map[k] /\ new.m[k] = st.m[k]
      /\ new.found => Appends(new, st, kind, id)
  BY <1>2, <1>3, CopyOneIs
<1>5. Known(st.map, kind, v) <=> known(n)
  <2>1. References(kind, v)[kind] = {}
    BY NoneOfItsKind
  <2>2. \A k \in Kinds : References(kind, v)[k] \subseteq DOMAIN st.map[k]
                     <=> References(kind, v)[k] \subseteq DOMAIN r.map[k]
    BY <1>1, <2>1
  <2> QED
    BY <2>2 DEF Known
<1>6. new.found <=> r.found /\ \A i \in 1 .. n : known(i)
  <2>1. \A i \in 1 .. n : i \in 1 .. (n - 1) \/ i = n
    OBVIOUS
  <2>2. n \in 1 .. n /\ \A i \in 1 .. (n - 1) : i \in 1 .. n
    OBVIOUS
  <2> HIDE DEF known, v
  <2> QED
    BY <1>1, <1>4, <1>5, <2>1, <2>2
<1>7. FirstIds(ids, n) = FirstIds(ids, n - 1) \cup {id}
  BY DEF FirstIds
<1> HIDE DEF id, at, known, v
<1>8. CASE new.found
  <2>1. st.found /\ DOMAIN st.map[kind] = FirstIds(ids, n - 1)
    BY <1>1, <1>4, <1>8
  <2>2. /\ new.map[kind] = Put(st.map[kind], id, at)
        /\ st.m[kind].free = {} =>
             /\ new.m[kind].free = {} /\ new.m[kind].len = st.m[kind].len + 1
             /\ at = [slot |-> st.m[kind].len, gen |-> 0]
    BY <1>4, <1>8 DEF Appends, at
  <2>3. /\ DOMAIN new.map[kind] = FirstIds(ids, n) /\ new.map[kind][id] = at
        /\ \A k \in FirstIds(ids, n - 1) : new.map[kind][k] = st.map[kind][k]
    BY <1>2, <1>7, <2>1, <2>2 DEF Put
  <2>4. ASSUME r.m[kind] = EmptyArena PROVE Dense(new, kind, ids, n)
    <3>1. /\ st.m[kind].free = {} /\ st.m[kind].len = n - 1
          /\ \A i \in 1 .. (n - 1) : st.map[kind][ids[i]] = [slot |-> i - 1, gen |-> 0]
      BY <1>1, <2>1, <2>4 DEF Dense
    <3>2. /\ new.m[kind].free = {} /\ new.m[kind].len = n
          /\ at = [slot |-> n - 1, gen |-> 0]
      BY <2>2, <3>1
    <3>3. ASSUME NEW i \in 1 .. n
          PROVE  new.map[kind][ids[i]] = [slot |-> i - 1, gen |-> 0]
      <4>1. CASE i = n
        BY <2>3, <3>2, <4>1 DEF id
      <4>2. CASE i # n
        <5>1. i \in 1 .. (n - 1)
          BY <4>2
        <5>2. ids[i] \in FirstIds(ids, n - 1)
          BY <5>1 DEF FirstIds
        <5> QED
          BY <2>3, <3>1, <5>1, <5>2
      <4> QED
        BY <4>1, <4>2
    <3> QED
      BY <3>2, <3>3 DEF Dense
  <2>5. Upto(new, r, x, kind, ids, n)
    <3>1. \A k \in Kinds \ {kind} : new.map[k] = r.map[k] /\ new.m[k] = r.m[k]
      BY <1>1, <1>4
    <3> QED
      BY <1>6, <2>3, <2>4, <3>1 DEF Upto, known
  <2> QED
    BY <1>4, <2>5
<1>9. CASE ~ new.found
  <2>1. \A k \in Kinds \ {kind} : new.map[k] = r.map[k] /\ new.m[k] = r.m[k]
    BY <1>1, <1>4
  <2>2. DOMAIN new.map[kind] \subseteq FirstIds(ids, n)
    <3>1. new = [st EXCEPT !.found = FALSE]
      <4>1. ~ st.found \/ ~ Known(st.map, kind, v)
        BY <1>4, <1>9
      <4> QED
        BY <4>1 DEF CopyOne, Known, v, id
    <3>2. st = [found |-> st.found, m |-> st.m, map |-> st.map]
      BY DEF Copies
    <3>3. new.map = st.map
      BY <3>1, <3>2
    <3> QED
      BY <1>1, <1>7, <3>3
  <2>3. Upto(new, r, x, kind, ids, n)
    BY <1>6, <1>9, <2>1, <2>2 DEF Upto, known
  <2> QED
    BY <1>4, <2>3
<1> QED
  BY <1>8, <1>9

LEMMA CopyLoop ==
    ASSUME NEW x, Typed(x), NEW t, NEW r, Copies(r, t, x), NEW kind \in Kinds,
           DOMAIN r.map[kind] = {}, NEW C \in SUBSET LiveOf(x, kind), NEW ids,
           Enumerates(ids, C), NEW s, s = CopyAll(r, x, kind, ids)
    PROVE  Copies(s, t, x) /\ Upto(s, r, x, kind, ids, Len(ids))
<1> DEFINE N == Len(ids)
<1>1. /\ N \in Nat /\ \A i \in 1 .. N : ids[i] \in LiveOf(x, kind)
      /\ \A i, j \in 1 .. N : ids[i] = ids[j] => i = j
  BY LenProperties, ElementOfSeq DEF Enumerates
<1>2. PICK f : /\ f[0] = r
               /\ \A n \in 1 .. N : f[n] = CopyOne(f[n - 1], x, kind, ids[n])
               /\ s = f[N]
  BY <1>1, CopyAllGoes
<1> HIDE DEF N
<1> DEFINE G == {n \in Nat : Copies(f[n], t, x) /\ Upto(f[n], r, x, kind, ids, n)}
<1>3. 0 \in G
  BY <1>2, UptoStarts DEF Copies
<1>4. ASSUME NEW n \in 1 .. N, n - 1 \in G PROVE n \in G
  <2>1. /\ n \in Nat \ {0}
        /\ \A i \in 1 .. n : ids[i] \in LiveOf(x, kind)
        /\ \A i \in 1 .. n, j \in 1 .. n : ids[i] = ids[j] => i = j
    <3>1. \A i \in 1 .. n : i \in 1 .. N
      BY <1>1
    <3> QED
      BY <1>1, <3>1
  <2>2. /\ Copies(f[n - 1], t, x) /\ Upto(f[n - 1], r, x, kind, ids, n - 1)
        /\ f[n] = CopyOne(f[n - 1], x, kind, ids[n])
    BY <1>2, <1>4
  <2>3. Copies(f[n], t, x) /\ Upto(f[n], r, x, kind, ids, n)
    BY <2>1, <2>2, UptoGoesOn
  <2> QED
    BY <2>1, <2>3
<1>5. N \in G
  <2> HIDE DEF G
  <2>1. \A n \in 0 .. N : n \in G
    BY <1>1, <1>3, <1>4, ByCount
  <2> QED
    BY <1>1, <2>1
<1> QED
  BY <1>2, <1>5 DEF N

-----------------------------------------------------------------------------
(***************************************************************************)
(* Kind after kind: S are the kinds copied.                                *)
(***************************************************************************)

WholeIn(x, C, kind) == \A id \in C[kind] : \A k \in Kinds :
    References(kind, Get(x, kind, id))[k] \subseteq C[k]

Stage(st, t, x, C, S) ==
    /\ Copies(st, t, x)
    /\ st.found <=> \A kind \in S : WholeIn(x, C, kind)
    /\ \A k \in Kinds \ S : DOMAIN st.map[k] = {} /\ st.m[k] = t[k]
    /\ st.found => \A k \in S : DOMAIN st.map[k] = C[k]
    /\ st.found /\ t = EmptyModel =>
         \A k \in S : Dense(st, k, SlotOrder(C[k]), Cardinality(C[k]))

LEMMA StageStarts ==
    ASSUME NEW t, Hale(t), NEW x, NEW C,
           NEW st, st = [m |-> t, map |-> EmptyIdMap, found |-> TRUE]
    PROVE  Stage(st, t, x, C, {})
<1>1. /\ st.m = t /\ st.found = TRUE /\ st.map = EmptyIdMap
      /\ st = [found |-> st.found, m |-> st.m, map |-> st.map]
  OBVIOUS
<1>2. \A k \in Kinds : st.map[k] = EmptyFun /\ DOMAIN st.map[k] = {}
  BY <1>1 DEF EmptyIdMap, EmptyFun
<1>3. st.map = [k \in Kinds |-> st.map[k]]
  BY <1>1 DEF EmptyIdMap
<1>4. \A k \in Kinds : CopiesOf(st.m, st.map, t, x, k)
  BY <1>1, <1>2 DEF CopiesOf, Image
<1>5. GrownFrom(st.m, t)
  BY <1>1, GrownFromItself
<1>6. Copies(st, t, x)
  BY <1>1, <1>3, <1>4, <1>5 DEF Copies
<1> QED
  BY <1>1, <1>2, <1>6 DEF Stage

LEMMA StageGoesOn ==
    ASSUME NEW x, Typed(x), NEW t, NEW C, NEW S \in SUBSET Kinds, NEW kind \in Kinds \ S,
           C[kind] \subseteq LiveOf(x, kind),
           \A v : \A k \in Kinds \ S : References(kind, v)[k] = {},
           NEW r, Stage(r, t, x, C, S),
           NEW s, s = CopyAll(r, x, kind, SlotOrder(C[kind]))
    PROVE  Stage(s, t, x, C, S \cup {kind})
<1> DEFINE ids == SlotOrder(C[kind])
           N == Len(ids)
           known(id) == Known(r.map, kind, Get(x, kind, id))
<1>1. /\ Copies(r, t, x)
      /\ r.found <=> \A k \in S : WholeIn(x, C, k)
      /\ \A k \in Kinds \ S : DOMAIN r.map[k] = {} /\ r.m[k] = t[k]
      /\ r.found => \A k \in S : DOMAIN r.map[k] = C[k]
      /\ r.found /\ t = EmptyModel =>
           \A k \in S : Dense(r, k, SlotOrder(C[k]), Cardinality(C[k]))
  BY DEF Stage
<1>2. C[kind] \in SUBSET Ids /\ IsFiniteSet(C[kind])
  <2>1. LiveOf(x, kind) \subseteq Ids /\ IsFiniteSet(LiveOf(x, kind))
    BY LiveAreIds, LiveFinite
  <2> QED
    BY <2>1, FS_Subset
<1>3. Enumerates(ids, C[kind]) /\ N = Cardinality(C[kind])
  BY <1>2, SlotOrderLists
<1> HIDE DEF ids
<1>4. Copies(s, t, x) /\ Upto(s, r, x, kind, ids, N)
  BY <1>1, <1>3, CopyLoop DEF ids
<1>5. FirstIds(ids, N) = C[kind]
  BY <1>3, LenProperties, ElementOfSeq DEF Enumerates, FirstIds
<1> HIDE DEF N
<1>6. /\ \A k \in Kinds \ {kind} : s.map[k] = r.map[k] /\ s.m[k] = r.m[k]
      /\ s.found <=> r.found /\ \A i \in 1 .. N : known(ids[i])
      /\ s.found => DOMAIN s.map[kind] = C[kind]
      /\ s.found /\ r.m[kind] = EmptyArena => Dense(s, kind, ids, N)
  BY <1>4, <1>5 DEF Upto
<1>7. (\A i \in 1 .. N : known(ids[i])) <=> \A id \in C[kind] : known(id)
  <2>1. \A id : id \in C[kind] <=> \E i \in 1 .. N : id = ids[i]
    BY <1>5 DEF FirstIds
  <2> HIDE DEF known
  <2> QED
    BY <2>1
<1>8. ASSUME r.found PROVE (\A id \in C[kind] : known(id)) <=> WholeIn(x, C, kind)
  <2>1. \A id : known(id) <=>
           \A k \in Kinds : References(kind, Get(x, kind, id))[k] \subseteq C[k]
    <3> SUFFICES ASSUME NEW id, NEW k \in Kinds
                 PROVE  References(kind, Get(x, kind, id))[k] \subseteq DOMAIN r.map[k]
                    <=> References(kind, Get(x, kind, id))[k] \subseteq C[k]
      BY DEF Known
    <3>1. CASE k \in S
      BY <1>1, <1>8, <3>1
    <3>2. CASE k \notin S
      BY <3>2
    <3> QED
      BY <3>1, <3>2
  <2> HIDE DEF known
  <2> QED
    BY <2>1 DEF WholeIn
<1>9. s.found <=> \A k \in S \cup {kind} : WholeIn(x, C, k)
  <2>1. s.found <=> r.found /\ WholeIn(x, C, kind)
    <3> HIDE DEF known
    <3> QED
      BY <1>6, <1>7, <1>8
  <2> QED
    BY <1>1, <2>1
<1>10. \A k \in Kinds \ (S \cup {kind}) : DOMAIN s.map[k] = {} /\ s.m[k] = t[k]
  BY <1>1, <1>6
<1>11. s.found => r.found
  BY <1>6
<1>12. s.found => \A k \in S \cup {kind} : DOMAIN s.map[k] = C[k]
  BY <1>1, <1>6, <1>11
<1>13. ASSUME s.found, t = EmptyModel
       PROVE  \A k \in S \cup {kind} : Dense(s, k, SlotOrder(C[k]), Cardinality(C[k]))
  <2>1. r.m[kind] = EmptyArena
    BY <1>1, <1>13, KindsAreFields DEF EmptyModel
  <2>2. Dense(s, kind, SlotOrder(C[kind]), Cardinality(C[kind]))
    BY <1>3, <1>6, <1>13, <2>1 DEF ids
  <2>3. ASSUME NEW k \in S PROVE Dense(s, k, SlotOrder(C[k]), Cardinality(C[k]))
    <3>1. Dense(r, k, SlotOrder(C[k]), Cardinality(C[k]))
      BY <1>1, <1>11, <1>13
    <3>2. s.map[k] = r.map[k] /\ s.m[k] = r.m[k]
      BY <1>6
    <3> QED
      BY <3>1, <3>2 DEF Dense
  <2> QED
    BY <2>2, <2>3
<1> QED
  BY <1>4, <1>9, <1>10, <1>12, <1>13 DEF Stage

KindGoes(f, t, x, C) ==
    f = [n \in 0 .. 5 |->
           IF n = 0 THEN [m |-> t, map |-> EmptyIdMap, found |-> TRUE]
           ELSE CopyAll(f[n - 1], x, KindOrder[n], SlotOrder(C[KindOrder[n]]))]

\* The five loops, one after the other.
LEMMA FiveLoops ==
    ASSUME NEW x, NEW t, NEW body, NEW C, C = Closure(x, body),
           NEW none, none = [m |-> t, map |-> EmptyIdMap, found |-> TRUE],
           NEW verts, verts = CopyAll(none, x, "vertex", SlotOrder(C["vertex"])),
           NEW edges, edges = CopyAll(verts, x, "edge", SlotOrder(C["edge"])),
           NEW faces, faces = CopyAll(edges, x, "face", SlotOrder(C["face"])),
           NEW shells, shells = CopyAll(faces, x, "shell", SlotOrder(C["shell"])),
           NEW bodies, bodies = CopyAll(shells, x, "body", SlotOrder(C["body"]))
    PROVE  Copied(t, x, body) = bodies
<1> DEFINE f == [n \in 0 .. 5 |-> CASE n = 0 -> none [] n = 1 -> verts [] n = 2 -> edges
                                    [] n = 3 -> faces [] n = 4 -> shells [] n = 5 -> bodies]
           copy(s, kind) == CopyAll(s, x, kind, SlotOrder(C[kind]))
           next(g, n) == IF n = 0 THEN none ELSE copy(g[n - 1], KindOrder[n])
<1>1. /\ KindOrder[1] = "vertex" /\ KindOrder[2] = "edge" /\ KindOrder[3] = "face"
      /\ KindOrder[4] = "shell" /\ KindOrder[5] = "body"
  BY DEF KindOrder
<1>2. /\ f[0] = none /\ f[1] = verts /\ f[2] = edges /\ f[3] = faces
      /\ f[4] = shells /\ f[5] = bodies /\ f = [n \in 0 .. 5 |-> f[n]]
  OBVIOUS
<1>3. /\ verts = copy(none, "vertex") /\ edges = copy(verts, "edge")
      /\ faces = copy(edges, "face") /\ shells = copy(faces, "shell")
      /\ bodies = copy(shells, "body")
  OBVIOUS
<1>4. \A g : KindGoes(g, t, x, C) <=> g = [n \in 0 .. 5 |-> next(g, n)]
  BY DEF KindGoes
<1> HIDE DEF f, copy
<1>n. \A g : /\ next(g, 0) = none
             /\ next(g, 1) = copy(g[0], "vertex")
             /\ next(g, 2) = copy(g[1], "edge")
             /\ next(g, 3) = copy(g[2], "face")
             /\ next(g, 4) = copy(g[3], "shell")
             /\ next(g, 5) = copy(g[4], "body")
  <2>1. 1 - 1 = 0 /\ 2 - 1 = 1 /\ 3 - 1 = 2 /\ 4 - 1 = 3 /\ 5 - 1 = 4
    OBVIOUS
  <2>2. 1 # 0 /\ 2 # 0 /\ 3 # 0 /\ 4 # 0 /\ 5 # 0
    OBVIOUS
  <2> QED
    BY <1>1, <2>1, <2>2
<1> HIDE DEF next
<1>o. \A n \in 0 .. 5 : n = 0 \/ n = 1 \/ n = 2 \/ n = 3 \/ n = 4 \/ n = 5
  OBVIOUS
<1>p. 0 \in 0 .. 5 /\ 1 \in 0 .. 5 /\ 2 \in 0 .. 5 /\ 3 \in 0 .. 5 /\ 4 \in 0 .. 5 /\ 5 \in 0 .. 5
  OBVIOUS
<1>5. ASSUME NEW n \in 0 .. 5 PROVE f[n] = next(f, n)
  <2>1. /\ f[0] = next(f, 0) /\ f[1] = next(f, 1) /\ f[2] = next(f, 2)
        /\ f[3] = next(f, 3) /\ f[4] = next(f, 4) /\ f[5] = next(f, 5)
    BY <1>2, <1>3, <1>n
  <2> QED
    BY <1>o, <2>1
<1>6. KindGoes(f, t, x, C)
  <2>1. f = [n \in 0 .. 5 |-> next(f, n)]
    BY <1>2, <1>5
  <2> QED
    BY <1>4, <2>1
<1>7. ASSUME NEW g, KindGoes(g, t, x, C) PROVE g = f
  <2>1. g = [n \in 0 .. 5 |-> next(g, n)]
    BY <1>4, <1>7
  <2>2. g = [n \in 0 .. 5 |-> g[n]] /\ \A n \in 0 .. 5 : g[n] = next(g, n)
    BY <2>1
  <2>a. /\ g[0] = next(g, 0) /\ g[1] = next(g, 1) /\ g[2] = next(g, 2)
        /\ g[3] = next(g, 3) /\ g[4] = next(g, 4) /\ g[5] = next(g, 5)
    BY <1>p, <2>2
  <2>3. g[0] = none
    BY <1>n, <2>a
  <2>4. g[1] = verts
    BY <1>3, <1>n, <2>a, <2>3
  <2>5. g[2] = edges
    BY <1>3, <1>n, <2>a, <2>4
  <2>6. g[3] = faces
    BY <1>3, <1>n, <2>a, <2>5
  <2>7. g[4] = shells
    BY <1>3, <1>n, <2>a, <2>6
  <2>8. g[5] = bodies
    BY <1>3, <1>n, <2>a, <2>7
  <2>9. \A n \in 0 .. 5 : g[n] = f[n]
    BY <1>2, <1>o, <2>3, <2>4, <2>5, <2>6, <2>7, <2>8
  <2> QED
    BY <1>2, <2>2, <2>9
<1>8. (CHOOSE g : KindGoes(g, t, x, C)) = f
  BY <1>6, <1>7
<1>9. Copied(t, x, body) = (CHOOSE g : KindGoes(g, t, x, C))[5]
  BY DEF Copied, KindGoes
<1> QED
  BY <1>2, <1>8, <1>9

\* What `import` copies: the closure, all of it or with an error.
LEMMA CopiedIs ==
    ASSUME NEW x, Typed(x), NEW t, Hale(t), NEW body \in LiveOf(x, "body"),
           NEW st, st = Copied(t, x, body)
    PROVE  Stage(st, t, x, Closure(x, body), Kinds)
<1> DEFINE C == Closure(x, body)
           copy(s, kind) == CopyAll(s, x, kind, SlotOrder(C[kind]))
           none == [m |-> t, map |-> EmptyIdMap, found |-> TRUE]
           verts == copy(none, "vertex")
           edges == copy(verts, "edge")
           faces == copy(edges, "face")
           shells == copy(faces, "shell")
           bodies == copy(shells, "body")
<1>k. /\ "vertex" \in Kinds /\ "edge" \in Kinds /\ "face" \in Kinds
      /\ "shell" \in Kinds /\ "body" \in Kinds
  BY DEF Kinds
<1>1. st = bodies
  BY FiveLoops
<1>2. \A kind \in Kinds : C[kind] \subseteq LiveOf(x, kind)
  BY ClosureIsLive
<1> HIDE DEF C, none, verts, edges, faces, shells, bodies
<1>3. Stage(none, t, x, C, {})
  BY StageStarts DEF none
<1>4. Stage(verts, t, x, C, {"vertex"})
  <2>1. \A v : \A k \in Kinds \ {} : References("vertex", v)[k] = {}
    BY ReferencesOf
  <2>2. verts = copy(none, "vertex") /\ "vertex" \in Kinds \ {} /\ {} \in SUBSET Kinds
    BY <1>k DEF verts
  <2>3. Stage(verts, t, x, C, {} \cup {"vertex"})
    BY <1>2, <1>3, <2>1, <2>2, StageGoesOn
  <2>4. {} \cup {"vertex"} = {"vertex"}
    OBVIOUS
  <2> QED
    BY <2>3, <2>4
<1>5. Stage(edges, t, x, C, {"vertex", "edge"})
  <2> DEFINE S == {"vertex"}
  <2>1. \A v : \A k \in Kinds \ S : References("edge", v)[k] = {}
    BY ReferencesOf
  <2>2. edges = copy(verts, "edge") /\ "edge" \in Kinds \ S /\ S \in SUBSET Kinds
    BY <1>k DEF edges
  <2>3. S \cup {"edge"} = {"vertex", "edge"}
    OBVIOUS
  <2>4. Stage(verts, t, x, C, S)
    BY <1>4
  <2> HIDE DEF S
  <2>5. Stage(edges, t, x, C, S \cup {"edge"})
    BY <1>2, <2>1, <2>2, <2>4, StageGoesOn
  <2> QED
    BY <2>3, <2>5
<1>6. Stage(faces, t, x, C, {"vertex", "edge", "face"})
  <2> DEFINE S == {"vertex", "edge"}
  <2>1. \A v : \A k \in Kinds \ S : References("face", v)[k] = {}
    BY ReferencesOf
  <2>2. faces = copy(edges, "face") /\ "face" \in Kinds \ S /\ S \in SUBSET Kinds
    BY <1>k DEF faces
  <2>3. S \cup {"face"} = {"vertex", "edge", "face"}
    OBVIOUS
  <2>4. Stage(edges, t, x, C, S)
    BY <1>5
  <2> HIDE DEF S
  <2>5. Stage(faces, t, x, C, S \cup {"face"})
    BY <1>2, <2>1, <2>2, <2>4, StageGoesOn
  <2> QED
    BY <2>3, <2>5
<1>7. Stage(shells, t, x, C, {"vertex", "edge", "face", "shell"})
  <2> DEFINE S == {"vertex", "edge", "face"}
  <2>1. \A v : \A k \in Kinds \ S : References("shell", v)[k] = {}
    BY ReferencesOf
  <2>2. shells = copy(faces, "shell") /\ "shell" \in Kinds \ S /\ S \in SUBSET Kinds
    BY <1>k DEF shells
  <2>3. S \cup {"shell"} = {"vertex", "edge", "face", "shell"}
    OBVIOUS
  <2>4. Stage(faces, t, x, C, S)
    BY <1>6
  <2> HIDE DEF S
  <2>5. Stage(shells, t, x, C, S \cup {"shell"})
    BY <1>2, <2>1, <2>2, <2>4, StageGoesOn
  <2> QED
    BY <2>3, <2>5
<1>8. Stage(bodies, t, x, C, Kinds)
  <2> DEFINE S == {"vertex", "edge", "face", "shell"}
  <2>1. \A v : \A k \in Kinds \ S : References("body", v)[k] = {}
    BY NoneOfItsKind DEF Kinds
  <2>2. bodies = copy(shells, "body") /\ "body" \in Kinds \ S /\ S \in SUBSET Kinds
    BY <1>k DEF bodies
  <2>3. S \cup {"body"} = Kinds
    BY DEF Kinds
  <2>4. Stage(shells, t, x, C, S)
    BY <1>7
  <2> HIDE DEF S
  <2>5. Stage(bodies, t, x, C, S \cup {"body"})
    BY <1>2, <2>1, <2>2, <2>4, StageGoesOn
  <2> QED
    BY <2>3, <2>5
<1> QED
  BY <1>1, <1>8 DEF C

-----------------------------------------------------------------------------
(***************************************************************************)
(* A closure that refers to nothing outside itself is what is reached from *)
(* the body, and the image of what is reached is reached from the image.   *)
(***************************************************************************)

RefsFrom(x, kind, ids, k) == UNION {References(kind, Get(x, kind, id))[k] : id \in ids}

\* C holds what is reached from the body, kind by kind on the way down.
Reached(x, C, body) ==
    /\ C["body"] = {body}
    /\ C["shell"] = RefsFrom(x, "body", C["body"], "shell")
    /\ C["face"] = RefsFrom(x, "shell", C["shell"], "face")
    /\ C["edge"] = RefsFrom(x, "body", C["body"], "edge") \cup RefsFrom(x, "face", C["face"], "edge")
    /\ C["vertex"] = RefsFrom(x, "body", C["body"], "vertex") \cup RefsFrom(x, "edge", C["edge"], "vertex")

\* C holds what resolves of what is reached from the body.
Resolved(x, C, body) ==
    /\ C["body"] = {body}
    /\ C["shell"] = Resolving(x, "shell", RefsFrom(x, "body", C["body"], "shell"))
    /\ C["face"] = Resolving(x, "face", RefsFrom(x, "shell", C["shell"], "face"))
    /\ C["edge"] = Resolving(x, "edge", RefsFrom(x, "body", C["body"], "edge") \cup
                                        RefsFrom(x, "face", C["face"], "edge"))
    /\ C["vertex"] = Resolving(x, "vertex", RefsFrom(x, "body", C["body"], "vertex") \cup
                                            RefsFrom(x, "edge", C["edge"], "vertex"))

\* The closure, by the references.
LEMMA ClosureByRefs ==
    ASSUME NEW x, NEW body
    PROVE  Resolved(x, Closure(x, body), body)
<1> DEFINE C == Closure(x, body)
           b == Get(x, "body", body)
<1>k. /\ "vertex" \in Kinds /\ "edge" \in Kinds /\ "face" \in Kinds
      /\ "shell" \in Kinds /\ "body" \in Kinds
  BY DEF Kinds
<1>1. /\ C["body"] = {body}
      /\ C["shell"] = Resolving(x, "shell", ToSet(b.shells))
      /\ C["face"] = Resolving(x, "face", UNION {ToSet(Get(x, "shell", s)) : s \in C["shell"]})
      /\ C["edge"] = Resolving(x, "edge", ToSet(b.edges) \cup
                        UNION {EdgesOf(Get(x, "face", f)) : f \in C["face"]})
      /\ C["vertex"] = Resolving(x, "vertex", ToSet(b.verts) \cup
                        UNION {{Get(x, "edge", e).start, Get(x, "edge", e).end} : e \in C["edge"]})
  BY DEF Closure
<1>2. /\ References("body", b)["shell"] = ToSet(b.shells)
      /\ References("body", b)["edge"] = ToSet(b.edges)
      /\ References("body", b)["vertex"] = ToSet(b.verts)
  BY <1>k, ReferencesOf
<1> HIDE DEF C
<1>3. \A k : RefsFrom(x, "body", C["body"], k) = References("body", b)[k]
  BY <1>1 DEF RefsFrom
<1>4. \A S : RefsFrom(x, "shell", S, "face") = UNION {ToSet(Get(x, "shell", s)) : s \in S}
  <2>1. \A v : References("shell", v)["face"] = ToSet(v)
    BY <1>k, ReferencesOf
  <2> QED
    BY <2>1 DEF RefsFrom
<1>5. \A S : RefsFrom(x, "face", S, "edge") = UNION {EdgesOf(Get(x, "face", f)) : f \in S}
  <2>1. \A v : References("face", v)["edge"] = EdgesOf(v)
    BY <1>k, ReferencesOf
  <2> QED
    BY <2>1 DEF RefsFrom
<1>6. \A S : RefsFrom(x, "edge", S, "vertex") =
               UNION {{Get(x, "edge", e).start, Get(x, "edge", e).end} : e \in S}
  <2>1. \A v : References("edge", v)["vertex"] = {v.start, v.end}
    BY <1>k, ReferencesOf
  <2> QED
    BY <2>1 DEF RefsFrom
<1> HIDE DEF b
<1>7. C["shell"] = Resolving(x, "shell", RefsFrom(x, "body", C["body"], "shell"))
  BY <1>1, <1>2, <1>3
<1>8. C["face"] = Resolving(x, "face", RefsFrom(x, "shell", C["shell"], "face"))
  BY <1>1, <1>4
<1>9. C["edge"] = Resolving(x, "edge", RefsFrom(x, "body", C["body"], "edge") \cup
                                       RefsFrom(x, "face", C["face"], "edge"))
  BY <1>1, <1>2, <1>3, <1>5
<1>10. C["vertex"] = Resolving(x, "vertex", RefsFrom(x, "body", C["body"], "vertex") \cup
                                            RefsFrom(x, "edge", C["edge"], "vertex"))
  BY <1>1, <1>2, <1>3, <1>6
<1>11. Resolved(x, C, body)
  BY <1>1, <1>7, <1>8, <1>9, <1>10 DEF Resolved
<1> QED
  BY <1>11 DEF C

Complete(x, C) == \A kind \in Kinds : WholeIn(x, C, kind)

LEMMA WholeIsReached ==
    ASSUME NEW x, NEW body, NEW C, Resolved(x, C, body), Complete(x, C)
    PROVE  Reached(x, C, body)
<1> DEFINE F(kind, k) == RefsFrom(x, kind, C[kind], k)
           R(k, S) == Resolving(x, k, S)
<1>1. /\ C["body"] = {body}
      /\ C["shell"] = R("shell", F("body", "shell"))
      /\ C["face"] = R("face", F("shell", "face"))
      /\ C["edge"] = R("edge", F("body", "edge") \cup F("face", "edge"))
      /\ C["vertex"] = R("vertex", F("body", "vertex") \cup F("edge", "vertex"))
  BY DEF Resolved
<1>2. \A kind \in Kinds : \A k \in Kinds : F(kind, k) \subseteq C[k]
  BY DEF Complete, WholeIn, RefsFrom
<1>3. \A k, S : R(k, S) \subseteq S
  BY DEF Resolving
<1>k. /\ "vertex" \in Kinds /\ "edge" \in Kinds /\ "face" \in Kinds
      /\ "shell" \in Kinds /\ "body" \in Kinds
  BY DEF Kinds
<1>s. /\ F("body", "shell") \subseteq C["shell"]
      /\ F("shell", "face") \subseteq C["face"]
      /\ F("body", "edge") \subseteq C["edge"]
      /\ F("face", "edge") \subseteq C["edge"]
      /\ F("body", "vertex") \subseteq C["vertex"]
      /\ F("edge", "vertex") \subseteq C["vertex"]
  BY <1>2, <1>k
<1>r. /\ R("shell", F("body", "shell")) \subseteq F("body", "shell")
      /\ R("face", F("shell", "face")) \subseteq F("shell", "face")
      /\ R("edge", F("body", "edge") \cup F("face", "edge")) \subseteq F("body", "edge") \cup F("face", "edge")
      /\ R("vertex", F("body", "vertex") \cup F("edge", "vertex"))
           \subseteq F("body", "vertex") \cup F("edge", "vertex")
  BY <1>3
<1> HIDE DEF F, R
<1>4. C["shell"] = F("body", "shell")
  BY <1>1, <1>s, <1>r
<1>5. C["face"] = F("shell", "face")
  BY <1>1, <1>s, <1>r
<1>6. C["edge"] = F("body", "edge") \cup F("face", "edge")
  BY <1>1, <1>s, <1>r
<1>7. C["vertex"] = F("body", "vertex") \cup F("edge", "vertex")
  BY <1>1, <1>s, <1>r
<1> QED
  BY <1>1, <1>4, <1>5, <1>6, <1>7 DEF Reached, F

\* What is reached and live is the closure.
LEMMA ReachedIsClosure ==
    ASSUME NEW y, NEW body, NEW D, Reached(y, D, body),
           \A kind \in Kinds : D[kind] \subseteq LiveOf(y, kind)
    PROVE  \A kind \in Kinds : Closure(y, body)[kind] = D[kind]
<1> DEFINE C == Closure(y, body)
<1>1. /\ C["body"] = {body}
      /\ C["shell"] = Resolving(y, "shell", RefsFrom(y, "body", C["body"], "shell"))
      /\ C["face"] = Resolving(y, "face", RefsFrom(y, "shell", C["shell"], "face"))
      /\ C["edge"] = Resolving(y, "edge", RefsFrom(y, "body", C["body"], "edge") \cup
                                          RefsFrom(y, "face", C["face"], "edge"))
      /\ C["vertex"] = Resolving(y, "vertex", RefsFrom(y, "body", C["body"], "vertex") \cup
                                              RefsFrom(y, "edge", C["edge"], "vertex"))
  BY ClosureByRefs DEF Resolved
<1>k. /\ "vertex" \in Kinds /\ "edge" \in Kinds /\ "face" \in Kinds
      /\ "shell" \in Kinds /\ "body" \in Kinds
  BY DEF Kinds
<1>2. \A kind \in Kinds : Resolving(y, kind, D[kind]) = D[kind]
  <2> SUFFICES ASSUME NEW kind \in Kinds PROVE Resolving(y, kind, D[kind]) = D[kind]
    OBVIOUS
  <2>1. \A id \in D[kind] : Has(y, kind, id)
    BY LiveResolves
  <2> QED
    BY <2>1 DEF Resolving
<1>3. /\ D["body"] = {body}
      /\ D["shell"] = RefsFrom(y, "body", D["body"], "shell")
      /\ D["face"] = RefsFrom(y, "shell", D["shell"], "face")
      /\ D["edge"] = RefsFrom(y, "body", D["body"], "edge") \cup RefsFrom(y, "face", D["face"], "edge")
      /\ D["vertex"] = RefsFrom(y, "body", D["body"], "vertex") \cup RefsFrom(y, "edge", D["edge"], "vertex")
  BY DEF Reached
<1> HIDE DEF C
<1>4. C["body"] = D["body"]
  BY <1>1, <1>3
<1>5. C["shell"] = D["shell"]
  BY <1>1, <1>2, <1>3, <1>4, <1>k
<1>6. C["face"] = D["face"]
  BY <1>1, <1>2, <1>3, <1>5, <1>k
<1>7. C["edge"] = D["edge"]
  BY <1>1, <1>2, <1>3, <1>4, <1>6, <1>k
<1>8. C["vertex"] = D["vertex"]
  BY <1>1, <1>2, <1>3, <1>4, <1>7, <1>k
<1> QED
  BY <1>4, <1>5, <1>6, <1>7, <1>8, KindCases DEF C

\* What is reached from the copy of the body is the copies of what is reached.
LEMMA ImageIsReached ==
    ASSUME NEW x, Typed(x), NEW body, NEW C, Reached(x, C, body), NEW t, NEW st,
           Copies(st, t, x), \A kind \in Kinds : DOMAIN st.map[kind] = C[kind],
           NEW D, \A kind \in Kinds : D[kind] = Image(st.map[kind], C[kind])
    PROVE  Reached(st.m, D, st.map["body"][body])
<1> DEFINE y == st.m
           f == st.map
<1>1. \A kind \in Kinds : CopiesOf(y, f, t, x, kind)
  BY DEF Copies
<1>2. /\ \A kind \in Kinds : C[kind] \subseteq LiveOf(x, kind)
      /\ MapsIds(f)
  <2>1. \A kind \in Kinds : LiveOf(y, kind) \subseteq Ids
    BY LiveAreIds DEF Copies, GrownFrom, Hale
  <2>2. \A kind \in Kinds : Image(f[kind], DOMAIN f[kind]) \subseteq Ids
    BY <1>1, <2>1 DEF CopiesOf
  <2> QED
    BY <1>1, <2>2 DEF CopiesOf, MapsIds, Image
<1>3. ASSUME NEW kind \in Kinds, NEW id \in C[kind], NEW k \in Kinds
      PROVE  References(kind, Get(y, kind, f[kind][id]))[k]
             = Image(f[k], References(kind, Get(x, kind, id))[k])
  <2> DEFINE v == Get(x, kind, id)
             w == Translated(f, kind, v)
  <2>1. /\ Get(y, kind, f[kind][id]) = w
        /\ Known(f, kind, v)
    BY <1>1 DEF CopiesOf
  <2>2. v \in Values(kind)
    BY <1>2, LiveAreIds
  <2> HIDE DEF v, w, f, y
  <2>3. References(kind, w)[k] = Image(f[k], References(kind, v)[k])
    BY <1>2, <2>1, <2>2, TranslatedIs DEF w
  <2> QED
    BY <2>1, <2>3 DEF v
<1> HIDE DEF y, f
<1>4. ASSUME NEW kind \in Kinds, NEW k \in Kinds
      PROVE  RefsFrom(y, kind, D[kind], k) = Image(f[k], RefsFrom(x, kind, C[kind], k))
  <2>1. D[kind] = {f[kind][id] : id \in C[kind]}
    BY DEF Image, f
  <2>2. RefsFrom(y, kind, D[kind], k) =
          UNION {References(kind, Get(y, kind, f[kind][id]))[k] : id \in C[kind]}
    BY <2>1 DEF RefsFrom
  <2>3. RefsFrom(y, kind, D[kind], k) =
          UNION {Image(f[k], References(kind, Get(x, kind, id))[k]) : id \in C[kind]}
    BY <1>3, <2>2
  <2> QED
    BY <2>3 DEF RefsFrom, Image
<1>5. \A g, A, B : Image(g, A \cup B) = Image(g, A) \cup Image(g, B)
  BY DEF Image
<1>k. /\ "vertex" \in Kinds /\ "edge" \in Kinds /\ "face" \in Kinds
      /\ "shell" \in Kinds /\ "body" \in Kinds
  BY DEF Kinds
<1>6. /\ C["body"] = {body}
      /\ C["shell"] = RefsFrom(x, "body", C["body"], "shell")
      /\ C["face"] = RefsFrom(x, "shell", C["shell"], "face")
      /\ C["edge"] = RefsFrom(x, "body", C["body"], "edge") \cup RefsFrom(x, "face", C["face"], "edge")
      /\ C["vertex"] = RefsFrom(x, "body", C["body"], "vertex") \cup RefsFrom(x, "edge", C["edge"], "vertex")
  BY DEF Reached
<1>7. \A kind \in Kinds : D[kind] = Image(f[kind], C[kind])
  BY DEF f
<1>8. D["body"] = {f["body"][body]}
  BY <1>6, <1>7, <1>k DEF Image
<1>9. D["shell"] = RefsFrom(y, "body", D["body"], "shell")
  BY <1>4, <1>6, <1>7, <1>k
<1>10. D["face"] = RefsFrom(y, "shell", D["shell"], "face")
  BY <1>4, <1>6, <1>7, <1>k
<1>11. D["edge"] = RefsFrom(y, "body", D["body"], "edge") \cup RefsFrom(y, "face", D["face"], "edge")
  <2> DEFINE A == RefsFrom(x, "body", C["body"], "edge")
             B == RefsFrom(x, "face", C["face"], "edge")
  <2>1. C["edge"] = A \cup B
    BY <1>6
  <2>2. /\ RefsFrom(y, "body", D["body"], "edge") = Image(f["edge"], A)
        /\ RefsFrom(y, "face", D["face"], "edge") = Image(f["edge"], B)
    BY <1>4, <1>k
  <2>3. D["edge"] = Image(f["edge"], C["edge"])
    BY <1>7, <1>k
  <2> HIDE DEF A, B
  <2> QED
    BY <1>5, <2>1, <2>2, <2>3
<1>12. D["vertex"] = RefsFrom(y, "body", D["body"], "vertex") \cup RefsFrom(y, "edge", D["edge"], "vertex")
  <2> DEFINE A == RefsFrom(x, "body", C["body"], "vertex")
             B == RefsFrom(x, "edge", C["edge"], "vertex")
  <2>1. C["vertex"] = A \cup B
    BY <1>6
  <2>2. /\ RefsFrom(y, "body", D["body"], "vertex") = Image(f["vertex"], A)
        /\ RefsFrom(y, "edge", D["edge"], "vertex") = Image(f["vertex"], B)
    BY <1>4, <1>k
  <2>3. D["vertex"] = Image(f["vertex"], C["vertex"])
    BY <1>7, <1>k
  <2> HIDE DEF A, B
  <2> QED
    BY <1>5, <2>1, <2>2, <2>3
<1> QED
  BY <1>8, <1>9, <1>10, <1>11, <1>12 DEF Reached, y, f

-----------------------------------------------------------------------------
(***************************************************************************)
(* What an import returns.                                                 *)
(***************************************************************************)

\* What a copy is of the closure `old`, and `new` the closure of the copy.
DeepCopy(r, t, old, new) ==
    /\ \A kind \in Kinds :
         /\ DOMAIN r.map[kind] = old[kind]
         /\ new[kind] = {r.map[kind][id] : id \in old[kind]}
         /\ Cardinality(new[kind]) = Cardinality(old[kind])
         /\ \A id \in new[kind] : ~ Has(t, kind, id)
         /\ \A id \in LiveOf(t, kind) :
              Has(r.m, kind, id) /\ Get(r.m, kind, id) = Get(t, kind, id)
    /\ EdgesListed(r.m) /\ UsesListed(r.m) /\ ShellsListed(r.m)

\* A map that joins no two is a count of its image.
LEMMA ImageCounts ==
    ASSUME NEW f, NEW S, IsFiniteSet(S), DOMAIN f = S,
           \A a, b \in DOMAIN f : f[a] = f[b] => a = b
    PROVE  Cardinality(Image(f, S)) = Cardinality(S)
<1> DEFINE g == [a \in S |-> f[a]]
           I == Image(f, S)
<1>1. g \in [S -> I] /\ \A b \in I : \E a \in S : g[a] = b
  BY DEF Image
<1>2. \A a, b \in S : g[a] = g[b] => a = b
  OBVIOUS
<1> HIDE DEF g, I
<1>3. g \in Bijection(S, I)
  BY <1>1, <1>2, Fun_IsBij
<1>4. Cardinality(S) = Cardinality(I)
  BY <1>3, FS_Bijection DEF ExistsBijection
<1> QED
  BY <1>4 DEF I

\* What was there before stands as it stood.
LEMMA OldStands ==
    ASSUME NEW y, NEW t, GrownFrom(y, t), NEW kind \in Kinds, NEW id \in LiveOf(t, kind)
    PROVE  Has(y, kind, id) /\ Get(y, kind, id) = Get(t, kind, id)
<1>1. /\ IsArena(y[kind], Values(kind)) /\ IsArena(t[kind], Values(kind))
      /\ Extends(y[kind], t[kind])
  BY DEF GrownFrom, Hale, Typed, Grown
<1>2. id \in LiveIds(t[kind])
  BY DEF LiveOf
<1>3. id \in LiveIds(y[kind]) /\ y[kind].val[id.slot] = t[kind].val[id.slot]
  BY <1>1, <1>2, ExtendsLive
<1> QED
  BY <1>3, LiveResolves DEF LiveOf, Get

\* A copy that met no unknown reference is a copy of the whole closure.
LEMMA CopyIsDeep ==
    ASSUME NEW x, Typed(x), NEW t, NEW body, NEW st,
           Stage(st, t, x, Closure(x, body), Kinds), st.found
    PROVE  DeepCopy(st, t, Closure(x, body), Closure(st.m, st.map["body"][body]))
<1> DEFINE C == Closure(x, body)
           D == [kind \in Kinds |-> Image(st.map[kind], C[kind])]
           top == st.map["body"][body]
           new == Closure(st.m, top)
<1>1. /\ Copies(st, t, x)
      /\ Complete(x, C)
      /\ \A kind \in Kinds : DOMAIN st.map[kind] = C[kind]
  BY DEF Stage, Complete
<1>2. Resolved(x, C, body)
  BY ClosureByRefs
<1> HIDE DEF C
<1>3. Reached(x, C, body)
  BY <1>1, <1>2, WholeIsReached
<1>4. \A kind \in Kinds : D[kind] = Image(st.map[kind], C[kind])
  OBVIOUS
<1> HIDE DEF D
<1>5. Reached(st.m, D, top)
  BY <1>1, <1>3, <1>4, ImageIsReached
<1>6. /\ \A kind \in Kinds : CopiesOf(st.m, st.map, t, x, kind)
      /\ GrownFrom(st.m, t)
      /\ Hale(st.m) /\ Hale(t) /\ Typed(st.m) /\ Typed(t) /\ Indexed(st.m)
  BY <1>1 DEF Copies, GrownFrom, Hale
<1>7. \A kind \in Kinds : D[kind] \subseteq LiveOf(st.m, kind)
  BY <1>1, <1>4, <1>6 DEF CopiesOf
<1> HIDE DEF top
<1>8. \A kind \in Kinds : new[kind] = D[kind]
  BY <1>5, <1>7, ReachedIsClosure
<1> HIDE DEF new
<1>9. ASSUME NEW kind \in Kinds
      PROVE  /\ DOMAIN st.map[kind] = C[kind]
             /\ new[kind] = {st.map[kind][id] : id \in C[kind]}
             /\ Cardinality(new[kind]) = Cardinality(C[kind])
             /\ \A id \in new[kind] : ~ Has(t, kind, id)
             /\ \A id \in LiveOf(t, kind) :
                  Has(st.m, kind, id) /\ Get(st.m, kind, id) = Get(t, kind, id)
  <2>1. /\ DOMAIN st.map[kind] = C[kind]
        /\ new[kind] = Image(st.map[kind], C[kind])
        /\ new[kind] \subseteq LiveOf(st.m, kind)
        /\ CopiesOf(st.m, st.map, t, x, kind)
    BY <1>1, <1>4, <1>6, <1>7, <1>8
  <2>2. IsFiniteSet(C[kind])
    <3>1. C[kind] \subseteq LiveOf(x, kind)
      BY <2>1 DEF CopiesOf
    <3> QED
      BY <3>1, LiveFinite, FS_Subset
  <2>3. Cardinality(new[kind]) = Cardinality(C[kind])
    <3>1. \A a, b \in DOMAIN st.map[kind] : st.map[kind][a] = st.map[kind][b] => a = b
      BY <2>1 DEF CopiesOf
    <3> QED
      BY <2>1, <2>2, <3>1, ImageCounts
  <2>4. \A id \in new[kind] : ~ Has(t, kind, id)
    <3>1. \A id \in new[kind] : id \notin LiveOf(t, kind)
      BY <2>1 DEF CopiesOf, Image
    <3>2. \A id \in new[kind] : id \in Ids
      BY <1>6, <2>1, LiveAreIds
    <3> QED
      BY <1>6, <3>1, <3>2, LiveAreIds
  <2>5. \A id \in LiveOf(t, kind) :
           Has(st.m, kind, id) /\ Get(st.m, kind, id) = Get(t, kind, id)
    BY <1>6, OldStands
  <2> QED
    BY <2>1, <2>3, <2>4, <2>5 DEF Image
<1>10. EdgesListed(st.m) /\ UsesListed(st.m) /\ ShellsListed(st.m)
  BY <1>6, EdgesAreListed, UsesAreListed, ShellsAreListed DEF ShellsListed
<1>11. DeepCopy(st, t, C, new)
  BY <1>9, <1>10 DEF DeepCopy
<1> QED
  BY <1>11 DEF C, new, top

\* The call fails exactly when the closure refers to something outside itself,
\* and gives the model back as it was; else it made a deep copy.
LEMMA ImportIs ==
    ASSUME NEW x, Typed(x), NEW t, Hale(t), NEW body \in LiveOf(x, "body"),
           NEW r, r = ImportBody(t, x, body)
    PROVE  /\ r.found = Complete(x, Closure(x, body))
           /\ ~ r.found => SameModel(r.m, t)
           /\ r.found => DeepCopy(r, t, Closure(x, body), Closure(r.m, r.map["body"][body]))
           /\ r.found => Stage(r, t, x, Closure(x, body), Kinds)
<1> DEFINE st == Copied(t, x, body)
           C == Closure(x, body)
<1>1. Stage(st, t, x, C, Kinds)
  BY CopiedIs
<1>2. r = IF st.found THEN st
          ELSE [m |-> RollbackModel(st.m, MarksOf(t)), map |-> EmptyIdMap, found |-> FALSE]
  BY DEF ImportBody
<1>3. st.found \in BOOLEAN /\ GrownFrom(st.m, t)
  BY <1>1 DEF Stage, Copies
<1>4. st.found <=> Complete(x, C)
  BY <1>1 DEF Stage, Complete
<1>5. st.found => DeepCopy(st, t, C, Closure(st.m, st.map["body"][body]))
  BY <1>1, CopyIsDeep
<1>6. SameModel(RollbackModel(st.m, MarksOf(t)), t)
  BY <1>3, RollbackSame DEF GrownFrom, Hale
<1> HIDE DEF st, C
<1>7. CASE st.found
  <2>1. r = st
    BY <1>2, <1>7
  <2>2. Complete(x, C) \in BOOLEAN
    BY DEF Complete
  <2> QED
    BY <1>1, <1>3, <1>4, <1>5, <1>7, <2>1, <2>2 DEF C
<1>8. CASE ~ st.found
  <2>1. r.m = RollbackModel(st.m, MarksOf(t)) /\ r.found = FALSE
    BY <1>2, <1>8
  <2>2. Complete(x, C) \in BOOLEAN
    BY DEF Complete
  <2> QED
    BY <1>4, <1>6, <1>8, <2>1, <2>2 DEF C
<1> QED
  BY <1>3, <1>7, <1>8

\* Into a fresh model, the ids run from zero in the order of the old ones.
LEMMA FreshIsDense ==
    ASSUME NEW x, Typed(x), NEW body, NEW r,
           Stage(r, EmptyModel, x, Closure(x, body), Kinds), r.found, NEW kind \in Kinds
    PROVE  /\ LiveOf(r.m, kind) =
                {[slot |-> k - 1, gen |-> 0] : k \in 1 .. Cardinality(Closure(x, body)[kind])}
           /\ \A a, b \in Closure(x, body)[kind] :
                a.slot < b.slot => r.map[kind][a].slot < r.map[kind][b].slot
<1> DEFINE C == Closure(x, body)[kind]
           ids == SlotOrder(C)
           N == Cardinality(C)
           f == r.map[kind]
           at(i) == [slot |-> i - 1, gen |-> 0]
<1>1. /\ CopiesOf(r.m, r.map, EmptyModel, x, kind)
      /\ DOMAIN f = C
      /\ \A i \in 1 .. N : f[ids[i]] = at(i)
  BY DEF Stage, Copies, Dense
<1>2. LiveOf(EmptyModel, kind) = {}
  BY KindsAreFields DEF LiveOf, LiveIds, Occupied, EmptyModel, EmptyArena, EmptyFun
<1>3. C \in SUBSET Ids /\ IsFiniteSet(C)
  <2>1. C \subseteq LiveOf(x, kind)
    BY <1>1 DEF CopiesOf
  <2> QED
    BY <2>1, LiveAreIds, LiveFinite, FS_Subset
<1>4. /\ Enumerates(ids, C) /\ Len(ids) = N
      /\ \A i, j \in 1 .. N : i < j => ids[i].slot <= ids[j].slot
  BY <1>3, SlotOrderLists
<1>5. /\ \A i \in 1 .. N : ids[i] \in C
      /\ \A id \in C : \E i \in 1 .. N : ids[i] = id
      /\ N \in Nat
  <2>1. ids \in Seq(C) /\ \A id \in C : \E i \in 1 .. Len(ids) : ids[i] = id
    BY <1>4 DEF Enumerates
  <2> HIDE DEF ids, N, C
  <2> QED
    BY <1>4, <2>1, ElementOfSeq, LenProperties
<1>6. \A id \in C : id.slot \in Nat
  BY <1>3 DEF Ids
<1>7. LiveOf(r.m, kind) = {f[id] : id \in C}
  BY <1>1, <1>2 DEF CopiesOf, Image
<1>a. \A i : at(i).slot = i - 1
  OBVIOUS
<1> HIDE DEF C, ids, N, f, at
<1>8. {f[id] : id \in C} = {at(i) : i \in 1 .. N}
  <2>1. ASSUME NEW id \in C PROVE f[id] \in {at(i) : i \in 1 .. N}
    BY <1>1, <1>5
  <2>2. ASSUME NEW i \in 1 .. N PROVE at(i) \in {f[id] : id \in C}
    BY <1>1, <1>5
  <2> QED
    BY <2>1, <2>2
<1>9. ASSUME NEW a \in C, NEW b \in C, a.slot < b.slot
      PROVE  f[a].slot < f[b].slot
  <2>1. PICK i \in 1 .. N : ids[i] = a
    BY <1>5
  <2>2. PICK j \in 1 .. N : ids[j] = b
    BY <1>5
  <2>3. f[a].slot = i - 1 /\ f[b].slot = j - 1
    BY <1>1, <1>a, <2>1, <2>2
  <2>4. ~ (j <= i)
    <3>1. j < i => b.slot <= a.slot
      BY <1>4, <2>1, <2>2
    <3>2. a.slot \in Nat /\ b.slot \in Nat
      BY <1>6
    <3>3. j = i => a = b
      BY <2>1, <2>2
    <3> QED
      BY <1>5, <1>9, <2>1, <2>2, <3>1, <3>2, <3>3
  <2> QED
    BY <1>5, <2>1, <2>2, <2>3, <2>4
<1> QED
  BY <1>7, <1>8, <1>9 DEF C, N, f, at

LEMMA TargetsAreHale ==
    ASSUME IndexInv, NEW t \in Targets
    PROVE  Hale(t)
<1>1. CASE t = m
  BY <1>1 DEF IndexInv, ShapeInv, Hale
<1>2. CASE t = EmptyModel
  BY <1>2, HaleEmpty
<1>3. CASE t \in ToSet(txs)
  <2>1. PICK k \in DOMAIN txs : t = txs[k]
    BY <1>3 DEF ToSet
  <2> QED
    BY <2>1 DEF IndexInv, ShapeInv, Hale
<1> QED
  BY <1>1, <1>2, <1>3 DEF Targets

LEMMA EachImport ==
    ASSUME IndexInv, NEW i \in Imports
    PROVE  /\ Result(i).found = Whole(m, i.body)
           /\ ~ Result(i).found => SameModel(Result(i).m, i.into)
           /\ Result(i).found =>
                DeepCopy(Result(i), i.into, Closure(m, i.body),
                         Closure(Result(i).m, Result(i).map["body"][i.body]))
<1> DEFINE r == Result(i)
<1>1. /\ i.into \in Targets /\ i.body \in LiveOf(m, "body")
  BY DEF Imports
<1>2. Hale(i.into) /\ Typed(m)
  BY <1>1, TargetsAreHale DEF IndexInv, ShapeInv
<1>3. r = ImportBody(i.into, m, i.body)
  BY DEF Result
<1> HIDE DEF r
<1>4. /\ r.found = Complete(m, Closure(m, i.body))
      /\ ~ r.found => SameModel(r.m, i.into)
      /\ r.found => DeepCopy(r, i.into, Closure(m, i.body), Closure(r.m, r.map["body"][i.body]))
  BY <1>1, <1>2, <1>3, ImportIs
<1>5. Complete(m, Closure(m, i.body)) = Whole(m, i.body)
  BY DEF Complete, WholeIn, Whole
<1> QED
  BY <1>4, <1>5 DEF r

\* An import appends the whole closure of the body or, when the closure refers
\* to something outside itself, nothing: the error leaves the model and its
\* index lists as they were, whatever holes they had and however much of the
\* closure had been copied when the reference turned up.
THEOREM ImportsAreAllOrNothing ==
    ASSUME ShapesRefer, ~ RetainInTx
    PROVE  Spec => []ImportIsAllOrNothing
<1>1. IndexInv => ImportIsAllOrNothing
  BY EachImport DEF ImportIsAllOrNothing
<1> QED
  BY <1>1, IndexInit, IndexNext, PTL DEF Spec

LEMMA ImportsHold ==
    ASSUME IndexInv
    PROVE  ImportIsADeepCopy
<1>1. CopiesTheClosure
  BY EachImport DEF CopiesTheClosure, DeepCopy
<1>2. ASSUME NEW body \in LiveOf(m, "body"), NEW r, r = ImportBody(EmptyModel, m, body), r.found
      PROVE  \A kind \in Kinds :
              /\ LiveOf(r.m, kind) =
                   {[slot |-> k - 1, gen |-> 0] : k \in 1 .. Cardinality(Closure(m, body)[kind])}
              /\ \A x, y \in Closure(m, body)[kind] :
                   x.slot < y.slot => r.map[kind][x].slot < r.map[kind][y].slot
  <2>1. Typed(m)
    BY DEF IndexInv, ShapeInv
  <2>2. Stage(r, EmptyModel, m, Closure(m, body), Kinds)
    BY <1>2, <2>1, HaleEmpty, ImportIs
  <2> QED
    BY <1>2, <2>1, <2>2, FreshIsDense
<1>3. FreshImportIsDense
  BY <1>2 DEF FreshImportIsDense
<1> QED
  BY <1>1, <1>3 DEF ImportIsADeepCopy

\* An import that returns Ok made a copy of the closure, no more and no less:
\* the map joins no two ids, every id of the copy is new, what stood in the
\* model stands as it stood and the index lists take in the copy; into a fresh
\* model the ids run from zero without a gap, in the order of the old ones.
THEOREM ImportsAreDeepCopies ==
    ASSUME ShapesRefer, ~ RetainInTx
    PROVE  Spec => []ImportIsADeepCopy
<1> QED
  BY ImportsHold, IndexInit, IndexNext, PTL DEF Spec
=============================================================================
