------------------------------ MODULE Assembly -----------------------------
(***************************************************************************)
(* The builder's two doors to the model (crates/arris-topo/src/builder.rs):*)
(* `assemble`, which makes a builder of specs that keep arena entities or  *)
(* describe new ones, and `finish`, which freezes a builder into the arena.*)
(*                                                                         *)
(* A store `m` is the model as far as they read it; an id is a position:   *)
(*   vertices  how many there are                                          *)
(*   edges     <<[start, end, deg], ...>>                                  *)
(*   faces     <<[surf, loops], ...>>   a loop is a sequence of uses in    *)
(*             stored order, counter-clockwise about the surface's normal  *)
(*   shells    <<<<[id, dir], ...>>, ...>>                                 *)
(*   bodies    <<<<shell id, ...>>, ...>>                                  *)
(* An assembly is [vertices, edges, shells]: specs [keep |-> id] or        *)
(* [keep |-> 0, ...]; a key [kept |-> id, new |-> 0] names an arena entity *)
(* and [kept |-> 0, new |-> i] the assembly's i-th spec.                   *)
(***************************************************************************)
EXTENDS EulerOps

EmptyStore == [vertices |-> 0, edges |-> <<>>, faces |-> <<>>, shells |-> <<>>,
               bodies |-> <<>>]

\* `effective_uses`, its own inverse: stored order to effective order or back.
FlipUse(u) == [u EXCEPT !.dir = 1 - @]
EffectiveKeepsOrder(dir, uses) ==    \* mutant: flipped, but not backwards
    IF dir = FORWARD THEN uses ELSE [k \in DOMAIN uses |-> FlipUse(uses[k])]
Effective(dir, uses) ==
    IF dir = FORWARD THEN uses
    ELSE [k \in DOMAIN uses |-> FlipUse(uses[Len(uses) + 1 - k])]

-----------------------------------------------------------------------------
(* finish                                                                  *)

UsesWanted(edge) == IF edge.deg THEN 1 ELSE 2
FullUses(b) == UNION {UNION {ToSet(LoopsOf(b, f)[li].uses) :
                              li \in DOMAIN LoopsOf(b, f)} : f \in LiveSlots(b.f)}
EdgesWellUsed(b) ==
    \A e \in LiveSlots(b.e) :
        /\ Cardinality(UsesOf(b, e)) = UsesWanted(b.e.at[e])
        /\ Cardinality(UsesOf(b, e)) = 2 => UsedBothWays(b, e)
NoEmptyLoop(b) ==
    \A f \in LiveSlots(b.f) : \A li \in DOMAIN LoopsOf(b, f) :
        LoopsOf(b, f)[li].uses # <<>>
CanFinish(b) ==
    /\ LiveSlots(b.f) # {}
    /\ NoEmptyLoop(b)
    /\ \A u \in FullUses(b) : u.pc # <<>>
    /\ EdgesWellUsed(b)

\* The arena id a slot gets: its own when kept, else the next of its kind.
Ascending(S) == [k \in 1 .. Cardinality(S) |->
                 CHOOSE x \in S : Cardinality({y \in S : y < x}) = k - 1]
Appended(p) == {s \in LiveSlots(p) : p.at[s].kept = 0}
AppendOrder(p) == Ascending(Appended(p))
IdIn(p, n, s) == IF p.at[s].kept # 0 THEN p.at[s].kept
                 ELSE n + Cardinality({t \in Appended(p) : t <= s})
Finish(m, b) ==
    LET vid(s) == IdIn(b.v, m.vertices, s)
        eid(s) == IdIn(b.e, Len(m.edges), s)
        fid(s) == IdIn(b.f, Len(m.faces), s)
        edge(s) == [start |-> vid(b.e.at[s].start), end |-> vid(b.e.at[s].end),
                    deg |-> b.e.at[s].deg]
        stored(s, l) == Effective(b.f.at[s].dir,
                           [k \in DOMAIN l.uses |-> [l.uses[k] EXCEPT !.edge = eid(@)]])
        face(s) == [surf |-> b.f.at[s].surf,
                    loops |-> [li \in DOMAIN LoopsOf(b, s) |->
                                 stored(s, LoopsOf(b, s)[li])]]
        numbers == Ascending({b.f.at[s].shell : s \in LiveSlots(b.f)})
        of(n) == Ascending({s \in LiveSlots(b.f) : b.f.at[s].shell = n})
        shell(n) == [k \in DOMAIN of(n) |-> [id |-> fid(of(n)[k]),
                                             dir |-> b.f.at[of(n)[k]].dir]]
        es == AppendOrder(b.e)
        fs == AppendOrder(b.f)
    IN  [vertices |-> m.vertices + Cardinality(Appended(b.v)),
         edges  |-> m.edges \o [k \in DOMAIN es |-> edge(es[k])],
         faces  |-> m.faces \o [k \in DOMAIN fs |-> face(fs[k])],
         shells |-> m.shells \o [k \in DOMAIN numbers |-> shell(numbers[k])],
         bodies |-> Append(m.bodies,
                       [k \in DOMAIN numbers |-> Len(m.shells) + k])]

-----------------------------------------------------------------------------
(* assemble.  `s` threads the builder, the slots of the vertex and edge    *)
(* specs so far, and whether a spec was refused.                           *)

Refused(s) == [s EXCEPT !.ok = FALSE]
KeptSlots(p, id) == {t \in LiveSlots(p) : p.at[t].kept = id}
SlotOf(p, id) == CHOOSE t \in KeptSlots(p, id) : TRUE

KeepVertex(s, id) ==
    IF KeptSlots(s.b.v, id) # {} THEN s
    ELSE [s EXCEPT !.b.v = Fill(@, [kept |-> id])]
KeepEdge(m, s, id) ==
    IF KeptSlots(s.b.e, id) # {} THEN s
    ELSE LET t == KeepVertex(KeepVertex(s, m.edges[id].start), m.edges[id].end)
         IN  [t EXCEPT !.b.e = Fill(@,
                 [start |-> SlotOf(t.b.v, m.edges[id].start),
                  end |-> SlotOf(t.b.v, m.edges[id].end),
                  deg |-> m.edges[id].deg, kept |-> id])]

AddVertexSpec(s, spec) ==
    IF spec.keep = 0
    THEN [s EXCEPT !.b.v = Fill(@, NewVertex), !.vs = Append(@, NewSlot(s.b.v))]
    ELSE IF KeptSlots(s.b.v, spec.keep) # {} THEN Refused(s)
    ELSE LET t == KeepVertex(s, spec.keep)
         IN  [t EXCEPT !.vs = Append(@, SlotOf(t.b.v, spec.keep))]

\* `vertex_key`, `edge_key`: a kept entity on its first mention, or a spec.
MentionVertex(s, key) ==
    IF key.kept # 0 THEN KeepVertex(s, key.kept)
    ELSE IF key.new \in DOMAIN s.vs THEN s ELSE Refused(s)
VertexSlot(s, key) == IF key.kept # 0 THEN SlotOf(s.b.v, key.kept) ELSE s.vs[key.new]
MentionEdge(m, s, key) ==
    IF key.kept # 0 THEN KeepEdge(m, s, key.kept)
    ELSE IF key.new \in DOMAIN s.es THEN s ELSE Refused(s)
EdgeSlot(s, key) == IF key.kept # 0 THEN SlotOf(s.b.e, key.kept) ELSE s.es[key.new]

AddEdgeSpec(m, s, spec) ==
    IF spec.keep # 0
    THEN IF KeptSlots(s.b.e, spec.keep) # {} THEN Refused(s)
         ELSE LET t == KeepEdge(m, s, spec.keep)
              IN  [t EXCEPT !.es = Append(@, SlotOf(t.b.e, spec.keep))]
    ELSE LET t == MentionVertex(MentionVertex(s, spec.start), spec.end)
         IN  IF ~ t.ok THEN t
             ELSE [t EXCEPT
                     !.b.e = Fill(@, NewEdge(VertexSlot(t, spec.start),
                                             VertexSlot(t, spec.end), spec.deg)),
                     !.es = Append(@, NewSlot(t.b.e))]

\* A loop of a face as a shell walks it.
WalkStored(m, use, li) == m.faces[use.id].loops[li]   \* mutant
Walk(m, use, li) == Effective(use.dir, m.faces[use.id].loops[li])

\* The uses of a face spec in effective order, each edge a key.
Kept(id) == [kept |-> id, new |-> 0]
New(i) == [kept |-> 0, new |-> i]
SpecLoops(m, spec) ==
    IF spec.keep = 0 THEN spec.loops
    ELSE LET walk(li) == Walk(m, [id |-> spec.keep, dir |-> spec.dir], li)
         IN  [li \in DOMAIN m.faces[spec.keep].loops |->
                [k \in DOMAIN walk(li) |-> [walk(li)[k] EXCEPT !.edge = Kept(@)]]]
AddFaceSpec(m, s, spec, shell) ==
    LET loops == SpecLoops(m, spec)
        t == FoldLeft(LAMBDA x, u : MentionEdge(m, x, u.edge), s, FlattenSeq(loops))
        staged(walk) == [k \in DOMAIN walk |->
                            [walk[k] EXCEPT !.edge = EdgeSlot(t, @)]]
        face == [surf |-> IF spec.keep = 0 THEN spec.surf ELSE m.faces[spec.keep].surf,
                 dir |-> spec.dir, shell |-> shell, kept |-> spec.keep,
                 loops |-> CanonicalLoops([li \in DOMAIN loops |->
                              Loop(staged(loops[li]), 0)])]
    IN  IF \/ spec.keep # 0 /\ KeptSlots(s.b.f, spec.keep) # {}
           \/ \E li \in DOMAIN loops : loops[li] = <<>>
           \/ ~ t.ok
        THEN Refused(s)
        ELSE [t EXCEPT !.b.f = Fill(@, face)]

\* `assembled_genus`: what assemble proves of the slots.
FacesIn(b, n) == {f \in LiveSlots(b.f) : b.f.at[f].shell = n}
EdgesIn(b, n) == {e \in LiveSlots(b.e) : \E u \in UsesOf(b, e) : b.f.at[u.face].shell = n}
VerticesIn(b, n) == UNION {{b.e.at[e].start, b.e.at[e].end} : e \in EdgesIn(b, n)}
LoopsIn(b, n) == UNION {{<<f, li>> : li \in DOMAIN LoopsOf(b, f)} : f \in FacesIn(b, n)}
ShellNumbers(b) == {b.f.at[f].shell : f \in LiveSlots(b.f)}

LoopsClose(b) ==
    \A f \in LiveSlots(b.f) : \A li \in DOMAIN LoopsOf(b, f) :
        LET uses == LoopsOf(b, f)[li].uses
        IN  \A k \in DOMAIN uses :
              EndOf(b, uses[k]) = StartOf(b, uses[(k % Len(uses)) + 1])
ShellsShareNothing(b) ==
    \A n, k \in ShellNumbers(b) : n # k =>
        /\ EdgesIn(b, n) \cap EdgesIn(b, k) = {}
        /\ VerticesIn(b, n) \cap VerticesIn(b, k) = {}
\* The faces of shell n are one component through the edges they share.
Beside(b, n, reached) ==
    UNION {{u.face : u \in UsesOf(b, e)} \cap FacesIn(b, n) :
             e \in {e \in LiveSlots(b.e) : \E u \in UsesOf(b, e) : u.face \in reached}}
ReachedFrom(b, n, f) == FoldSet(LAMBDA x, reached : reached \cup Beside(b, n, reached), {f}, FacesIn(b, n))
Connected(b, n) == FacesIn(b, n) = {} \/ ReachedFrom(b, n, Min(FacesIn(b, n))) = FacesIn(b, n)
\* `V - E + 2F - L`, a degenerate edge left out, and the genus it implies.
CharacteristicNoRings(b, n) ==       \* mutant: every face has one loop
    Cardinality(VerticesIn(b, n))
      - Cardinality({e \in EdgesIn(b, n) : ~ b.e.at[e].deg})
      + Cardinality(FacesIn(b, n))
Characteristic(b, n) ==
    Cardinality(VerticesIn(b, n))
      - Cardinality({e \in EdgesIn(b, n) : ~ b.e.at[e].deg})
      + 2 * Cardinality(FacesIn(b, n)) - Cardinality(LoopsIn(b, n))
GenusOf(b, n) == 1 - (Characteristic(b, n) \div 2)
ClosesAtGenus(b, n) == Characteristic(b, n) % 2 = 0 /\ GenusOf(b, n) >= 0
Proven(b) ==
    /\ LoopsClose(b)
    /\ EdgesWellUsed(b)
    /\ LiveSlots(b.f) # {}
    /\ ShellsShareNothing(b)
    /\ \A n \in ShellNumbers(b) : Connected(b, n) /\ ClosesAtGenus(b, n)
    /\ LiveSlots(b.v) = UNION {VerticesIn(b, n) : n \in ShellNumbers(b)}
AssembledGenus(b) ==
    FoldSet(LAMBDA n, sum : GenusOf(b, n) + sum, 0, ShellNumbers(b))

\* The first spec refused ends it.
Staged(m, asm) ==
    LET s0 == [b |-> EmptyBuilder, vs |-> <<>>, es |-> <<>>, ok |-> TRUE]
        s1 == FoldLeft(LAMBDA s, spec : IF s.ok THEN AddVertexSpec(s, spec) ELSE s, s0, asm.vertices)
        s2 == FoldLeft(LAMBDA s, spec : IF s.ok THEN AddEdgeSpec(m, s, spec) ELSE s, s1, asm.edges)
        shell(s, n) == FoldLeft(LAMBDA x, spec : IF x.ok THEN AddFaceSpec(m, x, spec, n - 1) ELSE x, s,
                                asm.shells[n])
        s3 == FoldLeft(shell, s2, [n \in DOMAIN asm.shells |-> n])
    IN  IF \E n \in DOMAIN asm.shells : asm.shells[n] = <<>> THEN Refused(s3) ELSE s3
Accepts(m, asm) == Staged(m, asm).ok /\ Proven(Staged(m, asm).b)
Assemble(m, asm) ==
    [Staged(m, asm).b EXCEPT !.genus = AssembledGenus(Staged(m, asm).b)]

-----------------------------------------------------------------------------
(* The assemblies of a body: every face kept, or read whole as new.        *)

Shells(m, body) == [n \in DOMAIN m.bodies[body] |-> m.shells[m.bodies[body][n]]]
KeepFace(use) == [keep |-> use.id, dir |-> use.dir]
\* `FaceSpec::from_face`, its edges named through `key`.
FromFace(m, use, key(_)) ==
    LET face == m.faces[use.id]
    IN  [keep |-> 0, surf |-> face.surf, dir |-> use.dir,
         loops |-> [li \in DOMAIN face.loops |->
                     [k \in DOMAIN Walk(m, use, li) |->
                        [Walk(m, use, li)[k] EXCEPT !.edge = key(@)]]]]
\* A body whose faces in `kept` are kept and the others copied over the
\* edges there are: what an operation that touched the others hands over.
KeepSome(m, body, kept) ==
    [vertices |-> <<>>, edges |-> <<>>,
     shells |-> [n \in DOMAIN Shells(m, body) |->
        [k \in DOMAIN Shells(m, body)[n] |->
            LET use == Shells(m, body)[n][k]
            IN  IF use.id \in kept THEN KeepFace(use) ELSE FromFace(m, use, Kept)]]]

FacesOfBody(m, body) == UNION {{Shells(m, body)[n][k].id : k \in DOMAIN Shells(m, body)[n]} :
                                 n \in DOMAIN Shells(m, body)}
EdgesOfBody(m, body) == UNION {UNION {{u.edge : u \in ToSet(m.faces[f].loops[li])} :
                          li \in DOMAIN m.faces[f].loops} : f \in FacesOfBody(m, body)}
VerticesOfBody(m, body) == UNION {{m.edges[e].start, m.edges[e].end} :
                                    e \in EdgesOfBody(m, body)}
\* `Assembly::of_body`: every entity new, specs in id order.
OfBody(m, body) ==
    LET vs == Ascending(VerticesOfBody(m, body))
        es == Ascending(EdgesOfBody(m, body))
        at(s, id) == New(CHOOSE k \in DOMAIN s : s[k] = id)
        key(e) == at(es, e)
        spec(use) == FromFace(m, use, key)
    IN  [vertices |-> [k \in DOMAIN vs |-> [keep |-> 0]],
         edges |-> [k \in DOMAIN es |->
                      [keep |-> 0, start |-> at(vs, m.edges[es[k]].start),
                       end |-> at(vs, m.edges[es[k]].end), deg |-> m.edges[es[k]].deg]],
         shells |-> [n \in DOMAIN Shells(m, body) |->
                       [k \in DOMAIN Shells(m, body)[n] |-> spec(Shells(m, body)[n][k])]]]
=============================================================================
