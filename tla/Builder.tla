------------------------------ MODULE Builder ------------------------------
(***************************************************************************)
(* A builder over its life: any sequence of Euler operators with any       *)
(* arguments the code accepts.  A refused call leaves the builder as it is *)
(* and is no step here.                                                    *)
(***************************************************************************)
EXTENDS EulerOps

CONSTANTS
    MaxV, MaxE, MaxF,  \* bounds: live vertices, edges and faces
    Seeds,             \* [surf, dir] records mvfs is called with
    Struts,            \* [deg, pcs] records mev is called with
    Splits,            \* [deg, surf, dir, pcs] records mef is called with
    Joins,             \* [deg, pcs] records mekr is called with
    Pcurves,           \* pcurves set_pcurve is called with
    Starts             \* the builders there are to begin with

ASSUME BuilderAssumption == {MaxV, MaxE, MaxF} \subseteq Nat

VARIABLE b

RoomV == Cardinality(LiveSlots(b.v)) < MaxV
RoomE == Cardinality(LiveSlots(b.e)) < MaxE
RoomF == Cardinality(LiveSlots(b.f)) < MaxF

\* Every junction of a builder, and every use.
Junctions(x) ==
    UNION {UNION {{Position(f, li, ci) : ci \in 0 .. Len(LoopsOf(x, f)[li].uses)} :
             li \in DOMAIN LoopsOf(x, f)} : f \in LiveSlots(x.f)}
\* Where mef may split from: the junctions of the loop, or the full turn.
SplitsFrom(x, to) ==
    {at \in Junctions(x) : at.face = to.face /\ at.li = to.li}
      \cup {[to EXCEPT !.ci = to.ci + Len(LoopAt(x, to).uses)]}

Init == b \in Starts

MVFS  == \E s \in Seeds : CanMvfs(b) /\ b' = Mvfs(b, s)
KVFS  == CanKvfs(b) /\ b' = Kvfs(b)
MEV   == /\ RoomV /\ RoomE
         /\ \E at \in Junctions(b), s \in Struts : CanMev(b, at, s) /\ b' = Mev(b, at, s)
KEV   == \E e \in LiveSlots(b.e) : CanKev(b, e) /\ b' = Kev(b, e)
MEF   == /\ RoomE /\ RoomF
         /\ \E to \in Junctions(b), s \in Splits : \E from \in SplitsFrom(b, to) :
                CanMef(b, from, to, s) /\ b' = Mef(b, from, to, s)
KEF   == \E e \in LiveSlots(b.e) : CanKef(b, e) /\ b' = Kef(b, e)
MEKR  == /\ RoomE
         /\ \E from, to \in Junctions(b), j \in Joins :
                CanMekr(b, from, to, j) /\ b' = Mekr(b, from, to, j)
KEMR  == \E e \in LiveSlots(b.e) : CanKemr(b, e) /\ b' = Kemr(b, e)
KFMRH == \E kill, into \in LiveSlots(b.f) :
                CanKfmrh(b, kill, into) /\ b' = Kfmrh(b, kill, into)
MFKRH == /\ RoomF
         /\ \E f \in LiveSlots(b.f) : \E ring \in DOMAIN LoopsOf(b, f) :
                CanMfkrh(b, f, ring) /\ b' = Mfkrh(b, f, ring)
SET_PCURVE == \E at \in Junctions(b), pc \in Pcurves :
                CanSetPcurve(b, at) /\ b' = SetPcurve(b, at, pc)

Next == MVFS \/ KVFS \/ MEV \/ KEV \/ MEF \/ KEF \/ MEKR \/ KEMR \/ KFMRH \/ MFKRH
          \/ SET_PCURVE
Spec == Init /\ [][Next]_b

-----------------------------------------------------------------------------
(***************************************************************************)
(* Properties.                                                             *)
(***************************************************************************)

UsesAll(x) == UNION {{[face |-> at[1], li |-> at[2], ci |-> ci] :
                        ci \in DOMAIN LoopsOf(x, at[1])[at[2]].uses} :
                      at \in AllLoops(x)}
TheUse(x, u) == LoopsOf(x, u.face)[u.li].uses[u.ci]
NextUse(x, u) ==
    [u EXCEPT !.ci = IF u.ci = Len(LoopsOf(x, u.face)[u.li].uses) THEN 1 ELSE u.ci + 1]

PoolOK(p) == /\ LiveSlots(p) \cap ToSet(p.free) = {}
             /\ LiveSlots(p) \cup ToSet(p.free) = 0 .. (p.len - 1)
             /\ Cardinality(ToSet(p.free)) = Len(p.free)
\* A freed slot is on its stack once, and what is referenced is live.
TypeOK ==
    /\ PoolOK(b.v) /\ PoolOK(b.e) /\ PoolOK(b.f)
    /\ b.genus \in Nat
    /\ \A e \in LiveSlots(b.e) : {b.e.at[e].start, b.e.at[e].end} \subseteq LiveSlots(b.v)
    /\ \A u \in UsesAll(b) : TheUse(b, u).edge \in LiveSlots(b.e)
    /\ \A at \in AllLoops(b) : LET l == LoopsOf(b, at[1])[at[2]]
                               IN  l.uses = <<>> => l.seed \in LiveSlots(b.v)
    /\ \A f \in LiveSlots(b.f) : LoopsOf(b, f) # <<>>

\* BuildError::EdgeUses, "the operators never make one": every edge is walked
\* once along and once against, and every loop closes through its vertices -
\* the builder holds a closed oriented surface after every call.
EdgesPairUp ==
    /\ \A e \in LiveSlots(b.e) : UsedBothWays(b, e)
    /\ \A u \in UsesAll(b) : EndOf(b, TheUse(b, u)) = StartOf(b, TheUse(b, NextUse(b, u)))

\* The surface is a manifold at every vertex: the uses that leave it make one
\* umbrella - from a use to the one that follows its edge's other use - or it
\* is the seed of one loop and on no edge.
Leaving(x, v) == {u \in UsesAll(x) : StartOf(x, TheUse(x, u)) = v}
Turn(x, u) ==
    LET here == TheUse(x, u)
        back == UseOf(x, here.edge, 1 - here.dir)
    IN  NextUse(x, [face |-> back.face, li |-> back.li, ci |-> back.ci + 1])
Seeded(x, v) == {at \in AllLoops(x) : LoopsOf(x, at[1])[at[2]] = Loop(<<>>, v)}
ClosedUnder(x, S) == \A u \in S : Turn(x, u) \in S
OneUmbrella(x, v) ==
    IF Leaving(x, v) = {} THEN Cardinality(Seeded(x, v)) = 1
    ELSE /\ Seeded(x, v) = {}
         /\ \A S \in SUBSET Leaving(x, v) :
                ClosedUnder(x, S) => S \in {{}, Leaving(x, v)}
VerticesAreManifold == \A v \in LiveSlots(b.v) : OneUmbrella(b, v)
ClosedManifold == TypeOK /\ EdgesPairUp /\ VerticesAreManifold

\* `Builder::dump`, by content: the live slots and the genus.
Dump(x) == <<x.v.at, x.e.at, x.f.at, x.genus>>

\* DATA-MODEL.md, "every operator followed by its inverse restores the
\* builder byte for byte": a make is undone by its kill, whatever the
\* builder and the place it was called at.
MakesAreUndone ==
    /\ \A s \in Seeds : CanMvfs(b) => LET x == Mvfs(b, s) IN
            CanKvfs(x) /\ Dump(Kvfs(x)) = Dump(b)
    /\ \A at \in Junctions(b), s \in Struts : CanMev(b, at, s) =>
            LET x == Mev(b, at, s) e == NewSlot(b.e) IN
            CanKev(x, e) /\ Dump(Kev(x, e)) = Dump(b) /\ KevResult(x, e).rec = s
    /\ \A to \in Junctions(b), s \in Splits : \A from \in SplitsFrom(b, to) :
            CanMef(b, from, to, s) =>
            LET x == Mef(b, from, to, s) e == NewSlot(b.e) IN
            CanKef(x, e) /\ Dump(Kef(x, e)) = Dump(b) /\ KefResult(x, e).rec = s
    /\ \A from, to \in Junctions(b), j \in Joins : CanMekr(b, from, to, j) =>
            LET x == Mekr(b, from, to, j) e == NewSlot(b.e) IN
            CanKemr(x, e) /\ Dump(Kemr(x, e)) = Dump(b) /\ KemrResult(x, e).rec = j
    /\ \A kill, into \in LiveSlots(b.f) : CanKfmrh(b, kill, into) =>
            LET x == KfmrhResult(b, kill, into) IN
            CanMfkrh(x.b, into, x.ring) /\ Dump(Mfkrh(x.b, into, x.ring)) = Dump(b)

\* "A kill returns the record its make takes, so undoing is a call": the make
\* called with what the kill returned gives the builder back.
KillsAreUndone ==
    /\ \A e \in LiveSlots(b.e) :
        /\ CanKev(b, e) => LET r == KevResult(b, e) IN
              CanMev(r.b, r.at, r.rec) /\ Dump(Mev(r.b, r.at, r.rec)) = Dump(b)
        /\ CanKef(b, e) => LET r == KefResult(b, e) IN
              CanMef(r.b, r.from, r.to, r.rec) /\ Dump(Mef(r.b, r.from, r.to, r.rec)) = Dump(b)
        /\ CanKemr(b, e) => LET r == KemrResult(b, e) IN
              CanMekr(r.b, r.from, r.to, r.rec) /\ Dump(Mekr(r.b, r.from, r.to, r.rec)) = Dump(b)
    /\ \A f \in LiveSlots(b.f) : \A ring \in DOMAIN LoopsOf(b, f) :
          CanMfkrh(b, f, ring) => LET x == Mfkrh(b, f, ring) IN
              CanKfmrh(x, NewSlot(b.f), f) /\ Dump(Kfmrh(x, NewSlot(b.f), f)) = Dump(b)
UndoRestores == MakesAreUndone /\ KillsAreUndone

\* `Builder::counts`, and with every degenerate edge counted too.
ShellsOf(x) == {x.f.at[f].shell : f \in LiveSlots(x.f)}
DegenerateEdges(x) == {e \in LiveSlots(x.e) : x.e.at[e].deg}
Counts(x) == [v |-> Cardinality(LiveSlots(x.v)),
              e |-> Cardinality(LiveSlots(x.e) \ DegenerateEdges(x)),
              f |-> Cardinality(LiveSlots(x.f)),
              l |-> Cardinality(AllLoops(x)),
              s |-> Cardinality(ShellsOf(x)),
              g |-> x.genus]

\* The builder moves its counts as the operators of the Euler plane do when
\* every edge is counted; so the line of `counts`, which leaves the
\* degenerate ones out, is not zero but the number of them.
Plane == INSTANCE EulerPlane WITH
    v <- Counts(b).v, e <- Cardinality(LiveSlots(b.e)), f <- Counts(b).f,
    l <- Counts(b).l, s <- Counts(b).s, g <- Counts(b).g
ImplementsEulerPlane == Plane!Spec
=============================================================================
