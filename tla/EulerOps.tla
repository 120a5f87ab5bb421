------------------------------ MODULE EulerOps -----------------------------
(***************************************************************************)
(* The ten Euler operators of arris-topo's Builder over a staging area:    *)
(* for each operator the condition under which the code does not return    *)
(* an error, the builder after it, and for each kill the record it         *)
(* returns, which is what its make takes.                                  *)
(***************************************************************************)
EXTENDS Staging

Use(e, dir, pc) == [edge |-> e, dir |-> dir, pc |-> pc]
NewVertex == [kept |-> 0]
NewEdge(start, end, deg) == [start |-> start, end |-> end, deg |-> deg, kept |-> 0]
NewFace(surf, dir, shell, loops) ==
    [surf |-> surf, dir |-> dir, shell |-> shell, kept |-> 0,
     loops |-> CanonicalLoops(loops)]
FirstOf(uses) == IF uses = <<>> THEN <<>> ELSE <<uses[1]>>

-----------------------------------------------------------------------------
(* mvfs, kvfs: a vertex, and a face with one loop of no uses at it.        *)

CanMvfs(b) == IsEmpty(b)
Mvfs(b, seed) ==
    [b EXCEPT !.v = Fill(@, NewVertex),
              !.f = Fill(@, NewFace(seed.surf, seed.dir, 0,
                                    <<Loop(<<>>, NewSlot(b.v))>>))]

CanKvfs(b) ==
    /\ Cardinality(LiveSlots(b.v)) = 1
    /\ LiveSlots(b.e) = {}
    /\ Cardinality(LiveSlots(b.f)) = 1
    /\ \A f \in LiveSlots(b.f) : /\ Len(LoopsOf(b, f)) = 1
                                 /\ LoopsOf(b, f)[1].uses = <<>>
Kvfs(b) == EmptyBuilder

-----------------------------------------------------------------------------
(* mev, kev: a strut into a loop, away and back.                           *)

CanMev(b, at, strut) == ~ strut.deg /\ IsJunction(b, at)
Mev(b, at, strut) ==
    LET e == NewSlot(b.e)
        loops == LoopsOf(b, at.face)
        uses == loops[at.li].uses
        spliced == SubSeq(uses, 1, at.ci)
                     \o <<Use(e, FORWARD, strut.pcs[1]), Use(e, REVERSED, strut.pcs[2])>>
                     \o SubSeq(uses, at.ci + 1, Len(uses))
    IN  SetLoops([b EXCEPT !.v = Fill(@, NewVertex),
                           !.e = Fill(@, NewEdge(VertexAt(b, at), NewSlot(b.v), FALSE))],
                 at.face, [loops EXCEPT ![at.li].uses = spliced])

CanKev(b, e) ==
    /\ UsedBothWays(b, e)
    /\ LET plus  == UseOf(b, e, FORWARD)
           minus == UseOf(b, e, REVERSED)
           tip   == b.e.at[e].end
       IN  /\ plus.face = minus.face /\ plus.li = minus.li
           /\ (plus.ci + 1) % Len(LoopsOf(b, plus.face)[plus.li].uses) = minus.ci
           /\ b.e.at[e].start # tip
           /\ \A k \in LiveSlots(b.e) \ {e} : tip \notin {b.e.at[k].start, b.e.at[k].end}
           /\ \A f \in LiveSlots(b.f) : \A l \in DOMAIN LoopsOf(b, f) :
                LoopsOf(b, f)[l] # Loop(<<>>, tip)
KevResult(b, e) ==
    LET plus == UseOf(b, e, FORWARD)
        start == b.e.at[e].start
        loops == LoopsOf(b, plus.face)
        uses == loops[plus.li].uses
        \* the loop from the strut's first use on, without the strut
        rest == SubSeq(RotateTo(uses, plus.ci + 1), 3, Len(uses))
        after == SetLoops([b EXCEPT !.v = Vacate(@, b.e.at[e].end),
                                    !.e = Vacate(@, e)],
                          plus.face, [loops EXCEPT ![plus.li] = Loop(rest, start)])
    IN  [b   |-> after,
         at  |-> PositionAfter(after, plus.face, FirstOf(rest), start),
         rec |-> [deg |-> FALSE,
                  pcs |-> <<uses[plus.ci + 1].pc,
                            uses[UseOf(b, e, REVERSED).ci + 1].pc>>]]
Kev(b, e) == KevResult(b, e).b

-----------------------------------------------------------------------------
(* mef, kef: an edge across a loop, the new face on its left.              *)

FullTurn(n, from, to) == n > 0 /\ from.ci = to.ci + n
CanMef(b, from, to, split) ==
    /\ IsLoop(b, from)
    /\ from.face = to.face /\ from.li = to.li
    /\ IsJunction(b, to)
    /\ \/ IsJunction(b, from)
       \/ FullTurn(Len(LoopAt(b, from).uses), from, to)
    /\ split.deg => VertexAt(b, from) = VertexAt(b, to)
Mef(b, from, to, split) ==
    LET e == NewSlot(b.e)
        end == VertexAt(b, to)
        loops == LoopsOf(b, from.face)
        uses == loops[from.li].uses
        moved == CASE FullTurn(Len(uses), from, to) -> AllFrom(uses, to.ci)
                   [] from.ci = to.ci /\ ~ FullTurn(Len(uses), from, to) -> <<>>
                   [] OTHER -> Around(uses, to.ci, from.ci)
        stay  == CASE FullTurn(Len(uses), from, to) -> <<>>
                   [] from.ci = to.ci /\ ~ FullTurn(Len(uses), from, to) -> AllFrom(uses, from.ci)
                   [] OTHER -> Around(uses, from.ci, to.ci)
        left == NewFace(split.surf, split.dir, b.f.at[from.face].shell,
                        <<Loop(<<Use(e, FORWARD, split.pcs[1])>> \o moved, end)>>)
    IN  SetLoops([b EXCEPT !.e = Fill(@, NewEdge(VertexAt(b, from), end, split.deg)),
                           !.f = Fill(@, left)],
                 from.face,
                 [loops EXCEPT ![from.li].uses =
                    <<Use(e, REVERSED, split.pcs[2])>> \o stay])

CanKef(b, e) ==
    /\ UsedBothWays(b, e)
    /\ UseOf(b, e, FORWARD).face # UseOf(b, e, REVERSED).face
    /\ Len(LoopsOf(b, UseOf(b, e, FORWARD).face)) = 1
KefResult(b, e) ==
    LET plus == UseOf(b, e, FORWARD)
        minus == UseOf(b, e, REVERSED)
        start == b.e.at[e].start
        killed == b.f.at[plus.face]
        gone == killed.loops[plus.li].uses
        spliced == SubSeq(RotateTo(gone, plus.ci + 1), 2, Len(gone))
        loops == LoopsOf(b, minus.face)
        uses == loops[minus.li].uses
        following == IF Len(uses) = 1 THEN <<>>
                     ELSE <<uses[((minus.ci + 1) % Len(uses)) + 1]>>
        merged == SubSeq(uses, 1, minus.ci) \o spliced
                    \o SubSeq(uses, minus.ci + 2, Len(uses))
        after == SetLoops([b EXCEPT !.f = Vacate(@, plus.face), !.e = Vacate(@, e)],
                          minus.face, [loops EXCEPT ![minus.li] = Loop(merged, start)])
        to == PositionAfter(after, minus.face,
                  IF spliced # <<>> THEN FirstOf(spliced) ELSE following, start)
        n == Len(LoopAt(after, to).uses)
        \* the whole loop is spliced: the split that moves every use back
        from == CASE spliced = <<>> -> to.ci
                  [] spliced # <<>> /\ Len(spliced) = n -> to.ci + n
                  [] OTHER -> (to.ci + Len(spliced)) % n
    IN  [b    |-> after,
         from |-> [to EXCEPT !.ci = from],
         to   |-> to,
         rec  |-> [deg |-> b.e.at[e].deg, surf |-> killed.surf, dir |-> killed.dir,
                   pcs |-> <<gone[plus.ci + 1].pc, uses[minus.ci + 1].pc>>]]
Kef(b, e) == KefResult(b, e).b

-----------------------------------------------------------------------------
(* mekr, kemr: an edge between two loops of a face makes them one.         *)

CanMekr(b, from, to, join) ==
    /\ from.face = to.face /\ from.li # to.li
    /\ IsJunction(b, from) /\ IsJunction(b, to)
    /\ join.deg => VertexAt(b, from) = VertexAt(b, to)
Mekr(b, from, to, join) ==
    LET e == NewSlot(b.e)
        loops == LoopsOf(b, from.face)
        uses == loops[from.li].uses
        ring == loops[to.li].uses
        merged == SubSeq(uses, 1, from.ci)
                    \o <<Use(e, FORWARD, join.pcs[1])>>
                    \o AllFrom(ring, to.ci)
                    \o <<Use(e, REVERSED, join.pcs[2])>>
                    \o SubSeq(uses, from.ci + 1, Len(uses))
    IN  SetLoops([b EXCEPT !.e = Fill(@, NewEdge(VertexAt(b, from), VertexAt(b, to),
                                                 join.deg))],
                 from.face,
                 RemoveAt([loops EXCEPT ![from.li].uses = merged], to.li))

CanKemr(b, e) ==
    /\ UsedBothWays(b, e)
    /\ UseOf(b, e, FORWARD).face = UseOf(b, e, REVERSED).face
    /\ UseOf(b, e, FORWARD).li = UseOf(b, e, REVERSED).li
\* The loops kemr leaves of one: what stood at the start of the edge and
\* the ring that stood at its end.
SeedsSwapped(rest, ring, edge) == <<Loop(rest, edge.end), Loop(ring, edge.start)>> \* mutant
RestAndRing(rest, ring, edge) == <<Loop(rest, edge.start), Loop(ring, edge.end)>>
KemrResult(b, e) ==
    LET plus == UseOf(b, e, FORWARD)
        minus == UseOf(b, e, REVERSED)
        f == plus.face
        loops == LoopsOf(b, f)
        uses == loops[plus.li].uses
        n == Len(uses)
        ring == Around(uses, (plus.ci + 1) % n, minus.ci)
        rest == Around(uses, (minus.ci + 1) % n, plus.ci)
        start == b.e.at[e].start
        end == b.e.at[e].end
        split == RestAndRing(rest, ring, b.e.at[e])
        after == SetLoops([b EXCEPT !.e = Vacate(@, e)], f,
                          Append([loops EXCEPT ![plus.li] = split[1]], split[2]))
    IN  [b    |-> after,
         from |-> PositionAfter(after, f, FirstOf(rest), start),
         to   |-> PositionAfter(after, f, FirstOf(ring), end),
         rec  |-> [deg |-> b.e.at[e].deg,
                   pcs |-> <<uses[plus.ci + 1].pc, uses[minus.ci + 1].pc>>]]
Kemr(b, e) == KemrResult(b, e).b

-----------------------------------------------------------------------------
(* kfmrh, mfkrh: a face becomes a ring of another, the body gains a handle.*)

CanKfmrh(b, kill, into) ==
    /\ {kill, into} \subseteq LiveSlots(b.f) /\ kill # into
    /\ b.f.at[kill].surf = b.f.at[into].surf
    /\ b.f.at[kill].dir # b.f.at[into].dir
    /\ Len(LoopsOf(b, kill)) = 1
KfmrhNoHandle(b, kill, into) ==      \* mutant of KfmrhResult: the genus stays
    LET ring == LoopsOf(b, kill)[1]
        after == SetLoops([b EXCEPT !.f = Vacate(@, kill)],
                          into, Append(LoopsOf(b, into), ring))
    IN  [b    |-> after,
         ring |-> PositionAfter(after, into, FirstOf(ring.uses), ring.seed).li]
KfmrhResult(b, kill, into) ==
    LET ring == LoopsOf(b, kill)[1]
        after == SetLoops([b EXCEPT !.f = Vacate(@, kill), !.genus = @ + 1],
                          into, Append(LoopsOf(b, into), ring))
    IN  [b    |-> after,
         ring |-> PositionAfter(after, into, FirstOf(ring.uses), ring.seed).li]
Kfmrh(b, kill, into) == KfmrhResult(b, kill, into).b

CanMfkrh(b, f, ring) ==
    /\ f \in LiveSlots(b.f)
    /\ Len(LoopsOf(b, f)) >= 2 /\ ring \in DOMAIN LoopsOf(b, f)
    /\ b.genus > 0
Mfkrh(b, f, ring) ==
    LET face == b.f.at[f]
        lifted == NewFace(face.surf, 1 - face.dir, face.shell, <<face.loops[ring]>>)
    IN  SetLoops([b EXCEPT !.f = Fill(@, lifted), !.genus = @ - 1],
                 f, RemoveAt(face.loops, ring))

-----------------------------------------------------------------------------
\* `set_pcurve`: the use at a position gets its pcurve, nothing else changes
\* but the face's mark.
CanSetPcurve(b, at) == IsLoop(b, at) /\ at.ci + 1 \in DOMAIN LoopAt(b, at).uses
SetPcurve(b, at, pc) ==
    [b EXCEPT !.f.at[at.face] =
        [@ EXCEPT !.loops[at.li].uses[at.ci + 1].pc = pc, !.kept = 0]]
=============================================================================
