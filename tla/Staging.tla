------------------------------ MODULE Staging ------------------------------
(***************************************************************************)
(* The staging area of arris-topo (crates/arris-topo/src/builder.rs) and   *)
(* Mantyla's ten Euler operators on it, as pure operators on a builder     *)
(* record `b`: a pool of vertices, of edges and of faces, and the genus.   *)
(*                                                                         *)
(*   pool    [len, at, free]: slots 0 .. len-1, the live ones in DOMAIN at,*)
(*           the freed ones a stack                                        *)
(*   vertex  [kept]   points are left out; kept is the arena id, 0 if none *)
(*   edge    [start, end, deg, kept]                                       *)
(*   face    [surf, dir, shell, loops, kept]                               *)
(*   loop    [uses, seed]           the seed is read only without uses     *)
(*   use     [edge, dir, pc]        dir 0 is Forward; pc <<>> is no pcurve *)
(*                                                                         *)
(* A Position names a face, a loop (from 1) and a junction: the number of  *)
(* uses before it.  For each operator Xyz, CanXyz is the condition under   *)
(* which the code does not return an error, and Xyz the builder after it;  *)
(* UndoXyz is the record a kill returns, what its make takes.              *)
(***************************************************************************)
EXTENDS Integers, FiniteSets, SequencesExt, Order

FORWARD == 0
REVERSED == 1

-----------------------------------------------------------------------------
(* `Slots`: tombstones with a stack of freed slots.                        *)

EmptyPool == [len |-> 0, at |-> <<>>, free |-> <<>>]
LiveSlots(p) == DOMAIN p.at
NewSlot(p) == IF p.free = <<>> THEN p.len ELSE Last(p.free)
Fill(p, x) == [len  |-> IF p.free = <<>> THEN p.len + 1 ELSE p.len,
                 at   |-> [j \in LiveSlots(p) \cup {NewSlot(p)} |->
                             IF j = NewSlot(p) THEN x ELSE p.at[j]],
                 free |-> IF p.free = <<>> THEN <<>> ELSE Front(p.free)]
Vacate(p, i) == [p EXCEPT !.at   = [j \in LiveSlots(p) \ {i} |-> p.at[j]],
                          !.free = Append(p.free, i)]

EmptyBuilder == [v |-> EmptyPool, e |-> EmptyPool, f |-> EmptyPool, genus |-> 0]
IsEmpty(b) == \A pool \in {b.v, b.e, b.f} : LiveSlots(pool) = {}

-----------------------------------------------------------------------------
(* Loops in canonical form: rotated to the lowest use, sorted in the face. *)

Key(u) == 2 * u.edge + u.dir
Loop(uses, seed) == [uses |-> uses, seed |-> IF uses = <<>> THEN seed ELSE 0]
RotateTo(uses, k) == SubSeq(uses, k, Len(uses)) \o SubSeq(uses, 1, k - 1)
NoRotation(uses) == uses  \* mutant of Rotated
Rotated(uses) ==
    IF uses = <<>> THEN uses
    ELSE RotateTo(uses, CHOOSE k \in DOMAIN uses :
                           \A j \in DOMAIN uses : Key(uses[k]) <= Key(uses[j]))
\* Where loop l, the k-th of its face, goes: the sort is stable.
Rank(l, k) == IF l.uses = <<>> THEN <<0, l.seed, k>> ELSE <<1, Key(l.uses[1]), k>>
CanonicalLoops(loops) ==
    LET canonical == [k \in DOMAIN loops |-> Loop(Rotated(loops[k].uses), loops[k].seed)]
        order == InOrder({Rank(canonical[k], k) : k \in DOMAIN loops})
    IN  [n \in DOMAIN order |-> canonical[order[n][3]]]

\* `Builder::canonicalise`: an operator changed the loops of face f, which is
\* no longer the arena's face.
SetLoopsKeepsMark(b, f, loops) ==    \* mutant
    [b EXCEPT !.f.at[f].loops = CanonicalLoops(loops)]
SetLoops(b, f, loops) ==
    [b EXCEPT !.f.at[f] = [@ EXCEPT !.loops = CanonicalLoops(loops), !.kept = 0]]

-----------------------------------------------------------------------------
(* Reading the builder.                                                    *)

Position(f, li, ci) == [face |-> f, li |-> li, ci |-> ci]
LoopsOf(b, f) == b.f.at[f].loops
LoopAt(b, at) == LoopsOf(b, at.face)[at.li]
IsLoop(b, at) == at.face \in LiveSlots(b.f) /\ at.li \in DOMAIN LoopsOf(b, at.face)

StartOf(b, u) == IF u.dir = FORWARD THEN b.e.at[u.edge].start ELSE b.e.at[u.edge].end
EndOf(b, u) == IF u.dir = FORWARD THEN b.e.at[u.edge].end ELSE b.e.at[u.edge].start

\* `vertex_at`: the junction after the last use is the one before the first.
IsJunction(b, at) == IsLoop(b, at) /\ at.ci \in 0 .. Len(LoopAt(b, at).uses)
VertexAt(b, at) ==
    LET uses == LoopAt(b, at).uses
    IN  IF uses = <<>> THEN LoopAt(b, at).seed
        ELSE StartOf(b, uses[(at.ci % Len(uses)) + 1])

AllLoops(b) == UNION {{<<f, li>> : li \in DOMAIN LoopsOf(b, f)} : f \in LiveSlots(b.f)}

\* Every use of edge e; ci is its index in the loop, from 0.
UsesOf(b, e) ==
    UNION {LET uses == LoopsOf(b, at[1])[at[2]].uses
           IN  {[face |-> at[1], li |-> at[2], ci |-> ci - 1, dir |-> uses[ci].dir] :
                  ci \in {k \in DOMAIN uses : uses[k].edge = e}} :
             at \in AllLoops(b)}
\* One Forward and one Reversed use and no other; `plus` and `minus` are they.
UsedBothWays(b, e) ==
    /\ e \in LiveSlots(b.e)
    /\ LET uses == UsesOf(b, e)
       IN  Cardinality(uses) = 2 /\ {u.dir : u \in uses} = {FORWARD, REVERSED}
UseOf(b, e, dir) == CHOOSE u \in UsesOf(b, e) : u.dir = dir

\* The whole loop from junction `from` on.
AllFrom(uses, from) == SubSeq(uses, from + 1, Len(uses)) \o SubSeq(uses, 1, from)
\* The uses from junction `from` around the loop up to junction `to`.
Around(uses, from, to) ==
    IF from <= to THEN SubSeq(uses, from + 1, to)
    ELSE SubSeq(uses, from + 1, Len(uses)) \o SubSeq(uses, 1, to)

\* `position_after`: the use `first` of face f - a sequence, empty when the
\* loop had no use left - or else the empty loop at seed.  NoPosition stands
\* for BuildError::Invariant: it is no junction of any builder.
NoPosition == Position(0, 0, 0)
UsePositions(b, f, first) ==
    UNION {{Position(f, u.li, u.ci) : u \in {w \in UsesOf(b, first[k].edge) :
                w.face = f /\ w.dir = first[k].dir}} : k \in DOMAIN first}
SeedPositions(b, f, seed) ==
    {Position(f, li, 0) : li \in {k \in DOMAIN LoopsOf(b, f) :
        LoopsOf(b, f)[k] = Loop(<<>>, seed)}}
FirstPosition(S) ==
    IF S = {} THEN NoPosition
    ELSE CHOOSE at \in S : \A other \in S : at.li <= other.li
PositionAfter(b, f, first, seed) ==
    FirstPosition(IF UsePositions(b, f, first) # {} THEN UsePositions(b, f, first)
                  ELSE SeedPositions(b, f, seed))
=============================================================================
