----------------------------- MODULE StepWrite -----------------------------
(***************************************************************************)
(* The STEP writer (arris-io, step/mod.rs): a solid                        *)
(*   [model, at, curves]                                                   *)
(* of the checker as the entities of a file.  An entity is a value under   *)
(* the id of what it is written of, so the memo of the writer - each       *)
(* surface, vertex and edge once - is the function itself; the Part 21     *)
(* text and the product structure are left out.  A file is                 *)
(*   points  the point of every VERTEX_POINT                               *)
(*   edges   EDGE_CURVE [start, end, curve, sense, geometry], its curve    *)
(*           [closes, at]: the points it passes, in its own direction      *)
(*   shells  [turned, faces]: CLOSED_SHELL under an ORIENTED_CLOSED_SHELL  *)
(*   faces   ADVANCED_FACE [id, surface, sense, turned, bounds], turned by *)
(*           an ORIENTED_FACE; a bound is [kind, outer, flag, uses] or     *)
(*           [kind, outer, flag, vertex]                                   *)
(*   fault   why nothing is written, <<>> when something is                *)
(***************************************************************************)
EXTENDS Checker

\* Every use of an edge in the faces written, in the order of edge_uses.
UsesWritten(m, e) ==
    SelectSeq(FlattenSeq([f \in DOMAIN m.faces |-> IF f \in FaceIds(m) THEN CoedgesOf(m, f) ELSE <<>>]),
              LAMBDA c : c.edge = e)
InOneLoop(uses) == Len(uses) = 2 /\ uses[1].face = uses[2].face /\ uses[1].loop = uses[2].loop
PcurveEntity(m, c) == [surface |-> SurfaceOf(m, c), pc |-> c.pc]
\* A SEAM_CURVE when both uses are in one loop, the forward pcurve first.
CurveWritten(m, uses) ==
    IF InOneLoop(uses)
    THEN [kind |-> "seam",
          pcurves |-> [k \in 1 .. 2 |-> PcurveEntity(m, IF uses[1].dir = 1 THEN uses[3 - k] ELSE uses[k])]]
    ELSE [kind |-> "surface", pcurves |-> [k \in DOMAIN uses |-> PcurveEntity(m, uses[k])]]
\* A curve that ends where it starts is a whole one of its period.
Closes(curve) == Len(curve) > 2 /\ Head(curve) = Last(curve)
CurveEntity(curve) == [closes |-> Closes(curve), at |-> IF Closes(curve) THEN Front(curve) ELSE curve]
EdgeCurve(s, e) ==
    [start |-> s.model.edges[e].start, end |-> s.model.edges[e].end, curve |-> CurveEntity(s.curves[e]),
     sense |-> TRUE, geometry |-> CurveWritten(s.model, UsesWritten(s.model, e))]

\* A degenerate coedge has no curve and is not written.
Written(m, loop) == SelectSeq(loop, LAMBDA u : ~ m.edges[u.edge].deg)
OrientedEdge(u) == [edge |-> u.edge, forward |-> u.dir = 0]
\* loop_area: degenerate coedges contribute nothing.
LoopArea(s, loop) ==
    IF Written(s.model, loop) = <<>> THEN 0
    ELSE TwiceArea(Ring(PolygonOf(s.curves, Written(s.model, loop))))
FirstOf(S) == IF S = {} THEN 0 ELSE Min(S)
\* The first loop of positive area is the outer bound.
OuterLoop(s, loops) == FirstOf({li \in DOMAIN loops : LoopArea(s, loops[li]) > 0})
BoundsOf(s, loops, same, outer) ==
    [li \in DOMAIN loops |->
        [kind |-> "edges", outer |-> li = outer, flag |-> same,
         uses |-> [k \in DOMAIN Written(s.model, loops[li]) |-> OrientedEdge(Written(s.model, loops[li])[k])]]]
\* `face`: the bounds run as the loops do, so the flag of a reversed use's
\* bounds turns them, as it turns the face.
FlagOf(same) == same
FaceWritten(s, f, dir) ==
    [id |-> f, surface |-> s.model.faces[f].surf, sense |-> dir = 0, turned |-> FALSE,
     bounds |-> BoundsOf(s, s.model.faces[f].loops, FlagOf(dir = 0), OuterLoop(s, s.model.faces[f].loops))]

\* closed_shell: a void's faces are written turned, under an
\* ORIENTED_CLOSED_SHELL of orientation false.
Through3(use, turned) == IF turned THEN 1 - use.dir ELSE use.dir
ClosedShell(s, shell, turned) ==
    [turned |-> turned,
     faces |-> [k \in DOMAIN shell |-> FaceWritten(s, shell[k].id, Through3(shell[k], turned))]]
\* `solids`: one lump, its outer shell the first and the rest its voids, as
\* the sweeps order them.
ShellsWritten(s) ==
    [n \in DOMAIN s.model.bodies[1] |-> ClosedShell(s, s.model.shells[s.model.bodies[1][n]], n > 1)]

\* DegenerateLoop and EdgeUses, the refusals of a body of another make.
HasDegenerateLoop(m) ==
    \E f \in FaceIds(m) : \E loop \in ToSet(m.faces[f].loops) : Written(m, loop) = <<>>
WriteFault(s) ==
    IF s.model.bodies = <<>> THEN <<"NoBodies">>
    ELSE IF HasDegenerateLoop(s.model) THEN <<"DegenerateLoop">>
    ELSE IF \E e \in EdgeIds(s.model) : Len(UsesWritten(s.model, e)) > 2 THEN <<"EdgeUses">>
    ELSE <<>>
Write(s) ==
    [fault |-> WriteFault(s), points |-> s.at, shells |-> ShellsWritten(s),
     edges |-> [e \in {e \in EdgeIds(s.model) : ~ s.model.edges[e].deg} |-> EdgeCurve(s, e)]]
=============================================================================
