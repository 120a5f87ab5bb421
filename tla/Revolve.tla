------------------------------ MODULE Revolve ------------------------------
(***************************************************************************)
(* `revolve` (arris-ops, sweep.rs).  The axis lies along u or v of the     *)
(* sketch; `along` is its direction and `radial` the side the sketch is    *)
(* on.  A point of the swept body is its place along the axis and, about   *)
(* it, a quarter of the turn at its radius.                                *)
(***************************************************************************)
EXTENDS Sweeps

Along(x, p) == Dot(Minus(p, x.origin), x.along)
Rho(x, p) == Dot(Minus(p, x.origin), x.radial)
\* axis_in_plane: the radial is the left of the axis, until orient turns it.
InPlane(axis) == [origin |-> axis.origin, along |-> axis.along,
                  radial |-> <<-axis.along[2], axis.along[1]>>]
TurnsAlongNormal(x) == Cross(x.along, x.radial) = 1

\* turn_contains: whether an arc from a to b passes the direction d.
Passes(a, d, b) ==
    IF Cross(a, b) > 0 \/ (Cross(a, b) = 0 /\ Dot(a, b) < 0)
    THEN Cross(a, d) >= 0 /\ Cross(d, b) >= 0
    ELSE ~ (Cross(b, d) > 0 /\ Cross(d, a) > 0)
OnArc(e, d) ==
    LET a == Minus(Start(e), e.centre)
        b == Minus(End(e), e.centre)
    IN  IF e.ccw THEN Passes(a, d, b) ELSE Passes(b, d, a)
\* rho_range: the ends, and on an arc the nearest and farthest of its circle.
Reaches(e, x) ==
    {Rho(x, Start(e)), Rho(x, End(e))}
    \cup IF e.kind = "line" THEN {}
         ELSE {Rho(x, Plus(e.centre, Times(k * RadiusOf(e), x.radial))) :
                 k \in {k \in {1, -1} : OnArc(e, Times(k, x.radial))}}
ReachesOf(loops, x) == UNION {UNION {Reaches(e, x) : e \in ToSet(lp)} : lp \in ToSet(loops)}
AllEdges(loops) == ToSet(FlattenSeq(loops))

Turned180(x) == [x EXCEPT !.radial = Times(-1, @)]
Facing(x, reaches) == IF Max(reaches) <= 0 THEN Turned180(x) ELSE x
Spindles(loops, x) ==
    \E e \in AllEdges(loops) :
        e.kind = "circle" /\ Rho(x, e.centre) # 0 /\ Rho(x, e.centre) - RadiusOf(e) <= 0
\* orient: the fault of a sketch about an axis, <<>> when there is none.
OrientFault(loops, x, reaches) ==
    IF Min(reaches) < 0 /\ Max(reaches) > 0 THEN <<"ProfileCrossesAxis">>
    ELSE IF reaches = {0} THEN <<"ZeroThickness">>
    ELSE IF Spindles(loops, Facing(x, reaches)) THEN <<"SpindleTorus">> ELSE <<>>
\* elliptic: the first elliptic edge as the consumer drew it.
EllipticFault(loops) ==
    LET found == {<<e.loop, e.segment>> : e \in {e \in AllEdges(loops) : e.kind = "ellipse"}}
    IN  IF found = {} THEN <<>>
        ELSE <<"EllipticRevolve">>
             \o CHOOSE p \in found : \A q \in found : p[1] < q[1] \/ (p[1] = q[1] /\ p[2] <= q[2])

-----------------------------------------------------------------------------
(* The surfaces, and which of them close at the axis.                      *)

SurfaceOfLine(e, x, rho, t) ==
    IF rho[1] = rho[2] THEN [kind |-> "cylinder", radius |-> rho[1], up |-> TRUE]
    ELSE IF t[1] = t[2] THEN [kind |-> "annulus", t |-> t[1], up |-> TRUE]
    ELSE [kind |-> "cone", t |-> t[1], radius |-> rho[1], up |-> (rho[2] > rho[1]) = (t[2] > t[1]),
          widen |-> Greater(rho[2] - rho[1], rho[1] - rho[2]), rise |-> Greater(t[2] - t[1], t[1] - t[2])]
SurfaceOfArc(e, x) ==
    IF Rho(x, e.centre) = 0
    THEN [kind |-> "sphere", t |-> Along(x, e.centre), radius |-> RadiusOf(e), up |-> TRUE]
    ELSE [kind |-> "torus", t |-> Along(x, e.centre), major |-> Rho(x, e.centre),
          radius |-> RadiusOf(e), up |-> TRUE]
SweptSurface(e, x) ==
    IF e.kind = "line"
    THEN SurfaceOfLine(e, x, <<Rho(x, Start(e)), Rho(x, End(e))>>, <<Along(x, Start(e)), Along(x, End(e))>>)
    ELSE SurfaceOfArc(e, x)
Sense(s) == IF s.up THEN 1 ELSE -1
\* The normal of the surface at the segment, in the sketch.
SideNormal(e, s, x) ==
    CASE s.kind = "cylinder" -> x.radial
      [] s.kind = "annulus" -> x.along
      [] s.kind = "cone" -> Minus(Times(s.rise, x.radial), Times(Sense(s) * s.widen, x.along))
      [] OTHER -> Minus(e.points[2], e.centre)

\* A vertex on the axis is the vertex edge j starts at; a line between two
\* such lies along it.
OnAxis(w, l, j) == Rho(w.axis, Start(w.loops[l][j])) = 0
LiesAlong(w, l, j) ==
    /\ w.loops[l][j].kind = "line"
    /\ OnAxis(w, l, j) /\ OnAxis(w, l, NextIn(w.loops[l], j))
Singular(w, l, j) ==
    ~ LiesAlong(w, l, j) /\ SweptSurface(w.loops[l][j], w.axis).kind \in {"cone", "sphere"}
\* closes_at: the sides that end in vertex j of a loop and close there.
ClosesAt(w, l, j) ==
    IF OnAxis(w, l, j)
    THEN SelectSeq(<<Before(w.loops[l], j), j>>, LAMBDA side : Singular(w, l, side))
    ELSE <<>>
Touches(w) ==
    \E l \in DOMAIN w.loops : \E j \in DOMAIN w.loops[l] :
        OnAxis(w, l, j) /\ ~ LiesAlong(w, l, j) /\ ~ LiesAlong(w, l, Before(w.loops[l], j))

-----------------------------------------------------------------------------
(* A full turn's shells: runs of segments off the axis.                    *)

FirstAlong(w, l) ==
    LET S == {j \in DOMAIN w.loops[l] : LiesAlong(w, l, j)} IN IF S = {} THEN 0 ELSE Min(S)
\* The segments of a loop from just past its first along the axis.
WalkFrom(w, l) ==
    LET n == Len(w.loops[l]) IN [k \in 1 .. n |-> ((FirstAlong(w, l) + k - 1) % n) + 1]
RunsOf(w, l) ==
    SelectSeq(FoldLeft(LAMBDA runs, j : IF LiesAlong(w, l, j) THEN Append(runs, <<>>)
                                        ELSE Append(Front(runs), Append(Last(runs), j)),
                       <<<<>>>>, WalkFrom(w, l)),
              LAMBDA run : run # <<>>)
ChainOf(w, l, run) ==
    [loop |-> l, sides |-> ToSet(run),
     segment |-> Min({w.loops[l][j].segment : j \in ToSet(run)}),
     closed |-> FirstAlong(w, l) = 0,
     width |-> LET d == Along(w.axis, End(w.loops[l][Last(run)])) - Along(w.axis, Start(w.loops[l][Head(run)]))
               IN  Greater(d, -d)]
Chains(w) ==
    FlattenSeq([l \in DOMAIN w.loops |-> [k \in DOMAIN RunsOf(w, l) |-> ChainOf(w, l, RunsOf(w, l)[k])]])
\* The chain that spans every other's, the last of those as wide.
Wider(c, d) == c.closed \/ (~ d.closed /\ c.width >= d.width)
OuterChain(chains) ==
    LET own == {k \in DOMAIN chains : chains[k].loop = 1}
    IN  Max({k \in own : \A i \in own : Wider(chains[k], chains[i])})
ShellOrder(chains, outer) ==
    <<outer>> \o SetToSortSeq(DOMAIN chains \ {outer},
        LAMBDA a, b : \/ chains[a].loop < chains[b].loop
                      \/ chains[a].loop = chains[b].loop /\ chains[a].segment < chains[b].segment)

-----------------------------------------------------------------------------
(* The specs, in the one order they are appended in.                       *)

\* A point of the sketch turned about the axis.
PointAt(w, p, a) == <<Along(w.axis, p)>> \o Times(Rho(w.axis, p), Direction(a))
VertexRole(w, role, l, j) == Part(role, l - 1, VertexIndex(w.loops[l][j], Len(w.loops[l])))
RevolvedVertices(w) ==
    OverLoops(w.loops, LAMBDA l, j :
        IfAny(~ (w.full /\ OnAxis(w, l, j) /\ ClosesAt(w, l, j) = <<>>),
              Spec3(<<"start", l, j>>, PointAt(w, Start(w.loops[l][j]), 0), VertexRole(w, "StartVertex", l, j))))
    \o OverLoops(w.loops, LAMBDA l, j :
        IfAny(~ w.full /\ ~ OnAxis(w, l, j),
              Spec3(<<"end", l, j>>, PointAt(w, Start(w.loops[l][j]), w.angle), VertexRole(w, "EndVertex", l, j))))
\* The end ring's vertex, which a full turn and the axis share with the start's.
EndVertex(w, l, j) == <<IF w.full \/ OnAxis(w, l, j) THEN "start" ELSE "end", l, j>>

StartEdgeMade(w, l, j) ==
    ~ (w.full /\ (LiesAlong(w, l, j) \/ SweptSurface(w.loops[l][j], w.axis).kind = "annulus"))
SketchEdge(w, name, role, l, j, from, to, a) ==
    EdgeSpec(<<name, l, j>>, from, to, FALSE,
             [k \in DOMAIN w.loops[l][j].points |-> PointAt(w, w.loops[l][j].points[k], a)],
             Part(role, l - 1, w.loops[l][j].segment))
\* A rise is sampled every quarter of a turn.
ArcAt(w, p) == [k \in 1 .. (w.angle \div 3) + 1 |-> PointAt(w, p, 3 * (k - 1))]
\* A vertex on the axis rises nowhere: each side closing there has a
\* degenerate edge of its own instead.
RisesAt(w, l, j) ==
    IF OnAxis(w, l, j)
    THEN [k \in DOMAIN ClosesAt(w, l, j) |->
            LET side == ClosesAt(w, l, j)[k]
                p == PointAt(w, Start(w.loops[l][j]), 0)
            IN  EdgeSpec(<<IF side = j THEN "from" ELSE "to", l, side>>, <<"start", l, j>>, <<"start", l, j>>,
                         TRUE, <<p, p>>, VertexRole(w, "Rise", l, j))]
    ELSE <<EdgeSpec(<<"rise", l, j>>, <<"start", l, j>>, EndVertex(w, l, j), FALSE,
                    ArcAt(w, Start(w.loops[l][j])), VertexRole(w, "Rise", l, j))>>
RevolvedEdges(w) ==
    OverLoops(w.loops, LAMBDA l, j :
        IF StartEdgeMade(w, l, j)
        THEN <<SketchEdge(w, "start", "StartEdge", l, j, <<"start", l, j>>, <<"start", l, NextIn(w.loops[l], j)>>, 0)>>
        ELSE <<>>)
    \o OverLoops(w.loops, LAMBDA l, j :
        IF ~ w.full /\ ~ LiesAlong(w, l, j)
        THEN <<SketchEdge(w, "end", "EndEdge", l, j, EndVertex(w, l, j), EndVertex(w, l, NextIn(w.loops[l], j)), w.angle)>>
        ELSE <<>>)
    \o OverLoops(w.loops, LAMBDA l, j : RisesAt(w, l, j))

\* The pcurve of the sketch's segment on its surface, at angle a of the turn.
LatitudeOf(q) == IF q = 3 THEN -3 ELSE 3 * q
Height(s, x, p) ==
    IF s.kind = "cylinder" THEN Along(x, p) ELSE Sense(s) * (Along(x, p) - s.t)
ArcSpan(e, s, x) ==
    LET from == QuarterOf(Minus(Start(e), e.centre), x.radial, x.along)
        to == QuarterOf(Minus(End(e), e.centre), x.radial, x.along)
        sense == (IF e.ccw THEN 1 ELSE -1) * Cross(x.radial, x.along)
        low == IF s.kind = "sphere" THEN LatitudeOf(from) ELSE 3 * from
    IN  <<low, low + Turned12(from, to, sense)>>
AcrossSide(e, s, x) ==
    IF e.kind = "line" THEN <<Height(s, x, Start(e)), Height(s, x, End(e))>> ELSE ArcSpan(e, s, x)
MeridianAt(w, e, s, v, a) ==
    IF s.kind = "annulus"
    THEN LineFrom(Times(Rho(w.axis, Start(e)), Direction(a)), Times(Rho(w.axis, End(e)), Direction(a)))
    ELSE LET u == Reported(Sense(s) * a, w.rounding) IN LineFrom(<<u, v[1]>>, <<u, v[2]>>)
\* The circle of a vertex over its side, at v.
ParallelAt(w, p, s, v) ==
    IF s.kind = "annulus"
    THEN Through([k \in 1 .. (w.angle \div 3) + 1 |-> Times(Rho(w.axis, p), Direction(3 * (k - 1)))])
    ELSE LET v0 == IF s.kind = "torus" THEN v % Turn ELSE v
         IN  LineFrom(<<w.rounding, v0>>, <<w.rounding + Sense(s) * w.angle, v0>>)
\* apex_pcurve: at the singular v, against the turn where Z is against the axis.
ApexPcurve(w, s, v) == LineFrom(<<0, v>>, <<Sense(s) * w.angle, v>>)

RevolvedCycle(w, es, l, j, e, s, v) ==
    LET use(name, k, dir, pcurve) ==
            IF Held(es, <<name, l, k>>) THEN <<UseOf(IndexOf(es, <<name, l, k>>), dir, pcurve)>> ELSE <<>>
        next == NextIn(w.loops[l], j)
    IN  use("start", j, 0, MeridianAt(w, e, s, v, 0))
        \o use("rise", next, 0, ParallelAt(w, End(e), s, v[2])) \o use("to", j, 0, ApexPcurve(w, s, v[2]))
        \o use(IF w.full THEN "start" ELSE "end", j, 1, MeridianAt(w, e, s, v, IF w.full THEN 0 ELSE w.angle))
        \o use("rise", j, 1, ParallelAt(w, Start(e), s, v[1])) \o use("from", j, 1, ApexPcurve(w, s, v[1]))
RevolvedSide(w, es, l, j, e, s) ==
    LET cycle == RevolvedCycle(w, es, l, j, e, s, AcrossSide(e, s, w.axis))
    IN  SideFace(s, SideOrientation(e, SideNormal(e, s, w.axis)),
                 IF TurnsAlongNormal(w.axis) THEN cycle ELSE TurnedRound(cycle),
                 w.full /\ s.kind = "annulus")
SidesOf(w, es, l, sides) ==
    FlattenSeq([j \in DOMAIN w.loops[l] |->
        IF j \in sides /\ ~ LiesAlong(w, l, j)
        THEN <<FaceSpec(Part("Side", l - 1, w.loops[l][j].segment),
                        RevolvedSide(w, es, l, j, w.loops[l][j], SweptSurface(w.loops[l][j], w.axis)))>>
        ELSE <<>>])
RevolvedCaps(w, es) ==
    LET cap(role, name, a, dir) ==
          FaceSpec(Part(role, 0, 0),
                   CapFace(w.loops, [kind |-> "meridian", at |-> a, axis |-> w.axis], dir, LAMBDA l, j :
                       IndexOf(es, <<IF LiesAlong(w, l, j) THEN "start" ELSE name, l, j>>)))
        up == TurnsAlongNormal(w.axis)
    IN  <<cap("StartCap", "start", 0, IF up THEN 1 ELSE 0),
          cap("EndCap", "end", w.angle, IF up THEN 0 ELSE 1)>>

ShellRole(chains, outer, k) ==
    IF k = outer THEN Part("Shell", 0, 0) ELSE Part("Cavity", chains[k].loop - 1, chains[k].segment)
FullShells(w, es, chains, outer) ==
    LET order == ShellOrder(chains, outer)
    IN  Swept(RevolvedVertices(w), es,
              [k \in DOMAIN order |-> SidesOf(w, es, chains[order[k]].loop, chains[order[k]].sides)],
              [k \in DOMAIN order |-> ShellRole(chains, outer, order[k])])
OneShell(w, es) ==
    Swept(RevolvedVertices(w), es,
          <<RevolvedCaps(w, es) \o FlattenSeq([l \in DOMAIN w.loops |-> SidesOf(w, es, l, DOMAIN w.loops[l])])>>,
          <<Part("Shell", 0, 0)>>)
ShellsOf(w, es) ==
    IF w.full THEN FullShells(w, es, Chains(w), OuterChain(Chains(w))) ELSE OneShell(w, es)
Accepted(w) ==
    IF w.full /\ Touches(w) THEN Degenerate(<<"NonManifold">>)
    ELSE IF w.full /\ {k \in DOMAIN Chains(w) : Chains(w)[k].loop = 1} = {} THEN Degenerate(<<"ZeroThickness">>)
    ELSE ShellsOf(w, RevolvedEdges(w))
RevolvedOver(loops, x, reaches, job) ==
    IF EllipticFault(loops) # <<>> THEN Degenerate(EllipticFault(loops))
    ELSE IF OrientFault(loops, x, reaches) # <<>> THEN Degenerate(OrientFault(loops, x, reaches))
    ELSE Accepted([loops |-> loops, axis |-> Facing(x, reaches), full |-> job.angle = Turn,
                   angle |-> job.angle, rounding |-> job.rounding])
Revolve(job) ==
    IF job.angle <= 0 THEN Degenerate(<<"NotPositive">>)
    ELSE IF job.angle > Turn THEN Degenerate(<<"AngleAboveTurn">>)
    ELSE IF ~ job.axis.inPlane THEN Degenerate(<<"AxisNotInProfilePlane">>)
    ELSE IF ~ IsSound(ProfileEdges(job.sketch)) THEN Degenerate(ProfileEdges(job.sketch).fault)
    ELSE LET loops == ProfileEdges(job.sketch).loops
         IN  RevolvedOver(loops, InPlane(job.axis), ReachesOf(loops, InPlane(job.axis)), job)
=============================================================================
