------------------------------ MODULE Pcurves ------------------------------
(***************************************************************************)
(* Where a curve that lies on a surface is in its (u, v): `pcurve_on`      *)
(* (arris-geom, pcurve_on.rs) on the surfaces of the parts, exact at the   *)
(* quarters a curve is sampled at.                                         *)
(***************************************************************************)
EXTENDS Checker

RingRadius(p) == Greater(Greater(p[2], -p[2]), Greater(p[3], -p[3]))
AngleOf(x, y) == 3 * QuarterOf(<<x, y>>, <<1, 0>>, <<0, 1>>)
Flatten(p) == <<p[1], p[2]>>
\* How far along an axis a meridian plane has a point, and how far off it.
InSketch(s, p) ==
    Plus(s.axis.origin, Plus(Times(p[1], s.axis.along), Times(Dot(<<p[2], p[3]>>, Direction(s.at)), s.axis.radial)))
\* The coordinates of a vector of an oblique plane, and of one from the
\* origin of a surface about an axis.
InBasis(s, w) ==
    LET det == Dot3(s.x, s.x) * Dot3(s.y, s.y) - Dot3(s.x, s.y) * Dot3(s.x, s.y)
    IN  <<(Dot3(w, s.x) * Dot3(s.y, s.y) - Dot3(w, s.y) * Dot3(s.x, s.y)) \div det,
          (Dot3(w, s.y) * Dot3(s.x, s.x) - Dot3(w, s.x) * Dot3(s.x, s.y)) \div det>>
RoundUv(s, w) ==
    LET out == Greater(Magnitude(Dot3(w, s.x)), Magnitude(Dot3(w, s.y)))
    IN  <<AngleOf(Dot3(w, s.x), Dot3(w, s.y)),
          CASE s.kind = "ball" -> 3 * Sgn(Dot3(w, s.z))
            [] s.kind = "hoop" -> AngleOf(out - s.major, Dot3(w, s.z))
            [] OTHER -> Dot3(w, s.z)>>
UvOf(s, p) ==
    CASE s.kind = "cylinder" -> <<AngleOf(p[2], p[3]), p[1]>>
      [] s.kind = "annulus" -> <<p[2], p[3]>>
      [] s.kind = "cone" -> <<(Sense(s) * AngleOf(p[2], p[3])) % Turn, Sense(s) * (p[1] - s.t)>>
      [] s.kind = "sphere" -> <<AngleOf(p[2], p[3]), IF p[1] = s.t THEN 0 ELSE IF p[1] > s.t THEN 3 ELSE -3>>
      [] s.kind = "torus" -> <<AngleOf(p[2], p[3]), AngleOf(RingRadius(p) - s.major, p[1] - s.t)>>
      [] s.kind = "meridian" -> InSketch(s, p)
      [] s.kind = "wall" ->
           LET d == Minus(s.to, s.from) IN <<(Dot(Minus(Flatten(p), s.from), d) * s.long) \div Dot(d, d), Sense(s) * p[3]>>
      [] s.kind = "tube" -> <<3 * QuarterOf(Minus(Flatten(p), s.centre), s.x, s.y), Sense(s) * p[3]>>
      [] s.kind = "flat" -> InBasis(s, Minus3(p, s.o))
      [] s.kind \in {"bar", "ball", "hoop", "funnel"} -> RoundUv(s, Minus3(p, s.o))
      [] OTHER -> Flatten(p)

\* `singularities`: a row of (u, v) at v = value that is one point.
RowValues(s) ==
    CASE s.kind = "cone" -> <<-((s.radius * s.rise) \div s.widen)>>
      [] s.kind \in {"sphere", "ball"} -> <<3, -3>>
      [] s.kind = "funnel" -> <<-s.radius>>
      [] OTHER -> <<>>
RowOf(s, v) == [value |-> v, point |-> ImageOf(s, 0, v)]
Rows(s) == [i \in DOMAIN RowValues(s) |-> RowOf(s, RowValues(s)[i])]
RowsAt(s, p) == SelectSeq(Rows(s), LAMBDA row : row.point = p)

\* pcurve_on: continuous along the curve, an end at a singular point on the
\* row beside the point before it.
Nearest(s, uv, to) == Plus(uv, ShiftTo(s, uv, to))
NextOn(s, uv, p, rows) == IF rows # <<>> THEN <<uv[1], rows[1].value>> ELSE Nearest(s, UvOf(s, p), uv)
NextUv(s, uv, p) == NextOn(s, uv, p, RowsAt(s, p))
ReportedUv(s, uv, rounding) ==
    IF Periods(s)[1] = 0 THEN uv
    ELSE <<Reported(uv[1], rounding), IF Periods(s)[2] = 0 THEN uv[2] ELSE Reported(uv[2], rounding)>>
UvsFrom(s, curve, first) ==
    FoldLeft(LAMBDA uvs, p : Append(uvs, NextUv(s, Last(uvs), p)), <<first>>, Tail(curve))
OnRow(uv, rows) == IF rows = <<>> THEN uv ELSE <<uv[1], rows[1].value>>
FirstOn(s, curve, rows, rounding) ==
    OnRow(ReportedUv(s, UvOf(s, curve[IF rows = <<>> THEN 1 ELSE 2]), rounding), rows)
FirstUv(s, curve, rounding) == FirstOn(s, curve, RowsAt(s, curve[1]), rounding)
AsPcurve(s, uvs) ==
    IF s.kind \in {"annulus", "meridian", "level", "flat"} THEN Through(uvs) ELSE LineFrom(Head(uvs), Last(uvs))
PcurveOn(s, curve, rounding) == AsPcurve(s, UvsFrom(s, curve, FirstUv(s, curve, rounding)))

Once(list) ==
    LET first == SelectSeq([i \in DOMAIN list |-> i], LAMBDA i : \A j \in 1 .. i - 1 : list[j] # list[i])
    IN  [k \in DOMAIN first |-> list[first[k]]]
=============================================================================
