----------------------------- MODULE EulerPlane ----------------------------
(***************************************************************************)
(* What a sequence of Euler operators does to the counts of a body under   *)
(* construction (docs/DATA-MODEL.md, Euler operators): vertices, edges,    *)
(* faces, loops, shells and handles move along five directions and back.   *)
(* The builder implements this; the counts never leave the plane on which  *)
(* the Euler-Poincare line is zero.                                        *)
(***************************************************************************)
EXTENDS Integers

VARIABLES v, e, f, l, s, g
counts == <<v, e, f, l, s, g>>

\* `EulerLine::at_genus`.
Line == v - e + f - (l - f) - 2 * (s - g)

Init == v = 0 /\ e = 0 /\ f = 0 /\ l = 0 /\ s = 0 /\ g = 0

Step(dv, de, df, dl, ds, dg) ==
    /\ v' = v + dv /\ e' = e + de /\ f' = f + df
    /\ l' = l + dl /\ s' = s + ds /\ g' = g + dg

MVFS  == v + e + f = 0 /\ Step(1, 0, 1, 1, 1, 0)
KVFS  == v = 1 /\ e = 0 /\ f = 1 /\ l = 1 /\ s = 1 /\ g = 0 /\ Step(-1, 0, -1, -1, -1, 0)
MEV   == s > 0 /\ Step(1, 1, 0, 0, 0, 0)
KEV   == v > 1 /\ e > 0 /\ Step(-1, -1, 0, 0, 0, 0)
MEF   == s > 0 /\ Step(0, 1, 1, 1, 0, 0)
KEF   == f > 1 /\ e > 0 /\ Step(0, -1, -1, -1, 0, 0)
MEKR  == l > f /\ Step(0, 1, 0, -1, 0, 0)
KEMR  == e > 0 /\ Step(0, -1, 0, 1, 0, 0)
KFMRH == f > 1 /\ Step(0, 0, -1, 0, 0, 1)
MFKRH == g > 0 /\ l > f /\ Step(0, 0, 1, 0, 0, -1)

Next == MVFS \/ KVFS \/ MEV \/ KEV \/ MEF \/ KEF \/ MEKR \/ KEMR \/ KFMRH \/ MFKRH
Spec == Init /\ [][Next]_counts

-----------------------------------------------------------------------------
CountsAreInt == /\ v \in Int /\ e \in Int /\ f \in Int
                /\ l \in Int /\ s \in Int /\ g \in Int
OnThePlane == CountsAreInt /\ Line = 0
=============================================================================
