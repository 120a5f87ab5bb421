---------------------------- MODULE MCOperation ----------------------------
(* Operation on small instances. *)
EXTENDS Operation

MCSeeds == {[surf |-> 1, dir |-> FORWARD]}
MCStruts == {[deg |-> FALSE, pcs |-> <<<<"p">>, <<"q">>>>]}
MCSplits == {[deg |-> FALSE, surf |-> 1, dir |-> o, pcs |-> <<<<"p">>, <<"q">>>>] :
               o \in {FORWARD, REVERSED}}
MCJoins == {[deg |-> FALSE, pcs |-> <<<<"p">>, <<"q">>>>]}

NewV == [keep |-> 0]
NewE(i, j) == [keep |-> 0, start |-> New(i), end |-> New(j), deg |-> FALSE]
U(i, dir) == Use(New(i), dir, <<"p">>)
FaceOf(dir, loops) == [keep |-> 0, surf |-> 1, dir |-> dir, loops |-> loops]

\* Two faces over one closed edge.
Sphere(e) == <<FaceOf(FORWARD, <<<<U(e, FORWARD)>>>>),
               FaceOf(REVERSED, <<<<U(e, REVERSED)>>>>)>>
OneSphere == [vertices |-> <<NewV>>, edges |-> <<NewE(1, 1)>>, shells |-> <<Sphere(1)>>]
TwoSpheres == [vertices |-> <<NewV, NewV>>, edges |-> <<NewE(1, 1), NewE(2, 2)>>,
               shells |-> <<Sphere(1), Sphere(2)>>]
\* One face over two closed edges at one vertex.
Torus == [vertices |-> <<NewV>>, edges |-> <<NewE(1, 1), NewE(1, 1)>>,
          shells |-> <<<<FaceOf(FORWARD, <<<<U(1, FORWARD), U(2, FORWARD),
                                             U(1, REVERSED), U(2, REVERSED)>>>>)>>>>]
\* A seamed patch, against its surface, between a pole, a degenerate edge
\* used once, and a circle.
Cap == [vertices |-> <<NewV, NewV>>,
        edges |-> <<NewE(1, 1), NewE(1, 2), [NewE(2, 2) EXCEPT !.deg = TRUE]>>,
        shells |-> <<<<FaceOf(REVERSED, <<<<U(1, FORWARD), U(2, FORWARD), U(3, FORWARD),
                                            U(2, REVERSED)>>>>),
                       FaceOf(FORWARD, <<<<U(1, REVERSED)>>>>)>>>>]
\* What is refused: an open loop, and an edge used twice the same way.
Refusals == {
    [OneSphere EXCEPT !.vertices = <<NewV, NewV>>, !.edges = <<NewE(1, 2)>>],
    [OneSphere EXCEPT !.shells = <<<<FaceOf(FORWARD, <<<<U(1, FORWARD)>>, <<U(1, FORWARD)>>>>)>>>>]}

MCAssemblies == {OneSphere, Torus, Cap} \cup Refusals
MCTwoSpheres == {TwoSpheres}
MCNone == {}
=============================================================================
