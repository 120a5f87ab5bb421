----------------------------- MODULE MCBuilder -----------------------------
(* Builder on small instances. *)
EXTENDS Builder

MCSeeds == {[surf |-> 1, dir |-> FORWARD]}
MCStruts == {[deg |-> FALSE, pcs |-> <<<<"p">>, <<"q">>>>]}
MCSplits == {[deg |-> FALSE, surf |-> 1, dir |-> REVERSED, pcs |-> <<<<"p">>, <<"q">>>>],
             [deg |-> TRUE, surf |-> 1, dir |-> FORWARD, pcs |-> <<<<"p">>, <<"q">>>>]}
MCJoins == {[deg |-> d, pcs |-> <<<<"p">>, <<"q">>>>] : d \in BOOLEAN}
MCPcurves == {<<"q">>}
MCStarts == {EmptyBuilder}
=============================================================================
