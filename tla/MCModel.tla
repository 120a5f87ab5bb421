------------------------------ MODULE MCModel ------------------------------
(* Model on small instances: a wire instance, where bodies carry free edges *)
(* and vertices and nothing else, and a face instance over few edges.       *)
EXTENDS Model

CONSTANTS MaxV, MaxE, MaxF, MaxS, MaxB

MCMaxSlots == [vertex |-> MaxV, edge |-> MaxE, face |-> MaxF, shell |-> MaxS,
               body |-> MaxB]

\* One loop of one edge, one of an edge used twice (a seam), and
\* a loop and a hole.
MCFaceShapes(es) ==
    {<<<<e>>>> : e \in es} \cup {<<<<e, e>>>> : e \in es}
        \cup {<<<<p[1]>>, <<p[2]>>>> : p \in {q \in es \X es : q[1] # q[2]}}

\* Shells of two uses of the faces there are, of one face twice among them.
MCShellShapes(fs) == {<<f, g>> : f, g \in fs}

\* A body of a free edge, or of a free vertex.
Wire(es, vs) == [shells |-> <<>>, edges |-> es, verts |-> vs]
MCWires(shells, edges, verts) ==
    {Wire(<<e>>, <<>>) : e \in edges} \cup {Wire(<<>>, <<v>>) : v \in verts}
MCSheets(shells, edges, verts) ==
    {[shells |-> <<s>>, edges |-> <<>>, verts |-> <<>>] : s \in shells}
=============================================================================
