------------------------------- MODULE MCCdt -------------------------------
(***************************************************************************)
(* Every quadrilateral of the 3 x 3 lattice that starts at a chosen corner *)
(* - simple, crossed and repeated ones - with and without an interior      *)
(* point, every pair of triangles of a smaller lattice, and named inputs   *)
(* on larger ones.                                                         *)
(***************************************************************************)
EXTENDS Cdt

One(points) == [polygons |-> <<points>>, interior |-> <<>>]
With(points, interior) == [polygons |-> <<points>>, interior |-> interior]
Several(polygons, interior) == [polygons |-> polygons, interior |-> interior]

Grid3 == (0 .. 2) \X (0 .. 2)
Quads == {One(<<<<0, 0>>, a, b, c>>) : a, b, c \in Grid3}
Centred == {With(<<a, b, c>>, <<p>>) : a \in {<<0, 0>>}, b, c \in Grid3, p \in {<<1, 1>>, <<1, 0>>}}
Nested == {Several(<<<<<<0, 0>>, <<4, 0>>, <<4, 4>>, <<0, 4>>>>, <<a, b, c>>>>, <<<<3, 1>>>>)
             : a \in {<<1, 1>>}, b, c \in (1 .. 3) \X (1 .. 4)}

\* Four thin holes around a point: the walk to it goes round them.
Pinwheel == Several(<<<<<<-4, -4>>, <<4, -4>>, <<4, 4>>, <<-4, 4>>>>,
                      <<<<3, 2>>, <<2, -1>>, <<1, -2>>>>, <<<<-2, 3>>, <<1, 2>>, <<2, 1>>>>,
                      <<<<-3, -2>>, <<-2, 1>>, <<-1, 2>>>>, <<<<2, -3>>, <<-1, -2>>, <<-2, -1>>>>>>,
                    <<<<0, 0>>>>)
\* A segment that passes on both sides of a vertex of degree three, so the
\* pseudo-polygon it leaves has a vertex twice.
Dangling == Several(<<<<<<0, 0>>, <<8, 1>>, <<3, 8>>>>, <<<<3, 1>>, <<4, 2>>, <<6, 1>>>>,
                      <<<<5, 0>>, <<5, -1>>, <<6, -3>>>>>>, <<>>)
\* A ring that winds twice, and two rings one of which winds the other way.
Twice == One(<<<<0, 0>>, <<6, 0>>, <<3, 5>>, <<1, 2>>, <<5, 2>>, <<3, 1>>>>)
Comb == With(<<<<0, 0>>, <<6, 0>>, <<6, 4>>, <<5, 1>>, <<4, 4>>, <<3, 1>>, <<2, 4>>, <<1, 1>>, <<0, 4>>>>,
             <<<<2, 1>>, <<4, 2>>, <<6, 6>>>>)
Named == {Pinwheel, Dangling, Twice, Comb,
          Several(<<<<<<0, 0>>, <<3, 0>>, <<0, 3>>>>, <<<<0, 0>>, <<3, 0>>, <<3, -3>>>>>>, <<>>),
          Several(<<<<<<0, 0>>, <<6, 0>>, <<6, 6>>, <<0, 6>>>>, <<<<1, 1>>, <<5, 1>>, <<5, 5>>, <<1, 5>>>>,
                    <<<<2, 2>>, <<2, 4>>, <<4, 4>>, <<4, 2>>>>>>, <<<<3, 3>>, <<1, 3>>>>)}

MCInputs == Quads \cup Centred \cup Nested \cup Named
=============================================================================
