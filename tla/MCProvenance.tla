--------------------------- MODULE MCProvenance ---------------------------
(* Provenance on a small chain: a body of one entity, one role, and three  *)
(* operations that may make two entities, two, and one.  What the same     *)
(* operation makes is interchangeable until a record lists it.             *)
EXTENDS Provenance

CONSTANTS a, b1, b2, c1, c2, d, role

MCEntities == {a, b1, b2, c1, c2, d}
MCNew == <<{b1, b2}, {c1, c2}, {d}>>
MCMaxEntries == <<2, 3, 1>>
MCSymmetry == Permutations({b1, b2}) \cup Permutations({c1, c2})
=============================================================================
