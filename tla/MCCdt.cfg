SPECIFICATION Spec
CONSTANT Inputs <- MCInputs
INVARIANTS
    IsATriangulation
    ConstrainedDelaunay
    CoversTheRegion
    RefusesExactlyTheDegenerate
    RegionQueriesAgree
PROPERTIES
    Terminates
