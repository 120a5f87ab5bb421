SPECIFICATION PartSpec
CONSTANTS
    Bodies <- NoBodies
    PcurveAt <- MCPcurveAt
    Travel <- MCTravel
    MaxInterior <- MCMaxInterior
    Sweepings <- MCHalves
    Rewritten <- MCRewritten
    Given <- NoBodies
INVARIANTS
    TheCheckerFindsNothing
