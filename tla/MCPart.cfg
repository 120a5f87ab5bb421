SPECIFICATION PartSpec
CONSTANTS
    Bodies <- MCBodies
    PcurveAt <- MCPcurveAt
    Travel <- MCTravel
    MaxInterior <- MCMaxInterior
    Sweepings <- MCBlendings
    Rewritten <- MCRewritten
    Given <- MCGiven
INVARIANTS
    TheCheckerFindsNothing
    PartIsWhatWasAsked
    FileReadsBack
    MeshEnclosesTheSweep
    MeshIsTheSurface
    ErrorIsTheFirstFaces
