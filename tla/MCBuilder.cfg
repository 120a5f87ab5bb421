SPECIFICATION Spec
CONSTANTS
    MaxV = 2
    MaxE = 2
    MaxF = 2
    Seeds <- MCSeeds
    Struts <- MCStruts
    Splits <- MCSplits
    Joins <- MCJoins
    Pcurves <- MCPcurves
    Starts <- MCStarts
INVARIANTS
    ClosedManifold
    UndoRestores
PROPERTIES
    ImplementsEulerPlane
