SPECIFICATION Spec
CONSTANTS
    MaxV = 2
    MaxE = 2
    MaxF = 4
    MaxBodies = 0
    Seeds <- MCSeeds
    Struts <- MCStruts
    Splits <- MCSplits
    Joins <- MCJoins
    Pcurves <- MCNone
    Assemblies <- MCTwoSpheres
INVARIANTS
    FinishedShellsShareNothing
