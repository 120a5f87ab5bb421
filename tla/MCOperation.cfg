SPECIFICATION Spec
CONSTANTS
    MaxV = 1
    MaxE = 1
    MaxF = 2
    MaxBodies = 2
    Seeds <- MCSeeds
    Struts <- MCStruts
    Splits <- MCSplits
    Joins <- MCJoins
    Pcurves <- MCNone
    Assemblies <- MCAssemblies
INVARIANTS
    KeepingIsSound
    BodiesAreClosed
    ReadBackIsFinished
    OperatorsKeepWhatAssembleProves
