SPECIFICATION Spec
CONSTANTS
    GenModulus = 4
    GenLimit = 1
    MaxDepth = 1
    RetainInTx = FALSE
    Dangling = FALSE
    MaxV = 1
    MaxE = 2
    MaxF = 2
    MaxS = 1
    MaxB = 1
    MaxSlots <- MCMaxSlots
    FaceShapes <- MCFaceShapes
    ShellShapes <- MCShellShapes
    BodyShapes <- MCSheets
INVARIANTS
    IndexListsExact
    ReferencesResolve
    ImportIsADeepCopy
