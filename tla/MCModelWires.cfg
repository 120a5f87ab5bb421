SPECIFICATION Spec
CONSTANTS
    GenModulus = 4
    GenLimit = 1
    MaxDepth = 1
    RetainInTx = FALSE
    Dangling = TRUE
    MaxV = 2
    MaxE = 2
    MaxF = 0
    MaxS = 0
    MaxB = 1
    MaxSlots <- MCMaxSlots
    FaceShapes <- MCFaceShapes
    ShellShapes <- MCShellShapes
    BodyShapes <- MCWires
INVARIANTS
    VertexEdgesExact
    RollbackRestoresModel
    ImportIsAllOrNothing
