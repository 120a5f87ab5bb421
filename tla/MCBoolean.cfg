SPECIFICATION Spec
CONSTANTS
    Recipes <- AllRecipes
    StoreOf <- BoxStore
    BodyOf <- BodyOfBox
INVARIANTS
    ResultIsTheSet
    RefusesExactly
    ClosedShellsInOrder
    PiecesTile
    RecordIsTrue
    ComponentsAreClasses
