SPECIFICATION Spec
CONSTANTS
    Recipes <- FlushSeam
    StoreOf <- BoxStore
    BodyOf <- BodyOfBox
INVARIANTS
    RefusesExactly
