SPECIFICATION Spec
CONSTANTS
    a = a
    b1 = b1
    b2 = b2
    c1 = c1
    c2 = c2
    d = d
    role = role
    Entities <- MCEntities
    Roles = {role}
    First = {a}
    New <- MCNew
    MaxEntries <- MCMaxEntries
SYMMETRY MCSymmetry
INVARIANTS
    ChainsAgree
    OrderNests
    ChainsAccount
CHECK_DEADLOCK FALSE
