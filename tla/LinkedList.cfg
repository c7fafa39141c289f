SPECIFICATION Spec
CONSTANTS
    N = 5
    MaxList = 2
INVARIANT
    ListInv
PROPERTY
    ImplementsLists
