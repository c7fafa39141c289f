SPECIFICATION FairSpec
CONSTANTS
    BufferLen = 7
    HdrLen = 2
    Lens = {1, 2, 3}
    Vals = {1, 2}
INVARIANTS
    IInv
    BlocksWhole
PROPERTIES
    NoOverwrite
    FifoOrder
    ImplementsFifo
