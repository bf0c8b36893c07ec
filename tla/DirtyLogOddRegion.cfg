SPECIFICATION Spec
CONSTANTS
    PageSize = 2
    WordSize = 2
    MaxAddr = 7
    NumRegions = 1
    StartAddr <- OddStart
    Length <- OddLength
    w1 = w1
    w2 = w2
    Writers = {w1, w2}
    MaxLogs = 2
    LogLens = {1, 2}
    Offsets = {0, 3, 7}
    Lens = {0, 1, 7}
    NoBitmap = NoBitmap
INVARIANT WritesAreLogged
