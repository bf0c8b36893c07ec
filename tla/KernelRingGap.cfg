SPECIFICATION Spec
CONSTANTS
    Word = 64
    GuestRam <- TwoRegions
    Sizes = {1, 2}
    Configs <- RingConfigs
    MaxSize = 2
    MaxRegions = 2
    MaxCalls = 2
INVARIANT ValidRingIsMapped
