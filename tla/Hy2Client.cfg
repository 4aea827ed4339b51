CONSTANTS
    Ops = {d1, d2, d3}
    MaxConcurrentDials = 2
    MaxSequence = 2
SPECIFICATION FairSpec
INVARIANTS StatusOfCurrentGeneration
PROPERTIES OnlyOwnGenerationDrops WaitersServed WorkersPooled
