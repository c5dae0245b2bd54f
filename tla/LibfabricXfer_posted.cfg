SPECIFICATION LfSpec
CONSTANTS
    LfRails = 2
    LfDescs = 3
    LfPosts = 1
    LfThreads = {0,2}
    LfDepth = 1
    LfRingSize = 1
    LfFrags = 2
    LfGenNotifs = 1
    LfFaults = 1
CHECK_DEADLOCK FALSE
INVARIANTS
    LfPostedIsComplete
