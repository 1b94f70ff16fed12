SPECIFICATION PollFairSpec
CONSTANTS
    N = 4
    LiveShare = 2
    LateShare = 1
    Pages = {1}
    MinPolled = 2
CHECK_DEADLOCK FALSE
INVARIANTS ListIsFull PrefixesAreShared
PROPERTIES NeverStarved
