SPECIFICATION CacheSpec
CONSTANTS
    Orders <- TwoLists
    Max = 2
INVARIANT SafeFromOtherTask
