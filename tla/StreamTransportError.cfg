SPECIFICATION FairSpec
CONSTANT MaxEvents = 7
INVARIANT EveryEventYielded
CHECK_DEADLOCK FALSE
