SPECIFICATION ServerSpec
CONSTANT Client = {c1, c2}
INVARIANT NeverTerminated
INVARIANT NobodyWaitsInVain
PROPERTY StopStops
PROPERTY StopReturns
PROPERTY EveryRequestEnds
CHECK_DEADLOCK FALSE
