CONSTANT NWorkers = 3
SPECIFICATION Spec
INVARIANTS TypeOK ReleasedOnce BaseLast InitAllOrNothing ListenerAllOrNothing ThreadsKeepRunning
CHECK_DEADLOCK FALSE
PROPERTY ServesOrReturns
