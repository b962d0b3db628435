CONSTANT NWorkers = 2
SPECIFICATION Spec
INVARIANT FreesAllResources
CHECK_DEADLOCK FALSE
