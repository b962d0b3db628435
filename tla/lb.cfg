CONSTANTS
  NWorkers = 2
  Balances = {1, 2}
  MaxConns = 3
  MaxTimeouts = 1
SPECIFICATION Spec
INVARIANTS TypeOK Conservation NoLostWakeup SentOnce RoundRobinFair RepliesNameTheirWorker
PROPERTIES EventuallyServed ImplementsDispatch
