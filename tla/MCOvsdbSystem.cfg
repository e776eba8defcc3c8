SPECIFICATION Spec
CONSTANTS
  Conns = {1, 2, 3, 4}
  Unread = {3, 4}
  Idls = {"a"}
  MaxConn = 2
  Scenarios <- MCScenarios
  MaxCount = 1
  MaxQueue = 2
  MaxOut = 2
INVARIANTS ReplicaCatchesUp ResultsAreSeen BeliefSettles NoSleepingTrigger
PROPERTY TxnsEnd
CHECK_DEADLOCK FALSE
