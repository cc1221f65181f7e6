CONSTANTS
  MaxThreads = 3
  MaxTid = 2
  MaxProcs = 1
  MaxPid = 1
  Timer = timer
  Queues = {timer, key}
  TimerHz = 100
  QuantumMs = 20
  SleepMs = {}
  EventRoom = 2
  Budget = 2
  TimeoutMs = 10
SPECIFICATION WFairSpec
INVARIANTS WakeupsExact SilenceTrips
PROPERTIES UsesScheduler PassEnds TimerWaiterReturns StallStops
CHECK_DEADLOCK FALSE
