CONSTANTS
  MaxThreads = 3
  MaxTid = 4
  MaxProcs = 2
  MaxPid = 2
  Queues = {q1}
  TimerHz = 100
  QuantumMs = 20
  SleepMs = {10, 20}
SPECIFICATION CooperativeSpec
INVARIANTS QueuesMatchStates ActiveAddressSpaceAlive ProcessFollowsThread DueSleeperIsNoticed
PROPERTIES ReadyIsFifo OnlyOthersReap ReadyRuns ZombieReclaimed
