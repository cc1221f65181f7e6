CONSTANTS
  MaxThreads = 4
  MaxTid = 3
  MaxProcs = 0
  MaxPid = 0
  Queues = {waiters}
  Waiters = waiters
  TimerHz = 100
  QuantumMs = 20
  SleepMs = {10}
SPECIFICATION MFairSpec
INVARIANTS MutualExclusion NoLostWakeup
PROPERTIES FifoHandOff WaiterGetsIn
