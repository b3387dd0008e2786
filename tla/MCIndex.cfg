SPECIFICATION FairSpec
CONSTANTS
  Job = {i1}
  IndexJob = {i1}
  Bridge = {b1}
  NoJob = NoJob
  MaxRunning = 1
  MaxQueued = 1
  MaxGeneration = 3
  MaxFaults = 2
INVARIANT IndexWorkerSuperseded
PROPERTY QueueDrains EveryRunEnds
