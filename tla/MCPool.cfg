SPECIFICATION FairSpec
CONSTANTS
  Job = {j1, j2, i1}
  IndexJob = {i1}
  Bridge = {b1, b2}
  NoJob = NoJob
  Home = b1
  Guest = j2
  MaxRunning = 1
  MaxQueued = 2
  MaxGeneration = 1
  MaxFaults = 1
CONSTRAINT QueueBound
ACTION_CONSTRAINT DiesAtLaunch
INVARIANT WithinCapacity
PROPERTY QueueDrains
