SPECIFICATION Spec
CONSTANTS
  Job = {j1}
  IndexJob = {}
  Bridge = {b1, b2}
  NoJob = NoJob
  MaxRunning = 1
  MaxQueued = 1
  MaxGeneration = 3
  MaxFaults = 2
SYMMETRY ListenerSymmetry
CONSTRAINT OuterTimesOut
INVARIANTS ExecutorOwnsGeneration CancelNotLost OutcomeHasResult
PROPERTIES LifecycleSpec
