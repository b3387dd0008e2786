CONSTANTS
  Analytic <- Middle
  MaxUpdate = 4
  MaxQueued = 1
  MaxFaults = 2
SPECIFICATION FairSpec
INVARIANT AdmittedOnce NothingHidden AcceptedExists LegacyAtMostOnce
PROPERTY CommandsDecided
