CONSTANTS
  MaxParts = 3
  MaxTries = 3
  MaxGeneration = 5
  MaxVersion = 3
SPECIFICATION Spec
CHECK_DEADLOCK FALSE
INVARIANT OutcomeTruthful
PROPERTY OutboxSpec CoarseDelivery
