SPECIFICATION Spec
CONSTANTS
  Chat = {c1, c2}
  MaxUpdate = 3
  MaxRounds = 2
  MaxFaults = 2
  None = None
INVARIANTS SavedContinues RunAtMostOnce
PROPERTIES ContinuesThread EveryUpdateTaken
