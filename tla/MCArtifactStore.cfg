SPECIFICATION Spec
CHECK_DEADLOCK FALSE
CONSTANTS
  Client = {c1, c2}
  Id = {i0, i1, i2, i3}
  First = i0
  Content = {good, bad}
  Empty = bad
  Good = {good}
  None = None
SYMMETRY MCSymmetry
INVARIANTS ContentAsPromised NoLitter FileSurvives
