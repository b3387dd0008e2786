SPECIFICATION ActionsSpec
CONSTANTS
  Client = {c1, c2}
  hh = hh
  v1 = v1
  app = app
  cv1 = cv1
  cv2 = cv2
  hr = hr
  Ref = {hh, v1, app, cv1, cv2, hr}
  NoRef = NoRef
  Shape <- MCShape
  ApprovalKey = {p1, p2}
  ActionKey = {a1}
  NoRow = NoRow
SYMMETRY MCSymmetry
INVARIANT CompletedWasApproved
PROPERTY ReviewStands
