SPECIFICATION Spec
CHECK_DEADLOCK FALSE
SYMMETRY Symmetry
CONSTANTS
  c1 = c1  c2 = c2  u1 = u1  u2 = u2
  Calls = {c1, c2}
  Uids = {u1, u2}
  Hrefs = {u1, u2}
  NoUid = NoUid
  None = None
  MaxWrites = 3

PROPERTIES OtherFieldsSurvive
