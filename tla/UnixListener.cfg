CONSTANTS
  p1 = p1
  p2 = p2
  User = User
  Processes = {p1, p2}
  Inodes = {1, 2, 3, 4}
SPECIFICATION Spec
INVARIANTS
  OnlyOwnRestricted
  NothingLeftBehind
PROPERTIES
  OnlyOwnRemoved
