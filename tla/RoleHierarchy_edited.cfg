SPECIFICATION FairSpec
CONSTANTS
  r1 = r1  r2 = r2  r3 = r3  r4 = r4
  Roles = {r1, r2, r3}
  EditableRoles = {r1, r2}
  MaxDepth = 2
INVARIANTS StackIsChain OutputIsVisited
PROPERTIES Terminates
CHECK_DEADLOCK FALSE
