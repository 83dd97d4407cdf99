SPECIFICATION Spec
CONSTANTS
  r1 = r1  r2 = r2  r3 = r3  r4 = r4
  Roles = {r1, r2, r3, r4}
  EditableRoles = {}
  MaxDepth = 2
SYMMETRY RoleSymmetry
INVARIANTS DepthLimitEnforced
CHECK_DEADLOCK FALSE
