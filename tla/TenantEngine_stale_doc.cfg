SPECIFICATION Spec
CONSTANTS
  c1 = c1  c2 = c2  a1 = a1  t1 = t1  t2 = t2  p1 = p1  r1 = r1  r2 = r2  r3 = r3
  flat = flat  deep = deep
  Star = Star  Miss = Miss
  Tasks = {c1, c2}
  Admins = {a1}
  Tenants = {t1}
  Principals = {p1}
  Roles = {r1, r2}
  Engines = {deep}
  Config <- MCConfig
  Requests <- EditedRequests
  InitialSources <- EditedSources
  AssignmentPool <- EditedAssignments
  PermissionPool <- EditedPermissions
  MaxEdits = 1
SYMMETRY TaskSymmetry
PROPERTIES InvalidationTakesEffect
