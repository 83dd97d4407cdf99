SPECIFICATION Spec
CONSTANTS
  c1 = c1  c2 = c2  a1 = a1  t1 = t1  t2 = t2  p1 = p1  r1 = r1  r2 = r2  r3 = r3
  flat = flat  deep = deep
  Star = Star  Miss = Miss
  Tasks = {c1, c2}
  Admins = {}
  Tenants = {t1, t2}
  Principals = {p1}
  Roles = {r1, r2, r3}
  Engines = {flat, deep}
  Config <- MCConfig
  Requests <- QuietRequests
  InitialSources <- QuietSources
  AssignmentPool = {}
  PermissionPool <- QuietPermissions
  MaxEdits = 0
SYMMETRY TaskSymmetry
INVARIANTS FencedEntriesExact
PROPERTIES AnswersExact
