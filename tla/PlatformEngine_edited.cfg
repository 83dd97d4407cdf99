SPECIFICATION Spec
CONSTANTS
  t1 = t1  t2 = t2  p1 = p1  r1 = r1  r2 = r2
  Star = Star
  Principals = {p1}
  Roles = {r1, r2}
  Tenants = {t1, t2}
  ScopePaths <- MCScopePaths
  Engines <- MCEngines
  MaxDepth = 1
  Requests <- MCRequests
  InitialSources <- MCSources
  AssignmentPool <- MCAssignmentPool
  PermissionPool <- MCPermissionPool
  MaxEdits = 2
INVARIANTS TypeOK NothingInvented NothingLost MixedGrantsRefused
CHECK_DEADLOCK FALSE
