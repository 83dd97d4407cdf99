SPECIFICATION FairSpec
CONSTANTS
  q1 = q1  q2 = q2  alice = alice  bob = bob  root = root
  read = read  manage = manage  key1 = key1  key2 = key2
  good = good  other = other  torn = torn  forged = forged
  Requests = {q1, q2}
  TenantSubjects = {alice, bob}
  PlatformSubjects = {root}
  NoOne = NoOne
  Permissions = {read, manage}
  ClaimTypes = {"DefaultClaims", "CustomClaims"}
  Tokens = {good, other, torn, forged}
  Expiring = {good}
  SigningKey <- MCSigningKey
  ClaimedSubject <- MCClaimedSubject
  Undecodable = Undecodable
  BadId = BadId
  Absent = Absent
  NotBearer = NotBearer
  Stacks <- MCStacks
  InitialGrants <- MCInitialGrants
  EditablePairs <- MCEditablePairs
  MaxEdits = 2
INVARIANTS TypeOK ServedIfGranted SeesAuthorized WithinLimit
PROPERTIES StatusTellsWhy AuthenticatedStaysSo RequestsEnd
CHECK_DEADLOCK FALSE
