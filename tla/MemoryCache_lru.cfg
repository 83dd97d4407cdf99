SPECIFICATION Spec
CONSTANTS
  c1 = c1  c2 = c2  c3 = c3
  t1 = t1  t2 = t2  p1 = p1  p2 = p2  sig1 = sig1  sig2 = sig2
  g1 = g1  g2 = g2
  Miss = Miss
  NoTtl = NoTtl
  Clients = {c1, c2, c3}
  Tenants = {t1, t2}
  Principals = {p1, p2}
  Signatures = {sig1, sig2}
  Grants = {g1}
  Keys <- FiveKeys
  Hash <- FiveHash
  Ttl <- NoTtlForAll
  Capacity = 3
  RequestedShards = 2
  MaxTime = 0
SYMMETRY ClientSymmetry
INVARIANTS TypeOK ShardsCoherent ShardsWithinCapacity WithinCapacity InvalidationComplete
PROPERTIES LossJustified OrderIsRecency
