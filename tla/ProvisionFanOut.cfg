SPECIFICATION Spec
CONSTANTS
  b1 = b1  b2 = b2  m1 = m1  m2 = m2  m3 = m3  g1 = g1  g2 = g2  o1 = o1  o2 = o2
  Brokers = {b1, b2}
  Messages = {m1, m2, m3}
  Groups = {g1, g2}
  Environment = {"network", "retry", "unensured"}
  Closers = {b1}
  MaxFailed = 1
  Absent = Absent
  Nobody = Nobody
CONSTANT CallsOf <- SomeCalls
CONSTANT GroupNames <- TwoGroups
CONSTANT Options <- OwnOptions
INVARIANTS TypeOK ResolvedReachesAll RetriedStoredOnce EnsuredFindsTopic CloseReleases
CHECK_DEADLOCK FALSE
