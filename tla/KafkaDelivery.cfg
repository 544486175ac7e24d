\* Fair scheduling; two members of a group, any handler, a malformed value, processes
\* that crash and brokers that close while they publish.
SPECIFICATION FairSpec
CONSTANTS
  c1 = c1  c2 = c2  g1 = g1  g2 = g2  m1 = m1  m2 = m2  m3 = m3
  Clients = {c1, c2}
  Groups = {g1}
  Messages = {m1, m2}
  Malformed = {m2}
  NumPartitions = 1
  Prios = {0}
  QueueLimit = 1
  CommitDelta = 0
  Environment = {"crash", "close"}
  NoOffset = NoOffset
  NoClient = NoClient
  MaxDeliveries = 3
  MaxLog = 2
CONSTANT Outcomes <- AnyOutcome
INVARIANTS TypeOK CommitComesFromAck StoredOnce
PROPERTIES CatchesUp
CHECK_DEADLOCK FALSE
