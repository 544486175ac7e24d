\* A handler throws on one message and acks the next.
SPECIFICATION Spec
CONSTANTS
  c1 = c1  c2 = c2  g1 = g1  g2 = g2  m1 = m1  m2 = m2  m3 = m3
  Clients = {c1}
  Groups = {g1}
  Messages = {m1, m2}
  Malformed = {}
  NumPartitions = 1
  Prios = {0}
  QueueLimit = 9
  CommitDelta = 0
  Environment = {}
  NoOffset = NoOffset
  NoClient = NoClient
  MaxDeliveries = 2
  MaxLog = 2
CONSTANT Outcomes <- AckOrThrow
INVARIANTS NackedIsRedelivered
CHECK_DEADLOCK FALSE
