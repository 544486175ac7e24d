\* One loop, batches of two, messages that do not parse, any handler, requests that
\* fail, timeouts that run out under a handler.
SPECIFICATION FairSpec
CONSTANTS
  b1 = b1  b2 = b2  p1 = p1  p2 = p2  r1 = r1
  g1 = g1  g2 = g2  m1 = m1  m2 = m2
  Brokers = {b1}
  Processes = {p1}
  Regions = {r1}
  Groups = {g1}
  Messages = {m1, m2}
  Malformed = {m2}
  Prios = {0, 1}
  MaxMessages = 2
  Environment = {"network", "timeout", "waiting", "retry", "close", "unensured", "deleted"}
  NoUrl = NoUrl
  MaxCopies = 2
  MaxReceipts = 2
CONSTANT Process <- SameProcess
CONSTANT Region <- SameRegion
CONSTANT Outcomes <- AnyOutcome
CONSTANT Subscribers <- AllSubscribe
INVARIANTS TypeOK DeletedByAckOrReturn ResolvedReachesAll
PROPERTIES LoopGoesOn
CHECK_DEADLOCK FALSE
