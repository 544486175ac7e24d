\* Fair scheduling; two processes that publish to two groups, compete for one, and
\* may close; visibility timeouts that run out under what they have in hand.
SPECIFICATION FairSpec
CONSTANTS
  b1 = b1  b2 = b2  p1 = p1  p2 = p2  r1 = r1
  g1 = g1  g2 = g2  m1 = m1  m2 = m2
  Brokers = {b1, b2}
  Processes = {p1, p2}
  Regions = {r1}
  Groups = {g1, g2}
  Messages = {m1}
  Malformed = {}
  Prios = {0}
  MaxMessages = 2
  Environment = {"close", "timeout", "waiting"}
  NoUrl = NoUrl
  MaxCopies = 2
  MaxReceipts = 3
CONSTANT Process <- OwnProcess
CONSTANT Region <- SameRegion
CONSTANT Outcomes <- ReturnOutcome
CONSTANT Subscribers <- FirstGroup
INVARIANTS OneLoopPerCopy ResolvedReachesAll
PROPERTIES EventuallyDeleted
CHECK_DEADLOCK FALSE
