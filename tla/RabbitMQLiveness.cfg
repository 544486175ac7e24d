\* Fair scheduling; handlers that come to a decision, then return or throw;
\* connections that are lost, restarts, missing queues, messages that do not parse.
SPECIFICATION FairSpec
CONSTANTS
  c1 = c1  c2 = c2  g1 = g1  g2 = g2  m1 = m1  m2 = m2
  Clients = {c1, c2}
  Groups = {g1}
  Messages = {m1, m2}
  Malformed = {m2}
  Prefetch = 1
  MaxDeliveries = 2
  Environment = {"connection", "restart", "unensured"}
CONSTANT Outcomes <- DecidedOutcomes
INVARIANTS IInv
PROPERTIES EventuallySettled PublishSettles
CHECK_DEADLOCK FALSE
