\* Two processes whose topics share a queue name; requests that fail in the middle of
\* the set-up and are repeated, crashes, closes, timeouts, a body that parses.
SPECIFICATION Spec
CONSTANTS
  b1 = b1  b2 = b2  t1 = t1  t2 = t2  g1 = g1  n1 = n1  m1 = m1  e1 = e1
  Brokers = {b1, b2}
  Topics = {t1, t2}
  Groups = {g1}
  Names = {n1}
  Messages = {m1, e1}
  Enveloped = {e1}
  MaxMessages = 2
  Environment = {"network", "retry", "crash", "timeout", "unensured"}
  Closers = {b1}
  NoTopic = NoTopic
CONSTANT QueueName <- Similar
CONSTANT Topic <- OfFirst
CONSTANT Calls <- TwoProcesses
CONSTANT Outcomes <- SomeOutcomes
INVARIANTS TypeOK ResolvedReachesJoined SubscribedIsAllowed LeavesByAck
PROPERTIES LoopEndsByClose
CHECK_DEADLOCK FALSE
