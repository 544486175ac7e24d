\* One process, nothing fails.
SPECIFICATION FairSpec
CONSTANTS
  b1 = b1  b2 = b2  t1 = t1  t2 = t2  g1 = g1  n1 = n1  m1 = m1  e1 = e1
  Brokers = {b1}
  Topics = {t1}
  Groups = {g1}
  Names = {n1}
  Messages = {m1, e1}
  Enveloped = {e1}
  MaxMessages = 2
  Environment = {}
  Closers = {}
  NoTopic = NoTopic
CONSTANT QueueName <- Similar
CONSTANT Topic <- OfFirst
CONSTANT Calls <- OneCall
CONSTANT Outcomes <- SomeOutcomes
PROPERTIES CopyIsHandled
CHECK_DEADLOCK FALSE
