\* One consumer, one message, whose handler calls nack(true) and returns or throws.
SPECIFICATION Spec
CONSTANTS
  c1 = c1  c2 = c2  m1 = m1  m2 = m2
  Consumers = {c1}
  Messages = {m1}
  Malformed = {}
  Concurrency = 1
  Environment = {}
  MaxAttempts = 2
  MaxMalformed = 0
CONSTANT Outcomes <- NackOutcomes
INVARIANT NackedIsRedelivered
CHECK_DEADLOCK FALSE
