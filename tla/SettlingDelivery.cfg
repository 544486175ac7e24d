\* Six adapters, two consumers, most handlers, a message that does not parse or cannot
\* be read, locks that run out under a handler, closes and crashes.
SPECIFICATION FairSpec
CONSTANTS
  c1 = c1  c2 = c2  m1 = m1  m2 = m2
  Consumers = {c1, c2}
  Messages = {m1, m2}
  Malformed = {m2}
  Concurrency = 2
  Environment = {"close", "crash", "timeout", "read error", "settle error"}
  MaxAttempts = 2
  MaxMalformed = 1
CONSTANT Outcomes <- SomeOutcomes
INVARIANTS TypeOK SettledAsMeant NothingForgotten
PROPERTIES HandedOn
CHECK_DEADLOCK FALSE
