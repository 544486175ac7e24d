\* One group, two competing consumers that also publish, any handler, channels
\* that close or fail: the group-delivery contract.
SPECIFICATION Spec
CONSTANTS
  c1 = c1  c2 = c2  g1 = g1  g2 = g2  m1 = m1  m2 = m2
  Clients = {c1, c2}
  Groups = {g1}
  Messages = {m1}
  Malformed = {}
  Prefetch = 1
  MaxDeliveries = 2
  Environment = {"close", "connection"}
CONSTANT Outcomes <- AnyOutcome
INVARIANTS TypeOK HeldOnce GoneOnHandlersWord ConsumingIsBound OnlyThrowSettlesTwice
PROPERTIES FirstSettlementFinal StartedIsHeld CloseLosesNothing ImplementsGroupDelivery
CHECK_DEADLOCK FALSE
