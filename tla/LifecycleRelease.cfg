\* Two creates, providers that are missing or registered twice, servers that refuse
\* or drop connections.
SPECIFICATION Spec
CONSTANTS
  p1 = p1  p2 = p2  f1 = f1  f2 = f2  k1 = k1  k2 = k2
  Providers = {p1, p2}
  Factories = {f1}
  Creates = {k1, k2}
  NoFactory = NoFactory
  Environment = {"refused", "reinit", "lost", "channel error"}
  MaxConns = 2
INVARIANTS TypeOK CloseReleases
PROPERTIES ResolvesReady
CHECK_DEADLOCK FALSE
