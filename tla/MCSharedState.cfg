SPECIFICATION AllSpec
CONSTANTS
  Agents = {a, b}
  Capacity = 7
  Cost = 3
  Refill = 1
  Second = 2
  MaxTime = 8
  Resources = {"workers", "tunnels"}
  Keys <- RouteKeys
  ResourceOf <- TablesOf
  TTL <- RouteTTL
  Readers = {c1}
  Writers <- Routes
  Invalidates <- RouteInvalidates
  Writes <- RouteWrites
  Creates = {"create"}
  MaxLoad = 1
  CacheTime = 4
  MaxVersion = 3
  Events = {e, f}
  Reports <- ThreeReports
  Jobs = {"j"}
  Origins = {"s", "t"}
  Rollers = {q}
  Limit = 2
  MaxCrashes = 1
  c1 = c1
  e = e
  f = f
  q = q
CHECK_DEADLOCK FALSE
INVARIANTS WindowBound CacheConsistent ConnectionConsistent
PROPERTIES AnswersHold
