SPECIFICATION HttpFairSpec
CONSTANTS
  Conns = {c1, c2}
  Bodies = {"valid", "malformed", "refused"}
  MaxRequests = 2
INVARIANTS
  TypeOK
  RunEndsCleanly
  RequestsAreServed
PROPERTIES
  NobodyWaitsForever
