SPECIFICATION FairBreakerSpec
CONSTANTS
  Request = {r1, r2}
  Policy <- MCPolicies
  Cooldown = 3
  Lease = 2
  MaxThreshold = 3
INVARIANTS
  OpenAfterStreak
PROPERTIES
  ProbesLeaseApart
  NeverLatched
