SPECIFICATION ScenarioSpec
CONSTANTS
  r1 = r1
  r2 = r2
  u1 = u1
  u2 = u2
  d1 = d1
  d2 = d2
  Replicas = {r1}
  Users = {u1}
  All = All
  Domains <- BothDomains
  Writers = {r1}
  Subscribers = {r1}
  Lookups <- LocalLookup
  Changed <- LocalChanges
  FaultKinds = {"incr", "publish", "subscribe", "read", "lose", "disconnect"}
  MaxMutations = 2
  MaxFaults = 1
  MaxCrashes = 1
INVARIANT NoEntryOlderThanInvalidation
INVARIANT HealthyIsQuiescent
INVARIANT CacheInvariants
INVARIANT RecordsAreTrue
PROPERTY NothingReturns
