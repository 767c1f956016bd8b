SPECIFICATION SLiveSpec
CONSTANTS
  Tasks = {t1, t2}
  Handles = {hA}
  Chains = {c1, c2}
  Hashes = {x, y}
  ZERO = ZERO
  Capacity = 1
  TTL = 2
  RpcTimeout = 1
  MaxRedeploys = 1
INVARIANTS CacheWellFormed CacheAgreesWithRegistry BoundedStaleness NoLostCommitment
PROPERTIES WarmEntriesSurvive LookupEnds StaleEntriesDie
