SPECIFICATION CCSpec
CONSTANTS
  Tasks = {t1}
  Handles = {hA}
  Chains = {c1, c2}
  Hashes = {x, y}
  ZERO = ZERO
  Capacity = 2
  TTL = 2
  RpcTimeout = 1
  MaxRedeploys = 0
PROPERTIES PositivesPermanent
