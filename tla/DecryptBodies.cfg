SPECIFICATION MetricsSpec
CONSTANTS
  Tasks = {r1}
  Handles = {h1, h2}
  Chains = {c1, c2}
  Hashes = {x}
  ZERO = ZERO
  Capacity = 1
  TTL = 1
  RpcTimeout = 1
  MaxRedeploys = 0
  Bytes = {b1}
  Keccak <- OneKeccak
  Acps = {p1}
  NoAcp = NoAcp
  AclChains = {c1}
  HandleType <- MixedTypes
  HandleZone <- MixedZones
  WireTypes = {"u8", "u16", "u512"}
  Types = {"u8", "u16"}
  Zones = {0, 1}
  AcpGate = TRUE
  CommitmentGate = TRUE
  WarnOnly = FALSE
  AdmitCap = 2
  DecryptCap = 1
  PollCap = 1
  Inputs <- AllBodies
  Replies <- AllRows
  Faults <- AllFaults
  NoInput = NoInput
  NoCt = NoCt
  h1 = h1
  h2 = h2
  c1 = c1
  c2 = c2
  p1 = p1
  x = x
  y = y
  b1 = b1
  b2 = b2
  Unset = Unset
  Visits <- OtherTraffic
  MaxVisits = 1
INVARIANTS MetadataBound CountedOnce DurationsMeanDecrypts
