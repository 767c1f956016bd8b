SPECIFICATION Spec
CONSTANTS
  Tasks = {r1, r2, r3}
  Handles = {h1}
  Chains = {c1}
  Hashes = {x}
  ZERO = ZERO
  Capacity = 1
  TTL = 1
  RpcTimeout = 1
  MaxRedeploys = 0
  Bytes = {b1}
  Keccak <- OneKeccak
  Acps = {p1}
  NoAcp = NoAcp
  AclChains = {c1}
  HandleType <- AllU8
  HandleZone <- AllZone0
  WireTypes = {"u8"}
  Types = {"u8"}
  Zones = {0}
  AcpGate = FALSE
  CommitmentGate = FALSE
  WarnOnly = FALSE
  AdmitCap = 2
  DecryptCap = 1
  PollCap = 1
  Inputs <- V2Callers
  Replies <- OneRow
  Faults = {}
  NoInput = NoInput
  NoCt = NoCt
  h1 = h1
  h2 = h2
  c1 = c1
  c2 = c2
  p1 = p1
  x = x
  y = y
  b1 = b1
  b2 = b2
SYMMETRY Symmetry
INVARIANTS AdmitConserved CpuCapped QueueExact PollsOwnResult
