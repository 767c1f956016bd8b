SPECIFICATION Spec
CONSTANTS
  Tasks = {r1, r2}
  Handles = {h1}
  Chains = {c1}
  Hashes = {x, y}
  ZERO = ZERO
  Capacity = 1
  TTL = 1
  RpcTimeout = 1
  MaxRedeploys = 1
  Bytes = {b1, b2}
  Keccak <- MCKeccak
  Acps = {p1}
  NoAcp = NoAcp
  AclChains = {c1}
  HandleType <- AllU8
  HandleZone <- AllZone0
  WireTypes = {"u8"}
  Types = {"u8"}
  Zones = {0}
  AcpGate = TRUE
  CommitmentGate = TRUE
  WarnOnly = FALSE
  AdmitCap = 2
  DecryptCap = 1
  PollCap = 1
  Inputs <- TwoCallers
  Replies <- EitherBytes
  Faults = {}
  NoInput = NoInput
  NoCt = NoCt
  h1 = h1
  h2 = h2
  c1 = c1
  c2 = c2
  p1 = p1
  x = x
  y = y
  b1 = b1
  b2 = b2
SYMMETRY Symmetry
INVARIANTS TypeOK AuthorisedOnly CommittedOnly RefusedRightly DenialWins
PROPERTIES ImplementsDecryptor
