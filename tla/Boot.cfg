SPECIFICATION BootLiveSpec
CONSTANTS
  c1 = c1
  c2 = c2
  HostChains = {c1, c2}
  TaskManagers = {a1}
  ZeroAddress = zero
  Unset = unset
  Partners = {p1, p2, p3}
  Retries = 2
  MinThreshold = 2
  MinTimeoutMs = 50
  Deployments <- MCDeployments
INVARIANTS
  BootTypeOK
  ReadyMeansGated
  KeysNeedQuorum
  RetriesExact
  PartnersTolerated
PROPERTIES
  BootEnds
