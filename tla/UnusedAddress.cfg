\* A call returns and that is all: the end is not a deadlock.
CHECK_DEADLOCK FALSE
SPECIFICATION AlgorithmsSpec
CONSTANTS
  Word = 10
  CT_SIZE_LIMIT = 3
  WordDigits = 4
  AddressDigits = 2
  MAX_SCOPE_ENTRIES = 2
  MAX_U64 = 1000
  Exports = {}
  Ciphertexts = {}
  SignedAnswers = {}
  Texts = {}
  WirePermissions <- MCPermissions
INVARIANT ZeroMeansUnused
