SPECIFICATION Spec
CONSTANTS
  w1 = w1
  w2 = w2
  k1 = k1
  k2 = k2
  kLong = kLong
  c1 = c1
  c2 = c2
  Wallets = {w1}
  Treasuries = {w1}
  PubKeys = {k1, k2, kLong}
  KeyLen <- MCKeyLen
  CredIds = {c1, c2}
  CredLen <- MCCredLen
  Programs = {}
  AppArgs = {}
  Policies = {}
  Fees = {0}
  Ttls = {1}
  MAX_KEYS = 2
  MaxNonce = 2
  InitialLamports = 1
  MaxTime = 0
  MaxSlot = 0
  MaxIx = 4
  MaxApprovals = 2
  MaxEpoch = 1
  UnsignedOps = {}
SYMMETRY Symmetry
CHECK_DEADLOCK FALSE
INVARIANT AtLeastOneKeyRemains
