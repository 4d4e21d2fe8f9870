SPECIFICATION Spec
CONSTANTS
  w1 = w1
  w2 = w2
  k1 = k1
  k2 = k2
  kLong = kLong
  c1 = c1
  c2 = c2
  Wallets = {w1}
  Treasuries = {w2}
  PubKeys = {k1}
  KeyLen <- MCKeyLen
  CredIds = {c1}
  CredLen <- MCCredLen
  Programs = {"app"}
  AppArgs <- OneArg
  Policies <- OnlyRequire
  Fees = {1}
  Ttls = {1}
  MAX_KEYS = 1
  MaxNonce = 2
  InitialLamports = 1
  MaxTime = 0
  MaxSlot = 0
  MaxIx = 3
  MaxApprovals = 2
  MaxEpoch = 1
  UnsignedOps = {}
CHECK_DEADLOCK FALSE
INVARIANT ConsumedNonceStaysInvalid
