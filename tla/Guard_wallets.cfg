SPECIFICATION Spec
CONSTANTS
  w1 = w1
  w2 = w2
  k1 = k1
  k2 = k2
  kLong = kLong
  c1 = c1
  c2 = c2
  Wallets = {w1, w2}
  Treasuries = {w2}
  PubKeys = {k1}
  KeyLen <- MCKeyLen
  CredIds = {c1}
  CredLen <- MCCredLen
  Programs = {"app"}
  AppArgs <- OneArg
  Policies <- Conditional
  Fees = {1}
  Ttls = {1}
  MAX_KEYS = 1
  MaxNonce = 1
  InitialLamports = 1
  MaxTime = 1
  MaxSlot = 1
  MaxIx = 3
  MaxApprovals = 1
  MaxEpoch = 0
  UnsignedOps = {"protected"}
CHECK_DEADLOCK FALSE
INVARIANTS TypeOK  
