SPECIFICATION AuthoritySpec
CONSTANTS
  w1 = w1
  w2 = w2
  k1 = k1
  c1 = c1
  p1 = p1
  b1 = b1
  v1 = v1
  v2 = v2
  Wallets = {w1, w2}
  AppArgs <- MCArgs
  PubKeys = {k1}
  MaxNonce = 2
  MaxIx = 3
  MaxApprovals = 1
  Targets = {p1}
  Buffers = {b1}
  Codes = {v1, v2}
  Policies = {}
  Treasuries = {w1}
  KeyLen <- MCKeyLen
  CredIds = {c1}
  CredLen <- MCCredLen
  Programs = {"trana_authority"}
  Fees = {0}
  Ttls = {1}
  MAX_KEYS = 1
  MaxEpoch = 0
  UnsignedOps = {}
  InitialLamports = 0
  MaxTime = 0
  MaxSlot = 0
CHECK_DEADLOCK FALSE
INVARIANTS AuthorityTypeOK ProofConsumedOnlyByAction 
 
