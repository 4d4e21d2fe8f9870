SPECIFICATION VaultSpec
CONSTANTS
  w1 = w1
  w2 = w2
  k1 = k1
  c1 = c1
  pool = pool
  Wallets = {w1}
  AppArgs <- OneDestination
  Policies <- VaultPolicies
  PubKeys = {k1}
  MaxNonce = 3
  InitialLamports = 4
  MaxTime = 3
  MaxSlot = 4
  MaxIx = 3
  MaxApprovals = 2
  Pools = {pool}
  PoolKinds = {"Limit"}
  Deposited = {4}
  WITHDRAW_LIMIT = 2
  DRAIN_WINDOW = 2
  COOLDOWN_SLOTS = 2
  StartSlot = 2
  Treasuries = {w1}
  KeyLen <- MCKeyLen
  CredIds = {c1}
  CredLen <- MCCredLen
  Programs = {"trana_test_vault"}
  Fees = {0}
  Ttls = {3}
  MAX_KEYS = 1
  MaxEpoch = 0
  UnsignedOps = {}
CHECK_DEADLOCK FALSE
INVARIANTS LargeNeedsProof
