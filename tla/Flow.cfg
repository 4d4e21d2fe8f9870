SPECIFICATION FlowSpec
CONSTANTS
  wallet = wallet
  k1 = k1
  k2 = k2
  a = a
  b = b
  Holders = {wallet}
  me = wallet
  Entries <- MCEntries
  Signatures <- MCSignatures
  GuardId = "trana_guard"
  Calls = {a, b}
  CallIx <- MCCallIx
  Conditional = {b}
  Deployments = {"sdk", "repo"}
  Ttl = 1
  MaxNow = 1
  MaxNonce = 2
  MaxEra = 1
  MaxPrompts = 2
CHECK_DEADLOCK FALSE
INVARIANTS FlowTypeOK ModalMatchesPromise ExecutedOnce AuthorizedWasShown 
PROPERTY CallsSettle
