\* Two terminals, three scripts in all, one recovery.
SPECIFICATION Spec
CONSTANTS
  termA = termA
  termB = termB
  purse = purse
  chest = chest
  Terminals = {termA, termB}
  Treasuries = {purse, chest}
  MaxKeys = 2
  MaxRuns = 3
  MaxNonce = 2
  MaxEra = 1
SYMMETRY Alike
INVARIANTS
  RecordBehindAuthority
PROPERTIES
  
  ProofsFollowReads
CHECK_DEADLOCK FALSE
