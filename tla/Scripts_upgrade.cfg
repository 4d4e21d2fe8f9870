\* One terminal secures a program, hands the buffer over and upgrades.
SPECIFICATION Spec
CONSTANTS
  termA = termA
  termB = termB
  purse = purse
  chest = chest
  Terminals = {termA}
  Treasuries = {purse}
  MaxKeys = 2
  MaxRuns = 2
  MaxNonce = 2
  MaxEra = 0
INVARIANT UpgradeScriptWorks
CHECK_DEADLOCK FALSE
