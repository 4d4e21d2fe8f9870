\* Two wallets; a first start and load, and one more event of any kind.
SPECIFICATION CounterSpec
CONSTANTS
  MaxWallets = 2
  MaxCreds = 2
  MaxReloads = 2
  MaxEvents = 3
  MaxCount = 1
CHECK_DEADLOCK FALSE
INVARIANTS HandleKept ScreenFollowsWallet
PROPERTY BusyClears
