SPECIFICATION LedgerSpec
CONSTANTS
  Accounts = {1}
  Tabs = {t1, t2, t3}
  AccountOf <- OneAccount
  Providers = {"gpt"}
  Models = {"any"}
  Orders = {1}
  DefaultOrder = 1
  DefaultProvider = "gpt"
  Requests = {r1, r2}
  Probes = {p1}
  Wants <- MCWants
  MaxWaiters = 1
  MayForceClose = TRUE
  None = None
SYMMETRY TabSymmetry
INVARIANTS
  TypeOK
  OneHolder
  NoTabLost
  NoPhantomLease
  NoLostWakeup
PROPERTIES
  ImplementsTabLease
  DrainMissesOnlyUncounted
