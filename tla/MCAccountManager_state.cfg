SPECIFICATION MRunSpec
CONSTANTS
  Accounts = {1}
  Tabs = {11, 12}
  AccountOf <- MCAccountOf
  Providers = {"gpt"}
  Models = {"any"}
  Orders = {1}
  DefaultOrder = 1
  DefaultProvider = "gpt"
  Requests = {r1, r2}
  Probes = {}
  Wants <- MCWants
  MaxWaiters = 1
  MayForceClose = TRUE
  None = None
  Operators = {o1}
  Monitor = mon
  AdminCalls = {"start", "stop", "openLogin", "logout", "confirm"}
  Volatile = {"session"}
  MayPatch = {"enabled"}
SYMMETRY RequestSymmetry
INVARIANTS
  LifecycleExclusive
  RoutedMeansServing
PROPERTIES
  KeepsPoolContract
  NoNewLease
