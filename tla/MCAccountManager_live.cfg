SPECIFICATION MFairTimedSpec
CONSTANTS
  Accounts = {1}
  Tabs = {11}
  AccountOf <- MCAccountOf
  Providers = {"gpt"}
  Models = {"any"}
  Orders = {1}
  DefaultOrder = 1
  DefaultProvider = "gpt"
  Requests = {r1}
  Probes = {}
  Wants <- MCWants
  MaxWaiters = 1
  MayForceClose = TRUE
  None = None
  Operators = {o1}
  Monitor = mon
  AdminCalls = {"start", "stop", "openLogin", "logout", "confirm"}
  Volatile = {"limits"}
  MayPatch = {}
PROPERTIES
  AdminCallsReturn
  CooldownEnds
  CapEnforced
