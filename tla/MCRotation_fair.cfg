SPECIFICATION RSpec
CONSTANTS
  Accounts = {1, 2, 3}
  Tabs = {11, 12, 21, 31}
  AccountOf <- MCAccountOf
  Providers = {"gpt"}
  Models = {"any"}
  Orders = {1, 2}
  DefaultOrder = 1
  DefaultProvider = "gpt"
  Requests = {r1, r2}
  Probes = {}
  Wants <- MCWants
  MaxWaiters = 1
  MayForceClose = FALSE
  None = None
SYMMETRY RequestSymmetry
PROPERTIES
  NobodyPassedTwice
