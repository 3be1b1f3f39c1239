SPECIFICATION FairSpec
CONSTANTS
  Accounts = {1, 2}
  Tabs = {11, 21}
  AccountOf <- TwoAccounts
  Providers = {"gpt"}
  Models = {"any"}
  Orders = {1}
  DefaultOrder = 1
  DefaultProvider = "gpt"
  Requests = {r1, r2}
  Probes = {}
  Wants <- FailoverWants
  MaxWaiters = 1
  MayForceClose = FALSE
  None = None
INVARIANTS
  QueueBound
PROPERTIES
  EveryRequestEnds
  DrainEnds
