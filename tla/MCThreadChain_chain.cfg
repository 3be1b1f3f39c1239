SPECIFICATION TFairSpec
CONSTANTS
  None = None
  Accounts = {1, 2}
  Tabs = {11, 12, 21}
  AccountOf <- MCAccountOf
  Clients = {r1, r2}
  Threads = {101, 201}
  OwnerOf <- MCOwnerOf
  MaxResponses = 2
  MaxLocks = 1
  LockIds = {1, 2, 3, 4}
INVARIANTS
  ChainTypeOK
  ChainsSerialized
  ThreadsAtHome
PROPERTIES
  EveryTurnEnds
