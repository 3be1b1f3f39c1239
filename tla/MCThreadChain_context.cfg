SPECIFICATION TSpec
CONSTANTS
  None = None
  Accounts = {1, 2}
  Tabs = {11, 12, 21}
  AccountOf <- MCAccountOf
  Clients = {r1, r2}
  Threads = {101, 201}
  OwnerOf <- MCOwnerOf
  MaxResponses = 2
  MaxLocks = 2
  LockIds = {1, 2, 3, 4}
PROPERTIES
  ChainKeepsContext
