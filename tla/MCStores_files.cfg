\* Two media requests with files in their names, three logged requests, three
\* accounts; writes fail, files age, the gateway restarts.
CONSTANTS
  Requests = {r1, r2}
  Images = {x, y}
  Prefix <- MCPrefix
  TTL = 1
  Attempts = 2
  Keyed = FALSE
  MaxBoots = 2
  MaxCalls = 3
  MaxEntries = 2
  Retention = 1
  MaxClock = 2
  MaxFaults = 1
  MaxLives = 2
  MaxAccounts = 2
  Proxies = {p, q}
  MaxTime = 1
  Cooldowns = {1, 2}
  MaxStarts = 3
  MaxBroken = 1
SPECIFICATION Spec
SYMMETRY Symmetry
INVARIANTS
  UploadsOwn
  LogAgrees
  OutcomeKept
PROPERTIES
  LinkServes
  ProxyOwn
  CooldownKept
CHECK_DEADLOCK FALSE
