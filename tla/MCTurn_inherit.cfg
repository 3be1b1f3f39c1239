SPECIFICATION TurnSpec
CONSTANTS
  None = None
  Tabs = {me, other}
  Me = me
  Contents <- MCContents
  Copyable <- MCCopyable
  Modes = {"think"}
  Ids = {"plain", "think"}
  GroupsOf <- MCGroupsOf
  Quirks = {"blind"}
  Providers = {"text"}
  StablePolls = 1
  MaxTries = 2
  MaxCalls = 2
CHECK_DEADLOCK FALSE
PROPERTIES
  NothingInherited
