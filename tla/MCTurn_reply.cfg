SPECIFICATION TurnFairSpec
CONSTANTS
  None = None
  Tabs = {me, other}
  Me = me
  Contents <- MCContents
  Copyable <- MCCopyable
  Modes = {"think"}
  Ids = {"plain", "think"}
  GroupsOf <- MCGroupsOf
  Quirks = {"slow", "autosend", "blind", "unreadable", "broken"}
  Providers = {"chatgpt", "claude", "text", "qwen", "gemini", "grok"}
  StablePolls = 1
  MaxTries = 2
  MaxCalls = 2
CHECK_DEADLOCK FALSE
INVARIANTS
  OwnText
  RightReply
  SubmittedOnce
PROPERTIES
  RightPlace
  TurnEnds
