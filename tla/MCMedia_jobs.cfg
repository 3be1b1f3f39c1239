SPECIFICATION MediaSpec
CONSTANTS
  None = None
  Flows = {"qwen image", "seedream image", "seedream video"}
  Parts = {1, 2}
  MaxJobs = 2
  ParkLimit = 1
  Hitches = {"stay", "blank"}
CHECK_DEADLOCK FALSE
INVARIANTS
  OwnMedia
  LimitIsOwn
PROPERTIES
  JobEnds
