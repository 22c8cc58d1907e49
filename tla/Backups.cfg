SPECIFICATION FairSpec
CONSTANTS
  Handlers = {r1, r2}
  Scheduler = scheduler
  Keep = 1
  MaxBackups = 2
  MaxCalls = 3
  MaxSlots = 2
  MaxFailures = 1
INVARIANTS
  NeverWedged
  FilesMatchRows
  OncePerSlot
PROPERTIES
  SlotServed
CHECK_DEADLOCK FALSE
