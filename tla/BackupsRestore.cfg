SPECIFICATION Spec
CONSTANTS
  Handlers = {r1, r2}
  Scheduler = scheduler
  Keep = 1
  MaxBackups = 3
  MaxCalls = 3
  MaxSlots = 1
  MaxFailures = 0
PROPERTIES
  FilesStayListed
CHECK_DEADLOCK FALSE
