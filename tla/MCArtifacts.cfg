SPECIFICATION LiveSpec
CONSTANTS
  Writers = {a, b}
  Readers = {r}
  Processes = {a, b}
  ProcessOf <- MCProcessOf
  Pids = {1, 2}
  Plans = {"long", "short"}
  Length <- MCLength
  MaxAttempts = 2
  MaxWrites = 3
  MaxReads = 1
  MaxCrashes = 1
  None = None
INVARIANTS
  TypeOK
  DestinationComplete
  ReadsPublished
  OrphansFromCrashes
PROPERTIES
  WritesEnd
CHECK_DEADLOCK FALSE
