SPECIFICATION MigrateSpec
CONSTANTS
  MaxFaults = 2
  MaxStarts = 1
  Across = TRUE
INVARIANTS
    DataIsSafe
PROPERTIES
    StepsAreSafe
    EventuallyUnified
CHECK_DEADLOCK FALSE
