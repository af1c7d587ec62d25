SPECIFICATION FairSpec
CONSTANTS
  None = None
  MaxSwitches = 4
INVARIANTS TypeOK PumpHasRoute QuietWhenIdle HeaterHasOneOwner
PROPERTY ValvesSettle
CHECK_DEADLOCK FALSE
