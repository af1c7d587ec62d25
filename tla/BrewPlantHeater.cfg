SPECIFICATION Spec
CONSTANTS
  None = None
  MaxSwitches = 4
INVARIANT NoHeatWhenEmptied
CHECK_DEADLOCK FALSE
