CONSTANTS
  Players = {1}
  MaxSeen = 1
SPECIFICATION Spec
INVARIANT UncertaintyNeedsASighting
CHECK_DEADLOCK FALSE
