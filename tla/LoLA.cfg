CONSTANTS
  MAX_CLICK_INTERVAL = 1
  Hold = 2
  SIT_MIDDLE_CYCLES = 2
  SIT_CYCLES = 1
  KillSleep = 4
SPECIFICATION Spec
INVARIANTS RisesFromReset EndsPowerless
PROPERTIES ReapsTheSeated ImplementsFailsafe Ends
