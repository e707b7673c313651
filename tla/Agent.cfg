CONSTANTS
  MAX_SKIPS = 1
  MAX_CLICK_INTERVAL = 1
  Hold = 2
  Crouch = 1
  Settle = 1
SPECIFICATION Spec
INVARIANTS HaltsOnce StandingNotLimp
PROPERTIES ImplementsFailsafe ImplementsContact DeadPlayerEndsPowerless PressesTakeEffect
