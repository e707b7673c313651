CONSTANTS
  Requests = {"WALK", "KICK", "NONE"}
  NoRequest = "NONE"
  Parts = 2
  CopyTime = 1
  TickTime = 2
SPECIFICATION Spec
INVARIANTS NoTornRequest
PROPERTIES ImplementsRegister ServedOnce PressIsServed
