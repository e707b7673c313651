CONSTANTS
  Threads = {"Perception", "Motion"}
  Faults = {"SEGV", "FPE"}
  Stops = {"INT"}
SPECIFICATION Spec
INVARIANTS LiveJump NoSelfDeadlock FirstFaultSurvived
PROPERTIES PerceptionRecovers ShutdownEnds
