CONSTANT MAX_SKIPS = 2
SPECIFICATION Spec
INVARIANTS SemaphoreBinary StiffenAtMostOnce
PROPERTIES ImplementsContact NoFalseLostContact NoMissedWakeup LostContactDetected ContactReestablished
