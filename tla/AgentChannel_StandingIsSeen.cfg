CONSTANT MAX_SKIPS = 2
SPECIFICATION Spec
INVARIANT StandingIsSeen
