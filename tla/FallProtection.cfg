CONSTANTS
  Frames = 2
  MIN_TICKS = 1
  PickTime = 1
  Strategy = {"WALK", "GOALIE_CENTRE", "MOTION_CALIBRATE"}
  RemoteCommands = {"KICK"}
  Directions = {"front"}
  useGetups = TRUE
  FALLING_CONFIRM_FRAMES = 2
  RemoteFresh = 1
SPECIFICATION Spec
INVARIANTS LyingIsNotWalked
PROPERTIES ConfirmedFall FallenGetsUp BackOnItsFeet
