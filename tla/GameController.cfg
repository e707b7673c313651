CONSTANTS
  Robots = {1, 2}
  PlayerOne = 1
  ActOnWhistle = TRUE
  MaxMishaps = 1
SPECIFICATION Spec
INVARIANTS NoFalseStart
PROPERTIES KeepsPlaying FollowsOfficial
