CONSTANTS Frames = 4
 MIN_TICKS = 2
 PickTime = 2
 Asked = {"STAND", "WALK", "KICK", "TURN_DRIBBLE", "GETUP_FRONT", "TIP_OVER", "DEAD", "REF_PICKUP", "GOALIE_SIT", "GOALIE_DIVE_LEFT", "GOALIE_CENTRE", "DEFENDER_CENTRE", "GOALIE_INITIAL", "GOALIE_STAND"}
SPECIFICATION Spec
INVARIANTS ArmedUnlessCurrent
PROPERTIES TopPriorityPlaysOut CentreIsUndone EnteredAtItsStart ReplayOnlyIfContested RequestServed
