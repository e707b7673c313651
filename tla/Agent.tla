--------------------------------- MODULE Agent ---------------------------------
(***************************************************************************)
(* libagent's own state machine: what it lets the motors do.  The DCM      *)
(* thread calls preCallback and postCallback in turn.  preCallback picks   *)
(* the torque: none while the robot is limp or waits for the player to     *)
(* stand it up, the player's joints while it is in contact, otherwise a    *)
(* two-stage sit-down that ends limp.  postCallback counts the button      *)
(* presses and the head touches, which switch limp on and off and start    *)
(* and kill runswift, obeys the player's stiffen command, and keeps count  *)
(* of the cycles the player missed.                                        *)
(*                                                                         *)
(* A step is preCallback or one of the stages of postCallback (`phase'     *)
(* names the one that is due), so the player runs between any two.  The    *)
(* player's Motion thread takes a sample, stores a command and stores      *)
(* `standing' twice (`playerPc' names what is due), so libagent runs       *)
(* between any two of these.  AgentChannel looks inside the stages, at the *)
(* accesses to shared memory.                                              *)
(***************************************************************************)
EXTENDS Integers, Sequences

CONSTANTS
  MAX_SKIPS, MAX_CLICK_INTERVAL,
  Hold,          \* cycles the chest button is held for a shutdown (300)
  Crouch,        \* preCallbacks from sit_step 0 to 1 (200)
  Settle         \* preCallbacks from sit_step 1 to 2 (100)

ASSUME AgentAssumption ==
  /\ MAX_SKIPS \in Nat
  /\ MAX_CLICK_INTERVAL \in Nat
  /\ Hold \in Nat
  /\ Crouch \in Nat \ {0}
  /\ Settle \in Nat \ {0}

VARIABLES
  limp,            \* the body; head_limp, which no other state depends on, is left out
  sit_step,        \* -1, or the number of steps of the sit-down taken
  skipped_frames,  \* saturates at MAX_SKIPS + 1
  chest_down,      \* Halted stands for numeric_limits<int>::min()
  chest_up,        \* saturates at MAX_CLICK_INTERVAL + 1
  chest_presses,   \* saturates at MaxPresses
  head_press_stack,
  phase,           \* what the DCM thread does next, "down" when naoqi is
  torque,          \* what the last preCallback commanded
  standing, stiffen, semaphore,              \* in shared memory
  alive,           \* there is a player process
  playerPc,        \* what its Motion thread does next
  kill_standing,   \* the static local of AgentEffector::actuate
  mustLimp,        \* history: a sit-down began and limp has not followed
  sinceTake,       \* history: postCallbacks since the last P(), or since libagent
                   \* started with a player past its P(); saturates
  halts,           \* history: times this libagent ran /sbin/halt, saturates at 2
  stray            \* history: `standing' was last stored by an actuate that stored
                   \* TRUE and has not come to its end

buttonVars == <<chest_down, chest_up, chest_presses, head_press_stack>>
bodyVars   == <<limp, sit_step, torque, mustLimp>>
playerVars == <<alive, playerPc, kill_standing>>
standVars  == <<standing, stray>>

vars == <<bodyVars, buttonVars, playerVars, standVars, skipped_frames, phase, stiffen,
          semaphore, sinceTake, halts>>

Halted == -1
MaxPresses == 4      \* more presses change no more of this state than 4 do

Saturate(n, bound) == IF n > bound THEN bound + 1 ELSE n

-----------------------------------------------------------------------------
(* Mutants *)

\* Contact is enough to hand the joints back, whatever the sit-down's state.
PlayerDrivesInContact == skipped_frames <= MAX_SKIPS

\* Sitting ends where it started, with the player in charge.
SitEndNotLimp == FALSE

\* A finished shutdown leaves the counter where a new one can start.
ChestAfterHaltZero == 0

\* The time since the last press is not counted.
ChestUpReleasedKept == chest_up

\* The double press leaves the flag as it is.
StandingAfterDoublePressKept == standing

\* The effector takes its flag down and forgets the other one.
StandingAfterToggleKept == standing

\* The V() without the reset of the counter.
SkippedAfterKept ==
  IF semaphore = 0 THEN skipped_frames ELSE Saturate(skipped_frames + 1, MAX_SKIPS)

-----------------------------------------------------------------------------
(* Helpers *)

\* skipped_frames <= MAX_SKIPS && sit_step == -1.0f
PlayerDrives == skipped_frames <= MAX_SKIPS /\ sit_step = -1

\* limp = true at the end of the sit-down
SitEndLimp == TRUE

ChestAfterHalt == Halted

ChestUpReleased == Saturate(chest_up + 1, MAX_CLICK_INTERVAL)

\* What doHeadTouch pushes on an empty stack: one end of the head, never both
\* and never the middle alone.
FirstTouch(pads) == {p \in {"front", "rear"} : pads \cap {"front", "rear"} = {p}}

\* shared_data->standing after a double press, given limp before it
StandingAfterDoublePress == limp

\* shared_data->standing after the second store of actuate
StandingAfterToggle == IF kill_standing THEN FALSE ELSE standing

\* skipped_frames is reset by a V() only.
SkippedAfter == IF semaphore = 0 THEN 0 ELSE Saturate(skipped_frames + 1, MAX_SKIPS)

\* The Motion thread is past its P().
Ticking == playerPc # "wait"

\* A new process has a new kill_standing.
Dies == alive' = FALSE /\ playerPc' = "wait" /\ kill_standing' = FALSE

\* killall runswift: the player catches the SIGTERM, and ends with its tick, which
\* may be now or later (PlayerDies).
Killed == Dies \/ UNCHANGED playerVars

-----------------------------------------------------------------------------
(* preCallback *)

Powerless ==
  /\ limp \/ standing
  /\ torque' = "none"
  /\ UNCHANGED <<limp, sit_step, mustLimp>>

Driven ==
  /\ ~(limp \/ standing)
  /\ PlayerDrives
  /\ torque' = "player"
  /\ UNCHANGED <<limp, sit_step, mustLimp>>

SitDown ==
  LET step == IF sit_step = -1 THEN 0 ELSE sit_step IN
  /\ ~(limp \/ standing)
  /\ ~PlayerDrives
  /\ \/ /\ step < Crouch
        /\ torque' = "full"
     \/ /\ step >= Crouch /\ step < Crouch + Settle
        /\ torque' = "soft"
  /\ sit_step' = step + 1
  /\ mustLimp' = TRUE
  /\ UNCHANGED limp

SitEnd ==
  /\ ~(limp \/ standing)
  /\ ~PlayerDrives
  /\ sit_step = Crouch + Settle
  /\ torque' = "none"
  /\ sit_step' = -1
  /\ limp' = SitEndLimp
  /\ mustLimp' = (mustLimp /\ ~limp')

PreCallback ==
  /\ phase = "pre"
  /\ phase' = "presses"
  /\ Powerless \/ Driven \/ SitDown \/ SitEnd
  /\ UNCHANGED <<buttonVars, playerVars, standVars, skipped_frames, stiffen,
                 semaphore, sinceTake, halts>>

-----------------------------------------------------------------------------
(* postCallback: doButtons *)

\* buttons.pop(2); with a foot bumper it is head_limp that is switched.
DoublePress(foot) ==
  /\ IF foot
     THEN UNCHANGED <<limp, sit_step, standVars, mustLimp>>
     ELSE /\ limp' = ~limp
          /\ sit_step' = IF limp THEN sit_step ELSE -1
          /\ standing' = StandingAfterDoublePress
          /\ stray' = FALSE
          /\ mustLimp' = (mustLimp /\ limp)
  /\ phase' = "hold"
  /\ UNCHANGED playerVars

\* buttons.pop(3): restart naoqi, or start runswift (the child first kills what
\* is left of an old one, and gives up if that still holds its flock), or kill it
TriplePress(foot) ==
  /\ \/ foot /\ Killed /\ phase' = "down"
     \/ /\ ~foot /\ skipped_frames > MAX_SKIPS /\ phase' = "hold"
        /\ \/ alive' = TRUE /\ playerPc' = "wait" /\ kill_standing' = FALSE
           \/ alive /\ UNCHANGED playerVars
     \/ ~foot /\ skipped_frames <= MAX_SKIPS /\ Killed /\ phase' = "hold"
  /\ UNCHANGED <<limp, sit_step, standVars, mustLimp>>

\* Four presses restart the wifi; any other number is the player's.
OtherPresses ==
  /\ chest_presses \notin {2, 3}
  /\ phase' = "hold"
  /\ UNCHANGED <<limp, sit_step, standVars, mustLimp, playerVars>>

Presses(foot) ==
  /\ phase = "presses"
  /\ IF chest_up > MAX_CLICK_INTERVAL
     THEN /\ chest_presses' = 0
          /\ \/ chest_presses = 2 /\ DoublePress(foot)
             \/ chest_presses = 3 /\ TriplePress(foot)
             \/ OtherPresses
     ELSE /\ phase' = "hold"
          /\ UNCHANGED <<limp, sit_step, standVars, mustLimp, chest_presses,
                         playerVars>>
  /\ UNCHANGED <<chest_down, chest_up, head_press_stack, torque, skipped_frames,
                 stiffen, semaphore, sinceTake, halts>>

\* The shutdown handler, then the counters with this cycle's chest sensor.
HoldAndCount(pressed) ==
  LET down == IF chest_down > Hold THEN ChestAfterHalt ELSE chest_down IN
  /\ phase = "hold"
  /\ phase' = "touch"
  /\ IF chest_down > Hold
     THEN Killed /\ limp' = TRUE /\ mustLimp' = FALSE /\ halts' = Saturate(halts + 1, 1)
     ELSE UNCHANGED <<playerVars, limp, mustLimp, halts>>
  /\ IF pressed
     THEN /\ chest_down' = IF down >= 0 THEN Saturate(down + 1, Hold) ELSE down
          /\ chest_up' = 0
          /\ UNCHANGED chest_presses
     ELSE /\ chest_down' = IF down > 0 THEN 0 ELSE down
          /\ chest_up' = ChestUpReleased
          /\ chest_presses' = IF down > 0 /\ chest_presses < MaxPresses
                              THEN chest_presses + 1 ELSE chest_presses
  /\ UNCHANGED <<sit_step, torque, head_press_stack, skipped_frames, standVars,
                 stiffen, semaphore, sinceTake>>

-----------------------------------------------------------------------------
(* postCallback: doHeadTouch, doStiffen, the semaphore *)

\* A stroke over the head is a front or rear touch, the middle alone, and the
\* other end; `late' when the last touch is more than 500 ms ago.
HeadTouch(pads, late) ==
  LET stack  == IF late THEN <<>> ELSE head_press_stack
      ends   == Len(stack) = 2 /\ "middle" \notin pads
      last   == IF "front" \in pads THEN "front" ELSE "rear"
      stroke == IF ends THEN <<stack[1], last>> ELSE <<>>
      start  == stroke = <<"front", "rear">> /\ skipped_frames > MAX_SKIPS
      kill   == stroke = <<"rear", "front">>
  IN
  /\ head_press_stack' =
       CASE stack = <<>> /\ FirstTouch(pads) # {} -> <<CHOOSE p \in FirstTouch(pads) : TRUE>>
         [] Len(stack) = 1 /\ pads = {"middle"} -> <<stack[1], "middle">>
         [] ends  -> <<>>
         [] OTHER -> stack
  /\ \/ kill /\ Killed
     \/ start /\ alive' = TRUE /\ UNCHANGED <<playerPc, kill_standing>>   \* a second one fails its flock
     \/ ~kill /\ ~start /\ UNCHANGED playerVars

DoStiffen ==
  /\ IF stiffen = "STIFFEN" THEN limp' = FALSE /\ standing' = TRUE /\ stray' = FALSE
                            ELSE UNCHANGED <<limp, standVars>>
  /\ stiffen' = "NONE"

TouchAndStiffen(pads, late) ==
  /\ phase = "touch"
  /\ phase' = "semaphore"
  /\ IF pads = {} THEN UNCHANGED <<head_press_stack, playerVars>> ELSE HeadTouch(pads, late)
  /\ DoStiffen
  /\ UNCHANGED <<sit_step, torque, mustLimp, chest_down, chest_up, chest_presses,
                 skipped_frames, semaphore, sinceTake, halts>>

\* V() only if the player has done its P(); count the cycle otherwise.
Semaphore ==
  /\ phase = "semaphore"
  /\ phase' = "pre"
  /\ semaphore' = 1
  /\ skipped_frames' = SkippedAfter
  /\ sinceTake' = Saturate(sinceTake + 1, MAX_SKIPS + 1)
  /\ UNCHANGED <<bodyVars, buttonVars, playerVars, standVars, stiffen, halts>>

\* naoqi comes back after its restart, and the constructor runs.
AgentStarts ==
  /\ phase = "down"
  /\ phase' = "pre"
  /\ limp' = TRUE /\ sit_step' = -1
  /\ skipped_frames' = 0
  /\ chest_down' = 0 /\ chest_up' = 0 /\ chest_presses' = 0
  /\ head_press_stack' = <<>>
  /\ torque' = "none" /\ mustLimp' = FALSE
  /\ standing' = FALSE /\ stray' = FALSE
  /\ sinceTake' = IF Ticking THEN 0 ELSE MAX_SKIPS + 2
  /\ halts' = 0
  /\ UNCHANGED <<playerVars, stiffen, semaphore>>

-----------------------------------------------------------------------------
(* The player process *)

\* The Motion thread's P(), in AgentTouch::getSensors.
PlayerTakes ==
  /\ alive /\ ~Ticking
  /\ semaphore = 1
  /\ semaphore' = 0
  /\ playerPc' = "actuate"
  /\ sinceTake' = 0
  /\ UNCHANGED <<bodyVars, buttonVars, standVars, alive, kill_standing, skipped_frames,
                 phase, stiffen, halts>>

\* AgentEffector::actuate, up to the publication of its slot
PlayerActuates(command) ==
  /\ alive /\ playerPc = "actuate"
  /\ playerPc' = "standing"
  /\ stiffen' = command
  /\ UNCHANGED <<bodyVars, buttonVars, standVars, alive, kill_standing, skipped_frames,
                 phase, semaphore, sinceTake, halts>>

\* standing = kill_standing
StoreKillStanding ==
  /\ alive /\ playerPc = "standing"
  /\ playerPc' = "toggle"
  /\ standing' = kill_standing
  /\ stray' = kill_standing
  /\ UNCHANGED <<bodyVars, buttonVars, alive, kill_standing, skipped_frames, phase, stiffen,
                 semaphore, sinceTake, halts>>

\* if (kill_standing) { ...; standing = false } else kill_standing = true
ToggleKillStanding ==
  /\ alive /\ playerPc = "toggle"
  /\ playerPc' = "wait"
  /\ kill_standing' = ~kill_standing
  /\ standing' = StandingAfterToggle
  /\ stray' = FALSE
  /\ UNCHANGED <<bodyVars, buttonVars, alive, skipped_frames, phase, stiffen,
                 semaphore, sinceTake, halts>>

\* ThreadManager catches a fault of the Motion thread, which begins anew; the static
\* kill_standing stays as it was.
MotionRestarts ==
  /\ alive /\ Ticking
  /\ playerPc' = "wait"
  /\ UNCHANGED <<bodyVars, buttonVars, standVars, alive, kill_standing, skipped_frames, phase,
                 stiffen, semaphore, sinceTake, halts>>

PlayerDies ==
  /\ alive
  /\ Dies
  /\ UNCHANGED <<bodyVars, buttonVars, standVars, skipped_frames, phase, stiffen, semaphore,
                 sinceTake, halts>>

-----------------------------------------------------------------------------

Init ==
  /\ limp = TRUE /\ sit_step = -1
  /\ skipped_frames = 0
  /\ chest_down = 0 /\ chest_up = 0 /\ chest_presses = 0
  /\ head_press_stack = <<>>
  /\ phase = "pre" /\ torque = "none"
  /\ standing = FALSE /\ stiffen = "NONE" /\ semaphore = 0
  /\ alive = FALSE /\ playerPc = "wait" /\ kill_standing = FALSE
  /\ mustLimp = FALSE /\ sinceTake = MAX_SKIPS + 2 /\ halts = 0
  /\ stray = FALSE

Callback ==
  \/ PreCallback
  \/ \E foot \in BOOLEAN : Presses(foot)
  \/ \E pressed \in BOOLEAN : HoldAndCount(pressed)
  \/ \E pads \in SUBSET {"front", "middle", "rear"}, late \in BOOLEAN : TouchAndStiffen(pads, late)
  \/ Semaphore

Next ==
  \/ Callback \/ AgentStarts
  \/ PlayerTakes \/ StoreKillStanding \/ ToggleKillStanding \/ MotionRestarts \/ PlayerDies
  \/ \E command \in {"NONE", "STIFFEN"} : PlayerActuates(command)

\* The DCM calls back every cycle as long as naoqi is up.
Spec == Init /\ [][Next]_vars /\ WF_vars(Callback)

-----------------------------------------------------------------------------
(* Properties *)

TypeOK ==
  /\ limp \in BOOLEAN
  /\ sit_step \in -1..(Crouch + Settle)
  /\ skipped_frames \in 0..(MAX_SKIPS + 1)
  /\ chest_down \in Halted..(Hold + 1)
  /\ chest_up \in 0..(MAX_CLICK_INTERVAL + 1)
  /\ chest_presses \in 0..MaxPresses
  /\ head_press_stack \in
       {<<>>, <<"front">>, <<"rear">>, <<"front", "middle">>, <<"rear", "middle">>}
  /\ phase \in {"pre", "presses", "hold", "touch", "semaphore", "down"}
  /\ torque \in {"none", "player", "full", "soft"}
  /\ standing \in BOOLEAN /\ stiffen \in {"NONE", "STIFFEN"} /\ semaphore \in 0..1
  /\ alive \in BOOLEAN /\ kill_standing \in BOOLEAN
  /\ playerPc \in {"wait", "actuate", "standing", "toggle"}
  /\ stray \in BOOLEAN
  /\ mustLimp \in BOOLEAN /\ sinceTake \in 0..(MAX_SKIPS + 2) /\ halts \in 0..2

\* Once contact was lost and the sit-down has begun, the player's joints are not
\* played again before the robot has been limp: a player that comes back in the
\* middle does not jerk a half-seated robot up.
SitRunsToLimp == torque = "player" => ~mustLimp

\* The player's joints are played only if it did a P() within the last MAX_SKIPS
\* cycles (and the one under way): skipped_frames starts at 0 without a player,
\* but then limp and `standing' hold the torque back until one has taken a sample.
TorqueNeedsContact == torque = "player" /\ phase # "pre" => sinceTake <= MAX_SKIPS + 1

\* "so only one shutdown will happen", however long the button is held and
\* whatever is pressed afterwards.
HaltsOnce == halts <= 1

\* No order of presses, stiffen commands, strokes and stores of the effector leaves the robot
\* limp and told to stand: before a shutdown, a `standing' that faces limp is one nobody
\* asked for, and comes of an actuate that is between its two stores, or was cut short there.
StandingNotLimp == standing /\ limp => stray \/ halts > 0

\* libagent keeps the promises of Failsafe: whatever the operator and the player do,
\* the motors go over to the player only while it is heard, never from half-way
\* down, and the way down ends powerless.
Failsafe == INSTANCE Failsafe WITH
  power   <- IF torque \in {"full", "soft"} THEN "seat" ELSE torque,
  seating <- mustLimp,
  heard   <- sinceTake <= MAX_SKIPS + 1,
  up      <- phase # "down"
ImplementsFailsafe == Failsafe!Spec

\* Agent uses the semaphore as AgentChannel has it, also over restarts of naoqi.
Contact == INSTANCE Contact WITH
  since <- IF sinceTake > MAX_SKIPS THEN MAX_SKIPS + 1 ELSE sinceTake,
  up    <- phase # "down"
ImplementsContact == Contact!Spec

\* When the player is gone for good the motors end up without power, whatever
\* the operator does and wherever the sit-down was.
DeadPlayerEndsPowerless == <>[](~alive /\ phase # "down") => <>[](torque = "none")

\* A series of presses is acted upon once the button is left alone.
PressesTakeEffect == <>[](chest_down = 0 /\ phase # "down") => <>[](chest_presses = 0)
===============================================================================
