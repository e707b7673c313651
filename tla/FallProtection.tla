----------------------------- MODULE FallProtection -----------------------------
(***************************************************************************)
(* From the sensors to the joints and back.  The Motion thread publishes a *)
(* sample of the sensors and plays the request it has read before the      *)
(* sample came.  The Perception thread asks the behaviour for an action,   *)
(* lets the safety skill replace it when the sample shows a robot that     *)
(* falls, has fallen or was lifted, and posts it.  Commands of a remote    *)
(* control go round both.  The generators are those of                     *)
(* DistributedGenerator: this module adds the two threads that drive them. *)
(*                                                                         *)
(* A post is atomic here: Blackboard shows what the two buffers of the     *)
(* request make of it.  The sample is abstracted to the tests the safety   *)
(* skill makes, in which a robot that has fallen is not also falling.      *)
(***************************************************************************)
EXTENDS Integers

CONSTANTS
  Frames, MIN_TICKS, PickTime,   \* of the generators
  Strategy,                      \* what the behaviour's skills may ask for
  RemoteCommands,                \* what the remote control may ask for
  Directions,                    \* in which the robot can fall
  useGetups,
  FALLING_CONFIRM_FRAMES,        \* 3
  RemoteFresh                    \* seconds a remote command silences the behaviour (60)

ASSUME FallAssumption ==
  /\ Frames \in Nat \ {0} /\ MIN_TICKS \in Nat /\ PickTime \in Nat \ {0}
  /\ RemoteCommands \subseteq {"WALK", "KICK"}
  /\ Directions \subseteq {"front", "back", "side"}
  /\ useGetups \in BOOLEAN
  /\ FALLING_CONFIRM_FRAMES \in Nat \ {0}
  /\ RemoteFresh \in Nat

VARIABLES
  current, frame, walking, ticks, pick, isStopping, requestedDive, request,
  wasReset, contested,     \* of the generators; request is Motion's own copy
  posted,                  \* the request on the blackboard
  sensors,                 \* the sample on the blackboard
  motion,                  \* what the Motion thread does next
  fallingCounter,          \* of the safety skill, saturates at FALLING_CONFIRM_FRAMES
  remoteControlActive,
  remote,                  \* the remote control's last request
  age,                     \* seconds since its time_received, saturates at RemoteFresh
  stamped,                 \* a command's time is written, its request not yet
  fallTicks,               \* history: Perception's last ticks that saw a falling robot
  bypassed,                \* history: the skill has been passed over while it counted
  disturbed,               \* history: Motion's last tick was told to stand, had no sample,
                           \* or ended in a fault
  lying                    \* history: a fallen robot was seen (1), and the post that came
                           \* of it read (2) and played (3)

generatorVars == <<current, frame, walking, ticks, pick, isStopping, requestedDive,
                   wasReset, contested>>
remoteVars == <<remoteControlActive, remote, age, stamped>>
skillVars  == <<fallingCounter, fallTicks, bypassed, lying>>
motionVars == <<motion, disturbed>>
vars == <<generatorVars, request, posted, sensors, motionVars, skillVars, remoteVars>>

SafetyRequests ==
  {"GETUP_BACK", "GETUP_FRONT", "TIP_OVER", "UKEMI_FRONT", "UKEMI_BACK", "DEAD", "REF_PICKUP"}
Requests == Strategy \cup RemoteCommands \cup SafetyRequests \cup {"NONE", "WALK", "STAND"}

Generators == INSTANCE DistributedGenerator WITH Asked <- Requests

Ukemis == {"UKEMI_FRONT", "UKEMI_BACK"}

\* No skill throws the robot down.
ASSUME StrategyAssumption == Strategy \subseteq Generators!ActionTypes \ Ukemis

\* What the tests of the safety skill tell apart: a robot that lies, one that will
\* lie in a moment (forwards or backwards, and perhaps sideways), a light one.
Samples ==
  [fallen : Directions, falling : {{}}, light : {FALSE}] \cup
  [fallen : {"no"}, falling : {d \in SUBSET Directions : ~{"front", "back"} \subseteq d},
   light : BOOLEAN]

Upright == [fallen |-> "no", falling |-> {}, light |-> FALSE]

Saturate(n, bound) == IF n > bound THEN bound ELSE n

-----------------------------------------------------------------------------
(* Mutants *)

\* Upright frames do not start the count again.
CounterAfterKept(s, ukemi) ==
  IF s.falling # {} THEN Saturate(fallingCounter + 1, FALLING_CONFIRM_FRAMES) ELSE fallingCounter

\* A robot on its face is left to the behaviour.
WhenFallenBackOnly(s, asked) ==
  IF useGetups /\ s.fallen = "back" THEN "GETUP_BACK" ELSE asked

\* A robot on its face is told to lie still.
WhenFallenNoFront(s, asked) ==
  IF useGetups /\ s.fallen = "back" THEN "GETUP_BACK" ELSE "DEAD"

-----------------------------------------------------------------------------
(* SafetySkill::wrapRequest *)

\* The branch of the falling tests that is taken, in their order.
FallingTo(s, ukemi) ==
  IF "front" \in s.falling /\ ukemi THEN "front"
  ELSE IF "back" \in s.falling THEN "back"
  ELSE IF "side" \in s.falling THEN "side" ELSE "no"

CounterAfter(s, ukemi) ==
  IF FallingTo(s, ukemi) # "no"
  THEN Saturate(fallingCounter + 1, FALLING_CONFIRM_FRAMES) ELSE 0

WhenFallen(s, asked) ==
  CASE s.fallen = "side" -> "TIP_OVER"
    [] s.fallen = "back" -> IF useGetups THEN "GETUP_BACK" ELSE "DEAD"
    [] OTHER -> IF useGetups THEN "GETUP_FRONT" ELSE "DEAD"

\* Until the fall is confirmed, and where the game forbids an ukemi, the behaviour's
\* own request stands.
WhenFalling(direction, count, ukemi, asked) ==
  CASE count < FALLING_CONFIRM_FRAMES -> asked
    [] count >= FALLING_CONFIRM_FRAMES /\ direction = "side" -> "DEAD"
    [] count >= FALLING_CONFIRM_FRAMES /\ direction = "front" -> "UKEMI_FRONT"
    [] OTHER -> IF ukemi THEN "UKEMI_BACK" ELSE asked

Wrapped(s, count, ukemi, asked) ==
  CASE s.fallen # "no" -> WhenFallen(s, asked)
    [] s.fallen = "no" /\ FallingTo(s, ukemi) # "no" ->
         WhenFalling(FallingTo(s, ukemi), count, ukemi, asked)
    [] OTHER -> IF s.light /\ asked # "GOALIE_STAND" THEN "REF_PICKUP" ELSE asked

-----------------------------------------------------------------------------
(* The Perception thread *)

\* The behaviour's tick.  The calibration of the kinematics comes first, and stands; it is an
\* option that may be set and taken back while the robot runs.  Under remote control the
\* skills are not asked: the robot stands, unless a command has come since PerceptionThread
\* looked at its age (the behaviour's own limit of 2 seconds is within that of PerceptionThread).
Asked == {"STAND"} \cup IF remoteControlActive THEN {"WALK", remote} ELSE Strategy

\* The histories, by what this tick saw and whether the skill was asked
Seen(skill) ==
  /\ fallTicks' =
       IF sensors.falling = {} THEN 0 ELSE Saturate(fallTicks + 1, FALLING_CONFIRM_FRAMES)
  /\ bypassed' = (fallingCounter' > 0 /\ (bypassed \/ ~skill))
  /\ lying' = IF skill /\ sensors.fallen # "no" THEN IF lying = 0 THEN 1 ELSE lying ELSE 0

\* The IMU's calibration, one of the skills, asks for the one action that is not wrapped.
Calibrate ==
  /\ age = RemoteFresh
  /\ "MOTION_CALIBRATE" \in Asked
  /\ posted' = "MOTION_CALIBRATE"
  /\ UNCHANGED fallingCounter
  /\ Seen(FALSE)

Behave(asked, ukemi) ==
  /\ age = RemoteFresh
  /\ asked \in Asked \ {"MOTION_CALIBRATE"}
  /\ fallingCounter' = CounterAfter(sensors, ukemi)
  /\ posted' = Wrapped(sensors, fallingCounter', ukemi, asked)
  /\ Seen(TRUE)

\* "we have fresh remote control data, use it": neither the behaviour nor the
\* safety skill is asked.
Obey ==
  /\ age < RemoteFresh
  /\ posted' = remote
  /\ UNCHANGED fallingCounter
  /\ Seen(FALSE)

PerceptionTick ==
  /\ UNCHANGED <<sensors, motionVars, remoteVars, request, generatorVars>>
  /\ Calibrate \/ Obey \/ \E asked \in Asked, ukemi \in BOOLEAN : Behave(asked, ukemi)

\* After a fault the thread, and its safety skill, are built anew.
PerceptionFault ==
  /\ fallingCounter' = 0 /\ bypassed' = FALSE
  /\ UNCHANGED <<generatorVars, request, posted, sensors, motionVars, fallTicks, lying, remoteVars>>

-----------------------------------------------------------------------------
(* The Motion thread *)

\* The request of the tick is read before the thread waits for a sample.
MotionReads ==
  /\ motion = "read"
  /\ motion' = "tick"
  /\ Generators!Request(posted)
  /\ lying' = IF lying = 1 THEN 2 ELSE lying
  /\ UNCHANGED <<posted, sensors, fallingCounter, fallTicks, bypassed, disturbed, remoteVars>>

\* The sample comes; the robot may have been told to stand.
MotionTick(sample, standing) ==
  /\ motion = "tick"
  /\ motion' = "read"
  /\ sensors' = sample
  /\ disturbed' = standing
  /\ IF standing THEN Generators!StandUp ELSE Generators!Tick
  /\ lying' = IF lying = 2 THEN 3 ELSE lying
  /\ UNCHANGED <<posted, fallingCounter, fallTicks, bypassed, remoteVars>>

\* The cache cannot be loaded: another try in the next cycle (LoLATouch alone).
MotionSkips ==
  /\ motion = "tick"
  /\ motion' = "read"
  /\ disturbed' = TRUE
  /\ UNCHANGED <<generatorVars, request, posted, sensors, skillVars, remoteVars>>

MotionFault ==
  /\ motion' = "read"
  /\ Generators!Rebuilt
  /\ disturbed' = TRUE
  /\ UNCHANGED <<posted, sensors, skillVars, remoteVars>>

-----------------------------------------------------------------------------
(* The remote control's receiver: the time first, the request it stamps after it *)

Stamp ==
  /\ remoteControlActive /\ ~stamped
  /\ age' = 0 /\ stamped' = TRUE
  /\ UNCHANGED <<generatorVars, request, posted, sensors, motionVars, skillVars,
                 remoteControlActive, remote>>

Store(command) ==
  /\ stamped
  /\ remote' = command /\ stamped' = FALSE
  /\ UNCHANGED <<generatorVars, request, posted, sensors, motionVars, skillVars,
                 remoteControlActive, age>>

Second ==
  /\ age < RemoteFresh
  /\ age' = age + 1
  /\ UNCHANGED <<generatorVars, request, posted, sensors, motionVars, skillVars,
                 remoteControlActive, remote, stamped>>

-----------------------------------------------------------------------------

Init ==
  /\ Generators!Init
  /\ posted = "NONE"
  /\ sensors = Upright
  /\ motion = "read" /\ disturbed = FALSE
  /\ fallingCounter = 0 /\ fallTicks = 0 /\ bypassed = FALSE /\ lying = 0
  /\ remoteControlActive \in BOOLEAN
  /\ remote = "NONE" /\ age = RemoteFresh /\ stamped = FALSE

Next ==
  \/ PerceptionTick \/ PerceptionFault
  \/ MotionReads \/ MotionSkips \/ MotionFault
  \/ \E sample \in Samples, standing \in BOOLEAN : MotionTick(sample, standing)
  \/ Stamp \/ Second
  \/ \E command \in RemoteCommands : Store(command)

\* Both threads go on, Motion's from each wait for a sample, with it or without;
\* time passes.
Spec ==
  /\ Init /\ [][Next]_vars
  /\ WF_vars(PerceptionTick)
  /\ WF_vars(MotionReads) /\ []<>(motion = "read")
  /\ WF_vars(Second)

-----------------------------------------------------------------------------
(* Properties *)

TypeOK ==
  /\ posted \in Requests /\ request \in Requests
  /\ sensors \in Samples
  /\ motion \in {"read", "tick"}
  /\ fallingCounter \in 0..FALLING_CONFIRM_FRAMES
  /\ remoteControlActive \in BOOLEAN
  /\ remote \in RemoteCommands \cup {"NONE"}
  /\ age \in 0..RemoteFresh /\ stamped \in BOOLEAN
  /\ fallTicks \in 0..FALLING_CONFIRM_FRAMES /\ bypassed \in BOOLEAN /\ disturbed \in BOOLEAN
  /\ lying \in 0..3

\* The robot throws itself down only after it was seen falling in
\* FALLING_CONFIRM_FRAMES ticks in a row; the count that a remote command or a
\* calibration has interrupted (and does not reset) is the exception.
ConfirmedFall ==
  [][posted' \in Ukemis /\ posted' # posted
       => fallTicks' = FALLING_CONFIRM_FRAMES \/ bypassed']_vars

\* Once a fallen robot was seen, and the post of that tick was played, the robot does
\* not walk, kick or dribble until Perception has seen it up, or was passed over.
LyingIsNotWalked == lying = 3 => current \notin Generators!WalkFamily

\* No fault of the Motion thread, no standing command, no calibration, no remote: all
\* of them may come, but not for ever.
Undisturbed == <>[](~disturbed /\ posted # "MOTION_CALIBRATE" /\ age = RemoteFresh)

\* A robot that stays on its face is made to get up, whatever it was playing and
\* whatever the behaviour wants, and however often Perception is rebuilt.
FallenGetsUp ==
  Undisturbed /\ useGetups /\ <>[](sensors.fallen = "front") => <>[](current = "GETUP_FRONT")

\* A robot that stays on its feet, with samples coming, is given back to the behaviour:
\* what the safety skill began comes to its end.
BackOnItsFeet ==
  <>[](sensors = Upright) /\ []<>~disturbed => <>[](current \notin SafetyRequests)
=================================================================================
