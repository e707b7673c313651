-------------------------- MODULE DistributedGenerator --------------------------
(***************************************************************************)
(* Which of the motion generators moves the robot.  The Motion thread      *)
(* calls makeJoints once a cycle with the behaviour's request; the         *)
(* generator that is playing keeps the joints until it is inactive or a    *)
(* request of a higher priority comes, and whatever is left behind is put  *)
(* back to its start.  The generators are abstracted to what decides       *)
(* whether they are active: the frame of a pose file, the flags of the     *)
(* walk and of the referee's pick-up, the ticks of the dead.               *)
(*                                                                         *)
(* prev_generator is not modelled: it is written and never read.           *)
(***************************************************************************)
EXTENDS Integers

CONSTANTS
  Frames,      \* frames in a pose file (a second or more of them in the code)
  MIN_TICKS,   \* of DeadGenerator
  PickTime,    \* cycles RefPickupGenerator takes to stop (100)
  Asked        \* what the behaviour and its safety skill ask for

ASSUME GeneratorAssumption ==
  /\ Frames \in Nat \ {0}
  /\ MIN_TICKS \in Nat
  /\ PickTime \in Nat \ {0}

\* One WalkEnginePreProcessor serves all four.
WalkFamily == {"WALK", "KICK", "LINE_UP", "TURN_DRIBBLE"}

\* The ActionGenerators and the two GetupGenerators.
Poses ==
  {"STAND", "GETUP_FRONT", "GETUP_BACK", "TIP_OVER", "INITIAL", "GOALIE_SIT",
   "GOALIE_DIVE_RIGHT", "GOALIE_DIVE_LEFT", "GOALIE_CENTRE", "GOALIE_UNCENTRE",
   "GOALIE_INITIAL", "GOALIE_AFTERSIT_INITIAL", "DEFENDER_CENTRE", "GOALIE_FAST_SIT",
   "MOTION_CALIBRATE", "STAND_STRAIGHT", "TEST_ARMS", "UKEMI_FRONT", "UKEMI_BACK",
   "GOALIE_STAND"}

ActionTypes == Poses \cup WalkFamily \cup {"NONE", "DEAD", "REF_PICKUP"}

ASSUME AskedAssumption == Asked \subseteq ActionTypes

Getups == {"GETUP_FRONT", "GETUP_BACK"}
Dives  == {"GOALIE_CENTRE", "GOALIE_DIVE_LEFT", "GOALIE_DIVE_RIGHT"}

priorities == [a \in ActionTypes |->
  CASE a \in Getups \cup Dives \cup {"TIP_OVER", "UKEMI_FRONT", "UKEMI_BACK"} -> 3
    [] a \in {"INITIAL", "GOALIE_SIT", "GOALIE_UNCENTRE", "DEFENDER_CENTRE",
              "GOALIE_FAST_SIT"} -> 2
    [] a \in {"DEAD", "REF_PICKUP", "GOALIE_STAND"} -> 1
    [] OTHER -> 0]

VARIABLES
  current,        \* current_generator
  frame,          \* current_time of every pose, NotRunning once played to its end
  walking,        \* ~stopped of the walk engine
  ticks,          \* of the dead, saturates at MIN_TICKS + 1
  pick,           \* the referee's pick-up, and the stand it plays
  isStopping,
  requestedDive,  \* written and read, but it decides nothing
  request,        \* what the behaviour asks for
  wasReset,       \* history: reset() has been called
  contested       \* history: another action was asked for since this one began

gens == <<frame, walking, ticks, pick>>
vars == <<current, gens, isStopping, requestedDive, request, wasReset, contested>>

NotRunning == -1

\* A new RefPickupGenerator is as reset() leaves it, but for the stand's pose.
PickStart == [t |-> PickTime, stopping |-> FALSE, stopped |-> FALSE, frame |-> 0]

-----------------------------------------------------------------------------
(* Mutants *)

\* An equal priority is enough.
PreemptsEqual == priorities[request] >= priorities[current]

\* What is left behind stays where it ended.
LeftNeverReset == FALSE

\* isStopping outlives the generator it was raised for.
StoppingAfterSwitchKept == isStopping

\* The pick-up does not hear of stop().
PickStoppedDeaf == pick

\* The dive's end is not undone.
SuccessorOfCurrentAny == request

\* A preempting getup goes on from where it was left.
ResetByPreemptionSpared == ActionTypes \ Getups

-----------------------------------------------------------------------------
(* The generators *)

\* bodyGenerators[a] == bodyGenerators[b]
Same(a, b) == a = b \/ {a, b} \subseteq WalkFamily

IsActive(a) ==
  CASE a = "NONE" -> FALSE
    [] a \in WalkFamily -> walking
    [] a = "DEAD" -> ticks <= MIN_TICKS
    [] a = "REF_PICKUP" -> ~pick.stopped \/ pick.frame # NotRunning
    [] OTHER -> frame[a] # NotRunning

\* current_time after a frame was played; the last pose is held once it is over.
FrameAfter(f) == IF f = NotRunning \/ f + 1 = Frames THEN NotRunning ELSE f + 1

\* makeJoints of the referee's pick-up
PickAfter(p) ==
  LET t == IF p.stopping /\ p.t >= 0 THEN p.t - 1 ELSE p.t IN    \* -1: below zero
  [t |-> t,
   stopping |-> p.stopping /\ t # 0,
   stopped |-> p.stopped \/ (p.stopping /\ t = 0),
   frame |-> FrameAfter(p.frame)]

\* stop() of the referee's pick-up; every other generator's decides nothing.
PickStopped == [pick EXCEPT !.stopping = TRUE]

\* makeJoints of the generators in `a', from where they are or, for those in
\* `back', from their start.
Play(a, back) ==
  /\ frame' = [p \in Poses |->
       LET f == IF p \in back THEN 0 ELSE frame[p] IN IF p = a THEN FrameAfter(f) ELSE f]
  /\ walking' = (a \in WalkFamily \/ (walking /\ back \cap WalkFamily = {}))
  /\ LET t == IF "DEAD" \in back THEN 0 ELSE ticks IN
     ticks' = IF a = "DEAD" /\ t <= MIN_TICKS THEN t + 1 ELSE t

PlayPick(a, p) == pick' = IF a = "REF_PICKUP" THEN PickAfter(p) ELSE p

-----------------------------------------------------------------------------
(* DistributedGenerator::makeJoints *)

Preempts == priorities[request] > priorities[current]

\* Whether the generator left behind is reset: not if it goes on as it is.
LeftReset ==
  \/ ~Same(current, request)
  \/ isStopping
  \/ current \in Getups /\ request = current

SuccessorOfCurrent ==
  IF current = "GOALIE_CENTRE" /\ request # "GOALIE_CENTRE" THEN "GOALIE_UNCENTRE" ELSE request

StoppingAfterSwitch == FALSE

\* A kick whose request has become a walk is a walk from the next cycle on: the
\* walk engine rewrites the request at the end of a kick, and the preprocessor
\* while a turn dribble is under way.
Settled(next) == IF next = "KICK" THEN {"KICK", "WALK"} ELSE {next}

\* requestedDive, noted with the generator `now' and cleared with `next'.  The
\* code's other alternative, DEFENDER_CENTRE now, contradicts its own guard.
NoteDive(now, asked, next) ==
  LET dive == IF /\ requestedDive = "NONE"
                 /\ now \notin Dives \cup {"DEFENDER_CENTRE"}
                 /\ asked \in Dives
              THEN asked ELSE requestedDive
  IN requestedDive' = IF next = dive THEN "NONE" ELSE dive

\* What DistributedGenerator::reset resets.
ResetByPreemption == ActionTypes

\* reset() of everything, and the request begins.
Begin(now, asked) ==
  /\ Play(asked, ResetByPreemption)
  /\ PlayPick(asked, PickStart)
  /\ current' \in Settled(asked)
  /\ isStopping' = FALSE
  /\ NoteDive(now, asked, asked)
  /\ wasReset' = TRUE /\ contested' = FALSE
  /\ UNCHANGED request

Preempt == Preempts /\ Begin(current, request)

\* The current generator is inactive: the request follows it.
Switch ==
  LET next == SuccessorOfCurrent
      back == IF LeftReset THEN {a \in ActionTypes : Same(a, current)} ELSE {}
  IN
  /\ ~Preempts
  /\ ~IsActive(current)
  /\ Play(next, back)
  /\ PlayPick(next, IF "REF_PICKUP" \in back THEN PickStart ELSE pick)
  /\ current' \in Settled(next)
  /\ isStopping' = StoppingAfterSwitch
  /\ NoteDive(current, request, next)
  /\ contested' = (next # request)
  /\ UNCHANGED <<request, wasReset>>

\* The current generator is active: it goes on, and is told to stop when another
\* one is wanted, but for a kick that would have to stand.
Continue ==
  LET stop == ~Same(current, request) /\ ~(current = "KICK" /\ request = "STAND") IN
  /\ ~Preempts
  /\ IsActive(current)
  /\ Play(current, {})
  /\ PlayPick(current, IF stop /\ current = "REF_PICKUP" THEN PickStopped ELSE pick)
  /\ current' \in Settled(current)
  /\ isStopping' = (isStopping \/ stop)
  /\ NoteDive(current, request, current)
  /\ contested' = (contested \/ request # current)
  /\ UNCHANGED <<request, wasReset>>

Tick == Preempt \/ Switch \/ Continue

\* MotionAdapter::tick with the touch's `standing': generator->reset() and the
\* initial pose, whatever the behaviour wants.
StandUp == Begin("NONE", "INITIAL")

\* ThreadManager has caught a fault of the Motion thread and builds its
\* MotionAdapter, and with it every generator, anew; the request stays.
Rebuilt ==
  /\ current' = "NONE"
  /\ frame' = [p \in Poses |-> NotRunning]
  /\ walking' = FALSE /\ ticks' = 0
  /\ pick' = [PickStart EXCEPT !.frame = NotRunning]
  /\ isStopping' = FALSE /\ requestedDive' = "NONE"
  /\ wasReset' = FALSE /\ contested' = FALSE
  /\ UNCHANGED request

\* BehaviourAdapter::tick; the safety skill's falls are among the requests.
Request(a) ==
  /\ request' = a
  /\ UNCHANGED <<current, gens, isStopping, requestedDive, wasReset, contested>>

-----------------------------------------------------------------------------

Init ==
  /\ current = "NONE"
  /\ frame = [p \in Poses |-> NotRunning]
  /\ walking = FALSE /\ ticks = 0
  /\ pick = [PickStart EXCEPT !.frame = NotRunning]
  /\ isStopping = FALSE /\ requestedDive = "NONE"
  /\ request = "NONE"
  /\ wasReset = FALSE /\ contested = FALSE

Next == Tick \/ StandUp \/ Rebuilt \/ \E a \in Asked : Request(a)

\* The Motion thread ticks as long as it is given sensor values.
Spec == Init /\ [][Next]_vars /\ WF_vars(Tick)

-----------------------------------------------------------------------------
(* Properties *)

TypeOK ==
  /\ current \in ActionTypes /\ request \in ActionTypes
  /\ frame \in [Poses -> NotRunning..(Frames - 1)]
  /\ walking \in BOOLEAN /\ ticks \in 0..(MIN_TICKS + 1)
  /\ pick \in [t : -1..PickTime, stopping : BOOLEAN, stopped : BOOLEAN,
               frame : NotRunning..(Frames - 1)]
  /\ isStopping \in BOOLEAN /\ requestedDive \in Dives \cup {"NONE"}
  /\ wasReset \in BOOLEAN /\ contested \in BOOLEAN

\* Once reset() has been called, every generator that is not current is at its
\* start: no action is ever entered in the middle, or at its end with a jump to
\* the last pose, however it was left the last time.
ArmedUnlessCurrent ==
  wasReset =>
    /\ \A p \in Poses \ {current} : frame[p] = 0
    /\ walking => current \in WalkFamily
    /\ current # "DEAD" => ticks = 0
    /\ current # "REF_PICKUP" => pick = PickStart

\* A getup, a dive, a tip-over or an ukemi is played to its end: only the standing
\* command, or a fault of the thread, takes the joints away from it.
TopPriorityPlaysOut ==
  [][priorities[current] = 3 /\ IsActive(current) => current' = current \/ StandUp \/ Rebuilt]_vars

\* A goalie that has gone down to the centre comes up by the way back, even when
\* the request has gone on to something else long before, or to a getup.
CentreIsUndone ==
  [][current = "GOALIE_CENTRE" =>
       current' \in {"GOALIE_CENTRE", "GOALIE_UNCENTRE"} \/ StandUp \/ Rebuilt]_vars

\* A pose that has been played is held, and not played once more unless something
\* else was asked for in between; the getups try again until the robot is up.
ReplayOnlyIfContested ==
  [][/\ current' = current
     /\ current \in Poses \ Getups
     /\ frame[current] = NotRunning
     /\ frame'[current] # NotRunning
     => contested \/ StandUp]_vars

\* A getup, a dive, or any other pose that a robot on its feet does not ask for is
\* entered at its first frame, even by a Motion thread that was just rebuilt, when
\* every generator claims to be at its end.
EnteredAtItsStart ==
  [][current' # current /\ current' \in Poses /\ priorities[current'] > 0
       => frame'[current'] = FrameAfter(0)]_vars

\* A request that stays is served in the end, whatever was playing, save the walk: its
\* stop(), "like reset, but time is given to transition" in Generator.hpp, does nothing.
Steady == UNCHANGED request /\ ~StandUp /\ ~Rebuilt
RequestServed ==
  <>[][Steady]_vars => <>[](Same(current, request) \/ current \in WalkFamily)
=================================================================================
