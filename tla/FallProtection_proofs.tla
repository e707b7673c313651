-------------------------- MODULE FallProtection_proofs --------------------------
(***************************************************************************)
(* For every strategy, confirmation length and set of directions: an ukemi *)
(* is confirmed, a robot that lies is not walked, and the two threads do   *)
(* with the generators what DistributedGenerator allows.  With the lemmas  *)
(* about the generators, that a robot on its face gets up, and that one on *)
(* its feet is given back to the behaviour.                                *)
(*                                                                         *)
(* The last two suppose that the threads have steps to take, MotionReady   *)
(* and PerceptionReady, and induction over the ticks that are left.        *)
(***************************************************************************)
EXTENDS FallProtection, TLAPS

\* What the safety skill asks of a robot that lies.
LyingRequests == {"GETUP_BACK", "GETUP_FRONT", "TIP_OVER", "DEAD"}

\* The count never runs ahead of the ticks that saw a fall, but for a bypass.
CountInv == fallingCounter > 0 => fallTicks >= fallingCounter \/ bypassed

\* What was seen, posted, read and played of a robot that lies.
LyingInv ==
  /\ lying >= 1 => posted \in LyingRequests
  /\ lying >= 2 => request \in LyingRequests
  /\ LyingIsNotWalked

IInv ==
  /\ TypeOK
  /\ current \in Generators!ActionTypes
  /\ CountInv
  /\ LyingInv

USE DEF motionVars, skillVars, remoteVars

-----------------------------------------------------------------------------
(* The generators *)

\* The names that the generators know, and the urgency of what follows a fall.
LEMMA Names ==
  /\ Requests \subseteq Generators!ActionTypes
  /\ Generators!WalkFamily \subseteq Generators!ActionTypes
  /\ {"NONE", "INITIAL", "GOALIE_UNCENTRE"} \subseteq Generators!ActionTypes
  /\ LyingRequests \subseteq Requests
  /\ \A a \in LyingRequests : Generators!priorities[a] \in {1, 3}
  /\ \A a \in Generators!WalkFamily : Generators!priorities[a] = 0
  /\ LyingRequests \cap Generators!WalkFamily = {}
  /\ "KICK" \in Generators!WalkFamily /\ "WALK" \in Generators!WalkFamily
  /\ "NONE" \notin Generators!WalkFamily /\ "INITIAL" \notin Generators!WalkFamily
  /\ "GOALIE_UNCENTRE" \notin Generators!WalkFamily /\ "GOALIE_CENTRE" \notin Generators!WalkFamily
<1> USE DEF Generators!ActionTypes, Generators!Poses, Generators!WalkFamily, LyingRequests
<1>1. Requests \subseteq Generators!ActionTypes
  BY StrategyAssumption, FallAssumption DEF Requests, SafetyRequests
<1>2. /\ \A a \in LyingRequests : Generators!priorities[a] \in {1, 3}
      /\ \A a \in Generators!WalkFamily : Generators!priorities[a] = 0
  BY DEF Generators!priorities, Generators!Getups, Generators!Dives
<1> QED
  BY <1>1, <1>2 DEF Requests, SafetyRequests

\* Every step of the generators leaves a generator current.
LEMMA CurrentStep ==
  ASSUME IInv, Generators!Tick \/ Generators!StandUp \/ Generators!Rebuilt
  PROVE  current' \in Generators!ActionTypes /\ request' = request
<1>0. current \in Generators!ActionTypes /\ request \in Generators!ActionTypes
  BY Names DEF IInv, TypeOK
<1> USE Names, <1>0 DEF Generators!Settled
<1>1. CASE Generators!Preempt
  BY <1>1 DEF Generators!Preempt, Generators!Begin
<1>2. CASE Generators!StandUp
  BY <1>2 DEF Generators!StandUp, Generators!Begin
<1>3. CASE Generators!Switch
  BY <1>3 DEF Generators!Switch, Generators!SuccessorOfCurrent
<1>4. CASE Generators!Continue
  BY <1>4 DEF Generators!Continue
<1>5. CASE Generators!Rebuilt
  BY <1>5 DEF Generators!Rebuilt
<1> QED
  BY <1>1, <1>2, <1>3, <1>4, <1>5 DEF Generators!Tick

\* With the request of a robot that lies, no step ends with the walk engine.
LEMMA NotWalked ==
  ASSUME IInv, request \in LyingRequests, Generators!Tick \/ Generators!StandUp
  PROVE  current' \notin Generators!WalkFamily
<1> USE Names DEF Generators!Settled
<1>1. CASE Generators!StandUp
  BY <1>1 DEF Generators!StandUp, Generators!Begin
<1>2. CASE Generators!Preempt
  <2>1. current' = request
    BY <1>2 DEF Generators!Preempt, Generators!Begin
  <2> QED
    BY <2>1
<1>3. CASE Generators!Switch
  BY <1>3 DEF Generators!Switch, Generators!SuccessorOfCurrent
<1>4. CASE Generators!Continue
  <2>1. current \notin Generators!WalkFamily
    BY <1>4 DEF Generators!Continue, Generators!Preempts
  <2> QED
    BY <1>4, <2>1 DEF Generators!Continue
<1> QED
  BY <1>1, <1>2, <1>3, <1>4 DEF Generators!Tick

-----------------------------------------------------------------------------
(* The safety skill *)

\* The count, one tick on, stays in its range.
LEMMA CounterType ==
  ASSUME TypeOK, NEW s, NEW ukemi \in BOOLEAN
  PROVE  CounterAfter(s, ukemi) \in 0..FALLING_CONFIRM_FRAMES
  BY FallAssumption DEF TypeOK, CounterAfter, Saturate

\* What is posted is one of the requests.
LEMMA WrappedType ==
  ASSUME NEW s, NEW count, NEW ukemi \in BOOLEAN, NEW asked \in Requests
  PROVE  Wrapped(s, count, ukemi, asked) \in Requests
<1>1. SafetyRequests \subseteq Requests
  BY DEF Requests
<1>2. WhenFallen(s, asked) \in Requests
  BY <1>1 DEF WhenFallen, SafetyRequests
<1>3. WhenFalling(FallingTo(s, ukemi), count, ukemi, asked) \in Requests
  BY <1>1 DEF WhenFalling, SafetyRequests
<1> QED
  BY <1>1, <1>2, <1>3 DEF Wrapped, SafetyRequests

\* The skills ask for requests, and none of them for an ukemi.
LEMMA AskedType == TypeOK => Asked \subseteq Requests \ Ukemis
  BY StrategyAssumption, FallAssumption DEF TypeOK, Asked, Requests, Ukemis

\* A robot that lies is asked to get up, to turn over or to lie still.
LEMMA WrappedLying ==
  ASSUME NEW s, NEW count, NEW ukemi, NEW asked, s.fallen # "no"
  PROVE  Wrapped(s, count, ukemi, asked) \in LyingRequests
  BY DEF Wrapped, WhenFallen, LyingRequests

\* An ukemi comes of a count that is complete, and of a tick that sees a fall.
LEMMA WrappedUkemi ==
  ASSUME NEW s, NEW count \in 0..FALLING_CONFIRM_FRAMES, NEW ukemi \in BOOLEAN,
         NEW asked, asked \notin Ukemis, Wrapped(s, count, ukemi, asked) \in Ukemis
  PROVE  FallingTo(s, ukemi) # "no" /\ count = FALLING_CONFIRM_FRAMES
<1>1. s.fallen = "no"
  BY DEF Wrapped, WhenFallen, Ukemis
<1>2. FallingTo(s, ukemi) # "no"
  BY <1>1 DEF Wrapped, Ukemis
<1>3. WhenFalling(FallingTo(s, ukemi), count, ukemi, asked) \in Ukemis
  BY <1>1, <1>2 DEF Wrapped
<1>4. ~(count < FALLING_CONFIRM_FRAMES)
  BY <1>3, FallAssumption DEF WhenFalling
<1> QED
  BY <1>2, <1>4, FallAssumption

-----------------------------------------------------------------------------
(* The Perception thread *)

\* The histories of a Perception tick stay in their ranges.
LEMMA SeenType ==
  ASSUME TypeOK, NEW skill \in BOOLEAN, Seen(skill)
  PROVE  /\ fallTicks' \in 0..FALLING_CONFIRM_FRAMES
         /\ bypassed' \in BOOLEAN /\ lying' \in 0..3
<1>1. fallTicks' \in 0..FALLING_CONFIRM_FRAMES
  BY FallAssumption DEF TypeOK, Seen, Saturate
<1>2. bypassed' \in BOOLEAN
  BY Zenon DEF Seen
<1>3. lying' \in 0..3
  BY DEF TypeOK, Seen
<1> QED
  BY <1>1, <1>2, <1>3

\* Passed over or asked, the skill's count and the posts stay sound.
LEMMA PerceptionStep ==
  ASSUME IInv, PerceptionTick
  PROVE  IInv'
<1>0. TypeOK /\ UNCHANGED <<sensors, motionVars, remoteVars, request, generatorVars>>
  BY DEF IInv, PerceptionTick
<1>1. ASSUME NEW skill \in BOOLEAN, Seen(skill), posted' \in Requests,
             fallingCounter' \in 0..FALLING_CONFIRM_FRAMES
      PROVE  TypeOK'
  <2>1. /\ fallTicks' \in 0..FALLING_CONFIRM_FRAMES
        /\ bypassed' \in BOOLEAN /\ lying' \in 0..3
    BY <1>0, <1>1, SeenType
  <2> QED
    BY <1>0, <1>1, <2>1 DEF TypeOK
<1>2. ASSUME UNCHANGED fallingCounter, Seen(FALSE), posted' \in Requests
      PROVE  IInv'
  <2>1. TypeOK'
    BY <1>0, <1>1, <1>2 DEF TypeOK
  <2>2. CountInv'
    BY <1>2 DEF Seen, CountInv
  <2>3. lying' = 0
    BY <1>2 DEF Seen
  <2> QED
    BY <1>0, <2>1, <2>2, <2>3 DEF IInv, LyingInv, LyingIsNotWalked, generatorVars
<1>3. CASE Calibrate
  <2>1. posted' \in Requests
    BY <1>0, <1>3, AskedType DEF Calibrate
  <2> QED
    BY <1>2, <1>3, <2>1 DEF Calibrate
<1>4. CASE Obey
  <2>1. posted' \in Requests
    BY <1>0, <1>4 DEF Obey, TypeOK, Requests
  <2> QED
    BY <1>2, <1>4, <2>1 DEF Obey
<1>5. ASSUME NEW asked \in Asked, NEW ukemi \in BOOLEAN, Behave(asked, ukemi)
      PROVE  IInv'
  <2>1. fallingCounter' \in 0..FALLING_CONFIRM_FRAMES
    BY <1>0, <1>5, CounterType DEF Behave
  <2>2. posted' \in Requests
    BY <1>0, <1>5, AskedType, WrappedType DEF Behave
  <2>3. TypeOK'
    BY <1>1, <1>5, <2>1, <2>2 DEF Behave
  <2>4. CountInv'
    <3>1. CASE FallingTo(sensors, ukemi) # "no"
      <4>1. sensors.falling # {}
        BY <3>1 DEF FallingTo
      <4>2. /\ fallingCounter' = Saturate(fallingCounter + 1, FALLING_CONFIRM_FRAMES)
            /\ fallTicks' = Saturate(fallTicks + 1, FALLING_CONFIRM_FRAMES)
            /\ bypassed' = (fallingCounter' > 0 /\ bypassed)
        BY <1>5, <3>1, <4>1 DEF Behave, CounterAfter, Seen
      <4> QED
        BY <1>0, <4>2, FallAssumption DEF IInv, CountInv, Saturate, TypeOK
    <3>2. CASE FallingTo(sensors, ukemi) = "no"
      <4>1. fallingCounter' = 0
        BY <1>5, <3>2 DEF Behave, CounterAfter
      <4> QED
        BY <4>1 DEF CountInv
    <3> QED
      BY <3>1, <3>2
  <2>5. LyingInv'
    <3>1. CASE sensors.fallen # "no"
      <4>1. posted' \in LyingRequests
        BY <1>5, <3>1, WrappedLying DEF Behave
      <4>2. lying' = IF lying = 0 THEN 1 ELSE lying
        BY <1>5, <3>1 DEF Behave, Seen
      <4>3. lying' >= 2 => lying' = lying
        BY <4>2
      <4> QED
        BY <1>0, <4>1, <4>2, <4>3 DEF IInv, LyingInv, LyingIsNotWalked, generatorVars
    <3>2. CASE sensors.fallen = "no"
      <4>1. lying' = 0
        BY <1>5, <3>2 DEF Behave, Seen
      <4> QED
        BY <4>1 DEF LyingInv, LyingIsNotWalked
    <3> QED
      BY <3>1, <3>2
  <2> QED
    BY <1>0, <2>3, <2>4, <2>5 DEF IInv, generatorVars
<1> QED
  BY <1>3, <1>4, <1>5 DEF PerceptionTick

-----------------------------------------------------------------------------
(* All steps *)

\* The first state is sound.
LEMMA InitInv == Init => IInv
<1> SUFFICES ASSUME Init PROVE IInv
  OBVIOUS
<1>1. request = "NONE" /\ current = "NONE"
  BY DEF Init, Generators!Init
<1>2. sensors \in Samples
  BY DEF Init, Samples, Upright
<1>3. remoteControlActive \in BOOLEAN /\ stamped \in BOOLEAN /\ bypassed \in BOOLEAN
      /\ disturbed \in BOOLEAN
  BY Zenon DEF Init
<1>4. TypeOK
  BY <1>1, <1>2, <1>3, FallAssumption DEF Init, TypeOK, Requests
<1> QED
  BY <1>1, <1>4, Names DEF Init, IInv, CountInv, LyingInv, LyingIsNotWalked

\* Every step of the threads, the remote control and the clock keeps it.
LEMMA StepInv ==
  ASSUME IInv, [Next]_vars
  PROVE  IInv'
<1>0. TypeOK
  BY DEF IInv
<1>1. CASE PerceptionTick
  BY <1>1, PerceptionStep
<1>2. CASE PerceptionFault
  <2>1. fallingCounter' = 0 /\ bypassed' \in BOOLEAN
    BY <1>2, Zenon DEF PerceptionFault
  <2>2. 0 \in 0..FALLING_CONFIRM_FRAMES
    BY FallAssumption
  <2>3. TypeOK'
    BY <1>0, <1>2, <2>1, <2>2 DEF PerceptionFault, TypeOK, remoteVars, motionVars
  <2>4. UNCHANGED <<posted, request, current, lying>>
    BY <1>2 DEF PerceptionFault, generatorVars
  <2>5. CountInv'
    BY <2>1 DEF CountInv
  <2> QED
    BY <2>3, <2>4, <2>5 DEF IInv, LyingInv, LyingIsNotWalked
<1>3. CASE MotionReads
  <2>1. request' = posted /\ current' = current
    BY <1>3 DEF MotionReads, Generators!Request
  <2> QED
    BY <1>3, <2>1 DEF MotionReads, IInv, TypeOK, CountInv, LyingInv, LyingIsNotWalked
<1>4. ASSUME NEW sample \in Samples, NEW standing \in BOOLEAN, MotionTick(sample, standing)
      PROVE  IInv'
  <2>1. Generators!Tick \/ Generators!StandUp
    BY <1>4 DEF MotionTick
  <2>2. current' \in Generators!ActionTypes /\ request' = request
    BY <2>1, CurrentStep
  <2>3. TypeOK'
    BY <1>0, <1>4, <2>2 DEF MotionTick, TypeOK
  <2>4. CountInv'
    BY <1>4 DEF MotionTick, IInv, CountInv
  <2>5. LyingInv'
    <3>1. posted' = posted /\ lying' = IF lying = 2 THEN 3 ELSE lying
      BY <1>4 DEF MotionTick
    <3>2. lying \in 0..3
      BY <1>0 DEF TypeOK
    <3>3. request \in LyingRequests => current' \notin Generators!WalkFamily
      BY <2>1, NotWalked
    <3> QED
      BY <2>2, <3>1, <3>2, <3>3 DEF IInv, LyingInv, LyingIsNotWalked
  <2> QED
    BY <2>2, <2>3, <2>4, <2>5 DEF IInv
<1>5. CASE MotionSkips
  BY <1>5 DEF MotionSkips, IInv, TypeOK, CountInv, LyingInv, LyingIsNotWalked, generatorVars
<1>6. CASE MotionFault
  <2>1. current' = "NONE" /\ request' = request
    BY <1>6 DEF MotionFault, Generators!Rebuilt
  <2> QED
    BY <1>6, <2>1, Names DEF MotionFault, IInv, TypeOK, CountInv, LyingInv, LyingIsNotWalked
<1>7. CASE Stamp
  BY <1>7, FallAssumption DEF Stamp, IInv, TypeOK, CountInv, LyingInv, LyingIsNotWalked,
                              generatorVars
<1>8. CASE Second
  BY <1>8, FallAssumption DEF Second, IInv, TypeOK, CountInv, LyingInv, LyingIsNotWalked,
                              generatorVars
<1>9. ASSUME NEW command \in RemoteCommands, Store(command)
      PROVE  IInv'
  BY <1>9 DEF Store, IInv, TypeOK, CountInv, LyingInv, LyingIsNotWalked, generatorVars
<1>10. CASE UNCHANGED vars
  BY <1>10 DEF vars, IInv, TypeOK, CountInv, LyingInv, LyingIsNotWalked, generatorVars
<1> QED
  BY <1>1, <1>2, <1>3, <1>4, <1>5, <1>6, <1>7, <1>8, <1>9, <1>10 DEF Next

\* IInv holds throughout every behaviour.
THEOREM Invariance == Spec => []IInv
<1>1. Init => IInv
  BY InitInv
<1>2. IInv /\ [Next]_vars => IInv'
  BY StepInv
<1> QED
  BY <1>1, <1>2, PTL DEF Spec

\* The requests, the skill's count and the remote control's age keep to their ranges.
THEOREM TypeCorrect == Spec => []TypeOK
<1>1. IInv => TypeOK
  BY DEF IInv
<1> QED
  BY <1>1, Invariance, PTL

\* Whatever the strategy wants, a robot that was seen lying is not walked once Motion
\* has played the post of that tick.
THEOREM LyingNotWalked == Spec => []LyingIsNotWalked
<1>1. IInv => LyingIsNotWalked
  BY DEF IInv, LyingInv
<1> QED
  BY <1>1, Invariance, PTL

\* No ukemi without a full count of ticks that saw a fall, for any length of the
\* count, unless it was passed over in between.
THEOREM Confirmed == Spec => ConfirmedFall
<1> DEFINE Down == posted' \in Ukemis /\ posted' # posted
<1>1. ASSUME IInv, [Next]_vars
      PROVE  [Down => fallTicks' = FALLING_CONFIRM_FRAMES \/ bypassed']_vars
  <2> SUFFICES ASSUME Next, Down
               PROVE  fallTicks' = FALLING_CONFIRM_FRAMES \/ bypassed'
    BY <1>1
  <2>0. IInv' /\ TypeOK
    BY <1>1, StepInv DEF IInv
  <2>1. CASE PerceptionTick
    <3>1. ~Calibrate
      BY DEF Calibrate, Ukemis
    <3>2. ~Obey
      BY <2>0, FallAssumption DEF Obey, TypeOK, Ukemis
    <3>3. PICK asked \in Asked, ukemi \in BOOLEAN : Behave(asked, ukemi)
      BY <2>1, <3>1, <3>2 DEF PerceptionTick
    <3>4. fallingCounter' \in 0..FALLING_CONFIRM_FRAMES
      BY <2>0 DEF IInv, TypeOK
    <3>5. posted' = Wrapped(sensors, fallingCounter', ukemi, asked) /\ asked \notin Ukemis
      BY <2>0, <3>3, AskedType DEF Behave
    <3>6. fallingCounter' = FALLING_CONFIRM_FRAMES
      BY <3>4, <3>5, WrappedUkemi
    <3> QED
      BY <2>0, <3>6, FallAssumption DEF IInv, TypeOK, CountInv
  <2>2. ASSUME ~PerceptionTick
        PROVE  posted' = posted
    BY <2>2 DEF Next, PerceptionFault, MotionReads, MotionSkips, MotionFault, MotionTick,
                Stamp, Second, Store
  <2> QED
    BY <2>1, <2>2
<1> QED
  BY <1>1, Invariance, PTL DEF Spec, ConfirmedFall

\* Each step of the two threads is one of the generators, or leaves them alone.
LEMMA DrivesStep ==
  ASSUME IInv, [Next]_vars
  PROVE  [Generators!Next]_Generators!vars
<1> USE DEF Generators!Next
<1>1. CASE MotionReads
  BY <1>1 DEF MotionReads, IInv, TypeOK
<1>2. ASSUME NEW sample \in Samples, NEW standing \in BOOLEAN, MotionTick(sample, standing)
      PROVE  Generators!Next
  BY <1>2 DEF MotionTick
<1>3. CASE MotionFault
  BY <1>3 DEF MotionFault
<1>4. ASSUME UNCHANGED <<generatorVars, request>>
      PROVE  UNCHANGED Generators!vars
  BY <1>4 DEF Generators!vars, Generators!gens, generatorVars
<1>5. CASE PerceptionTick \/ PerceptionFault \/ MotionSkips \/ Stamp \/ Second
  <2>1. UNCHANGED <<generatorVars, request>>
    BY <1>5 DEF PerceptionTick, PerceptionFault, MotionSkips, Stamp, Second
  <2> QED
    BY <1>4, <2>1
<1>6. ASSUME NEW command \in RemoteCommands, Store(command)
      PROVE  UNCHANGED Generators!vars
  BY <1>4, <1>6 DEF Store
<1>7. CASE UNCHANGED vars
  BY <1>4, <1>7 DEF vars
<1> QED
  BY <1>1, <1>2, <1>3, <1>5, <1>6, <1>7 DEF Next

\* The two threads, however they interleave, do with the generators only what
\* DistributedGenerator does: what was proved of it there holds here.
THEOREM DrivesGenerators ==
  Spec => Generators!Init /\ [][Generators!Next]_Generators!vars
<1>1. Init => Generators!Init
  BY DEF Init
<1>2. IInv /\ [Next]_vars => [Generators!Next]_Generators!vars
  BY DrivesStep
<1> QED
  BY <1>1, <1>2, Invariance, PTL DEF Spec

-----------------------------------------------------------------------------
(* The generators' own lemmas, under the requests of the two threads *)

Lemmas == INSTANCE DistributedGenerator_proofs WITH Asked <- Requests

\* Those lemmas are about the same generators.
LEMMA SameGenerators ==
  /\ Lemmas!TypeOK <=> Generators!TypeOK
  /\ Lemmas!Tick <=> Generators!Tick
  /\ [Lemmas!Next]_Lemmas!vars <=> [Generators!Next]_Generators!vars
  /\ Lemmas!Init <=> Generators!Init
<1> USE DEF Lemmas!ActionTypes, Lemmas!Poses, Lemmas!WalkFamily, Lemmas!Getups, Lemmas!Dives,
      Lemmas!priorities, Lemmas!NotRunning, Lemmas!Same, Lemmas!IsActive, Lemmas!FrameAfter,
      Lemmas!PickStart, Lemmas!PickAfter, Lemmas!PickStopped, Lemmas!Play, Lemmas!PlayPick,
      Lemmas!Preempts, Lemmas!LeftReset, Lemmas!SuccessorOfCurrent, Lemmas!StoppingAfterSwitch,
      Lemmas!Settled, Lemmas!NoteDive, Lemmas!ResetByPreemption, Lemmas!Begin, Lemmas!Preempt,
      Lemmas!Switch, Lemmas!Continue, Lemmas!StandUp, Lemmas!Rebuilt, Lemmas!Request
<1> USE DEF Generators!ActionTypes, Generators!Poses, Generators!WalkFamily, Generators!Getups,
      Generators!Dives, Generators!priorities, Generators!NotRunning, Generators!Same,
      Generators!IsActive, Generators!FrameAfter, Generators!PickStart, Generators!PickAfter,
      Generators!PickStopped, Generators!Play, Generators!PlayPick, Generators!Preempts,
      Generators!LeftReset, Generators!SuccessorOfCurrent, Generators!StoppingAfterSwitch,
      Generators!Settled, Generators!NoteDive, Generators!ResetByPreemption, Generators!Begin,
      Generators!Preempt, Generators!Switch, Generators!Continue, Generators!StandUp,
      Generators!Rebuilt, Generators!Request
<1> QED
  BY DEF Lemmas!TypeOK, Lemmas!Init, Lemmas!Tick, Lemmas!Next, Lemmas!vars, Lemmas!gens,
     Generators!TypeOK, Generators!Init, Generators!Tick, Generators!Next, Generators!vars,
     Generators!gens

\* What they suppose of the constants holds.
LEMMA LemmasApply == Lemmas!GeneratorAssumption /\ Lemmas!AskedAssumption
<1>1. Lemmas!ActionTypes = Generators!ActionTypes
  BY DEF Lemmas!ActionTypes, Lemmas!Poses, Lemmas!WalkFamily, Generators!ActionTypes,
     Generators!Poses, Generators!WalkFamily
<1> QED
  BY <1>1, Names, FallAssumption DEF Lemmas!GeneratorAssumption, Lemmas!AskedAssumption

\* What was shown inductive of the generators.
GenInv == Lemmas!TypeOK /\ Lemmas!PickInv

\* It holds in every behaviour of the two threads.
LEMMA GenRuns == Spec => []GenInv
<1>1. Init => GenInv
  <2>1. Generators!Init => Lemmas!TypeOK
    BY SameGenerators, LemmasApply, Lemmas!InitType
  <2>2. Generators!Init => Lemmas!PickInv
    BY FallAssumption DEF Generators!Init, Generators!PickStart, Lemmas!PickInv
  <2> QED
    BY <2>1, <2>2 DEF Init, GenInv
<1>2. IInv /\ GenInv /\ [Next]_vars => GenInv'
  <2> SUFFICES ASSUME IInv, GenInv, [Next]_vars
               PROVE  GenInv'
    OBVIOUS
  <2>1. Lemmas!TypeOK /\ Lemmas!PickInv /\ [Lemmas!Next]_Lemmas!vars
    BY DrivesStep, SameGenerators DEF GenInv
  <2>2. Lemmas!TypeOK'
    BY <2>1, LemmasApply, Lemmas!StepType
  <2>3. Lemmas!PickInv'
    BY <2>1, LemmasApply, Lemmas!StepPick
  <2> QED
    BY <2>2, <2>3 DEF GenInv
<1> QED
  BY <1>1, <1>2, Invariance, PTL DEF Spec

-----------------------------------------------------------------------------
(* Liveness.  ENABLED is out of the provers' reach: what weak fairness needs of it is a *)
(* hypothesis of the theorems.                                                          *)

\* The Motion thread is about to read its request.
Reading == motion = "read"

\* Nothing keeps it from that.
MotionReady == Reading => ENABLED <<MotionReads>>_vars

\* The premises of FallenGetsUp, at one instant.
Fallen ==
  ~disturbed /\ posted # "MOTION_CALIBRATE" /\ age = RemoteFresh /\ sensors.fallen = "front"

\* A robot that is on its face, or back on its feet, and was not yet told so, is told.
PerceptionReady ==
  /\ Fallen /\ useGetups /\ posted # "GETUP_FRONT" => ENABLED <<PerceptionTick>>_vars
  /\ sensors = Upright /\ posted \in SafetyRequests => ENABLED <<PerceptionTick>>_vars

\* Motion does not leave its reading but by it.
LEMMA ReadsOn ==
  /\ Reading /\ [Next]_vars => Reading' \/ <<MotionReads>>_vars
  /\ <<MotionReads>>_vars => ~Reading'
<1>1. Reading /\ [Next]_vars => Reading' \/ <<MotionReads>>_vars
  <2> SUFFICES ASSUME Reading, [Next]_vars, ~MotionReads
               PROVE  Reading'
    BY DEF Reading, MotionReads, vars, motionVars
  <2> QED
    BY DEF Reading, Next, vars, PerceptionTick, PerceptionFault, MotionSkips, MotionFault,
       MotionTick, Stamp, Second, Store
<1>2. <<MotionReads>>_vars => ~Reading'
  BY DEF Reading, MotionReads
<1> QED
  BY <1>1, <1>2

\* What a step does to the generators, and what is known of it then.
LEMMA MotionMoves ==
  ASSUME [Next]_vars
  PROVE  \/ /\ UNCHANGED <<generatorVars>>
            /\ Reading' => Reading \/ disturbed'
            /\ disturbed => disturbed'
         \/ Generators!StandUp /\ disturbed'
         \/ Generators!Rebuilt /\ disturbed'
         \/ Generators!Tick
<1>1. ASSUME NEW sample \in Samples, NEW standing \in BOOLEAN, MotionTick(sample, standing)
      PROVE  (Generators!StandUp /\ disturbed') \/ Generators!Tick
  BY <1>1 DEF MotionTick
<1>2. CASE MotionFault
  BY <1>2 DEF MotionFault
<1>3. CASE MotionReads
  BY <1>3 DEF MotionReads, Generators!Request, Generators!gens, generatorVars, Reading
<1>4. CASE MotionSkips
  BY <1>4 DEF MotionSkips
<1>5. CASE PerceptionTick \/ PerceptionFault \/ Stamp \/ Second \/ UNCHANGED vars
           \/ \E command \in RemoteCommands : Store(command)
  BY <1>5 DEF PerceptionTick, PerceptionFault, Stamp, Second, Store, vars, Reading
<1> QED
  BY <1>1, <1>2, <1>3, <1>4, <1>5 DEF Next

\* What generators are left alone have left stays.
LEMMA LeftStays ==
  ASSUME UNCHANGED <<generatorVars>>
  PROVE  UNCHANGED <<Lemmas!Left, current>>
  BY DEF generatorVars, Lemmas!Left, Lemmas!FramesLeft, Lemmas!PickLeft

-----------------------------------------------------------------------------
(* Getting up *)

\* The getup is posted, and read.
Told == Fallen /\ posted = "GETUP_FRONT" /\ request = "GETUP_FRONT"

\* As long as the robot lies as it does, Perception has nothing else to say.
LEMMA PostsGetup ==
  ASSUME IInv, useGetups, Fallen, Fallen', [Next]_vars
  PROVE  /\ posted = "GETUP_FRONT" => posted' = "GETUP_FRONT"
         /\ PerceptionTick => posted' = "GETUP_FRONT"
<1>1. ASSUME PerceptionTick PROVE posted' = "GETUP_FRONT"
  <2>1. ~Calibrate
    BY DEF Calibrate, Fallen
  <2>2. ~Obey
    <3>1. age = RemoteFresh /\ RemoteFresh \in Nat
      BY FallAssumption DEF Fallen
    <3>2. ~(age < RemoteFresh)
      BY <3>1
    <3> QED
      BY <3>2, Zenon DEF Obey
  <2>3. PICK asked \in Asked, ukemi \in BOOLEAN : Behave(asked, ukemi)
    BY <1>1, <2>1, <2>2 DEF PerceptionTick
  <2> QED
    BY <2>3 DEF Behave, Wrapped, WhenFallen, Fallen
<1>2. ~PerceptionTick => posted' = posted
  BY DEF Next, vars, PerceptionFault, MotionReads, MotionSkips, MotionFault,
     MotionTick, Stamp, Second, Store
<1> QED
  BY <1>1, <1>2

\* What is posted is read; nobody else touches Motion's copy.
LEMMA ReadsPosted ==
  ASSUME IInv, [Next]_vars
  PROVE  /\ MotionReads => request' = posted /\ posted' = posted
         /\ ~MotionReads => request' = request
<1>1. MotionReads => request' = posted /\ posted' = posted
  BY DEF MotionReads, Generators!Request
<1>2. ASSUME NEW sample \in Samples, NEW standing \in BOOLEAN, MotionTick(sample, standing)
      PROVE  request' = request
  BY <1>2, CurrentStep DEF MotionTick
<1>3. MotionFault => request' = request
  BY CurrentStep DEF MotionFault
<1>4. PerceptionTick \/ PerceptionFault \/ MotionSkips \/ Stamp \/ Second \/ UNCHANGED vars
        \/ (\E command \in RemoteCommands : Store(command)) => request' = request
  BY DEF PerceptionTick, PerceptionFault, MotionSkips, Stamp, Second, Store, vars
<1> QED
  BY <1>1, <1>2, <1>3, <1>4 DEF Next

\* With the getup asked for, a tick of the generators begins it, or brings it nearer.
LEMMA TickAims ==
  ASSUME GenInv, Lemmas!Tick, request = "GETUP_FRONT"
  PROVE  \/ current' = "GETUP_FRONT"
         \/ current # "GETUP_FRONT" /\ Lemmas!Left' \in Int /\ Lemmas!Left' <= Lemmas!Left - 1
<1>0. /\ Lemmas!TypeOK /\ Lemmas!PickInv
      /\ "GETUP_FRONT" \notin Lemmas!WalkFamily /\ "GOALIE_UNCENTRE" \notin Lemmas!WalkFamily
  BY DEF GenInv, Lemmas!WalkFamily
<1>1. CASE Lemmas!Preempt
  BY <1>1 DEF Lemmas!Preempt, Lemmas!Begin, Lemmas!Settled
<1>2. CASE Lemmas!Switch
  <2>0. current' \in Lemmas!Settled(Lemmas!SuccessorOfCurrent)
    BY <1>2 DEF Lemmas!Switch
  <2>1. current' = "GETUP_FRONT" \/ (current' = "GOALIE_UNCENTRE" /\ current = "GOALIE_CENTRE")
    BY <2>0 DEF Lemmas!SuccessorOfCurrent, Lemmas!Settled
  <2>2. request' = request
    BY <1>2 DEF Lemmas!Switch
  <2>3. current' = "GOALIE_UNCENTRE" => ~Lemmas!Served'
    BY <1>0, <2>2 DEF Lemmas!Served, Lemmas!Same
  <2> QED
    BY <1>0, <1>2, <2>1, <2>3, LemmasApply, Lemmas!SwitchNearer
<1>3. CASE Lemmas!Continue
  <2>1. current \notin Lemmas!WalkFamily
    BY <1>3, Names DEF Lemmas!Continue, Lemmas!Preempts, Lemmas!priorities, Lemmas!Getups,
       Lemmas!Dives, Lemmas!WalkFamily, Lemmas!ActionTypes, Lemmas!Poses
  <2>2. CASE current = "GETUP_FRONT"
    BY <1>3, <2>2 DEF Lemmas!Continue, Lemmas!Settled
  <2>3. CASE current # "GETUP_FRONT"
    <3>1. ~Lemmas!Served
      BY <1>0, <2>1, <2>3 DEF Lemmas!Served, Lemmas!Same
    <3> QED
      BY <1>0, <1>3, <2>3, <3>1, LemmasApply, Lemmas!ContinueNearer
  <2> QED
    BY <2>2, <2>3
<1> QED
  BY <1>1, <1>2, <1>3 DEF Lemmas!Tick

\* The getup is under way, or at most Longest - k ticks off.
Aimed(k) == current = "GETUP_FRONT" \/ Lemmas!Left + k <= Lemmas!Longest

\* A tick that is not disturbed brings the robot nearer to it, and nothing takes it away.
LEMMA AimStep ==
  ASSUME NEW k \in Int, GenInv, Told, Told', [Next]_vars, Aimed(k)
  PROVE  /\ Aimed(k)'
         /\ ~Reading => ~Reading' \/ Aimed(k + 1)'
<1>0. Lemmas!Left \in Int /\ Lemmas!Longest \in Int
  BY LemmasApply, Lemmas!LeftRange, FallAssumption DEF GenInv, Lemmas!Longest
<1>1. CASE UNCHANGED <<generatorVars>> /\ (Reading' => Reading \/ disturbed')
  BY <1>1, LeftStays DEF Aimed, Told, Fallen
<1>2. CASE Generators!Tick
  <2>1. Lemmas!Tick
    BY <1>2, SameGenerators
  <2>2. current' = "GETUP_FRONT"
        \/ (current # "GETUP_FRONT" /\ Lemmas!Left' \in Int /\ Lemmas!Left' <= Lemmas!Left - 1)
    BY <2>1, TickAims DEF Told
  <2> QED
    BY <1>0, <2>2 DEF Aimed
<1> QED
  BY <1>1, <1>2, MotionMoves DEF Told, Fallen

\* A robot that is told so comes as near as that.
Aims(k) == <>[]Told => <>[]Aimed(k)

\* Each tick leads to the next: Motion goes on.
THEOREM AimsOn ==
  ASSUME NEW CONSTANT k \in 0..Lemmas!Longest
  PROVE  Spec /\ []MotionReady => (Aims(k) => Aims(k + 1))
<1>0. k \in Int /\ k + 1 \in Int
  BY FallAssumption DEF Lemmas!Longest
<1>1. GenInv /\ Told /\ Told' /\ [Next]_vars /\ Aimed(k) /\ ~Reading
        => ~Reading' \/ Aimed(k + 1)'
  BY <1>0, AimStep
<1>2. GenInv /\ Told /\ Told' /\ [Next]_vars /\ Aimed(k + 1) => Aimed(k + 1)'
  BY <1>0, AimStep
<1>3. Reading <=> motion = "read"
  BY DEF Reading
<1> QED
  BY <1>1, <1>2, <1>3, ReadsOn, GenRuns, PTL DEF Spec, MotionReady, Aims

\* Induction over the ticks: true of all behaviours, but not to be had from the provers for a
\* temporal formula.
AimInduction ==
  Aims(0) /\ (\A k \in 0..Lemmas!Longest : Aims(k) => Aims(k + 1)) => Aims(Lemmas!Longest + 1)

\* A robot that stays on its face is told to get up.
LEMMA GetsTold ==
  ASSUME useGetups
  PROVE  Spec /\ []PerceptionReady /\ []MotionReady
           => (Undisturbed /\ <>[](sensors.fallen = "front") => <>[]Told)
<1> DEFINE P == posted = "GETUP_FRONT"
           R == request = "GETUP_FRONT"
<1>1. IInv /\ Fallen /\ Fallen' /\ [Next]_vars => (P => P') /\ (<<PerceptionTick>>_vars => P')
  BY PostsGetup
<1>2. PerceptionReady /\ Fallen /\ ~P => ENABLED <<PerceptionTick>>_vars
  BY DEF PerceptionReady
<1>3. IInv /\ [Next]_vars /\ P => (<<MotionReads>>_vars => R') /\ (R => R')
  BY ReadsPosted
<1>4. Fallen <=> /\ ~disturbed /\ posted # "MOTION_CALIBRATE" /\ age = RemoteFresh
                 /\ sensors.fallen = "front"
  BY DEF Fallen
<1>5. Told <=> Fallen /\ P /\ R
  BY DEF Told
<1>6. Reading <=> motion = "read"
  BY DEF Reading
<1> HIDE DEF P, R
<1> QED
  BY <1>1, <1>2, <1>3, <1>4, <1>5, <1>6, ReadsOn, Invariance, PTL DEF Spec, MotionReady, Undisturbed

\* A robot that stays on its face is made to get up, for every length of what it was playing,
\* every strategy and every set of directions.
THEOREM GetsUp ==
  Spec /\ []PerceptionReady /\ []MotionReady /\ AimInduction => FallenGetsUp
<1>1. \A k \in 0..Lemmas!Longest : Spec /\ []MotionReady => (Aims(k) => Aims(k + 1))
  BY AimsOn
<1>2. GenInv => Aimed(0)
  BY LemmasApply, Lemmas!LeftRange, FallAssumption DEF GenInv, Aimed, Lemmas!Longest
<1>3. Spec => Aims(0)
  BY <1>2, GenRuns, PTL DEF Aims
<1>4. Spec /\ []MotionReady /\ AimInduction => Aims(Lemmas!Longest + 1)
  BY <1>1, <1>3 DEF AimInduction
<1>5. GenInv /\ Aimed(Lemmas!Longest + 1) => current = "GETUP_FRONT"
  BY LemmasApply, Lemmas!LeftRange, FallAssumption DEF GenInv, Aimed, Lemmas!Longest
<1>6. CASE useGetups
  <2>1. Spec /\ []PerceptionReady /\ []MotionReady
          => (Undisturbed /\ <>[](sensors.fallen = "front") => <>[]Told)
    BY <1>6, GetsTold
  <2> QED
    BY <1>4, <1>5, <2>1, GenRuns, PTL DEF Aims, FallenGetsUp
<1>7. CASE ~useGetups
  BY <1>7, PTL DEF FallenGetsUp
<1> QED
  BY <1>6, <1>7

-----------------------------------------------------------------------------
(* Back to the behaviour *)

\* A robot on its feet, which nobody asks for what only a fall asks for.
Free == sensors = Upright /\ posted \notin SafetyRequests /\ request \notin SafetyRequests

\* Of a robot on its feet, Perception has nothing to say that the behaviour does not.
LEMMA PostsFree ==
  ASSUME IInv, Strategy \cap SafetyRequests = {}, sensors = Upright, [Next]_vars
  PROVE  /\ posted \notin SafetyRequests => posted' \notin SafetyRequests
         /\ PerceptionTick => posted' \notin SafetyRequests
<1>1. ASSUME PerceptionTick PROVE posted' \notin SafetyRequests
  <2>0. /\ remote \notin SafetyRequests
        /\ \A asked \in Asked : asked \notin SafetyRequests
    BY FallAssumption DEF IInv, TypeOK, Asked, SafetyRequests
  <2>1. CASE Calibrate
    BY <2>1 DEF Calibrate, SafetyRequests
  <2>2. CASE Obey
    BY <2>0, <2>2 DEF Obey
  <2>3. ASSUME NEW asked \in Asked, NEW ukemi \in BOOLEAN, Behave(asked, ukemi)
        PROVE  posted' \notin SafetyRequests
    <3>1. sensors.fallen = "no" /\ FallingTo(sensors, ukemi) = "no" /\ ~sensors.light
      BY DEF Upright, FallingTo
    <3>2. posted' = asked
      BY <2>3, <3>1 DEF Behave, Wrapped
    <3> QED
      BY <2>0, <3>2
  <2> QED
    BY <1>1, <2>1, <2>2, <2>3 DEF PerceptionTick
<1>2. ~PerceptionTick => posted' = posted
  BY DEF Next, vars, PerceptionFault, MotionReads, MotionSkips, MotionFault,
     MotionTick, Stamp, Second, Store
<1> QED
  BY <1>1, <1>2

\* What a fall had begun is over, or at most Longest - k ticks from its end.
Freed(k) == current \notin SafetyRequests \/ Lemmas!Left + k <= Lemmas!Longest

\* A tick brings the end of it nearer.
LEMMA TickFrees ==
  ASSUME NEW k \in Int, GenInv, Lemmas!Tick, request \notin SafetyRequests, Freed(k)
  PROVE  Freed(k)' /\ Freed(k + 1)'
<1>0. /\ Lemmas!TypeOK /\ Lemmas!PickInv
      /\ \A a : a \notin SafetyRequests => Lemmas!Settled(a) \cap SafetyRequests = {}
      /\ SafetyRequests \cap Lemmas!WalkFamily = {} /\ "GOALIE_UNCENTRE" \notin SafetyRequests
  BY DEF GenInv, Lemmas!Settled, Lemmas!WalkFamily, SafetyRequests
<1>1. CASE Lemmas!Preempt
  BY <1>0, <1>1 DEF Lemmas!Preempt, Lemmas!Begin, Freed
<1>2. CASE Lemmas!Switch
  <2>1. current' \in Lemmas!Settled(Lemmas!SuccessorOfCurrent)
    BY <1>2 DEF Lemmas!Switch
  <2>2. Lemmas!SuccessorOfCurrent \notin SafetyRequests
    BY <1>0 DEF Lemmas!SuccessorOfCurrent
  <2> QED
    BY <1>0, <2>1, <2>2 DEF Freed
<1>3. CASE Lemmas!Continue
  <2>0. current' \in Lemmas!Settled(current)
    BY <1>3 DEF Lemmas!Continue
  <2>1. CASE current \notin SafetyRequests
    BY <1>0, <2>0, <2>1 DEF Freed
  <2>2. CASE current \in SafetyRequests
    <3>0. current # request /\ current \notin Lemmas!WalkFamily
      BY <1>0, <2>2
    <3>1. ~Lemmas!Served
      BY <3>0 DEF Lemmas!Served, Lemmas!Same
    <3>2. Lemmas!Left' \in Int /\ Lemmas!Left' <= Lemmas!Left - 1
      BY <1>0, <1>3, <3>1, LemmasApply, Lemmas!ContinueNearer
    <3>3. Lemmas!Left \in Int /\ Lemmas!Longest \in Int
      BY <1>0, LemmasApply, Lemmas!LeftRange, FallAssumption DEF Lemmas!Longest
    <3>4. Lemmas!Left + k <= Lemmas!Longest
      BY <2>2 DEF Freed
    <3>5. ASSUME NEW b \in Int, b <= Lemmas!Left - 1
          PROVE  b + k <= Lemmas!Longest /\ b + (k + 1) <= Lemmas!Longest
      BY <3>3, <3>4, <3>5
    <3>6. Lemmas!Left' + k <= Lemmas!Longest /\ Lemmas!Left' + (k + 1) <= Lemmas!Longest
      BY <3>2, <3>5
    <3> QED
      BY <3>6 DEF Freed
  <2> QED
    BY <2>1, <2>2
<1> QED
  BY <1>1, <1>2, <1>3 DEF Lemmas!Tick

\* Nothing takes that back; and once a cycle has come round with a sample, there was a tick.
LEMMA FreeStep ==
  ASSUME NEW k \in Int, GenInv, Free, [Next]_vars, Freed(k)
  PROVE  /\ Freed(k)'
         /\ ~Reading => ~Reading' \/ Freed(k + 1)' \/ disturbed'
         /\ disturbed => disturbed' \/ Freed(k + 1)'
<1>1. CASE /\ UNCHANGED <<generatorVars>> /\ (Reading' => Reading \/ disturbed')
           /\ (disturbed => disturbed')
  BY <1>1, LeftStays DEF Freed
<1>2. CASE Generators!Tick
  <2>1. Lemmas!Tick
    BY <1>2, SameGenerators
  <2> QED
    BY <2>1, TickFrees DEF Free
<1>3. CASE Generators!StandUp
  <2>1. current' = "INITIAL"
    BY <1>3 DEF Generators!StandUp, Generators!Begin, Generators!Settled
  <2> QED
    BY <2>1 DEF Freed, SafetyRequests
<1>4. CASE Generators!Rebuilt
  BY <1>4 DEF Generators!Rebuilt, Freed, SafetyRequests
<1> QED
  BY <1>1, <1>2, <1>3, <1>4, MotionMoves

\* A robot that nobody asks for it any more comes as near to the end of it as that, if samples
\* keep coming.
Frees(k) == <>[]Free /\ []<>~disturbed => <>[]Freed(k)

\* Each tick leads to the next.
THEOREM FreesOn ==
  ASSUME NEW CONSTANT k \in 0..Lemmas!Longest
  PROVE  Spec /\ []MotionReady => (Frees(k) => Frees(k + 1))
<1>0. k \in Int /\ k + 1 \in Int
  BY FallAssumption DEF Lemmas!Longest
<1>1. GenInv /\ Free /\ [Next]_vars /\ Freed(k)
        => /\ ~Reading => ~Reading' \/ Freed(k + 1)' \/ disturbed'
           /\ disturbed => disturbed' \/ Freed(k + 1)'
  BY <1>0, FreeStep
<1>2. GenInv /\ Free /\ [Next]_vars /\ Freed(k + 1) => Freed(k + 1)'
  BY <1>0, FreeStep
<1>3. Reading <=> motion = "read"
  BY DEF Reading
<1> QED
  BY <1>1, <1>2, <1>3, ReadsOn, GenRuns, PTL DEF Spec, MotionReady, Frees

\* Induction over the ticks, as above.
FreeInduction ==
  Frees(0) /\ (\A k \in 0..Lemmas!Longest : Frees(k) => Frees(k + 1)) => Frees(Lemmas!Longest + 1)

\* A robot that stays on its feet is asked for nothing else by the safety skill.
LEMMA GetsFree ==
  ASSUME Strategy \cap SafetyRequests = {}
  PROVE  Spec /\ []PerceptionReady /\ []MotionReady
           => (<>[](sensors = Upright) => <>[]Free)
<1> DEFINE U == sensors = Upright
           P == posted \in SafetyRequests
           R == request \in SafetyRequests
<1>1. IInv /\ U /\ [Next]_vars => (~P => ~P') /\ (<<PerceptionTick>>_vars => ~P')
  BY PostsFree
<1>2. PerceptionReady /\ U /\ P => ENABLED <<PerceptionTick>>_vars
  BY DEF PerceptionReady
<1>3. IInv /\ [Next]_vars /\ ~P => (<<MotionReads>>_vars => ~R') /\ (~R => ~R')
  BY ReadsPosted
<1>4. Free <=> U /\ ~P /\ ~R
  BY DEF Free
<1>5. Reading <=> motion = "read"
  BY DEF Reading
<1> HIDE DEF P, R
<1> QED
  BY <1>1, <1>2, <1>3, <1>4, <1>5, ReadsOn, Invariance, PTL DEF Spec, MotionReady

\* A robot that stays on its feet is given back to the behaviour, for every length of what the
\* safety skill had begun, and every strategy that does not itself ask for what a fall asks for.
THEOREM GivenBack ==
  ASSUME Strategy \cap SafetyRequests = {}
  PROVE  Spec /\ []PerceptionReady /\ []MotionReady /\ FreeInduction => BackOnItsFeet
<1>1. \A k \in 0..Lemmas!Longest : Spec /\ []MotionReady => (Frees(k) => Frees(k + 1))
  BY FreesOn
<1>2. GenInv => Freed(0)
  BY LemmasApply, Lemmas!LeftRange, FallAssumption DEF GenInv, Freed, Lemmas!Longest
<1>3. Spec => Frees(0)
  BY <1>2, GenRuns, PTL DEF Frees
<1>4. Spec /\ []MotionReady /\ FreeInduction => Frees(Lemmas!Longest + 1)
  BY <1>1, <1>3 DEF FreeInduction
<1>5. GenInv /\ Freed(Lemmas!Longest + 1) => current \notin SafetyRequests
  BY LemmasApply, Lemmas!LeftRange, FallAssumption DEF GenInv, Freed, Lemmas!Longest
<1>6. Spec /\ []PerceptionReady /\ []MotionReady => (<>[](sensors = Upright) => <>[]Free)
  BY GetsFree
<1> QED
  BY <1>4, <1>5, <1>6, GenRuns, PTL DEF Frees, BackOnItsFeet

================================================================================
