----------------------- MODULE DistributedGenerator_proofs -----------------------
(***************************************************************************)
(* For every length of the pose files: the generators left behind are at   *)
(* their start, an action of the top priority is played to its end, and a  *)
(* request that stays is served.                                           *)
(*                                                                         *)
(* The last one supposes that makeJoints is enabled while the request is   *)
(* not served, TickReady, and induction over the cycles that are left.     *)
(***************************************************************************)
EXTENDS DistributedGenerator, TLAPS

\* The priorities are 0 to 3.
LEMMA PriorityRange == \A a \in ActionTypes : priorities[a] \in 0..3
  BY DEF priorities

\* What makeJoints is asked for, and what follows it, is an action.
LEMMA NamesAreActions ==
  /\ Getups \subseteq Poses /\ Dives \subseteq Poses
  /\ Poses \subseteq ActionTypes /\ WalkFamily \subseteq ActionTypes
  /\ {"NONE", "DEAD", "REF_PICKUP"} \subseteq ActionTypes
  /\ "INITIAL" \in Poses /\ "GOALIE_UNCENTRE" \in Poses
  /\ "DEAD" \notin Poses \cup WalkFamily /\ "REF_PICKUP" \notin Poses \cup WalkFamily
  /\ "NONE" \notin Poses /\ Poses \cap WalkFamily = {}
  /\ "KICK" \in WalkFamily /\ "WALK" \in WalkFamily
  BY DEF Getups, Dives, Poses, WalkFamily, ActionTypes

Picks == [t : -1..PickTime, stopping : BOOLEAN, stopped : BOOLEAN,
          frame : NotRunning..(Frames - 1)]

\* A frame further, a pose is at a frame of its file or over.
LEMMA FrameType ==
  ASSUME NEW f \in NotRunning..(Frames - 1)
  PROVE  FrameAfter(f) \in NotRunning..(Frames - 1)
  BY GeneratorAssumption DEF FrameAfter, NotRunning

\* A cycle of the pick-up keeps its countdown and its flags in range.
LEMMA PickType ==
  ASSUME NEW p \in Picks
  PROVE  PickAfter(p) \in Picks
<1> DEFINE t == IF p.stopping /\ p.t >= 0 THEN p.t - 1 ELSE p.t
<1>1. p.t \in -1..PickTime /\ p.frame \in NotRunning..(Frames - 1)
  BY DEF Picks
<1>2. t \in -1..PickTime
  BY <1>1, GeneratorAssumption
<1>3. (p.stopping /\ t # 0) \in BOOLEAN /\ (p.stopped \/ (p.stopping /\ t = 0)) \in BOOLEAN
  OBVIOUS
<1>4. FrameAfter(p.frame) \in NotRunning..(Frames - 1)
  BY <1>1, FrameType
<1> QED
  BY <1>2, <1>3, <1>4, Zenon DEF PickAfter, Picks

\* The pick-up's two fresh starts are in range.
LEMMA PickStarts ==
  /\ PickStart \in Picks
  /\ [PickStart EXCEPT !.frame = NotRunning] \in Picks
  /\ pick \in Picks => PickStopped \in Picks
<1>1. PickTime \in -1..PickTime /\ 0 \in NotRunning..(Frames - 1)
      /\ NotRunning \in NotRunning..(Frames - 1)
  BY GeneratorAssumption DEF NotRunning
<1> QED
  BY <1>1 DEF PickStart, Picks, PickStopped

-----------------------------------------------------------------------------

\* Whatever plays, and whatever is put back first, the generators stay typed.
LEMMA PlayType ==
  ASSUME TypeOK, NEW a \in ActionTypes, NEW back \in SUBSET ActionTypes, Play(a, back)
  PROVE  /\ frame' \in [Poses -> NotRunning..(Frames - 1)]
         /\ walking' \in BOOLEAN
         /\ ticks' \in 0..(MIN_TICKS + 1)
<1>1. frame' \in [Poses -> NotRunning..(Frames - 1)]
  <2>1. ASSUME NEW p \in Poses
        PROVE  (IF p \in back THEN 0 ELSE frame[p]) \in NotRunning..(Frames - 1)
    BY GeneratorAssumption DEF TypeOK, NotRunning
  <2> QED
    BY <2>1, FrameType DEF Play
<1>2. walking' \in BOOLEAN
  BY Zenon DEF Play
<1>3. ticks' \in 0..(MIN_TICKS + 1)
  BY GeneratorAssumption DEF Play, TypeOK
<1> QED
  BY <1>1, <1>2, <1>3

\* The request that a dive is noted for is a dive.
LEMMA DiveType ==
  ASSUME TypeOK, NEW now, NEW asked, NEW next, NoteDive(now, asked, next)
  PROVE  requestedDive' \in Dives \cup {"NONE"}
  BY DEF NoteDive, TypeOK

\* The constructor's state is typed.
LEMMA InitType == Init => TypeOK
<1> SUFFICES ASSUME Init PROVE TypeOK
  OBVIOUS
<1>1. frame \in [Poses -> NotRunning..(Frames - 1)]
  BY GeneratorAssumption DEF Init, NotRunning
<1>2. pick \in Picks
  BY PickStarts DEF Init
<1>3. ticks \in 0..(MIN_TICKS + 1)
  BY GeneratorAssumption DEF Init
<1>4. walking \in BOOLEAN /\ isStopping \in BOOLEAN /\ wasReset \in BOOLEAN /\ contested \in BOOLEAN
  BY Zenon DEF Init
<1> QED
  BY <1>1, <1>2, <1>3, <1>4, NamesAreActions DEF Init, TypeOK, Picks

\* A rebuilt MotionAdapter is typed as the first one was.
LEMMA RebuiltType ==
  ASSUME TypeOK, Rebuilt
  PROVE  TypeOK'
<1>1. frame' \in [Poses -> NotRunning..(Frames - 1)]
  BY GeneratorAssumption DEF Rebuilt, NotRunning
<1>2. pick' \in Picks
  BY PickStarts DEF Rebuilt
<1>3. ticks' \in 0..(MIN_TICKS + 1)
  BY GeneratorAssumption DEF Rebuilt
<1>4. walking' \in BOOLEAN /\ isStopping' \in BOOLEAN /\ wasReset' \in BOOLEAN /\ contested' \in BOOLEAN
  BY Zenon DEF Rebuilt
<1>5. current' \in ActionTypes /\ request' \in ActionTypes /\ requestedDive' \in Dives \cup {"NONE"}
  BY NamesAreActions DEF Rebuilt, TypeOK
<1> QED
  BY <1>1, <1>2, <1>3, <1>4, <1>5 DEF TypeOK, Picks

\* reset() and the request keep the types.
LEMMA BeginType ==
  ASSUME TypeOK, NEW now, NEW asked \in ActionTypes, Begin(now, asked)
  PROVE  TypeOK'
<1>1. /\ frame' \in [Poses -> NotRunning..(Frames - 1)]
      /\ walking' \in BOOLEAN /\ ticks' \in 0..(MIN_TICKS + 1)
  BY PlayType DEF Begin, ResetByPreemption
<1>2. pick' \in Picks
  BY PickStarts, PickType DEF Begin, PlayPick
<1>3. requestedDive' \in Dives \cup {"NONE"}
  BY DiveType DEF Begin
<1>4. current' \in ActionTypes /\ request' \in ActionTypes
  BY NamesAreActions DEF Begin, Settled, TypeOK
<1>5. isStopping' \in BOOLEAN /\ wasReset' \in BOOLEAN /\ contested' \in BOOLEAN
  BY Zenon DEF Begin
<1> QED
  BY <1>1, <1>2, <1>3, <1>4, <1>5 DEF TypeOK, Picks

\* Every step keeps the types.
LEMMA StepType ==
  ASSUME TypeOK, [Next]_vars
  PROVE  TypeOK'
<1> USE DEF gens
<1>0. current \in ActionTypes /\ request \in ActionTypes /\ pick \in Picks
  BY DEF TypeOK, Picks
<1>1. CASE Preempt
  BY <1>0, <1>1, BeginType DEF Preempt
<1>2. CASE StandUp
  BY <1>2, BeginType, NamesAreActions DEF StandUp
<1>3. CASE Switch
  <2> DEFINE next == SuccessorOfCurrent
             back == IF LeftReset THEN {a \in ActionTypes : Same(a, current)} ELSE {}
  <2>1. next \in ActionTypes /\ back \in SUBSET ActionTypes
    BY <1>0, NamesAreActions DEF SuccessorOfCurrent
  <2>2. /\ frame' \in [Poses -> NotRunning..(Frames - 1)]
        /\ walking' \in BOOLEAN /\ ticks' \in 0..(MIN_TICKS + 1)
    BY <1>3, <2>1, PlayType DEF Switch
  <2>3. pick' \in Picks
    BY <1>0, <1>3, PickStarts, PickType DEF Switch, PlayPick
  <2>4. requestedDive' \in Dives \cup {"NONE"}
    BY <1>3, DiveType DEF Switch
  <2>5. current' \in ActionTypes /\ request' \in ActionTypes
    BY <1>0, <1>3, <2>1, NamesAreActions DEF Switch, Settled
  <2>6. isStopping' \in BOOLEAN /\ wasReset' \in BOOLEAN /\ contested' \in BOOLEAN
    <3>1. isStopping' \in BOOLEAN
      BY <1>3, Zenon DEF Switch, StoppingAfterSwitch
    <3>2. contested' \in BOOLEAN
      BY <1>3, Zenon DEF Switch
    <3>3. wasReset' \in BOOLEAN
      BY <1>3, Zenon DEF Switch, TypeOK
    <3> QED
      BY <3>1, <3>2, <3>3
  <2> QED
    BY <2>2, <2>3, <2>4, <2>5, <2>6 DEF TypeOK, Picks
<1>4. CASE Continue
  <2>1. /\ frame' \in [Poses -> NotRunning..(Frames - 1)]
        /\ walking' \in BOOLEAN /\ ticks' \in 0..(MIN_TICKS + 1)
    BY <1>0, <1>4, PlayType DEF Continue
  <2>2. pick' \in Picks
    BY <1>0, <1>4, PickStarts, PickType DEF Continue, PlayPick
  <2>3. requestedDive' \in Dives \cup {"NONE"}
    BY <1>4, DiveType DEF Continue
  <2>4. current' \in ActionTypes /\ request' \in ActionTypes
    BY <1>0, <1>4, NamesAreActions DEF Continue, Settled
  <2>5. isStopping' \in BOOLEAN /\ wasReset' \in BOOLEAN /\ contested' \in BOOLEAN
    <3>1. isStopping' \in BOOLEAN
      BY <1>4, Zenon DEF Continue
    <3>2. contested' \in BOOLEAN
      BY <1>4, Zenon DEF Continue
    <3>3. wasReset' \in BOOLEAN
      BY <1>4, Zenon DEF Continue, TypeOK
    <3> QED
      BY <3>1, <3>2, <3>3
  <2> QED
    BY <2>1, <2>2, <2>3, <2>4, <2>5 DEF TypeOK, Picks
<1>5. ASSUME NEW a \in Asked, Request(a)
      PROVE  TypeOK'
  BY <1>5, AskedAssumption DEF Request, TypeOK
<1>6. CASE UNCHANGED vars
  BY <1>6 DEF vars, TypeOK
<1>7. CASE Rebuilt
  BY <1>7, RebuiltType
<1> QED
  BY <1>1, <1>2, <1>3, <1>4, <1>5, <1>6, <1>7 DEF Next, Tick

\* DistributedGenerator and the generators it owns stay in their ranges.
THEOREM TypeCorrect == Spec => []TypeOK
<1>1. Init => TypeOK
  BY InitType
<1>2. TypeOK /\ [Next]_vars => TypeOK'
  BY StepType
<1> QED
  BY <1>1, <1>2, PTL DEF Spec

-----------------------------------------------------------------------------

\* reset() arms everything, and only the request plays.
LEMMA BeginArmed ==
  ASSUME TypeOK, NEW now, NEW asked \in ActionTypes, Begin(now, asked)
  PROVE  ArmedUnlessCurrent'
<1>1. current' = asked \/ (asked = "KICK" /\ current' = "WALK")
  BY DEF Begin, Settled
<1>2. ASSUME NEW p \in Poses \ {current'}
      PROVE  frame'[p] = 0
  BY <1>1, <1>2, NamesAreActions DEF Begin, Play, ResetByPreemption
<1>3. walking' => current' \in WalkFamily
  BY <1>1, NamesAreActions DEF Begin, Play, ResetByPreemption
<1>4. current' # "DEAD" => ticks' = 0
  BY <1>1, NamesAreActions DEF Begin, Play, ResetByPreemption
<1>5. current' # "REF_PICKUP" => pick' = PickStart
  BY <1>1 DEF Begin, PlayPick
<1> QED
  BY <1>2, <1>3, <1>4, <1>5 DEF ArmedUnlessCurrent

\* A generator that is left for another one is put back to its start.
LEMMA LeftIsReset ==
  ~Same(current, SuccessorOfCurrent) => LeftReset
  BY DEF Same, SuccessorOfCurrent, LeftReset, WalkFamily

\* Every step leaves the generators that are not current at their start.
LEMMA StepArmed ==
  ASSUME TypeOK, ArmedUnlessCurrent, [Next]_vars
  PROVE  ArmedUnlessCurrent'
<1> USE DEF gens
<1>1. CASE Preempt
  BY <1>1, BeginArmed DEF Preempt, TypeOK
<1>2. CASE StandUp
  BY <1>2, BeginArmed, NamesAreActions DEF StandUp
<1>3. CASE Switch
  <2> DEFINE next == SuccessorOfCurrent
             back == IF LeftReset THEN {a \in ActionTypes : Same(a, current)} ELSE {}
  <2> SUFFICES ASSUME wasReset
               PROVE  ArmedUnlessCurrent'
    BY <1>3 DEF Switch, ArmedUnlessCurrent
  <2>0. current \in ActionTypes
    BY DEF TypeOK
  <2>1. current' = next \/ (next = "KICK" /\ current' = "WALK")
    BY <1>3 DEF Switch, Settled
  <2>2. Same(current, next) \/ back = {a \in ActionTypes : Same(a, current)}
    BY LeftIsReset
  <2>3. Play(next, back)
    BY <1>3 DEF Switch
  <2>4. pick' = IF next = "REF_PICKUP"
                THEN PickAfter(IF "REF_PICKUP" \in back THEN PickStart ELSE pick)
                ELSE IF "REF_PICKUP" \in back THEN PickStart ELSE pick
    BY <1>3 DEF Switch, PlayPick
  <2> HIDE DEF next, back
  <2>5. ASSUME NEW p \in Poses \ {current'}
        PROVE  frame'[p] = 0
    <3>1. p # next
      BY <2>1, NamesAreActions
    <3>2. frame'[p] = IF p \in back THEN 0 ELSE frame[p]
      BY <2>3, <3>1 DEF Play
    <3>3. CASE p = current
      <4>1. ~Same(current, next)
        BY <3>1, <3>3, NamesAreActions DEF Same
      <4> QED
        BY <2>0, <2>2, <3>2, <3>3, <4>1 DEF Same
    <3>4. CASE p # current
      BY <3>2, <3>4 DEF ArmedUnlessCurrent
    <3> QED
      BY <3>3, <3>4
  <2>6. walking' => current' \in WalkFamily
    <3>1. CASE next \in WalkFamily
      BY <2>1, <3>1, NamesAreActions
    <3>2. CASE next \notin WalkFamily /\ current \in WalkFamily
      <4>1. ~Same(current, next)
        BY <3>2 DEF Same
      <4>2. current \in back
        BY <2>0, <2>2, <4>1 DEF Same
      <4> QED
        BY <2>3, <3>2, <4>2 DEF Play
    <3>3. CASE next \notin WalkFamily /\ current \notin WalkFamily
      BY <2>3, <3>3 DEF Play, ArmedUnlessCurrent
    <3> QED
      BY <3>1, <3>2, <3>3
  <2>7. current' # "DEAD" => ticks' = 0
    <3>1. next = "DEAD" => current' = "DEAD"
      BY <2>1
    <3>2. current = "DEAD" /\ next # "DEAD" => "DEAD" \in back
      BY <2>0, <2>2, NamesAreActions DEF Same
    <3> QED
      BY <2>3, <3>1, <3>2 DEF Play, ArmedUnlessCurrent
  <2>8. current' # "REF_PICKUP" => pick' = PickStart
    <3>1. next = "REF_PICKUP" => current' = "REF_PICKUP"
      BY <2>1
    <3>2. current = "REF_PICKUP" /\ next # "REF_PICKUP" => "REF_PICKUP" \in back
      BY <2>0, <2>2, NamesAreActions DEF Same
    <3> QED
      BY <2>4, <3>1, <3>2 DEF ArmedUnlessCurrent
  <2> QED
    BY <2>5, <2>6, <2>7, <2>8 DEF ArmedUnlessCurrent
<1>4. CASE Continue
  <2> SUFFICES ASSUME wasReset
               PROVE  ArmedUnlessCurrent'
    BY <1>4 DEF Continue, ArmedUnlessCurrent
  <2>1. current' = current \/ (current = "KICK" /\ current' = "WALK")
    BY <1>4 DEF Continue, Settled
  <2>2. ASSUME NEW p \in Poses \ {current'}
        PROVE  frame'[p] = 0
    BY <1>4, <2>1, NamesAreActions DEF Continue, Play, ArmedUnlessCurrent
  <2>3. walking' => current' \in WalkFamily
    BY <1>4, <2>1, NamesAreActions DEF Continue, Play, ArmedUnlessCurrent
  <2>4. current' # "DEAD" => ticks' = 0
    BY <1>4, <2>1 DEF Continue, Play, ArmedUnlessCurrent
  <2>5. current' # "REF_PICKUP" => pick' = PickStart
    BY <1>4, <2>1 DEF Continue, PlayPick, ArmedUnlessCurrent
  <2> QED
    BY <2>2, <2>3, <2>4, <2>5 DEF ArmedUnlessCurrent
<1>5. ASSUME NEW a \in Asked, Request(a)
      PROVE  ArmedUnlessCurrent'
  BY <1>5 DEF Request, ArmedUnlessCurrent
<1>6. CASE UNCHANGED vars
  BY <1>6 DEF vars, ArmedUnlessCurrent
<1>7. CASE Rebuilt
  BY <1>7 DEF Rebuilt, ArmedUnlessCurrent
<1> QED
  BY <1>1, <1>2, <1>3, <1>4, <1>5, <1>6, <1>7 DEF Next, Tick

\* However the generators take turns, none is ever entered anywhere but at its
\* start (after MotionAdapter's first reset): for pose files of any length.
THEOREM Armed == Spec => []ArmedUnlessCurrent
<1>1. Init => ArmedUnlessCurrent
  BY DEF Init, ArmedUnlessCurrent
<1>2. ArmedUnlessCurrent /\ TypeOK /\ [Next]_vars => ArmedUnlessCurrent'
  BY StepArmed
<1> QED
  BY <1>1, <1>2, TypeCorrect, PTL DEF Spec

\* A getup, a dive or an ukemi that has begun keeps the joints until it is over:
\* no request of the behaviour or of the safety skill reaches past it.
THEOREM NotInterrupted == Spec => TopPriorityPlaysOut
<1>1. ASSUME TypeOK, [Next]_vars
      PROVE  [priorities[current] = 3 /\ IsActive(current)
                => current' = current \/ StandUp \/ Rebuilt]_vars
  <2> SUFFICES ASSUME Next, priorities[current] = 3, IsActive(current)
               PROVE  current' = current \/ StandUp \/ Rebuilt
    BY <1>1
  <2>1. priorities["KICK"] = 0
    BY NamesAreActions DEF priorities, Getups, Dives
  <2>2. ~Preempts
    BY <1>1, PriorityRange DEF TypeOK, Preempts
  <2>3. CASE Continue
    BY <2>1, <2>3 DEF Continue, Settled
  <2>4. ASSUME NEW a \in Asked, Request(a)
        PROVE  current' = current
    BY <2>4 DEF Request
  <2> QED
    BY <2>2, <2>3, <2>4 DEF Next, Tick, Preempt, Switch
<1> QED
  BY <1>1, TypeCorrect, PTL DEF Spec, TopPriorityPlaysOut

\* The centred goalie goes nowhere but through the way back up.
THEOREM CentreUndone == Spec => CentreIsUndone
<1>1. ASSUME TypeOK, [Next]_vars
      PROVE  [current = "GOALIE_CENTRE" =>
                current' \in {"GOALIE_CENTRE", "GOALIE_UNCENTRE"} \/ StandUp \/ Rebuilt]_vars
  <2> SUFFICES ASSUME Next, current = "GOALIE_CENTRE"
               PROVE  current' \in {"GOALIE_CENTRE", "GOALIE_UNCENTRE"} \/ StandUp \/ Rebuilt
    BY <1>1
  <2>1. priorities["GOALIE_CENTRE"] = 3
    BY NamesAreActions DEF priorities, Dives, Poses, ActionTypes
  <2>2. ~Preempts
    BY <1>1, <2>1, PriorityRange DEF TypeOK, Preempts
  <2>3. CASE Continue
    BY <2>3 DEF Continue, Settled
  <2>4. CASE Switch
    BY <2>4 DEF Switch, SuccessorOfCurrent, Settled
  <2>5. ASSUME NEW a \in Asked, Request(a)
        PROVE  current' = current
    BY <2>5 DEF Request
  <2> QED
    BY <2>2, <2>3, <2>4, <2>5 DEF Next, Tick, Preempt
<1> QED
  BY <1>1, TypeCorrect, PTL DEF Spec, CentreIsUndone

\* isStopping is raised only by a request for something else.
StopInv == isStopping => contested

\* Every step keeps isStopping within its reason.
LEMMA StepStop ==
  ASSUME StopInv, [Next]_vars
  PROVE  StopInv'
<1> USE DEF StopInv
<1>1. CASE Preempt
  BY <1>1 DEF Preempt, Begin
<1>2. CASE StandUp
  BY <1>2 DEF StandUp, Begin
<1>3. CASE Switch
  BY <1>3 DEF Switch, StoppingAfterSwitch
<1>4. CASE Continue
  BY <1>4 DEF Continue, Same
<1>5. ASSUME NEW a \in Asked, Request(a)
      PROVE  StopInv'
  BY <1>5 DEF Request
<1>6. CASE UNCHANGED vars
  BY <1>6 DEF vars
<1>7. CASE Rebuilt
  BY <1>7 DEF Rebuilt
<1> QED
  BY <1>1, <1>2, <1>3, <1>4, <1>5, <1>6, <1>7 DEF Next, Tick

\* A pose that was played is played again only after another request.
THEOREM NoIdleReplay == Spec => ReplayOnlyIfContested
<1>1. Spec => []StopInv
  <2>1. Init => StopInv
    BY DEF Init, StopInv
  <2>2. StopInv /\ [Next]_vars => StopInv'
    BY StepStop
  <2> QED
    BY <2>1, <2>2, PTL DEF Spec
<1> DEFINE Replay == /\ current' = current
                     /\ current \in Poses \ Getups
                     /\ frame[current] = NotRunning
                     /\ frame'[current] # NotRunning
<1>2. ASSUME TypeOK, StopInv, [Next]_vars
      PROVE  [Replay => contested \/ StandUp]_vars
  <2> SUFFICES ASSUME Next, Replay
               PROVE  contested \/ StandUp
    BY <1>2
  <2>1. ~Preempt
    <3>1. SUFFICES ASSUME Preempt PROVE FALSE
      OBVIOUS
    <3>2. current' = request
      BY <3>1, NamesAreActions DEF Preempt, Begin, Settled
    <3>3. priorities[current] \in 0..3
      BY <1>2, PriorityRange DEF TypeOK
    <3> QED
      BY <3>1, <3>2, <3>3 DEF Preempt, Preempts
  <2>2. CASE Switch
    <3>1. SuccessorOfCurrent = current
      BY <2>2, NamesAreActions DEF Switch, Settled
    <3>2. request = current
      BY <3>1 DEF SuccessorOfCurrent
    <3>3. LeftReset
      BY <2>2, <3>1, FrameType DEF Switch, Play, FrameAfter, NotRunning
    <3> QED
      BY <1>2, <3>2, <3>3 DEF LeftReset, Same, StopInv
  <2>3. CASE Continue
    BY <2>3, NamesAreActions DEF Continue, IsActive
  <2>4. ASSUME NEW a \in Asked, Request(a)
        PROVE  FALSE
    BY <2>4 DEF Request, gens
  <2>5. CASE Rebuilt
    BY <2>5, NamesAreActions DEF Rebuilt
  <2> QED
    BY <2>1, <2>2, <2>3, <2>4, <2>5 DEF Next, Tick
<1> QED
  BY <1>1, <1>2, TypeCorrect, PTL DEF Spec, ReplayOnlyIfContested

-----------------------------------------------------------------------------

\* Whatever is more than a walk or a stand got the joints by a reset(), or from
\* something that had: a rebuilt adapter starts again from NONE.
ResetInv == priorities[current] > 0 => wasReset

\* The priorities that the arguments below compare.
LEMMA SomePriorities ==
  /\ priorities["NONE"] = 0 /\ priorities["KICK"] = 0 /\ priorities["WALK"] = 0
  /\ priorities["GOALIE_CENTRE"] = 3
  BY NamesAreActions DEF priorities, Getups, Dives

\* Without a preemption the next generator is no more urgent than the current one,
\* unless it is the way back from the centre.
LEMMA NextNoMoreUrgent ==
  ASSUME TypeOK, ~Preempts, priorities[SuccessorOfCurrent] > 0
  PROVE  priorities[current] > 0
<1>1. priorities[current] \in 0..3 /\ priorities[request] \in 0..3
  BY PriorityRange DEF TypeOK
<1> QED
  BY <1>1, SomePriorities DEF Preempts, SuccessorOfCurrent

\* Every step keeps the reset's reason.
LEMMA StepReset ==
  ASSUME TypeOK, ResetInv, [Next]_vars
  PROVE  ResetInv'
<1> USE DEF ResetInv
<1>1. CASE Preempt
  BY <1>1 DEF Preempt, Begin
<1>2. CASE StandUp
  BY <1>2 DEF StandUp, Begin
<1>3. CASE Switch
  <2> SUFFICES ASSUME priorities[current'] > 0
               PROVE  wasReset
    BY <1>3 DEF Switch, priorities
  <2>1. current' = SuccessorOfCurrent
    BY <1>3, SomePriorities DEF Switch, Settled
  <2> QED
    BY <1>3, <2>1, NextNoMoreUrgent DEF Switch
<1>4. CASE Continue
  <2> SUFFICES ASSUME priorities[current'] > 0
               PROVE  wasReset
    BY <1>4 DEF Continue, priorities
  <2> QED
    BY <1>4, SomePriorities DEF Continue, Settled
<1>5. ASSUME NEW a \in Asked, Request(a)
      PROVE  ResetInv'
  BY <1>5 DEF Request, priorities
<1>6. CASE UNCHANGED vars
  BY <1>6 DEF vars, priorities
<1>7. CASE Rebuilt
  BY <1>7, SomePriorities DEF Rebuilt, priorities
<1> QED
  BY <1>1, <1>2, <1>3, <1>4, <1>5, <1>6, <1>7 DEF Next, Tick

\* reset() puts the pose that is asked for at its first frame.
LEMMA BeginEnters ==
  ASSUME NEW now, NEW asked, Begin(now, asked), current' \in Poses
  PROVE  frame'[current'] = FrameAfter(0)
<1>1. current' = asked
  BY NamesAreActions DEF Begin, Settled
<1> QED
  BY <1>1, NamesAreActions DEF Begin, Play, ResetByPreemption

\* However long the pose files are, and whenever the Motion thread is rebuilt, a
\* getup, a dive or another pose of some urgency is entered at its first frame.
THEOREM Entered == Spec => EnteredAtItsStart
<1>1. Spec => []ResetInv
  <2>1. Init => ResetInv
    BY SomePriorities DEF Init, ResetInv
  <2>2. TypeOK /\ ResetInv /\ [Next]_vars => ResetInv'
    BY StepReset
  <2> QED
    BY <2>1, <2>2, TypeCorrect, PTL DEF Spec
<1> DEFINE Enters == current' # current /\ current' \in Poses /\ priorities[current'] > 0
<1>2. ASSUME TypeOK, ArmedUnlessCurrent, ResetInv, [Next]_vars
      PROVE  [Enters => frame'[current'] = FrameAfter(0)]_vars
  <2> SUFFICES ASSUME Next, Enters
               PROVE  frame'[current'] = FrameAfter(0)
    BY <1>2
  <2>1. CASE Preempt
    BY <2>1, BeginEnters DEF Preempt
  <2>2. CASE StandUp
    BY <2>2, BeginEnters DEF StandUp
  <2>3. CASE Switch
    <3>1. current' = SuccessorOfCurrent
      BY <2>3, NamesAreActions DEF Switch, Settled
    <3>2. wasReset
      BY <1>2, <2>3, <3>1, NextNoMoreUrgent DEF Switch, ResetInv
    <3>3. frame[current'] = 0
      BY <1>2, <3>2 DEF ArmedUnlessCurrent
    <3> QED
      BY <2>3, <3>1, <3>3 DEF Switch, Play
  <2>4. CASE Continue
    BY <2>4, NamesAreActions DEF Continue, Settled
  <2>5. ASSUME NEW a \in Asked, Request(a)
        PROVE  FALSE
    BY <2>5 DEF Request
  <2>6. CASE Rebuilt
    BY <2>6, NamesAreActions DEF Rebuilt
  <2> QED
    BY <2>1, <2>2, <2>3, <2>4, <2>5, <2>6 DEF Next, Tick
<1> QED
  BY <1>1, <1>2, Armed, TypeCorrect, PTL DEF Spec, EnteredAtItsStart

-----------------------------------------------------------------------------

\* What a request that stays waits for.
Served == Same(current, request) \/ current \in WalkFamily

\* makeJoints does something as long as it is waited for.
TickReady == ~Served => ENABLED <<Tick>>_vars

\* The cycles until a pose file is over, and until a pick-up is that was told to stop.
FramesLeft(f) == IF f = NotRunning THEN 0 ELSE Frames - f

PickLeft(p) == (IF p.stopped THEN 0 ELSE p.t + 1) + FramesLeft(p.frame)

\* The cycles that what is playing has left at most, once it is told to stop; the centre dive
\* has its way back to go.
Left ==
  IF current \in Poses
  THEN FramesLeft(frame[current]) + (IF current = "GOALIE_CENTRE" THEN Frames + 1 ELSE 0)
  ELSE IF current = "DEAD" THEN MIN_TICKS + 1 - ticks
  ELSE IF current = "REF_PICKUP" THEN PickLeft(pick) ELSE 0

\* More than that no generator has left.
Longest == 2 * Frames + PickTime + MIN_TICKS + 2

\* The pick-up's countdown does not run out without its effect.
PickInv == pick.t > 0 \/ pick.stopped

\* Only stop() starts the countdown, and its end stops the pick-up.
LEMMA StepPick ==
  ASSUME TypeOK, PickInv, [Next]_vars
  PROVE  PickInv'
<1>0. PickStart.t > 0 /\ [PickStart EXCEPT !.frame = NotRunning].t > 0
  BY GeneratorAssumption DEF PickStart
<1>1. ASSUME NEW q \in Picks, q.t > 0 \/ q.stopped
      PROVE  PickAfter(q).t > 0 \/ PickAfter(q).stopped
  <2> DEFINE t == IF q.stopping /\ q.t >= 0 THEN q.t - 1 ELSE q.t
  <2>1. q.t \in Int
    BY DEF Picks
  <2>2. PickAfter(q).t = t /\ PickAfter(q).stopped = (q.stopped \/ (q.stopping /\ t = 0))
    BY DEF PickAfter
  <2>3. CASE q.stopped
    BY <2>2, <2>3
  <2>4. CASE q.t > 0 /\ q.stopping
    <3>1. t = q.t - 1
      BY <2>1, <2>4
    <3>2. t > 0 \/ t = 0
      BY <2>1, <2>4, <3>1
    <3> QED
      BY <2>2, <2>4, <3>2
  <2>5. CASE q.t > 0 /\ ~q.stopping
    BY <2>2, <2>5
  <2> QED
    BY <1>1, <2>3, <2>4, <2>5
<1>2. pick \in Picks /\ PickStart \in Picks /\ PickStopped \in Picks
  BY PickStarts DEF TypeOK, Picks
<1>3. PickStopped.t > 0 \/ PickStopped.stopped
  BY <1>2 DEF PickInv, PickStopped, Picks
<1>4. ASSUME NEW a, NEW q \in Picks, q.t > 0 \/ q.stopped, PlayPick(a, q)
      PROVE  PickInv'
  BY <1>1, <1>4 DEF PlayPick, PickInv
<1>5. CASE Tick \/ StandUp
  BY <1>0, <1>2, <1>3, <1>4, <1>5
     DEF Tick, Preempt, Switch, Continue, StandUp, Begin, PickInv
<1>6. CASE ~(Tick \/ StandUp)
  BY <1>0, <1>6 DEF Next, Rebuilt, Request, PickInv, gens, vars
<1> QED
  BY <1>5, <1>6

\* So it is in every run.
LEMMA PickRuns == Spec => []PickInv
<1>1. Init => PickInv
  BY GeneratorAssumption DEF Init, PickInv, PickStart
<1>2. TypeOK /\ PickInv /\ [Next]_vars => PickInv'
  BY StepPick
<1> QED
  BY <1>1, <1>2, TypeCorrect, PTL DEF Spec

\* What has a number of frames left has one less after the next.
LEMMA FrameLeft ==
  ASSUME NEW f \in NotRunning..(Frames - 1)
  PROVE  /\ FramesLeft(f) \in 0..Frames
         /\ f = NotRunning => FramesLeft(f) = 0 /\ FrameAfter(f) = NotRunning
         /\ f # NotRunning => FramesLeft(FrameAfter(f)) = FramesLeft(f) - 1
  BY GeneratorAssumption DEF FramesLeft, FrameAfter, NotRunning

\* So has a pick-up that is told to stop in every cycle.
LEMMA PickNearer ==
  ASSUME TypeOK, PickInv
  PROVE  /\ PickLeft(pick) \in 0..(PickTime + Frames + 1)
         /\ PickLeft(PickAfter(PickStopped)) \in Int
         /\ ~pick.stopped \/ pick.frame # NotRunning
              => PickLeft(PickAfter(PickStopped)) <= PickLeft(pick) - 1
<1>1. /\ pick.t \in -1..PickTime /\ pick.frame \in NotRunning..(Frames - 1)
      /\ pick.t \in Int
      /\ pick.stopped \in BOOLEAN /\ (~pick.stopped => pick.t > 0)
  BY GeneratorAssumption DEF TypeOK, PickInv
<1>2. /\ PickStopped.t = pick.t /\ PickStopped.stopping
      /\ PickStopped.stopped = pick.stopped /\ PickStopped.frame = pick.frame
  BY DEF TypeOK, PickStopped
<1>3. /\ PickAfter(PickStopped).frame = FrameAfter(pick.frame)
      /\ pick.stopped => PickAfter(PickStopped).stopped
      /\ ~pick.stopped => /\ PickAfter(PickStopped).t = pick.t - 1
                          /\ PickAfter(PickStopped).stopped <=> pick.t = 1
  <2> DEFINE p == PickStopped
             t == IF p.stopping /\ p.t >= 0 THEN p.t - 1 ELSE p.t
  <2>1. /\ PickAfter(p).t = t /\ PickAfter(p).frame = FrameAfter(p.frame)
        /\ PickAfter(p).stopped = (p.stopped \/ (p.stopping /\ t = 0))
    BY DEF PickAfter
  <2>2. ~pick.stopped => t = pick.t - 1
    BY <1>1, <1>2
  <2> HIDE DEF t
  <2>3. ~pick.stopped => (t = 0 <=> pick.t = 1)
    BY <1>1, <2>2
  <2>4. pick.stopped => PickAfter(p).stopped
    BY <1>2, <2>1, Zenon
  <2>5. ~pick.stopped => (PickAfter(p).stopped <=> pick.t = 1)
    BY <1>2, <2>1, <2>3, Zenon
  <2> QED
    BY <1>2, <2>1, <2>2, <2>4, <2>5, Zenon
<1>4. /\ FramesLeft(pick.frame) \in 0..Frames
      /\ FramesLeft(FrameAfter(pick.frame)) \in 0..Frames
      /\ pick.frame # NotRunning =>
           FramesLeft(FrameAfter(pick.frame)) = FramesLeft(pick.frame) - 1
      /\ FramesLeft(FrameAfter(pick.frame)) <= FramesLeft(pick.frame)
  BY <1>1, FrameLeft, FrameType
<1>5. CASE pick.stopped
  BY <1>3, <1>4, <1>5, GeneratorAssumption DEF PickLeft
<1>6. CASE ~pick.stopped
  <2>1. PickLeft(pick) = pick.t + 1 + FramesLeft(pick.frame)
    BY <1>6 DEF PickLeft
  <2>2. CASE pick.t = 1
    BY <1>1, <1>3, <1>4, <1>6, <2>1, <2>2, GeneratorAssumption DEF PickLeft
  <2>3. CASE pick.t # 1
    <3>1. PickLeft(PickAfter(PickStopped)) = pick.t + FramesLeft(FrameAfter(pick.frame))
      BY <1>1, <1>3, <1>6, <2>3 DEF PickLeft
    <3> QED
      BY <1>1, <1>4, <1>6, <2>1, <3>1, GeneratorAssumption
  <2> QED
    BY <2>2, <2>3
<1> QED
  BY <1>1, <1>5, <1>6

\* The bound is one.
LEMMA LeftRange ==
  ASSUME TypeOK, PickInv
  PROVE  Left \in 0..Longest
<1>1. CASE current \in Poses
  <2>1. frame[current] \in NotRunning..(Frames - 1)
    BY <1>1 DEF TypeOK
  <2>2. FramesLeft(frame[current]) \in 0..Frames
    BY <2>1, FrameLeft
  <2> QED
    BY <1>1, <2>2, GeneratorAssumption DEF Left, Longest
<1>2. CASE current = "DEAD"
  BY <1>2, GeneratorAssumption DEF Left, Longest, Poses, TypeOK
<1>3. CASE current = "REF_PICKUP"
  BY <1>3, PickNearer, GeneratorAssumption DEF Left, Longest, Poses
<1>4. CASE current \notin Poses \cup {"DEAD", "REF_PICKUP"}
  BY <1>4, GeneratorAssumption DEF Left, Longest
<1> QED
  BY <1>1, <1>2, <1>3, <1>4

\* A cycle does not give up what was asked for.
LEMMA ServedStays ==
  ASSUME Served, Tick
  PROVE  Served'
<1>1. request' = request
  BY DEF Tick, Preempt, Begin, Switch, Continue
<1>2. CASE current' \in Settled(request)
  BY <1>1, <1>2 DEF Settled, Served, Same, WalkFamily
<1>3. CASE current' \in Settled(current)
  BY <1>1, <1>3 DEF Settled, Served, Same, WalkFamily
<1>4. SuccessorOfCurrent = request
  BY DEF Served, Same, SuccessorOfCurrent, WalkFamily
<1> QED
  BY <1>2, <1>3, <1>4 DEF Tick, Preempt, Begin, Switch, Continue

\* The cycle in which what was playing is over serves the request, or the dive's way back.
LEMMA SwitchNearer ==
  ASSUME TypeOK, PickInv, Switch
  PROVE  Served' \/ (Left' \in Int /\ Left' <= Left - 1)
<1>1. request' = request /\ current' \in Settled(SuccessorOfCurrent) /\ ~IsActive(current)
  BY DEF Switch
<1>2. CASE SuccessorOfCurrent = request
  BY <1>1, <1>2 DEF Settled, Served, Same, WalkFamily
<1>3. CASE SuccessorOfCurrent # request
  <2>1. /\ current = "GOALIE_CENTRE" /\ SuccessorOfCurrent = "GOALIE_UNCENTRE"
        /\ current' = "GOALIE_UNCENTRE"
    BY <1>1, <1>3 DEF SuccessorOfCurrent, Settled
  <2>2. current \in Poses /\ current' \in Poses
    BY <2>1 DEF Poses
  <2>3. frame[current] = NotRunning
    BY <1>1, <2>1 DEF IsActive, WalkFamily
  <2>4. frame'[current'] \in NotRunning..(Frames - 1)
    BY <2>2, StepType DEF TypeOK, Next, Tick
  <2>5. FramesLeft(frame'[current']) \in 0..Frames
    BY <2>4, FrameLeft
  <2>6. Left = Frames + 1
    BY <2>1, <2>2, <2>3, GeneratorAssumption DEF Left, FramesLeft
  <2>7. Left' = FramesLeft(frame'[current'])
    BY <2>1, <2>2, <2>5 DEF Left, FramesLeft
  <2> QED
    BY <2>5, <2>6, <2>7, GeneratorAssumption
<1> QED
  BY <1>2, <1>3

\* A cycle that tells what is playing to stop leaves it one less.
LEMMA ContinueNearer ==
  ASSUME TypeOK, PickInv, ~Served, Continue
  PROVE  Left' \in Int /\ Left' <= Left - 1
<1>1. current' = current /\ IsActive(current) /\ current \in Poses \cup {"DEAD", "REF_PICKUP"}
  BY DEF Continue, Settled, Served, WalkFamily, IsActive, TypeOK, ActionTypes
<1>2. CASE current \in Poses
  <2>1. frame[current] \in NotRunning..(Frames - 1) /\ frame[current] # NotRunning
    BY <1>1, <1>2 DEF TypeOK, IsActive, Poses, WalkFamily
  <2>2. frame'[current] = FrameAfter(frame[current])
    BY <1>2 DEF Continue, Play
  <2>3. FramesLeft(FrameAfter(frame[current])) = FramesLeft(frame[current]) - 1
    BY <2>1, FrameLeft
  <2>4. FramesLeft(frame[current]) \in 0..Frames
    BY <2>1, FrameLeft
  <2>5. Left' = FramesLeft(FrameAfter(frame[current]))
                  + (IF current = "GOALIE_CENTRE" THEN Frames + 1 ELSE 0)
    BY <1>1, <1>2, <2>2 DEF Left, FramesLeft
  <2>6. Left = FramesLeft(frame[current])
                 + (IF current = "GOALIE_CENTRE" THEN Frames + 1 ELSE 0)
    BY <1>2 DEF Left
  <2> QED
    BY <2>3, <2>4, <2>5, <2>6, GeneratorAssumption
<1>3. CASE current = "DEAD"
  <2>1. ticks \in Int /\ ticks <= MIN_TICKS
    BY <1>1, <1>3, GeneratorAssumption DEF TypeOK, IsActive, WalkFamily
  <2>2. ticks' = ticks + 1
    BY <1>3, <2>1 DEF Continue, Play
  <2>3. Left = MIN_TICKS + 1 - ticks /\ Left' = MIN_TICKS + 1 - ticks'
    BY <1>1, <1>3 DEF Left, Poses
  <2> QED
    BY <2>1, <2>2, <2>3, GeneratorAssumption
<1>4. CASE current = "REF_PICKUP"
  <2>1. pick' = PickAfter(PickStopped)
    BY <1>4 DEF Continue, PlayPick, Served
  <2>2. ~pick.stopped \/ pick.frame # NotRunning
    BY <1>1, <1>4 DEF IsActive, WalkFamily
  <2>3. Left = PickLeft(pick) /\ Left' = PickLeft(pick')
    BY <1>1, <1>4 DEF Left, Poses, PickLeft, FramesLeft
  <2> QED
    BY <2>1, <2>2, <2>3, PickNearer
<1> QED
  BY <1>1, <1>2, <1>3, <1>4

\* So the request is served, or every cycle brings it nearer.
LEMMA TickNearer ==
  ASSUME TypeOK, PickInv, ~Served, Tick
  PROVE  Served' \/ (Left' \in Int /\ Left' <= Left - 1)
<1>1. CASE Preempt
  BY <1>1 DEF Preempt, Begin, Settled, Served, Same, WalkFamily
<1> QED
  BY <1>1, SwitchNearer, ContinueNearer DEF Tick

\* At most Longest - k cycles are left.
Nearer(k) == Served \/ Left + k <= Longest

\* A request that stays comes as near as that.
Comes(k) == <>[][Steady]_vars => <>[]Nearer(k)

\* A cycle takes one off what is left.
LEMMA NearerStep ==
  ASSUME NEW k \in 0..Longest, TypeOK, PickInv, Tick, Nearer(k)
  PROVE  Nearer(k + 1)'
<1>1. Longest \in Nat
  BY GeneratorAssumption DEF Longest
<1>2. Left \in Int
  BY LeftRange
<1> QED
  BY <1>1, <1>2, ServedStays, TickNearer DEF Nearer

\* Nothing takes that back while the request stays.
LEMMA NearerStays ==
  ASSUME NEW k \in 0..(Longest + 1), TypeOK, PickInv, Nearer(k), [Next]_vars, [Steady]_vars
  PROVE  Nearer(k)'
<1>1. Longest \in Nat
  BY GeneratorAssumption DEF Longest
<1>2. CASE UNCHANGED vars
  BY <1>2 DEF vars, gens, Nearer, Served, Same, Left, FramesLeft, PickLeft
<1>3. CASE Tick
  <2>1. Left \in Int
    BY LeftRange
  <2> QED
    BY <1>1, <1>3, <2>1, ServedStays, TickNearer DEF Nearer
<1>4. CASE ~Tick /\ ~UNCHANGED vars
  <2>1. Steady /\ \E a \in Asked : Request(a)
    BY <1>4 DEF Next, Steady
  <2>2. UNCHANGED vars
    BY <2>1 DEF Steady, Request, vars, gens
  <2> QED
    BY <1>4, <2>2
<1> QED
  BY <1>2, <1>3, <1>4

\* Each cycle leads to the next.
THEOREM ComesOn ==
  ASSUME NEW CONSTANT k \in 0..Longest
  PROVE  Spec /\ []TickReady => (Comes(k) => Comes(k + 1))
<1>0. k + 1 \in 0..(Longest + 1)
  BY GeneratorAssumption DEF Longest
<1>1. TypeOK /\ PickInv /\ Nearer(k + 1) /\ [Next]_vars /\ [Steady]_vars => Nearer(k + 1)'
  BY <1>0, NearerStays
<1>2. TypeOK /\ PickInv /\ Nearer(k) /\ <<Tick>>_vars => Nearer(k + 1)'
  BY NearerStep
<1>3. Served => Nearer(k + 1)
  BY DEF Nearer
<1> QED
  BY <1>1, <1>2, <1>3, PickRuns, TypeCorrect, PTL DEF Spec, TickReady, Comes

\* Induction over the cycles: true of all behaviours, but not to be had from the provers for a
\* temporal formula.
ComeInduction ==
  Comes(0) /\ (\A k \in 0..Longest : Comes(k) => Comes(k + 1)) => Comes(Longest + 1)

\* A request that stays is served, for every length of the poses, of the pick-up's way back and
\* of the dead time, and for every set of requests.
THEOREM ServedInTheEnd == Spec /\ []TickReady /\ ComeInduction => RequestServed
<1>1. \A k \in 0..Longest : Spec /\ []TickReady => (Comes(k) => Comes(k + 1))
  BY ComesOn
<1>3. TypeOK /\ PickInv => Nearer(0)
  BY LeftRange, GeneratorAssumption DEF Nearer, Longest
<1>4. Spec => Comes(0)
  BY <1>3, PickRuns, TypeCorrect, PTL DEF Comes
<1>5. Spec /\ []TickReady /\ ComeInduction => Comes(Longest + 1)
  BY <1>1, <1>4 DEF ComeInduction
<1>6. TypeOK /\ PickInv /\ Nearer(Longest + 1) => Served
  BY LeftRange, GeneratorAssumption DEF Nearer, Longest
<1>7. Served <=> Same(current, request) \/ current \in WalkFamily
  BY DEF Served
<1> QED
  BY <1>5, <1>6, <1>7, PickRuns, TypeCorrect, PTL DEF Comes, RequestServed

==================================================================================
