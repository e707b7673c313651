------------------------- MODULE AgentChannel_proofs -------------------------
(***************************************************************************)
(* The AgentData channel for every value of MAX_SKIPS: its safety, that it *)
(* counts as Contact does, and what it promises of a player that waits or  *)
(* is gone.                                                                *)
(*                                                                         *)
(* The inductive invariant IInv is TypeOK with four parts that each speak  *)
(* about a different variable the two processes race for: the slot         *)
(* indices, the semaphore, the stiffen slots and the skip counter.         *)
(*                                                                         *)
(* That a process which is not blocked has a step that changes something   *)
(* is the hypothesis of the liveness theorems, AgentReady and PlayerReady. *)
(***************************************************************************)
EXTENDS AgentChannel, TLAPS

\* The slots in somebody's register are slot 0 too.
IdxInv == OnlySlotZero /\ agentSlot = 0 /\ playerSlot = 0

\* Between sem_getvalue and sem_post nobody but the Agent can raise the semaphore.
SemInv == SemaphoreBinary /\ (agentPc = "semPost" => semaphore = 0)

\* A STIFFEN in a slot has not been obeyed, or is about to be cleared.
StiffenInv ==
  \A s \in Slots :
    stiffen[s] = "STIFFEN" =>
      \/ s \in owed
      \/ agentPc = "clearStiffen" /\ s = actuators_read

\* While a V() waits for its P(), missed cycles are cycles since the last P().
SkipInv == semaphore = 1 => skipped_frames <= sinceWait

IInv == TypeOK /\ IdxInv /\ SemInv /\ StiffenInv /\ SkipInv

-----------------------------------------------------------------------------

\* The writers' loop stops at an index in use, whatever the indices are: the
\* code never picks the third, free slot.
THEOREM WriteIndexInUse ==
  ASSUME NEW latest \in Slots, NEW read \in Slots
  PROVE  WriteIndex(latest, read) \in {latest, read}
<1>1. \E i \in {latest, read} : \A j \in {latest, read} : i <= j
  BY DEF Slots
<1> QED
  BY <1>1 DEF WriteIndex

\* Both writers find slot 0 as long as the indices are 0.
LEMMA WriteIndexZero == WriteIndex(0, 0) = 0
  BY WriteIndexInUse DEF Slots

\* A saturating counter keeps to its range, never jumps and keeps the order.
LEMMA SaturateType ==
  ASSUME NEW n \in 0..(MAX_SKIPS + 1)
  PROVE  /\ Saturate(n + 1) \in 0..(MAX_SKIPS + 1)
         /\ Saturate(n + 1) <= n + 1
         /\ \A m \in 0..(MAX_SKIPS + 1) : n <= m => Saturate(n + 1) <= Saturate(m + 1)
  BY MaxSkipsAssumption DEF Saturate

\* Whatever an earlier session left in shared memory, the invariant holds at first.
LEMMA InitIInv == Init => IInv
<1> SUFFICES ASSUME Init PROVE IInv
  OBVIOUS
<1> USE DEF Init, Slots
<1>1. TypeOK
  <2>1. stiffen \in [Slots -> {"NONE", "STIFFEN"}]
    OBVIOUS
  <2>2. owed \in SUBSET Slots
    BY DEF Stiffened
  <2>3. skipped_frames \in 0..(MAX_SKIPS + 1) /\ sinceWait \in 0..(MAX_SKIPS + 1)
    BY MaxSkipsAssumption
  <2>4. /\ standing \in BOOLEAN /\ mapped \in BOOLEAN /\ shuttingDown \in BOOLEAN
        /\ limp \in BOOLEAN /\ alive \in BOOLEAN /\ kill_standing \in BOOLEAN
    BY Zenon
  <2> QED
    BY <2>1, <2>2, <2>3, <2>4 DEF TypeOK, AgentPcs, AgentTouches, PlayerPcs
<1>2. IdxInv
  BY DEF IdxInv, OnlySlotZero
<1>3. SemInv
  BY DEF SemInv, SemaphoreBinary
<1>4. StiffenInv
  BY DEF StiffenInv, Stiffened
<1>5. SkipInv
  BY MaxSkipsAssumption DEF SkipInv
<1> QED
  BY <1>1, <1>2, <1>3, <1>4, <1>5 DEF IInv

\* Every step keeps every part of IInv; an action that changes none of the
\* variables a part speaks about keeps it as UNCHANGED does.
LEMMA NextIInv == IInv /\ [Next]_vars => IInv'
<1> SUFFICES ASSUME IInv, [Next]_vars PROVE IInv'
  OBVIOUS
<1> USE MaxSkipsAssumption
    DEF IInv, TypeOK, IdxInv, OnlySlotZero, SemInv, SemaphoreBinary, StiffenInv, SkipInv,
        AgentPcs, PlayerPcs, AgentTouches, AgentGoes, PlayerGoes,
        sensorIdx, actuatorIdx, agentVars, playerVars, history
<1>1. CASE PreEnter
  BY <1>1 DEF PreEnter
<1>2. CASE PreStore
  BY <1>2 DEF PreStore
<1>3. CASE PrePlay
  BY <1>3 DEF PrePlay
<1>4. CASE PostEnter
  BY <1>4, WriteIndexZero DEF PostEnter
<1>5. CASE WriteSensors
  BY <1>5 DEF WriteSensors
<1>6. CASE DoButtons
  <2>1. limp' \in BOOLEAN /\ standing' \in BOOLEAN
    BY <1>6, Zenon DEF DoButtons
  <2> QED
    BY <1>6, <2>1 DEF DoButtons
<1>7. CASE DoStiffen
  <2>1. limp' \in BOOLEAN /\ standing' \in BOOLEAN
    BY <1>7, Zenon DEF DoStiffen
  <2> QED
    BY <1>7, <2>1 DEF DoStiffen
<1>8. CASE ClearStiffen
  BY <1>8 DEF ClearStiffen, ClearedStiffen
<1>9. CASE WriteButtons
  BY <1>9 DEF WriteButtons
<1>10. CASE PublishSensors
  BY <1>10 DEF PublishSensors
<1>11. CASE SemCheck
  <2>1. CASE SemNeedsPost /\ agentPc' = "semPost" /\ UNCHANGED <<skipped_frames, sinceWait>>
    BY <1>11, <2>1 DEF SemCheck, SemNeedsPost
  <2>2. CASE /\ ~SemNeedsPost
             /\ agentPc' = "pre"
             /\ skipped_frames' = SkippedAfterMiss
             /\ sinceWait' = Saturate(sinceWait + 1)
    <3>1. semaphore = 1
      BY <2>2 DEF SemNeedsPost
    <3>2. /\ skipped_frames' \in 0..(MAX_SKIPS + 1)
          /\ sinceWait' \in 0..(MAX_SKIPS + 1)
          /\ skipped_frames' <= sinceWait'
      BY <2>2, <3>1, SaturateType DEF SkippedAfterMiss
    <3> QED
      BY <1>11, <2>2, <3>2 DEF SemCheck
  <2> QED
    BY <1>11, <2>1, <2>2 DEF SemCheck
<1>12. CASE SemPost
  <2>1. sinceWait' \in 0..(MAX_SKIPS + 1)
    BY <1>12, SaturateType DEF SemPost
  <2> QED
    BY <1>12, <2>1 DEF SemPost, SkippedAfterPost
<1>13. CASE ShutDown
  BY <1>13 DEF ShutDown
<1>14. CASE Unmap
  <2>1. mapped' \in BOOLEAN
    BY <1>14, Zenon DEF Unmap
  <2> QED
    BY <1>14, <2>1 DEF Unmap
<1>15. CASE AgentStart
  <2>1. mapped' \in BOOLEAN /\ shuttingDown' \in BOOLEAN /\ limp' \in BOOLEAN
        /\ standing' \in BOOLEAN
    BY <1>15, Zenon DEF AgentStart
  <2> QED
    BY <1>15, <2>1 DEF AgentStart, Stiffened, Slots
<1>16. CASE Wait
  BY <1>16 DEF Wait
<1>17. CASE LoadLatest
  BY <1>17 DEF LoadLatest
<1>18. CASE StoreRead
  BY <1>18 DEF StoreRead
<1>19. CASE CopySensors
  BY <1>19 DEF CopySensors
<1>20. CASE CopyButtons
  BY <1>20 DEF CopyButtons
<1>21. CASE GetStanding
  BY <1>21 DEF GetStanding
<1>22. CASE PickSlot
  BY <1>22, WriteIndexZero DEF PickSlot
<1>23. CASE WriteJoints
  BY <1>23 DEF WriteJoints
<1>24. CASE WriteStiffen
  BY <1>24 DEF WriteStiffen
<1>25. CASE PublishActuators
  BY <1>25 DEF PublishActuators
<1>26. CASE StoreKillStanding
  BY <1>26 DEF StoreKillStanding
<1>27. CASE ToggleKillStanding
  <2>1. kill_standing' \in BOOLEAN /\ standing' \in BOOLEAN
    BY <1>27, Zenon DEF ToggleKillStanding
  <2>2. /\ UNCHANGED <<sensorIdx, actuatorIdx, stiffen, semaphore, agentVars, alive,
                       playerSlot, history>>
        /\ playerPc' = "wait"
    BY <1>27 DEF ToggleKillStanding
  <2> QED
    BY <2>1, <2>2
<1>28. CASE MotionRestart
  BY <1>28 DEF MotionRestart
<1>29. CASE PlayerDies
  <2>1. alive' \in BOOLEAN
    BY <1>29, Zenon DEF PlayerDies
  <2> QED
    BY <1>29, <2>1 DEF PlayerDies
<1>30. CASE PlayerStarts
  <2>1. alive' \in BOOLEAN /\ kill_standing' \in BOOLEAN
    BY <1>30, Zenon DEF PlayerStarts
  <2> QED
    BY <1>30, <2>1 DEF PlayerStarts
<1>31. CASE UNCHANGED vars
  BY <1>31 DEF vars
<1>32. CASE CallbackReturns
  BY <1>31, <1>32 DEF CallbackReturns
<1> QED
  BY <1>1, <1>2, <1>3, <1>4, <1>5, <1>6, <1>7, <1>8, <1>9, <1>10, <1>11, <1>12, <1>13,
     <1>14, <1>15, <1>16, <1>17, <1>18, <1>19, <1>20, <1>21, <1>22, <1>23, <1>24, <1>25,
     <1>26, <1>27, <1>28, <1>29, <1>30, <1>31, <1>32
     DEF Next, AgentStep, PlayerStep

\* IInv holds throughout every behaviour.
THEOREM Invariance == Spec => []IInv
  BY InitIInv, NextIInv, PTL DEF Spec

-----------------------------------------------------------------------------

\* Every variable keeps its type.
THEOREM TypeCorrect == Spec => []TypeOK
  BY Invariance, PTL DEF IInv

\* The semaphore never holds a second wake-up, although it is read and posted in
\* two steps and P() may come between.
THEOREM SemaphoreIsBinary == Spec => []SemaphoreBinary
  BY Invariance, PTL DEF IInv, SemInv

\* The three slots of each array are used as one.
THEOREM SlotZeroOnly == Spec => []OnlySlotZero
  BY Invariance, PTL DEF IInv, IdxInv

\* No STIFFEN command is obeyed twice within a session of naoqi.
THEOREM StiffenObeyedOnce == Spec => []StiffenAtMostOnce
<1>1. IInv => StiffenAtMostOnce
  BY DEF IInv, TypeOK, StiffenInv, StiffenAtMostOnce
<1> QED
  BY <1>1, Invariance, PTL

\* The Agent never over-counts the cycles the player missed.
THEOREM NoFalseLoss == Spec => NoFalseLostContact
<1>1. IInv /\ [Next]_vars
        => [skipped_frames' > skipped_frames => skipped_frames' <= sinceWait']_vars
  <2> SUFFICES ASSUME IInv, [Next]_vars, skipped_frames' > skipped_frames
               PROVE  skipped_frames' <= sinceWait'
    OBVIOUS
  <2>1. skipped_frames \in 0..(MAX_SKIPS + 1)
    BY DEF IInv, TypeOK
  <2>2. CASE SemCheck
    <3>1. skipped_frames' # skipped_frames
      BY <2>1, MaxSkipsAssumption
    <3>2. ~SemNeedsPost
      BY <2>2, <3>1 DEF SemCheck
    <3>3. semaphore = 1
      BY <3>2 DEF SemNeedsPost, IInv, TypeOK, SemInv, SemaphoreBinary
    <3>4. semaphore' = 1
      BY <2>2, <3>3 DEF SemCheck
    <3>5. IInv'
      BY NextIInv
    <3> QED
      BY <3>4, <3>5 DEF IInv, SkipInv
  <2>3. CASE ~SemCheck
    <3>1. skipped_frames' \in {skipped_frames, 0}
      BY <2>3 DEF Next, AgentStep, PlayerStep, PreEnter, PreStore, PrePlay, PostEnter,
         WriteSensors, DoButtons, DoStiffen, ClearStiffen, WriteButtons, PublishSensors,
         SemPost, SkippedAfterPost, CallbackReturns, ShutDown, Unmap, AgentStart, Wait,
         LoadLatest, StoreRead, CopySensors, CopyButtons, GetStanding, PickSlot,
         WriteJoints, WriteStiffen, PublishActuators, StoreKillStanding,
         ToggleKillStanding, MotionRestart, PlayerDies, PlayerStarts, agentVars, vars
    <3> QED
      BY <2>1, <3>1, MaxSkipsAssumption
  <2> QED
    BY <2>2, <2>3
<1> QED
  BY <1>1, Invariance, PTL DEF Spec, NoFalseLostContact

\* Contact's counting and that of the channel are the same.
LEMMA CountsAlike ==
  ASSUME NEW n \in 0..(MAX_SKIPS + 1)
  PROVE  Contact!OneMore(n) = Saturate(n + 1)
  BY MaxSkipsAssumption DEF Contact!OneMore, Saturate

\* The decision is acted upon in a later step than it is made in, but only the V() shows,
\* and until then nobody can take the semaphore: each step is one of Contact or a stutter.
LEMMA ContactStep == IInv /\ [Next]_vars => [Contact!Next]_(Contact!vars)
<1> SUFFICES ASSUME IInv, [Next]_vars
             PROVE  Contact!Next \/ UNCHANGED <<semaphore, skipped_frames, sinceWait, mapped>>
  BY DEF Contact!vars
<1>0. /\ semaphore \in {0, 1}
      /\ Contact!OneMore(skipped_frames) = Saturate(skipped_frames + 1)
      /\ Contact!OneMore(sinceWait) = Saturate(sinceWait + 1)
  BY CountsAlike DEF IInv, TypeOK, SemInv, SemaphoreBinary
<1>1. CASE SemCheck
  <2>1. CASE SemNeedsPost
    BY <1>1, <2>1 DEF SemCheck
  <2>2. CASE ~SemNeedsPost
    <3>1. Contact!Miss
      BY <1>0, <1>1, <2>2 DEF SemCheck, SemNeedsPost, SkippedAfterMiss, Contact!Miss
    <3> QED
      BY <3>1 DEF Contact!Next
  <2> QED
    BY <2>1, <2>2
<1>2. CASE SemPost
  <2>1. Contact!Post
    BY <1>0, <1>2 DEF IInv, SemInv, SemPost, AgentGoes, SkippedAfterPost, Contact!Post
  <2> QED
    BY <2>1 DEF Contact!Next
<1>3. CASE Wait
  <2>1. Contact!Take
    BY <1>0, <1>3 DEF Wait, agentVars, Contact!Take
  <2> QED
    BY <2>1 DEF Contact!Next
<1>4. CASE AgentStart
  BY <1>4 DEF AgentStart, Contact!Next, Contact!Restart
<1>5. CASE Unmap
  BY <1>5 DEF Unmap, playerVars, history, Contact!Next, Contact!Stop
<1>6. CASE ~(SemCheck \/ SemPost \/ Wait \/ AgentStart \/ Unmap)
  BY <1>6 DEF Next, AgentStep, PlayerStep, PreEnter, PreStore, PrePlay, PostEnter,
     WriteSensors, DoButtons, DoStiffen, ClearStiffen, WriteButtons, PublishSensors,
     CallbackReturns, ShutDown, LoadLatest, StoreRead, CopySensors, CopyButtons,
     GetStanding, PickSlot, WriteJoints, WriteStiffen, PublishActuators, StoreKillStanding,
     ToggleKillStanding, MotionRestart, PlayerDies, PlayerStarts, agentVars, history, vars
<1> QED
  BY <1>1, <1>2, <1>3, <1>4, <1>5, <1>6

\* Check and V() in two calls, with the player between them: for every MAX_SKIPS the
\* channel counts and posts as if a callback did both at one instant.
THEOREM CountsAsOne == Spec => ImplementsContact
<1>1. Init => Contact!Init
  BY DEF Init, Contact!Init
<1>2. IInv /\ [Next]_vars => [Contact!Next]_(Contact!vars)
  BY ContactStep
<1> QED
  BY <1>1, <1>2, Invariance, PTL DEF Spec, ImplementsContact, Contact!Spec

-----------------------------------------------------------------------------
(* Liveness.  ENABLED is out of the provers' reach: what weak fairness needs of   *)
(* it, that a process that has something to do can take a step, is stated here and *)
(* is a hypothesis of the theorems below.                                          *)

\* As long as naoqi has not begun to go away, nothing keeps the Agent from its next step.
AgentReady == ~shuttingDown /\ mapped => ENABLED <<AgentStep>>_vars

\* A living player is held up by P() alone.
PlayerReady == alive /\ (playerPc = "wait" => semaphore > 0) => ENABLED <<PlayerStep>>_vars

\* The memory is unmapped only after the flag is set.
MappedInv == ~shuttingDown => mapped

\* Where the callbacks go when V() is due, from program point to program point.
AgentOrder ==
  {<<"pre", "preStore">>, <<"preStore", "prePlay">>, <<"prePlay", "post">>,
   <<"post", "writeSensors">>, <<"writeSensors", "doButtons">>, <<"doButtons", "doStiffen">>,
   <<"doStiffen", "clearStiffen">>, <<"clearStiffen", "writeButtons">>,
   <<"writeButtons", "publish">>, <<"publish", "semCheck">>, <<"semCheck", "semPost">>}

\* The player has done its P(), and the Agent is at p.
Due(p) == ~shuttingDown /\ mapped /\ semaphore = 0 /\ agentPc = p

\* The Agent has just done a V().
Posted == semaphore = 1 /\ skipped_frames = 0

\* libagent keeps AgentData mapped until it shuts down.
LEMMA StaysMapped == Spec => []MappedInv
<1>1. Init => MappedInv
  BY DEF Init, MappedInv
<1>2. MappedInv /\ [Next]_vars => MappedInv'
  <2>1. AgentStep \/ PlayerStep => UNCHANGED <<mapped, shuttingDown>>
    BY DEF AgentStep, PlayerStep, PreEnter, PreStore, PrePlay, PostEnter, WriteSensors,
       DoButtons, DoStiffen, ClearStiffen, WriteButtons, PublishSensors, SemCheck, SemPost,
       Wait, LoadLatest, StoreRead, CopySensors, CopyButtons, GetStanding, PickSlot,
       WriteJoints, WriteStiffen, PublishActuators, StoreKillStanding, ToggleKillStanding,
       agentVars
  <2> QED
    BY <2>1 DEF MappedInv, Next, CallbackReturns, ShutDown, Unmap, AgentStart, MotionRestart,
       PlayerDies, PlayerStarts, agentVars, vars
<1> QED
  BY <1>1, <1>2, PTL DEF Spec

\* The player moves neither the Agent nor, but for its P(), the semaphore.
LEMMA PlayerLeaves ==
  PlayerStep => UNCHANGED agentVars /\ (Wait \/ UNCHANGED <<semaphore, alive>>)
<1>1. PlayerStep => UNCHANGED agentVars
  BY DEF PlayerStep, Wait, LoadLatest, StoreRead, CopySensors, CopyButtons, GetStanding,
     PickSlot, WriteJoints, WriteStiffen, PublishActuators, StoreKillStanding,
     ToggleKillStanding
<1>2. PlayerStep => Wait \/ UNCHANGED <<semaphore, alive>>
  BY DEF PlayerStep, LoadLatest, StoreRead, CopySensors, CopyButtons, GetStanding,
     PickSlot, WriteJoints, WriteStiffen, PublishActuators, StoreKillStanding,
     ToggleKillStanding
<1> QED
  BY <1>1, <1>2

\* Nobody but the Agent moves it while V() is due, unless it is shut down.
LEMMA DueStays ==
  ASSUME NEW p, Due(p), [Next]_vars, ~AgentStep
  PROVE  Due(p)' \/ shuttingDown'
<1>1. CASE ShutDown
  BY <1>1 DEF ShutDown
<1>2. CASE ~ShutDown
  <2>1. PlayerStep => UNCHANGED <<mapped, shuttingDown, semaphore, agentPc>>
    BY PlayerLeaves DEF Due, Wait, agentVars
  <2>2. ~PlayerStep => UNCHANGED <<mapped, shuttingDown, semaphore, agentPc>>
    BY <1>2 DEF Due, Next, CallbackReturns, Unmap, AgentStart, MotionRestart,
       PlayerDies, PlayerStarts, agentVars, vars
  <2> QED
    BY <2>1, <2>2 DEF Due
<1> QED
  BY <1>1, <1>2

\* While V() is due the Agent goes from p to q, or is shut down, and nobody else moves it
\* or the semaphore.
DueStage(p, q) ==
  Due(p) =>
    /\ ~shuttingDown /\ mapped
    /\ [Next]_vars => Due(p)' \/ Due(q)' \/ shuttingDown'
    /\ <<AgentStep>>_vars => Due(q)'

\* That is so from point to point.
LEMMA DueMoves ==
  ASSUME NEW p, NEW q, <<p, q>> \in AgentOrder
  PROVE  DueStage(p, q)
<1>1. ASSUME Due(p), AgentStep
      PROVE  Due(q)'
  <2>1. UNCHANGED <<mapped, shuttingDown, semaphore>> /\ agentPc' = q
    BY <1>1 DEF AgentOrder, Due, AgentGoes, AgentStep, PreEnter, PreStore,
       PrePlay, PostEnter, WriteSensors, DoButtons, DoStiffen, ClearStiffen, WriteButtons,
       PublishSensors, SemCheck, SemNeedsPost, SemPost
  <2> QED
    BY <1>1, <2>1 DEF Due
<1>2. ASSUME Due(p), [Next]_vars, ~AgentStep
      PROVE  Due(p)' \/ shuttingDown'
  BY <1>2, DueStays
<1> QED
  BY <1>1, <1>2 DEF DueStage, Due

\* The V() that is due is done in the last of these steps.
LEMMA DueEnds ==
  /\ Due("semPost") /\ [Next]_vars => Due("semPost")' \/ Posted' \/ shuttingDown'
  /\ Due("semPost") /\ <<AgentStep>>_vars => Posted'
<1>1. ASSUME Due("semPost"), AgentStep
      PROVE  Posted'
  BY <1>1 DEF Posted, Due, AgentGoes, AgentStep, PreEnter, PreStore,
     PrePlay, PostEnter, WriteSensors, DoButtons, DoStiffen, ClearStiffen, WriteButtons,
     PublishSensors, SemCheck, SemPost, SkippedAfterPost
<1>2. ASSUME Due("semPost"), [Next]_vars, ~AgentStep
      PROVE  Due("semPost")' \/ shuttingDown'
  BY <1>2, DueStays
<1> QED
  BY <1>1, <1>2

\* V() is done whenever it is due: the semaphore does not stay at 0 while libagent runs.
LEMMA VComes == Spec /\ []AgentReady => (~shuttingDown /\ semaphore = 0 ~> Posted \/ shuttingDown)
<1>1. /\ DueStage("pre", "preStore") /\ DueStage("preStore", "prePlay")
      /\ DueStage("prePlay", "post") /\ DueStage("post", "writeSensors")
      /\ DueStage("writeSensors", "doButtons") /\ DueStage("doButtons", "doStiffen")
      /\ DueStage("doStiffen", "clearStiffen") /\ DueStage("clearStiffen", "writeButtons")
      /\ DueStage("writeButtons", "publish") /\ DueStage("publish", "semCheck")
      /\ DueStage("semCheck", "semPost")
  BY DueMoves DEF AgentOrder
<1>2. Due("semPost") => ~shuttingDown /\ mapped
  BY DEF Due
<1>3. IInv /\ MappedInv /\ ~shuttingDown /\ semaphore = 0 =>
        \/ Due("pre") \/ Due("preStore") \/ Due("prePlay") \/ Due("post")
        \/ Due("writeSensors") \/ Due("doButtons") \/ Due("doStiffen") \/ Due("clearStiffen")
        \/ Due("writeButtons") \/ Due("publish") \/ Due("semCheck") \/ Due("semPost")
  BY DEF IInv, TypeOK, AgentPcs, AgentTouches, MappedInv, Due
<1> QED
  BY <1>1, <1>2, <1>3, DueEnds, Invariance, StaysMapped, PTL DEF Spec, AgentReady, DueStage

\* What keeps the player from its P() is a tick of finitely many steps.
PlayerOrder ==
  {<<"load", "store">>, <<"store", "copySensors">>, <<"copySensors", "copyButtons">>,
   <<"copyButtons", "getStanding">>, <<"getStanding", "pickSlot">>, <<"pickSlot", "writeJoints">>,
   <<"writeJoints", "writeStiffen">>, <<"writeStiffen", "publish">>, <<"publish", "standing1">>,
   <<"standing1", "standing2">>, <<"standing2", "wait">>}

\* A V() has been done and its P() has not, and the player is at p.
Busy(p) == alive /\ semaphore = 1 /\ playerPc = p

\* The Agent does no second V(), and moves no player.
LEMMA AgentLeaves ==
  ASSUME IInv, semaphore = 1, AgentStep
  PROVE  UNCHANGED <<semaphore, alive, playerPc>>
  BY DEF IInv, SemInv, AgentGoes, AgentStep, PreEnter, PreStore, PrePlay, PostEnter,
     WriteSensors, DoButtons, DoStiffen, ClearStiffen, WriteButtons, PublishSensors, SemCheck,
     SemPost, playerVars

\* Nobody else either: a player that is busy and is not restarted stays where it is.
LEMMA BusyStays ==
  ASSUME NEW p, IInv, Busy(p), [Next]_vars, ~PlayerStep
  PROVE  Busy(p)' \/ Busy("wait")' \/ ~alive'
<1>1. CASE AgentStep
  BY <1>1, AgentLeaves DEF Busy
<1>2. CASE ~AgentStep
  <2>1. semaphore' = semaphore
    BY <1>2 DEF Next, CallbackReturns, ShutDown, Unmap, AgentStart, MotionRestart,
       PlayerDies, PlayerStarts, vars
  <2>2. alive' => playerPc' \in {"wait", playerPc}
    BY <1>2 DEF Next, CallbackReturns, ShutDown, Unmap, AgentStart, MotionRestart,
       PlayerDies, PlayerStarts, playerVars, vars
  <2> QED
    BY <2>1, <2>2 DEF Busy, IInv, TypeOK
<1> QED
  BY <1>1, <1>2

\* The player's tick goes from p to q, unless it is restarted or dies.
BusyStage(p, q) ==
  IInv /\ Busy(p) =>
    /\ alive /\ (playerPc = "wait" => semaphore > 0)
    /\ [Next]_vars => Busy(p)' \/ Busy(q)' \/ Busy("wait")' \/ ~alive'
    /\ <<PlayerStep>>_vars => Busy(q)'

\* That is so from point to point.
LEMMA BusyMoves ==
  ASSUME NEW p, NEW q, <<p, q>> \in PlayerOrder
  PROVE  BusyStage(p, q)
<1>1. ASSUME Busy(p), PlayerStep
      PROVE  Busy(q)'
  <2>1. UNCHANGED <<alive, semaphore>> /\ playerPc' = q
    BY <1>1 DEF PlayerOrder, Busy, PlayerGoes, PlayerStep, Wait, LoadLatest, StoreRead,
       CopySensors, CopyButtons, GetStanding, PickSlot, WriteJoints, WriteStiffen, PublishActuators, StoreKillStanding,
       ToggleKillStanding
  <2> QED
    BY <1>1, <2>1 DEF Busy
<1> QED
  BY <1>1, BusyStays DEF BusyStage, Busy

\* A player at its P() does it, unless it dies.
LEMMA BusyEnds ==
  /\ IInv /\ Busy("wait") /\ [Next]_vars =>
       Busy("wait")' \/ ~alive' \/ (semaphore = 0 /\ playerPc # "wait")'
  /\ Busy("wait") /\ <<PlayerStep>>_vars => (semaphore = 0 /\ playerPc # "wait")'
<1>1. ASSUME Busy("wait"), PlayerStep
      PROVE  (semaphore = 0 /\ playerPc # "wait")'
  BY <1>1 DEF Busy, PlayerGoes, PlayerStep, Wait, LoadLatest, StoreRead, CopySensors, CopyButtons,
     GetStanding, PickSlot, WriteJoints, WriteStiffen, PublishActuators, StoreKillStanding,
     ToggleKillStanding
<1> QED
  BY <1>1, BusyStays

\* P() follows on V(): the semaphore does not stay at 1 while a player lives.
LEMMA PComes == Spec /\ []PlayerReady => (alive /\ semaphore = 1 ~> semaphore = 0 \/ ~alive)
<1>1. /\ BusyStage("load", "store") /\ BusyStage("store", "copySensors")
      /\ BusyStage("copySensors", "copyButtons") /\ BusyStage("copyButtons", "getStanding")
      /\ BusyStage("getStanding", "pickSlot") /\ BusyStage("pickSlot", "writeJoints")
      /\ BusyStage("writeJoints", "writeStiffen") /\ BusyStage("writeStiffen", "publish")
      /\ BusyStage("publish", "standing1") /\ BusyStage("standing1", "standing2")
      /\ BusyStage("standing2", "wait")
  BY BusyMoves DEF PlayerOrder
<1>2. Busy("wait") => alive /\ (playerPc = "wait" => semaphore > 0)
  BY DEF Busy
<1>3. IInv /\ alive /\ semaphore = 1 =>
        \/ Busy("load") \/ Busy("store") \/ Busy("copySensors") \/ Busy("copyButtons")
        \/ Busy("getStanding") \/ Busy("pickSlot") \/ Busy("writeJoints") \/ Busy("writeStiffen")
        \/ Busy("publish") \/ Busy("standing1") \/ Busy("standing2") \/ Busy("wait")
  BY DEF IInv, TypeOK, PlayerPcs, Busy
<1> QED
  BY <1>1, <1>2, <1>3, BusyEnds, Invariance, PTL DEF Spec, PlayerReady, BusyStage

\* A player blocked in P() is woken unless naoqi goes away, whatever value of MAX_SKIPS,
\* state of the semaphore or earlier player it finds.
THEOREM Wakes == Spec /\ []AgentReady /\ []PlayerReady => NoMissedWakeup
<1>1. IInv => semaphore = 0 \/ semaphore = 1
  BY DEF IInv, TypeOK, SemInv, SemaphoreBinary
<1>2. alive /\ playerPc = "wait" /\ semaphore = 1 <=> Busy("wait")
  BY DEF Busy
<1>3. Posted => semaphore = 1
  BY DEF Posted
<1>4. Busy("wait") => alive /\ (playerPc = "wait" => semaphore > 0)
  BY DEF Busy
<1>5. playerPc # "wait" <=> ~ (playerPc = "wait")
  OBVIOUS
<1> QED
  BY <1>1, <1>2, <1>3, <1>4, <1>5, BusyEnds, VComes, Invariance, PTL
     DEF Spec, PlayerReady, NoMissedWakeup

\* As long as a player lives and libagent runs, the Agent finds again and again that it is
\* in contact.
THEOREM Reestablished == Spec /\ []AgentReady /\ []PlayerReady => ContactReestablished
<1>1. IInv => semaphore = 0 \/ semaphore = 1
  BY DEF IInv, TypeOK, SemInv, SemaphoreBinary
<1>2. Posted => skipped_frames = 0
  BY DEF Posted
<1> QED
  BY <1>1, <1>2, VComes, PComes, Invariance, PTL DEF ContactReestablished

-----------------------------------------------------------------------------

\* The player is away, and libagent is not.
Gone == ~alive /\ ~shuttingDown

\* It has been for long enough to leave its V() unanswered, and k cycles have been counted.
Missed(k) == semaphore = 1 /\ skipped_frames >= k

\* The next cycle to be counted is under way, and the Agent is at p.
Missing(p, k) == Gone /\ mapped /\ Missed(k) /\ agentPc = p

\* A cycle that is counted ends where it is counted.
MissOrder == (AgentOrder \ {<<"semCheck", "semPost">>}) \cup {<<"semCheck", "pre">>}

\* Only the Agent moves while the player stays away.
LEMMA AloneMoves ==
  ASSUME Gone, mapped, [Next]_vars, Gone', ~AgentStep
  PROVE  UNCHANGED <<mapped, agentPc, semaphore, skipped_frames>>
<1>1. ~PlayerStep
  BY DEF Gone, PlayerStep, PlayerGoes, Wait, LoadLatest, StoreRead, CopySensors, CopyButtons,
     GetStanding, PickSlot, WriteJoints, WriteStiffen, PublishActuators, StoreKillStanding,
     ToggleKillStanding
<1> QED
  BY <1>1 DEF Gone, Next, CallbackReturns, ShutDown, Unmap, AgentStart, MotionRestart,
     PlayerDies, PlayerStarts, agentVars, vars

\* The Agent goes from point to point, does no second V(), and counts a cycle at the end.
LEMMA AloneGoes ==
  ASSUME NEW p, NEW q, <<p, q>> \in MissOrder, NEW k \in 0..MAX_SKIPS,
         IInv, Missing(p, k), AgentStep
  PROVE  /\ mapped' = mapped /\ semaphore' = semaphore /\ agentPc' = q
         /\ IF p = "semCheck" THEN skipped_frames' >= k + 1
                              ELSE skipped_frames' = skipped_frames
<1>1. skipped_frames \in 0..(MAX_SKIPS + 1) /\ skipped_frames >= k
  BY DEF IInv, TypeOK, Missing, Missed
<1>2. SkippedAfterMiss >= k + 1
  BY <1>1, MaxSkipsAssumption DEF SkippedAfterMiss, Saturate
<1>3. CASE SemCheck
  <2>1. p = "semCheck" /\ q = "pre"
    BY <1>3 DEF Missing, SemCheck, AgentGoes, MissOrder, AgentOrder
  <2>2. ~SemNeedsPost
    BY DEF Missing, Missed, SemNeedsPost
  <2> QED
    BY <1>2, <1>3, <2>1, <2>2 DEF SemCheck, AgentGoes
<1>4. CASE ~SemCheck
  <2>1. agentPc # "semPost" /\ agentPc = p
    BY DEF IInv, SemInv, Missing, Missed
  <2>2. UNCHANGED <<mapped, semaphore, skipped_frames>> /\ <<p, agentPc'>> \in AgentOrder
    BY <1>4, <2>1 DEF AgentOrder, AgentGoes, AgentStep, PreEnter, PreStore, PrePlay, PostEnter,
       WriteSensors, DoButtons, DoStiffen, ClearStiffen, WriteButtons, PublishSensors, SemPost
  <2>3. p # "semCheck"
    BY <1>4, <2>1 DEF AgentGoes, AgentStep, PreEnter, PreStore, PrePlay, PostEnter,
       WriteSensors, DoButtons, DoStiffen, ClearStiffen, WriteButtons, PublishSensors, SemPost
  <2>4. agentPc' = q
    BY <2>2, <2>3 DEF MissOrder, AgentOrder
  <2> QED
    BY <2>2, <2>3, <2>4
<1> QED
  BY <1>3, <1>4

\* With the player away the Agent goes from p to q on its way to the next count.
MissStage(p, q, k) ==
  IInv /\ Missing(p, k) =>
    /\ ~shuttingDown /\ mapped
    /\ [Next]_vars /\ Gone' => Missing(p, k)' \/ Missing(q, k)'
    /\ <<AgentStep>>_vars /\ Gone' => Missing(q, k)'

\* Nobody but the Agent moves the Agent, and on its way to the semaphore nothing is counted.
LEMMA MissMoves ==
  ASSUME NEW p, NEW q, <<p, q>> \in MissOrder, p # "semCheck", NEW k \in 0..MAX_SKIPS
  PROVE  MissStage(p, q, k)
<1>1. ASSUME IInv, Missing(p, k), AgentStep, Gone'
      PROVE  Missing(q, k)'
  BY <1>1, AloneGoes DEF Missing, Missed
<1>2. ASSUME Missing(p, k), [Next]_vars, ~AgentStep, Gone'
      PROVE  Missing(p, k)'
  BY <1>2, AloneMoves DEF Missing, Missed
<1> QED
  BY <1>1, <1>2 DEF MissStage, Missing, Gone

\* The count goes up where the semaphore is looked at.
LEMMA MissEnds ==
  ASSUME NEW k \in 0..MAX_SKIPS, IInv, Missing("semCheck", k), [Next]_vars, Gone'
  PROVE  /\ Missing("semCheck", k)' \/ Missed(k + 1)'
         /\ AgentStep => Missed(k + 1)'
<1>1. ASSUME AgentStep
      PROVE  Missed(k + 1)'
  BY <1>1, AloneGoes DEF MissOrder, Missing, Missed
<1>2. ASSUME ~AgentStep
      PROVE  Missing("semCheck", k)'
  BY <1>2, AloneMoves DEF Missing, Missed
<1> QED
  BY <1>1, <1>2

\* What has been counted stays counted while the player stays away.
LEMMA MissedStays ==
  ASSUME NEW k \in Nat, k <= MAX_SKIPS + 1, IInv, MappedInv, Gone, Missed(k), [Next]_vars, Gone'
  PROVE  Missed(k)'
<1>0. mapped /\ skipped_frames \in 0..(MAX_SKIPS + 1)
  BY DEF Gone, MappedInv, IInv, TypeOK
<1>1. CASE AgentStep
  <2>1. semaphore' = semaphore
    BY <1>1, AgentLeaves DEF Missed
  <2>2. skipped_frames' = skipped_frames \/ skipped_frames' = SkippedAfterMiss
    BY <1>1 DEF Missed, IInv, SemInv, AgentGoes, AgentStep, PreEnter, PreStore, PrePlay,
       PostEnter, WriteSensors, DoButtons, DoStiffen, ClearStiffen, WriteButtons,
       PublishSensors, SemCheck, SemPost
  <2>3. SkippedAfterMiss >= k
    BY <1>0, MaxSkipsAssumption DEF Missed, SkippedAfterMiss, Saturate
  <2> QED
    BY <2>1, <2>2, <2>3 DEF Missed
<1>2. CASE ~AgentStep
  BY <1>0, <1>2, AloneMoves DEF Missed
<1> QED
  BY <1>1, <1>2

\* A player that is gone for good is missed k times, and from then on.
Counted(k) == <>[]Gone => <>[]Missed(k)

\* Each cycle of a player that is gone leads to the next.
THEOREM CountsOn ==
  ASSUME NEW CONSTANT k \in 0..MAX_SKIPS
  PROVE  Spec /\ []AgentReady => (Counted(k) => Counted(k + 1))
<1>1. /\ MissStage("pre", "preStore", k) /\ MissStage("preStore", "prePlay", k)
      /\ MissStage("prePlay", "post", k) /\ MissStage("post", "writeSensors", k)
      /\ MissStage("writeSensors", "doButtons", k) /\ MissStage("doButtons", "doStiffen", k)
      /\ MissStage("doStiffen", "clearStiffen", k) /\ MissStage("clearStiffen", "writeButtons", k)
      /\ MissStage("writeButtons", "publish", k) /\ MissStage("publish", "semCheck", k)
  BY MissMoves DEF MissOrder, AgentOrder
<1>2. Missing("semCheck", k) => ~shuttingDown /\ mapped
  BY DEF Missing, Gone
<1>3. IInv /\ Missing("semCheck", k) /\ [Next]_vars /\ Gone' =>
        Missing("semCheck", k)' \/ Missed(k + 1)'
  BY MissEnds
<1>4. IInv /\ Missing("semCheck", k) /\ <<AgentStep>>_vars /\ [Next]_vars /\ Gone' => Missed(k + 1)'
  BY MissEnds
<1>5. IInv /\ MappedInv /\ Gone /\ Missed(k) =>
        \/ Missing("pre", k) \/ Missing("preStore", k) \/ Missing("prePlay", k)
        \/ Missing("post", k) \/ Missing("writeSensors", k) \/ Missing("doButtons", k)
        \/ Missing("doStiffen", k) \/ Missing("clearStiffen", k) \/ Missing("writeButtons", k)
        \/ Missing("publish", k) \/ Missing("semCheck", k)
  BY DEF IInv, TypeOK, SemInv, AgentPcs, AgentTouches, MappedInv, Gone, Missed, Missing
<1>6. IInv /\ MappedInv /\ Gone /\ Missed(k + 1) /\ [Next]_vars /\ Gone' => Missed(k + 1)'
  BY MissedStays, MaxSkipsAssumption
<1> QED
  BY <1>1, <1>2, <1>3, <1>4, <1>5, <1>6, Invariance, StaysMapped, PTL
     DEF Spec, AgentReady, MissStage, Counted

\* The first is there when the last V() is unanswered.
LEMMA CountStarts == Spec /\ []AgentReady => Counted(0)
<1>1. IInv => (semaphore = 0 \/ semaphore = 1) /\ (semaphore = 1 => Missed(0))
  BY DEF IInv, TypeOK, SemInv, SemaphoreBinary, Missed
<1>2. IInv /\ MappedInv /\ Gone /\ Missed(0) /\ [Next]_vars /\ Gone' => Missed(0)'
  BY MissedStays, MaxSkipsAssumption
<1>3. Posted => semaphore = 1
  BY DEF Posted
<1>4. Gone => ~shuttingDown
  BY DEF Gone
<1> QED
  BY <1>1, <1>2, <1>3, <1>4, VComes, Invariance, StaysMapped, PTL DEF Spec, Counted

\* Induction over the cycles: true of all behaviours, but not to be had from the provers
\* for a temporal formula.
CountInduction ==
  Counted(0) /\ (\A k \in 0..MAX_SKIPS : Counted(k) => Counted(k + 1))
    => Counted(MAX_SKIPS + 1)

\* A player that is gone for good is found out of contact, whatever MAX_SKIPS is.
THEOREM Lost == Spec /\ []AgentReady /\ CountInduction => LostContactDetected
<1>1. \A k \in 0..MAX_SKIPS : Spec /\ []AgentReady => (Counted(k) => Counted(k + 1))
  BY CountsOn
<1>2. Spec /\ []AgentReady /\ CountInduction => Counted(MAX_SKIPS + 1)
  BY <1>1, CountStarts DEF CountInduction
<1>3. IInv /\ Missed(MAX_SKIPS + 1) => skipped_frames > MAX_SKIPS
  BY MaxSkipsAssumption DEF IInv, TypeOK, Missed
<1>4. Gone <=> ~alive /\ ~shuttingDown
  BY DEF Gone
<1> QED
  BY <1>2, <1>3, <1>4, Invariance, PTL DEF Counted, LostContactDetected

===============================================================================
