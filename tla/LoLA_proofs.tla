------------------------------ MODULE LoLA_proofs ------------------------------
(***************************************************************************)
(* For every click interval, hold time and length of the sit-down, and for *)
(* every kill -9 that leaves the time to sit: the robot rises only from a  *)
(* reset generator, is left without power, is not killed on its way down,  *)
(* keeps libagent's promises of the motors, and a runswift that is told to *)
(* end does.                                                               *)
(*                                                                         *)
(* The last one supposes that the Motion thread, a killall and main()'s    *)
(* end are enabled where they are due, and induction over the cycles of    *)
(* the way down.                                                           *)
(***************************************************************************)
EXTENDS LoLA, TLAPS

-----------------------------------------------------------------------------
(* The inductive invariant *)

\* A live socket has a LoLA behind it, and whoever was told something still listens.
LinkInv ==
  /\ live => serving
  /\ pc # "off" /\ motors # "none" => live

\* Until the generator is reset `standing' keeps the reset due; by the time the joints
\* are played it has been made.
RisesInv ==
  /\ pc \in {"load", "buttons"} /\ ~limp /\ rested => standing
  /\ pc = "actuate" /\ ~limp => ~rested

\* The way down is the destructor's alone.
SeatInv == motors = "seat" => pc \in {"sit", "off"}

\* A limp tick, and a destructor that is through, have taken the power away.
PowerInv ==
  /\ pc \in {"build", "over"} => motors = "none" \/ cutShort
  /\ pc = "load" /\ limp => motors = "none" \/ cutShort

\* The kill -9 waits a cycle for every cycle of the sit-down.
ReaperInv ==
  /\ pc = "over" => attemptingShutdown
  /\ reaper > 0 /\ pc # "off" =>
       /\ attemptingShutdown
       /\ pc \in {"sit", "build", "over"}
       /\ pc = "sit" => reaper <= sit_step

IInv == TypeOK /\ LinkInv /\ RisesInv /\ SeatInv /\ PowerInv /\ ReaperInv /\ RisesFromReset

\* What a process starts with is in range.
LEMMA Zeros ==
  /\ 0 \in Halted..(Hold + 1) /\ 0 \in 0..(Hold + 1) /\ 0 \in 0..(MAX_CLICK_INTERVAL + 1)
  /\ 0 \in 0..MaxPresses /\ 0 \in 0..(SIT_MIDDLE_CYCLES + SIT_CYCLES)
  /\ None \in None..KillSleep
  /\ ~(None > 0)
BY LoLAAssumption DEF Halted, MaxPresses, None

\* What the invariant says of more than one step is true of a process that is gone.
LEMMA GoneInv ==
  ASSUME IInv, Gone, reaper' \in None..KillSleep
  PROVE  IInv'
<1>1. TypeOK'
  <2>1. motors \in {"none", "player", "seat"} /\ serving \in BOOLEAN
    BY DEF IInv, TypeOK
  <2> QED
    BY <2>1, Zeros, Zenon DEF TypeOK, Gone
<1>2. LinkInv' /\ RisesInv' /\ SeatInv' /\ PowerInv' /\ ReaperInv' /\ RisesFromReset'
  BY DEF Gone, LinkInv, RisesInv, SeatInv, PowerInv, ReaperInv, RisesFromReset
<1> QED
  BY <1>1, <1>2 DEF IInv

-----------------------------------------------------------------------------
(* The steps of a tick *)

\* Motion's wait for a sample: LoLA's, or with the connection lost the last one.
LEMMA LoadStep ==
  ASSUME IInv, NEW button \in BOOLEAN, Load(button)
  PROVE  IInv'
<1> USE DEF Load, historyVars, chestVars
<1>1. TypeOK'
  BY LoLAAssumption DEF IInv, TypeOK, Access, Reached, Saturate, Ticking
<1>2. LinkInv'
  BY DEF IInv, TypeOK, LinkInv, Access, Reached
<1>3. RisesInv' /\ SeatInv' /\ PowerInv' /\ RisesFromReset'
  BY DEF IInv, RisesInv, SeatInv, PowerInv, RisesFromReset
<1>4. ReaperInv'
  BY DEF IInv, ReaperInv
<1> QED
  BY <1>1, <1>2, <1>3, <1>4 DEF IInv

\* What the counters become.
LEMMA CountType ==
  ASSUME TypeOK, CountChest
  PROVE  /\ chest_down' \in Halted..(Hold + 1)
         /\ chest_up' \in 0..(MAX_CLICK_INTERVAL + 1)
         /\ chest_presses' \in 0..MaxPresses
<1> DEFINE down    == IF chest_down > Hold THEN Halted ELSE chest_down
           presses == IF chest_up > MAX_CLICK_INTERVAL THEN 0 ELSE chest_presses
<1>1. down \in Halted..Hold /\ presses \in 0..MaxPresses
  BY LoLAAssumption DEF TypeOK, Halted, MaxPresses
<1>2. /\ chest_down' = IF chest THEN IF down >= 0 THEN down + 1 ELSE down
                                ELSE IF down > 0 THEN 0 ELSE down
      /\ chest_up' = IF chest THEN 0 ELSE Saturate(chest_up + 1, MAX_CLICK_INTERVAL)
      /\ chest_presses' = IF ~chest /\ down > 0 /\ presses < MaxPresses
                          THEN presses + 1 ELSE presses
  BY DEF CountChest
<1>3. Saturate(chest_up + 1, MAX_CLICK_INTERVAL) \in 0..(MAX_CLICK_INTERVAL + 1)
  BY LoLAAssumption DEF TypeOK, Saturate
<1> HIDE DEF down, presses
<1> QED
  BY <1>1, <1>2, <1>3, LoLAAssumption DEF Halted, MaxPresses

\* What the presses and the shutdown do to limp and `standing'.
LEMMA SwitchStep ==
  ASSUME TypeOK, NEW foot \in BOOLEAN, NEW falling \in BOOLEAN, Buttons(foot, falling)
  PROVE  /\ limp' \in BOOLEAN /\ standing' \in BOOLEAN /\ reaper' \in {reaper, 0}
         /\ reaper' # reaper => reaper = None
         /\ ~limp' => standing' \/ (~limp /\ standing' = standing)
BY DEF Buttons, Halt, Presses, DoublePress, TriplePress, TypeOK

\* The chest clicks and the feet, with what they terminate, halt or limp.
LEMMA ButtonsStep ==
  ASSUME IInv, NEW foot \in BOOLEAN, NEW falling \in BOOLEAN, Buttons(foot, falling)
  PROVE  IInv'
<1>0. /\ TypeOK
      /\ limp' \in BOOLEAN /\ standing' \in BOOLEAN /\ reaper' \in {reaper, 0}
      /\ reaper' # reaper => reaper = None
      /\ ~limp' => standing' \/ (~limp /\ standing' = standing)
  BY SwitchStep DEF IInv
<1>1. /\ pc = "buttons" /\ pc' = "actuate" /\ CountChest
      /\ rested' = (rested /\ ~standing')
      /\ UNCHANGED <<linkVars, chest, attemptingShutdown, sit_step, serving, motors,
                     cutShort>>
  BY DEF Buttons
<1>2. TypeOK'
  BY <1>0, <1>1, CountType, LoLAAssumption
     DEF TypeOK, linkVars, Ticking, None
<1>3. LinkInv' /\ SeatInv' /\ PowerInv' /\ RisesFromReset'
  BY <1>1 DEF IInv, LinkInv, SeatInv, PowerInv, RisesFromReset, linkVars
<1>4. RisesInv'
  BY <1>0, <1>1 DEF IInv, RisesInv
<1>5. ReaperInv'
  BY <1>0, <1>1 DEF IInv, ReaperInv
<1> QED
  BY <1>2, <1>3, <1>4, <1>5 DEF IInv

\* The joints are sent, or fail to be.
LEMMA ActuateStep ==
  ASSUME IInv, NEW stiffen \in BOOLEAN, Actuate(stiffen)
  PROVE  IInv'
<1> DEFINE word == IF limp' \/ standing' THEN "none" ELSE "player"
<1>0. /\ pc = "actuate" /\ pc' = "load"
      /\ limp' = (limp /\ ~stiffen) /\ standing' = stiffen
      /\ motors' = IF Reached THEN word ELSE motors
      /\ isConnected' = serving /\ live' = serving
      /\ rested' = (rested \/ limp' \/ standing')
      /\ cutShort' = FALSE
      /\ UNCHANGED <<chestVars, chest, attemptingShutdown, sit_step, serving, reaper>>
  BY DEF Actuate, Tell, AccessTwice, StandingStiffened
<1>1. TypeOK /\ word \in {"none", "player"}
  BY DEF IInv
<1>2. TypeOK'
  BY <1>0, <1>1 DEF TypeOK, chestVars, Ticking
<1>3. Reached => serving
  BY DEF IInv, LinkInv, Reached
<1>4. ~Reached => motors = "none"
  BY <1>0 DEF IInv, LinkInv, Reached
<1>5. LinkInv'
  BY <1>0, <1>3, <1>4 DEF LinkInv
<1>6. motors' = "player" => ~limp' /\ ~standing'
  BY <1>0, <1>4
<1>7. motors' = "none" \/ motors' = "player"
  BY <1>0, <1>1, <1>4
<1>8. RisesInv' /\ RisesFromReset'
  BY <1>0, <1>6 DEF IInv, RisesInv, RisesFromReset
<1>9. SeatInv' /\ PowerInv'
  BY <1>0, <1>6, <1>7 DEF SeatInv, PowerInv
<1>10. ReaperInv'
  BY <1>0 DEF IInv, ReaperInv
<1> QED
  BY <1>2, <1>5, <1>8, <1>9, <1>10 DEF IInv

-----------------------------------------------------------------------------
(* The end of a Motion thread, and the next one *)

\* Motion leaves its loop, by the end, by an exception or by a fault.
LEMMA LeaveStep ==
  ASSUME IInv, Leave \/ Throw \/ Fault
  PROVE  IInv'
<1> USE DEF Leave, Throw, Fault, Faulting, Destroy, MustSit, Ticking
<1>0. /\ pc \in Ticking /\ pc' \in {"sit", "build"}
      /\ pc' = "build" => cutShort' \/ (pc = "load" /\ limp /\ UNCHANGED cutShort)
      /\ cutShort' \in BOOLEAN
      /\ UNCHANGED <<limp, standing, chestVars, linkVars, chest, attemptingShutdown,
                     sit_step, serving, motors, reaper, rested>>
  BY DEF IInv, TypeOK
<1>1. TypeOK'
  BY <1>0 DEF IInv, TypeOK, chestVars, linkVars
<1>2. LinkInv' /\ RisesInv' /\ SeatInv' /\ RisesFromReset'
  BY <1>0 DEF IInv, LinkInv, RisesInv, SeatInv, RisesFromReset, linkVars
<1>3. PowerInv'
  BY <1>0 DEF IInv, PowerInv
<1>4. ReaperInv'
  BY <1>0 DEF IInv, ReaperInv
<1> QED
  BY <1>1, <1>2, <1>3, <1>4 DEF IInv

\* The destructor sits the robot down.
LEMMA SitStep ==
  ASSUME IInv, Sit
  PROVE  IInv'
<1>0. /\ TypeOK /\ pc = "sit" /\ isConnected' = serving /\ live' = serving
      /\ UNCHANGED <<limp, standing, chestVars, chest, attemptingShutdown, serving,
                     rested, cutShort>>
      /\ reaper' \in {reaper, reaper + 1}
      /\ reaper' # reaper => attemptingShutdown /\ reaper # None /\ reaper < KillSleep
  BY DEF IInv, Sit, AccessTwice, Waits
<1>1. Reached => serving
  BY DEF IInv, LinkInv, Reached
<1>2. ~Reached => motors = "none"
  BY <1>0 DEF IInv, LinkInv, Reached
<1>3. reaper' \in None..KillSleep
  BY <1>0, LoLAAssumption DEF TypeOK, None
<1>4. CASE sit_step = SIT_MIDDLE_CYCLES + SIT_CYCLES
  <2>0. pc' = "build" /\ sit_step' = 0 /\ motors' = "none"
    BY <1>2, <1>4 DEF Sit, SitEnds, Tell
  <2>1. TypeOK'
    BY <1>0, <1>3, <2>0, LoLAAssumption DEF TypeOK, chestVars
  <2>2. LinkInv' /\ RisesInv' /\ SeatInv' /\ PowerInv' /\ RisesFromReset'
    BY <1>0, <2>0 DEF IInv, LinkInv, RisesInv, SeatInv, PowerInv, RisesFromReset
  <2>3. ReaperInv'
    BY <1>0, <2>0, LoLAAssumption DEF IInv, ReaperInv, TypeOK, None
  <2> QED
    BY <2>1, <2>2, <2>3 DEF IInv
<1>5. CASE sit_step # SIT_MIDDLE_CYCLES + SIT_CYCLES
  <2>0. /\ pc' = "sit" /\ sit_step' = sit_step + 1
        /\ motors' = IF Reached THEN (IF standing THEN "none" ELSE "seat") ELSE "none"
    BY <1>0, <1>2, <1>5 DEF Sit, SitEnds, Tell
  <2>1. sit_step' \in 0..(SIT_MIDDLE_CYCLES + SIT_CYCLES)
    BY <1>0, <1>5, <2>0, LoLAAssumption DEF TypeOK
  <2>2. TypeOK'
    BY <1>0, <1>3, <2>0, <2>1 DEF TypeOK, chestVars
  <2>3. LinkInv' /\ RisesInv' /\ SeatInv' /\ PowerInv' /\ RisesFromReset'
    BY <1>0, <1>1, <2>0 DEF LinkInv, RisesInv, SeatInv, PowerInv, RisesFromReset
  <2>4. ReaperInv'
    BY <1>0, <2>0, LoLAAssumption DEF IInv, ReaperInv, TypeOK, None
  <2> QED
    BY <2>2, <2>3, <2>4 DEF IInv
<1> QED
  BY <1>4, <1>5

\* LoLATouch and the generators are built anew.
LEMMA BuildStep ==
  ASSUME IInv, Build
  PROVE  IInv'
<1>0. /\ pc = "build"
      /\ \/ ~attemptingShutdown /\ pc' = "load" /\ rested' = FALSE
         \/ attemptingShutdown /\ pc' = "over" /\ rested' = rested
      /\ UNCHANGED <<limp, standing, chestVars, linkVars, chest, attemptingShutdown,
                     sit_step, serving, motors, reaper, cutShort>>
  BY DEF Build, Restarts
<1>1. TypeOK'
  BY <1>0 DEF IInv, TypeOK, chestVars, linkVars, Ticking
<1>2. LinkInv' /\ RisesInv' /\ SeatInv' /\ PowerInv' /\ RisesFromReset'
  BY <1>0 DEF IInv, LinkInv, RisesInv, SeatInv, PowerInv, RisesFromReset, linkVars
<1>3. ReaperInv'
  BY <1>0 DEF IInv, ReaperInv
<1> QED
  BY <1>1, <1>2, <1>3 DEF IInv

-----------------------------------------------------------------------------
(* Signals, the daemon, LoLA *)

\* What happens outside the Motion thread.
LEMMA OutsideStep ==
  ASSUME IInv, Exit \/ Dies \/ Reap \/ TimePasses \/ Terminate \/ Start \/ LolaStops \/ LolaStarts
  PROVE  IInv'
<1> USE DEF chestVars, linkVars, historyVars
<1>1. CASE Exit \/ Dies
  BY <1>1, GoneInv DEF Exit, Dies, IInv, TypeOK
<1>2. CASE Reap
  <2>1. reaper' = None /\ reaper' \in None..KillSleep
    BY <1>2, LoLAAssumption DEF Reap, None
  <2>2. CASE Gone
    BY <2>1, <2>2, GoneInv
  <2>3. CASE ~Gone
    <3>1. TypeOK'
      BY <1>2, <2>1, <2>3 DEF Reap, IInv, TypeOK
    <3>2. LinkInv' /\ RisesInv' /\ SeatInv' /\ PowerInv' /\ RisesFromReset'
      BY <1>2, <2>3 DEF Reap, IInv, LinkInv, RisesInv, SeatInv, PowerInv, RisesFromReset
    <3>3. ReaperInv'
      BY <1>2, <2>1, <2>3 DEF Reap, IInv, ReaperInv, None
    <3> QED
      BY <3>1, <3>2, <3>3 DEF IInv
  <2> QED
    BY <2>2, <2>3
<1>3. CASE TimePasses
  <2>1. reaper' \in None..KillSleep
    BY <1>3, LoLAAssumption DEF TimePasses, Waits, IInv, TypeOK, None
  <2>2. TypeOK'
    BY <1>3, <2>1 DEF TimePasses, IInv, TypeOK
  <2>3. LinkInv' /\ RisesInv' /\ SeatInv' /\ PowerInv' /\ RisesFromReset'
    BY <1>3 DEF TimePasses, IInv, LinkInv, RisesInv, SeatInv, PowerInv, RisesFromReset
  <2>4. ReaperInv'
    BY <1>3 DEF TimePasses, Waits, IInv, ReaperInv
  <2> QED
    BY <2>2, <2>3, <2>4 DEF IInv
<1>4. CASE Terminate
  <2>1. TypeOK'
    BY <1>4 DEF Terminate, IInv, TypeOK
  <2>2. LinkInv' /\ RisesInv' /\ SeatInv' /\ PowerInv' /\ RisesFromReset'
    BY <1>4 DEF Terminate, IInv, LinkInv, RisesInv, SeatInv, PowerInv, RisesFromReset
  <2>3. ReaperInv'
    BY <1>4 DEF Terminate, IInv, ReaperInv
  <2> QED
    BY <2>1, <2>2, <2>3 DEF IInv
<1>5. CASE Start
  <2>1. TypeOK'
    BY <1>5, LoLAAssumption DEF Start, ReaperStarted, None, IInv, TypeOK
  <2>2. LinkInv' /\ RisesInv' /\ SeatInv' /\ PowerInv' /\ RisesFromReset'
    BY <1>5 DEF Start, IInv, LinkInv, RisesInv, SeatInv, PowerInv, RisesFromReset
  <2>3. ReaperInv'
    BY <1>5 DEF Start, ReaperStarted, None, ReaperInv
  <2> QED
    BY <2>1, <2>2, <2>3 DEF IInv
<1>6. CASE LolaStops \/ LolaStarts
  <2>1. TypeOK'
    <3>1. CASE LolaStops
      BY <3>1 DEF LolaStops, IInv, TypeOK
    <3>2. CASE LolaStarts
      BY <3>2 DEF LolaStarts, IInv, TypeOK
    <3> QED
      BY <1>6, <3>1, <3>2
  <2>2. LinkInv' /\ RisesInv' /\ SeatInv' /\ PowerInv' /\ RisesFromReset'
    BY <1>6 DEF LolaStops, LolaStarts, IInv, LinkInv, RisesInv, SeatInv, PowerInv,
                RisesFromReset
  <2>3. ReaperInv'
    BY <1>6 DEF LolaStops, LolaStarts, IInv, ReaperInv
  <2> QED
    BY <2>1, <2>2, <2>3 DEF IInv
<1> QED
  BY <1>1, <1>2, <1>3, <1>4, <1>5, <1>6

\* So every step keeps the invariant.
LEMMA NextIInv ==
  ASSUME IInv, [Next]_vars
  PROVE  IInv'
<1>1. CASE UNCHANGED vars
  BY <1>1 DEF vars, chestVars, linkVars, historyVars, IInv, TypeOK, LinkInv,
              RisesInv, SeatInv, PowerInv, ReaperInv, RisesFromReset
<1>2. CASE Motion
  BY <1>2, LoadStep, ButtonsStep, ActuateStep, LeaveStep, SitStep, BuildStep DEF Motion
<1>3. CASE Next /\ ~Motion
  BY <1>3, LeaveStep, OutsideStep DEF Next
<1> QED
  BY <1>1, <1>2, <1>3

\* IInv holds throughout every behaviour.
THEOREM Invariance == Spec => []IInv
<1>1. Init => IInv
  <2>1. Init => TypeOK
    BY Zeros, Zenon DEF Init, TypeOK
  <2>2. Init => LinkInv /\ RisesInv /\ SeatInv /\ PowerInv /\ ReaperInv /\ RisesFromReset
    BY Zeros, Zenon DEF Init, LinkInv, RisesInv, SeatInv, PowerInv, ReaperInv, RisesFromReset
  <2> QED
    BY <2>1, <2>2 DEF IInv
<1>2. IInv /\ [Next]_vars => IInv'
  BY NextIInv
<1> QED
  BY <1>1, <1>2, PTL DEF Spec

-----------------------------------------------------------------------------
(* The properties *)

\* The counters of doButtons, the sit-down and the kill -9 keep to their ranges.
THEOREM TypeCorrect == Spec => []TypeOK
<1>1. IInv => TypeOK
  BY DEF IInv
<1> QED
  BY <1>1, Invariance, PTL

\* Motors that lost their power to limp or to `standing' have it back only after a
\* reset of the generator, or a new one, for every interleaving of presses, commands,
\* faults, exceptions and outages.
THEOREM Rises == Spec => []RisesFromReset
<1>1. IInv => RisesFromReset
  BY DEF IInv
<1> QED
  BY <1>1, Invariance, PTL

\* However long the sit-down is, a runswift that ends of itself has taken the power
\* away, unless its last tick was cut short.
THEOREM LeftPowerless == Spec => []EndsPowerless
<1>1. IInv => EndsPowerless
  BY DEF IInv, PowerInv, EndsPowerless
<1> QED
  BY <1>1, Invariance, PTL

\* A kill -9 that waits for more cycles than the sit-down has finds the robot seated,
\* and never the runswift that was started after it was sent.
THEOREM Reaped == Spec => ReapsTheSeated
<1>1. ASSUME IInv, reaper = KillSleep, pc # "off"
      PROVE  attemptingShutdown /\ (motors = "none" \/ cutShort)
  <2>1. reaper > 0 /\ reaper > sit_step
    BY <1>1, LoLAAssumption DEF IInv, TypeOK
  <2>2. attemptingShutdown /\ pc \in {"build", "over"}
    BY <1>1, <2>1, LoLAAssumption DEF IInv, ReaperInv, TypeOK
  <2> QED
    BY <1>1, <2>2 DEF IInv, PowerInv
<1>2. IInv => (reaper = KillSleep /\ reaper' = None /\ pc # "off"
                 => attemptingShutdown /\ (motors = "none" \/ cutShort))
  BY <1>1
<1> QED
  BY <1>2, Invariance, PTL DEF ReapsTheSeated, Spec

-----------------------------------------------------------------------------
(* The abstract specification *)

\* Each step of the Motion thread and of what is outside it is a step of Failsafe, or
\* none of its business.
LEMMA FailsafeStep ==
  ASSUME IInv, [Next]_vars
  PROVE  [Failsafe!Next]_Failsafe!vars
<1> USE DEF Failsafe!Next, Failsafe!vars, Ticking
<1>1. ASSUME NEW button \in BOOLEAN, Load(button)
      PROVE  [Failsafe!Next]_Failsafe!vars
  BY <1>1 DEF Load
<1>2. ASSUME NEW foot \in BOOLEAN, NEW falling \in BOOLEAN, Buttons(foot, falling)
      PROVE  [Failsafe!Next]_Failsafe!vars
  BY <1>2 DEF Buttons
<1>3. ASSUME NEW stiffen \in BOOLEAN, Actuate(stiffen)
      PROVE  [Failsafe!Next]_Failsafe!vars
  <2>0. /\ pc = "actuate" /\ pc' = "load" /\ motors # "seat"
        /\ motors' \in {motors, "none", "player"}
    BY <1>3 DEF Actuate, Tell, IInv, SeatInv
  <2>1. CASE motors' = "player"
    <3>1. Failsafe!Drive
      BY <2>0, <2>1 DEF Failsafe!Drive
    <3> QED
      BY <3>1, Zenon
  <2>2. CASE motors' = "none"
    <3>1. (motors' = "seat") = FALSE
      BY <2>2
    <3>2. (pc' \in Ticking) = (pc \in Ticking) /\ (pc # "off") = TRUE /\ (pc' # "off") = TRUE
      BY <2>0
    <3>3. Failsafe!Release
      BY <2>2, <3>1, <3>2, Zenon DEF Failsafe!Release
    <3> QED
      BY <3>3, Zenon
  <2>3. CASE motors' = motors
    BY <2>0, <2>3
  <2> QED
    BY <2>0, <2>1, <2>2, <2>3
<1>4. CASE Leave \/ Throw \/ Fault
  <2>1. Failsafe!LoseContact
    BY <1>4 DEF Leave, Throw, Fault, Faulting, Destroy, Failsafe!LoseContact
  <2> QED
    BY <2>1, Zenon
<1>5. CASE Sit
  <2>0. pc = "sit" /\ pc' \in {"sit", "build"} /\ motors' \in {motors, "none", "seat"}
    BY <1>5 DEF Sit, Tell
  <2>1. CASE motors' = "seat"
    <3>1. Failsafe!Seat
      BY <2>0, <2>1 DEF Failsafe!Seat
    <3> QED
      BY <3>1, Zenon
  <2>2. CASE motors' = "none"
    <3>1. (motors' = "seat") = FALSE
      BY <2>2
    <3>2. (pc' \in Ticking) = (pc \in Ticking) /\ (pc # "off") = TRUE /\ (pc' # "off") = TRUE
      BY <2>0
    <3>3. Failsafe!Release
      BY <2>2, <3>1, <3>2, Zenon DEF Failsafe!Release
    <3> QED
      BY <3>3, Zenon
  <2>3. CASE motors' = motors
    BY <2>0, <2>3
  <2> QED
    BY <2>0, <2>1, <2>2, <2>3
<1>6. CASE Build
  <2>0. pc = "build" /\ pc' \in {"load", "over"} /\ motors' = motors
    BY <1>6 DEF Build
  <2>1. CASE pc' = "load"
    <3>1. Failsafe!Hear
      BY <2>0, <2>1 DEF Failsafe!Hear
    <3> QED
      BY <3>1, Zenon
  <2>2. CASE pc' = "over"
    BY <2>0, <2>2
  <2> QED
    BY <2>0, <2>1, <2>2
<1>7. CASE Exit \/ Dies \/ (Reap /\ pc # "off")
  <2>1. Gone /\ pc # "off"
    BY <1>7 DEF Exit, Dies, Reap
  <2>2. (pc' # "off") = FALSE /\ (pc' \in Ticking) = FALSE /\ motors' = motors
    BY <2>1 DEF Gone
  <2>3. Failsafe!Stop
    BY <2>2, Zenon DEF Failsafe!Stop
  <2> QED
    BY <2>3, Zenon
<1>8. CASE (Reap /\ pc = "off") \/ TimePasses \/ Terminate \/ LolaStarts
  BY <1>8 DEF Reap, TimePasses, Terminate, LolaStarts
<1>9. CASE Start
  <2>1. Failsafe!Start
    BY <1>9 DEF Start, Failsafe!Start
  <2> QED
    BY <2>1, Zenon
<1>10. CASE LolaStops
  <2>1. Failsafe!Release
    BY <1>10 DEF LolaStops, Failsafe!Release
  <2> QED
    BY <2>1, Zenon
<1>11. CASE UNCHANGED vars
  BY <1>11 DEF vars
<1> QED
  BY <1>1, <1>2, <1>3, <1>4, <1>5, <1>6, <1>7, <1>8, <1>9, <1>10, <1>11 DEF Next, Motion

\* The V6's touch and effector implement what libagent promises of the motors: no
\* order of presses, exceptions, outages and restarts plays the joints from half-way
\* down.
THEOREM Implementation == Spec => ImplementsFailsafe
<1>1. Init => Failsafe!Init
  BY DEF Init, Failsafe!Init, Ticking
<1>2. IInv /\ [Next]_vars => [Failsafe!Next]_Failsafe!vars
  BY FailsafeStep
<1> QED
  BY <1>1, <1>2, Invariance, PTL DEF Spec, ImplementsFailsafe, Failsafe!Spec

-----------------------------------------------------------------------------

\* The Motion thread never gets stuck, a killall arrives, and main() comes to its end.
MotionReady  == pc \in Ticking \cup {"build", "sit"} => ENABLED <<Motion>>_vars
KillallReady == reaper # None /\ pc # "off" /\ ~attemptingShutdown => ENABLED <<Killall>>_vars
ExitReady    == pc = "over" => ENABLED <<Exit>>_vars

\* A runswift that was told to end is at p.
Ending(p) == attemptingShutdown /\ pc = p

Off == pc = "off"

\* Where a Motion thread that is to end goes: the tick's rest, perhaps the way down, the end.
EndOrder ==
  {<<"buttons", "actuate">>, <<"actuate", "load">>, <<"load", "sit">>, <<"load", "build">>,
   <<"sit", "sit">>, <<"sit", "build">>, <<"build", "over">>}

\* Nothing but the end of the process takes a shutdown back, and nothing but the Motion thread
\* moves it, save a fault or an exception, which do so towards its end.
LEMMA EndingMoves ==
  ASSUME NEW p \in Ticking \cup {"build", "sit", "over"}, Ending(p), [Next]_vars
  PROVE  /\ Motion => attemptingShutdown' /\ <<p, pc'>> \in EndOrder
         /\ Off' \/ (attemptingShutdown' /\ (<<p, pc'>> \in EndOrder \/ pc' = p
                                            \/ (p \in Ticking /\ pc' \in {"sit", "build"})))
         /\ pc' = p /\ ~Motion => sit_step' = sit_step
<1>1. CASE Motion
  BY <1>1 DEF Motion, Load, Buttons, Actuate, Leave, Destroy, Sit, Build, Restarts, Ending,
     EndOrder
<1>2. CASE ~Motion
  <2>1. Dies \/ Exit => Off'
    BY DEF Dies, Exit, Gone, Off
  <2>2. CASE ~(Dies \/ Exit)
    BY <1>2, <2>2 DEF Next, Throw, Destroy, Fault, Faulting, Terminate, Reap, Gone, TimePasses,
       Start, LolaStops, LolaStarts, Ending, Ticking, Off, vars
  <2>3. CASE Dies \/ Exit
    BY <1>2, <2>1, <2>3 DEF Off, Ticking
  <2> QED
    BY <2>2, <2>3
<1> QED
  BY <1>1, <1>2

\* A tick goes on from p to q, or is thrown out on the way down or past it, or is killed.
EndStage(p, q) ==
  Ending(p) =>
    /\ pc \in Ticking \cup {"build", "sit"}
    /\ [Next]_vars => Ending(p)' \/ Ending(q)' \/ Ending("sit")' \/ Ending("build")' \/ Off'
    /\ <<Motion>>_vars => Ending(q)' \/ Ending("sit")' \/ Ending("build")'

\* That is so of the three stages of a tick.
LEMMA EndStages ==
  EndStage("buttons", "actuate") /\ EndStage("actuate", "load") /\ EndStage("load", "sit")
<1>1. ASSUME NEW p \in Ticking, NEW q,
             \A to : <<p, to>> \in EndOrder => to \in {q, "sit", "build"}
      PROVE  EndStage(p, q)
  <2>1. p \in Ticking \cup {"build", "sit", "over"}
    BY DEF Ticking
  <2>2. ASSUME Ending(p), Motion, [Next]_vars
        PROVE  Ending(q)' \/ Ending("sit")' \/ Ending("build")'
    <3>1. attemptingShutdown' /\ <<p, pc'>> \in EndOrder
      BY <2>1, <2>2, EndingMoves
    <3> QED
      BY <1>1, <3>1 DEF Ending
  <2>3. ASSUME Ending(p), [Next]_vars, ~Off'
        PROVE  Ending(p)' \/ Ending(q)' \/ Ending("sit")' \/ Ending("build")'
    <3>1. /\ attemptingShutdown'
          /\ <<p, pc'>> \in EndOrder \/ pc' \in {p, "sit", "build"}
      BY <2>1, <2>3, EndingMoves
    <3> QED
      BY <1>1, <3>1 DEF Ending
  <2>4. Motion => [Next]_vars
    BY DEF Next
  <2> QED
    BY <2>2, <2>3, <2>4 DEF EndStage, Ending
<1>2. "buttons" \in Ticking /\ "actuate" \in Ticking /\ "load" \in Ticking
  BY DEF Ticking
<1> QED
  BY <1>1, <1>2 DEF EndOrder

\* The last two stages: nothing is left but to be joined, and then nothing is left.
LEMMA EndEnds ==
  /\ Ending("build") => pc \in Ticking \cup {"build", "sit"}
  /\ Ending("build") /\ [Next]_vars => Ending("build")' \/ Ending("over")' \/ Off'
  /\ Ending("build") /\ <<Motion>>_vars => Ending("over")'
  /\ Ending("over") => pc = "over"
  /\ Ending("over") /\ [Next]_vars => Ending("over")' \/ Off'
  /\ <<Exit>>_vars => Off'
<1>1. <<Exit>>_vars => Off'
  BY DEF Exit, Gone, Off
<1>2. ASSUME Ending("build"), [Next]_vars
      PROVE  Ending("build")' \/ Ending("over")' \/ Off'
  <2>1. Off' \/ (attemptingShutdown' /\ (<<"build", pc'>> \in EndOrder \/ pc' = "build"))
    BY <1>2, EndingMoves DEF Ticking
  <2> QED
    BY <2>1 DEF Ending, EndOrder
<1>3. ASSUME Ending("build"), Motion
      PROVE  Ending("over")'
  <2>1. attemptingShutdown' /\ <<"build", pc'>> \in EndOrder
    BY <1>3, EndingMoves DEF Next
  <2> QED
    BY <2>1 DEF Ending, EndOrder
<1>4. ASSUME Ending("over"), [Next]_vars
      PROVE  Ending("over")' \/ Off'
  <2>1. Off' \/ (attemptingShutdown' /\ (<<"over", pc'>> \in EndOrder \/ pc' = "over"))
    BY <1>4, EndingMoves DEF Ticking
  <2> QED
    BY <2>1 DEF Ending, EndOrder
<1> QED
  BY <1>1, <1>2, <1>3, <1>4 DEF Ending

\* The way down has come k steps.
Seated(k) == Ending("sit") /\ sit_step >= k

\* Each cycle of the destructor's loops is a step of the way down, or its end.
LEMMA SeatStage ==
  ASSUME NEW k \in 0..(SIT_MIDDLE_CYCLES + SIT_CYCLES), IInv, Seated(k)
  PROVE  /\ pc \in Ticking \cup {"build", "sit"}
         /\ [Next]_vars => Seated(k)' \/ Seated(k + 1)' \/ Ending("build")' \/ Off'
         /\ <<Motion>>_vars => Seated(k + 1)' \/ Ending("build")'
<1>1. pc = "sit" /\ Ending("sit")
  BY DEF Seated, Ending
<1>2. ASSUME Motion
      PROVE  Seated(k + 1)' \/ Ending("build")'
  <2>1. Sit
    BY <1>1, <1>2 DEF Motion, Load, Buttons, Actuate, Leave, Build
  <2>2. attemptingShutdown'
    BY <1>1, <2>1 DEF Sit, Ending
  <2>3. CASE SitEnds(sit_step)
    BY <2>1, <2>2, <2>3 DEF Sit, Ending
  <2>4. CASE ~SitEnds(sit_step)
    <3>1. pc' = "sit" /\ sit_step' = sit_step + 1
      BY <1>1, <2>1, <2>4 DEF Sit
    <3>2. sit_step + 1 >= k + 1
      BY LoLAAssumption DEF Seated, IInv, TypeOK
    <3> QED
      BY <2>2, <3>1, <3>2 DEF Seated, Ending
  <2> QED
    BY <2>3, <2>4
<1>3. ASSUME [Next]_vars, ~Motion
      PROVE  Seated(k)' \/ Ending("build")' \/ Off'
  BY <1>1, <1>3, EndingMoves DEF Seated, Ending, EndOrder, Ticking
<1> QED
  BY <1>1, <1>2, <1>3

\* A way down that is begun comes k steps, unless it is over before.
Sits(k) == Ending("sit") ~> Seated(k) \/ Ending("build") \/ Off

\* Each step leads to the next.
THEOREM SitsOn ==
  ASSUME NEW CONSTANT k \in 0..(SIT_MIDDLE_CYCLES + SIT_CYCLES)
  PROVE  Spec /\ []MotionReady => (Sits(k) => Sits(k + 1))
<1>1. IInv /\ Seated(k) => pc \in Ticking \cup {"build", "sit"}
  BY SeatStage
<1>2. IInv /\ Seated(k) /\ [Next]_vars => Seated(k)' \/ Seated(k + 1)' \/ Ending("build")' \/ Off'
  BY SeatStage
<1>3. IInv /\ Seated(k) /\ <<Motion>>_vars => Seated(k + 1)' \/ Ending("build")'
  BY SeatStage
<1> QED
  BY <1>1, <1>2, <1>3, Invariance, PTL DEF Spec, MotionReady, Sits

\* Induction over the steps of the way down: true of all behaviours, but not to be had from
\* the provers for a temporal formula.
SitInduction ==
  Sits(0) /\ (\A k \in 0..(SIT_MIDDLE_CYCLES + SIT_CYCLES) : Sits(k) => Sits(k + 1))
    => Sits(SIT_MIDDLE_CYCLES + SIT_CYCLES + 1)

\* A kill -9 that is due to a runswift stays due until it comes, or runswift is gone.
LEMMA ReaperStays ==
  ASSUME IInv, reaper # None, ~Off, [Next]_vars
  PROVE  (reaper # None)' \/ Off'
<1>0. reaper \in Nat
  BY DEF IInv, TypeOK, None
<1>1. CASE Motion
  <2>1. UNCHANGED reaper \/ Waits \/ reaper' = 0
    BY <1>0, <1>1 DEF Motion, Load, Buttons, Presses, DoublePress, TriplePress, Halt, Actuate, Leave,
       Destroy, Sit, Build, None
  <2> QED
    BY <1>0, <2>1 DEF Waits, None
<1>2. CASE Dies \/ Exit \/ Reap
  BY <1>2 DEF Dies, Exit, Reap, Gone, Off
<1>3. CASE ~(Motion \/ Dies \/ Exit \/ Reap)
  <2>1. UNCHANGED reaper \/ Waits
    BY <1>3 DEF Next, Throw, Destroy, Fault, Terminate, TimePasses, Start, LolaStops,
       LolaStarts, Off, vars
  <2> QED
    BY <1>0, <2>1 DEF Waits, None
<1> QED
  BY <1>1, <1>2, <1>3

\* Told to end, runswift ends, for every length of the way down, whatever is thrown and
\* wherever LoLA stops.
THEOREM Ended ==
  Spec /\ []MotionReady /\ []KillallReady /\ []ExitReady /\ SitInduction => Ends
<1>1. \A k \in 0..(SIT_MIDDLE_CYCLES + SIT_CYCLES) :
        Spec /\ []MotionReady => (Sits(k) => Sits(k + 1))
  BY SitsOn
<1>2. IInv => (Ending("sit") => Seated(0))
  BY LoLAAssumption DEF IInv, TypeOK, Seated
<1>3. Spec => Sits(0)
  BY <1>2, Invariance, PTL DEF Sits
<1>4. Spec /\ []MotionReady /\ SitInduction => Sits(SIT_MIDDLE_CYCLES + SIT_CYCLES + 1)
  BY <1>1, <1>3 DEF SitInduction
<1>5. IInv => ~Seated(SIT_MIDDLE_CYCLES + SIT_CYCLES + 1)
  BY LoLAAssumption DEF IInv, TypeOK, Seated
<1>6. IInv /\ attemptingShutdown =>
        \/ Ending("load") \/ Ending("buttons") \/ Ending("actuate") \/ Ending("sit")
        \/ Ending("build") \/ Ending("over") \/ Off
  BY DEF IInv, TypeOK, Ticking, Ending, Off
<1>7. IInv /\ reaper # None /\ ~Off /\ [Next]_vars => (reaper # None)' \/ Off'
  BY ReaperStays
<1>8. <<Killall>>_vars => attemptingShutdown'
  BY DEF Killall, Terminate
<1>9. Off <=> pc = "off"
  BY DEF Off
<1>10. pc # "off" <=> ~(pc = "off")
  OBVIOUS
<1> QED
  BY <1>4, <1>5, <1>6, <1>7, <1>8, <1>9, <1>10, EndStages, EndEnds, Invariance, PTL
     DEF Spec, MotionReady, KillallReady, ExitReady, EndStage, Sits, Ends

================================================================================
