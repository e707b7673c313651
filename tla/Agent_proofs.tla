----------------------------- MODULE Agent_proofs -----------------------------
(***************************************************************************)
(* libagent for every value of its counters' limits: types, the sit-down   *)
(* that always ends limp, torque only with a live player, and what becomes *)
(* of the robot whose player is gone and of the button that is held or let *)
(* go of.                                                                  *)
(*                                                                         *)
(* The liveness theorems suppose that a callback is enabled while naoqi is *)
(* up, CallbackReady, and induction over the cycles that are counted.      *)
(***************************************************************************)
EXTENDS Agent, TLAPS

\* A sit-down that owes a limp is under way, and the robot is not limp yet.
SitInv ==
  /\ mustLimp => sit_step >= 0 /\ ~limp
  /\ SitRunsToLimp

\* A player is at work only in a live process.
PlayerInv == Ticking => alive

\* The missed cycles keep pace with the cycles since the last P(); where they
\* lag behind, no player has done a P() and the motors are held without power.
ContactInv ==
  \/ sinceTake <= skipped_frames + 1 /\ (semaphore = 0 => sinceTake = 0)
  \/ ~Ticking /\ (limp \/ standing)
  \/ skipped_frames = MAX_SKIPS + 1 /\ semaphore = 1

\* Once it has shut down, the chest button's hold counter stays out of reach.
HaltInv == HaltsOnce /\ (halts > 0 => chest_down = Halted)

\* At its second store the effector takes down what its first one put up, and a `standing' that
\* faces limp is of that kind.
StandInv ==
  /\ playerPc = "toggle" /\ stray => kill_standing
  /\ StandingNotLimp

IInv ==
  /\ TypeOK
  /\ SitInv
  /\ PlayerInv
  /\ ContactInv /\ TorqueNeedsContact
  /\ HaltInv
  /\ StandInv

USE DEF bodyVars, buttonVars, playerVars, standVars, Halted, MaxPresses, Ticking

Bools(l, m, st, a, k, sy) ==
  /\ l \in BOOLEAN /\ m \in BOOLEAN /\ st \in BOOLEAN
  /\ a \in BOOLEAN /\ k \in BOOLEAN /\ sy \in BOOLEAN

-----------------------------------------------------------------------------

\* A saturating counter keeps to its range, counted up or not.
LEMMA SaturateType ==
  ASSUME NEW bound \in Nat, NEW n \in 0..(bound + 1)
  PROVE  Saturate(n, bound) \in 0..(bound + 1) /\ Saturate(n + 1, bound) \in 0..(bound + 1)
  BY DEF Saturate

\* The flags stay Boolean.
LEMMA BoolStep ==
  ASSUME TypeOK, [Next]_vars
  PROVE  Bools(limp, mustLimp, standing, alive, kill_standing, stray)'
<1>0. Bools(limp, mustLimp, standing, alive, kill_standing, stray)
  BY DEF TypeOK, Bools
<1> USE DEF Bools, Killed, Dies
<1>1. CASE PreCallback
  BY <1>0, <1>1, Zenon DEF PreCallback, Powerless, Driven, SitDown, SitEnd, SitEndLimp
<1>2. ASSUME NEW foot \in BOOLEAN, Presses(foot)
      PROVE  Bools(limp, mustLimp, standing, alive, kill_standing, stray)'
  BY <1>0, <1>2, Zenon DEF Presses, DoublePress, TriplePress, OtherPresses,
                           StandingAfterDoublePress
<1>3. ASSUME NEW pressed \in BOOLEAN, HoldAndCount(pressed)
      PROVE  Bools(limp, mustLimp, standing, alive, kill_standing, stray)'
  BY <1>0, <1>3, Zenon DEF HoldAndCount
<1>4. ASSUME NEW pads \in SUBSET {"front", "middle", "rear"}, NEW late \in BOOLEAN,
             TouchAndStiffen(pads, late)
      PROVE  Bools(limp, mustLimp, standing, alive, kill_standing, stray)'
  BY <1>0, <1>4, Zenon DEF TouchAndStiffen, HeadTouch, DoStiffen
<1>5. CASE Semaphore
  BY <1>0, <1>5, Zenon DEF Semaphore
<1>6. CASE AgentStarts
  BY <1>0, <1>6, Zenon DEF AgentStarts
<1>7. CASE PlayerTakes
  BY <1>0, <1>7, Zenon DEF PlayerTakes
<1>8. CASE PlayerDies
  BY <1>0, <1>8, Zenon DEF PlayerDies
<1>9. ASSUME NEW command \in {"NONE", "STIFFEN"}, PlayerActuates(command)
      PROVE  Bools(limp, mustLimp, standing, alive, kill_standing, stray)'
  BY <1>0, <1>9, Zenon DEF PlayerActuates
<1>10. CASE UNCHANGED vars
  BY <1>0, <1>10, Zenon DEF vars
<1>11. CASE StoreKillStanding
  BY <1>0, <1>11, Zenon DEF StoreKillStanding
<1>12. CASE ToggleKillStanding
  BY <1>0, <1>12, Zenon DEF ToggleKillStanding, StandingAfterToggle
<1>13. CASE MotionRestarts
  BY <1>0, <1>13, Zenon DEF MotionRestarts
<1> QED
  BY <1>1, <1>2, <1>3, <1>4, <1>5, <1>6, <1>7, <1>8, <1>9, <1>10, <1>11, <1>12, <1>13
     DEF Next, Callback

Stacks == {<<>>, <<"front">>, <<"rear">>, <<"front", "middle">>, <<"rear", "middle">>}

\* The head stack only ever holds the beginning of a stroke.
LEMMA StackStep ==
  ASSUME head_press_stack \in Stacks,
         NEW pads \in SUBSET {"front", "middle", "rear"}, NEW late \in BOOLEAN,
         HeadTouch(pads, late)
  PROVE  head_press_stack' \in Stacks
<1> DEFINE stack == IF late THEN <<>> ELSE head_press_stack
<1>1. stack \in Stacks
  BY DEF Stacks
<1>2. FirstTouch(pads) # {} =>
        (CHOOSE p \in FirstTouch(pads) : TRUE) \in {"front", "rear"}
  BY DEF FirstTouch
<1>3. stack = <<>> /\ FirstTouch(pads) # {} =>
        <<CHOOSE p \in FirstTouch(pads) : TRUE>> \in Stacks
  BY <1>2 DEF Stacks
<1>4. Len(stack) = 1 => <<stack[1], "middle">> \in Stacks
  <2>1. Len(stack) = 1 => stack = <<"front">> \/ stack = <<"rear">>
    BY <1>1 DEF Stacks
  <2>2. Len(stack) = 1 => stack[1] \in {"front", "rear"}
    BY <2>1
  <2> QED
    BY <2>2 DEF Stacks
<1>5. <<>> \in Stacks
  BY DEF Stacks
<1> QED
  BY <1>1, <1>3, <1>4, <1>5 DEF HeadTouch

-----------------------------------------------------------------------------

\* What is typed beside the flags, in two parts.
Counters(ss, sf, cd, cu, cp, tk, h) ==
  /\ ss \in -1..(Crouch + Settle) /\ sf \in 0..(MAX_SKIPS + 1)
  /\ cd \in Halted..(Hold + 1) /\ cu \in 0..(MAX_CLICK_INTERVAL + 1)
  /\ cp \in 0..MaxPresses /\ tk \in 0..(MAX_SKIPS + 2) /\ h \in 0..2

Modes(stack, ph, pl, tq, stf, sem) ==
  /\ stack \in Stacks
  /\ ph \in {"pre", "presses", "hold", "touch", "semaphore", "down"}
  /\ pl \in {"wait", "actuate", "standing", "toggle"}
  /\ tq \in {"none", "player", "full", "soft"}
  /\ stf \in {"NONE", "STIFFEN"} /\ sem \in 0..1

\* TypeOK is the three parts together.
LEMMA TypeParts ==
  TypeOK <=> /\ Bools(limp, mustLimp, standing, alive, kill_standing, stray)
             /\ Counters(sit_step, skipped_frames, chest_down, chest_up, chest_presses,
                         sinceTake, halts)
             /\ Modes(head_press_stack, phase, playerPc, torque, stiffen, semaphore)
  BY DEF TypeOK, Bools, Counters, Modes, Stacks

\* Every counter stays within its bound.
LEMMA CounterStep ==
  ASSUME TypeOK, [Next]_vars
  PROVE  Counters(sit_step, skipped_frames, chest_down, chest_up, chest_presses,
                  sinceTake, halts)'
<1>0. Counters(sit_step, skipped_frames, chest_down, chest_up, chest_presses, sinceTake, halts)
  BY TypeParts
<1> USE AgentAssumption DEF Counters
<1>1. CASE PreCallback
  BY <1>0, <1>1 DEF PreCallback, Powerless, Driven, SitDown, SitEnd
<1>2. ASSUME NEW foot \in BOOLEAN, Presses(foot)
      PROVE  Counters(sit_step, skipped_frames, chest_down, chest_up, chest_presses,
                      sinceTake, halts)'
  BY <1>0, <1>2 DEF Presses, DoublePress, TriplePress, OtherPresses
<1>3. ASSUME NEW pressed \in BOOLEAN, HoldAndCount(pressed)
      PROVE  Counters(sit_step, skipped_frames, chest_down, chest_up, chest_presses,
                      sinceTake, halts)'
  BY <1>0, <1>3 DEF HoldAndCount, Saturate, ChestAfterHalt, ChestUpReleased
<1>4. ASSUME NEW pads \in SUBSET {"front", "middle", "rear"}, NEW late \in BOOLEAN,
             TouchAndStiffen(pads, late)
      PROVE  Counters(sit_step, skipped_frames, chest_down, chest_up, chest_presses,
                      sinceTake, halts)'
  BY <1>0, <1>4 DEF TouchAndStiffen
<1>5. CASE Semaphore
  BY <1>0, <1>5 DEF Semaphore, SkippedAfter, Saturate
<1>6. CASE AgentStarts
  BY <1>0, <1>6 DEF AgentStarts
<1>7. CASE PlayerTakes
  BY <1>0, <1>7 DEF PlayerTakes
<1>8. CASE PlayerDies
  BY <1>0, <1>8 DEF PlayerDies
<1>9. ASSUME NEW command \in {"NONE", "STIFFEN"}, PlayerActuates(command)
      PROVE  Counters(sit_step, skipped_frames, chest_down, chest_up, chest_presses,
                      sinceTake, halts)'
  BY <1>0, <1>9 DEF PlayerActuates
<1>10. CASE UNCHANGED vars
  BY <1>0, <1>10 DEF vars
<1>11. CASE StoreKillStanding
  BY <1>0, <1>11 DEF StoreKillStanding
<1>12. CASE ToggleKillStanding
  BY <1>0, <1>12 DEF ToggleKillStanding, StandingAfterToggle
<1>13. CASE MotionRestarts
  BY <1>0, <1>13 DEF MotionRestarts
<1> QED
  BY <1>1, <1>2, <1>3, <1>4, <1>5, <1>6, <1>7, <1>8, <1>9, <1>10, <1>11, <1>12, <1>13
     DEF Next, Callback

\* Every mode stays one of those the code knows.
LEMMA ModeStep ==
  ASSUME TypeOK, [Next]_vars
  PROVE  Modes(head_press_stack, phase, playerPc, torque, stiffen, semaphore)'
<1>0. Modes(head_press_stack, phase, playerPc, torque, stiffen, semaphore)
  BY TypeParts
<1> USE DEF Modes, Killed, Dies
<1>1. CASE PreCallback
  BY <1>0, <1>1 DEF PreCallback, Powerless, Driven, SitDown, SitEnd
<1>2. ASSUME NEW foot \in BOOLEAN, Presses(foot)
      PROVE  Modes(head_press_stack, phase, playerPc, torque, stiffen, semaphore)'
  BY <1>0, <1>2 DEF Presses, DoublePress, TriplePress, OtherPresses
<1>3. ASSUME NEW pressed \in BOOLEAN, HoldAndCount(pressed)
      PROVE  Modes(head_press_stack, phase, playerPc, torque, stiffen, semaphore)'
  BY <1>0, <1>3 DEF HoldAndCount
<1>4. ASSUME NEW pads \in SUBSET {"front", "middle", "rear"}, NEW late \in BOOLEAN,
             TouchAndStiffen(pads, late)
      PROVE  Modes(head_press_stack, phase, playerPc, torque, stiffen, semaphore)'
  <2>1. head_press_stack' \in Stacks
    BY <1>0, <1>4, StackStep DEF TouchAndStiffen
  <2>2. playerPc' = playerPc \/ playerPc' = "wait"
    BY <1>4 DEF TouchAndStiffen, HeadTouch
  <2> QED
    BY <1>0, <1>4, <2>1, <2>2 DEF TouchAndStiffen, DoStiffen
<1>5. CASE Semaphore
  BY <1>0, <1>5 DEF Semaphore
<1>6. CASE AgentStarts
  <2>1. <<>> \in Stacks
    BY DEF Stacks
  <2> QED
    BY <1>0, <1>6, <2>1 DEF AgentStarts
<1>7. CASE PlayerTakes
  BY <1>0, <1>7 DEF PlayerTakes
<1>8. CASE PlayerDies
  BY <1>0, <1>8 DEF PlayerDies
<1>9. ASSUME NEW command \in {"NONE", "STIFFEN"}, PlayerActuates(command)
      PROVE  Modes(head_press_stack, phase, playerPc, torque, stiffen, semaphore)'
  BY <1>0, <1>9 DEF PlayerActuates
<1>10. CASE UNCHANGED vars
  BY <1>0, <1>10 DEF vars
<1>11. CASE StoreKillStanding
  BY <1>0, <1>11 DEF StoreKillStanding
<1>12. CASE ToggleKillStanding
  BY <1>0, <1>12 DEF ToggleKillStanding, StandingAfterToggle
<1>13. CASE MotionRestarts
  BY <1>0, <1>13 DEF MotionRestarts
<1> QED
  BY <1>1, <1>2, <1>3, <1>4, <1>5, <1>6, <1>7, <1>8, <1>9, <1>10, <1>11, <1>12, <1>13
     DEF Next, Callback

-----------------------------------------------------------------------------

\* A sit-down that has begun goes on, or ends limp.
LEMMA SitStep ==
  ASSUME TypeOK, SitInv, [Next]_vars
  PROVE  SitInv'
<1> USE AgentAssumption DEF TypeOK, SitInv, SitRunsToLimp
<1>1. CASE PreCallback
  BY <1>1 DEF PreCallback, Powerless, Driven, SitDown, SitEnd, SitEndLimp, PlayerDrives
<1>2. ASSUME NEW foot \in BOOLEAN, Presses(foot)
      PROVE  SitInv'
  BY <1>2 DEF Presses, DoublePress, TriplePress, OtherPresses,
              StandingAfterDoublePress, Killed, Dies
<1>3. ASSUME NEW pressed \in BOOLEAN, HoldAndCount(pressed)
      PROVE  SitInv'
  BY <1>3 DEF HoldAndCount, Killed, Dies
<1>4. ASSUME NEW pads \in SUBSET {"front", "middle", "rear"}, NEW late \in BOOLEAN,
             TouchAndStiffen(pads, late)
      PROVE  SitInv'
  BY <1>4 DEF TouchAndStiffen, HeadTouch, DoStiffen, Killed, Dies
<1>5. CASE Semaphore
  BY <1>5 DEF Semaphore, Saturate
<1>6. CASE AgentStarts
  BY <1>6 DEF AgentStarts
<1>7. CASE PlayerTakes
  BY <1>7 DEF PlayerTakes
<1>8. CASE PlayerDies
  BY <1>8 DEF PlayerDies, Dies
<1>9. ASSUME NEW command \in {"NONE", "STIFFEN"}, PlayerActuates(command)
      PROVE  SitInv'
  BY <1>9 DEF PlayerActuates
<1>10. CASE UNCHANGED vars
  BY <1>10 DEF vars
<1>11. CASE StoreKillStanding
  BY <1>11 DEF StoreKillStanding
<1>12. CASE ToggleKillStanding
  BY <1>12 DEF ToggleKillStanding, StandingAfterToggle
<1>13. CASE MotionRestarts
  BY <1>13 DEF MotionRestarts
<1> QED
  BY <1>1, <1>2, <1>3, <1>4, <1>5, <1>6, <1>7, <1>8, <1>9, <1>10, <1>11, <1>12, <1>13
     DEF Next, Callback

\* Whatever ends the player ends its Motion thread.
LEMMA PlayerStep ==
  ASSUME TypeOK, PlayerInv, [Next]_vars
  PROVE  PlayerInv'
<1> USE AgentAssumption DEF TypeOK, PlayerInv
<1>1. CASE PreCallback
  BY <1>1 DEF PreCallback, Powerless, Driven, SitDown, SitEnd, SitEndLimp, PlayerDrives
<1>2. ASSUME NEW foot \in BOOLEAN, Presses(foot)
      PROVE  PlayerInv'
  BY <1>2 DEF Presses, DoublePress, TriplePress, OtherPresses,
              StandingAfterDoublePress, Killed, Dies
<1>3. ASSUME NEW pressed \in BOOLEAN, HoldAndCount(pressed)
      PROVE  PlayerInv'
  BY <1>3 DEF HoldAndCount, Killed, Dies
<1>4. ASSUME NEW pads \in SUBSET {"front", "middle", "rear"}, NEW late \in BOOLEAN,
             TouchAndStiffen(pads, late)
      PROVE  PlayerInv'
  BY <1>4 DEF TouchAndStiffen, HeadTouch, DoStiffen, Killed, Dies
<1>5. CASE Semaphore
  BY <1>5 DEF Semaphore, Saturate
<1>6. CASE AgentStarts
  BY <1>6 DEF AgentStarts
<1>7. CASE PlayerTakes
  BY <1>7 DEF PlayerTakes
<1>8. CASE PlayerDies
  BY <1>8 DEF PlayerDies, Dies
<1>9. ASSUME NEW command \in {"NONE", "STIFFEN"}, PlayerActuates(command)
      PROVE  PlayerInv'
  BY <1>9 DEF PlayerActuates
<1>10. CASE UNCHANGED vars
  BY <1>10 DEF vars
<1>11. CASE StoreKillStanding
  BY <1>11 DEF StoreKillStanding
<1>12. CASE ToggleKillStanding
  BY <1>12 DEF ToggleKillStanding, StandingAfterToggle
<1>13. CASE MotionRestarts
  BY <1>13 DEF MotionRestarts
<1> QED
  BY <1>1, <1>2, <1>3, <1>4, <1>5, <1>6, <1>7, <1>8, <1>9, <1>10, <1>11, <1>12, <1>13
     DEF Next, Callback

\* Every step keeps the count of missed cycles level with the cycles missed.
LEMMA ContactStep ==
  ASSUME TypeOK, PlayerInv, ContactInv, [Next]_vars
  PROVE  ContactInv'
<1> USE AgentAssumption DEF TypeOK, PlayerInv, ContactInv
<1>1. CASE PreCallback
  BY <1>1 DEF PreCallback, Powerless, Driven, SitDown, SitEnd, SitEndLimp, PlayerDrives
<1>2. ASSUME NEW foot \in BOOLEAN, Presses(foot)
      PROVE  ContactInv'
  BY <1>2 DEF Presses, DoublePress, TriplePress, OtherPresses,
              StandingAfterDoublePress, Killed, Dies
<1>3. ASSUME NEW pressed \in BOOLEAN, HoldAndCount(pressed)
      PROVE  ContactInv'
  BY <1>3 DEF HoldAndCount, Killed, Dies
<1>4. ASSUME NEW pads \in SUBSET {"front", "middle", "rear"}, NEW late \in BOOLEAN,
             TouchAndStiffen(pads, late)
      PROVE  ContactInv'
  BY <1>4 DEF TouchAndStiffen, HeadTouch, DoStiffen, Killed, Dies
<1>5. CASE Semaphore
  BY <1>5 DEF Semaphore, SkippedAfter, Saturate
<1>6. CASE AgentStarts
  BY <1>6 DEF AgentStarts
<1>7. CASE PlayerTakes
  BY <1>7 DEF PlayerTakes
<1>8. CASE PlayerDies
  BY <1>8 DEF PlayerDies, Dies
<1>9. ASSUME NEW command \in {"NONE", "STIFFEN"}, PlayerActuates(command)
      PROVE  ContactInv'
  BY <1>9 DEF PlayerActuates
<1>10. CASE UNCHANGED vars
  BY <1>10 DEF vars
<1>11. CASE StoreKillStanding
  BY <1>11 DEF StoreKillStanding
<1>12. CASE ToggleKillStanding
  BY <1>12 DEF ToggleKillStanding, StandingAfterToggle
<1>13. CASE MotionRestarts
  BY <1>13 DEF MotionRestarts
<1> QED
  BY <1>1, <1>2, <1>3, <1>4, <1>5, <1>6, <1>7, <1>8, <1>9, <1>10, <1>11, <1>12, <1>13
     DEF Next, Callback

\* The joints are handed to the player only by a count that has kept up.
LEMMA TorqueStep ==
  ASSUME TypeOK, ContactInv, TorqueNeedsContact, [Next]_vars
  PROVE  TorqueNeedsContact'
<1> USE AgentAssumption DEF TypeOK, ContactInv, TorqueNeedsContact
<1>1. CASE PreCallback
  BY <1>1 DEF PreCallback, Powerless, Driven, SitDown, SitEnd, SitEndLimp, PlayerDrives
<1>2. ASSUME NEW foot \in BOOLEAN, Presses(foot)
      PROVE  TorqueNeedsContact'
  BY <1>2 DEF Presses, DoublePress, TriplePress, OtherPresses,
              StandingAfterDoublePress, Killed, Dies
<1>3. ASSUME NEW pressed \in BOOLEAN, HoldAndCount(pressed)
      PROVE  TorqueNeedsContact'
  BY <1>3 DEF HoldAndCount, Killed, Dies
<1>4. ASSUME NEW pads \in SUBSET {"front", "middle", "rear"}, NEW late \in BOOLEAN,
             TouchAndStiffen(pads, late)
      PROVE  TorqueNeedsContact'
  BY <1>4 DEF TouchAndStiffen, HeadTouch, DoStiffen, Killed, Dies
<1>5. CASE Semaphore
  BY <1>5 DEF Semaphore, Saturate
<1>6. CASE AgentStarts
  BY <1>6 DEF AgentStarts
<1>7. CASE PlayerTakes
  BY <1>7 DEF PlayerTakes
<1>8. CASE PlayerDies
  BY <1>8 DEF PlayerDies, Dies
<1>9. ASSUME NEW command \in {"NONE", "STIFFEN"}, PlayerActuates(command)
      PROVE  TorqueNeedsContact'
  BY <1>9 DEF PlayerActuates
<1>10. CASE UNCHANGED vars
  BY <1>10 DEF vars
<1>11. CASE StoreKillStanding
  BY <1>11 DEF StoreKillStanding
<1>12. CASE ToggleKillStanding
  BY <1>12 DEF ToggleKillStanding, StandingAfterToggle
<1>13. CASE MotionRestarts
  BY <1>13 DEF MotionRestarts
<1> QED
  BY <1>1, <1>2, <1>3, <1>4, <1>5, <1>6, <1>7, <1>8, <1>9, <1>10, <1>11, <1>12, <1>13
     DEF Next, Callback

\* A shutdown leaves the hold counter where no length of press can reach it.
LEMMA HaltStep ==
  ASSUME TypeOK, HaltInv, [Next]_vars
  PROVE  HaltInv'
<1> USE AgentAssumption DEF TypeOK, HaltInv, HaltsOnce
<1>1. CASE PreCallback
  BY <1>1 DEF PreCallback, Powerless, Driven, SitDown, SitEnd, SitEndLimp, PlayerDrives
<1>2. ASSUME NEW foot \in BOOLEAN, Presses(foot)
      PROVE  HaltInv'
  BY <1>2 DEF Presses, DoublePress, TriplePress, OtherPresses,
              StandingAfterDoublePress, Killed, Dies
<1>3. ASSUME NEW pressed \in BOOLEAN, HoldAndCount(pressed)
      PROVE  HaltInv'
  BY <1>3 DEF HoldAndCount, Saturate, ChestAfterHalt
<1>4. ASSUME NEW pads \in SUBSET {"front", "middle", "rear"}, NEW late \in BOOLEAN,
             TouchAndStiffen(pads, late)
      PROVE  HaltInv'
  BY <1>4 DEF TouchAndStiffen, HeadTouch, DoStiffen, Killed, Dies
<1>5. CASE Semaphore
  BY <1>5 DEF Semaphore, Saturate
<1>6. CASE AgentStarts
  BY <1>6 DEF AgentStarts
<1>7. CASE PlayerTakes
  BY <1>7 DEF PlayerTakes
<1>8. CASE PlayerDies
  BY <1>8 DEF PlayerDies, Dies
<1>9. ASSUME NEW command \in {"NONE", "STIFFEN"}, PlayerActuates(command)
      PROVE  HaltInv'
  BY <1>9 DEF PlayerActuates
<1>10. CASE UNCHANGED vars
  BY <1>10 DEF vars
<1>11. CASE StoreKillStanding
  BY <1>11 DEF StoreKillStanding
<1>12. CASE ToggleKillStanding
  BY <1>12 DEF ToggleKillStanding, StandingAfterToggle
<1>13. CASE MotionRestarts
  BY <1>13 DEF MotionRestarts
<1> QED
  BY <1>1, <1>2, <1>3, <1>4, <1>5, <1>6, <1>7, <1>8, <1>9, <1>10, <1>11, <1>12, <1>13
     DEF Next, Callback

\* Whatever asks the robot to stand clears limp, and whatever sets limp has no request to
\* face, save for the shutdown; what the effector stores itself it takes down.
LEMMA StandingStep ==
  ASSUME TypeOK, HaltInv, StandInv, [Next]_vars
  PROVE  StandInv'
<1> USE AgentAssumption DEF TypeOK, HaltInv, HaltsOnce, StandInv, StandingNotLimp
<1>1. CASE PreCallback
  BY <1>1 DEF PreCallback, Powerless, Driven, SitDown, SitEnd, SitEndLimp, PlayerDrives
<1>2. ASSUME NEW foot \in BOOLEAN, Presses(foot)
      PROVE  StandInv'
  BY <1>2 DEF Presses, DoublePress, TriplePress, OtherPresses,
              StandingAfterDoublePress, Killed, Dies
<1>3. ASSUME NEW pressed \in BOOLEAN, HoldAndCount(pressed)
      PROVE  StandInv'
  BY <1>3 DEF HoldAndCount, Saturate, Killed, Dies
<1>4. ASSUME NEW pads \in SUBSET {"front", "middle", "rear"}, NEW late \in BOOLEAN,
             TouchAndStiffen(pads, late)
      PROVE  StandInv'
  BY <1>4 DEF TouchAndStiffen, HeadTouch, DoStiffen, Killed, Dies
<1>5. CASE Semaphore
  BY <1>5 DEF Semaphore, Saturate
<1>6. CASE AgentStarts
  BY <1>6 DEF AgentStarts
<1>7. CASE PlayerTakes
  BY <1>7 DEF PlayerTakes
<1>8. CASE PlayerDies
  BY <1>8 DEF PlayerDies, Dies
<1>9. ASSUME NEW command \in {"NONE", "STIFFEN"}, PlayerActuates(command)
      PROVE  StandInv'
  BY <1>9 DEF PlayerActuates
<1>10. CASE UNCHANGED vars
  BY <1>10 DEF vars
<1>11. CASE StoreKillStanding
  BY <1>11 DEF StoreKillStanding
<1>12. CASE ToggleKillStanding
  BY <1>12 DEF ToggleKillStanding, StandingAfterToggle
<1>13. CASE MotionRestarts
  BY <1>13 DEF MotionRestarts
<1> QED
  BY <1>1, <1>2, <1>3, <1>4, <1>5, <1>6, <1>7, <1>8, <1>9, <1>10, <1>11, <1>12, <1>13
     DEF Next, Callback

-----------------------------------------------------------------------------

\* The constructor establishes the invariant.
LEMMA InitIInv ==
  ASSUME Init
  PROVE  IInv
<1> USE AgentAssumption DEF Init
<1>1. Bools(limp, mustLimp, standing, alive, kill_standing, stray)
  BY Zenon DEF Bools
<1>2. Counters(sit_step, skipped_frames, chest_down, chest_up, chest_presses, sinceTake, halts)
  BY DEF Counters
<1>3. Modes(head_press_stack, phase, playerPc, torque, stiffen, semaphore)
  BY DEF Modes, Stacks
<1> QED
  BY <1>1, <1>2, <1>3, TypeParts
     DEF IInv, SitInv, SitRunsToLimp, PlayerInv, ContactInv, TorqueNeedsContact, HaltInv, HaltsOnce,
         StandInv, StandingNotLimp

\* Every step of the callbacks and of the player keeps it.
LEMMA NextIInv ==
  ASSUME IInv, [Next]_vars
  PROVE  IInv'
<1>1. TypeOK'
  <2>1. TypeOK
    BY DEF IInv
  <2>2. Bools(limp, mustLimp, standing, alive, kill_standing, stray)'
    BY <2>1, BoolStep
  <2>3. Counters(sit_step, skipped_frames, chest_down, chest_up, chest_presses,
                 sinceTake, halts)'
    BY <2>1, CounterStep
  <2>4. Modes(head_press_stack, phase, playerPc, torque, stiffen, semaphore)'
    BY <2>1, ModeStep
  <2> QED
    BY <2>2, <2>3, <2>4 DEF TypeOK, Bools, Counters, Modes, Stacks
<1> QED
  BY <1>1, SitStep, PlayerStep, ContactStep, TorqueStep, HaltStep, StandingStep
     DEF IInv

\* IInv holds throughout every behaviour.
THEOREM Invariance == Spec => []IInv
<1>1. Init => IInv
  BY InitIInv
<1>2. IInv /\ [Next]_vars => IInv'
  BY NextIInv
<1> QED
  BY <1>1, <1>2, PTL DEF Spec

\* libagent's counters, flags and head stack keep to their ranges: the stack is
\* always the beginning of a stroke over the head (doHeadTouch).
THEOREM TypeCorrect == Spec => []TypeOK
<1>1. IInv => TypeOK
  BY DEF IInv
<1> QED
  BY <1>1, Invariance, PTL

\* After a lost contact preCallback plays no joints of the player's before the
\* robot has been limp, for every length of the sit-down.
THEOREM SitDownEndsLimp == Spec => []SitRunsToLimp
<1>1. IInv => SitRunsToLimp
  BY DEF IInv, SitInv
<1> QED
  BY <1>1, Invariance, PTL

\* Whenever preCallback has handed the joints to the player, the player has taken
\* a sample within the last MAX_SKIPS cycles, for every MAX_SKIPS.
THEOREM TorqueOnlyInContact == Spec => []TorqueNeedsContact
<1>1. IInv => TorqueNeedsContact
  BY DEF IInv
<1> QED
  BY <1>1, Invariance, PTL

\* libagent runs /sbin/halt at most once between two starts of naoqi, for every
\* hold time (the comment of doButtons).
THEOREM OneShutdown == Spec => []HaltsOnce
<1>1. IInv => HaltsOnce
  BY DEF IInv, HaltInv
<1> QED
  BY <1>1, Invariance, PTL

\* Before a shutdown no press, stiffen command, stroke, death or fault leaves a limp robot
\* told to stand, for every value of the limits: `standing' then comes of an actuate that is
\* between its two stores (AgentEffector.cpp), or was cut short there.
THEOREM StandingWithPower == Spec => []StandingNotLimp
<1>1. IInv => StandingNotLimp
  BY DEF IInv, StandInv
<1> QED
  BY <1>1, Invariance, PTL

-----------------------------------------------------------------------------

\* Each step of the callbacks and of the player is a step of Failsafe, or none of
\* its business.
LEMMA FailsafeStep ==
  ASSUME IInv, [Next]_vars
  PROVE  [Failsafe!Next]_Failsafe!vars
<1> USE DEF Failsafe!Next, Failsafe!vars
<1>0. TypeOK /\ SitInv /\ TorqueNeedsContact'
  BY NextIInv DEF IInv
<1>1. CASE PreCallback
  <2>0. phase = "pre" /\ phase' = "presses" /\ sinceTake' = sinceTake
    BY <1>1 DEF PreCallback
  <2>1. CASE Powerless
    <3>1. Failsafe!Release
      BY <2>0, <2>1, Zenon DEF Powerless, Failsafe!Release
    <3> QED
      BY <3>1, Zenon
  <2>2. CASE Driven
    <3>1. mustLimp = FALSE
      BY <1>0, <2>2 DEF Driven, PlayerDrives, SitInv, TypeOK
    <3>2. sinceTake <= MAX_SKIPS + 1
      BY <1>0, <2>0, <2>2 DEF Driven, TorqueNeedsContact
    <3>3. Failsafe!Drive
      BY <2>0, <2>2, <3>1, <3>2 DEF Driven, Failsafe!Drive
    <3> QED
      BY <3>3, Zenon
  <2>3. CASE SitDown
    <3>1. Failsafe!Seat
      BY <2>0, <2>3 DEF SitDown, Failsafe!Seat
    <3> QED
      BY <3>1, Zenon
  <2>4. CASE SitEnd
    <3>1. Failsafe!Release
      BY <2>0, <2>4 DEF SitEnd, SitEndLimp, Failsafe!Release
    <3> QED
      BY <3>1, Zenon
  <2> QED
    BY <1>1, <2>1, <2>2, <2>3, <2>4 DEF PreCallback
<1>2. ASSUME NEW foot \in BOOLEAN, Presses(foot)
      PROVE  [Failsafe!Next]_Failsafe!vars
  <2>0. phase = "presses" /\ torque' = torque /\ sinceTake' = sinceTake
    BY <1>2 DEF Presses
  <2>1. CASE phase' = "down"
    <3>1. mustLimp' = mustLimp
      BY <1>2, <2>1 DEF Presses, DoublePress, TriplePress, OtherPresses
    <3>2. Failsafe!Stop
      BY <2>0, <2>1, <3>1 DEF Failsafe!Stop
    <3> QED
      BY <3>2, Zenon
  <2>2. CASE phase' # "down"
    <3>1. mustLimp' = mustLimp \/ mustLimp' = FALSE
      BY <1>0, <1>2 DEF Presses, DoublePress, TriplePress, OtherPresses, TypeOK
    <3>2. CASE mustLimp' = mustLimp
      BY <2>0, <2>2, <3>2
    <3>3. CASE mustLimp' = FALSE
      <4>1. Failsafe!GoLimp
        BY <2>0, <2>2, <3>3 DEF Failsafe!GoLimp
      <4> QED
        BY <4>1, Zenon
    <3> QED
      BY <3>1, <3>2, <3>3
  <2> QED
    BY <2>1, <2>2
<1>3. ASSUME NEW pressed \in BOOLEAN, HoldAndCount(pressed)
      PROVE  [Failsafe!Next]_Failsafe!vars
  <2>0. /\ phase = "hold" /\ phase' = "touch" /\ torque' = torque /\ sinceTake' = sinceTake
        /\ mustLimp' = mustLimp \/ mustLimp' = FALSE
    BY <1>3 DEF HoldAndCount
  <2>1. CASE mustLimp' = mustLimp
    BY <2>0, <2>1
  <2>2. CASE mustLimp' = FALSE
    <3>1. Failsafe!GoLimp
      BY <2>0, <2>2 DEF Failsafe!GoLimp
    <3> QED
      BY <3>1, Zenon
  <2> QED
    BY <2>0, <2>1, <2>2
<1>4. ASSUME NEW pads \in SUBSET {"front", "middle", "rear"}, NEW late \in BOOLEAN,
             TouchAndStiffen(pads, late)
      PROVE  [Failsafe!Next]_Failsafe!vars
  BY <1>4 DEF TouchAndStiffen
<1>5. CASE Semaphore
  <2>0. /\ phase = "semaphore" /\ phase' = "pre" /\ torque' = torque /\ mustLimp' = mustLimp
        /\ sinceTake' = sinceTake \/ sinceTake' >= sinceTake
    BY <1>0, <1>5, AgentAssumption DEF Semaphore, Saturate, TypeOK
  <2>1. CASE (sinceTake <= MAX_SKIPS + 1) = (sinceTake' <= MAX_SKIPS + 1)
    BY <2>0, <2>1
  <2>2. CASE (sinceTake <= MAX_SKIPS + 1) # (sinceTake' <= MAX_SKIPS + 1)
    <3>1. ~(sinceTake' <= MAX_SKIPS + 1)
      BY <1>0, <2>0, <2>2, NextIInv, AgentAssumption DEF IInv, TypeOK
    <3>2. Failsafe!LoseContact
      BY <2>0, <3>1 DEF Failsafe!LoseContact
    <3> QED
      BY <3>2, Zenon
  <2> QED
    BY <2>1, <2>2
<1>6. CASE AgentStarts
  <2>1. Failsafe!Start
    BY <1>6 DEF AgentStarts, Failsafe!Start
  <2> QED
    BY <2>1, Zenon
<1>7. CASE PlayerTakes
  <2>1. sinceTake' <= MAX_SKIPS + 1
    BY <1>7, AgentAssumption DEF PlayerTakes
  <2>2. Failsafe!Hear
    BY <1>7, <2>1 DEF PlayerTakes, Failsafe!Hear
  <2> QED
    BY <2>2, Zenon
<1>8. CASE PlayerDies
  BY <1>8 DEF PlayerDies
<1>9. ASSUME NEW command \in {"NONE", "STIFFEN"}, PlayerActuates(command)
      PROVE  [Failsafe!Next]_Failsafe!vars
  BY <1>9 DEF PlayerActuates
<1>10. CASE UNCHANGED vars
  BY <1>10 DEF vars
<1>11. CASE StoreKillStanding
  BY <1>11 DEF StoreKillStanding
<1>12. CASE ToggleKillStanding
  BY <1>12 DEF ToggleKillStanding
<1>13. CASE MotionRestarts
  BY <1>13 DEF MotionRestarts
<1> QED
  BY <1>1, <1>2, <1>3, <1>4, <1>5, <1>6, <1>7, <1>8, <1>9, <1>10, <1>11, <1>12, <1>13
     DEF Next, Callback

\* libagent implements Failsafe for every value of its limits: no order of presses,
\* samples, deaths and restarts hands the motors over on the way down, or to a
\* player that is not heard.
THEOREM Implementation == Spec => ImplementsFailsafe
<1>1. Init => Failsafe!Init
  <2> SUFFICES ASSUME Init PROVE Failsafe!Init
    OBVIOUS
  <2>1. ~(sinceTake <= MAX_SKIPS + 1)
    BY AgentAssumption DEF Init
  <2> QED
    BY <2>1 DEF Init, Failsafe!Init
<1>2. IInv /\ [Next]_vars => [Failsafe!Next]_Failsafe!vars
  BY FailsafeStep
<1> QED
  BY <1>1, <1>2, Invariance, PTL DEF Spec, ImplementsFailsafe, Failsafe!Spec

-----------------------------------------------------------------------------

\* Only the stage of the semaphore, a P() and a new libagent touch what Contact is about.
LEMMA Uncounted ==
  ASSUME [Next]_vars, ~Semaphore, ~PlayerTakes, ~AgentStarts
  PROVE  UNCHANGED <<semaphore, skipped_frames, sinceTake>> /\ (phase = "down" => phase' = "down")
<1>1. Callback => UNCHANGED <<semaphore, skipped_frames, sinceTake>> /\ phase # "down"
  BY DEF Callback, PreCallback, Presses, HoldAndCount, TouchAndStiffen
<1>2. ~Callback => UNCHANGED <<semaphore, skipped_frames, sinceTake, phase>>
  BY DEF Next, PlayerActuates, StoreKillStanding, ToggleKillStanding, MotionRestarts, PlayerDies, vars
<1> QED
  BY <1>1, <1>2

\* Contact's count of the cycles since a P(), and the Agent's, which goes one further.
Since(n) == IF n > MAX_SKIPS THEN MAX_SKIPS + 1 ELSE n

\* The two counters saturate where the abstract ones do.
LEMMA CountsAlike ==
  /\ \A n \in 0..(MAX_SKIPS + 1) : Contact!OneMore(n) = Saturate(n + 1, MAX_SKIPS)
  /\ \A n \in 0..(MAX_SKIPS + 2) :
       Contact!OneMore(Since(n)) = Since(Saturate(n + 1, MAX_SKIPS + 1))
  /\ Since(0) = 0 /\ Since(MAX_SKIPS + 2) = MAX_SKIPS + 1
  BY AgentAssumption DEF Contact!OneMore, Saturate, Since

\* The stage of the semaphore is a V() or a missed cycle.
LEMMA CountsStep == IInv /\ [Next]_vars => [Contact!Next]_(Contact!vars)
<1> SUFFICES ASSUME IInv, [Next]_vars
             PROVE  \/ Contact!Next
                    \/ UNCHANGED <<semaphore, skipped_frames, Since(sinceTake), phase # "down">>
  BY DEF Contact!vars, Since
<1>0. /\ semaphore \in {0, 1}
      /\ skipped_frames \in 0..(MAX_SKIPS + 1) /\ sinceTake \in 0..(MAX_SKIPS + 2)
  BY DEF IInv, TypeOK
<1>1. CASE Semaphore
  <2>1. Since(sinceTake') = Contact!OneMore(Since(sinceTake))
    BY <1>0, <1>1, CountsAlike DEF Semaphore
  <2>2. CASE semaphore = 0
    <3>1. Contact!Post
      BY <1>1, <2>1, <2>2 DEF Semaphore, SkippedAfter, Since, Contact!Post
    <3> QED
      BY <3>1 DEF Contact!Next
  <2>3. CASE semaphore = 1
    <3>1. skipped_frames' = Contact!OneMore(skipped_frames)
      BY <1>0, <1>1, <2>3, CountsAlike DEF Semaphore, SkippedAfter
    <3>2. Contact!Miss
      BY <1>1, <2>1, <2>3, <3>1 DEF Semaphore, Since, Contact!Miss
    <3> QED
      BY <3>2 DEF Contact!Next
  <2> QED
    BY <1>0, <2>2, <2>3
<1>2. CASE PlayerTakes
  <2>1. Since(sinceTake') = 0
    BY <1>2, CountsAlike DEF PlayerTakes
  <2>2. Contact!Take
    BY <1>2, <2>1 DEF PlayerTakes, Since, Contact!Take
  <2> QED
    BY <2>2 DEF Contact!Next
<1>3. CASE AgentStarts
  <2>1. Since(sinceTake') \in {0, MAX_SKIPS + 1}
    BY <1>3, CountsAlike DEF AgentStarts
  <2>2. Contact!Restart
    BY <1>3, <2>1 DEF AgentStarts, Since, Contact!Restart
  <2> QED
    BY <2>2 DEF Contact!Next
<1>4. CASE ~(Semaphore \/ PlayerTakes \/ AgentStarts)
  <2>1. UNCHANGED <<semaphore, skipped_frames, Since(sinceTake)>>
    BY <1>4, Uncounted DEF Since
  <2>2. CASE phase # "down" /\ phase' = "down"
    BY <2>1, <2>2 DEF Since, Contact!Next, Contact!Stop
  <2> QED
    BY <1>4, <2>1, <2>2, Uncounted
<1> QED
  BY <1>1, <1>2, <1>3, <1>4

\* The Agent's body works on the semaphore that the channel provides, for every value of
\* the limits and whatever the operator and the player do.
THEOREM CountsAsOne == Spec => ImplementsContact
<1>1. Init => Contact!Init
  BY AgentAssumption DEF Init, Contact!Init
<1>2. IInv /\ [Next]_vars => [Contact!Next]_(Contact!vars)
  BY CountsStep
<1> QED
  BY <1>1, <1>2, Invariance, PTL DEF Spec, ImplementsContact, Contact!Spec

-----------------------------------------------------------------------------

\* The callbacks never get stuck while naoqi is up.
CallbackReady == phase # "down" => ENABLED <<Callback>>_vars

\* The stages of a cycle, one after the other.
PhaseOrder ==
  {<<"pre", "presses">>, <<"presses", "hold">>, <<"hold", "touch">>,
   <<"touch", "semaphore">>, <<"semaphore", "pre">>}

\* Two stages exclude each other.
Phased(p) == phase = p

Up == phase # "down"

\* The callbacks go from stage p to stage q as long as naoqi is up.
Turn(p, q) ==
  Phased(p) =>
    /\ phase # "down"
    /\ [Next]_vars => Phased(p)' \/ <<Callback>>_vars
    /\ <<Callback>>_vars /\ Up' => Phased(q)'

\* That is so from stage to stage, whatever the player does.
LEMMA Turns ==
  ASSUME NEW p, NEW q, <<p, q>> \in PhaseOrder
  PROVE  Turn(p, q)
<1>0. Phased(p) => phase # "down"
  BY DEF PhaseOrder, Phased
<1>1. ASSUME Phased(p), Callback, Up'
      PROVE  Phased(q)'
  BY <1>1 DEF PhaseOrder, Phased, Up, Callback, PreCallback, Presses, DoublePress, TriplePress,
     OtherPresses, HoldAndCount, TouchAndStiffen, Semaphore
<1>2. ASSUME Phased(p), [Next]_vars, ~Callback
      PROVE  Phased(p)'
  BY <1>0, <1>2 DEF Phased, Next, AgentStarts, PlayerTakes, PlayerDies, PlayerActuates,
     StoreKillStanding, ToggleKillStanding, MotionRestarts, vars
<1>3. Phased(p) /\ ~Phased(p)' => vars' # vars
  BY DEF Phased, vars
<1> QED
  BY <1>0, <1>1, <1>2, <1>3 DEF Turn

\* The cycle is the five stages.
LEMMA AllTurn ==
  /\ Turn("pre", "presses") /\ Turn("presses", "hold") /\ Turn("hold", "touch")
  /\ Turn("touch", "semaphore") /\ Turn("semaphore", "pre")
  BY Turns DEF PhaseOrder

\* libagent is always at one of them while naoqi is up.
LEMMA SomePhase ==
  IInv /\ Up => \/ Phased("pre") \/ Phased("presses") \/ Phased("hold") \/ Phased("touch")
                \/ Phased("semaphore")
  BY DEF IInv, TypeOK, Phased, Up

-----------------------------------------------------------------------------

\* The player is gone, and libagent is there.
Abandoned == ~alive /\ phase # "down"

\* Neither the player's joints nor the way down are due.
Idle == limp \/ standing

\* The robot is idle, or has come k cycles closer to that: first those of the count of missed
\* cycles, then those of the way down.
Progress(k) == semaphore = 1 /\ (Idle \/ skipped_frames + sit_step + 1 >= k)

\* The cycles from the last P() to the end of the way down.
WholeWay == MAX_SKIPS + Crouch + Settle + 2

\* The callbacks are alone with the robot.
LEMMA AloneMoves ==
  Abandoned /\ [Next]_vars => Callback \/ UNCHANGED vars
  BY DEF Abandoned, Next, AgentStarts, PlayerTakes, PlayerDies, PlayerActuates,
     StoreKillStanding, ToggleKillStanding, MotionRestarts

\* Nobody takes the robot from limp or standing while the player is away: a double press that
\* ends one begins the other.
LEMMA IdleStays == IInv /\ Abandoned /\ Idle /\ [Next]_vars => Idle'
<1> SUFFICES ASSUME IInv, Abandoned, Idle, [Next]_vars PROVE Idle'
  OBVIOUS
<1>0. limp \in BOOLEAN /\ standing \in BOOLEAN
  BY DEF IInv, TypeOK
<1>1. CASE PreCallback
  BY <1>1 DEF PreCallback, Powerless, Driven, SitDown, SitEnd, Idle
<1>2. ASSUME NEW foot \in BOOLEAN, Presses(foot)
      PROVE  Idle'
  BY <1>0, <1>2, Zenon DEF Presses, DoublePress, TriplePress, OtherPresses,
     StandingAfterDoublePress, Idle
<1>3. ASSUME NEW pressed \in BOOLEAN, HoldAndCount(pressed)
      PROVE  Idle'
  BY <1>3 DEF HoldAndCount, Idle
<1>4. ASSUME NEW pads \in SUBSET {"front", "middle", "rear"}, NEW late \in BOOLEAN,
             TouchAndStiffen(pads, late)
      PROVE  Idle'
  BY <1>4 DEF TouchAndStiffen, DoStiffen, Idle
<1>5. CASE Semaphore
  BY <1>5 DEF Semaphore, Idle
<1>6. CASE UNCHANGED vars
  BY <1>6 DEF vars, Idle
<1> QED
  BY <1>1, <1>2, <1>3, <1>4, <1>5, <1>6, AloneMoves DEF Callback

\* A robot that is not idle is made so, or keeps what it has counted.
LEMMA ProgressStep ==
  ASSUME IInv, Abandoned, ~Idle, semaphore = 1, [Next]_vars, ~Idle'
  PROVE  /\ semaphore' = 1
         /\ skipped_frames' = skipped_frames \/ Semaphore
         /\ skipped_frames' >= skipped_frames
         /\ sit_step' = sit_step \/ PreCallback
         /\ sit_step' >= sit_step
<1>0. skipped_frames \in 0..(MAX_SKIPS + 1) /\ sit_step \in -1..(Crouch + Settle)
  BY DEF IInv, TypeOK
<1>1. CASE PreCallback
  <2>1. UNCHANGED <<semaphore, skipped_frames>>
    BY <1>1 DEF PreCallback
  <2>2. sit_step' >= sit_step
    BY <1>0, <1>1 DEF PreCallback, Powerless, Driven, SitDown, SitEnd, SitEndLimp, Idle
  <2> QED
    BY <1>0, <1>1, <2>1, <2>2
<1>2. CASE Semaphore
  BY <1>0, <1>2, SaturateType, AgentAssumption DEF Semaphore, SkippedAfter, Saturate
<1>3. CASE ~(PreCallback \/ Semaphore)
  <2>1. UNCHANGED <<semaphore, skipped_frames>>
    BY <1>3, AloneMoves DEF Callback, Presses, HoldAndCount, TouchAndStiffen, vars
  <2>2. sit_step' = sit_step
    BY <1>3, AloneMoves DEF Callback, Presses, DoublePress, TriplePress, OtherPresses,
       HoldAndCount, TouchAndStiffen, Idle, vars
  <2> QED
    BY <1>0, <2>1, <2>2
<1> QED
  BY <1>1, <1>2, <1>3

\* The two counts only grow, and with one of them their sum does.
LEMMA SumGrows ==
  ASSUME NEW n \in Int,
         skipped_frames \in Int, sit_step \in Int, skipped_frames' \in Int, sit_step' \in Int,
         skipped_frames + sit_step + 1 >= n, skipped_frames' >= skipped_frames
  PROVE  /\ sit_step' >= sit_step => skipped_frames' + sit_step' + 1 >= n
         /\ sit_step' >= sit_step + 1 => skipped_frames' + sit_step' + 1 >= n + 1
<1>1. PICK a \in Int, b \in Int : a = skipped_frames /\ b = sit_step
  OBVIOUS
<1>2. PICK c \in Int, d \in Int : c = skipped_frames' /\ d = sit_step'
  OBVIOUS
<1>3. a + b + 1 >= n /\ c >= a
  BY <1>1, <1>2
<1>4. (d >= b => c + d + 1 >= n) /\ (d >= b + 1 => c + d + 1 >= n + 1)
  BY <1>3
<1> QED
  BY <1>1, <1>2, <1>4

\* What has been counted is not lost while the player is away.
LEMMA ProgressStays ==
  ASSUME NEW k \in Nat, IInv, Abandoned, Progress(k), [Next]_vars
  PROVE  Progress(k)'
<1>1. CASE Idle
  <2>1. Idle'
    BY <1>1, IdleStays
  <2>2. semaphore' = 1
    BY AloneMoves DEF Progress, Callback, PreCallback, Presses, HoldAndCount, TouchAndStiffen,
       Semaphore, vars
  <2> QED
    BY <2>1, <2>2 DEF Progress
<1>2. CASE ~Idle /\ ~Idle'
  <2>1. /\ skipped_frames \in Int /\ sit_step \in Int
        /\ skipped_frames' \in Int /\ sit_step' \in Int /\ k \in Int
    BY NextIInv, AgentAssumption DEF IInv, TypeOK
  <2>2. semaphore = 1 /\ skipped_frames + sit_step + 1 >= k
    BY <1>2 DEF Progress
  <2>3. semaphore' = 1 /\ skipped_frames' >= skipped_frames /\ sit_step' >= sit_step
    BY <1>2, <2>2, ProgressStep
  <2>4. skipped_frames' + sit_step' + 1 >= k
    BY <2>1, <2>2, <2>3, SumGrows
  <2> QED
    BY <2>3, <2>4 DEF Progress
<1>3. CASE ~Idle /\ Idle'
  <2>1. semaphore' = 1
    BY AloneMoves DEF Progress, Callback, PreCallback, Presses, HoldAndCount, TouchAndStiffen,
       Semaphore, vars
  <2> QED
    BY <1>3, <2>1 DEF Progress
<1> QED
  BY <1>1, <1>2, <1>3

\* The missed cycles are all counted, so that the next preCallback takes the robot down.
Late == skipped_frames = MAX_SKIPS + 1

\* A cycle counts one further, at its end or at the beginning of the next.
LEMMA ProgressGrows ==
  ASSUME NEW k \in 0..WholeWay, IInv, Abandoned, Progress(k), [Next]_vars
  PROVE  /\ Semaphore => Progress(k + 1)' \/ Late'
         /\ PreCallback /\ Late => Progress(k + 1)'
         /\ Late => Late'
<1>0. /\ skipped_frames \in 0..(MAX_SKIPS + 1) /\ sit_step \in -1..(Crouch + Settle)
      /\ skipped_frames' \in 0..(MAX_SKIPS + 1) /\ sit_step' \in -1..(Crouch + Settle)
      /\ k \in Nat /\ semaphore = 1
  BY NextIInv, AgentAssumption DEF IInv, TypeOK, Progress, WholeWay
<1>1. Progress(k)'
  BY <1>0, ProgressStays
<1>2. ASSUME Semaphore, ~Late'
      PROVE  Progress(k + 1)'
  <2>1. UNCHANGED <<limp, standing, sit_step>> /\ skipped_frames' = skipped_frames + 1
    BY <1>0, <1>2, AgentAssumption DEF Semaphore, SkippedAfter, Saturate, Late
  <2> QED
    BY <1>0, <1>1, <2>1 DEF Progress, Idle
<1>3. ASSUME PreCallback, Late
      PROVE  Progress(k + 1)'
  <2>1. CASE Idle
    BY <1>1, <2>1, IdleStays DEF Progress
  <2>2. CASE ~Idle
    <3>1. ~PlayerDrives
      BY <1>3, AgentAssumption DEF PlayerDrives, Late
    <3>2. limp' \/ sit_step' >= sit_step + 1
      BY <1>0, <1>3, <2>2, <3>1
         DEF PreCallback, Powerless, Driven, SitDown, SitEnd, SitEndLimp, Idle
    <3>3. skipped_frames' = skipped_frames
      BY <1>3 DEF PreCallback
    <3>4. skipped_frames + sit_step + 1 >= k
      BY <2>2 DEF Progress
    <3>5. semaphore' = 1
      BY <1>1 DEF Progress
    <3>6. CASE limp'
      BY <3>5, <3>6 DEF Progress, Idle
    <3>7. CASE sit_step' >= sit_step + 1
      <4>1. skipped_frames' + sit_step' + 1 >= k + 1
        <5>1. /\ skipped_frames \in Int /\ sit_step \in Int /\ k \in Int
              /\ skipped_frames' \in Int /\ sit_step' \in Int /\ skipped_frames' >= skipped_frames
          BY <1>0, <3>3, AgentAssumption
        <5> QED
          BY <3>4, <3>7, <5>1, SumGrows
      <4> QED
        BY <3>5, <4>1 DEF Progress
    <3> QED
      BY <3>2, <3>6, <3>7
  <2> QED
    BY <2>1, <2>2
<1>4. ASSUME Late
      PROVE  Late'
  BY <1>0, <1>4, AloneMoves, AgentAssumption DEF Late, Callback, PreCallback, Presses, HoldAndCount,
     TouchAndStiffen, Semaphore, SkippedAfter, Saturate, vars
<1> QED
  BY <1>2, <1>3, <1>4

\* A player that is gone for good leaves the robot k cycles closer to idle, and from then on.
Counted(k) == <>[]Abandoned => <>[]Progress(k)

\* Callback by callback: at these two stages it is the semaphore, and preCallback.
LEMMA StageOf ==
  /\ Callback /\ Phased("semaphore") => Semaphore
  /\ Callback /\ Phased("pre") => PreCallback
  BY DEF Callback, Phased, PreCallback, Presses, HoldAndCount, TouchAndStiffen, Semaphore

\* Each cycle of a player that is gone brings the robot closer to idle.
THEOREM CountsOn ==
  ASSUME NEW CONSTANT k \in 0..WholeWay
  PROVE  Spec /\ []CallbackReady => (Counted(k) => Counted(k + 1))
<1>1. k \in Nat /\ k + 1 \in Nat
  BY AgentAssumption DEF WholeWay
<1>2. IInv /\ Abandoned /\ Progress(k + 1) /\ [Next]_vars => Progress(k + 1)'
  BY <1>1, ProgressStays
<1>3. IInv /\ Abandoned /\ Progress(k) /\ Late /\ [Next]_vars => Late'
  BY ProgressGrows
<1>4. IInv /\ Abandoned /\ Progress(k) /\ Phased("semaphore") /\ [Next]_vars /\ <<Callback>>_vars
        => Progress(k + 1)' \/ Late'
  BY ProgressGrows, StageOf
<1>5. IInv /\ Abandoned /\ Progress(k) /\ Phased("pre") /\ Late /\ [Next]_vars /\ <<Callback>>_vars
        => Progress(k + 1)'
  BY ProgressGrows, StageOf
<1>6. Abandoned => Up /\ phase # "down"
  BY DEF Abandoned, Up
<1> QED
  BY <1>2, <1>3, <1>4, <1>5, <1>6, AllTurn, SomePhase, Invariance, PTL
     DEF Spec, CallbackReady, Turn, Counted

\* The count begins when the last V() is unanswered.
LEMMA CountStarts == Spec /\ []CallbackReady => Counted(0)
<1>1. IInv /\ semaphore = 1 => Progress(0)
  BY AgentAssumption DEF IInv, TypeOK, Progress
<1>2. IInv /\ Abandoned /\ Progress(0) /\ [Next]_vars => Progress(0)'
  BY ProgressStays
<1>3. Phased("semaphore") /\ <<Callback>>_vars => (semaphore = 1)'
  BY StageOf DEF Semaphore
<1>4. Abandoned => Up /\ phase # "down"
  BY DEF Abandoned, Up
<1> QED
  BY <1>1, <1>2, <1>3, <1>4, AllTurn, SomePhase, Invariance, PTL
     DEF Spec, CallbackReady, Turn, Counted

\* Induction over the cycles: true of all behaviours, but not to be had from the provers
\* for a temporal formula.
CountInduction ==
  Counted(0) /\ (\A k \in 0..WholeWay : Counted(k) => Counted(k + 1)) => Counted(WholeWay + 1)

\* When the player is gone for good the motors end up without power, whatever the limits are
\* and whatever the operator presses.
THEOREM EndsPowerless == Spec /\ []CallbackReady /\ CountInduction => DeadPlayerEndsPowerless
<1>1. \A k \in 0..WholeWay : Spec /\ []CallbackReady => (Counted(k) => Counted(k + 1))
  BY CountsOn
<1>2. Spec /\ []CallbackReady /\ CountInduction => Counted(WholeWay + 1)
  BY <1>1, CountStarts DEF CountInduction
<1>3. IInv /\ Progress(WholeWay + 1) => Idle
  BY AgentAssumption DEF IInv, TypeOK, Progress, WholeWay
<1>4. IInv /\ Abandoned /\ Idle /\ Phased("pre") /\ <<Callback>>_vars => (torque = "none")'
  BY StageOf DEF PreCallback, Powerless, Driven, SitDown, SitEnd, Idle
<1>5. Abandoned /\ Idle /\ torque = "none" /\ [Next]_vars => (torque = "none")'
  BY AloneMoves DEF Callback, PreCallback, Powerless, Driven, SitDown, SitEnd, Presses,
     HoldAndCount, TouchAndStiffen, Semaphore, Idle, vars
<1>6. Abandoned => Up /\ phase # "down"
  BY DEF Abandoned, Up
<1>7. Abandoned <=> ~alive /\ ~(phase = "down")
  BY DEF Abandoned
<1>8. phase # "down" <=> ~(phase = "down")
  OBVIOUS
<1> QED
  BY <1>2, <1>3, <1>4, <1>5, <1>6, <1>7, <1>8, AllTurn, SomePhase, Invariance, PTL
     DEF Spec, CallbackReady, Turn, Counted, DeadPlayerEndsPowerless

-----------------------------------------------------------------------------

\* The button is left alone, and naoqi is up.
Quiet == chest_down = 0 /\ phase # "down"

\* It has been for k cycles.
Rested(k) == chest_up >= k

\* At this stage of a cycle the chest button's sensor is counted.
LEMMA StageOfButton ==
  /\ Callback /\ Phased("hold") => \E pressed \in BOOLEAN : HoldAndCount(pressed)
  /\ Callback /\ Phased("presses") => \E foot \in BOOLEAN : Presses(foot)
  BY DEF Callback, Phased, PreCallback, Presses, HoldAndCount, TouchAndStiffen, Semaphore

\* A button that is left alone was not pressed in this cycle, which is counted.
LEMMA QuietCount ==
  ASSUME IInv, Quiet, NEW pressed \in BOOLEAN, HoldAndCount(pressed), Quiet'
  PROVE  chest_up' = ChestUpReleased /\ chest_presses' = chest_presses
<1>1. ~(chest_down > Hold)
  BY AgentAssumption DEF Quiet
<1>2. ~pressed
  <2> SUFFICES ASSUME pressed PROVE FALSE
    OBVIOUS
  <2>1. chest_down' = Saturate(chest_down + 1, Hold)
    BY <1>1 DEF HoldAndCount, Quiet
  <2> QED
    BY <2>1, AgentAssumption DEF Quiet, Saturate
<1> QED
  BY <1>1, <1>2 DEF HoldAndCount, Quiet

\* The rest goes on and no press is added.
LEMMA QuietStep ==
  ASSUME IInv, Quiet, [Next]_vars, Quiet'
  PROVE  /\ chest_up' >= chest_up
         /\ Callback /\ Phased("hold") => chest_up' = ChestUpReleased
         /\ chest_presses = 0 => chest_presses' = 0
<1>0. chest_up \in 0..(MAX_CLICK_INTERVAL + 1)
  BY DEF IInv, TypeOK
<1>1. CASE Callback /\ Phased("hold")
  <2>1. chest_up' = ChestUpReleased /\ chest_presses' = chest_presses
    BY <1>1, QuietCount, StageOfButton
  <2>2. ChestUpReleased >= chest_up
    BY <1>0, AgentAssumption DEF ChestUpReleased, Saturate
  <2> QED
    BY <2>1, <2>2
<1>2. CASE ~(Callback /\ Phased("hold"))
  <2>1. chest_up' = chest_up /\ (chest_presses' = chest_presses \/ chest_presses' = 0)
    BY <1>2 DEF Next, Callback, Phased, Quiet, PreCallback, Presses, HoldAndCount,
       TouchAndStiffen, Semaphore, AgentStarts, PlayerTakes, PlayerDies, PlayerActuates,
     StoreKillStanding, ToggleKillStanding, MotionRestarts, vars
  <2> QED
    BY <1>0, <1>2, <2>1
<1> QED
  BY <1>1, <1>2

\* A button that is left alone has been for k cycles, and from then on.
Waited(k) == <>[]Quiet => <>[]Rested(k)

\* Each cycle adds one.
THEOREM WaitsOn ==
  ASSUME NEW CONSTANT k \in 0..MAX_CLICK_INTERVAL
  PROVE  Spec /\ []CallbackReady => (Waited(k) => Waited(k + 1))
<1>1. IInv /\ Quiet /\ Rested(k + 1) /\ [Next]_vars /\ Quiet' => Rested(k + 1)'
  <2>1. IInv => chest_up \in Int
    BY AgentAssumption DEF IInv, TypeOK
  <2>2. IInv /\ [Next]_vars => chest_up' \in Int
    BY NextIInv, AgentAssumption DEF IInv, TypeOK
  <2> QED
    BY <2>1, <2>2, QuietStep DEF Rested
<1>2. IInv /\ Quiet /\ Rested(k) /\ Phased("hold") /\ [Next]_vars /\ <<Callback>>_vars /\ Quiet'
        => Rested(k + 1)'
  <2>1. IInv /\ Rested(k) => ChestUpReleased >= k + 1
    BY AgentAssumption DEF IInv, TypeOK, Rested, ChestUpReleased, Saturate
  <2> QED
    BY <2>1, QuietStep DEF Rested
<1>3. Quiet => Up /\ phase # "down"
  BY DEF Quiet, Up
<1> QED
  BY <1>1, <1>2, <1>3, AllTurn, SomePhase, Invariance, PTL DEF Spec, CallbackReady, Turn, Waited

\* Induction over the cycles, as above.
WaitInduction ==
  Waited(0) /\ (\A k \in 0..MAX_CLICK_INTERVAL : Waited(k) => Waited(k + 1))
    => Waited(MAX_CLICK_INTERVAL + 1)

\* A series of presses is acted upon once the button is left alone, for every interval between
\* two presses that the limit allows.
THEOREM PressesActedUpon == Spec /\ []CallbackReady /\ WaitInduction => PressesTakeEffect
<1>1. \A k \in 0..MAX_CLICK_INTERVAL : Spec /\ []CallbackReady => (Waited(k) => Waited(k + 1))
  BY WaitsOn
<1>2. IInv => Rested(0)
  BY AgentAssumption DEF IInv, TypeOK, Rested
<1>3. Spec => Waited(0)
  BY <1>2, Invariance, PTL DEF Waited
<1>4. Spec /\ []CallbackReady /\ WaitInduction => Waited(MAX_CLICK_INTERVAL + 1)
  BY <1>1, <1>3 DEF WaitInduction
<1>5. IInv /\ Rested(MAX_CLICK_INTERVAL + 1) /\ Phased("presses") /\ <<Callback>>_vars
        => (chest_presses = 0)'
  BY StageOfButton, AgentAssumption DEF IInv, TypeOK, Rested, Presses
<1>6. IInv /\ Quiet /\ chest_presses = 0 /\ [Next]_vars /\ Quiet' => (chest_presses = 0)'
  BY QuietStep
<1>7. Quiet => Up /\ phase # "down"
  BY DEF Quiet, Up
<1>8. Quiet <=> chest_down = 0 /\ ~(phase = "down")
  BY DEF Quiet
<1>9. phase # "down" <=> ~(phase = "down")
  OBVIOUS
<1> QED
  BY <1>4, <1>5, <1>6, <1>7, <1>8, <1>9, AllTurn, SomePhase, Invariance, PTL
     DEF Spec, CallbackReady, Turn, Waited, PressesTakeEffect

===============================================================================
