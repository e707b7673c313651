---------------------------------- MODULE LoLA ----------------------------------
(***************************************************************************)
(* The V6: no libagent, the Motion thread talks to LoLA itself, over a     *)
(* local socket, and what libagent did is in its touch and its effector.   *)
(* A tick loads a sample, counts the button presses and plays the joints;  *)
(* between the three it may fault or throw, LoLA may stop or come back,    *)
(* and a signal may arrive.  A Motion thread that is thrown out or shut    *)
(* down sits the robot down in the effector's destructor.  Three presses   *)
(* end runswift: killall, and a kill -9 in KILL_SLEEP_SECONDS, which has   *)
(* to leave the time to sit; the daemon starts it again.                   *)
(*                                                                         *)
(* Left out: the head's own switch (in Agent), the bumper's restart of     *)
(* naoqi and the wifi's, which change nothing here; a runswift started     *)
(* from a shell while a kill -9 is still due.                              *)
(***************************************************************************)
EXTENDS Integers

CONSTANTS
  MAX_CLICK_INTERVAL,
  Hold,                \* samples the chest button is held for a shutdown (300)
  SIT_MIDDLE_CYCLES, SIT_CYCLES,
  KillSleep            \* KILL_SLEEP_SECONDS, in LoLA's cycles (333)

\* "number of seconds it takes to sit"
ASSUME LoLAAssumption ==
  /\ MAX_CLICK_INTERVAL \in Nat /\ Hold \in Nat
  /\ SIT_MIDDLE_CYCLES \in Nat /\ SIT_CYCLES \in Nat /\ KillSleep \in Nat
  /\ KillSleep > SIT_MIDDLE_CYCLES + SIT_CYCLES

VARIABLES
  \* runswift's static data
  limp, standing,
  chest_down,          \* Halted stands for numeric_limits<int>::min()
  chest_up,            \* saturates at MAX_CLICK_INTERVAL + 1
  chest_presses,       \* saturates at MaxPresses
  chest,               \* the chest button, as last loaded
  isConnected,
  attemptingShutdown,
  \* the Motion thread
  pc,                  \* "off" when there is no runswift
  sit_step,
  \* outside
  serving,             \* LoLA runs
  live,                \* the socket is connected to the LoLA that runs
  motors,              \* what LoLA, since it runs, was last told by this runswift
  reaper,              \* cycles since killall took effect, None without a kill -9 due
  \* history
  rested,              \* made powerless, and the generator not reset since
  cutShort             \* the last tick faulted, or threw with limp not yet played

chestVars   == <<chest_down, chest_up, chest_presses>>
linkVars    == <<isConnected, live>>
historyVars == <<rested, cutShort>>

vars == <<limp, standing, chestVars, linkVars, chest, attemptingShutdown, pc, sit_step,
          serving, motors, reaper, historyVars>>

Halted == -1
None == -1
MaxPresses == 4      \* more presses do here what 4 do
Ticking == {"load", "buttons", "actuate"}

-----------------------------------------------------------------------------
(* Mutants *)

\* The command stiffens the robot without having it stood up.
StandingStiffenedNever(stiffen) == FALSE

\* The destructor seats a limp robot, and leaves the others.
MustSitLimp == limp

\* pkill without its -f, which spares the shell that waits for its kill -9.
ReaperStartedKept == reaper

\* The destructor's loops fault as a tick may, on the sensors they start from.
FaultingAnywhere == Ticking \cup {"sit"}

\* The Motion thread does not look whether it is to be started again.
RestartsAlways == TRUE

-----------------------------------------------------------------------------
(* Helpers *)

Saturate(n, bound) == IF n > bound THEN bound + 1 ELSE n

\* A read or a write gets through: the socket is good, or getSocket makes it so.
Reached == live \/ (~isConnected /\ serving)

Access == isConnected' = Reached /\ live' = Reached

\* A second access after a failed one connects anew.
AccessTwice == isConnected' = serving /\ live' = serving

\* write(fMap)
Tell(word) == motors' = IF Reached THEN word ELSE motors

\* standing after kill_standing's dance, which always clears it, and doStiffen
StandingStiffened(stiffen) == stiffen

MustSit == ~limp

SitEnds(step) == step = SIT_MIDDLE_CYCLES + SIT_CYCLES

Restarts == ~attemptingShutdown

ReaperStarted == None

\* Where a fault is reckoned with: the destructor's loops compute nothing that could.
Faulting == Ticking

\* A cycle goes by on the way of a kill -9.
Waits == reaper' = IF reaper # None /\ reaper < KillSleep THEN reaper + 1 ELSE reaper

\* The process is gone, and its memory with it.
Gone ==
  /\ pc' = "off"
  /\ limp' = TRUE /\ standing' = FALSE
  /\ chest_down' = 0 /\ chest_up' = 0 /\ chest_presses' = 0
  /\ chest' = FALSE
  /\ isConnected' = FALSE /\ live' = FALSE
  /\ attemptingShutdown' = FALSE /\ sit_step' = 0
  /\ rested' = FALSE /\ cutShort' = FALSE
  /\ UNCHANGED <<serving, motors>>

-----------------------------------------------------------------------------
(* A tick of the Motion thread *)

\* LoLATouch::loadCache.  A read that fails leaves the sensors as they were.
Load(button) ==
  /\ pc = "load" /\ ~attemptingShutdown
  /\ pc' = "buttons"
  /\ chest' = IF Reached THEN button ELSE chest
  /\ Access
  /\ UNCHANGED <<limp, standing, chestVars, attemptingShutdown, sit_step, serving,
                 motors, reaper, historyVars>>

\* buttons.pop(2), without a foot bumper
DoublePress(falling) ==
  /\ \/ limp /\ limp' = FALSE /\ standing' = TRUE
     \/ ~limp /\ falling /\ UNCHANGED <<limp, standing>>
     \/ ~limp /\ ~falling /\ limp' = TRUE /\ standing' = FALSE
  /\ UNCHANGED reaper

\* buttons.pop(3): killall, which arrives in a while, and a kill -9 after it
TriplePress ==
  /\ reaper' = IF reaper = None THEN 0 ELSE reaper
  /\ UNCHANGED <<limp, standing>>

Presses(foot, falling) ==
  IF chest_up > MAX_CLICK_INTERVAL
  THEN \/ chest_presses = 2 /\ ~foot /\ DoublePress(falling)
       \/ chest_presses = 3 /\ ~foot /\ ~falling /\ TriplePress
       \/ /\ chest_presses \notin {2, 3} \/ foot \/ (chest_presses = 3 /\ falling)
          /\ UNCHANGED <<limp, standing, reaper>>
  ELSE UNCHANGED <<limp, standing, reaper>>

\* The shutdown handler; the button is down, so that no presses are due.
Halt == limp' = TRUE /\ UNCHANGED <<standing, reaper>>

CountChest ==
  LET down    == IF chest_down > Hold THEN Halted ELSE chest_down
      presses == IF chest_up > MAX_CLICK_INTERVAL THEN 0 ELSE chest_presses
  IN
  IF chest
  THEN /\ chest_down' = IF down >= 0 THEN down + 1 ELSE down
       /\ chest_up' = 0 /\ chest_presses' = presses
  ELSE /\ chest_down' = IF down > 0 THEN 0 ELSE down
       /\ chest_up' = Saturate(chest_up + 1, MAX_CLICK_INTERVAL)
       /\ chest_presses' = IF down > 0 /\ presses < MaxPresses THEN presses + 1 ELSE presses

\* getButtons, getStanding, and the reset of the generator.
Buttons(foot, falling) ==
  /\ pc = "buttons"
  /\ pc' = "actuate"
  /\ IF chest_down > Hold THEN Halt ELSE Presses(foot, falling)
  /\ CountChest
  /\ rested' = (rested /\ ~standing')
  /\ UNCHANGED <<linkVars, chest, attemptingShutdown, sit_step, serving, motors,
                 cutShort>>

\* LoLAEffector::actuate, with the request's stiffen command
Actuate(stiffen) ==
  /\ pc = "actuate"
  /\ pc' = "load"
  /\ limp' = (limp /\ ~stiffen)
  /\ standing' = StandingStiffened(stiffen)
  /\ Tell(IF limp' \/ standing' THEN "none" ELSE "player")
  /\ AccessTwice
  /\ rested' = (rested \/ limp' \/ standing')
  /\ cutShort' = FALSE
  /\ UNCHANGED <<chestVars, chest, attemptingShutdown, sit_step, serving, reaper>>

-----------------------------------------------------------------------------
(* The end of a Motion thread, and the next one *)

\* ~LoLAEffector, up to its loops
Destroy ==
  /\ pc' = IF MustSit THEN "sit" ELSE "build"
  /\ UNCHANGED <<limp, standing, chestVars, linkVars, chest, attemptingShutdown, sit_step,
                 serving, motors, reaper, rested>>

Leave == pc = "load" /\ attemptingShutdown /\ Destroy /\ UNCHANGED cutShort

Throw == pc \in Ticking /\ Destroy /\ cutShort' = (cutShort \/ limp)

\* The signal's handler jumps out of the tick, past the destructor.
Fault ==
  /\ pc \in Faulting
  /\ pc' = "build"
  /\ cutShort' = TRUE
  /\ UNCHANGED <<limp, standing, chestVars, linkVars, chest, attemptingShutdown, sit_step,
                 serving, motors, reaper, rested>>

\* One cycle of either loop, or the write and the read after them
Sit ==
  /\ pc = "sit"
  /\ IF SitEnds(sit_step)
     THEN pc' = "build" /\ sit_step' = 0 /\ Tell("none")
     ELSE /\ Tell(IF standing THEN "none" ELSE "seat")
          /\ sit_step' = sit_step + 1 /\ UNCHANGED pc
  /\ AccessTwice
  /\ IF attemptingShutdown THEN Waits ELSE UNCHANGED reaper
  /\ UNCHANGED <<limp, standing, chestVars, chest, attemptingShutdown, serving,
                 rested, cutShort>>

\* The loop of safelyRun: a new MotionAdapter, with new generators
Build ==
  /\ pc = "build"
  /\ IF Restarts THEN pc' = "load" /\ rested' = FALSE
                 ELSE pc' = "over" /\ UNCHANGED rested
  /\ UNCHANGED <<limp, standing, chestVars, linkVars, chest, attemptingShutdown, sit_step,
                 serving, motors, reaper, cutShort>>

\* main() has joined the threads.
Exit == pc = "over" /\ Gone /\ UNCHANGED reaper

-----------------------------------------------------------------------------
(* Signals, the daemon, LoLA *)

\* A first SIGTERM or SIGINT
Terminate ==
  /\ pc # "off" /\ ~attemptingShutdown
  /\ attemptingShutdown' = TRUE
  /\ UNCHANGED <<limp, standing, chestVars, linkVars, chest, pc, sit_step, serving,
                 motors, reaper, historyVars>>

\* killall of the three presses
Killall == reaper # None /\ Terminate

\* A second SIGTERM finds no handler; or runswift crashes, or is killed.
Dies == pc # "off" /\ Gone /\ UNCHANGED reaper

\* pkill -9 of the three presses
Reap ==
  /\ reaper = KillSleep
  /\ reaper' = None
  /\ \/ pc # "off" /\ Gone
     \/ /\ pc = "off"
        /\ UNCHANGED <<limp, standing, chestVars, linkVars, chest, attemptingShutdown, pc,
                       sit_step, serving, motors, historyVars>>

TimePasses ==
  /\ pc \in {"over", "off"}
  /\ reaper # None /\ Waits
  /\ UNCHANGED <<limp, standing, chestVars, linkVars, chest, attemptingShutdown, pc,
                 sit_step, serving, motors, historyVars>>

\* Three presses, counted by the daemon: its pkill -9 -f finds the shell that waits
\* for the other kill -9 too.
Start ==
  /\ pc = "off" /\ serving
  /\ pc' = "build"
  /\ motors' = "none"
  /\ reaper' = ReaperStarted
  /\ UNCHANGED <<limp, standing, chestVars, linkVars, chest, attemptingShutdown, sit_step,
                 serving, historyVars>>

LolaStops ==
  /\ serving /\ pc # "off"
  /\ serving' = FALSE /\ live' = FALSE
  /\ motors' = "none"
  /\ UNCHANGED <<limp, standing, chestVars, isConnected, chest, attemptingShutdown, pc,
                 sit_step, reaper, historyVars>>

LolaStarts ==
  /\ ~serving /\ serving' = TRUE
  /\ UNCHANGED <<limp, standing, chestVars, linkVars, chest, attemptingShutdown, pc,
                 sit_step, motors, reaper, historyVars>>

-----------------------------------------------------------------------------

Init ==
  /\ pc = "build" /\ limp = TRUE /\ standing = FALSE
  /\ chest_down = 0 /\ chest_up = 0 /\ chest_presses = 0
  /\ chest = FALSE
  /\ isConnected = FALSE /\ live = FALSE /\ serving = TRUE
  /\ attemptingShutdown = FALSE /\ sit_step = 0
  /\ motors = "none" /\ reaper = None
  /\ rested = FALSE /\ cutShort = FALSE

Motion ==
  \/ \E button \in BOOLEAN : Load(button)
  \/ \E foot, falling \in BOOLEAN : Buttons(foot, falling)
  \/ \E stiffen \in BOOLEAN : Actuate(stiffen)
  \/ Leave \/ Sit \/ Build

Next ==
  \/ Motion \/ Throw \/ Fault \/ Exit
  \/ Terminate \/ Dies \/ Reap \/ TimePasses \/ Start
  \/ LolaStops \/ LolaStarts

\* The Motion thread runs (a LoLA that is connected sends every cycle), what killall
\* sends arrives, and the other threads come to their end.
Spec == Init /\ [][Next]_vars /\ WF_vars(Motion) /\ WF_vars(Killall) /\ WF_vars(Exit)

-----------------------------------------------------------------------------
(* Properties *)

TypeOK ==
  /\ limp \in BOOLEAN /\ standing \in BOOLEAN
  /\ chest_down \in Halted..(Hold + 1)
  /\ chest_up \in 0..(MAX_CLICK_INTERVAL + 1)
  /\ chest_presses \in 0..MaxPresses
  /\ chest \in BOOLEAN
  /\ isConnected \in BOOLEAN /\ live \in BOOLEAN /\ serving \in BOOLEAN
  /\ attemptingShutdown \in BOOLEAN
  /\ pc \in Ticking \cup {"off", "build", "sit", "over"}
  /\ sit_step \in 0..(SIT_MIDDLE_CYCLES + SIT_CYCLES)
  /\ motors \in {"none", "player", "seat"}
  /\ reaper \in None..KillSleep
  /\ rested \in BOOLEAN /\ cutShort \in BOOLEAN

\* A robot that was made powerless gets its power back only from a generator that
\* has been reset since, or is new, so that it rises from where it lies: whatever
\* was pressed or commanded, and wherever the outages, faults and exceptions fell.
RisesFromReset == motors = "player" => ~rested

\* A runswift that ends of itself leaves the motors without power, unless its last
\* tick faulted, or threw between the presses that made it limp and their effect.
EndsPowerless == pc = "over" => motors = "none" \/ cutShort

\* The kill -9 comes to a runswift that was told to end and has sat down: neither in
\* the middle of the way down nor to the next one, that three presses have started.
ReapsTheSeated ==
  [][reaper = KillSleep /\ reaper' = None /\ pc # "off"
       => attemptingShutdown /\ (motors = "none" \/ cutShort)]_vars

\* The touch and the effector keep what libagent promised of the motors, as far as
\* they have it: only a tick plays the joints, and a way down ends without power
\* before the next one, also when the destructor of one Motion thread is followed by
\* another thread.
Failsafe == INSTANCE Failsafe WITH
  power   <- motors,
  seating <- motors = "seat",
  heard   <- pc \in Ticking,
  up      <- pc # "off"
ImplementsFailsafe == Failsafe!Spec

\* Told to end by a signal or by three presses, runswift ends, whatever is thrown.
Ends == (attemptingShutdown \/ reaper # None) ~> pc = "off"
================================================================================
