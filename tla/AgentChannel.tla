----------------------------- MODULE AgentChannel -----------------------------
(***************************************************************************)
(* The shared memory (AgentData) and the semaphore between libagent, which *)
(* the robot's DCM thread calls back every cycle inside naoqi, and the     *)
(* Motion thread of the runswift player process.                           *)
(*                                                                         *)
(*   Agent   preCallback    latch the actuator slot, play it               *)
(*           postCallback   write a sensor slot, handle the buttons and    *)
(*                          the stiffen command, publish, V() if needed    *)
(*   player  AgentTouch     P(), latch the sensor slot, copy it            *)
(*           AgentEffector  write an actuator slot, publish, lower         *)
(*                          `standing'                                     *)
(*                                                                         *)
(* A step is one access to shared memory (or one copy of a slot, during    *)
(* which the slot counts as being read or written).  What the slots hold   *)
(* is abstracted away, except for the stiffen command.                     *)
(***************************************************************************)
EXTENDS Naturals

CONSTANT MAX_SKIPS      \* cycles without a P() before contact counts as lost

ASSUME MaxSkipsAssumption == MAX_SKIPS \in Nat

Slots == 0..2

VARIABLES
  \* AgentData
  sensors_read, sensors_latest, actuators_read, actuators_latest,
  stiffen, standing,
  semaphore,
  \* Agent
  mapped,            \* libagent has AgentData mapped
  shuttingDown, limp,
  skipped_frames,    \* saturates at MAX_SKIPS + 1
  agentPc, agentSlot,
  \* player process
  alive, playerPc, playerSlot,
  kill_standing,     \* the static local of AgentEffector::actuate
  \* history
  sinceWait,         \* postCallbacks since the last P(), saturates likewise
  owed,              \* slots with a stored STIFFEN that has not been obeyed
  standRequest       \* "none", "raised" by the Agent, "seen" by the player

agentVars   == <<mapped, shuttingDown, limp, skipped_frames, agentPc, agentSlot>>
playerVars  == <<alive, playerPc, playerSlot, kill_standing>>
sensorIdx   == <<sensors_read, sensors_latest>>
actuatorIdx == <<actuators_read, actuators_latest>>
history     == <<sinceWait, owed, standRequest>>

vars == <<sensorIdx, actuatorIdx, stiffen, standing, semaphore,
          agentVars, playerVars, history>>

-----------------------------------------------------------------------------
(* Mutants *)

\* The loop with a bound that follows the writer and never wraps.
WriteIndexNoWrap(latest, read) == latest + 1

\* V() whenever the semaphore could be taken once more.
SemNeedsPostTwice == semaphore <= 1

\* Give up on a player that has lost contact.
SemNeedsPostInContact == semaphore = 0 /\ skipped_frames <= MAX_SKIPS

\* The V() without the reset of the counter.
SkippedAfterPostKept == skipped_frames

\* The else branch without its increment.
SkippedAfterMissKept == skipped_frames

\* The command left in its slot.
ClearedStiffenKept == stiffen

-----------------------------------------------------------------------------
(* Helpers *)

Saturate(n) == IF n > MAX_SKIPS THEN MAX_SKIPS + 1 ELSE n

\* for (i = 0; i != latest && i != read; ++i) ;
WriteIndex(latest, read) ==
  CHOOSE i \in {latest, read} : \A j \in {latest, read} : i <= j

\* sem_getvalue(semaphore, &i); i <= 0
SemNeedsPost == semaphore = 0

SkippedAfterPost == 0
SkippedAfterMiss == Saturate(skipped_frames + 1)

ClearedStiffen == [stiffen EXCEPT ![actuators_read] = "NONE"]

Stiffened == {s \in Slots : stiffen[s] = "STIFFEN"}

AgentGoes(from, to) ==
  /\ agentPc = from
  /\ agentPc' = to

PlayerGoes(from, to) ==
  /\ alive
  /\ playerPc = from
  /\ playerPc' = to

\* Program points of the Agent whose next step reads or writes AgentData.
AgentTouches ==
  {"preStore", "prePlay", "writeSensors", "doButtons", "doStiffen",
   "clearStiffen", "writeButtons", "publish"}

AgentPcs  == AgentTouches \cup {"pre", "post", "semCheck", "semPost"}
PlayerPcs == {"wait", "load", "store", "copySensors", "copyButtons", "getStanding",
              "pickSlot", "writeJoints", "writeStiffen", "publish", "standing1", "standing2"}

-----------------------------------------------------------------------------
(* The Agent, on the DCM thread *)

\* preCallback, up to the load of actuators_latest.
PreEnter ==
  /\ ~shuttingDown
  /\ AgentGoes("pre", "preStore")
  /\ agentSlot' = actuators_latest
  /\ UNCHANGED <<sensorIdx, actuatorIdx, stiffen, standing, semaphore, mapped,
                 shuttingDown, limp, skipped_frames, playerVars, history>>

PreStore ==
  /\ mapped
  /\ AgentGoes("preStore", "prePlay")
  /\ actuators_read' = agentSlot
  /\ UNCHANGED <<sensorIdx, actuators_latest, stiffen, standing, semaphore, mapped,
                 shuttingDown, limp, skipped_frames, agentSlot, playerVars, history>>

\* The rest of preCallback reads slot actuators_read and drives the DCM.
PrePlay ==
  /\ mapped
  /\ AgentGoes("prePlay", "post")
  /\ UNCHANGED <<sensorIdx, actuatorIdx, stiffen, standing, semaphore, mapped,
                 shuttingDown, limp, skipped_frames, agentSlot, playerVars, history>>

\* postCallback up to the choice of the slot it writes.
PostEnter ==
  /\ ~shuttingDown
  /\ AgentGoes("post", "writeSensors")
  /\ agentSlot' = WriteIndex(sensors_latest, sensors_read)
  /\ UNCHANGED <<sensorIdx, actuatorIdx, stiffen, standing, semaphore, mapped,
                 shuttingDown, limp, skipped_frames, playerVars, history>>

\* sensors[i] = s, complete when this step is taken.
WriteSensors ==
  /\ mapped
  /\ AgentGoes("writeSensors", "doButtons")
  /\ UNCHANGED <<sensorIdx, actuatorIdx, stiffen, standing, semaphore, mapped,
                 shuttingDown, limp, skipped_frames, agentSlot, playerVars, history>>

\* doButtons: no double press, or a double press that toggles limp.
DoButtons ==
  /\ mapped
  /\ AgentGoes("doButtons", "doStiffen")
  /\ \/ UNCHANGED <<limp, standing, standRequest>>
     \/ /\ limp' = ~limp
        /\ standing' = limp
        /\ standRequest' = IF limp THEN "raised" ELSE "none"
  /\ UNCHANGED <<sensorIdx, actuatorIdx, stiffen, semaphore, mapped, shuttingDown,
                 skipped_frames, agentSlot, playerVars, sinceWait, owed>>

\* doStiffen(stiffen[actuators_read])
DoStiffen ==
  /\ mapped
  /\ AgentGoes("doStiffen", "clearStiffen")
  /\ IF stiffen[actuators_read] = "STIFFEN"
     THEN /\ limp' = FALSE
          /\ standing' = TRUE
          /\ standRequest' = "raised"
          /\ owed' = owed \ {actuators_read}
     ELSE UNCHANGED <<limp, standing, standRequest, owed>>
  /\ UNCHANGED <<sensorIdx, actuatorIdx, stiffen, semaphore, mapped, shuttingDown,
                 skipped_frames, agentSlot, playerVars, sinceWait>>

\* stiffen[actuators_read] = NONE
ClearStiffen ==
  /\ mapped
  /\ AgentGoes("clearStiffen", "writeButtons")
  /\ stiffen' = ClearedStiffen
  /\ UNCHANGED <<sensorIdx, actuatorIdx, standing, semaphore, mapped, shuttingDown,
                 limp, skipped_frames, agentSlot, playerVars, history>>

\* buttons[i] = buttons; buttons.clear()
WriteButtons ==
  /\ mapped
  /\ AgentGoes("writeButtons", "publish")
  /\ UNCHANGED <<sensorIdx, actuatorIdx, stiffen, standing, semaphore, mapped,
                 shuttingDown, limp, skipped_frames, agentSlot, playerVars, history>>

PublishSensors ==
  /\ mapped
  /\ AgentGoes("publish", "semCheck")
  /\ sensors_latest' = agentSlot
  /\ UNCHANGED <<sensors_read, actuatorIdx, stiffen, standing, semaphore, mapped,
                 shuttingDown, limp, skipped_frames, agentSlot, playerVars, history>>

\* sem_getvalue, and the branch taken when the player has not done its P() yet.
SemCheck ==
  /\ \/ /\ SemNeedsPost
        /\ AgentGoes("semCheck", "semPost")
        /\ UNCHANGED <<skipped_frames, sinceWait>>
     \/ /\ ~SemNeedsPost
        /\ AgentGoes("semCheck", "pre")
        /\ skipped_frames' = SkippedAfterMiss
        /\ sinceWait' = Saturate(sinceWait + 1)
  /\ UNCHANGED <<sensorIdx, actuatorIdx, stiffen, standing, semaphore, mapped,
                 shuttingDown, limp, agentSlot, playerVars, owed, standRequest>>

SemPost ==
  /\ AgentGoes("semPost", "pre")
  /\ semaphore' = semaphore + 1
  /\ skipped_frames' = SkippedAfterPost
  /\ sinceWait' = Saturate(sinceWait + 1)
  /\ UNCHANGED <<sensorIdx, actuatorIdx, stiffen, standing, mapped, shuttingDown,
                 limp, agentSlot, playerVars, owed, standRequest>>

\* A callback that finds shuttingDown set returns.
CallbackReturns ==
  /\ shuttingDown
  /\ agentPc \in {"pre", "post"}
  /\ UNCHANGED vars

AgentStep ==
  \/ PreEnter \/ PreStore \/ PrePlay
  \/ PostEnter \/ WriteSensors \/ DoButtons \/ DoStiffen \/ ClearStiffen
  \/ WriteButtons \/ PublishSensors \/ SemCheck \/ SemPost

\* ~Agent, on naoqi's main thread: the flag first, then munmap.
ShutDown ==
  /\ ~shuttingDown
  /\ shuttingDown' = TRUE
  /\ UNCHANGED <<sensorIdx, actuatorIdx, stiffen, standing, semaphore, mapped, limp,
                 skipped_frames, agentPc, agentSlot, playerVars, history>>

Unmap ==
  /\ shuttingDown
  /\ mapped
  /\ mapped' = FALSE
  /\ UNCHANGED <<sensorIdx, actuatorIdx, stiffen, standing, semaphore, shuttingDown,
                 limp, skipped_frames, agentPc, agentSlot, playerVars, history>>

\* Agent(): naoqi comes back.  The constructor resets the indices and
\* `standing' but neither the stiffen slots nor an existing semaphore.
AgentStart ==
  /\ ~mapped
  /\ mapped' = TRUE
  /\ shuttingDown' = FALSE
  /\ limp' = TRUE
  /\ skipped_frames' = 0
  /\ agentPc' = "pre"
  /\ sensors_read' = 0 /\ sensors_latest' = 0
  /\ actuators_read' = 0 /\ actuators_latest' = 0
  /\ standing' = FALSE
  /\ standRequest' = "none"
  /\ owed' = Stiffened
  /\ UNCHANGED <<stiffen, semaphore, agentSlot, playerVars, sinceWait>>

-----------------------------------------------------------------------------
(* The player's Motion thread *)

\* while (sem_wait(semaphore) < 0) ;
Wait ==
  /\ semaphore > 0
  /\ PlayerGoes("wait", "load")
  /\ semaphore' = semaphore - 1
  /\ sinceWait' = 0
  /\ UNCHANGED <<sensorIdx, actuatorIdx, stiffen, standing, agentVars, alive, playerSlot,
                 kill_standing, owed, standRequest>>

LoadLatest ==
  /\ PlayerGoes("load", "store")
  /\ playerSlot' = sensors_latest
  /\ UNCHANGED <<sensorIdx, actuatorIdx, stiffen, standing, semaphore, agentVars, alive,
                 kill_standing, history>>

StoreRead ==
  /\ PlayerGoes("store", "copySensors")
  /\ sensors_read' = playerSlot
  /\ UNCHANGED <<sensors_latest, actuatorIdx, stiffen, standing, semaphore, agentVars, alive,
                 playerSlot, kill_standing, history>>

\* return sensors[sensors_read], complete when this step is taken.
CopySensors ==
  /\ PlayerGoes("copySensors", "copyButtons")
  /\ UNCHANGED <<sensorIdx, actuatorIdx, stiffen, standing, semaphore, agentVars, alive,
                 playerSlot, kill_standing, history>>

\* AgentTouch::getButtons
CopyButtons ==
  /\ PlayerGoes("copyButtons", "getStanding")
  /\ UNCHANGED <<sensorIdx, actuatorIdx, stiffen, standing, semaphore, agentVars, alive,
                 playerSlot, kill_standing, history>>

\* AgentTouch::getStanding
GetStanding ==
  /\ PlayerGoes("getStanding", "pickSlot")
  /\ standRequest' = IF standing /\ standRequest = "raised" THEN "seen" ELSE standRequest
  /\ UNCHANGED <<sensorIdx, actuatorIdx, stiffen, standing, semaphore, agentVars, alive,
                 playerSlot, kill_standing, sinceWait, owed>>

\* AgentEffector::actuate
PickSlot ==
  /\ PlayerGoes("pickSlot", "writeJoints")
  /\ playerSlot' = WriteIndex(actuators_latest, actuators_read)
  /\ UNCHANGED <<sensorIdx, actuatorIdx, stiffen, standing, semaphore, agentVars, alive,
                 kill_standing, history>>

\* leds[i] = leds; joints[i] = joints
WriteJoints ==
  /\ PlayerGoes("writeJoints", "writeStiffen")
  /\ UNCHANGED <<sensorIdx, actuatorIdx, stiffen, standing, semaphore, agentVars, alive,
                 playerSlot, kill_standing, history>>

WriteStiffen ==
  /\ PlayerGoes("writeStiffen", "publish")
  /\ \E command \in {"NONE", "STIFFEN"} :
       /\ stiffen' = [stiffen EXCEPT ![playerSlot] = command]
       /\ owed' = IF command = "STIFFEN" THEN owed \cup {playerSlot}
                                         ELSE owed \ {playerSlot}
  /\ UNCHANGED <<sensorIdx, actuatorIdx, standing, semaphore, agentVars, alive,
                 playerSlot, kill_standing, sinceWait, standRequest>>

PublishActuators ==
  /\ PlayerGoes("publish", "standing1")
  /\ actuators_latest' = playerSlot
  /\ UNCHANGED <<sensorIdx, actuators_read, stiffen, standing, semaphore, agentVars, alive,
                 playerSlot, kill_standing, history>>

\* standing = kill_standing
StoreKillStanding ==
  /\ PlayerGoes("standing1", "standing2")
  /\ standing' = kill_standing
  /\ UNCHANGED <<sensorIdx, actuatorIdx, stiffen, semaphore, agentVars, alive,
                 playerSlot, kill_standing, history>>

\* if (kill_standing) { ...; standing = false } else kill_standing = true
ToggleKillStanding ==
  /\ PlayerGoes("standing2", "wait")
  /\ kill_standing' = ~kill_standing
  /\ standing' = IF kill_standing THEN FALSE ELSE standing
  /\ UNCHANGED <<sensorIdx, actuatorIdx, stiffen, semaphore, agentVars, alive,
                 playerSlot, history>>

PlayerStep ==
  \/ Wait \/ LoadLatest \/ StoreRead \/ CopySensors \/ CopyButtons \/ GetStanding
  \/ PickSlot \/ WriteJoints \/ WriteStiffen \/ PublishActuators
  \/ StoreKillStanding \/ ToggleKillStanding

\* ThreadManager catches a fault of the Motion thread and builds a new
\* MotionAdapter in the same process; the static kill_standing survives.
MotionRestart ==
  /\ alive
  /\ playerPc # "wait"
  /\ playerPc' = "wait"
  /\ UNCHANGED <<sensorIdx, actuatorIdx, stiffen, standing, semaphore, agentVars, alive,
                 playerSlot, kill_standing, history>>

\* The player process dies between any two steps (crash, killall).
PlayerDies ==
  /\ alive
  /\ alive' = FALSE
  /\ UNCHANGED <<sensorIdx, actuatorIdx, stiffen, standing, semaphore, agentVars, playerPc,
                 playerSlot, kill_standing, history>>

PlayerStarts ==
  /\ ~alive
  /\ alive' = TRUE
  /\ playerPc' = "wait"
  /\ kill_standing' = FALSE
  /\ UNCHANGED <<sensorIdx, actuatorIdx, stiffen, standing, semaphore, agentVars,
                 playerSlot, history>>

-----------------------------------------------------------------------------

\* The shared memory object and the semaphore outlive naoqi, so the semaphore's
\* value and the stiffen slot in use may be those an earlier session left.
Init ==
  /\ sensors_read = 0 /\ sensors_latest = 0
  /\ actuators_read = 0 /\ actuators_latest = 0
  /\ \E left \in {"NONE", "STIFFEN"} :
       stiffen = [s \in Slots |-> IF s = 0 THEN left ELSE "NONE"]
  /\ owed = Stiffened
  /\ standing = FALSE
  /\ semaphore \in 0..1
  /\ mapped = TRUE
  /\ shuttingDown = FALSE
  /\ limp = TRUE
  /\ skipped_frames = 0
  /\ agentPc = "pre" /\ agentSlot = 0
  /\ alive = FALSE
  /\ playerPc = "wait" /\ playerSlot = 0
  /\ kill_standing = FALSE
  /\ sinceWait = MAX_SKIPS + 1
  /\ standRequest = "none"

Next ==
  \/ AgentStep \/ CallbackReturns \/ ShutDown \/ Unmap \/ AgentStart
  \/ PlayerStep \/ MotionRestart \/ PlayerDies \/ PlayerStarts

\* naoqi calls the callbacks every cycle for as long as it runs, and the Motion
\* thread runs (SCHED_FIFO) for as long as its process lives.
Spec ==
  /\ Init
  /\ [][Next]_vars
  /\ WF_vars(AgentStep)
  /\ WF_vars(PlayerStep)

-----------------------------------------------------------------------------
(* Properties *)

TypeOK ==
  /\ sensors_read \in Slots /\ sensors_latest \in Slots
  /\ actuators_read \in Slots /\ actuators_latest \in Slots
  /\ stiffen \in [Slots -> {"NONE", "STIFFEN"}]
  /\ standing \in BOOLEAN
  /\ semaphore \in Nat
  /\ mapped \in BOOLEAN /\ shuttingDown \in BOOLEAN /\ limp \in BOOLEAN
  /\ skipped_frames \in 0..(MAX_SKIPS + 1)
  /\ agentPc \in AgentPcs /\ agentSlot \in Slots
  /\ alive \in BOOLEAN /\ playerPc \in PlayerPcs /\ playerSlot \in Slots
  /\ kill_standing \in BOOLEAN
  /\ sinceWait \in 0..(MAX_SKIPS + 1)
  /\ owed \in SUBSET Slots
  /\ standRequest \in {"none", "raised", "seen"}

\* "We only V() the semaphore if it is 0": although sem_getvalue and sem_post
\* are two calls, and P() may come between them, the semaphore never exceeds 1.
\* So a player that was away never replays a backlog of wake-ups.
SemaphoreBinary == semaphore <= 1

\* The Agent never counts more missed cycles than have passed since the player's
\* last P(), however the two race: a player that took a sample within MAX_SKIPS
\* cycles is not counted out of contact.
NoFalseLostContact ==
  [][skipped_frames' > skipped_frames => skipped_frames' <= sinceWait']_vars

\* Both writers' loops stop at the first slot that IS in use, so slot 0 is the
\* only one ever written, published or read: three buffers act as one.
OnlySlotZero ==
  /\ sensors_read = 0 /\ sensors_latest = 0
  /\ actuators_read = 0 /\ actuators_latest = 0

\* "Stop stiffen command being processed more than once": whenever doStiffen is
\* about to obey a STIFFEN, the player has stored one since the last was obeyed
\* (or an earlier session of naoqi left one).
StiffenAtMostOnce ==
  agentPc = "doStiffen" /\ stiffen[actuators_read] = "STIFFEN"
     => actuators_read \in owed

\* A player blocked in P() is woken, whatever happened to earlier players,
\* unless naoqi goes away.
NoMissedWakeup ==
  alive /\ playerPc = "wait" ~> playerPc # "wait" \/ ~alive \/ shuttingDown

\* Once the player is gone for good the Agent counts its way to lost contact
\* (and the fallback that sits the robot down), and stays there.
LostContactDetected ==
  <>[](~alive /\ ~shuttingDown) => <>[](skipped_frames > MAX_SKIPS)

\* As long as a player process lives, even one whose Motion thread keeps being
\* restarted, contact is made again and again.
ContactReestablished ==
  <>[](alive /\ ~shuttingDown) => []<>(skipped_frames = 0)

\* Access by access, with the player's P() between sem_getvalue and sem_post, crashes and
\* restarts anywhere, the semaphore and the count of missed cycles behave as if every
\* callback checked and posted at one instant: what Agent takes for granted.
Contact == INSTANCE Contact WITH since <- sinceWait, up <- mapped
ImplementsContact == Contact!Spec

\* "Find the right index to write to": the slot the Agent is writing is not the
\* one the player is copying.
NoTornSample ==
  ~ /\ agentPc \in {"writeSensors", "writeButtons"}
    /\ alive /\ playerPc \in {"copySensors", "copyButtons"}
    /\ agentSlot = sensors_read

\* "we need to wait one cycle in case standing was set after AgentTouch is run":
\* the effector does not lower `standing' before the player has seen it.
StandingIsSeen ==
  standRequest = "raised" /\ ~limp => standing

\* "Avoid race condition on shutdown": no callback uses AgentData once the
\* destructor has unmapped it.
NoUseAfterUnmap == agentPc \in AgentTouches => mapped
===============================================================================
