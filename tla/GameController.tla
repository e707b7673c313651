------------------------------ MODULE GameController ------------------------------
(***************************************************************************)
(* What state of the game the robots of a team play in.                    *)
(*                                                                         *)
(* The game controller of the match says which state the game is in, in    *)
(* packets that each robot receives or misses.  From SET to PLAYING the    *)
(* referee whistles first, and the packets follow late.  So a robot that   *)
(* hears a whistle in SET tells its team that it is PLAYING, and a robot   *)
(* in SET plays when enough of the team tells it so.  A robot that plays   *)
(* does not go back to SET because a packet says SET.                      *)
(*                                                                         *)
(* The thread GameController of each robot takes the packets that have     *)
(* come, decides, and writes its data; it writes what it tells in two      *)
(* steps, and the TeamTransmitter may read it between them.  A message of  *)
(* a robot reaches its team at once or never.  The whistles heard, the     *)
(* presses taken, the penalties and where a robot stands are inputs.       *)
(***************************************************************************)
EXTENDS Naturals, FiniteSets

CONSTANTS
  Robots,
  PlayerOne,     \* the robot whose number is one
  ActOnWhistle,  \* config debug.act_on_whistle
  MaxMishaps     \* bound: presses of the chest button, and faults of GameController

States == {"READY", "SET", "PLAYING"}   \* INITIAL and FINISHED are handled as READY is

ASSUME GameControllerAssumption ==
  /\ IsFiniteSet(Robots) /\ PlayerOne \in Robots
  /\ ActOnWhistle \in BOOLEAN
  /\ MaxMishaps \in Nat

VARIABLES
  official,    \* the state that the packets say
  data,        \* gameController.data.state of each robot
  told,        \* gameController.gameState of each robot, which it broadcasts
  pc,          \* where its GameController is: between ticks, in one, or between two writes
  local,       \* its GameController's own data.state
  opinion,     \* what each robot holds of each: incapacitated, playing or waiting
  mishaps,
  quiet,       \* history: in SET, and nothing but the packets has said PLAYING since it began
  released     \* history: the robots a packet of whose tick said neither SET nor PLAYING

robotVars == <<data, told, pc, local>>
historyVars == <<mishaps, quiet, released>>
vars == <<official, robotVars, opinion, historyVars>>

-----------------------------------------------------------------------------
(* Mutants *)

\* A packet in SET takes a robot that plays back to SET.
KeptNot(state, update) == update

\* Outside SET, too, a packet does not stop a robot that plays.
KeptAlways(state, update) == IF state = "PLAYING" THEN state ELSE update

\* The vote has no quorum: none of none is enough.
EnoughOfNone(playing, active, near) == 100 * playing >= (IF near THEN 30 ELSE 49) * active

-----------------------------------------------------------------------------
(* The match, which is not part of the program *)

Nobody ==
  /\ \A r \in Robots : data[r] # "PLAYING" /\ told[r] # "PLAYING" /\ local[r] # "PLAYING"
                       /\ pc[r] # "telling"
  /\ \A r, s \in Robots : opinion[r][s] # "playing"

\* The game controller is set to another state.
Call(state) ==
  /\ state # official
  /\ official' = state
  /\ quiet' = (state = "SET" /\ Nobody)
  /\ UNCHANGED <<robotVars, opinion, mishaps, released>>

-----------------------------------------------------------------------------
(* A tick of GameController *)

Start(r) ==
  /\ pc[r] = "idle"
  /\ pc' = [pc EXCEPT ![r] = "polling"]
  /\ local' = [local EXCEPT ![r] = data[r]]
  /\ UNCHANGED <<official, data, told, opinion, historyVars>>

\* "if GameController still saying we are in SET but we are already PLAYING, keep PLAYING"
Kept(state, update) == IF update = "SET" /\ state = "PLAYING" THEN state ELSE update

\* Of the packets of a tick, any number
Packet(r) ==
  /\ pc[r] = "polling"
  /\ local' = [local EXCEPT ![r] = Kept(@, official)]
  /\ released' = IF official \in {"SET", "PLAYING"} THEN released ELSE released \union {r}
  /\ UNCHANGED <<official, data, told, pc, opinion, mishaps, quiet>>

\* A press of the chest button lets a penalised robot play, whatever the state; another
\* one it penalises.
WithButton(state, letPlay) == IF letPlay THEN "PLAYING" ELSE state

\* What GameController would tell, before it asks the team.  What it told before is what
\* it read at the start of the tick, as nobody else writes it.
Heard(state, before, whistle) ==
  IF state = "SET" /\ (before = "PLAYING" \/ (whistle /\ ActOnWhistle)) THEN "PLAYING" ELSE state

\* Of the robots that are not incapacitated, is the part that plays large enough?
Enough(playing, active, near) ==
  active > 0 /\ 100 * playing >= (IF near THEN 30 ELSE 49) * active

TeamAgrees(r, near) ==
  LET active  == {s \in Robots : opinion[r][s] # "incapacitated"}
      playing == {s \in active : opinion[r][s] = "playing"}
  IN  ActOnWhistle /\ Enough(Cardinality(playing), Cardinality(active), near)

\* The data is written, and told as the state of it; what has only been heard is told
\* next.
Decide(r, letPlay, whistle, near) ==
  LET state   == WithButton(local[r], letPlay)
      heard   == Heard(state, told[r], whistle)
      decided == IF state = "SET" /\ TeamAgrees(r, near) THEN "PLAYING" ELSE state
  IN  /\ pc[r] = "polling"
      /\ letPlay => mishaps < MaxMishaps
      /\ data' = [data EXCEPT ![r] = decided]
      /\ told' = [told EXCEPT ![r] = decided]
      /\ local' = [local EXCEPT ![r] = decided]
      /\ pc' = [pc EXCEPT ![r] = IF heard = "PLAYING" /\ decided = "SET" THEN "telling" ELSE "idle"]
      /\ mishaps' = IF letPlay THEN mishaps + 1 ELSE mishaps
      /\ quiet' = (quiet /\ ~(whistle /\ ActOnWhistle) /\ ~letPlay)
      /\ released' = released \ {r}
      /\ UNCHANGED <<official, opinion>>

Tell(r) ==
  /\ pc[r] = "telling"
  /\ pc' = [pc EXCEPT ![r] = "idle"]
  /\ told' = [told EXCEPT ![r] = "PLAYING"]
  /\ UNCHANGED <<official, data, local, opinion, historyVars>>

\* A GameController that is built anew takes everything from the blackboard.
Fault(r) ==
  /\ pc[r] # "idle" /\ mishaps < MaxMishaps
  /\ pc' = [pc EXCEPT ![r] = "idle"]
  /\ local' = [local EXCEPT ![r] = data[r]]
  /\ mishaps' = mishaps + 1
  /\ released' = released \ {r}
  /\ UNCHANGED <<official, data, told, opinion, quiet>>

-----------------------------------------------------------------------------
(* The team's messages *)

\* What a robot holds of the sender of a message; down is a penalty, a dive or a pick-up
HoldsOf(state, down) ==
  IF down THEN "incapacitated" ELSE IF state = "PLAYING" THEN "playing" ELSE "waiting"

\* A robot r takes a broadcast of s.
Receive(r, s, down) ==
  /\ opinion' = [opinion EXCEPT ![r][s] = HoldsOf(told[s], down)]
  /\ UNCHANGED <<official, robotVars, historyVars>>

\* More than SECS_TILL_INCAPACITATED without a message of s
Silence(r, s) ==
  /\ opinion' = [opinion EXCEPT ![r][s] = "incapacitated"]
  /\ UNCHANGED <<official, robotVars, historyVars>>

-----------------------------------------------------------------------------

\* incapacitated is filled with the players' indices: zero, for player one, is false.
Init ==
  /\ official = "READY"
  /\ data = [r \in Robots |-> "READY"] /\ told = data /\ local = data
  /\ pc = [r \in Robots |-> "idle"]
  /\ opinion = [r \in Robots |-> [s \in Robots |-> IF s = PlayerOne THEN "waiting" ELSE "incapacitated"]]
  /\ mishaps = 0 /\ quiet = FALSE /\ released = {}

DecideAny(r) == \E letPlay, whistle, near \in BOOLEAN : Decide(r, letPlay, whistle, near)

Next ==
  \/ \E state \in States : Call(state)
  \/ \E r \in Robots :
       \/ Start(r) \/ Packet(r) \/ DecideAny(r) \/ Tell(r) \/ Fault(r)
       \/ \E s \in Robots : Silence(r, s) \/ (\E down \in BOOLEAN : Receive(r, s, down))

\* The thread ticks, and its packets are not all lost.  That every tick begins and ends is
\* said of the states, which TLC checks faster than weak fairness of the steps.
Fairness ==
  \A r \in Robots : []<>(pc[r] = "idle") /\ []<>(pc[r] # "idle") /\ SF_vars(Packet(r))

Spec == Init /\ [][Next]_vars /\ Fairness

-----------------------------------------------------------------------------
(* Properties *)

TypeOK ==
  /\ official \in States
  /\ data \in [Robots -> States] /\ told \in [Robots -> States] /\ local \in [Robots -> States]
  /\ pc \in [Robots -> {"idle", "polling", "telling"}]
  /\ opinion \in [Robots -> [Robots -> {"incapacitated", "playing", "waiting"}]]
  /\ mishaps \in 0..MaxMishaps
  /\ quiet \in BOOLEAN
  /\ released \in SUBSET Robots

\* Nobody starts by itself: if no robot played, or said so, when SET began, none plays
\* and none says so until a robot hears a whistle or is let play by its button, however
\* the messages and packets are lost and the ticks of the robots interleave.
NoFalseStart ==
  quiet => \A r \in Robots : data[r] # "PLAYING" /\ told[r] # "PLAYING"

\* A robot that plays stops only when a packet of the tick had a state other than SET and
\* PLAYING: not for what its team says, nor for the late packets in SET.
KeepsPlaying ==
  [][\A r \in Robots : data[r] = "PLAYING" /\ data'[r] # "PLAYING" => r \in released]_vars

\* The packets have the last word, outside SET: the whole team follows them, whatever it
\* tells itself, unless they change again first.
FollowsOfficial ==
  \A s \in {"READY", "PLAYING"} :
    official = s ~> (\A r \in Robots : data[r] = s) \/ official # s
=================================================================================
