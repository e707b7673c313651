-------------------------------- MODULE Failsafe --------------------------------
(***************************************************************************)
(* What libagent promises about the motors, without buttons, counters or   *)
(* shared memory.  They are powerless, follow the player, or take the      *)
(* robot down to a crouch.  The player may only take them over while it is *)
(* heard; a robot on its way down is not handed back to it; and a crouch   *)
(* ends without power.  Agent is shown to implement this, and so is LoLA,  *)
(* where runswift does itself what libagent did on the older robots.       *)
(***************************************************************************)

VARIABLES
  power,     \* what the motors were last told
  seating,   \* the robot is on its way down, and owed a limp
  heard,     \* the player has taken a sample lately
  up         \* what drives the motors runs: naoqi, or runswift with LoLA

vars == <<power, seating, heard, up>>

Init == power = "none" /\ seating = FALSE /\ heard = FALSE /\ up = TRUE

\* The player's joints are played.
Drive ==
  /\ up /\ heard /\ ~seating
  /\ power' = "player"
  /\ UNCHANGED <<seating, heard, up>>

\* The robot is taken down a step.
Seat ==
  /\ up
  /\ power' = "seat" /\ seating' = TRUE
  /\ UNCHANGED <<heard, up>>

\* The motors lose their power; at the end of the way down nothing is owed.
Release ==
  /\ up
  /\ power' = "none" /\ seating' \in {seating, FALSE}
  /\ UNCHANGED <<heard, up>>

\* The operator, or a player that stands the robot up, has made it limp.
GoLimp ==
  /\ up
  /\ seating' = FALSE
  /\ UNCHANGED <<power, heard, up>>

Hear == heard' = TRUE /\ UNCHANGED <<power, seating, up>>

LoseContact == up /\ heard' = FALSE /\ UNCHANGED <<power, seating, up>>

\* naoqi is restarted, perhaps with the player: it comes back powerless.
Stop  == up' = FALSE /\ heard' \in {heard, FALSE} /\ UNCHANGED <<power, seating>>
Start ==
  /\ ~up /\ up' = TRUE
  /\ power' = "none" /\ seating' = FALSE
  /\ heard' \in BOOLEAN

Next == Drive \/ Seat \/ Release \/ GoLimp \/ Hear \/ LoseContact \/ Stop \/ Start

Spec == Init /\ [][Next]_vars
=================================================================================
