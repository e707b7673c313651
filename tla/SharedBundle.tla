------------------------------ MODULE SharedBundle -------------------------------
(***************************************************************************)
(* How what one robot has seen of the ball gets into the team ball of      *)
(* another.                                                                *)
(*                                                                         *)
(* Each tick of a player's Perception makes a bundle of its estimate of    *)
(* the ball, and of whether the ball has been seen since the last bundle   *)
(* was sent.  Its TeamTransmitter copies the bundle, sends it, and says so *)
(* by lowering a flag, which Perception raises again after every bundle.   *)
(* At the receiving robot, the handler of TeamReceiver raises a flag and   *)
(* stores the data; each tick of Perception merges the data that is        *)
(* flagged and then lowers all the flags.  Nothing is locked.              *)
(*                                                                         *)
(* Perception is faster than TeamTransmitter, which sends once a second:   *)
(* it ticks from its beginning to its end between any two messages.        *)
(* Neither is rebuilt here.                                                *)
(***************************************************************************)
EXTENDS Naturals

CONSTANTS
  Players,   \* those who send
  MaxSeen    \* bound: how often a player sees the ball

Bundles == [haveBallUpdate : BOOLEAN, seen : 0..MaxSeen]
NoBundle == [haveBallUpdate |-> FALSE, seen |-> 0]

VARIABLES
  seen,                             \* how often each player has seen the ball
  perception,                       \* each player's Perception: before, in and at the end of a tick
  haveOutgoingBallUpdate,           \* of its BallCMKF
  estimated,                        \* the bundle of estimatorInfoOut
  sharedStateEstimationBundle,      \* the bundle on the blackboard
  havePendingOutgoingSharedBundle,  \* TRUE until the bundle is sent
  ticked,                           \* Perception's next tick since the last message: none
                                    \* yet, begun, or whole
  transmitter,                      \* what TeamTransmitter does next: copy or send
  broadcastData,                    \* its copy
  air,                              \* the player's message on its way, or none
  handler,                          \* what the receiver's handler does next: take, flag or store
  received,                         \* its message, and whom it is of
  sender,
  pending,                          \* its copy of the flags
  havePendingIncomingSharedBundle,  \* the receiver's flags
  data,                             \* the receiver's data of each player
  merging,                          \* whether its Perception has merged, and lowers the flags next
  merged,                           \* history: what was seen at the last update that it merged
  mergedTwice                       \* history: it has merged an update with nothing seen since

playerVars == <<seen, perception, haveOutgoingBallUpdate, estimated>>
outVars == <<sharedStateEstimationBundle, havePendingOutgoingSharedBundle>>
sendVars == <<transmitter, broadcastData>>
handlerVars == <<handler, received, sender, pending, data>>
mergeVars == <<merging, merged, mergedTwice>>
receiverVars == <<handlerVars, mergeVars, havePendingIncomingSharedBundle>>
vars == <<playerVars, outVars, ticked, sendVars, air, receiverVars>>

-----------------------------------------------------------------------------
(* A tick of a player's Perception *)

\* The flag is read; then the ball is seen, or not.
Estimate(p, ball) ==
  LET unsent == havePendingOutgoingSharedBundle[p] /\ haveOutgoingBallUpdate[p]
      count  == IF ball THEN seen[p] + 1 ELSE seen[p]
  IN  /\ perception[p] = "start" /\ count <= MaxSeen
      /\ perception' = [perception EXCEPT ![p] = "bundle"]
      /\ seen' = [seen EXCEPT ![p] = count]
      /\ haveOutgoingBallUpdate' = [haveOutgoingBallUpdate EXCEPT ![p] = unsent \/ ball]
      /\ estimated' = [estimated EXCEPT ![p] = [haveBallUpdate |-> unsent \/ ball, seen |-> count]]
      /\ ticked' = [ticked EXCEPT ![p] = IF @ = "none" THEN "begun" ELSE @]
      /\ UNCHANGED <<outVars, sendVars, air, receiverVars>>

WriteBundle(p) ==
  /\ perception[p] = "bundle"
  /\ perception' = [perception EXCEPT ![p] = "flag"]
  /\ sharedStateEstimationBundle' = [sharedStateEstimationBundle EXCEPT ![p] = estimated[p]]
  /\ UNCHANGED <<seen, haveOutgoingBallUpdate, estimated, havePendingOutgoingSharedBundle,
                 ticked, sendVars, air, receiverVars>>

RaiseFlag(p) ==
  /\ perception[p] = "flag"
  /\ perception' = [perception EXCEPT ![p] = "start"]
  /\ havePendingOutgoingSharedBundle' = [havePendingOutgoingSharedBundle EXCEPT ![p] = TRUE]
  /\ ticked' = [ticked EXCEPT ![p] = IF @ = "begun" THEN "whole" ELSE @]
  /\ UNCHANGED <<seen, haveOutgoingBallUpdate, estimated, sharedStateEstimationBundle,
                 sendVars, air, receiverVars>>

-----------------------------------------------------------------------------
(* A tick of its TeamTransmitter *)

CopyBundle(p) ==
  /\ transmitter[p] = "copy" /\ ticked[p] = "whole"
  /\ transmitter' = [transmitter EXCEPT ![p] = "send"]
  /\ broadcastData' = [broadcastData EXCEPT ![p] = sharedStateEstimationBundle[p]]
  /\ UNCHANGED <<playerVars, outVars, ticked, air, receiverVars>>

\* A message that has not been taken when the next is sent is lost.
Send(p) ==
  /\ transmitter[p] = "send"
  /\ transmitter' = [transmitter EXCEPT ![p] = "copy"]
  /\ havePendingOutgoingSharedBundle' = [havePendingOutgoingSharedBundle EXCEPT ![p] = FALSE]
  /\ ticked' = [ticked EXCEPT ![p] = "none"]
  /\ air' = [air EXCEPT ![p] = {broadcastData[p]}]
  /\ UNCHANGED <<playerVars, sharedStateEstimationBundle, broadcastData, receiverVars>>

-----------------------------------------------------------------------------
(* The receiver's handler *)

Take(p) ==
  /\ handler = "take"
  /\ \E bundle \in air[p] : received' = bundle
  /\ air' = [air EXCEPT ![p] = {}]
  /\ handler' = "flag" /\ sender' = p
  /\ pending' = [havePendingIncomingSharedBundle EXCEPT ![p] = TRUE]
  /\ UNCHANGED <<playerVars, outVars, ticked, sendVars, data, mergeVars, havePendingIncomingSharedBundle>>

Flag ==
  /\ handler = "flag"
  /\ handler' = "store"
  /\ havePendingIncomingSharedBundle' = pending
  /\ UNCHANGED <<playerVars, outVars, ticked, sendVars, air, received, sender, pending, data, mergeVars>>

Store ==
  /\ handler = "store"
  /\ handler' = "take"
  /\ data' = [data EXCEPT ![sender] = received]
  /\ UNCHANGED <<playerVars, outVars, ticked, sendVars, air, received, sender, pending, mergeVars,
                 havePendingIncomingSharedBundle>>

-----------------------------------------------------------------------------
(* A tick of the receiver's Perception *)

\* The data that is flagged, and is an update, is merged into the team ball.
Merge ==
  LET updates == {p \in Players : havePendingIncomingSharedBundle[p] /\ data[p].haveBallUpdate}
  IN  /\ ~merging
      /\ merging' = TRUE
      /\ merged' = [p \in Players |-> IF p \in updates THEN data[p].seen ELSE merged[p]]
      /\ mergedTwice' = (mergedTwice \/ \E p \in updates : data[p].seen <= merged[p])
      /\ UNCHANGED <<playerVars, outVars, ticked, sendVars, air, handlerVars, havePendingIncomingSharedBundle>>

LowerFlags ==
  /\ merging
  /\ merging' = FALSE
  /\ havePendingIncomingSharedBundle' = [p \in Players |-> FALSE]
  /\ UNCHANGED <<playerVars, outVars, ticked, sendVars, air, handlerVars, merged, mergedTwice>>

-----------------------------------------------------------------------------

Init ==
  /\ seen = [p \in Players |-> 0]
  /\ perception = [p \in Players |-> "start"]
  /\ haveOutgoingBallUpdate \in [Players -> BOOLEAN]   \* not initialised
  /\ estimated = [p \in Players |-> NoBundle]
  /\ sharedStateEstimationBundle = [p \in Players |-> NoBundle]
  /\ havePendingOutgoingSharedBundle = [p \in Players |-> FALSE]
  /\ ticked = [p \in Players |-> "whole"]   \* a message may precede the first tick
  /\ transmitter = [p \in Players |-> "copy"]
  /\ broadcastData = [p \in Players |-> NoBundle]
  /\ air = [p \in Players |-> {}]
  /\ handler = "take" /\ received = NoBundle /\ sender \in Players
  /\ pending = [p \in Players |-> FALSE] /\ havePendingIncomingSharedBundle = pending
  /\ data = [p \in Players |-> NoBundle]
  /\ merging = FALSE /\ merged = [p \in Players |-> 0] /\ mergedTwice = FALSE

Next ==
  \/ \E p \in Players :
       \/ \E ball \in BOOLEAN : Estimate(p, ball)
       \/ WriteBundle(p) \/ RaiseFlag(p)
       \/ CopyBundle(p) \/ Send(p)
       \/ Take(p)
  \/ Flag \/ Store
  \/ Merge \/ LowerFlags

Spec == Init /\ [][Next]_vars

-----------------------------------------------------------------------------
(* Properties *)

\* "updates ALWAYS decrease uncertainty.  Uncertainty should not decrease if no one has
\* seen the ball": an update is merged only if its player has seen the ball since the
\* last update of that player that was merged.
UncertaintyNeedsASighting == ~mergedTwice
=================================================================================
