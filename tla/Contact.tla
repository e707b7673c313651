--------------------------------- MODULE Contact ---------------------------------
(***************************************************************************)
(* What the semaphore between libagent and the player comes to, once the   *)
(* accesses that make up a callback are forgotten: a V() when the player   *)
(* has done its P(), a missed cycle when it has not.  Agent works with the *)
(* semaphore this way.  AgentChannel, which looks inside the callbacks, is *)
(* shown to implement the same module.                                     *)
(***************************************************************************)
EXTENDS Naturals

CONSTANT MAX_SKIPS

VARIABLES
  semaphore,
  skipped_frames,   \* cycles missed since the last V(), saturates at MAX_SKIPS + 1
  since,            \* cycles since the last P(), saturates likewise
  up                \* libagent is there

vars == <<semaphore, skipped_frames, since, up>>

OneMore(n) == IF n > MAX_SKIPS THEN n ELSE n + 1

Init == semaphore \in 0..1 /\ skipped_frames = 0 /\ since = MAX_SKIPS + 1 /\ up = TRUE

\* The cycle of a player that has done its P().
Post ==
  /\ semaphore = 0 /\ semaphore' = 1
  /\ skipped_frames' = 0
  /\ since' = OneMore(since)
  /\ UNCHANGED up

\* The cycle of one that has not.
Miss ==
  /\ semaphore = 1 /\ UNCHANGED semaphore
  /\ skipped_frames' = OneMore(skipped_frames)
  /\ since' = OneMore(since)
  /\ UNCHANGED up

Take ==
  /\ semaphore = 1 /\ semaphore' = 0
  /\ since' = 0
  /\ UNCHANGED <<skipped_frames, up>>

\* libagent goes, wherever the counts are.
Stop == up /\ up' = FALSE /\ UNCHANGED <<semaphore, skipped_frames, since>>

\* libagent starts again, on the semaphore it finds.  What it is to make of a player
\* that is past its P() is up to whoever counts.
Restart ==
  /\ ~up /\ up' = TRUE
  /\ skipped_frames' = 0
  /\ since' \in {since, 0, MAX_SKIPS + 1}
  /\ UNCHANGED semaphore

Next == Post \/ Miss \/ Take \/ Stop \/ Restart

Spec == Init /\ [][Next]_vars
==================================================================================
