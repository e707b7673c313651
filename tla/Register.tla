-------------------------------- MODULE Register --------------------------------
(***************************************************************************)
(* A request that one thread posts and another takes, each at one instant. *)
(* This is how FallProtection sees the blackboard's request.  Blackboard   *)
(* is shown to implement it.                                               *)
(***************************************************************************)

CONSTANTS Values, None

VARIABLES
  posted,   \* what was posted last
  taken     \* what the reader works with

vars == <<posted, taken>>

Init == posted = None /\ taken = None

Post == posted' \in Values /\ UNCHANGED taken

Take == taken' = posted /\ UNCHANGED posted

\* The reader is built anew, with nothing in its hands.
Drop == taken' = None /\ UNCHANGED posted

Next == Post \/ Take \/ Drop

Spec == Init /\ [][Next]_vars
=================================================================================
