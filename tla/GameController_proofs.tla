--------------------------- MODULE GameController_proofs ---------------------------
(***************************************************************************)
(* For every team and every number of presses and faults: nobody starts by *)
(* itself, who plays keeps playing, and all follow the packets but in SET. *)
(*                                                                         *)
(* The last one supposes that packets with news can be taken, PacketReady, *)
(* and induction over the mishaps and over the team.                       *)
(***************************************************************************)
EXTENDS GameController, FiniteSetTheorems, TLAPS

-----------------------------------------------------------------------------
(* The inductive invariant *)

\* While it is quiet nothing, not even what is about to be written, says PLAYING.
QuietInv == quiet => official = "SET" /\ Nobody

\* A tick that began with PLAYING has it still, unless a packet has taken it.
TickInv ==
  \A r \in Robots : pc[r] = "polling" /\ data[r] = "PLAYING" /\ r \notin released => local[r] = "PLAYING"

IInv == TypeOK /\ QuietInv /\ TickInv

-----------------------------------------------------------------------------
(* Lemmas *)

\* Where no opinion is PLAYING the team does not agree: none is not enough of any number.
LEMMA NoneIsNotEnough ==
  ASSUME NEW r \in Robots, NEW near \in BOOLEAN, \A s \in Robots : opinion[r][s] # "playing"
  PROVE  ~TeamAgrees(r, near)
<1> DEFINE active == {s \in Robots : opinion[r][s] # "incapacitated"}
           playing == {s \in active : opinion[r][s] = "playing"}
<1>1. playing = {}
  OBVIOUS
<1>2. Cardinality(playing) = 0
  BY <1>1, FS_EmptySet
<1>3. Cardinality(active) \in Nat
  BY GameControllerAssumption, FS_Subset, FS_CardinalityType
<1>4. ~Enough(0, Cardinality(active), near)
  BY <1>3 DEF Enough
<1> QED
  BY <1>2, <1>4 DEF TeamAgrees

\* What a tick makes of a state is a state.
LEMMA KeptType == ASSUME NEW s \in States, NEW u \in States PROVE Kept(s, u) \in States
  BY DEF Kept

\* The first state is sound.
LEMMA InitInv == Init => IInv
<1> SUFFICES ASSUME Init PROVE IInv
  OBVIOUS
<1>1. /\ official = "READY" /\ data = [r \in Robots |-> "READY"] /\ told = data /\ local = data
      /\ pc = [r \in Robots |-> "idle"]
      /\ mishaps = 0 /\ quiet = FALSE /\ released = {}
  BY DEF Init
<1>2. opinion \in [Robots -> [Robots -> {"incapacitated", "playing", "waiting"}]]
  BY DEF Init
<1>3. mishaps \in 0..MaxMishaps
  BY <1>1, GameControllerAssumption
<1>4. data \in [Robots -> States] /\ pc \in [Robots -> {"idle", "polling", "telling"}]
  BY <1>1 DEF States
<1>5. TypeOK
  BY <1>1, <1>2, <1>3, <1>4 DEF TypeOK, States
<1> QED
  BY <1>1, <1>5 DEF IInv, QuietInv, TickInv

\* The game controller's call
LEMMA CallStep == ASSUME IInv, NEW state \in States, Call(state) PROVE IInv'
<1>1. TypeOK'
  BY DEF IInv, TypeOK, Call, robotVars
<1>2. QuietInv'
  BY DEF Call, QuietInv, Nobody, robotVars
<1>3. TickInv'
  BY DEF IInv, TickInv, Call, robotVars
<1> QED
  BY <1>1, <1>2, <1>3 DEF IInv

\* A tick starts with the data.
LEMMA StartStep == ASSUME IInv, NEW r \in Robots, Start(r) PROVE IInv'
<1>1. TypeOK'
  BY DEF IInv, TypeOK, Start, historyVars
<1>2. QuietInv'
  BY DEF IInv, TypeOK, Start, QuietInv, Nobody, historyVars
<1>3. TickInv'
  BY DEF IInv, TypeOK, TickInv, Start, historyVars
<1> QED
  BY <1>1, <1>2, <1>3 DEF IInv

\* A packet does not bring PLAYING in SET, and takes it only when it releases.
LEMMA PacketStep == ASSUME IInv, NEW r \in Robots, Packet(r) PROVE IInv'
<1>1. TypeOK'
  <2>1. Kept(local[r], official) \in States
    BY KeptType DEF IInv, TypeOK
  <2> QED
    BY <2>1 DEF IInv, TypeOK, Packet
<1>2. QuietInv'
  BY DEF IInv, TypeOK, Packet, Kept, QuietInv, Nobody
<1>3. TickInv'
  BY DEF IInv, TypeOK, TickInv, Packet, Kept
<1> QED
  BY <1>1, <1>2, <1>3 DEF IInv

\* While it is quiet a tick decides for SET and for nothing to tell.
LEMMA DecideStep ==
  ASSUME IInv, NEW r \in Robots, NEW letPlay \in BOOLEAN, NEW whistle \in BOOLEAN,
         NEW near \in BOOLEAN, Decide(r, letPlay, whistle, near)
  PROVE  IInv' /\ (data[r] = "PLAYING" /\ data'[r] # "PLAYING" => r \in released)
<1> DEFINE state   == WithButton(local[r], letPlay)
           heard   == Heard(state, told[r], whistle)
           decided == IF state = "SET" /\ TeamAgrees(r, near) THEN "PLAYING" ELSE state
           telling == heard = "PLAYING" /\ decided = "SET"
<1>1. /\ pc[r] = "polling"
      /\ data' = [data EXCEPT ![r] = decided] /\ told' = [told EXCEPT ![r] = decided]
      /\ local' = [local EXCEPT ![r] = decided]
      /\ pc' = [pc EXCEPT ![r] = IF telling THEN "telling" ELSE "idle"]
      /\ released' = released \ {r} /\ official' = official /\ opinion' = opinion
      /\ quiet' = (quiet /\ ~(whistle /\ ActOnWhistle) /\ ~letPlay)
  BY DEF Decide
<1>2. decided \in States
  BY DEF IInv, TypeOK, WithButton, States
<1>3. mishaps' \in 0..MaxMishaps
  BY GameControllerAssumption DEF Decide, IInv, TypeOK
<1>4. quiet' \in BOOLEAN
  BY <1>1 DEF IInv, TypeOK
<1>5. TypeOK'
  <2> HIDE DEF decided, telling
  <2> QED
    BY <1>1, <1>2, <1>3, <1>4 DEF IInv, TypeOK
<1>6. ASSUME quiet'
      PROVE  decided # "PLAYING" /\ ~telling
  <2>1. quiet /\ ~letPlay /\ ~(whistle /\ ActOnWhistle)
    BY <1>1, <1>6
  <2>2. local[r] # "PLAYING" /\ told[r] # "PLAYING" /\ ~TeamAgrees(r, near)
    BY <2>1, NoneIsNotEnough DEF IInv, QuietInv, Nobody
  <2> QED
    BY <2>1, <2>2 DEF WithButton, Heard
<1>7. QuietInv'
  <2> HIDE DEF decided, telling
  <2> QED
    BY <1>1, <1>6 DEF IInv, TypeOK, QuietInv, Nobody
<1>8. TickInv'
  <2> HIDE DEF decided, telling
  <2> QED
    BY <1>1 DEF IInv, TypeOK, TickInv
<1>9. ASSUME data[r] = "PLAYING", r \notin released
      PROVE  data'[r] = "PLAYING"
  <2>1. local[r] = "PLAYING"
    BY <1>1, <1>9 DEF IInv, TickInv
  <2>2. decided = "PLAYING"
    BY <2>1 DEF WithButton
  <2> QED
    BY <1>1, <2>2 DEF IInv, TypeOK
<1> QED
  BY <1>5, <1>7, <1>8, <1>9 DEF IInv

\* What has been heard is told, and a fault forgets it.
LEMMA TellStep == ASSUME IInv, NEW r \in Robots, Tell(r) \/ Fault(r) PROVE IInv'
<1>1. TypeOK'
  <2>1. CASE Tell(r)
    BY <2>1 DEF IInv, TypeOK, States, Tell, historyVars
  <2>2. CASE Fault(r)
    <3>1. mishaps' \in 0..MaxMishaps
      BY <2>2, GameControllerAssumption DEF IInv, TypeOK, Fault
    <3> QED
      BY <2>2, <3>1 DEF IInv, TypeOK, Fault
  <2> QED
    BY <2>1, <2>2
<1>2. QuietInv'
  <2>1. CASE Tell(r)
    BY <2>1 DEF IInv, QuietInv, Nobody, Tell, historyVars
  <2>2. CASE Fault(r)
    BY <2>2 DEF IInv, TypeOK, QuietInv, Nobody, Fault
  <2> QED
    BY <2>1, <2>2
<1>3. TickInv'
  BY DEF IInv, TypeOK, TickInv, Tell, Fault, historyVars
<1> QED
  BY <1>1, <1>2, <1>3 DEF IInv

\* A message of a robot that does not tell PLAYING does not bring it.
LEMMA MessageStep ==
  ASSUME IInv, NEW r \in Robots, NEW s \in Robots,
         Silence(r, s) \/ \E down \in BOOLEAN : Receive(r, s, down)
  PROVE  IInv'
<1>1. PICK held \in {"incapacitated", "playing", "waiting"} :
        /\ opinion' = [opinion EXCEPT ![r] = [opinion[r] EXCEPT ![s] = held]]
        /\ held = "playing" => told[s] = "PLAYING"
  BY DEF Silence, Receive, HoldsOf
<1>2. UNCHANGED <<official, robotVars, historyVars>>
  BY DEF Silence, Receive
<1>3. TypeOK'
  <2>1. opinion' \in [Robots -> [Robots -> {"incapacitated", "playing", "waiting"}]]
    BY <1>1 DEF IInv, TypeOK
  <2> QED
    BY <1>2, <2>1 DEF IInv, TypeOK, robotVars, historyVars
<1>4. QuietInv'
  <2>1. ASSUME QuietInv, quiet, NEW p \in Robots, NEW q \in Robots
        PROVE  opinion'[p][q] # "playing"
    <3>1. opinion'[p][q] = held \/ opinion'[p][q] = opinion[p][q]
      BY <1>1 DEF IInv, TypeOK
    <3>2. opinion[p][q] # "playing" /\ held # "playing"
      BY <1>1, <2>1 DEF QuietInv, Nobody
    <3> QED
      BY <3>1, <3>2
  <2> QED
    BY <1>2, <2>1 DEF IInv, QuietInv, Nobody, robotVars, historyVars
<1>5. TickInv'
  BY <1>2 DEF IInv, TickInv, robotVars, historyVars
<1> QED
  BY <1>3, <1>4, <1>5 DEF IInv

\* Every step keeps the invariant.
LEMMA StepInv == IInv /\ [Next]_vars => IInv'
<1> SUFFICES ASSUME IInv, [Next]_vars PROVE IInv'
  OBVIOUS
<1>1. CASE UNCHANGED vars
  BY <1>1 DEF IInv, TypeOK, QuietInv, Nobody, TickInv, vars, robotVars, historyVars
<1>2. CASE Next
  BY <1>2, CallStep, StartStep, PacketStep, DecideStep, TellStep, MessageStep DEF Next, DecideAny
<1> QED
  BY <1>1, <1>2

-----------------------------------------------------------------------------
(* Theorems *)

\* The inductive invariant holds throughout.
THEOREM Invariance == Spec => []IInv
  BY InitInv, StepInv, PTL DEF Spec

\* Every variable keeps its type.
THEOREM TypeCorrect == Spec => []TypeOK
<1>1. IInv => TypeOK
  BY DEF IInv
<1> QED
  BY <1>1, Invariance, PTL

\* No robot of a team of any size starts without a whistle, a press or a packet.
THEOREM NobodyStarts == Spec => []NoFalseStart
<1>1. IInv => NoFalseStart
  BY DEF IInv, QuietInv, Nobody, NoFalseStart
<1> QED
  BY <1>1, Invariance, PTL

\* A robot that plays stops only for a packet that says neither SET nor PLAYING.
THEOREM KeptPlaying == Spec => KeepsPlaying
<1>1. ASSUME IInv, [Next]_vars,
             NEW r \in Robots, data[r] = "PLAYING", data'[r] # "PLAYING"
      PROVE  r \in released
  <2>1. PICK p \in Robots : DecideAny(p)
    BY <1>1 DEF Next, Call, Start, Packet, Tell, Fault, Silence, Receive, vars, robotVars
  <2>2. PICK letPlay, whistle, near \in BOOLEAN : Decide(p, letPlay, whistle, near)
    BY <2>1 DEF DecideAny
  <2>3. p = r
    BY <1>1, <2>2 DEF Decide, IInv, TypeOK
  <2> QED
    BY <1>1, <2>2, <2>3, DecideStep
<1>2. IInv /\ [Next]_vars
        => (\A r \in Robots : data[r] = "PLAYING" /\ data'[r] # "PLAYING" => r \in released)
  BY <1>1
<1> QED
  BY <1>2, Invariance, PTL DEF Spec, KeepsPlaying

-----------------------------------------------------------------------------
(* Liveness.  ENABLED is out of the provers' reach: what strong fairness needs of it is a *)
(* hypothesis of the theorem.  So are two inductions, over the mishaps and over the team.  *)

\* In a tick, a packet that has something new to say can be taken.
PacketReady ==
  \A r \in Robots :
    pc[r] = "polling" /\ official # "SET" /\ local[r] # official => ENABLED <<Packet(r)>>_vars

\* What the specification promises of one robot
Fair(r) == []<>(pc[r] = "idle") /\ []<>(pc[r] # "idle") /\ SF_vars(Packet(r))

\* It does so of each.
LEMMA RobotsFair == Spec => \A r \in Robots : Fair(r)
  BY PTL DEF Spec, Fairness, Fair

\* A tick has taken the packet that says s.
Taken(r, s) == pc[r] = "polling" /\ local[r] = s

\* It has been written, and is where the next tick begins.
Given(r, s) == local[r] = s /\ data[r] = s

\* A step of one robot leaves the others alone.
LEMMA OthersStay ==
  ASSUME IInv, NEW r \in Robots, NEW p \in Robots \ {r},
         Start(p) \/ Packet(p) \/ DecideAny(p) \/ Tell(p) \/ Fault(p)
  PROVE  pc'[r] = pc[r] /\ local'[r] = local[r] /\ data'[r] = data[r]
<1>1. CASE Start(p) \/ Packet(p) \/ Tell(p) \/ Fault(p)
  BY <1>1 DEF IInv, TypeOK, Start, Packet, Tell, Fault, historyVars
<1>2. ASSUME NEW letPlay \in BOOLEAN, NEW whistle \in BOOLEAN, NEW near \in BOOLEAN,
             Decide(p, letPlay, whistle, near)
      PROVE  pc'[r] = pc[r] /\ local'[r] = local[r] /\ data'[r] = data[r]
  BY <1>2 DEF IInv, TypeOK, Decide
<1> QED
  BY <1>1, <1>2 DEF DecideAny

\* Once the mishaps are over a packet is what its tick decides, whatever was heard or is told
\* by the team, and what the next one begins with.
LEMMA FollowStep ==
  ASSUME NEW r \in Robots, NEW s \in {"READY", "PLAYING"},
         IInv, official = s, mishaps' = mishaps, [Next]_vars
  PROVE  /\ Given(r, s) => Given(r, s)'
         /\ Taken(r, s) => Taken(r, s)' \/ Given(r, s)'
         /\ <<Packet(r)>>_vars => Taken(r, s)'
         /\ pc[r] = "idle" => pc'[r] \in {"idle", "polling"}
<1>0. TypeOK /\ mishaps \in Nat
  BY GameControllerAssumption DEF IInv, TypeOK
<1>1. CASE Start(r)
  BY <1>0, <1>1 DEF Start, TypeOK, Given, Taken, Packet, historyVars
<1>2. CASE Packet(r)
  BY <1>0, <1>2 DEF Packet, Kept, TypeOK, Given, Taken
<1>3. ASSUME NEW letPlay \in BOOLEAN, NEW whistle \in BOOLEAN, NEW near \in BOOLEAN,
             Decide(r, letPlay, whistle, near)
      PROVE  /\ pc[r] = "polling" /\ pc'[r] # "polling" /\ (local[r] = s => Given(r, s)')
  <2>1. ~letPlay
    BY <1>0, <1>3 DEF Decide
  <2>2. pc[r] = "polling" /\ pc'[r] # "polling"
    BY <1>0, <1>3 DEF Decide, TypeOK
  <2>3. local[r] = s => data'[r] = s /\ local'[r] = s
    BY <1>0, <1>3, <2>1 DEF Decide, WithButton, TypeOK
  <2> QED
    BY <2>2, <2>3 DEF Given
<1>4. CASE Tell(r)
  BY <1>0, <1>4 DEF Tell, TypeOK, Given, Taken, Packet, historyVars
<1>5. ~\E p \in Robots : Fault(p)
  BY <1>0 DEF Fault
<1>6. ASSUME NEW p \in Robots \ {r}, Start(p) \/ Packet(p) \/ DecideAny(p) \/ Tell(p) \/ Fault(p)
      PROVE  pc'[r] = pc[r] /\ local'[r] = local[r] /\ data'[r] = data[r]
  BY <1>6, OthersStay
<1>7. ASSUME UNCHANGED vars \/ (\E state \in States : Call(state))
             \/ \E p, q \in Robots : Silence(p, q) \/ (\E down \in BOOLEAN : Receive(p, q, down))
      PROVE  pc'[r] = pc[r] /\ local'[r] = local[r] /\ data'[r] = data[r]
  BY <1>7 DEF vars, Call, Silence, Receive, robotVars
<1> QED
  BY <1>1, <1>2, <1>3, <1>4, <1>5, <1>6, <1>7 DEF Next, DecideAny, Given, Taken

\* There will be no more mishaps.
MishapsOver == <>[][UNCHANGED mishaps]_vars

\* There have been k of them, or there will be no more.
Mishaps(k) == <>[](mishaps >= k) \/ MishapsOver

\* A mishap is counted.
LEMMA MishapsOn ==
  ASSUME NEW CONSTANT k \in 0..MaxMishaps
  PROVE  Spec => (Mishaps(k) => Mishaps(k + 1))
<1>1. ASSUME IInv, [Next]_vars
      PROVE  mishaps' = mishaps \/ mishaps' = mishaps + 1
  BY <1>1 DEF Next, DecideAny, Decide, Start, Packet, Tell, Fault, Call, Silence, Receive, vars,
     historyVars
<1>2. IInv => mishaps \in Nat
  BY GameControllerAssumption DEF IInv, TypeOK
<1>3. IInv /\ [Next]_vars /\ mishaps >= k => UNCHANGED mishaps \/ (mishaps >= k + 1)'
  BY <1>1, <1>2, GameControllerAssumption
<1>4. IInv /\ [Next]_vars /\ mishaps >= k + 1 => (mishaps >= k + 1)'
  BY <1>1, <1>2, GameControllerAssumption
<1> QED
  BY <1>3, <1>4, Invariance, PTL DEF Spec, Mishaps, MishapsOver

\* Induction over the mishaps: true of all behaviours, but not to be had from the provers for a
\* temporal formula.
MishapInduction ==
  Mishaps(0) /\ (\A k \in 0..MaxMishaps : Mishaps(k) => Mishaps(k + 1)) => Mishaps(MaxMishaps + 1)

\* Mishaps come to an end, since there are at most MaxMishaps.
LEMMA MishapsEnd == Spec /\ MishapInduction => MishapsOver
<1>1. \A k \in 0..MaxMishaps : Spec => (Mishaps(k) => Mishaps(k + 1))
  BY MishapsOn
<1>2. IInv => mishaps >= 0 /\ ~(mishaps >= MaxMishaps + 1)
  BY GameControllerAssumption DEF IInv, TypeOK
<1>3. Spec => Mishaps(0)
  BY <1>2, Invariance, PTL DEF Mishaps
<1>4. Spec /\ MishapInduction => Mishaps(MaxMishaps + 1)
  BY <1>1, <1>3 DEF MishapInduction
<1> QED
  BY <1>2, <1>4, Invariance, PTL DEF Mishaps

\* The part of the team is in the state s.
AllIn(s, part) == \A r \in part : data[r] = s

\* It follows the packets, if these go on saying s.
Follows(s, part) == <>[](official = s) => <>[]AllIn(s, part)

\* One robot follows: of its packets one is taken, and its tick decides for it.
LEMMA OneFollows ==
  ASSUME NEW CONSTANT r \in Robots, NEW CONSTANT s \in {"READY", "PLAYING"}
  PROVE  Spec /\ Fair(r) /\ []PacketReady /\ MishapsOver => Follows(s, {r})
<1> DEFINE Rests == pc[r] = "idle"
           Polls == pc[r] = "polling"
<1>1. IInv /\ official = s /\ UNCHANGED mishaps /\ [Next]_vars
        => /\ Given(r, s) => Given(r, s)'
           /\ Taken(r, s) => Taken(r, s)' \/ Given(r, s)'
           /\ <<Packet(r)>>_vars => Taken(r, s)'
           /\ Rests => Rests' \/ Polls'
  BY FollowStep
<1>2. UNCHANGED vars => UNCHANGED mishaps
  BY DEF vars, historyVars
<1>3. PacketReady /\ official = s /\ Polls /\ ~Taken(r, s) => ENABLED <<Packet(r)>>_vars
  BY DEF PacketReady, Taken
<1>4. Taken(r, s) => Polls
  BY DEF Taken
<1>5. Given(r, s) => AllIn(s, {r})
  BY DEF Given, AllIn
<1>6. (pc[r] # "idle" <=> ~Rests) /\ (Polls => ~Rests)
  OBVIOUS
<1> QED
  BY <1>1, <1>2, <1>3, <1>4, <1>5, <1>6, Invariance, PTL DEF Spec, Fair, MishapsOver, Follows

\* Whoever follows is joined by the next one.
THEOREM FollowsOn ==
  ASSUME NEW CONSTANT s \in {"READY", "PLAYING"}, NEW CONSTANT part \in SUBSET Robots,
         NEW CONSTANT r \in Robots
  PROVE  Spec /\ []PacketReady /\ MishapInduction
           => (Follows(s, part) => Follows(s, part \union {r}))
<1>1. \A p \in Robots : \A u \in {"READY", "PLAYING"} :
        Spec /\ Fair(p) /\ []PacketReady /\ MishapsOver => Follows(u, {p})
  BY OneFollows
<1>2. Spec /\ []PacketReady /\ MishapInduction => Follows(s, {r})
  BY <1>1, RobotsFair, MishapsEnd
<1>3. AllIn(s, part) /\ AllIn(s, {r}) => AllIn(s, part \union {r})
  BY DEF AllIn
<1> QED
  BY <1>2, <1>3, PTL DEF Follows

\* Induction over the team, which is finite.
TeamInduction ==
  \A s \in {"READY", "PLAYING"} :
    Follows(s, {}) /\ (\A part \in SUBSET Robots, r \in Robots :
                         Follows(s, part) => Follows(s, part \union {r})) => Follows(s, Robots)

\* From where the packets say s, all come to be in it, or the packets change.
Leads(s) == official = s ~> (\A r \in Robots : data[r] = s) \/ official # s

\* A team that follows has the packets lead it.
LEMMA Led ==
  ASSUME NEW CONSTANT s
  PROVE  Follows(s, Robots) => Leads(s)
<1>1. AllIn(s, Robots) <=> \A r \in Robots : data[r] = s
  BY DEF AllIn
<1>2. official # s <=> ~(official = s)
  OBVIOUS
<1> QED
  BY <1>1, <1>2, PTL DEF Follows, Leads

\* A part without robots follows.
LEMMA NobodyFollows ==
  ASSUME NEW CONSTANT s
  PROVE  Follows(s, {})
<1>1. AllIn(s, {})
  BY DEF AllIn
<1> QED
  BY <1>1, PTL DEF Follows

\* Outside SET the packets have the last word, with a team of any finite size and any number of
\* mishaps.
THEOREM AllFollow ==
  Spec /\ []PacketReady /\ MishapInduction /\ TeamInduction => FollowsOfficial
<1>1. \A s \in {"READY", "PLAYING"} : \A part \in SUBSET Robots, r \in Robots :
        Spec /\ []PacketReady /\ MishapInduction
          => (Follows(s, part) => Follows(s, part \union {r}))
  BY FollowsOn
<1>2. \A s : Follows(s, {})
  BY NobodyFollows
<1>3. Spec /\ []PacketReady /\ MishapInduction /\ TeamInduction
        => \A s \in {"READY", "PLAYING"} : Follows(s, Robots)
  BY <1>1, <1>2 DEF TeamInduction
<1>4. \A s : Follows(s, Robots) => Leads(s)
  BY Led
<1>5. (\A s \in {"READY", "PLAYING"} : Leads(s)) => FollowsOfficial
  BY DEF FollowsOfficial, Leads
<1> QED
  BY <1>3, <1>4, <1>5
====================================================================================
