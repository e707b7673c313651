-------------------------- MODULE ThreadManager_proofs --------------------------
(***************************************************************************)
(* For every set of started threads, of fault signals and of stop signals: *)
(* the handler never leaves by a stale jump point, Perception never waits  *)
(* for itself, the process survives every first fault, and main() outlives *)
(* the threads it deletes the blackboard of.                               *)
(*                                                                         *)
(* As long as every thread that is not blocked has a step to take,         *)
(* ThreadsReady and MainReady, a process that is told to end does, and     *)
(* Perception comes back after a fault.                                    *)
(***************************************************************************)
EXTENDS ThreadManager, TLAPS

-----------------------------------------------------------------------------
(* The inductive invariant *)

\* From the setjmp to the free() of the catch the jump point is live.
JumpInv ==
  \A t \in Threads :
    pc[t] \in Working \cup {"run", "handler", "jump"} => jumpPoints[t] = "live"

\* Outside its two sections a Perception that has been built does not hold the lock.
LockInv ==
  pc["Perception"] \in {"run", "tick", "between", "behave", "destroy"} => serialization = "none"

\* A thread blocks the signals it was restarted for, and no others.
BlockedInv == \A t \in Threads : blocked[t] \subseteq taken[t]

\* A fault is without a handler only while one of its handlers is on its way to
\* register itself again.
DefaultInv ==
  \A s \in Faults :
    disposition[s] = "default" => \E u \in Threads : pc[u] = "handler" /\ caught[u] = s

\* A joined thread is over.
JoinInv ==
  /\ \A i \in 1..joined : JoinOrder[i] \in Threads => pc[JoinOrder[i]] = "done"
  /\ process = "ended" => joined = 7

IInv == TypeOK /\ JumpInv /\ LockInv /\ BlockedInv /\ DefaultInv /\ JoinInv /\ FirstFaultSurvived

\* main() joins seven threads.
LEMMA SevenJoined == Len(JoinOrder) = 7
  BY DEF JoinOrder

\* Every manager has its place in the order.
LEMMA AllInOrder ==
  ASSUME NEW t \in Managers
  PROVE  \E i \in 1..7 : JoinOrder[i] = t
<1> DEFINE o == JoinOrder
<1>1. /\ o[1] = "TeamReceiver" /\ o[2] = "TeamTransmitter" /\ o[3] = "OffnaoTransmitter"
      /\ o[4] = "GameController" /\ o[5] = "Motion" /\ o[6] = "Perception"
      /\ o[7] = "RemoteControlReceiver"
  BY DEF JoinOrder
<1>2. {1, 2, 3, 4, 5, 6, 7} \subseteq 1..7
  OBVIOUS
<1> HIDE DEF o
<1>3. t \in {o[1], o[2], o[3], o[4], o[5], o[6], o[7]}
  BY <1>1 DEF Managers
<1>4. \E i \in 1..7 : o[i] = t
  BY <1>2, <1>3
<1> QED
  BY <1>4 DEF o

-----------------------------------------------------------------------------
(* Steps of a thread *)

\* What a thread does by itself keeps the invariant.
LEMMA ThreadStep ==
  ASSUME IInv, process = "running", NEW t \in Threads, Step(t) \/ Throw(t)
  PROVE  IInv'
<1> USE DEF IInv, TypeOK, Pcs, Goto, signalVars, mainVars, lockVars
<1>1. UNCHANGED <<attemptingShutdown, joined, taken, causes, blocked>>
  BY DEF Step, Check, Arm, Build, Run, Destroy, Ticked, Catch, Resume, Register, Jump,
         Acquire, Release, Wait, Throw
<1>2. TypeOK'
  BY <1>1, ThreadAssumption DEF Step, Check, Arm, Build, Run, Destroy, Ticked, Catch, Resume,
         Register, Jump, Acquire, Release, Wait, Throw, AfterCheck, Armed, LockAfterBuild,
         DispositionRegistered, Working
<1>3. JumpInv'
  BY DEF JumpInv, Working, Step, Check, Arm, Build, Run, Destroy, Ticked, Catch, Resume,
         Register, Jump, Acquire, Release, Wait, Throw, AfterCheck, Armed
<1>4. LockInv'
  BY ThreadAssumption DEF LockInv, Working, Step, Check, Arm, Build, Run, Destroy, Ticked, Catch, Resume,
         Register, Jump, Acquire, Release, Wait, Throw, AfterCheck, LockAfterBuild
<1>5. BlockedInv'
  BY <1>1 DEF BlockedInv
<1>6. DefaultInv'
  BY ThreadAssumption DEF DefaultInv, Working, Step, Check, Arm, Build, Run, Destroy, Ticked, Catch, Resume,
         Register, Jump, Acquire, Release, Wait, Throw, DispositionRegistered
<1>7. \A u \in Threads : pc[u] = "done" => pc'[u] = "done"
  BY ThreadAssumption DEF Working, Step, Check, Arm, Build, Run, Destroy, Ticked, Catch, Resume,
         Register, Jump, Acquire, Release, Wait, Throw
<1>8. process' = "running"
  BY DEF JumpInv, Step, Check, Arm, Build, Run, Destroy, Ticked, Catch, Resume,
         Register, Jump, Acquire, Release, Wait, Throw
<1>9. JoinInv'
  BY <1>1, <1>7, <1>8 DEF JoinInv
<1>10. FirstFaultSurvived'
  BY <1>8 DEF FirstFaultSurvived
<1> QED
  BY <1>2, <1>3, <1>4, <1>5, <1>6, <1>9, <1>10

-----------------------------------------------------------------------------
(* Steps of the rest *)

\* A fault finds its handler, unless the history has an excuse.
LEMMA FaultStep ==
  ASSUME IInv, process = "running", NEW t \in Threads, NEW s \in Faults, Fault(t, s)
  PROVE  IInv'
<1> USE DEF IInv, TypeOK, Pcs, Goto, lockVars, Fault
<1>1. pc[t] \in Working /\ jumpPoints[t] = "live"
  BY DEF JumpInv
<1>2. TypeOK'
  BY ThreadAssumption
<1>3. JumpInv'
  BY <1>1 DEF JumpInv, Working
<1>4. LockInv'
  BY ThreadAssumption DEF LockInv
<1>5. BlockedInv'
  BY DEF BlockedInv
<1>6. DefaultInv'
  <2>1. CASE process' = "killed" /\ UNCHANGED <<pc, blocked, caught, disposition>>
    BY <2>1 DEF DefaultInv
  <2>2. CASE pc' = [pc EXCEPT ![t] = "handler"] /\ caught' = [caught EXCEPT ![t] = s]
             /\ disposition' = [disposition EXCEPT ![s] = "default"]
    <3>1. pc[t] # "handler"
      BY <1>1 DEF Working
    <3>2. ASSUME NEW r \in Faults, disposition'[r] = "default"
          PROVE  \E u \in Threads : pc'[u] = "handler" /\ caught'[u] = r
      <4>1. CASE r = s
        BY <2>2, <4>1
      <4>2. CASE r # s
        <5>1. disposition[r] = "default"
          BY <2>2, <3>2, <4>2
        <5>2. PICK u \in Threads : pc[u] = "handler" /\ caught[u] = r
          BY <5>1 DEF DefaultInv
        <5> QED
          BY <2>2, <3>1, <5>2
      <4> QED
        BY <4>1, <4>2
    <3> QED
      BY <3>2 DEF DefaultInv
  <2> QED
    BY <2>1, <2>2
<1>7. JoinInv'
  <2>1. pc[t] # "done" /\ process' # "ended" /\ joined' = joined
    BY <1>1 DEF Working
  <2>2. \A u \in Threads : pc[u] = "done" => pc'[u] = "done"
    BY <2>1
  <2> QED
    BY <2>1, <2>2 DEF JoinInv
<1>8. FirstFaultSurvived'
  <2>1. CASE s \in blocked[t]
    BY <2>1 DEF BlockedInv, FirstFaultSurvived
  <2>2. CASE disposition[s] = "default"
    BY <2>2 DEF DefaultInv, FirstFaultSurvived
  <2>3. CASE s \notin blocked[t] /\ disposition[s] # "default"
    BY <2>3 DEF FirstFaultSurvived
  <2> QED
    BY <2>1, <2>2, <2>3
<1> QED
  BY <1>2, <1>3, <1>4, <1>5, <1>6, <1>7, <1>8

\* The values that main() starts with
LEMMA FreshType ==
  /\ Fresh("check") \in [Threads -> Pcs]
  /\ Fresh("none") \in [Threads -> {"none", "live", "freed"}]
  /\ Fresh({}) \in [Threads -> SUBSET Faults]
  /\ Fresh("none") \in [Threads -> Faults \cup {"none"}]
  /\ [s \in Faults \cup Stops |-> "handler"] \in [Faults \cup Stops -> {"handler", "default"}]
  /\ 0 \in 0..Len(JoinOrder)
  BY SevenJoined DEF Fresh, Pcs

\* What comes from outside, main()'s joins and its end, and a new start keep it too.
LEMMA OtherStep ==
  ASSUME IInv,
         \/ process = "running"
            /\ (UnmanagedFault \/ GivesUp \/ Post \/ Join \/ End \/ \E s \in Stops : Interrupt(s))
         \/ Start
  PROVE  IInv'
<1>1. CASE UnmanagedFault
  <2>1. /\ UNCHANGED <<pc, jumpPoints, serialization, posted, blocked, caught, disposition, taken,
                       attemptingShutdown, joined>>
        /\ process' = "killed" /\ causes' = causes \cup {"unmanaged"}
    BY <1>1 DEF UnmanagedFault, lockVars
  <2>2. TypeOK'
    BY <2>1 DEF IInv, TypeOK
  <2>3. JoinInv' /\ FirstFaultSurvived'
    BY <2>1 DEF IInv, JoinInv, FirstFaultSurvived
  <2> QED
    BY <2>1, <2>2, <2>3 DEF IInv, JumpInv, LockInv, BlockedInv, DefaultInv
<1>2. CASE GivesUp \/ Post
  <2>1. /\ UNCHANGED <<pc, jumpPoints, serialization, blocked, caught, disposition, taken, causes,
                       joined, process>>
        /\ attemptingShutdown' \in {attemptingShutdown, TRUE} /\ posted' \in {posted, TRUE}
    BY <1>2 DEF GivesUp, Post, lockVars, signalVars, mainVars
  <2>2. TypeOK'
    BY <2>1 DEF IInv, TypeOK
  <2> QED
    BY <2>1, <2>2 DEF IInv, JumpInv, LockInv, BlockedInv, DefaultInv, JoinInv, FirstFaultSurvived
<1>3. ASSUME NEW s \in Stops, Interrupt(s), process = "running"
      PROVE  IInv'
  <2>1. s \notin Faults
    BY ThreadAssumption
  <2>2. DefaultInv'
    BY <1>3, <2>1 DEF Interrupt, DefaultInv, IInv, TypeOK
  <2>3. TypeOK'
    BY <1>3 DEF Interrupt, IInv, TypeOK, lockVars
  <2>4. process' # "ended" /\ FirstFaultSurvived'
    BY <1>3 DEF Interrupt, FirstFaultSurvived
  <2>5. UNCHANGED <<pc, jumpPoints, serialization, blocked, taken, joined>>
    BY <1>3 DEF Interrupt, lockVars
  <2>6. JoinInv'
    BY <2>4, <2>5 DEF IInv, JoinInv
  <2> QED
    BY <2>2, <2>3, <2>4, <2>5, <2>6 DEF IInv, JumpInv, LockInv, BlockedInv
<1>4. CASE Join
  <2>1. joined \in 0..6 /\ joined' = joined + 1
    BY <1>4, SevenJoined DEF Join, IInv, TypeOK
  <2>2. UNCHANGED <<pc, jumpPoints, lockVars, signalVars, attemptingShutdown, process>>
    BY <1>4 DEF Join
  <2>3. JoinInv'
    BY <1>4, <2>1, <2>2 DEF Join, JoinInv, IInv
  <2>4. TypeOK'
    BY <2>1, <2>2, SevenJoined DEF IInv, TypeOK, lockVars, signalVars
  <2> QED
    BY <2>2, <2>3, <2>4 DEF IInv, JumpInv, LockInv, BlockedInv, DefaultInv, FirstFaultSurvived,
                            lockVars, signalVars
<1>5. CASE End
  <2>1. UNCHANGED <<pc, jumpPoints, lockVars, signalVars, attemptingShutdown, joined>>
        /\ process' = "ended" /\ joined = 7
    BY <1>5, SevenJoined DEF End
  <2>2. TypeOK'
    BY <2>1 DEF IInv, TypeOK, lockVars, signalVars
  <2>3. JoinInv' /\ FirstFaultSurvived'
    BY <2>1 DEF IInv, JoinInv, FirstFaultSurvived
  <2> QED
    BY <2>1, <2>2, <2>3 DEF IInv, JumpInv, LockInv, BlockedInv, DefaultInv, lockVars, signalVars
<1>6. CASE Start
  <2>1. /\ pc' = Fresh("check") /\ jumpPoints' = Fresh("none") /\ blocked' = Fresh({})
        /\ caught' = Fresh("none") /\ taken' = Fresh({}) /\ causes' = {}
        /\ disposition' = [s \in Faults \cup Stops |-> "handler"]
        /\ serialization' = "none" /\ posted' = FALSE
        /\ attemptingShutdown' = FALSE /\ joined' = 0 /\ process' = "running"
    BY <1>6 DEF Start
  <2>2. TypeOK'
    BY <2>1, FreshType DEF TypeOK
  <2>3. JumpInv' /\ LockInv' /\ BlockedInv' /\ DefaultInv'
    BY <2>1, ThreadAssumption DEF JumpInv, LockInv, BlockedInv, DefaultInv, Fresh, Working
  <2>4. JoinInv' /\ FirstFaultSurvived'
    BY <2>1 DEF JoinInv, FirstFaultSurvived
  <2> QED
    BY <2>2, <2>3, <2>4 DEF IInv
<1> QED
  BY <1>1, <1>2, <1>3, <1>4, <1>5, <1>6

\* Every step keeps the invariant.
LEMMA StepInv == IInv /\ [Next]_vars => IInv'
<1> SUFFICES ASSUME IInv, [Next]_vars PROVE IInv'
  OBVIOUS
<1>1. CASE UNCHANGED vars
  BY <1>1 DEF vars, IInv, TypeOK, JumpInv, LockInv, BlockedInv, DefaultInv, JoinInv,
              FirstFaultSurvived, lockVars, signalVars, mainVars
<1>2. CASE Next
  BY <1>2, ThreadStep, FaultStep, OtherStep DEF Next
<1> QED
  BY <1>1, <1>2

\* IInv holds throughout every behaviour.
THEOREM Invariance == Spec => []IInv
<1>1. Init => IInv
  <2> SUFFICES ASSUME Init PROVE IInv
    OBVIOUS
  <2>1. TypeOK
    BY FreshType DEF Init, TypeOK
  <2>2. JumpInv /\ LockInv /\ BlockedInv /\ DefaultInv
    BY ThreadAssumption DEF Init, JumpInv, LockInv, BlockedInv, DefaultInv, Fresh, Working
  <2>3. JoinInv /\ FirstFaultSurvived
    BY DEF Init, JoinInv, FirstFaultSurvived
  <2> QED
    BY <2>1, <2>2, <2>3 DEF IInv
<1> QED
  BY <1>1, StepInv, PTL DEF Spec

-----------------------------------------------------------------------------
(* Theorems *)

\* Every variable keeps its type, for every set of threads and of signals.
THEOREM TypeCorrect == Spec => []TypeOK
<1>1. IInv => TypeOK
  BY DEF IInv
<1> QED
  BY <1>1, Invariance, PTL

\* The handler jumps to live buffers only.
THEOREM JumpsLive == Spec => []LiveJump
<1>1. IInv => LiveJump
  BY DEF IInv, JumpInv, LiveJump
<1> QED
  BY <1>1, Invariance, PTL

\* Perception does not wait for a lock its own previous life has left locked.
THEOREM NotDeadlocked == Spec => []NoSelfDeadlock
<1>1. IInv => NoSelfDeadlock
  BY DEF IInv, LockInv, NoSelfDeadlock
<1> QED
  BY <1>1, Invariance, PTL

\* However many threads and kinds of faults there are, a first fault is survived.
THEOREM Survives == Spec => []FirstFaultSurvived
<1>1. IInv => FirstFaultSurvived
  BY DEF IInv
<1> QED
  BY <1>1, Invariance, PTL

\* main() does not free the blackboard, nor return, under a thread that runs.
NoUseAfterDelete == process = "ended" => \A t \in Threads : pc[t] = "done"

\* Whichever threads were started, main() deletes the blackboard after the last one.
THEOREM NotUsedAfterDelete == Spec => []NoUseAfterDelete
<1>1. IInv => NoUseAfterDelete
  <2> SUFFICES ASSUME IInv, process = "ended", NEW t \in Threads
               PROVE  pc[t] = "done"
    BY DEF NoUseAfterDelete
  <2>1. joined = 7 /\ t \in Managers
    BY ThreadAssumption DEF IInv, JoinInv
  <2>2. PICK i \in 1..7 : JoinOrder[i] = t
    BY <2>1, AllInOrder
  <2> QED
    BY <2>1, <2>2 DEF IInv, JoinInv
<1> QED
  BY <1>1, Invariance, PTL

-----------------------------------------------------------------------------
(* Liveness.  ENABLED is out of the provers' reach: that a thread that nothing holds up *)
(* can take a step, which weak fairness needs of it, is a hypothesis of the theorems.   *)

\* A thread that is not over is held up by the Agent's post and by the lock alone.
MayGo(t) ==
  /\ process = "running" /\ pc[t] # "done"
  /\ t = "Motion" /\ pc[t] = "tick" => posted
  /\ t = "Perception" /\ pc[t] \in {"tick", "between"} => serialization = "none"
ThreadReady(t) == MayGo(t) => ENABLED <<Goes(t)>>_vars
ThreadsReady == \A t \in Threads : ThreadReady(t)

\* A thread is over only because a shutdown was asked for.
DoneInv == \A t \in Threads : pc[t] = "done" => attemptingShutdown

\* No thread leaves its loop but for a shutdown.
LEMMA OverForShutdown == Spec => []DoneInv
<1>1. Init => DoneInv
  BY DEF Init, Fresh, DoneInv
<1>2. ASSUME IInv, DoneInv, [Next]_vars PROVE DoneInv'
  <2>1. ASSUME NEW t \in Threads, Step(t) \/ Throw(t) PROVE DoneInv'
    <3>1. attemptingShutdown' = attemptingShutdown
      BY <2>1 DEF Step, Check, Arm, Build, Run, Destroy, Ticked, Catch, Resume, Register, Jump,
         Acquire, Release, Wait, Throw, mainVars
    <3>2. \A u \in Threads : pc'[u] = "done" => pc[u] = "done" \/ attemptingShutdown
      BY <1>2, <2>1 DEF IInv, TypeOK, Step, Check, Arm, Build, Run, Destroy, Ticked, Catch, Resume,
         Register, Jump, Acquire, Release, Wait, Throw, AfterCheck, Goto
    <3> QED
      BY <1>2, <3>1, <3>2 DEF DoneInv
  <2>2. ASSUME NEW t \in Threads, NEW s \in Faults, Fault(t, s) PROVE DoneInv'
    <3>1. attemptingShutdown' = attemptingShutdown
      BY <2>2 DEF Fault
    <3>2. \A u \in Threads : pc'[u] = "done" => pc[u] = "done"
      BY <1>2, <2>2 DEF IInv, TypeOK, Fault, Goto
    <3> QED
      BY <1>2, <3>1, <3>2 DEF DoneInv
  <2>3. CASE Start
    BY <2>3 DEF Start, Fresh, DoneInv
  <2>4. CASE UnmanagedFault \/ GivesUp \/ Post \/ Join \/ End \/ UNCHANGED vars \/ \E s \in Stops : Interrupt(s)
    <3>1. pc' = pc /\ (attemptingShutdown => attemptingShutdown')
      BY <2>4 DEF UnmanagedFault, GivesUp, Post, Join, End, vars, Interrupt, mainVars
    <3> QED
      BY <1>2, <3>1 DEF DoneInv
  <2> QED
    BY <1>2, <2>1, <2>2, <2>3, <2>4 DEF Next
<1> QED
  BY <1>1, <1>2, Invariance, PTL DEF Spec

-----------------------------------------------------------------------------
(* The shutdown *)

\* Once a shutdown is asked for, a thread goes through its program points in this order
\* alone: from wherever it is it leaves its tick, and never begins another life.
Rank(l) ==
  CASE l = "arm" -> 0
    [] l = "build" -> 1
    [] l = "tick" -> 2
    [] l = "vision" -> 3
    [] l = "between" -> 4
    [] l = "estimation" -> 5
    [] l = "behave" -> 6
    [] l = "run" -> 7
    [] l = "destroy" -> 8
    [] l = "unwind" -> 9
    [] l = "paused" -> 10
    [] l = "handler" -> 11
    [] l = "jump" -> 12
    [] l = "check" -> 13
    [] l = "done" -> 14

\* The thread t has come to the point n at least.
Ending(t, n) == process = "running" /\ attemptingShutdown /\ Rank(pc[t]) >= n

\* The process has ended, or has been killed.
Down == process # "running"

\* Motion waits for the Agent.
Held(t) == t = "Motion" /\ pc[t] = "tick" /\ ~posted

\* A shutdown is never called off.
LEMMA ShutdownStays ==
  ASSUME process = "running", attemptingShutdown, [Next]_vars
  PROVE  attemptingShutdown'
  BY DEF Next, Step, Check, Arm, Build, Run, Destroy, Ticked, Catch, Resume, Register, Jump,
     Acquire, Release, Wait, Throw, Fault, UnmanagedFault, GivesUp, Interrupt, Post, Join, End, Start,
     vars, mainVars

\* What a thread does by itself moves it, and moves no other.
LEMMA RankStep ==
  ASSUME IInv, process = "running", attemptingShutdown, NEW t \in Threads, Step(t), process' = "running"
  PROVE  /\ pc'[t] \in Pcs /\ Rank(pc'[t]) > Rank(pc[t])
         /\ \A u \in Threads \ {t} : pc'[u] = pc[u]
<1>1. pc \in [Threads -> Pcs]
  BY DEF IInv, TypeOK
<1>2. \A u \in Threads \ {t} : pc'[u] = pc[u]
  <2>1. pc' = pc \/ \E l \in Pcs : pc' = [pc EXCEPT ![t] = l]
    BY ThreadAssumption DEF Step, Check, Arm, Build, Run, Destroy, Ticked, Catch, Resume,
       Register, Jump, Acquire, Release, Wait, Goto, AfterCheck, Pcs
  <2> QED
    BY <1>1, <2>1
<1>3. \/ pc[t] = "check" /\ pc'[t] = "done"
      \/ pc[t] = "arm" /\ pc'[t] = "build"
      \/ pc[t] = "build" /\ pc'[t] = "run"
      \/ pc[t] = "run" /\ pc'[t] = "destroy"
      \/ pc[t] = "destroy" /\ pc'[t] = "check"
      \/ pc[t] \in {"behave", "tick"} /\ pc'[t] = "run"
      \/ pc[t] = "unwind" /\ pc'[t] = "paused"
      \/ pc[t] = "paused" /\ pc'[t] = "check"
      \/ pc[t] = "handler" /\ pc'[t] = "jump"
      \/ pc[t] = "jump" /\ pc'[t] = "check"
      \/ pc[t] = "tick" /\ pc'[t] \in {"vision", "behave"}
      \/ pc[t] = "vision" /\ pc'[t] = "between"
      \/ pc[t] = "between" /\ pc'[t] = "estimation"
      \/ pc[t] = "estimation" /\ pc'[t] = "behave"
  BY <1>1, ThreadAssumption DEF Step, Check, Arm, Build, Run, Destroy, Ticked, Catch, Resume,
         Register, Jump, Acquire, Release, Wait, Goto, AfterCheck
<1> QED
  BY <1>2, <1>3 DEF Rank, Pcs

\* No step of anybody takes a thread back, and its own take it on.
LEMMA RankGrows ==
  ASSUME IInv, process = "running", attemptingShutdown, NEW t \in Threads, [Next]_vars,
         process' = "running"
  PROVE  /\ Rank(pc'[t]) >= Rank(pc[t])
         /\ Goes(t) => Rank(pc'[t]) > Rank(pc[t])
         /\ ~Held(t) => ~Held(t)' \/ Rank(pc'[t]) > Rank(pc[t])
         /\ Rank(pc'[t]) \in 0..14
<1> DEFINE Same == pc'[t] = pc[t] /\ (t = "Motion" /\ posted => posted')
<1> DEFINE Further == pc'[t] \in Pcs /\ Rank(pc'[t]) > Rank(pc[t])
<1>1. pc \in [Threads -> Pcs] /\ posted \in BOOLEAN
  BY DEF IInv, TypeOK
<1>2. Rank(pc[t]) \in 0..14
  BY <1>1 DEF Pcs, Rank
<1>3. ASSUME NEW u \in Threads, Step(u) PROVE Same \/ Further
  <2>1. CASE u = t
    BY <1>3, <2>1, RankStep
  <2>2. CASE u # t
    <3>1. pc'[t] = pc[t]
      BY <1>3, <2>2, RankStep
    <3>2. u # "Motion" => posted' = posted
      BY <1>3 DEF Step, Check, Arm, Build, Run, Destroy, Ticked, Catch, Resume, Register, Jump,
         Acquire, Release, lockVars
    <3> QED
      BY <2>2, <3>1, <3>2
  <2> QED
    BY <2>1, <2>2
<1>4. ASSUME NEW u \in Threads, Throw(u) \/ \E s \in Faults : Fault(u, s) PROVE Same \/ Further
  <2>1. posted' = posted
    BY <1>4 DEF Throw, Fault, lockVars
  <2>2. CASE u = t
    <3>1. \/ pc'[t] = pc[t]
          \/ pc[t] \in Working \ {"destroy", "unwind"} /\ pc'[t] = "unwind"
          \/ pc[t] \in Working /\ pc'[t] = "handler"
      BY <1>1, <1>4, <2>2 DEF Throw, Fault, Goto
    <3> QED
      BY <2>1, <3>1 DEF Working, Rank, Pcs
  <2>3. CASE u # t
    BY <1>1, <1>4, <2>1, <2>3 DEF Throw, Fault, Goto
  <2> QED
    BY <2>2, <2>3
<1>5. ASSUME UnmanagedFault \/ GivesUp \/ Post \/ Join \/ End \/ UNCHANGED vars
             \/ \E s \in Stops : Interrupt(s)
      PROVE  Same
  <2>1. pc' = pc
    BY <1>5 DEF UnmanagedFault, GivesUp, Post, Join, End, vars, Interrupt
  <2>2. posted' = posted \/ posted'
    BY <1>5 DEF UnmanagedFault, GivesUp, Post, Join, End, vars, Interrupt, lockVars
  <2> QED
    BY <2>1, <2>2
<1>6. Same \/ Further
  BY <1>3, <1>4, <1>5 DEF Next, Start
<1>7. Goes(t) => Further
  BY RankStep DEF Goes
<1>8. Same => Rank(pc'[t]) = Rank(pc[t]) /\ (~Held(t) => ~Held(t)')
  BY DEF Held
<1>9. pc'[t] \in Pcs => Rank(pc'[t]) \in 0..14
  BY DEF Pcs, Rank
<1> QED
  BY <1>2, <1>6, <1>7, <1>8, <1>9

\* At the point m or after it the thread stays there and goes on to n, which is the next,
\* unless the Agent holds it up; and once it does not it does not.
Stage(t, m, n) ==
  IInv /\ Ending(t, m) =>
    /\ [Next]_vars => Ending(t, m)' \/ Down'
    /\ <<Goes(t)>>_vars => Ending(t, n)' \/ Down'
    /\ ~Ending(t, n) /\ ~Held(t) =>
         /\ MayGo(t)
         /\ [Next]_vars => ~Held(t)' \/ Ending(t, n)' \/ Down'

\* That is so of each point.
LEMMA EndingStep ==
  ASSUME NEW t \in Threads, NEW n \in 0..13
  PROVE  Stage(t, n, n + 1)
<1>1. ASSUME IInv
      PROVE  Rank(pc[t]) \in 0..14 /\ (pc[t] = "done" => Rank(pc[t]) = 14)
  <2>1. pc[t] \in Pcs
    BY <1>1 DEF IInv, TypeOK
  <2>2. Rank("done") = 14
    BY DEF Rank
  <2>3. Rank(pc[t]) \in 0..14
    BY <2>1 DEF Pcs, Rank
  <2> QED
    BY <2>2, <2>3
<1>2. <<Goes(t)>>_vars => [Next]_vars
  BY DEF Goes, Next
<1>3. ASSUME IInv, Ending(t, n), [Next]_vars, process' = "running"
      PROVE  /\ attemptingShutdown' /\ Rank(pc'[t]) \in 0..14
             /\ Rank(pc'[t]) >= Rank(pc[t])
             /\ Goes(t) => Rank(pc'[t]) > Rank(pc[t])
             /\ ~Held(t) => ~Held(t)' \/ Rank(pc'[t]) > Rank(pc[t])
  BY <1>3, ShutdownStays, RankGrows DEF Ending, Down
<1>4. ASSUME IInv, Ending(t, n), [Next]_vars PROVE Ending(t, n)' \/ Down'
  BY <1>1, <1>3, <1>4 DEF Ending, Down
<1>5. ASSUME IInv, Ending(t, n), <<Goes(t)>>_vars PROVE Ending(t, n + 1)' \/ Down'
  BY <1>1, <1>2, <1>3, <1>5 DEF Ending, Down
<1>6. ASSUME IInv, Ending(t, n), ~Ending(t, n + 1), ~Held(t), [Next]_vars
      PROVE  ~Held(t)' \/ Ending(t, n + 1)' \/ Down'
  BY <1>1, <1>3, <1>6 DEF Ending, Down
<1>7. ASSUME IInv, Ending(t, n), ~Ending(t, n + 1), ~Held(t) PROVE MayGo(t)
  <2>1. process = "running" /\ pc[t] # "done"
    BY <1>1, <1>7 DEF Ending, Down
  <2> QED
    BY <1>7, <2>1 DEF Held, MayGo, IInv, LockInv
<1> QED
  BY <1>4, <1>5, <1>6, <1>7 DEF Stage

\* Where main() waits for a thread that was started, it is over.
Settled(n) == JoinOrder[n] \in Threads => pc[JoinOrder[n]] = "done"

\* A thread is scheduled.
Fair(t) == WF_vars(Goes(t))

\* If the Agent goes on posting, the n-th of the threads comes to its end.
Settles(n) ==
  []<>posted => (attemptingShutdown /\ ~Down ~> Settled(n) \/ Down)

\* A thread that was started ends when it is asked to.
LEMMA ThreadEnds ==
  ASSUME NEW CONSTANT t \in Threads, NEW CONSTANT n, t = JoinOrder[n]
  PROVE  Spec /\ []ThreadsReady /\ Fair(t) => Settles(n)
<1>1. /\ Stage(t, 0, 1) /\ Stage(t, 1, 2) /\ Stage(t, 2, 3) /\ Stage(t, 3, 4)
      /\ Stage(t, 4, 5) /\ Stage(t, 5, 6) /\ Stage(t, 6, 7) /\ Stage(t, 7, 8)
      /\ Stage(t, 8, 9) /\ Stage(t, 9, 10) /\ Stage(t, 10, 11) /\ Stage(t, 11, 12)
      /\ Stage(t, 12, 13) /\ Stage(t, 13, 14)
  BY EndingStep
<1>2. IInv /\ attemptingShutdown /\ ~Down => Ending(t, 0)
  BY DEF IInv, TypeOK, Pcs, Rank, Ending, Down
<1>3. IInv /\ Ending(t, 14) => Settled(n)
  BY DEF IInv, TypeOK, Pcs, Rank, Ending, Settled
<1>4. posted => ~Held(t)
  BY DEF Held
<1>5. ThreadsReady => ThreadReady(t)
  BY DEF ThreadsReady
<1> QED
  BY <1>1, <1>2, <1>3, <1>4, <1>5, Invariance, PTL
     DEF Spec, Fair, ThreadReady, Stage, Settles

\* Each thread that main() waits for is over at last, if it was started at all.
LEMMA AllSettle == Spec /\ []ThreadsReady => \A n : Settles(n)
<1>1. \A n : JoinOrder[n] \notin Threads => Settles(n)
  <2>1. ASSUME NEW CONSTANT n, JoinOrder[n] \notin Threads
        PROVE  Settles(n)
    <3>1. Settled(n)
      BY <2>1 DEF Settled
    <3> QED
      BY <3>1, PTL DEF Settles
  <2> QED
    BY <2>1
<1>2. \A t \in Threads : \A n : t = JoinOrder[n] => (Spec /\ []ThreadsReady /\ Fair(t) => Settles(n))
  BY ThreadEnds
<1>3. Spec => \A t \in Threads : Fair(t)
  BY PTL DEF Spec, Fair
<1> QED
  BY <1>1, <1>2, <1>3

\* main() is held up by the threads alone that it has still to join.
MainMayGo == ~Down /\ (joined < 7 => Settled(joined + 1))
MainReady == MainMayGo => ENABLED <<MainGoes>>_vars

\* main() has joined the first n of them.
Joined(n) == ~Down /\ attemptingShutdown /\ joined >= n

\* While the process runs a thread that is over stays so.
LEMMA SettledStays ==
  ASSUME NEW n, IInv, ~Down, attemptingShutdown, [Next]_vars, Settled(n)
  PROVE  Settled(n)' \/ Down'
<1> SUFFICES ASSUME ~Down', JoinOrder[n] \in Threads
             PROVE  pc'[JoinOrder[n]] = "done"
  BY DEF Settled, Down
<1>1. pc[JoinOrder[n]] \in Pcs /\ Rank(pc[JoinOrder[n]]) = 14
  BY DEF Settled, Rank, Pcs
<1>2. Rank(pc'[JoinOrder[n]]) \in 0..14 /\ Rank(pc'[JoinOrder[n]]) >= 14
  BY <1>1, RankGrows DEF Down
<1>3. pc'[JoinOrder[n]] \in Pcs
  BY StepInv DEF IInv, TypeOK
<1> QED
  BY <1>2, <1>3 DEF Pcs, Rank

\* main() goes from one join to the next, and no step takes it back.
MainStage(m, n) ==
  IInv /\ Joined(m) =>
    /\ [Next]_vars => Joined(m)' \/ Down'
    /\ <<MainGoes>>_vars => Joined(n)' \/ Down'
    /\ attemptingShutdown /\ ~Down
    /\ ~Joined(n) /\ Settled(n) => MainMayGo
    /\ Settled(n) /\ [Next]_vars => Settled(n)' \/ Down'

\* No join is undone.
LEMMA JoinedGrows ==
  ASSUME IInv, ~Down, attemptingShutdown, [Next]_vars, ~Down'
  PROVE  /\ attemptingShutdown' /\ joined \in 0..7 /\ joined' \in {joined, joined + 1}
         /\ MainGoes => joined' = joined + 1
<1>1. joined \in 0..7
  BY SevenJoined DEF IInv, TypeOK
<1>2. attemptingShutdown'
  BY ShutdownStays DEF Down
<1>3. joined' \in {joined, joined + 1}
  BY DEF Down, Next, Step, Check, Arm, Build, Run, Destroy, Ticked, Catch, Resume, Register, Jump,
     Acquire, Release, Wait, Throw, Fault, UnmanagedFault, GivesUp, Interrupt, Post, Join, End, Start,
     vars, mainVars
<1>4. MainGoes => joined' = joined + 1
  BY DEF MainGoes, Join, End, Down
<1> QED
  BY <1>1, <1>2, <1>3, <1>4

\* That is so of each join.
LEMMA JoinStep == \A n \in 0..6 : MainStage(n, n + 1)
<1> SUFFICES ASSUME NEW n \in 0..6, IInv, Joined(n) PROVE MainStage(n, n + 1)
  BY DEF MainStage
<1>1. joined \in 0..7
  BY SevenJoined DEF IInv, TypeOK
<1>2. ASSUME [Next]_vars, ~Down'
      PROVE  /\ attemptingShutdown' /\ joined' \in {joined, joined + 1}
             /\ MainGoes => joined' = joined + 1
  BY <1>2, JoinedGrows DEF Joined
<1>3. [Next]_vars => Joined(n)' \/ Down'
  BY <1>1, <1>2 DEF Joined
<1>4. <<MainGoes>>_vars => Joined(n + 1)' \/ Down'
  <2>1. <<MainGoes>>_vars => [Next]_vars
    BY DEF MainGoes, Next
  <2> QED
    BY <1>1, <1>2, <2>1 DEF Joined
<1>5. ~Joined(n + 1) => joined = n
  BY <1>1 DEF Joined
<1>6. Settled(n + 1) /\ [Next]_vars => Settled(n + 1)' \/ Down'
  BY SettledStays DEF Joined
<1> QED
  BY <1>3, <1>4, <1>5, <1>6 DEF MainStage, MainMayGo, Joined

\* A shutdown comes to its end, whichever threads were started and wherever they are, if the
\* Agent goes on posting: main() joins one after the other, and returns.
THEOREM Shutdown == Spec /\ []ThreadsReady /\ []MainReady => ShutdownEnds
<1>1. Spec /\ []ThreadsReady =>
        /\ Settles(1) /\ Settles(2) /\ Settles(3) /\ Settles(4) /\ Settles(5) /\ Settles(6)
        /\ Settles(7)
  BY AllSettle
<1>2. /\ MainStage(0, 1) /\ MainStage(1, 2) /\ MainStage(2, 3) /\ MainStage(3, 4)
      /\ MainStage(4, 5) /\ MainStage(5, 6) /\ MainStage(6, 7)
  BY JoinStep
<1>3. IInv /\ attemptingShutdown /\ ~Down => Joined(0)
  BY SevenJoined DEF IInv, TypeOK, Joined
<1>4. IInv /\ Joined(7) => MainMayGo
  BY SevenJoined DEF IInv, TypeOK, Joined, MainMayGo
<1>5. ASSUME IInv, Joined(7)
      PROVE  ([Next]_vars => Joined(7)' \/ Down') /\ (<<MainGoes>>_vars => Down')
  <2>1. [Next]_vars => Joined(7)' \/ Down'
    BY <1>5, JoinedGrows DEF Joined
  <2>2. <<MainGoes>>_vars => Down'
    <3>1. joined = 7
      BY <1>5, SevenJoined DEF IInv, TypeOK, Joined
    <3>2. ~Join
      BY <3>1, SevenJoined DEF Join
    <3>3. End => Down'
      BY DEF End, Down
    <3> QED
      BY <3>2, <3>3 DEF MainGoes
  <2> QED
    BY <2>1, <2>2
<1>6. process # "running" <=> Down
  BY DEF Down
<1> QED
  BY <1>1, <1>2, <1>3, <1>4, <1>5, <1>6, Invariance, PTL
     DEF Spec, MainReady, MainStage, Settles, ShutdownEnds

-----------------------------------------------------------------------------
(* Perception's recovery *)

\* Nothing is thrown at Perception, nor a shutdown asked for.
Calm == process = "running" /\ ~attemptingShutdown /\ ~Disturbed

\* It is at p on its way to its next tick.
On(p) == Calm /\ pc["Perception"] = p

\* The way from wherever a quiet Perception is to the end of a tick
Way ==
  {<<"destroy", "check">>, <<"check", "arm">>, <<"arm", "build">>, <<"build", "run">>, <<"run", "tick">>,
   <<"tick", "vision">>, <<"vision", "between">>, <<"between", "estimation">>, <<"estimation", "behave">>}

\* As long as it is left in peace it goes from point to point of its way.
OnStage(t, p, q) ==
  IInv /\ On(p) =>
    /\ MayGo(t)
    /\ [Next]_vars => On(p)' \/ On(q)' \/ ~Calm'
    /\ <<Goes(t)>>_vars => On(q)' \/ ~Calm'

\* That is so of each point.
LEMMA OnStep ==
  ASSUME NEW t \in Threads, t = "Perception", NEW p, NEW q, <<p, q>> \in Way
  PROVE  OnStage(t, p, q)
<1> SUFFICES ASSUME IInv, On(p) PROVE OnStage(t, p, q)
  BY DEF OnStage
<1>1. process = "running" /\ ~attemptingShutdown /\ pc[t] = p /\ pc \in [Threads -> Pcs]
  BY DEF On, Calm, IInv, TypeOK
<1>2. MayGo(t)
  BY <1>1 DEF MayGo, IInv, LockInv, Way
<1>3. ASSUME Step(t), Calm' PROVE On(q)'
  <2>1. pc'[t] = q
    BY <1>1, <1>3 DEF Way, Step, Check, Arm, Build, Run, Destroy, Ticked, Catch, Resume, Register, Jump,
       Acquire, Release, Wait, Goto, AfterCheck
  <2> QED
    BY <1>3, <2>1 DEF On
<1>4. ASSUME Throw(t) \/ \E s \in Faults : Fault(t, s) PROVE ~Calm'
  BY <1>1, <1>4 DEF Throw, Fault, Goto, Calm, Disturbed
<1>5. ASSUME NEW u \in Threads \ {t}, Step(u) \/ Throw(u) \/ \E s \in Faults : Fault(u, s)
      PROVE  pc'[t] = pc[t]
  <2>1. pc' = pc \/ \E l : pc' = [pc EXCEPT ![u] = l]
    BY <1>5 DEF Step, Check, Arm, Build, Run, Destroy, Ticked, Catch, Resume,
       Register, Jump, Acquire, Release, Wait, Goto, Throw, Fault
  <2> QED
    BY <1>1, <2>1
<1>6. ASSUME UnmanagedFault \/ GivesUp \/ Post \/ Join \/ End \/ UNCHANGED vars
             \/ \E s \in Stops : Interrupt(s)
      PROVE  pc'[t] = pc[t]
  BY <1>6 DEF UnmanagedFault, GivesUp, Post, Join, End, vars, Interrupt
<1>7. [Next]_vars => On(p)' \/ On(q)' \/ ~Calm'
  BY <1>1, <1>3, <1>4, <1>5, <1>6 DEF Next, Start, On
<1>8. <<Goes(t)>>_vars => On(q)' \/ ~Calm'
  BY <1>3 DEF Goes
<1> QED
  BY <1>2, <1>7, <1>8 DEF OnStage

\* A Perception thread that is scheduled comes back to the end of its tick.
LEMMA PerceptionComesBack ==
  ASSUME NEW CONSTANT t \in Threads, t = "Perception"
  PROVE  Spec /\ []ThreadsReady /\ Fair(t) => PerceptionRecovers
<1>1. /\ OnStage(t, "destroy", "check") /\ OnStage(t, "check", "arm") /\ OnStage(t, "arm", "build")
      /\ OnStage(t, "build", "run") /\ OnStage(t, "run", "tick") /\ OnStage(t, "tick", "vision")
      /\ OnStage(t, "vision", "between") /\ OnStage(t, "between", "estimation")
      /\ OnStage(t, "estimation", "behave")
  BY OnStep DEF Way
<1>2. IInv /\ DoneInv /\ Calm =>
        \/ On("destroy") \/ On("check") \/ On("arm") \/ On("build") \/ On("run") \/ On("tick")
        \/ On("vision") \/ On("between") \/ On("estimation") \/ pc["Perception"] = "behave"
  BY ThreadAssumption DEF IInv, TypeOK, Pcs, DoneInv, Calm, Disturbed, On
<1>3. On("behave") => pc["Perception"] = "behave"
  BY DEF On
<1>4. ThreadsReady => ThreadReady(t)
  BY DEF ThreadsReady
<1>5. Calm <=> (process = "running" /\ ~attemptingShutdown /\ ~Disturbed)
  BY DEF Calm
<1> QED
  BY <1>1, <1>2, <1>3, <1>4, <1>5, Invariance, OverForShutdown, PTL
     DEF Spec, Fair, ThreadReady, OnStage, PerceptionRecovers

\* Perception recovers from whatever it was thrown out by, whichever other threads there are.
THEOREM Recovers == Spec /\ []ThreadsReady => PerceptionRecovers
<1>1. \A t \in Threads : t = "Perception" => (Spec /\ []ThreadsReady /\ Fair(t) => PerceptionRecovers)
  BY PerceptionComesBack
<1>2. Spec => \A t \in Threads : Fair(t)
  BY PTL DEF Spec, Fair
<1> QED
  BY <1>1, <1>2, ThreadAssumption
=================================================================================
