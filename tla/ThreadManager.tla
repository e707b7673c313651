----------------------------- MODULE ThreadManager -----------------------------
(***************************************************************************)
(* The threads of runswift from main()'s start to its end.  Each component *)
(* lives in a thread that builds it, ticks it, and builds it anew when it  *)
(* throws or faults: a signal handler leaves the fault by longjmp to the   *)
(* thread's own jump point, with the signal still blocked and nothing      *)
(* unwound.  main() joins the threads in a fixed order, then deletes the   *)
(* blackboard they share.                                                  *)
(*                                                                         *)
(* Faults and exceptions are those of the components' own code.  The       *)
(* serialization lock is taken, on the robot, by Perception alone; Motion  *)
(* waits in every tick for the Agent to post.                              *)
(***************************************************************************)
EXTENDS Naturals, Sequences

CONSTANTS
  Threads,     \* those that the options let main() start
  Faults,      \* the signals of faults: SIGSEGV, SIGFPE, SIGSTKFLT
  Stops        \* the signals that ask for a shutdown: SIGINT, SIGTERM

Managers == {"TeamReceiver", "TeamTransmitter", "OffnaoTransmitter", "GameController",
             "Motion", "Perception", "RemoteControlReceiver"}

ASSUME ThreadAssumption ==
  /\ {"Perception", "Motion"} \subseteq Threads /\ Threads \subseteq Managers
  /\ Faults \cap Stops = {} /\ "none" \notin Faults

VARIABLES
  pc,            \* where each thread is in safelyRun
  jumpPoints,    \* each thread's buffer: none, raw (allocated), live (set) or freed
  blocked,       \* the signals each thread has blocked
  caught,        \* the signal a thread's handler was entered for
  disposition,   \* of each signal: SA_RESETHAND makes it default
  serialization, \* who holds the lock
  attemptingShutdown,
  posted,        \* the Agent's semaphore
  joined,        \* how many threads main() has joined
  process,       \* running, killed, or ended by main()'s return
  taken,         \* history: the faults each thread has had since main()'s start
  causes         \* history: what, of the things it is not built for, the process met

lockVars == <<serialization, posted>>
signalVars == <<blocked, caught, disposition, taken, causes>>
mainVars == <<attemptingShutdown, joined, process>>
vars == <<pc, jumpPoints, lockVars, signalVars, mainVars>>

Pcs == {"check", "arm", "build", "run", "tick", "vision", "between", "estimation", "behave",
        "destroy", "unwind", "paused", "handler", "jump", "done"}

\* Where the component's own code runs, with the jump point set
Working == {"build", "tick", "vision", "between", "estimation", "behave", "destroy", "unwind"}

-----------------------------------------------------------------------------
(* Mutants *)

\* The buffer is allocated in the first round only.
ArmedOnce(t) == IF jumpPoints[t] = "none" THEN "raw" ELSE jumpPoints[t]

\* PerceptionThread's constructor leaves the lock alone.
LockAfterBuildKept(t) == serialization

\* The handler does not register itself again.
DispositionRegisteredNot(s) == disposition

\* A restarted thread does not look at attemptingShutdown.
AfterCheckForever == "arm"

-----------------------------------------------------------------------------
(* ThreadManager::safelyRun *)

Goto(t, l) == pc' = [pc EXCEPT ![t] = l]

AfterCheck == IF attemptingShutdown THEN "done" ELSE "arm"

\* while (!attemptingShutdown)
Check(t) ==
  /\ pc[t] = "check"
  /\ Goto(t, AfterCheck)
  /\ UNCHANGED <<jumpPoints, lockVars, signalVars, mainVars>>

Armed(t) == "raw"

\* A new buffer in every round (the old one leaks), and setjmp
Arm(t) ==
  /\ pc[t] = "arm"
  /\ Goto(t, "build")
  /\ jumpPoints' = [jumpPoints EXCEPT ![t] = IF Armed(t) = "raw" THEN "live" ELSE Armed(t)]
  /\ UNCHANGED <<lockVars, signalVars, mainVars>>

\* PerceptionThread releases the lock whoever holds it: its predecessor may have
\* left it locked.
LockAfterBuild(t) == IF t = "Perception" THEN "none" ELSE serialization

Build(t) ==
  /\ pc[t] = "build"
  /\ Goto(t, "run")
  /\ serialization' = LockAfterBuild(t)
  /\ UNCHANGED <<jumpPoints, posted, signalVars, mainVars>>

\* The inner while (!attemptingShutdown)
Run(t) ==
  /\ pc[t] = "run"
  /\ Goto(t, IF attemptingShutdown THEN "destroy" ELSE "tick")
  /\ UNCHANGED <<jumpPoints, lockVars, signalVars, mainVars>>

Destroy(t) ==
  /\ pc[t] = "destroy"
  /\ Goto(t, "check")
  /\ UNCHANGED <<jumpPoints, lockVars, signalVars, mainVars>>

\* An exception: the component is destroyed on the way to the catch.
Throw(t) ==
  /\ pc[t] \in Working \ {"destroy", "unwind"}
  /\ Goto(t, "unwind")
  /\ UNCHANGED <<jumpPoints, lockVars, signalVars, mainVars>>

\* free(jumpPoints[threadID]), and half a second
Catch(t) ==
  /\ pc[t] = "unwind"
  /\ Goto(t, "paused")
  /\ jumpPoints' = [jumpPoints EXCEPT ![t] = "freed"]
  /\ UNCHANGED <<lockVars, signalVars, mainVars>>

Resume(t) ==
  /\ pc[t] = "paused"
  /\ Goto(t, "check")
  /\ UNCHANGED <<jumpPoints, lockVars, signalVars, mainVars>>

-----------------------------------------------------------------------------
(* The components' ticks *)

\* VisionAdapter, and then StateEstimationAdapter, work under the lock.
Acquire ==
  /\ pc["Perception"] \in {"tick", "between"}
  /\ serialization = "none"
  /\ serialization' = "Perception"
  /\ Goto("Perception", IF pc["Perception"] = "tick" THEN "vision" ELSE "estimation")
  /\ UNCHANGED <<jumpPoints, posted, signalVars, mainVars>>

Release ==
  /\ pc["Perception"] \in {"vision", "estimation"}
  /\ serialization' = "none"
  /\ Goto("Perception", IF pc["Perception"] = "vision" THEN "between" ELSE "behave")
  /\ UNCHANGED <<jumpPoints, posted, signalVars, mainVars>>

\* AgentTouch waits in P() for the Agent.
Wait ==
  /\ pc["Motion"] = "tick" /\ posted
  /\ posted' = FALSE
  /\ Goto("Motion", "behave")
  /\ UNCHANGED <<jumpPoints, serialization, signalVars, mainVars>>

\* The rest of a tick; the ticks of the other components are all rest.
Ticked(t) ==
  /\ pc[t] = IF t \in {"Perception", "Motion"} THEN "behave" ELSE "tick"
  /\ Goto(t, "run")
  /\ UNCHANGED <<jumpPoints, lockVars, signalVars, mainVars>>

-----------------------------------------------------------------------------
(* Signals *)

\* The kernel: a fault whose signal is blocked, or has no handler, ends the process.
Fault(t, s) ==
  /\ pc[t] \in Working
  /\ taken' = [taken EXCEPT ![t] = @ \cup {s}]
  /\ causes' = causes \cup (IF s \in taken[t] THEN {"repeated"} ELSE {})
                      \cup (IF \E u \in Threads : pc[u] = "handler" /\ caught[u] = s
                            THEN {"overlapped"} ELSE {})
  /\ IF s \in blocked[t] \/ disposition[s] = "default"
     THEN process' = "killed" /\ UNCHANGED <<pc, blocked, caught, disposition>>
     ELSE /\ Goto(t, "handler")
          /\ blocked' = [blocked EXCEPT ![t] = @ \cup {s}]
          /\ caught' = [caught EXCEPT ![t] = s]
          /\ disposition' = [disposition EXCEPT ![s] = "default"]
          /\ UNCHANGED process
  /\ UNCHANGED <<jumpPoints, lockVars, attemptingShutdown, joined>>

DispositionRegistered(s) == [disposition EXCEPT ![s] = "handler"]

\* registerSignalHandlers(sigNumber)
Register(t) ==
  /\ pc[t] = "handler"
  /\ Goto(t, "jump")
  /\ disposition' = DispositionRegistered(caught[t])
  /\ UNCHANGED <<jumpPoints, lockVars, blocked, caught, taken, causes, mainVars>>

\* longjmp(*jumpPoints[thread], 1): nothing is unwound, the signal stays blocked.
\* Through a buffer that is not live it may end anywhere: the process dies.
Jump(t) ==
  /\ pc[t] = "jump"
  /\ IF jumpPoints[t] = "live"
     THEN Goto(t, "check") /\ UNCHANGED process
     ELSE process' = "killed" /\ UNCHANGED pc
  /\ caught' = [caught EXCEPT ![t] = "none"]
  /\ UNCHANGED <<jumpPoints, lockVars, blocked, disposition, taken, causes,
                 attemptingShutdown, joined>>

\* A fault in a thread without a jump point (the receivers' io threads), or SIGHUP,
\* which main() handles without one.
UnmanagedFault ==
  /\ causes' = causes \cup {"unmanaged"}
  /\ process' = "killed"
  /\ UNCHANGED <<pc, jumpPoints, lockVars, blocked, caught, disposition, taken,
                 attemptingShutdown, joined>>

Interrupt(s) ==
  /\ IF disposition[s] = "handler"
     THEN attemptingShutdown' = TRUE /\ UNCHANGED <<process, causes>>
     ELSE process' = "killed" /\ causes' = causes \cup {"interrupted"} /\ UNCHANGED attemptingShutdown
  /\ disposition' = [disposition EXCEPT ![s] = "default"]
  /\ UNCHANGED <<pc, jumpPoints, lockVars, blocked, caught, taken, joined>>

\* The shutdown timer, a Python module that cannot be loaded, a dump that cannot be
\* written
GivesUp ==
  /\ ~attemptingShutdown
  /\ attemptingShutdown' = TRUE
  /\ UNCHANGED <<pc, jumpPoints, lockVars, signalVars, joined, process>>

-----------------------------------------------------------------------------
(* The Agent, and main() *)

Post ==
  /\ ~posted
  /\ posted' = TRUE
  /\ UNCHANGED <<pc, jumpPoints, serialization, signalVars, mainVars>>

JoinOrder == <<"TeamReceiver", "TeamTransmitter", "OffnaoTransmitter", "GameController",
               "Motion", "Perception", "RemoteControlReceiver">>

\* join() waits for a thread that was started.
Join ==
  /\ joined < Len(JoinOrder)
  /\ JoinOrder[joined + 1] \in Threads => pc[JoinOrder[joined + 1]] = "done"
  /\ joined' = joined + 1
  /\ UNCHANGED <<pc, jumpPoints, lockVars, signalVars, attemptingShutdown, process>>

\* delete blackboard; return 0
End ==
  /\ joined = Len(JoinOrder)
  /\ process' = "ended"
  /\ UNCHANGED <<pc, jumpPoints, lockVars, signalVars, attemptingShutdown, joined>>

Fresh(x) == [t \in Threads |-> x]

Init ==
  /\ pc = Fresh("check") /\ jumpPoints = Fresh("none")
  /\ blocked = Fresh({}) /\ caught = Fresh("none") /\ taken = Fresh({}) /\ causes = {}
  /\ disposition = [s \in Faults \cup Stops |-> "handler"]
  /\ serialization = "none" /\ posted = FALSE
  /\ attemptingShutdown = FALSE /\ joined = 0 /\ process = "running"

\* runswift is started again.
Start ==
  /\ process # "running"
  /\ pc' = Fresh("check") /\ jumpPoints' = Fresh("none")
  /\ blocked' = Fresh({}) /\ caught' = Fresh("none") /\ taken' = Fresh({}) /\ causes' = {}
  /\ disposition' = [s \in Faults \cup Stops |-> "handler"]
  /\ serialization' = "none" /\ posted' = FALSE
  /\ attemptingShutdown' = FALSE /\ joined' = 0 /\ process' = "running"

\* What a thread does by itself
Step(t) ==
  \/ Check(t) \/ Arm(t) \/ Build(t) \/ Run(t) \/ Destroy(t) \/ Ticked(t)
  \/ Catch(t) \/ Resume(t) \/ Register(t) \/ Jump(t)
  \/ (t = "Perception" /\ (Acquire \/ Release))
  \/ (t = "Motion" /\ Wait)

Next ==
  \/ /\ process = "running"
     /\ \/ \E t \in Threads : Step(t) \/ Throw(t) \/ \E s \in Faults : Fault(t, s)
        \/ UnmanagedFault \/ GivesUp \/ \E s \in Stops : Interrupt(s)
        \/ Post \/ Join \/ End
  \/ Start

Goes(t) == process = "running" /\ Step(t)
MainGoes == process = "running" /\ (Join \/ End)

\* Every thread is scheduled.  Nobody owes a post.
Spec ==
  /\ Init /\ [][Next]_vars
  /\ \A t \in Threads : WF_vars(Goes(t))
  /\ WF_vars(MainGoes)

-----------------------------------------------------------------------------
(* Properties *)

TypeOK ==
  /\ pc \in [Threads -> Pcs]
  /\ jumpPoints \in [Threads -> {"none", "live", "freed"}]
  /\ blocked \in [Threads -> SUBSET Faults] /\ taken \in [Threads -> SUBSET Faults]
  /\ caught \in [Threads -> Faults \cup {"none"}]
  /\ disposition \in [Faults \cup Stops -> {"handler", "default"}]
  /\ serialization \in {"none", "Perception"}
  /\ attemptingShutdown \in BOOLEAN /\ posted \in BOOLEAN
  /\ joined \in 0..Len(JoinOrder)
  /\ process \in {"running", "killed", "ended"}
  /\ causes \subseteq {"repeated", "overlapped", "unmanaged", "interrupted"}

\* The handler never jumps through a buffer that was freed or never set, whatever
\* mixture of faults and exceptions the thread went through.
LiveJump == \A t \in Threads : pc[t] = "jump" => jumpPoints[t] = "live"

\* Perception never waits for a lock that only its own previous life could release.
NoSelfDeadlock == pc["Perception"] \in {"tick", "between"} => serialization = "none"

\* runswift survives the first fault of each kind of each of its threads, in any
\* order with exceptions and a first interrupt: it is killed only by a repeated one,
\* by two at once, by a thread without a jump point, or by a second interrupt.
FirstFaultSurvived == process = "killed" => causes # {}

\* Perception, faulted or thrown out anywhere, comes back to tick to the end, again and
\* again, once no more is thrown and as long as nobody asks for a shutdown.
Disturbed == pc["Perception"] \in {"unwind", "paused", "handler", "jump"}
PerceptionRecovers ==
  <>[](process = "running" /\ ~attemptingShutdown /\ ~Disturbed)
    => []<>(pc["Perception"] = "behave")

\* A shutdown comes to its end, whatever the threads were doing when it was asked
\* for, if the Agent goes on posting.
ShutdownEnds == []<>posted => (attemptingShutdown ~> process # "running")
=================================================================================
