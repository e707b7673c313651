# A TLA+ model of rUNSWift 2019

rUNSWift is the software of a team of Nao robots that play soccer. Two processes run a
robot: *naoqi*, the manufacturer's, into which rUNSWift loads **libagent**; and
**runswift**, the *player*, whose threads see, decide and move. This directory holds TLA+
modules for the part of it where concurrency, failure and order of events matter, the TLC
configurations that check them, and theorems with proofs that TLAPS checks.

Paths below are relative to `src/robot/` unless they begin with `src/`.

| run | command (in this directory) |
| --- | --- |
| model checking | `tlc -config Agent.cfg Agent.tla` (likewise the other configurations) |
| proofs | `tlapm Agent_proofs.tla` (likewise the other `_proofs` modules) |

## 1. The system

### 1.1 libagent (`libagent/`), inside naoqi

State: `limp`, `head_limp`, `sit_step`, `skipped_frames`, the press counters `chest_down`,
`chest_up`, `chest_presses`, the `head_press_stack`, and `shuttingDown`.
The robot's device manager (DCM) calls `preCallback` and `postCallback` in turn, 100 times a
second, on a thread of its own. `preCallback` commands the joints: no torque if limp or if
the player has been told to stand up, the player's joints as long as it is in contact, else a
two-stage sit-down that ends limp. `postCallback` copies the sensors to shared memory, counts
button presses, reads strokes over the head, obeys the player's stiffen command, and does a
V() on a semaphore if its value is 0. If it is not, the player has missed a cycle.
The constructor and the destructor run on naoqi's main thread.

*Hard:* it is the last line of defence. It must survive a player that is late, hangs, dies or
comes back at any moment, a naoqi that restarts with the shared memory of an earlier session,
and an operator that presses anything at any time.
*Correct if:* the motors follow the player only while it is in contact; a sit-down is not
abandoned half-way; without a player the robot ends up without power; one shutdown per hold;
no press, command, death or fault leaves a robot both limp and told to stand, save that the
effector's own two stores of `standing` can (section 3), and a shutdown.

### 1.2 The shared memory (`libagent/AgentData.hpp`, `motion/touch/AgentTouch.cpp`, `motion/effector/AgentEffector.cpp`)

State: three slots of sensors and buttons, three of joints, LEDs and stiffen commands, an
index of the slot last written and one of the slot being read for each direction, the flag
`standing` that both sides write, and the semaphore. There is no lock.

*Hard:* every access races with the other process; either process may end and start again.
*Correct if:* no wake-up is lost or doubled; a command is obeyed once; contact is lost only,
and always, when the player is gone; no sample is torn; `standing` is seen before it is
lowered; nothing is used after it is unmapped. (The last three do not hold, see section 5.)

### 1.3 Motion generators (`motion/generator/`)

State: the current generator, whether it has been told to stop, and each generator's own
progress: the frame of a pose file, the walk engine's `stopped`, the countdown of the
referee's pick-up, the ticks of the dead. `DistributedGenerator::makeJoints`, called once a
cycle with the behaviour's request, decides who moves the robot.

*Hard:* requests change at any moment, in particular in mid-action, and a generator keeps the
progress with which it was left.
*Correct if:* getups and dives play to their end; no action starts in the middle; a goalie
that has gone down comes up the way it should; nothing is repeated unasked; a request that
stays is served.

### 1.4 The player's threads (`main.cpp`, `thread/`)

`ThreadManager` runs Motion, Perception, GameController, the receivers and transmitters. It
catches SIGSEGV, SIGFPE and the like with a `longjmp` back into the thread's loop, which
builds the thread's object anew; it turns SIGINT and SIGTERM into a flag every loop tests;
`main` joins the threads in order. State: `attemptingShutdown`, the jump points, the
registered handlers, the signal masks, the `flock` that keeps a second player out.

*Hard:* faults at any point, with locks held; shutdown with a thread blocked in P().
*Correct if:* the handler leaves through the faulting thread's own live jump point; a first
fault of a kind in a thread is survived; no thread waits for a lock of its own past; a shutdown
ends, and `main` deletes the blackboard after the last thread.

### 1.5 The Blackboard (`blackboard/`)

Shared state of all threads, read and written without locks save `serialization`, which on the
robot Perception alone takes, in its sections of Vision and of StateEstimation. `behaviour.request` is a double
buffer; `motion.buttons`, `stateEstimation.havePendingIncomingSharedBundle` and
`receiver.incapacitated` are read, changed and written back by two threads.

*Hard:* lost updates, torn reads, a lock held across a fault.
*Correct if:* no press is served twice or lost; Motion never works with parts of two requests;
a sighting of the ball is sent and merged once. (The last does not hold, see section 5.)

### 1.6 Behaviour (`perception/behaviour/`, `src/image/home/nao/data/behaviours/`)

Python strategy yields a request; `SafetySkill` replaces it when the robot falls, has fallen
or was picked up; `BehaviourAdapter` puts it in the buffer not being read. State: the fall
counter and filter, the double buffer's index, the skill's own.

A remote control's command goes round behaviour and safety skill for 60 seconds
(`PerceptionThread.cpp:115`); the 2 seconds of `BehaviourAdapter.cpp:25` ("will stop the robot
if message older than this") are looked at only after those 60 are over.

*Hard:* the sample, the request and what is played are each one step behind the other; counts
are carried on over ticks that are not the skill's; both threads may be rebuilt.
*Correct if:* a fall is confirmed over consecutive frames; a robot that lies is not walked, and
is made to get up; what the skill began ends once the robot is up.

### 1.7 GameController (`gamecontroller/`), team messages (`receiver/`, `transmitter/`)

The game's state from the referee's packets, buttons and whistles (a vote among teammates
that holds PLAYING while the packets still say SET); team-mates' messages, and who of them is
incapacitated. *Hard:* lost and late packets, votes that confirm each other.
*Correct if:* nobody plays in SET unless somebody heard a whistle or was let play by hand;
nobody stops for a packet that is late; the whole team follows the referee in the end.

### 1.8 The LoLA touch and effector (`motion/touch/LoLATouch.cpp`, `motion/effector/LoLAEffector.cpp`, `motion/LoLAData.cpp`)

The V6 robot has no libagent. The Motion thread exchanges messages with LoLA, the manufacturer's
process, over a local socket, and does what libagent did: counts the button presses, keeps
`limp` and `standing`, and sits the robot down, here in the effector's destructor, which runs
when a Motion thread ends or is left by an exception, but not by a fault. Three presses end runswift: a killall at once, a kill -9 four
seconds later. A daemon (`src/image/home/nao/bin/daemon.py`) counts presses while there is no
runswift, and starts it. State: the counters, `limp`, `standing`, `isConnected` and the socket,
all of them static, so that they outlive a Motion thread.

*Hard:* a tick may fault or throw between any two of its parts, LoLA may go and come back, a
signal may come at any point, and the kill -9 is timed blindly.
*Correct if:* a robot made powerless rises from a generator at its start; runswift ends seated,
without power, and is not killed before; the joints are played only by a tick; what was told to
end ends.

### 1.9 The rest

Vision, state estimation and kinematics (`perception/`) and the walk's gait are numeric and
sequential. The OffNao transmitter, the dumper, `simulation/` and the tools under `src/utils` are
I/O. Eigen, FADBAD++ and tiny-dnn are third-party.

### 1.10 How they interact

```
 referee, team ──> receivers, GameController ──┐
 cameras ──> Perception (Vision, StateEstimation, Behaviour + SafetySkill)
                                               │ Blackboard: request (double buffer)
                                               v
 Motion thread:  AgentTouch.P() -> sensors, buttons, standing
                 DistributedGenerator.makeJoints(request)
                 AgentEffector.actuate(joints, stiffen)
                     ^ V(), sensors            │ joints, stiffen, standing
                     │       shared memory     v
 DCM thread:     libagent postCallback   libagent preCallback ──> motors
```

## 2. Modules

| module | models | looks at |
| --- | --- | --- |
| `AgentChannel` | 1.2, both sides' accesses in their order | single loads, stores and semaphore calls |
| `Agent` | 1.1, with the player as its environment | whole stages of a callback |
| `Contact` | what `AgentChannel` provides and `Agent` relies on: an abstract specification of both | the semaphore, the two counts |
| `Failsafe` | what 1.1 and 1.8 promise: the abstract specification of `Agent` and of `LoLA` | motors, contact, the way down |
| `DistributedGenerator` | 1.3, with the behaviour as its environment | whole calls of makeJoints |
| `FallProtection` | 1.6 and the Motion thread, composed with `DistributedGenerator` | ticks, and the two halves of Motion's |
| `ThreadManager` | 1.4 | steps of safelyRun, of the handler and of main |
| `Blackboard` | 1.5: the request and the buttons | single reads and writes, parts of a copy |
| `Register` | the abstract specification of `Blackboard`'s request | a post, a take |
| `GameController` | 1.7: the state of the game, in a whole team | a tick's start, packets, decision and second write |
| `SharedBundle` | 1.5 and 1.7: the bundles from one robot's filter to another's | single reads and writes |
| `LoLA` | 1.8, with LoLA, the daemon and the kills as its environment | the parts of a tick, cycles of the sit-down |

`AgentChannel`, `Agent`, `DistributedGenerator`, `FallProtection`, `ThreadManager`, `Blackboard`,
`GameController` and `LoLA` have a module of theorems each (`_proofs`).

How they meet: `Agent` sees of the player what `AgentChannel` shows of it, which is `Contact`: both are
shown to implement that module. `FallProtection` is an
INSTANCE of `DistributedGenerator` whose requests are the posts of Perception and whose rebuilt
Motion thread is that of `ThreadManager`; its posts are instants, which `Blackboard` shows by
implementing `Register`. `LoLA` takes the ends and
beginnings of a Motion thread from `ThreadManager`, which says that a fault is survived. The request and the presses that `Blackboard` hands on are inputs of
`DistributedGenerator` and `GameController`.

### AgentChannel

Each program point of a callback and of a Motion tick between two accesses to shared memory
is a value of `agentPc` or `playerPc`; each access is an action. A copy of a slot takes from
the step that reaches its program point to the step that leaves it, so that two copies can
overlap. Slots are abstract except for the stiffen command. `DoButtons` is a toggle of `limp`
at any time. Crashes: the Motion thread is rebuilt (`MotionRestart`), the process dies
between any two steps and starts again, naoqi runs its destructor while callbacks go on and
later its constructor. `Init` allows what an earlier session leaves behind. `sinceWait`,
`owed` and `standRequest` are history variables: no action's guard reads them.

### Agent and Failsafe

`phase` is what the DCM thread does next: preCallback, or one of four stages of postCallback,
so that the player runs in between. `chest_down` counts to `Hold`, `chest_up` to
`MAX_CLICK_INTERVAL`, `skipped_frames` to `MAX_SKIPS`, each to one beyond its limit and no
further: the code compares them with the limit alone. `sit_step` counts the steps of 0.005 and
0.01 of the code's float: `Crouch` of them and then `Settle`. `Halted` is the code's
`numeric_limits<int>::min()`. The head's 500 ms timer is a choice (`late`).
`killall runswift` sends a SIGTERM that the player obeys when it gets to it, so `Killed` lets
it end now or stay for now. The player is `PlayerTakes` (its P()), `PlayerActuates` (up to the
publication of its slot), the two stores of `standing` that end an actuate (`StoreKillStanding`
and `ToggleKillStanding`; the flag is volatile, so both are made), a fault of the Motion thread
(`MotionRestarts`, which leaves the static `kill_standing` as it was) and `PlayerDies`; `playerPc`
says which is due. `stray` is a history: what `standing` holds is the first store of an actuate
that has not made its second. `head_limp`, which nothing else depends on, is left out. That the semaphore and the counter may be taken as one step of a callback, whatever
the player does between the calls, is `Contact`: a V() (`Post`), a missed cycle (`Miss`), a P()
(`Take`), and a libagent that goes and comes back (`Stop`, `Restart`). The two modules count the cycles since the
last P() a little differently, `Agent` to one more than it compares; the mapping of each (`Contact`
in the module) says how. What a restarted libagent is to think of a player past its P() is left open
in `Contact`, since the two modules set their histories differently there and nothing rests on it.

`Failsafe` leaves all that out and keeps the motors' power, whether the robot is on its way down
and owed a limp, and whether the player is heard. The mapping is: `torque` with both stiffnesses
of the sit-down as one, the history `mustLimp` as `seating`, and `sinceTake` within its limit as
`heard`. A player that is driven must be heard and the robot not on its way down.

### DistributedGenerator

`Tick` is `makeJoints` whole: the priority test and reset (`Preempt`), the inactive current
generator left for the next (`Switch`), or the active one going on (`Continue`), with the play
that follows and the end of a kick. `StandUp` is MotionAdapter's tick with `standing`, which
resets everything and asks for INITIAL in the same call. `Rebuilt` is a Motion thread built
anew: every pose claims to be at its end, and no reset has been made. `IsActive`, `FrameAfter`,
`PickAfter` and `Play` are the generators' isActive and makeJoints; the four walk actions share
one engine as in the code.
`requestedDive` is kept although it decides nothing; `prev_generator` is written only.

### FallProtection

`PerceptionTick` is PerceptionThread's choice between a remote command and BehaviourAdapter's
tick, with the safety skill's branches in their order. The sample is reduced to the tests the
skill makes of it: in which direction the robot has fallen, in which it is falling, whether it
is light. One that has fallen is not also falling, whose angles exclude each other. `Asked` has
BehaviourAdapter's order: the calibration of the kinematics, an option that may be set at any time,
asks to stand; then comes remote control, then the skills, the IMU's calibration (`Calibrate`) among
them. `Strategy` is what a skill may ask for; no skill asks for an ukemi. Motion reads the request, waits for a
sample, and ticks: two actions, between which anything may happen. `Stamp` and `Store` are the
receiver's two writes. `fallTicks`, `bypassed`, `disturbed` and `lying` are history variables.

### ThreadManager

`pc` follows each thread through `safelyRun`: the two loops, setjmp, the component's building,
its ticks and destruction, the catch and its pause; then the handler and its `longjmp`. The
ticks of Perception show its two sections under the serialization lock, those of Motion its
P(); the ticks of the others are one step. A `Fault` or a `Throw` may come anywhere in a
component's own code. The kernel's side is in `Fault` and `Interrupt`: a signal that is blocked in
the thread, or whose disposition is the default (SA_RESETHAND makes it so until the handler has
registered itself again), ends the process. `causes` remembers what runswift is not built for:
a fault repeated in a thread, two of a kind at once, one in a thread without a jump point, a
second interrupt. A jump through a buffer that is not live ends the process.

### Blackboard and Register

Perception copies a request of `Parts` parts into the buffer that `readBuf` does not name, then
sets `readBuf`; Motion reads `readBuf`, then copies the parts. Nothing but time keeps a second
post out of the buffer Motion is copying: a copy takes at most `CopyTime`, and two posts
are at least `TickTime` apart, with `CopyTime < TickTime`. Motion is a SCHED_FIFO thread and a
copy takes microseconds; Perception waits for a camera frame (33 ms) in every tick. This is the
one assumption about time in the project, it is named (`BlackboardAssumption`), and without it
`NoTornRequest` fails. The buttons are one bit (the single press, the only one that
GameController takes). `pending` and `apart` are histories: a press not yet served, and whether
since it was made the two writers have not overlapped.

### GameController

Each robot's tick is `Start`, any number of `Packet`s, `Decide` and, where only a whistle was
heard, `Tell`, the second write of `gameState`, which the TeamTransmitter may read before or
after. The official state changes at will; each packet has the state of its arrival. `opinion` is
what a robot holds of another: incapacitated (the vote does not count it), playing or waiting.
A message arrives at once or never; a message too old to matter is one that never arrived.
Penalties, whistles, presses and where a robot stands are inputs of each step. INITIAL and
FINISHED are handled as READY is, and stand for it. `Enough` has the code's two thresholds, 0.30
and 0.49; for a team of two they coincide, the theorems are about any number.

### SharedBundle

Each step of a bundle's way is an action: Perception's estimate (which reads the pending flag
first), the bundle's write, the flag's; the transmitter's copy, its send; the receiver's flag,
its data; the merge, and the lowering of the flags. The transmitter sends once a second and
Perception ticks thirty times, so `CopyBundle` waits for a whole tick since the last message.
`seen` counts sightings up to `MaxSeen`; `merged` and `mergedTwice` are histories.

### LoLA

A tick is three steps, since what may come between them matters: `Load` (`loadCache`), `Buttons`
(`getButtons`, `getStanding` and the reset of the generator) and `Actuate`. `Throw` leaves a tick
by the destructor, whose loops are `Sit`, one step a cycle; `Fault` leaves it by the signal
handler's jump, past the destructor; `Build` is safelyRun's loop. `live` says whether the socket is
connected to the LoLA that runs and `isConnected` whether the code believes so; a read or a write
that fails makes the next one connect anew (`Reached`, `Access`). A tick that does not reach LoLA
keeps the last sample (`chest`). The destructor of a runswift that is told to end counts the time
(`Waits`) for the kill -9 on its way (`reaper`); with the Motion thread's other cycles time passes
as well, but the destructor follows them at once, within the second that `KILL_SLEEP_SECONDS` has to
spare. Falling and foot bumpers are inputs of `Buttons`, the stiffen command one of `Actuate`.

What is history: `rested` (powerless since the last reset of the generator) and `cutShort` (the
last tick faulted, or threw before what it decided took effect).
`motors` is what LoLA was last told, "none" when LoLA or runswift is new.

## 3. What is checked

| run | states | bounds | shows |
| --- | --- | --- | --- |
| `agent_channel` | 218,832 | MAX_SKIPS = 2 | section 1.2 under every interleaving |
| `agent` | 1,752,669 | MAX_SKIPS = 1, MAX_CLICK_INTERVAL = 1, Hold = 2, Crouch = Settle = 1 | section 1.1 |
| `distributed_generator` | 4,500 | Frames = 4, MIN_TICKS = 2, PickTime = 2, 14 action types | section 1.3 |
| `fall_protection` | 455,719 | Frames = 2, one direction, 2 frames to confirm, a strategy of 3, one remote command | section 1.6 with 1.3 |
| `thread_manager` | 551,046 | Perception and Motion, two fault signals, one interrupt | section 1.4 |
| `blackboard` | 570,442 | three requests of two parts, CopyTime = 1, TickTime = 2 | section 1.5 |
| `game_controller` | 251,112 | two robots, one mishap | section 1.7 |
| `lola` | 119,122 | MAX_CLICK_INTERVAL = 1, Hold = 2, SIT_MIDDLE_CYCLES = 2, SIT_CYCLES = 1, KillSleep = 4 | section 1.8 |

*AgentChannel.* `SemaphoreBinary`: the check and the V() are two calls, yet the semaphore
never passes 1. `NoMissedWakeup`: a blocked player is woken. `NoFalseLostContact`: the count
of missed cycles never runs ahead of the cycles missed; `LostContactDetected` and
`ContactReestablished`: it reaches its limit when the player is gone, and comes back to 0 when
one is there, even one whose Motion thread keeps crashing. `StiffenAtMostOnce`: a stiffen
command is obeyed once per store; a player whose behaviour goes on asking stores it again each
cycle, and one left by an earlier session counts as stored. `ImplementsContact`: access by access, with crashes and restarts,
the semaphore and the counts are those of `Contact`.

*Agent.* `ImplementsFailsafe`: the motors go over to the player only while it is heard, never
from half-way down, and the way down ends powerless. `ImplementsContact`: it uses the semaphore as
the channel allows. `HaltsOnce`: one shutdown, however long the button is held. `StandingNotLimp`:
limp and `standing` do not meet but where the effector stores TRUE on its way to storing FALSE
(`AgentEffector.cpp:72-75`, every second actuate) and the robot has just been made limp, or after a
shutdown; a player that dies, or whose Motion thread faults, between the two stores leaves it so.
The robot has no power then, and stays limp until pressed or stiffened. With fairness
`DeadPlayerEndsPowerless`, and `PressesTakeEffect`: no presses are kept for ever. That two
series are not taken for one is the comparison at the head of `doButtons`, and no property.

*DistributedGenerator.* `ArmedUnlessCurrent`: what is not current is at its start.
`TopPriorityPlaysOut`, `CentreIsUndone` and `ReplayOnlyIfContested` are about single steps;
`EnteredAtItsStart` says that no getup, dive or other pose of some priority is entered in the
middle, also after a rebuilt Motion thread, when every generator claims to be at its end.
(INITIAL and STAND, of priority 0, may be, and are joined at their last pose.)
`RequestServed` is liveness, and leaves the walk out (section 5).

*FallProtection.* `ConfirmedFall`: an ukemi comes only after as many falling ticks in a row as it
should, save where a remote command or a calibration has interrupted the count, which nobody
resets. `LyingIsNotWalked`: from the tick in which the post for a lying robot is played, it is
not walked until seen up. `FallenGetsUp` and `BackOnItsFeet`: a robot that stays on its face
gets up, one that stays on its feet is given back to the behaviour, whatever was playing.

*ThreadManager.* `LiveJump`: the buffer is live, in any mixture of faults and exceptions (the
catch frees it and leaves the pointer). `NoSelfDeadlock`: a Perception that faulted under the
lock does not meet it again. `FirstFaultSurvived`: every first fault of a kind of a thread is
survived, and only the things in `causes` kill. A second fault of the same kind in the same
thread does kill it: `longjmp` leaves the signal blocked, as `setjmp` does not save the mask.
`PerceptionRecovers`; `ShutdownEnds`, if the Agent goes on posting: without posts Motion stays
in its P(), and main() in its join, for ever.

*Blackboard.* `NoTornRequest` and `ImplementsRegister`: what Motion works with was posted, whole.
`ServedOnce` and `PressIsServed`: where the two writers of the buttons do not overlap, a press
is served, once. Where they do, it may be lost or served again, which the code accepts.

*GameController.* `NoFalseStart`: if nobody played, or said so, when SET began, nobody does until
a whistle or a press. It says nothing of a SET that a robot enters still telling PLAYING:
`GameController.cpp:97` takes what the robot told before the tick for a whistle, and that may
stem from the last phase if a READY between was missed or taken in the same tick.
`KeepsPlaying`: who plays stops only for a packet that says neither SET nor PLAYING.
`FollowsOfficial`: in READY and PLAYING all follow in the end.

*LoLA.* `RisesFromReset`: whatever was pressed or commanded and whatever failed, the joints of a
robot that lay powerless come from a generator that was reset since, or is new. `EndsPowerless`:
runswift ends without power, unless the last tick faulted, which passes the destructor by, or
threw after `limp` was set and before it was played, which the destructor takes for a robot
without power. `ReapsTheSeated`: a kill -9 finds a runswift that was told to end and has sat
down; never the next one, because the daemon's own `pkill -9 -f` finds the shell that waits for
it, whose command line names runswift. `ImplementsFailsafe`: only a tick plays the joints, and a
sit-down ends powerless before the next. `Ends`: told to, runswift ends.

**Why the bounds are enough.** The counters are compared with one limit each, so a small limit
reaches both sides of every comparison and the runs saturate each counter. MAX_SKIPS = 2 in
the channel leaves two cycles in which the player may be late without being lost. The numbers of
slots and buffers are the code's. Four frames give a pose a first, two middle and a last frame;
two give it a first and a last. The 14 action types of the run have at least one of each
priority, of each kind of generator and of each special case in makeJoints; the rest differ from
one of them in name only. `fall_protection` falls on its face, so that the getup, the ukemi and
the count are reached; with a second direction it passes as well, in longer than these runs are
meant to take, and the theorems are about all directions. Perception and Motion are the threads
with a lock and a wait; any other is Motion without its wait. Two fault signals tell a repeated
fault from a new one. Two parts can be torn. `MaxMishaps` bounds the presses of the chest button
and the faults of GameController in `game_controller`: one lets play by hand, or one rebuilding.
`MaxSeen` = 1 sighting is enough for one to be counted twice. In `lola` the kill -9 comes one cycle
after the sit-down at the earliest, which is the least that `LoLAAssumption` allows. The theorems of section 4 have
none of these bounds.

**Fairness.** The channel assumes weak fairness of the Agent's steps together and of the
player's steps together: naoqi calls back as long as it runs, and the Motion thread, scheduled
SCHED_FIFO by ThreadManager, goes on as long as its process lives. Agent assumes only that the
DCM goes on. DistributedGenerator assumes that the Motion thread ticks. FallProtection assumes
that Perception ticks, that Motion reads and gets out of every wait, and that time passes; its two
liveness properties take as premises that faults, standing commands, calibration and remote
commands end. ThreadManager assumes that each thread and main() are scheduled, and of the Agent
nothing: `ShutdownEnds` has the posts as its premise, and `PerceptionRecovers` that faults,
exceptions and requests to shut down end. Blackboard assumes that the two threads tick.
GameController assumes that each tick begins and ends, stated of the states, and strong fairness
of a robot's packets: they come twice a second and are lost often but not always. LoLA assumes that
the Motion thread goes on (a LoLA that is connected sends a sample every cycle, and reads that fail
return), that a killall's signal arrives, and that the other threads end, which `ShutdownEnds`
shows of them. Starts,
crashes, presses and requests are never assumed to happen. Deadlock is checked in every passing
run.

Each module has its type invariant `TypeOK`, which is proved (section 4) for every value of the
constants and in no run; `SharedBundle`, without theorems, is the exception.

Every property of a passing run has a mutant, an operator in its module's section *Mutants*
which changes a definition as a plausible bug would; TLC finds the property violated with it.

## 4. What is proved

For every value of the constants that the modules' assumptions allow (`MAX_SKIPS` and the other
limits natural numbers, lengths of poses and sit-down at least 1, any strategy without ukemis,
any set of threads with Perception and Motion, any finite team, any number of parts with
`CopyTime < TickTime`, a kill -9 that waits for longer than the sit-down takes):

| module | theorem | property |
| --- | --- | --- |
| `AgentChannel_proofs` | `TypeCorrect` | `TypeOK` (not in a run) |
| | `SemaphoreIsBinary` | `SemaphoreBinary` |
| | `SlotZeroOnly`, from `WriteIndexInUse` | `OnlySlotZero` (not in a run) |
| | `StiffenObeyedOnce` | `StiffenAtMostOnce` |
| | `NoFalseLoss` | `NoFalseLostContact` |
| | `CountsAsOne` | `ImplementsContact` |
| | `Wakes` * | `NoMissedWakeup` |
| | `Reestablished` * | `ContactReestablished` |
| | `Lost` * †, from `CountsOn` * | `LostContactDetected` |
| `Agent_proofs` | `TypeCorrect` | `TypeOK` (not in a run) |
| | `SitDownEndsLimp` | `SitRunsToLimp` (not in a run) |
| | `TorqueOnlyInContact` | `TorqueNeedsContact` (not in a run) |
| | `OneShutdown` | `HaltsOnce` |
| | `StandingWithPower` | `StandingNotLimp` |
| | `Implementation` | `ImplementsFailsafe` |
| | `CountsAsOne` | `ImplementsContact` |
| | `EndsPowerless` * †, from `CountsOn` * | `DeadPlayerEndsPowerless` |
| | `PressesActedUpon` * †, from `WaitsOn` * | `PressesTakeEffect` |
| `DistributedGenerator_proofs` | `TypeCorrect` | `TypeOK` (not in a run) |
| | `Armed` | `ArmedUnlessCurrent` |
| | `NotInterrupted` | `TopPriorityPlaysOut` |
| | `CentreUndone` | `CentreIsUndone` |
| | `NoIdleReplay` | `ReplayOnlyIfContested` |
| | `Entered` | `EnteredAtItsStart` |
| | `ServedInTheEnd` * †, from `ComesOn` * | `RequestServed` |
| `FallProtection_proofs` | `TypeCorrect` | `TypeOK` (not in a run) |
| | `LyingNotWalked` | `LyingIsNotWalked` |
| | `Confirmed` | `ConfirmedFall` |
| | `DrivesGenerators` | the generators' Init and Next, without fairness |
| | `GetsUp` * †, from `AimsOn` * | `FallenGetsUp` |
| | `GivenBack` * †, from `FreesOn` * | `BackOnItsFeet` |
| `ThreadManager_proofs` | `TypeCorrect` | `TypeOK` (not in a run) |
| | `JumpsLive` | `LiveJump` |
| | `NotDeadlocked` | `NoSelfDeadlock` |
| | `Survives` | `FirstFaultSurvived` |
| | `NotUsedAfterDelete` | `NoUseAfterDelete` (not in a run) |
| | `Shutdown` * | `ShutdownEnds` |
| | `Recovers` * | `PerceptionRecovers` |
| `Blackboard_proofs` | `TypeCorrect` | `TypeOK` (not in a run) |
| | `NotTorn` | `NoTornRequest` |
| | `Once` | `ServedOnce` |
| | `Implementation` | `ImplementsRegister` |
| | `Served` * | `PressIsServed` |
| `GameController_proofs` | `TypeCorrect` | `TypeOK` (not in a run) |
| | `NobodyStarts` | `NoFalseStart` |
| | `KeptPlaying` | `KeepsPlaying` |
| | `AllFollow` * †, from `FollowsOn` * † | `FollowsOfficial` |
| `LoLA_proofs` | `TypeCorrect` | `TypeOK` (not in a run) |
| | `Rises` | `RisesFromReset` |
| | `LeftPowerless` | `EndsPowerless` |
| | `Reaped` | `ReapsTheSeated` |
| | `Implementation` | `ImplementsFailsafe` |
| | `Ended` * †, from `SitsOn` * | `Ends` |

Every property of a passing run is in the table. What the theorems marked with * and † suppose is
said under *Liveness* below. In the safety theorems nothing is supposed.

*AgentChannel.* The invariant `IInv` adds to the properties that the semaphore is 0 while the
Agent is between sem_getvalue and sem_post (only the player's P() can change it, downwards),
that every stored STIFFEN is owed unless the Agent is about to clear it, and that while a V()
waits for its P() the count of missed cycles is at most those missed. The part about STIFFEN
rests on slot 0 being the only one in use.

*Agent.* `ContactInv` is the heart: either the missed cycles keep pace with the cycles since
the last P(); or no player is past its P() and the motors have no power; or contact is lost
already. The second case is needed because `skipped_frames` starts at 0 with no player about.
`StandInv` adds to `StandingNotLimp` that an actuate between its stores takes down what it put up
(`kill_standing` is still TRUE there): so a `standing` that outlives it is somebody else's.
`SitInv` says that a sit-down that owes a limp is under way; `HaltInv` that the hold counter is
out of reach after a shutdown. `Implementation` maps each action to a step or a stutter of
Failsafe (`FailsafeStep`): `ContactInv` gives that a player that drives is heard, `SitInv` that
the robot is then not on its way down.

*DistributedGenerator.* `Armed` goes by the three branches of makeJoints: reset arms all but the
request; the generator left behind is reset (`LeftIsReset`); the one that goes on is current.
`NoIdleReplay` needs that isStopping is raised only when another action has been asked for.
`Entered` needs `ResetInv`: as long as no reset has been made what is current has priority 0, so
that the first request of any urgency goes through the preemption, which resets it too.

*FallProtection.* `CountInv`: the count never runs ahead of the falling ticks, but for a bypass.
`LyingInv`: what was posted, read and played since the robot was seen lying, in that order, is
one of four requests. `DrivesGenerators` shows each step of the two threads to be a step or a
stutter of the generators.

*ThreadManager.* `JumpInv`: from the setjmp to the free() the jump point is live. `LockInv`:
outside its sections a built Perception holds no lock (the release in its constructor is what
makes it so). `BlockedInv` and `DefaultInv`: a thread blocks only what it was restarted for, and
a fault is without a handler only while a handler of it is about to register itself. `JoinInv`:
a joined thread is over.

*Blackboard.* `WriterInv`: Perception writes the other buffer, whole as far as it has come.
`ReaderInv`: if a post has come since Motion read `readBuf`, it is more recent than that, and
the next has not begun, since a copy takes less than two posts are apart. `ButtonInv`: a press
that waits has not been served. `Implementation` maps the copy's first step to `Take`.

*GameController.* `QuietInv`: while it is quiet nothing says PLAYING, not even an opinion or a
write about to be made; none of any number is not enough (`NoneIsNotEnough`). `TickInv`: a tick
that began with PLAYING has it still, unless a packet has taken it.

*LoLA.* `RisesInv`: while a generator that has rested is due for a reset, `standing` keeps it due,
unless the robot is limp; once the joints are to be played it has been made. `PowerInv`: a limp
tick that came to its end, and a destructor that is through, have taken the power away;
`LinkInv` gives that they reached LoLA, for whom nothing was told before would be powerless
anyway. `ReaperInv` sets the kill -9 against the sit-down: it has waited no longer than the way
down has taken. `Implementation` maps `motors` to Failsafe's power, a robot on its way down to
`motors = "seat"` (`SeatInv`), and what is heard to being in a tick.

*Contact.* `ContactStep` and `CountsStep` map each access, and each stage of a callback, to a step or
a stutter. The V() is where the channel could fail: that the semaphore is still 0 there is `SemInv`.

**Liveness.** The prover knows nothing of ENABLED, and cannot do induction over a temporal formula.
Each liveness theorem therefore has hypotheses, by name:

* Those marked * suppose that what fairness is about is enabled where the argument needs it:
  `AgentReady` and `PlayerReady` (a naoqi that is not shutting down has a next access to make, a player
  that is alive too unless it is in a P() that blocks), `CallbackReady` (naoqi, if it is up, calls),
  `ControllerReady` and the `MotionReady` of `Blackboard` (the two threads tick), `TickReady`
  (makeJoints does something while the request is not served), `MotionReady` of `FallProtection`
  (the request can be read) and `PerceptionReady` (a robot that lies, or is up, and was not told so can
  be told), `ThreadsReady` and `MainReady` (a thread that is not blocked has a step), `PacketReady`
  (a packet with news can be taken in a tick), `MotionReady`, `KillallReady` and `ExitReady` of `LoLA`.
  Each is one formula of the proof module, on one state, without reference to the property. That each
  holds can be read from the guards of the actions, and TLC confirms all of them as invariants of the
  instances of section 3 (`tlc` on the proof module, with its run's constants).
* Those marked † suppose induction over a count, of cycles most of them: `CountInduction`,
  `WaitInduction`, `SitInduction`, `ComeInduction`, `AimInduction`, `FreeInduction` and
  `MishapInduction` have the form C(0) and, for all k to N, C(k) => C(k + 1), imply C(N + 1), which is
  true whatever C says; `TeamInduction` goes from the empty set to a finite one by one robot after the
  other. The base and the step are proved, the step as a theorem of its own for every k (`CountsOn`,
  `WaitsOn`, `SitsOn`, `ComesOn`, `AimsOn`, `FreesOn`, the lemma `MishapsOn`) or every robot
  (`FollowsOn`).
* `GivenBack` supposes of the strategy that it does not ask for a getup, DEAD or REF_PICKUP itself. No
  skill under `image/home/nao/data/behaviours` names one of them.

Fairness itself is in `Spec`, and used there. The arguments:

*AgentChannel.* The Agent's program points follow one another, and those of the player; where the
Agent comes by the semaphore it posts if that is 0, which is what a blocked player waits for
(`Wakes`). `Reestablished`: a player that is not blocked comes to its P(), takes what there is, and
the Agent finds 0. `Lost`: with nobody to take it the V() stays, and each round counts one more.

*Agent.* The five stages of a callback follow one another (`Turns`). `EndsPowerless`: `Progress` is
the missed cycles and then the steps of the way down; each round adds one until the
robot is limp or told to stand, and with no player to see that it stays one of the two: what ends limp
begins standing, and the other way round (`IdleStays`).
`PressesActedUpon`: a button at rest is counted up to MAX_CLICK_INTERVAL, where the presses are
acted upon.

*DistributedGenerator.* `Left` is what the current generator has left at most: frames, ticks or the
countdown of the pick-up, which needs that a pick-up whose countdown has run out has stopped
(`PickInv`); after GOALIE_CENTRE comes the way back. Each cycle takes one off (`TickNearer`).

*FallProtection.* The lemmas about the generators are cited as they stand, with the requests of the two
threads for theirs (`Lemmas`, `SameGenerators`). `GetsUp`: Perception posts the getup, or has
(`PostsGetup`), Motion reads it, and each tick that is not disturbed begins it or takes one off `Left`
of whatever keeps the joints from it (`TickAims`). `GivenBack`: what is posted of a robot on its
feet is what the behaviour wants (`PostsFree`); a tick with that request begins something else, or takes
one off (`TickFrees`). A cycle that comes round without a tick is disturbed, and the next that is not
had one (`FreeStep`).

*ThreadManager.* `Shutdown`: each thread, at every program point, comes nearer to its end, given the
posts for Motion, whatever it throws; main() joins them in their order. `Recovers`: the way of a
Perception left in peace back to the end of its tick is a finite one (`Way`), and the lock on it is
free, by `LockInv`.

*Blackboard.* `Served`: the press is in the buttons, or on its way there (`StaysWaiting`), and the
next tick of GameController that does not overlap pops it.

*LoLA.* `Ended`: whatever a tick does, and wherever it throws or faults, the loops test the flag next
(`EndOrder`); the way down counts its cycles; main()'s end follows. A kill -9 only shortens it.

*GameController.* `OneFollows`: a tick with news takes a packet in the end, by strong fairness; its
decision is that packet's, whatever was heard or the team says, once no button is pressed
(`FollowStep`), and the next tick begins with it. Presses and faults end since they are bounded.

Only model-checked: the violations, and that the hypotheses of the liveness theorems hold. No module
declares a RECURSIVE operator; the proof system could not be used with one, nor for induction over data.

## 5. Findings

Each is a run that ends in a counterexample, and quotes what the source says of itself.

* `torn_sample`: the loop that is to "find the right index to write to" stops at the first slot
  that *is* in use (`libagent/libagent.cpp:471`, `motion/effector/AgentEffector.cpp:63`): its
  condition joins with `&&` what should be `||`. The Agent rewrites a sample the player is
  copying.
* `standing_lost`: every actuate that comes to its end leaves `standing` lowered, whether or not it
  has been seen, though the effector "need[s] to wait one cycle"
  (`motion/effector/AgentEffector.cpp:70`).
* `use_after_unmap`: the test against a "race condition on shutdown" is made once, at the start
  of a callback (`libagent/libagent.cpp:311`), and the destructor does not wait for its end.
* `ball_counted_twice`: "updates ALWAYS decrease uncertainty. Uncertainty should not decrease if no
  one has seen the ball" (`TeamBallKF.cpp:146`). The receiver raises a player's flag before it
  stores the data (`receiver/Team.cpp:36`), and a tick of Perception between the two merges the
  player's last update again. The sender has a race of the same effect: a message that lowers
  the pending flag between the bundle's write and the flag's is not noticed
  (`StateEstimationAdapter.cpp:213-214`), and the update goes out again a second later. With the
  receiver's two writes made one, TLC finds this one instead.

What no run is needed for, since the code says it plainly, and the modules have it:

* `Walk2014Generator::stop` does nothing ("this does nothing", 1422), where `Generator.hpp:48`
  promises "like reset, but time is given to transition to the neutral stance". A request of no
  higher priority, such as STAND_STRAIGHT, is never served once the robot walks; `RequestServed`
  excepts it.
* The V6's sit-down is "Jayen's attempt to copy lost contact from libagent"
  (`motion/effector/LoLAEffector.cpp:140`). libagent's ends with `limp = true` and power comes back
  only when asked for; this one writes stiffness 0 once, and after an exception the next Motion
  thread plays its joints at once, from the crouch.
* Of a cycle without LoLA `MotionAdapter.cpp:196` says "just ignore it as we'll try again on the next
  cycle", and catches an exception that `LoLAData::read` does not throw. The tick goes on, and
  counts the chest button of the last sample heard (`LoLATouch.cpp:163`): one sample with the
  button down and an outage of "3 seconds" (138) shut the robot down.
* "motion expects this to be true for only one cycle and then false thereafter"
  (`LoLAData.hpp:22`). A stiffen command stays in the request for as many cycles as Motion plays
  it, raises `standing` in each (`LoLAEffector.cpp:259`), and each resets the generator.

## 6. Plan

1. Done: `Contact`, `AgentChannel`, `Agent` with `Failsafe`, `DistributedGenerator`, `FallProtection`,
   `ThreadManager`, `Blackboard` with `Register`, `GameController`, `SharedBundle`, `LoLA`, and the
   proofs of section 4.
2. `SharedBundle` with the flag stored last and lowered first, and a proof that a sighting is then
   merged once; the composition of several senders.
3. The walk's line-up and kick, whose phases are discrete even if the gait is not.

## 7. Not modelled

Joint angles, odometry, images, filters and positions: reals and large data, and code without
concurrency. In libagent: the head's own limp switch, battery, sonar, LEDs,
temperatures and speech. In ThreadManager: the
watchdog's SIGALRM, which speaks, and that a signal handler allocates and speaks. In
GameController: sockets, the validity of a packet, and where penalties come from. In the
receivers: the parsing and checking of messages. The state estimation's own rebuilding, after
which `haveOutgoingBallUpdate` is not initialised (it is overwritten when the pending flag is
low). In the LoLA touch and effector: battery,
temperatures, lost stiffness and LEDs; the head's own switch; faults and exceptions inside the
destructor's loops, which compute from what is there already; the time that the system() calls
of an outage take, which could make the sit-down longer than the kill -9 waits; and a runswift
started from a shell, and not by the daemon, while a kill -9 is still due, which would hit it. The
Python strategy: its requests are arbitrary here, which covers it. Third-party code
(Eigen, FADBAD++, tiny-dnn, the audio library), the off-robot tools under `src/research` and
`src/utils`, and the simulator: most of the repository's lines are in these and in the vision's
image processing, which is why the share of mapped lines is small.
