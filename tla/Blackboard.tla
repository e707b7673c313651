-------------------------------- MODULE Blackboard -------------------------------
(***************************************************************************)
(* Two places of the blackboard that threads share without a lock.         *)
(*                                                                         *)
(* The request: Perception copies it, part by part, into the buffer that   *)
(* readBuf does not name, and then makes readBuf name it.  Motion reads    *)
(* readBuf, and then copies the buffer it names.  Nothing tells Perception *)
(* that Motion is copying: what keeps the second post from Motion's buffer *)
(* is time.  A copy of Motion, a real-time thread, takes microseconds;     *)
(* from one post to the next Perception waits for a camera frame.          *)
(*                                                                         *)
(* The buttons: Motion adds the presses of its tick to them, and           *)
(* GameController takes the single press out.  Each of the two reads,      *)
(* changes and writes back.                                                *)
(***************************************************************************)
EXTENDS Naturals

CONSTANTS
  Requests,
  NoRequest,   \* what the buffers hold before the first post
  Parts,       \* the pieces in which a request is copied
  CopyTime,    \* the most a copy of Motion takes
  TickTime     \* the least from a post of Perception to the next

ASSUME BlackboardAssumption ==
  /\ NoRequest \in Requests
  /\ Parts \in Nat \ {0}
  /\ CopyTime \in Nat /\ TickTime \in Nat /\ CopyTime < TickTime

VARIABLES
  request, readBuf,            \* behaviour.request[2], behaviour.readBuf
  posting, writeBuf, wrapped,  \* Perception writes the request wrapped to writeBuf
  written,                     \* how many of its parts
  sincePost,                   \* time since readBuf was written, saturates at TickTime
  motion,                      \* what Motion does next: start, copy, tick or write the buttons
  behaviourReadBuf, copied,
  copy,                        \* Motion's copy of the request, and how many of its parts
  sinceRead,                   \* time since Motion read readBuf, while it copies
  buttons,                     \* motion.buttons: whether a single press waits
  motionButtons,               \* Motion's, when it has read them
  controllerButtons,           \* GameController's between its read and its write, or none
  pending,                     \* history: Motion has seen a press, GameController has not yet
  apart                        \* history: since that press the two have not overlapped

writerVars == <<request, readBuf, posting, writeBuf, wrapped, written, sincePost>>
readerVars == <<motion, behaviourReadBuf, copied, copy, sinceRead>>
buttonVars == <<buttons, motionButtons, controllerButtons, pending, apart>>
vars == <<writerVars, readerVars, buttonVars>>

Whole(r) == [p \in 1..Parts |-> r]

-----------------------------------------------------------------------------
(* Mutants *)

\* The post is written into the buffer that is being read.
OtherSame(i) == i

\* readBuf names the buffer as soon as its first part is written.
PostedEarly(n) == n >= 1

\* GameController looks at the press and leaves it.
AfterPopPeeked(pressed) == pressed

\* Motion writes the presses of its own tick alone.
WithPressOnly(waiting, press) == press

-----------------------------------------------------------------------------
(* Perception posts a request *)

Other(i) == (i + 1) % 2

\* The behaviour's next request, a camera frame after the last post at the earliest
Begin(r) ==
  /\ ~posting /\ sincePost = TickTime
  /\ posting' = TRUE /\ written' = 0
  /\ writeBuf' = Other(readBuf) /\ wrapped' = r
  /\ UNCHANGED <<request, readBuf, sincePost, readerVars, buttonVars>>

WritePart ==
  /\ posting /\ written < Parts
  /\ written' = written + 1
  /\ request' = [request EXCEPT ![writeBuf][written'] = wrapped]
  /\ UNCHANGED <<readBuf, posting, writeBuf, wrapped, sincePost, readerVars, buttonVars>>

Posted(n) == n = Parts

Post ==
  /\ posting /\ Posted(written)
  /\ readBuf' = writeBuf
  /\ posting' = FALSE /\ sincePost' = 0
  /\ UNCHANGED <<request, writeBuf, wrapped, written, readerVars, buttonVars>>

\* A fault leaves the buffer half written, and readBuf as it was.
PerceptionFault ==
  /\ posting
  /\ posting' = FALSE
  /\ UNCHANGED <<request, readBuf, writeBuf, wrapped, written, sincePost, readerVars, buttonVars>>

-----------------------------------------------------------------------------
(* Motion takes it, and hands on the buttons *)

ReadBuf ==
  /\ motion = "start"
  /\ motion' = "copy" /\ copied' = 0 /\ sinceRead' = 0
  /\ behaviourReadBuf' = readBuf
  /\ UNCHANGED <<copy, writerVars, buttonVars>>

CopyPart ==
  /\ motion = "copy"
  /\ copied' = copied + 1
  /\ copy' = [copy EXCEPT ![copied'] = request[behaviourReadBuf][copied']]
  /\ motion' = IF copied' = Parts THEN "tick" ELSE "copy"
  /\ UNCHANGED <<behaviourReadBuf, sinceRead, writerVars, buttonVars>>

WithPress(waiting, press) == waiting \/ press

\* buttons |= readFrom(motion, buttons), when a sample has come
ReadButtons(press) ==
  /\ motion = "tick"
  /\ motion' = "write"
  /\ motionButtons' = WithPress(buttons, press)
  /\ pending' = (pending \/ press)
  /\ apart' = (controllerButtons = "none" /\ (apart \/ (press /\ ~pending)))
  /\ UNCHANGED <<behaviourReadBuf, copied, copy, sinceRead, writerVars, buttons, controllerButtons>>

WriteButtons ==
  /\ motion = "write"
  /\ motion' = "start"
  /\ buttons' = motionButtons
  /\ UNCHANGED <<behaviourReadBuf, copied, copy, sinceRead, writerVars, motionButtons,
                 controllerButtons, pending, apart>>

\* Motion is built anew, or has no sample in this tick; presses it has read and not
\* written are gone.
MotionFault ==
  /\ motion' = "start" /\ copy' = Whole(NoRequest)
  /\ apart' = (apart /\ motion # "write")
  /\ UNCHANGED <<behaviourReadBuf, copied, sinceRead, writerVars, buttons, motionButtons,
                 controllerButtons, pending>>

-----------------------------------------------------------------------------
(* GameController serves the single press *)

ReadPresses ==
  /\ controllerButtons = "none"
  /\ controllerButtons' = IF buttons THEN "press" ELSE "no press"
  /\ pending' = (pending /\ ~buttons)
  /\ apart' = (apart /\ motion # "write")
  /\ UNCHANGED <<readerVars, writerVars, buttons, motionButtons>>

AfterPop(pressed) == FALSE

WriteBack ==
  /\ controllerButtons # "none"
  /\ buttons' = AfterPop(controllerButtons = "press")
  /\ controllerButtons' = "none"
  /\ UNCHANGED <<readerVars, writerVars, motionButtons, pending, apart>>

-----------------------------------------------------------------------------

Time ==
  /\ motion = "copy" => sinceRead < CopyTime
  /\ sincePost' = IF sincePost < TickTime THEN sincePost + 1 ELSE sincePost
  /\ sinceRead' = IF motion = "copy" THEN sinceRead + 1 ELSE sinceRead
  /\ <<sincePost', sinceRead'>> # <<sincePost, sinceRead>>
  /\ UNCHANGED <<request, readBuf, posting, writeBuf, wrapped, written,
                 motion, behaviourReadBuf, copied, copy, buttonVars>>

Init ==
  /\ request = [i \in {0, 1} |-> Whole(NoRequest)] /\ readBuf = 0
  /\ posting = FALSE /\ writeBuf = 0 /\ wrapped = NoRequest /\ written = 0
  /\ sincePost = TickTime
  /\ motion = "start" /\ behaviourReadBuf = 0 /\ copied = 0 /\ copy = Whole(NoRequest)
  /\ sinceRead = 0
  /\ buttons = FALSE /\ motionButtons = FALSE /\ controllerButtons = "none"
  /\ pending = FALSE /\ apart = TRUE

Controller == ReadPresses \/ WriteBack
MotionStep == ReadBuf \/ CopyPart \/ (\E press \in BOOLEAN : ReadButtons(press)) \/ WriteButtons

Next ==
  \/ (\E r \in Requests : Begin(r)) \/ WritePart \/ Post \/ PerceptionFault
  \/ MotionStep \/ MotionFault
  \/ Controller
  \/ Time

Spec == Init /\ [][Next]_vars /\ WF_vars(MotionStep) /\ WF_vars(Controller)

-----------------------------------------------------------------------------
(* Properties *)

TypeOK ==
  /\ request \in [{0, 1} -> [1..Parts -> Requests]]
  /\ readBuf \in {0, 1} /\ writeBuf \in {0, 1} /\ behaviourReadBuf \in {0, 1}
  /\ posting \in BOOLEAN /\ wrapped \in Requests /\ written \in 0..Parts
  /\ sincePost \in 0..TickTime
  /\ motion \in {"start", "copy", "tick", "write"} /\ copied \in 0..Parts /\ copy \in [1..Parts -> Requests]
  /\ sinceRead \in 0..CopyTime
  /\ buttons \in BOOLEAN /\ motionButtons \in BOOLEAN
  /\ controllerButtons \in {"none", "press", "no press"}
  /\ pending \in BOOLEAN /\ apart \in BOOLEAN

\* The request Motion works with is one request, never parts of two: whatever the
\* interleaving of the parts, and whichever thread was rebuilt half-way.
NoTornRequest == motion # "copy" => \E r \in Requests : copy = Whole(r)

\* The two buffers, the parts and the missing handshake amount to a register that is
\* posted to and taken from at an instant.
Atomic == INSTANCE Register WITH
  Values <- {Whole(r) : r \in Requests}, None <- Whole(NoRequest),
  posted <- request[readBuf],
  taken <- IF motion = "copy" THEN request[behaviourReadBuf] ELSE copy
ImplementsRegister == Atomic!Spec

\* GameController serves no press twice, and none that was not made, as long as it
\* and Motion have not overlapped since the last one.
ServedOnce ==
  [][controllerButtons = "none" /\ controllerButtons' = "press" => pending \/ ~apart]_vars

\* A press is served unless the two overlap, or Motion faults, before it is.
PressIsServed == pending /\ apart ~> ~pending \/ ~apart
=================================================================================
