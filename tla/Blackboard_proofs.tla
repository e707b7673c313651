--------------------------- MODULE Blackboard_proofs ---------------------------
(***************************************************************************)
(* For every number of parts, and every time of a copy that is shorter     *)
(* than that between two posts, Motion never works with a torn request:    *)
(* the two buffers implement a register. And of two threads that do not    *)
(* overlap, a press is served once, and is served, as long as the two      *)
(* threads have steps to take, MotionReady and ControllerReady.            *)
(***************************************************************************)
EXTENDS Blackboard, TLAPS

-----------------------------------------------------------------------------
(* The inductive invariant *)

RequestType == request \in [{0, 1} -> [1..Parts -> Requests]]

WriterType ==
  /\ readBuf \in {0, 1} /\ writeBuf \in {0, 1}
  /\ posting \in BOOLEAN /\ wrapped \in Requests /\ written \in 0..Parts
  /\ sincePost \in 0..TickTime

ReaderType ==
  /\ behaviourReadBuf \in {0, 1}
  /\ motion \in {"start", "copy", "tick", "write"} /\ copied \in 0..Parts
  /\ copy \in [1..Parts -> Requests]
  /\ sinceRead \in 0..CopyTime

ButtonType ==
  /\ buttons \in BOOLEAN /\ motionButtons \in BOOLEAN
  /\ controllerButtons \in {"none", "press", "no press"}
  /\ pending \in BOOLEAN /\ apart \in BOOLEAN

Intact(i) == \E r \in Requests : request[i] = Whole(r)

\* Perception writes to the other buffer, which is whole as far as it is written.
WriterInv ==
  /\ Intact(readBuf)
  /\ posting => /\ writeBuf # readBuf
                /\ \A p \in 1..written : request[writeBuf][p] = wrapped

\* If a post has come since Motion read readBuf, it is more recent than that, and the
\* next one has not begun: Motion's buffer is whole while it copies.
ReaderInv ==
  motion = "copy" =>
    /\ behaviourReadBuf # readBuf => ~posting /\ sincePost <= sinceRead
    /\ Intact(behaviourReadBuf)
    /\ copied < Parts
    /\ \A p \in 1..copied : copy[p] = request[behaviourReadBuf][p]

\* A press that waits, or that Motion is about to write, has not been served.
ButtonInv ==
  /\ apart /\ buttons /\ controllerButtons = "none" => pending
  /\ apart /\ motion = "write" /\ motionButtons => pending

\* What is said of each thread's variables is kept apart, since each step leaves most of
\* it alone.
WriterSound == RequestType /\ WriterType /\ WriterInv
ReaderSound == ReaderType /\ ReaderInv /\ NoTornRequest
ButtonSound == ButtonType /\ ButtonInv
IInv == WriterSound /\ ReaderSound /\ ButtonSound

-----------------------------------------------------------------------------
(* Lemmas *)

\* There are two buffers.
LEMMA OtherBuffer == ASSUME NEW i \in {0, 1} PROVE Other(i) \in {0, 1} /\ Other(i) # i
  BY DEF Other

\* A whole request is one of the functions that a buffer may be.
LEMMA WholeType == ASSUME NEW r \in Requests PROVE Whole(r) \in [1..Parts -> Requests]
  BY DEF Whole

\* A buffer whose parts all come of one request is that request.
LEMMA WholeByParts ==
  ASSUME NEW r \in Requests, NEW f \in [1..Parts -> Requests],
         \A p \in 1..Parts : f[p] = r
  PROVE  f = Whole(r)
  BY DEF Whole

\* Two buffers with the same parts are the same.
LEMMA SameParts ==
  ASSUME NEW f \in [1..Parts -> Requests], NEW g \in [1..Parts -> Requests],
         \A p \in 1..Parts : f[p] = g[p]
  PROVE  f = g
<1>1. f = [p \in 1..Parts |-> f[p]] /\ g = [p \in 1..Parts |-> g[p]]
  OBVIOUS
<1> QED
  BY <1>1, Zenon

\* The parts of the type invariant are it.
LEMMA TypeParts == TypeOK <=> RequestType /\ WriterType /\ ReaderType /\ ButtonType
  BY DEF TypeOK, RequestType, WriterType, ReaderType, ButtonType

\* No post begins, and none is being made, in the buffer that Motion copies.
LEMMA NotInMotionsBuffer ==
  ASSUME WriterInv, ReaderInv, motion = "copy", posting
  PROVE  writeBuf # behaviourReadBuf
  BY DEF WriterInv, ReaderInv

\* A step that leaves a thread's variables alone leaves what is said of them alone.
LEMMA WriterFrame == ASSUME WriterSound, UNCHANGED writerVars PROVE WriterSound'
  BY DEF WriterSound, RequestType, WriterType, WriterInv, Intact, writerVars

\* What leaves the reader's variables and the buffers alone leaves its invariant alone.
LEMMA ReaderFrame ==
  ASSUME ReaderSound, UNCHANGED readerVars, UNCHANGED <<request, readBuf, sincePost, posting>>
  PROVE ReaderSound'
<1>1. ReaderType' /\ NoTornRequest'
  BY DEF ReaderSound, ReaderType, NoTornRequest, readerVars
<1>2. ReaderInv'
  BY DEF ReaderSound, ReaderInv, Intact, readerVars
<1> QED
  BY <1>1, <1>2 DEF ReaderSound

\* So with the presses.
LEMMA ButtonFrame ==
  ASSUME ButtonSound, UNCHANGED buttonVars, motion' = "write" => motion = "write"
  PROVE ButtonSound'
<1>1. ButtonType'
  BY DEF ButtonSound, ButtonType, buttonVars
<1>2. ButtonInv'
  BY DEF ButtonSound, ButtonInv, buttonVars
<1> QED
  BY <1>1, <1>2 DEF ButtonSound

\* The first state is sound.
LEMMA InitInv == Init => IInv
<1> SUFFICES ASSUME Init PROVE IInv
  OBVIOUS
<1>1. Whole(NoRequest) \in [1..Parts -> Requests]
  BY WholeType, BlackboardAssumption
<1>2. WriterSound
  <2>1. request = [i \in {0, 1} |-> Whole(NoRequest)] /\ readBuf = 0 /\ ~posting
    BY DEF Init
  <2>2. RequestType
    <3>1. ASSUME NEW w \in [1..Parts -> Requests]
          PROVE  [i \in {0, 1} |-> w] \in [{0, 1} -> [1..Parts -> Requests]]
      OBVIOUS
    <3> QED
      BY <1>1, <2>1, <3>1 DEF RequestType
  <2>3. WriterType
    <3>1. 0 \in 0..Parts /\ TickTime \in 0..TickTime /\ NoRequest \in Requests
      BY BlackboardAssumption
    <3>2. /\ readBuf = 0 /\ posting = FALSE /\ writeBuf = 0 /\ wrapped = NoRequest
          /\ written = 0 /\ sincePost = TickTime
      BY DEF Init
    <3> QED
      BY <3>1, <3>2 DEF WriterType
  <2>4. Intact(readBuf)
    BY <2>1, BlackboardAssumption DEF Intact
  <2> QED
    BY <2>1, <2>2, <2>3, <2>4 DEF WriterSound, WriterInv
<1>3. ReaderType
  BY <1>1, BlackboardAssumption DEF Init, ReaderType
<1>4. ReaderInv /\ NoTornRequest
  BY BlackboardAssumption DEF Init, ReaderInv, NoTornRequest
<1>5. ButtonType
  BY DEF Init, ButtonType
<1>6. ButtonInv
  BY DEF Init, ButtonInv
<1> QED
  BY <1>2, <1>3, <1>4, <1>5, <1>6 DEF IInv, ReaderSound, ButtonSound

-----------------------------------------------------------------------------
(* Perception's steps *)

\* A post begins, only when the last one is older than any copy.
LEMMA BeginStep ==
  ASSUME IInv, NEW r \in Requests, Begin(r)
  PROVE  IInv'
<1>1. RequestType /\ WriterType /\ WriterInv /\ ReaderSound /\ ButtonSound
  BY DEF IInv, WriterSound
<1>2. Other(readBuf) \in {0, 1} /\ Other(readBuf) # readBuf
  BY <1>1, OtherBuffer DEF WriterType
<1>3. /\ sincePost = TickTime /\ ~posting
      /\ posting' = TRUE /\ written' = 0 /\ writeBuf' = Other(readBuf) /\ wrapped' = r
      /\ request' = request /\ readBuf' = readBuf /\ sincePost' = sincePost
      /\ UNCHANGED readerVars /\ UNCHANGED buttonVars
  BY DEF Begin
<1>4. WriterType' /\ RequestType'
  BY <1>1, <1>2, <1>3, BlackboardAssumption DEF WriterType, RequestType
<1>5. WriterInv'
  BY <1>1, <1>2, <1>3 DEF WriterInv, Intact
<1>6. motion = "copy" => behaviourReadBuf = readBuf
  <2>1. motion = "copy" /\ behaviourReadBuf # readBuf => sincePost <= sinceRead
    BY <1>1 DEF ReaderSound, ReaderInv
  <2>2. sinceRead <= CopyTime /\ sinceRead \in Nat
    BY <1>1, BlackboardAssumption DEF ReaderSound, ReaderType
  <2> QED
    BY <1>3, <2>1, <2>2, BlackboardAssumption
<1>7. ReaderSound'
  BY <1>1, <1>3, <1>6 DEF ReaderSound, ReaderType, ReaderInv, NoTornRequest, Intact, readerVars
<1> QED
  BY <1>1, <1>3, <1>4, <1>5, <1>7, ButtonFrame DEF IInv, WriterSound, readerVars

\* A part is written, to a buffer that nobody reads.
LEMMA WritePartStep ==
  ASSUME IInv, WritePart
  PROVE  IInv' /\ request'[readBuf] = request[readBuf]
               /\ (motion = "copy" => request'[behaviourReadBuf] = request[behaviourReadBuf])
<1>1. RequestType /\ WriterType /\ WriterInv /\ ReaderSound /\ ButtonSound
  BY DEF IInv, WriterSound
<1>2. /\ posting /\ written < Parts /\ written' = written + 1
      /\ readBuf' = readBuf /\ posting' = posting /\ writeBuf' = writeBuf
      /\ wrapped' = wrapped /\ sincePost' = sincePost
      /\ UNCHANGED readerVars /\ UNCHANGED buttonVars
  BY DEF WritePart
<1>3. request' = [request EXCEPT ![writeBuf] = [request[writeBuf] EXCEPT ![written + 1] = wrapped]]
  BY <1>2 DEF WritePart
<1>4. writeBuf # readBuf /\ (motion = "copy" => writeBuf # behaviourReadBuf)
  BY <1>1, <1>2, NotInMotionsBuffer DEF ReaderSound, WriterInv
<1>5. written + 1 \in 1..Parts /\ written \in Nat
  BY <1>1, <1>2, BlackboardAssumption DEF WriterType
<1>6. WriterType'
  BY <1>1, <1>2, <1>5, BlackboardAssumption DEF WriterType
<1>7. [request[writeBuf] EXCEPT ![written + 1] = wrapped] \in [1..Parts -> Requests]
  BY <1>1, <1>5 DEF RequestType, WriterType
<1>8. RequestType'
  BY <1>1, <1>3, <1>7 DEF RequestType, WriterType
<1>9. /\ request'[readBuf] = request[readBuf]
      /\ motion = "copy" => request'[behaviourReadBuf] = request[behaviourReadBuf]
  BY <1>1, <1>3, <1>4 DEF RequestType, WriterType, ReaderSound, ReaderType
<1>10. \A p \in 1..(written + 1) : request'[writeBuf][p] = wrapped
  <2>1. request'[writeBuf] = [request[writeBuf] EXCEPT ![written + 1] = wrapped]
    BY <1>1, <1>3 DEF RequestType, WriterType
  <2>2. \A p \in 1..written : request[writeBuf][p] = wrapped
    BY <1>1, <1>2 DEF WriterInv
  <2>3. request[writeBuf] \in [1..Parts -> Requests]
    BY <1>1 DEF RequestType, WriterType
  <2>4. ASSUME NEW p \in 1..(written + 1) PROVE request'[writeBuf][p] = wrapped
    <3>1. p \in 1..written \/ p = written + 1
      BY <1>5
    <3>2. p \in 1..Parts
      BY <1>5, <3>1, BlackboardAssumption
    <3> QED
      BY <2>1, <2>2, <2>3, <3>1, <3>2
  <2> QED
    BY <2>4
<1>11. WriterInv'
  BY <1>1, <1>2, <1>4, <1>9, <1>10 DEF WriterInv, Intact
<1>12. ReaderSound'
  BY <1>1, <1>2, <1>9 DEF ReaderSound, ReaderType, ReaderInv, NoTornRequest, Intact, readerVars
<1> QED
  BY <1>1, <1>2, <1>6, <1>8, <1>9, <1>11, <1>12, ButtonFrame DEF IInv, WriterSound, readerVars

\* The post is made when it is whole.
LEMMA PostStep ==
  ASSUME IInv, Post
  PROVE  IInv' /\ Intact(writeBuf)
<1>1. RequestType /\ WriterType /\ WriterInv /\ ReaderSound /\ ButtonSound
  BY DEF IInv, WriterSound
<1>2. /\ posting /\ written = Parts /\ readBuf' = writeBuf /\ posting' = FALSE /\ sincePost' = 0
      /\ request' = request /\ writeBuf' = writeBuf /\ wrapped' = wrapped /\ written' = written
      /\ UNCHANGED readerVars /\ UNCHANGED buttonVars
  BY DEF Post, Posted
<1>3. request[writeBuf] = Whole(wrapped)
  BY <1>1, <1>2, WholeByParts DEF RequestType, WriterType, WriterInv
<1>4. Intact(writeBuf)
  BY <1>1, <1>3 DEF Intact, WriterType
<1>5. WriterType' /\ RequestType'
  <2>1. RequestType'
    BY <1>1, <1>2 DEF RequestType
  <2>2. 0 \in 0..TickTime /\ FALSE \in BOOLEAN
    BY BlackboardAssumption
  <2> QED
    BY <1>1, <1>2, <2>1, <2>2 DEF WriterType
<1>6. WriterInv'
  BY <1>2, <1>4 DEF WriterInv, Intact
<1>7. ReaderInv'
  <2>1. sinceRead >= 0
    BY <1>1, BlackboardAssumption DEF ReaderSound, ReaderType
  <2> QED
    BY <1>1, <1>2, <2>1 DEF ReaderSound, ReaderInv, Intact, readerVars
<1>8. ReaderSound'
  BY <1>1, <1>2, <1>7 DEF ReaderSound, ReaderType, NoTornRequest, readerVars
<1> QED
  BY <1>1, <1>2, <1>4, <1>5, <1>6, <1>8, ButtonFrame DEF IInv, WriterSound, readerVars

-----------------------------------------------------------------------------
(* Motion's steps *)

\* A part is copied; with the last one the copy is whole.
LEMMA CopyPartStep ==
  ASSUME IInv, CopyPart
  PROVE  IInv' /\ (motion' # "copy" => copy' = request[behaviourReadBuf])
<1>1. RequestType /\ WriterSound /\ ReaderType /\ ReaderInv /\ ButtonSound
  BY DEF IInv, WriterSound, ReaderSound
<1>2. /\ motion = "copy" /\ copied' = copied + 1
      /\ motion' = IF copied + 1 = Parts THEN "tick" ELSE "copy"
      /\ behaviourReadBuf' = behaviourReadBuf /\ sinceRead' = sinceRead
      /\ UNCHANGED writerVars /\ UNCHANGED buttonVars
  BY DEF CopyPart
<1>3. copy' = [copy EXCEPT ![copied + 1] = request[behaviourReadBuf][copied + 1]]
  BY <1>2 DEF CopyPart
<1>4. copied + 1 \in 1..Parts /\ copied \in Nat
  BY <1>1, <1>2, BlackboardAssumption DEF ReaderType, ReaderInv
<1>5. request[behaviourReadBuf] \in [1..Parts -> Requests]
  BY <1>1 DEF RequestType, ReaderType
<1>6. copy' \in [1..Parts -> Requests]
  BY <1>1, <1>3, <1>4, <1>5 DEF ReaderType
<1>7. ReaderType'
  BY <1>1, <1>2, <1>4, <1>6, BlackboardAssumption DEF ReaderType
<1>8. \A p \in 1..(copied + 1) : copy'[p] = request[behaviourReadBuf][p]
  <2>1. \A p \in 1..copied : copy[p] = request[behaviourReadBuf][p]
    BY <1>1, <1>2 DEF ReaderInv
  <2>2. copy \in [1..Parts -> Requests]
    BY <1>1 DEF ReaderType
  <2> QED
    BY <1>3, <1>4, <1>5, <2>1, <2>2
<1>9. ReaderInv'
  <2>1. copied + 1 # Parts => copied + 1 < Parts
    BY <1>4, BlackboardAssumption
  <2> QED
    BY <1>1, <1>2, <1>8, <2>1 DEF ReaderInv, Intact, writerVars
<1>10. ASSUME motion' # "copy"
       PROVE  copy' = request[behaviourReadBuf]
  <2>1. copied + 1 = Parts
    BY <1>2, <1>10
  <2> QED
    BY <1>5, <1>6, <1>8, <2>1, SameParts
<1>11. NoTornRequest'
  <2>1. Intact(behaviourReadBuf)
    BY <1>1, <1>2 DEF ReaderInv
  <2> QED
    BY <1>10, <2>1 DEF NoTornRequest, Intact
<1>12. WriterSound' /\ ButtonSound'
  BY <1>1, <1>2, WriterFrame, ButtonFrame
<1> QED
  BY <1>7, <1>9, <1>10, <1>11, <1>12 DEF IInv, ReaderSound

\* Motion reads readBuf, when it holds no earlier request.
LEMMA ReadBufStep ==
  ASSUME IInv, ReadBuf
  PROVE  IInv'
<1>1. WriterSound /\ ReaderType /\ ReaderInv /\ NoTornRequest /\ ButtonSound
  BY DEF IInv, ReaderSound
<1>2. /\ motion' = "copy" /\ copied' = 0 /\ sinceRead' = 0 /\ behaviourReadBuf' = readBuf
      /\ copy' = copy /\ UNCHANGED writerVars /\ UNCHANGED buttonVars
  BY DEF ReadBuf
<1>3. WriterSound' /\ ButtonSound'
  BY <1>1, <1>2, WriterFrame, ButtonFrame
<1>4. ReaderType'
  BY <1>1, <1>2, BlackboardAssumption DEF ReaderType, WriterSound, WriterType
<1>5. ReaderInv'
  BY <1>1, <1>2, BlackboardAssumption DEF ReaderInv, WriterSound, WriterInv, Intact, writerVars
<1> QED
  BY <1>2, <1>3, <1>4, <1>5 DEF IInv, ReaderSound, NoTornRequest

\* The buttons are read, written and lost between copies.
LEMMA MotionButtonStep ==
  ASSUME IInv, MotionFault \/ WriteButtons \/ (\E press \in BOOLEAN : ReadButtons(press))
  PROVE  IInv'
<1>1. WriterSound /\ ReaderType /\ NoTornRequest /\ ButtonType /\ ButtonInv
  BY DEF IInv, ReaderSound, ButtonSound
<1>2. Whole(NoRequest) \in [1..Parts -> Requests]
  BY WholeType, BlackboardAssumption
<1>3. /\ UNCHANGED writerVars /\ UNCHANGED <<behaviourReadBuf, copied, sinceRead>>
      /\ motion' \in {"start", "write"}
      /\ (motion \in {"tick", "write"} /\ copy' = copy) \/ copy' = Whole(NoRequest)
  BY DEF MotionFault, WriteButtons, ReadButtons
<1>4. WriterSound'
  BY <1>1, <1>3, WriterFrame
<1>5. ReaderSound'
  BY <1>1, <1>2, <1>3, BlackboardAssumption
    DEF ReaderSound, ReaderType, ReaderInv, NoTornRequest
<1>6. ButtonType'
  BY <1>1 DEF MotionFault, WriteButtons, ReadButtons, WithPress, ButtonType
<1>7. ButtonInv'
  <2>1. CASE MotionFault
    BY <1>1, <2>1 DEF MotionFault, ButtonInv
  <2>2. CASE WriteButtons
    BY <1>1, <2>2 DEF WriteButtons, ButtonInv
  <2>3. ASSUME NEW press \in BOOLEAN, ReadButtons(press) PROVE ButtonInv'
    BY <1>1, <2>3 DEF ReadButtons, WithPress, ButtonInv, ButtonType
  <2> QED
    BY <2>1, <2>2, <2>3
<1> QED
  BY <1>4, <1>5, <1>6, <1>7 DEF IInv, ButtonSound

-----------------------------------------------------------------------------
(* GameController, Perception's fault, and time *)

\* GameController touches the buttons alone.
LEMMA ControllerStep ==
  ASSUME IInv, Controller
  PROVE  IInv'
<1>1. WriterSound /\ ReaderSound /\ ButtonType /\ ButtonInv
  BY DEF IInv, ButtonSound
<1>2. UNCHANGED writerVars /\ UNCHANGED readerVars
  BY DEF Controller, ReadPresses, WriteBack
<1>3. WriterSound' /\ ReaderSound'
  BY <1>1, <1>2, WriterFrame, ReaderFrame DEF writerVars
<1>4. ButtonType'
  BY <1>1 DEF Controller, ReadPresses, WriteBack, AfterPop, ButtonType
<1>5. ButtonInv'
  <2>1. motion' = motion
    BY <1>2 DEF readerVars
  <2>2. CASE ReadPresses
    BY <1>1, <2>1, <2>2 DEF ReadPresses, ButtonInv, ButtonType
  <2>3. CASE WriteBack
    BY <1>1, <2>1, <2>3 DEF WriteBack, AfterPop, ButtonInv, ButtonType
  <2> QED
    BY <2>2, <2>3 DEF Controller
<1> QED
  BY <1>3, <1>4, <1>5 DEF IInv, ButtonSound

\* A post that is given up leaves readBuf where it was.
LEMMA PerceptionFaultStep ==
  ASSUME IInv, PerceptionFault
  PROVE  IInv'
<1>1. RequestType /\ WriterType /\ WriterInv /\ ReaderSound /\ ButtonSound
  BY DEF IInv, WriterSound
<1>2. /\ posting' = FALSE
      /\ UNCHANGED <<request, readBuf, writeBuf, wrapped, written, sincePost>>
      /\ UNCHANGED readerVars /\ UNCHANGED buttonVars
  BY DEF PerceptionFault
<1>3. RequestType' /\ WriterType' /\ WriterInv'
  BY <1>1, <1>2 DEF RequestType, WriterType, WriterInv, Intact
<1>4. ReaderSound'
  BY <1>1, <1>2 DEF ReaderSound, ReaderType, ReaderInv, NoTornRequest, Intact, readerVars
<1> QED
  BY <1>1, <1>2, <1>3, <1>4, ButtonFrame DEF IInv, WriterSound, readerVars

\* Time passes for the copy and for the post alike.
LEMMA TimeStep ==
  ASSUME IInv, Time
  PROVE  IInv'
<1>1. RequestType /\ WriterType /\ WriterInv /\ ReaderSound /\ ReaderType /\ ReaderInv
      /\ NoTornRequest /\ ButtonSound
  BY DEF IInv, WriterSound, ReaderSound
<1>2. /\ motion = "copy" => sinceRead < CopyTime
      /\ sincePost' = IF sincePost < TickTime THEN sincePost + 1 ELSE sincePost
      /\ sinceRead' = IF motion = "copy" THEN sinceRead + 1 ELSE sinceRead
      /\ UNCHANGED <<request, readBuf, posting, writeBuf, wrapped, written>>
      /\ UNCHANGED <<motion, behaviourReadBuf, copied, copy>> /\ UNCHANGED buttonVars
  BY DEF Time
<1>3. sincePost \in 0..TickTime /\ sinceRead \in 0..CopyTime
  BY <1>1 DEF WriterType, ReaderType
<1>4. sincePost' \in 0..TickTime /\ sinceRead' \in 0..CopyTime
  BY <1>2, <1>3, BlackboardAssumption
<1>5. motion = "copy" /\ sincePost <= sinceRead => sincePost' <= sinceRead'
  BY <1>2, <1>3, BlackboardAssumption
<1>6. RequestType' /\ WriterType' /\ WriterInv'
  BY <1>1, <1>2, <1>4 DEF RequestType, WriterType, WriterInv, Intact
<1>7. ReaderType' /\ NoTornRequest'
  BY <1>1, <1>2, <1>4 DEF ReaderType, NoTornRequest
<1>8. ReaderInv'
  BY <1>1, <1>2, <1>5 DEF ReaderInv, Intact
<1> QED
  BY <1>1, <1>2, <1>6, <1>7, <1>8, ButtonFrame DEF IInv, WriterSound, ReaderSound

\* Every step keeps the invariant.
LEMMA StepInv == IInv /\ [Next]_vars => IInv'
<1> SUFFICES ASSUME IInv, [Next]_vars PROVE IInv'
  OBVIOUS
<1>1. CASE UNCHANGED vars
  BY <1>1, WriterFrame, ReaderFrame, ButtonFrame DEF vars, writerVars, readerVars, IInv
<1>2. CASE Next
  BY <1>2, BeginStep, WritePartStep, PostStep, PerceptionFaultStep, ReadBufStep, CopyPartStep,
     MotionButtonStep, ControllerStep, TimeStep DEF Next, MotionStep
<1> QED
  BY <1>1, <1>2

-----------------------------------------------------------------------------
(* Theorems *)

\* The inductive invariant holds throughout.
THEOREM Invariance == Spec => []IInv
  BY InitInv, StepInv, PTL DEF Spec

\* Every variable keeps its type.
THEOREM TypeCorrect == Spec => []TypeOK
<1>1. IInv => TypeOK
  BY TypeParts DEF IInv, WriterSound, ReaderSound, ButtonSound
<1> QED
  BY <1>1, Invariance, PTL

\* Motion never works with parts of two requests, whatever the number of parts.
THEOREM NotTorn == Spec => []NoTornRequest
<1>1. IInv => NoTornRequest
  BY DEF IInv, ReaderSound
<1> QED
  BY <1>1, Invariance, PTL

\* GameController serves no press twice while it and Motion do not overlap.
THEOREM Once == Spec => ServedOnce
<1>1. ASSUME IInv, [Next]_vars, controllerButtons = "none", controllerButtons' = "press"
      PROVE  pending \/ ~apart
  <2>1. buttons
    <3>1. CASE UNCHANGED vars
      BY <1>1, <3>1 DEF vars, buttonVars
    <3>2. CASE Next
      BY <1>1, <3>2 DEF Next, MotionStep, Controller, Begin, WritePart, Post, PerceptionFault, ReadBuf,
         CopyPart, ReadButtons, WriteButtons, MotionFault, ReadPresses, WriteBack, Time, buttonVars
    <3> QED
      BY <1>1, <3>1, <3>2
  <2> QED
    BY <1>1, <2>1 DEF IInv, ButtonSound, ButtonInv
<1> QED
  BY <1>1, Invariance, PTL DEF Spec, ServedOnce

\* The two buffers implement the register.
THEOREM Implementation == Spec => ImplementsRegister
<1>1. Init => Atomic!Init
  BY DEF Init, Atomic!Init
<1>2. ASSUME IInv, [Next]_vars PROVE [Atomic!Next]_Atomic!vars
  <2> DEFINE taken == IF motion = "copy" THEN request[behaviourReadBuf] ELSE copy
  <2> USE DEF Atomic!Next, Atomic!Post, Atomic!Take, Atomic!Drop, Atomic!vars
  <2>1. ASSUME NEW r \in Requests, Begin(r) PROVE UNCHANGED Atomic!vars
    BY <2>1 DEF Begin, readerVars
  <2>2. CASE WritePart
    BY <1>2, <2>2, WritePartStep DEF WritePart, readerVars
  <2>3. CASE Post
    <3>1. request'[readBuf'] \in {Whole(r) : r \in Requests}
      BY <1>2, <2>3, PostStep DEF Post, Intact
    <3>2. UNCHANGED taken
      BY <2>3 DEF Post, readerVars
    <3> QED
      BY <3>1, <3>2
  <2>4. CASE PerceptionFault \/ Controller \/ Time
    BY <2>4 DEF PerceptionFault, Controller, ReadPresses, WriteBack, Time, readerVars, writerVars
  <2>5. CASE ReadBuf
    BY <2>5 DEF ReadBuf, writerVars
  <2>6. CASE CopyPart
    <3>1. motion = "copy" /\ motion' \in {"copy", "tick"} /\ behaviourReadBuf' = behaviourReadBuf
          /\ request' = request /\ readBuf' = readBuf
      BY <2>6 DEF CopyPart, writerVars
    <3> QED
      BY <1>2, <2>6, <3>1, CopyPartStep
  <2>7. CASE WriteButtons \/ (\E press \in BOOLEAN : ReadButtons(press))
    BY <2>7 DEF WriteButtons, ReadButtons, writerVars
  <2>8. CASE MotionFault
    BY <2>8 DEF MotionFault, writerVars
  <2>9. CASE UNCHANGED vars
    BY <2>9 DEF vars, writerVars, readerVars
  <2> QED
    BY <1>2, <2>1, <2>2, <2>3, <2>4, <2>5, <2>6, <2>7, <2>8, <2>9 DEF Next, MotionStep
<1> QED
  BY <1>1, <1>2, Invariance, PTL DEF Spec, ImplementsRegister, Atomic!Spec

-----------------------------------------------------------------------------
(* Liveness.  ENABLED is out of the provers' reach: that the two threads can always  *)
(* take a step, which weak fairness needs of it, is a hypothesis of the theorem.     *)

\* Nothing keeps Motion, or GameController, from its next step.
MotionReady == ENABLED <<MotionStep>>_vars
ControllerReady == ENABLED <<Controller>>_vars

\* A press that has not been served is in the buttons, or in what Motion is about to write
\* there, and GameController is not about to write over it.
WaitingInv ==
  /\ pending /\ apart => /\ controllerButtons = "none"
                         /\ buttons \/ (motion = "write" /\ motionButtons)
  /\ motion = "write" /\ buttons => motionButtons

\* The press is where GameController finds it, or Motion has it still.
Waiting == pending /\ apart /\ buttons
OnTheWay == pending /\ apart /\ ~buttons

\* No press that has been made and not been served is lost, as long as the two do not overlap.
LEMMA StaysWaiting == Spec => []WaitingInv
<1>1. Init => WaitingInv
  BY DEF Init, WaitingInv
<1>2. ASSUME IInv, WaitingInv, [Next]_vars PROVE WaitingInv'
  <2>1. ButtonType
    BY <1>2 DEF IInv, ButtonSound
  <2>2. CASE ReadPresses
    BY <1>2, <2>1, <2>2 DEF ReadPresses, WaitingInv, ButtonType, readerVars
  <2>7. CASE WriteBack
    BY <1>2, <2>1, <2>7 DEF WriteBack, AfterPop, WaitingInv, ButtonType, readerVars
  <2>3. CASE MotionFault
    BY <1>2, <2>1, <2>3 DEF MotionFault, WaitingInv, ButtonType
  <2>4. CASE WriteButtons
    BY <1>2, <2>1, <2>4 DEF WriteButtons, WaitingInv, ButtonType
  <2>5. ASSUME NEW press \in BOOLEAN, ReadButtons(press) PROVE WaitingInv'
    BY <1>2, <2>1, <2>5 DEF ReadButtons, WithPress, WaitingInv, ButtonType
  <2>6. CASE (\E r \in Requests : Begin(r)) \/ WritePart \/ Post \/ PerceptionFault \/ ReadBuf
             \/ CopyPart \/ Time \/ UNCHANGED vars
    <3>1. UNCHANGED buttonVars
      BY <2>6 DEF Begin, WritePart, Post, PerceptionFault, ReadBuf, CopyPart, Time, vars
    <3>2. motion' = "write" <=> motion = "write"
      BY <2>6 DEF Begin, WritePart, Post, PerceptionFault, ReadBuf, CopyPart, Time, vars, readerVars
    <3> QED
      BY <1>2, <3>1, <3>2 DEF WaitingInv, buttonVars
  <2> QED
    BY <1>2, <2>2, <2>3, <2>4, <2>5, <2>6, <2>7 DEF Next, MotionStep, Controller
<1> QED
  BY <1>1, <1>2, Invariance, PTL DEF Spec

\* What each step makes of such a press: it stays where it is, goes from Motion to the
\* buttons, is served, or is overlapped.
LEMMA PressMoves ==
  ASSUME IInv, WaitingInv, [Next]_vars, pending, apart, pending', apart'
  PROVE  /\ buttons => buttons' /\ ~Controller
         /\ ~buttons /\ MotionStep => buttons'
<1>1. ButtonType
  BY DEF IInv, ButtonSound
<1>2. controllerButtons = "none"
  BY DEF WaitingInv
<1>3. ASSUME buttons PROVE buttons' /\ ~Controller
  <2>1. ~Controller
    BY <1>2, <1>3 DEF Controller, ReadPresses, WriteBack
  <2>2. CASE WriteButtons
    BY <1>3, <2>1, <2>2 DEF WriteButtons, WaitingInv
  <2>3. CASE ~WriteButtons
    <3>1. buttons' = buttons
      BY <2>1, <2>3 DEF Next, MotionStep, Begin, WritePart, Post, PerceptionFault, ReadBuf, CopyPart,
         ReadButtons, MotionFault, Time, vars, buttonVars
    <3> QED
      BY <1>3, <2>1, <3>1
  <2> QED
    BY <2>2, <2>3
<1>4. ASSUME ~buttons, MotionStep PROVE buttons'
  <2>1. motion = "write" /\ motionButtons
    BY <1>4 DEF WaitingInv
  <2>2. WriteButtons
    BY <1>4, <2>1 DEF MotionStep, ReadBuf, CopyPart, ReadButtons
  <2> QED
    BY <2>1, <2>2 DEF WriteButtons
<1> QED
  BY <1>3, <1>4

\* A press is served unless Motion and GameController overlap, or Motion faults, before it is.
THEOREM Served == Spec /\ []MotionReady /\ []ControllerReady => PressIsServed
<1>1. <<MotionStep>>_vars \/ <<Controller>>_vars => [Next]_vars
  BY DEF Next
<1>2. IInv /\ WaitingInv /\ Waiting /\ [Next]_vars => Waiting' \/ ~pending' \/ ~apart'
  BY <1>1, PressMoves DEF Waiting
<1>3. IInv /\ WaitingInv /\ Waiting /\ <<Controller>>_vars => ~pending' \/ ~apart'
  BY <1>1, PressMoves DEF Waiting
<1>4. IInv /\ WaitingInv /\ OnTheWay /\ [Next]_vars =>
        OnTheWay' \/ Waiting' \/ ~pending' \/ ~apart'
  BY <1>1, PressMoves DEF OnTheWay, Waiting
<1>5. IInv /\ WaitingInv /\ OnTheWay /\ <<MotionStep>>_vars => Waiting' \/ ~pending' \/ ~apart'
  BY <1>1, PressMoves DEF OnTheWay, Waiting
<1>6. pending /\ apart => OnTheWay \/ Waiting
  BY DEF OnTheWay, Waiting
<1> QED
  BY <1>2, <1>3, <1>4, <1>5, <1>6, Invariance, StaysWaiting, PTL
     DEF Spec, MotionReady, ControllerReady, PressIsServed
=================================================================================
