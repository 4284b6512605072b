----------------------------- MODULE CallsProofs -----------------------------
(***************************************************************************)
(* Proofs about Calls, for any set of application threads and whatever the *)
(* application calls on each of them.  What carries them is the protocol   *)
(* between a thread that waits and the queue of the signaling thread.      *)
(***************************************************************************)
EXTENDS Calls, TLAPS

(***************************************************************************)
(* The inductive invariant.                                                *)
(***************************************************************************)
StepNames == {"add", "read", "request", "connect", "ready", "close"}

Waits == {"no", "turn", "promise", "future"}

CallFrames == [op : Ops, steps : Seq(StepNames) \ {<<>>}, waits : Waits]

Messages ==
    [type : {"change"}]
    \cup [type : {"run"}, thread : AppThreads]
    \cup [type : {"reply"}, thread : Threads, ok : BOOLEAN]

Typed ==
    /\ sending \in BOOLEAN /\ closed \in BOOLEAN /\ pcClosed \in BOOLEAN
    /\ transportReady \in BOOLEAN
    /\ connectionState \in {"new", "changed", "closed"}
    /\ callback \in {"no", "entered", "called"}
    /\ queue \in Seq(Messages)
    /\ frame \in [Threads -> CallFrames \cup {Idle}]
    /\ closedBy \in Threads \cup {"nobody"}

\* A message about a thread: to run its step, or with the answer to it.
About(m, t) == m.type # "change" /\ m.thread = t

WaitsOnQueue(t) == frame[t].waits \in {"turn", "promise"}

\* Whoever a message is about waits for it, and for nothing else ...
Expected ==
    \A k \in 1..Len(queue) :
        /\ queue[k].type = "run" => frame[queue[k].thread].waits = "turn"
        /\ queue[k].type = "reply" => frame[queue[k].thread].waits = "promise"

OnlyOne ==
    \A j, k \in 1..Len(queue), t \in Threads :
        About(queue[j], t) /\ About(queue[k], t) => j = k

\* ... and no wait of a thread is forgotten.
Promised == \A t \in Threads : WaitsOnQueue(t) => \E k \in 1..Len(queue) : About(queue[k], t)

CallbackFrame == InCall(Signaling) => callback = "called"

Quiet ==
    /\ closedBy # "nobody" => pcClosed
    /\ pcClosed => connectionState = "closed"
    /\ closedBy \in AppThreads => callback = "no"

IInv == Typed /\ Expected /\ OnlyOne /\ Promised /\ CallbackFrame /\ Quiet

-----------------------------------------------------------------------------
(***************************************************************************)
(* Frames.                                                                 *)
(***************************************************************************)
Frames == CallFrames \cup {Idle}

\* A call that begins to wait, or ends its wait, stays a call.
LEMMA FrameWaits ==
    ASSUME NEW f \in CallFrames, NEW w \in Waits
    PROVE  [f EXCEPT !.waits = w] \in CallFrames /\ [f EXCEPT !.waits = w].waits = w
<1>1. f = [op |-> f.op, steps |-> f.steps, waits |-> f.waits]
  BY DEF CallFrames
<1>2. [f EXCEPT !.waits = w] = [op |-> f.op, steps |-> f.steps, waits |-> w]
  BY <1>1
<1> QED  BY <1>2 DEF CallFrames

\* A call with other steps left is a call or, with none, no call any more.
LEMMA FrameAfter ==
    ASSUME NEW f \in CallFrames, NEW steps \in Seq(StepNames)
    PROVE  After(f, steps) \in Frames /\ After(f, steps).waits = "no"
BY DEF After, Frames, Idle, CallFrames, Waits

\* So is a call whose step is done or throws.
LEMMA FrameEnds ==
    ASSUME NEW f \in CallFrames
    PROVE  /\ Advanced(f) \in Frames /\ Advanced(f).waits = "no"
           /\ Thrown(f) \in Frames /\ Thrown(f).waits = "no"
<1>1. Tail(f.steps) \in Seq(StepNames)
  BY DEF CallFrames
<1>2. <<"read">> \in Seq(StepNames) /\ <<>> \in Seq(StepNames)
  BY DEF StepNames
<1> QED  BY <1>1, <1>2, FrameAfter DEF Advanced, Thrown

\* What a step of Idle, or of a frame that waits, is not.
LEMMA IdleFrame ==
    /\ Idle \in Frames /\ Idle.waits = "no" /\ Idle \notin CallFrames
    /\ \A f \in Frames : f # Idle => f \in CallFrames
    /\ \A f \in Frames : f.waits # "no" => f \in CallFrames
BY DEF Frames, Idle, CallFrames, Ops

\* A call that begins has the steps of its program.
LEMMA BegunFrame ==
    ASSUME sending \in BOOLEAN, NEW program \in Programs
    PROVE  [op |-> program[1], steps |-> program[2], waits |-> "no"] \in CallFrames
<1> DEFINE Begins(op, steps) == op \in Ops /\ steps \in Seq(StepNames) /\ steps # <<>>
<1>1. /\ Begins("RestartIce", HandlerRestartIce) /\ Begins("GetStats", <<"request">>)
      /\ Begins("Close", <<"close">>)
  <2>1. CASE sending
    BY <2>1 DEF Ops, StepNames, HandlerRestartIce
  <2>2. CASE ~sending
    BY <2>2 DEF Ops, StepNames, HandlerRestartIce
  <2> QED  BY <2>1, <2>2
<1>2. Begins("Produce", Send) /\ Begins("CloseProducer", StopSending)
  BY DEF Ops, StepNames, Send, StopSending
<1>3. Begins("ProduceData", SendDataChannel) /\ Begins("ProduceData", <<"add">>)
  BY DEF Ops, StepNames, SendDataChannel
<1>4. Begins("Consume", Receive) /\ Begins("CloseConsumer", StopReceiving)
  BY DEF Ops, StepNames, Receive, StopReceiving
<1>5. Begins("ConsumeData", ReceiveDataChannel) /\ Begins("ConsumeData", <<"add">>)
  BY DEF Ops, StepNames, ReceiveDataChannel
<1> HIDE DEF Begins
<1>6. PICK op, steps : program = <<op, steps>> /\ Begins(op, steps)
  BY <1>1, <1>2, <1>3, <1>4, <1>5 DEF Programs
<1> QED  BY <1>6 DEF Begins, CallFrames, Waits

-----------------------------------------------------------------------------
(***************************************************************************)
(* The queue of the signaling thread and those who wait for it.            *)
(***************************************************************************)
Queued == queue \in Seq(Messages) /\ frame \in [Threads -> Frames]

QueueInv == Expected /\ OnlyOne /\ Promised

\* A thread that does not wait on the queue may step as it likes, or wait for a future.
LEMMA WaitStays ==
    ASSUME Queued, QueueInv, NEW t \in Threads, NEW f \in Frames,
           ~WaitsOnQueue(t), f.waits \in {"no", "future"},
           frame' = [frame EXCEPT ![t] = f], queue' = queue
    PROVE  QueueInv'
BY DEF Queued, QueueInv, Expected, OnlyOne, Promised, WaitsOnQueue, About, Messages

\* Thread t puts a message about itself at the end of `rest', in which no
\* other is about it, and waits.
Joins(t, f, rest, m) ==
    /\ frame' = [frame EXCEPT ![t] = f]
    /\ queue' = Append(rest, m)
    /\ About(m, t)
    /\ \/ m.type = "run" /\ f.waits = "turn"
       \/ m.type = "reply" /\ f.waits = "promise"

\* A thread that posts its message begins to wait for it.
LEMMA WaitStarts ==
    ASSUME Queued, QueueInv, NEW t \in Threads, NEW f \in Frames, NEW m \in Messages,
           ~WaitsOnQueue(t), Joins(t, f, queue, m)
    PROVE  QueueInv'
<1> USE DEF Joins
<1>1. /\ Len(queue') = Len(queue) + 1 /\ queue'[Len(queue) + 1] = m
      /\ \A k \in 1..Len(queue) : queue'[k] = queue[k] /\ queue[k] \in Messages
      /\ Len(queue) \in Nat
  BY DEF Queued
<1>2. \A k \in 1..Len(queue) : ~About(queue[k], t)
  BY DEF Queued, QueueInv, Expected, WaitsOnQueue, About, Messages
<1>3. Expected'
  BY <1>1, <1>2 DEF Queued, QueueInv, Expected, About, Messages
<1>4. OnlyOne'
  BY <1>1, <1>2 DEF QueueInv, OnlyOne, About
<1>5. Promised'
  BY <1>1 DEF Queued, QueueInv, Promised, WaitsOnQueue
<1> QED  BY <1>3, <1>4, <1>5 DEF QueueInv

\* The thread of the message that was delivered stops waiting.
LEMMA WaitEnds ==
    ASSUME Queued, QueueInv, NEW t \in Threads, NEW f \in Frames, queue # <<>>,
           About(Head(queue), t), f.waits = "no",
           frame' = [frame EXCEPT ![t] = f], queue' = Tail(queue)
    PROVE  QueueInv'
<1>1. /\ Len(queue') = Len(queue) - 1 /\ Head(queue) = queue[1]
      /\ \A k \in 1..Len(queue') : queue'[k] = queue[k + 1]
      /\ \A k \in 1..Len(queue) : queue[k] \in Messages
      /\ Len(queue) \in Nat \ {0}
  BY DEF Queued
<1>2. \A k \in 2..Len(queue) : ~About(queue[k], t)
  BY <1>1 DEF QueueInv, OnlyOne
<1>3. Expected'
  BY <1>1, <1>2 DEF Queued, QueueInv, Expected, About, Messages
<1>4. OnlyOne'
  BY <1>1 DEF QueueInv, OnlyOne
<1>5. Promised'
  <2> SUFFICES ASSUME NEW s \in Threads, WaitsOnQueue(s)'
      PROVE  \E k \in 1..Len(queue') : About(queue'[k], s)
    BY DEF Promised, About
  <2>1. s # t /\ WaitsOnQueue(s)
    BY DEF Queued, WaitsOnQueue
  <2>2. PICK k \in 1..Len(queue) : About(queue[k], s)
    BY <2>1 DEF QueueInv, Promised
  <2>3. k # 1
    BY <1>1, <2>1, <2>2 DEF About
  <2>4. k - 1 \in 1..Len(queue') /\ queue'[k - 1] = queue[k]
    BY <1>1, <2>2, <2>3
  <2> QED  BY <2>2, <2>4
<1> QED  BY <1>3, <1>4, <1>5 DEF QueueInv

\* An index is the last one or one of the others.
LEMMA LastIndex ==
    ASSUME NEW n \in Nat, NEW k \in 1..n
    PROVE  k \in 1..(n - 1) \/ k = n
OBVIOUS

\* The thread of the message that was delivered posts another one and waits for that.
LEMMA WaitGoesOn ==
    ASSUME Queued, QueueInv, NEW t \in Threads, NEW f \in Frames, NEW m \in Messages, queue # <<>>,
           About(Head(queue), t), Joins(t, f, Tail(queue), m)
    PROVE  QueueInv'
<1> USE DEF Joins
<1>1. /\ Len(queue') = Len(queue) /\ Head(queue) = queue[1] /\ queue'[Len(queue)] = m
      /\ \A k \in 1..Len(queue) - 1 : queue'[k] = queue[k + 1]
      /\ \A k \in 1..Len(queue) : queue[k] \in Messages
      /\ Len(queue) \in Nat \ {0}
  BY DEF Queued
<1>2. \A k \in 2..Len(queue) : ~About(queue[k], t)
  BY <1>1 DEF QueueInv, OnlyOne
<1>6. \A k \in 1..Len(queue) - 1 : k + 1 \in 2..Len(queue) /\ ~About(queue'[k], t)
  BY <1>1, <1>2
<1>7. \A k \in 1..Len(queue) : k \in 1..Len(queue) - 1 \/ k = Len(queue)
  BY <1>1, LastIndex
<1>3. Expected'
  <2> SUFFICES ASSUME NEW k \in 1..Len(queue)
      PROVE  /\ queue'[k].type = "run" => frame'[queue'[k].thread].waits = "turn"
             /\ queue'[k].type = "reply" => frame'[queue'[k].thread].waits = "promise"
    BY <1>1 DEF Expected
  <2>1. CASE k = Len(queue)
    BY <1>1, <2>1 DEF Queued, About
  <2>2. CASE k # Len(queue)
    <3>1. k \in 1..Len(queue) - 1 /\ k + 1 \in 1..Len(queue)
      BY <1>1, <2>2
    <3>2. queue'[k] = queue[k + 1] /\ ~About(queue[k + 1], t) /\ queue[k + 1] \in Messages
      BY <1>1, <1>6, <3>1
    <3> QED  BY <3>1, <3>2 DEF Queued, QueueInv, Expected, About, Messages
  <2> QED  BY <2>1, <2>2
<1>4. OnlyOne'
  <2> SUFFICES ASSUME NEW j \in 1..Len(queue), NEW k \in 1..Len(queue), NEW s \in Threads,
                      About(queue'[j], s), About(queue'[k], s)
      PROVE  j = k
    BY <1>1 DEF OnlyOne, About
  <2>1. CASE s = t
    <3>1. j \notin 1..Len(queue) - 1 /\ k \notin 1..Len(queue) - 1
      BY <1>6, <2>1
    <3> QED  BY <1>7, <3>1
  <2>2. CASE s # t
    <3>1. j \in 1..Len(queue) - 1 /\ k \in 1..Len(queue) - 1
      <4>1. ~About(queue'[Len(queue)], s)
        BY <1>1, <2>2 DEF About
      <4> QED  BY <1>7, <4>1
    <3>2. About(queue[j + 1], s) /\ About(queue[k + 1], s)
          /\ j + 1 \in 1..Len(queue) /\ k + 1 \in 1..Len(queue)
      BY <1>1, <3>1
    <3>3. j + 1 = k + 1
      BY <3>2 DEF QueueInv, OnlyOne
    <3> QED  BY <3>1, <3>3
  <2> QED  BY <2>1, <2>2
<1>5. Promised'
  <2> SUFFICES ASSUME NEW s \in Threads, WaitsOnQueue(s)'
      PROVE  \E k \in 1..Len(queue') : About(queue'[k], s)
    BY DEF Promised, About
  <2>1. CASE s = t
    <3>1. Len(queue) \in 1..Len(queue')
      BY <1>1
    <3>2. About(queue'[Len(queue)], s)
      BY <1>1, <2>1
    <3> QED  BY <3>1, <3>2
  <2>2. CASE s # t
    <3>1. WaitsOnQueue(s)
      BY <2>2 DEF Queued, WaitsOnQueue
    <3>2. PICK k \in 1..Len(queue) : About(queue[k], s)
      BY <3>1 DEF QueueInv, Promised
    <3>3. k # 1
      BY <1>1, <2>2, <3>2 DEF About
    <3>4. k - 1 \in 1..Len(queue') /\ queue'[k - 1] = queue[k]
      BY <1>1, <3>2, <3>3
    <3> QED  BY <3>2, <3>4
  <2> QED  BY <2>1, <2>2
<1> QED  BY <1>3, <1>4, <1>5 DEF QueueInv

\* A change of the connection state is queued; no thread waits for it.
LEMMA ChangeComes ==
    ASSUME Queued, QueueInv, queue' = Append(queue, [type |-> "change"]), frame' = frame
    PROVE  QueueInv'
<1>1. /\ Len(queue') = Len(queue) + 1 /\ queue'[Len(queue) + 1] = [type |-> "change"]
      /\ \A k \in 1..Len(queue) : queue'[k] = queue[k]
      /\ Len(queue) \in Nat
  BY DEF Queued, Messages
<1> QED  BY <1>1 DEF QueueInv, Expected, OnlyOne, Promised, WaitsOnQueue, About

\* It is delivered.
LEMMA ChangeGoes ==
    ASSUME Queued, QueueInv, queue # <<>>, Head(queue).type = "change",
           queue' = Tail(queue), frame' = frame
    PROVE  QueueInv'
<1>1. /\ Len(queue') = Len(queue) - 1 /\ Head(queue) = queue[1]
      /\ \A k \in 1..Len(queue') : queue'[k] = queue[k + 1]
      /\ Len(queue) \in Nat \ {0}
  BY DEF Queued
<1>2. Expected' /\ OnlyOne'
  BY <1>1 DEF QueueInv, Expected, OnlyOne, About
<1>3. Promised'
  <2> SUFFICES ASSUME NEW s \in Threads, WaitsOnQueue(s)
      PROVE  \E k \in 1..Len(queue') : About(queue'[k], s)
    BY DEF Promised, About, WaitsOnQueue
  <2>1. PICK k \in 1..Len(queue) : About(queue[k], s)
    BY DEF QueueInv, Promised
  <2>2. k # 1
    BY <1>1, <2>1 DEF About
  <2>3. k - 1 \in 1..Len(queue') /\ queue'[k - 1] = queue[k]
    BY <1>1, <2>1, <2>2
  <2> QED  BY <2>1, <2>3
<1> QED  BY <1>2, <1>3 DEF QueueInv

-----------------------------------------------------------------------------
(***************************************************************************)
(* The steps.                                                              *)
(***************************************************************************)

\* What a step of one thread's frame keeps by itself.
LEMMA FrameStep ==
    ASSUME IInv, NEW t \in Threads, NEW f \in Frames, frame' = [frame EXCEPT ![t] = f],
           callback' = callback, t # Signaling \/ InCall(t)
    PROVE  frame' \in [Threads -> Frames] /\ CallbackFrame'
<1>1. frame' \in [Threads -> Frames]
  BY DEF IInv, Typed, Frames
<1>2. Signaling \in Threads
  BY DEF Threads
<1>3. CASE t = Signaling
  BY <1>1, <1>3 DEF IInv, CallbackFrame
<1>4. CASE t # Signaling
  BY <1>1, <1>2, <1>4 DEF IInv, Typed, CallbackFrame, InCall
<1> QED  BY <1>1, <1>3, <1>4

\* A call begins, of the application or of its callback.
LEMMA BeginStep ==
    ASSUME IInv, NEW t \in Threads, Begin(t),
           \/ t \in AppThreads /\ callback' = callback
           \/ t = Signaling /\ callback = "entered" /\ callback' = "called"
    PROVE  IInv'
<1>1. PICK program \in Programs :
        /\ frame' = [frame EXCEPT ![t] = [op |-> program[1], steps |-> program[2], waits |-> "no"]]
        /\ closed' = (closed \/ program[1] = "Close")
  BY DEF Begin
<1> DEFINE f == [op |-> program[1], steps |-> program[2], waits |-> "no"]
<1>2. f \in Frames /\ f.waits = "no" /\ frame' = [frame EXCEPT ![t] = f]
  BY <1>1, BegunFrame DEF IInv, Typed, Frames
<1>3. frame[t] = Idle
        /\ UNCHANGED <<sending, pcClosed, transportReady, connectionState, queue, closedBy>>
  BY DEF Begin, InCall
<1> HIDE DEF f
<1>4. Typed'
  BY <1>1, <1>2, <1>3 DEF IInv, Typed, Frames
<1>5. QueueInv'
  BY <1>2, <1>3, WaitStays, IdleFrame DEF IInv, Typed, Queued, QueueInv, Frames, WaitsOnQueue
<1>6. CallbackFrame'
  BY <1>2, CallsAssumption, FrameStep DEF CallbackFrame
<1>7. Quiet'
  BY <1>3 DEF IInv, Quiet
<1> QED  BY <1>4, <1>5, <1>6, <1>7 DEF IInv, QueueInv

\* A step of a thread by itself: it waits neither before nor after it for the
\* signaling thread.
OwnStep(t, f) ==
    /\ frame[t] \in CallFrames /\ frame[t].waits \in {"no", "future"}
    /\ f.waits \in {"no", "future"}
    /\ frame' = [frame EXCEPT ![t] = f]
    /\ transportReady' \in BOOLEAN
    /\ UNCHANGED <<sending, closed, queue, callback>>

\* A step of one thread that leaves the queue alone.
LEMMA OwnSteps ==
    ASSUME IInv, NEW t \in Threads, NEW f \in Frames, OwnStep(t, f)
    PROVE  /\ QueueInv' /\ CallbackFrame'
           /\ \/ Typed'
              \/ connectionState' \notin {"new", "changed", "closed"}
              \/ pcClosed' \notin BOOLEAN
              \/ closedBy' \notin Threads \cup {"nobody"}
<1> USE DEF OwnStep
<1>1. InCall(t)
  BY IdleFrame DEF InCall
<1>2. frame' \in [Threads -> Frames] /\ CallbackFrame'
  BY <1>1, FrameStep
<1>3. QueueInv'
  BY WaitStays DEF IInv, Typed, Queued, QueueInv, Frames, WaitsOnQueue
<1> QED  BY <1>2, <1>3 DEF IInv, Typed, Frames

\* The steps that a calling thread takes without the queue.
LEMMA CallerStep ==
    ASSUME IInv, NEW t \in Threads,
           Ready(t) \/ Connect(t) \/ OnConnectResolves(t) \/ OnConnectRejects(t)
    PROVE  IInv'
<1>1. frame[t] \in Frames
  BY DEF IInv, Typed, Frames
<1>2. frame[t] \in CallFrames /\ frame[t].waits \in {"no", "future"}
  BY <1>1, IdleFrame DEF Ready, Connect, OnConnectResolves, OnConnectRejects, At, InCall
<1>3. \E f \in Frames :
        /\ f.waits \in {"no", "future"}
        /\ frame' = [frame EXCEPT ![t] = f]
  <2>1. CASE Ready(t)
    BY <1>2, <2>1, FrameEnds, IdleFrame DEF Ready
  <2>2. CASE Connect(t)
    <3> DEFINE w == [frame[t] EXCEPT !.waits = "future"]
    <3>1. w \in Frames /\ w.waits = "future"
      BY <1>2, FrameWaits DEF Frames, Waits
    <3>2. \/ frame' = [frame EXCEPT ![t] = Advanced(frame[t])]
          \/ frame' = [frame EXCEPT ![t] = Thrown(frame[t])]
          \/ frame' = [frame EXCEPT ![t] = w]
      BY <1>2, <2>2 DEF Connect
    <3> HIDE DEF w
    <3> QED  BY <1>2, <3>1, <3>2, FrameEnds
  <2>3. CASE OnConnectResolves(t) \/ OnConnectRejects(t)
    BY <1>2, <2>3, FrameEnds DEF OnConnectResolves, OnConnectRejects
  <2> QED  BY <2>1, <2>2, <2>3
<1>4. PICK f \in Frames : OwnStep(t, f)
  BY <1>2, <1>3 DEF OwnStep, Ready, Connect, OnConnectResolves, OnConnectRejects, IInv, Typed
<1>5. UNCHANGED <<pcClosed, connectionState, callback, closedBy>>
  BY DEF Ready, Connect, OnConnectResolves, OnConnectRejects
<1>6. Quiet'
  BY <1>5 DEF IInv, Quiet
<1> QED  BY <1>4, <1>5, <1>6, OwnSteps DEF IInv, Typed, QueueInv

\* A calling thread posts its message.
LEMMA PostStep ==
    ASSUME IInv, NEW t \in Threads, Post(t)
    PROVE  IInv'
<1> DEFINE f == [frame[t] EXCEPT !.waits = "turn"]
           m == [type |-> "run", thread |-> t]
<1>1. frame[t] \in CallFrames /\ frame[t].waits = "no" /\ t \in AppThreads
  BY IdleFrame DEF IInv, Typed, Frames, Post, At, InCall, Threads
<1>2. f \in CallFrames /\ f.waits = "turn"
  BY <1>1, FrameWaits DEF Waits
<1>3. m \in Messages /\ About(m, t) /\ m.type = "run"
  BY <1>1 DEF Messages, About
<1>4. frame' = [frame EXCEPT ![t] = f] /\ queue' = Append(queue, m)
      /\ UNCHANGED <<sending, closed, pcClosed, transportReady, connectionState, callback, closedBy>>
  BY DEF Post
<1> HIDE DEF f, m
<1>5. QueueInv'
  BY <1>1, <1>2, <1>3, <1>4, WaitStarts
     DEF IInv, Typed, Queued, QueueInv, Frames, WaitsOnQueue, Joins
<1>6. CallbackFrame' /\ frame' \in [Threads -> Frames]
  BY <1>1, <1>2, <1>4, FrameStep, CallsAssumption DEF Frames
<1>7. Typed'
  BY <1>3, <1>4, <1>6 DEF IInv, Typed, Frames
<1>8. Quiet'
  BY <1>4 DEF IInv, Quiet
<1> QED  BY <1>5, <1>6, <1>7, <1>8 DEF IInv, QueueInv

\* What Use and ClosePc, with which the step is over, do to the frame, and
\* Request, with which the wait for the observer begins.
LEMMA Executes ==
    ASSUME IInv, NEW t \in Threads, NEW rest, frame[t] \in CallFrames, Execute(t, rest)
    PROVE  \/ /\ queue' = rest
              /\ \E f \in Frames : f.waits = "no" /\ frame' = [frame EXCEPT ![t] = f]
           \/ \E f \in Frames, m \in Messages :
                f.waits = "promise" /\ m.type = "reply" /\ Joins(t, f, rest, m)
<1>1. CASE Use(t, rest) \/ ClosePc(t, rest)
  BY <1>1, FrameEnds DEF Use, ClosePc
<1>2. CASE Request(t, rest)
  <2> DEFINE f == [frame[t] EXCEPT !.waits = "promise"]
  <2>1. PICK ok \in BOOLEAN : queue' = Append(rest, [type |-> "reply", thread |-> t, ok |-> ok])
    BY <1>2 DEF Request
  <2> DEFINE m == [type |-> "reply", thread |-> t, ok |-> ok]
  <2>2. f \in Frames /\ f.waits = "promise"
    BY FrameWaits DEF Waits, Frames
  <2>3. m \in Messages /\ m.type = "reply" /\ About(m, t)
    BY DEF Messages, About
  <2>4. frame' = [frame EXCEPT ![t] = f] /\ queue' = Append(rest, m)
    BY <1>2, <2>1 DEF Request
  <2> HIDE DEF f, m
  <2> QED  BY <2>2, <2>3, <2>4 DEF Joins
<1> QED  BY <1>1, <1>2 DEF Execute

\* A step executed on the signaling thread makes no callback after a Close.
LEMMA ExecuteQuiet ==
    ASSUME IInv, NEW t \in Threads, NEW rest, Execute(t, rest), callback' = callback,
           t \in AppThreads => callback = "no"
    PROVE  /\ Quiet'
           /\ pcClosed' \in BOOLEAN /\ connectionState' \in {"new", "changed", "closed"}
           /\ closedBy' \in Threads \cup {"nobody"}
<1>1. CASE Use(t, rest) \/ Request(t, rest)
  <2>1. UNCHANGED <<pcClosed, connectionState, closedBy>>
    BY <1>1 DEF Use, Request
  <2> QED  BY <2>1 DEF IInv, Typed, Quiet
<1>2. CASE ClosePc(t, rest)
  BY <1>2 DEF ClosePc, IInv, Typed, Quiet
<1> QED  BY <1>1, <1>2 DEF Execute

\* A call of the signaling thread itself runs its step in place.
LEMMA DirectStep ==
    ASSUME IInv, Direct
    PROVE  IInv'
<1> DEFINE t == Signaling
<1>1. t \in Threads /\ t \notin AppThreads
  BY CallsAssumption DEF Threads
<1>2. frame[t] \in CallFrames /\ frame[t].waits = "no" /\ InCall(t)
  BY <1>1, IdleFrame DEF IInv, Typed, Frames, Direct, At, InCall
<1>3. UNCHANGED <<sending, closed, transportReady, callback>> /\ Execute(t, queue)
  BY DEF Direct
<1>4. /\ Quiet'
      /\ pcClosed' \in BOOLEAN /\ connectionState' \in {"new", "changed", "closed"}
      /\ closedBy' \in Threads \cup {"nobody"}
  BY <1>1, <1>3, ExecuteQuiet
<1> HIDE DEF t
<1>5. CASE queue' = queue /\ \E f \in Frames : f.waits = "no" /\ frame' = [frame EXCEPT ![t] = f]
  <2>1. PICK f \in Frames : OwnStep(t, f)
    BY <1>2, <1>3, <1>5 DEF OwnStep, IInv, Typed
  <2> QED  BY <1>1, <1>4, <2>1, OwnSteps DEF IInv, QueueInv
<1>6. ASSUME NEW f \in Frames, NEW m \in Messages,
             f.waits = "promise" /\ m.type = "reply" /\ Joins(t, f, queue, m)
      PROVE  IInv'
  <2>1. QueueInv'
    BY <1>1, <1>2, <1>6, WaitStarts DEF IInv, Typed, Queued, QueueInv, Frames, WaitsOnQueue
  <2>2. CallbackFrame' /\ frame' \in [Threads -> Frames]
    BY <1>1, <1>2, <1>3, <1>6, FrameStep DEF Joins
  <2>3. queue' \in Seq(Messages)
    BY <1>6 DEF Joins, IInv, Typed
  <2> QED  BY <1>3, <1>4, <2>1, <2>2, <2>3 DEF IInv, Typed, Frames, QueueInv
<1> QED  BY <1>1, <1>2, <1>3, <1>5, <1>6, Executes

\* The signaling thread takes the first message.
LEMMA DeliverStep ==
    ASSUME IInv, Deliver
    PROVE  IInv'
<1> DEFINE m == Head(queue)
           rest == Tail(queue)
<1>1. /\ queue # <<>> /\ callback = "no"
      /\ m = queue[1] /\ m \in Messages /\ 1 \in 1..Len(queue) /\ rest \in Seq(Messages)
      /\ UNCHANGED <<sending, closed, transportReady>>
  BY DEF Deliver, IInv, Typed
<1>2. ~InCall(Signaling) /\ Signaling \in Threads
  BY <1>1 DEF IInv, CallbackFrame, Threads
<1>3. CASE RunsMessage(m)
  <2> DEFINE t == m.thread
  <2>1. t \in AppThreads /\ About(m, t)
    BY <1>1, <1>3 DEF RunsMessage, Messages, About
  <2>2. t \in Threads /\ t # Signaling
    BY <2>1, CallsAssumption DEF Threads
  <2>3. frame[t].waits = "turn" /\ WaitsOnQueue(t)
    BY <1>1, <1>3 DEF RunsMessage, IInv, Expected, WaitsOnQueue
  <2>4. frame[t] \in CallFrames
    BY <2>2, <2>3, IdleFrame DEF IInv, Typed, Frames
  <2>5. Execute(t, rest) /\ callback' = callback
    BY <1>3 DEF RunsMessage
  <2>6. /\ Quiet'
        /\ pcClosed' \in BOOLEAN /\ connectionState' \in {"new", "changed", "closed"}
        /\ closedBy' \in Threads \cup {"nobody"}
    BY <1>1, <2>2, <2>5, ExecuteQuiet
  <2> HIDE DEF t, m, rest
  <2>7. CASE queue' = rest /\ \E f \in Frames : f.waits = "no" /\ frame' = [frame EXCEPT ![t] = f]
    <3>1. PICK f \in Frames : f.waits = "no" /\ frame' = [frame EXCEPT ![t] = f]
      BY <2>7
    <3>2. QueueInv'
      BY <1>1, <2>1, <2>2, <2>7, <3>1, WaitEnds DEF IInv, Typed, Queued, QueueInv, Frames, m, rest
    <3>3. CallbackFrame' /\ frame' \in [Threads -> Frames]
      BY <2>2, <2>5, <3>1, FrameStep
    <3> QED  BY <1>1, <2>5, <2>6, <2>7, <3>2, <3>3 DEF IInv, Typed, Frames, QueueInv
  <2>8. ASSUME NEW f \in Frames, NEW n \in Messages,
               f.waits = "promise" /\ n.type = "reply" /\ Joins(t, f, rest, n)
        PROVE  IInv'
    <3>1. QueueInv'
      BY <1>1, <2>1, <2>2, <2>8, WaitGoesOn DEF IInv, Typed, Queued, QueueInv, Frames, m, rest
    <3>2. CallbackFrame' /\ frame' \in [Threads -> Frames]
      BY <2>2, <2>5, <2>8, FrameStep DEF Joins
    <3>3. queue' \in Seq(Messages)
      BY <1>1, <2>8 DEF Joins
    <3> QED  BY <1>1, <2>5, <2>6, <3>1, <3>2, <3>3 DEF IInv, Typed, Frames, QueueInv
  <2> QED  BY <2>2, <2>4, <2>5, <2>7, <2>8, Executes
<1>4. CASE Reply(m)
  <2> DEFINE t == m.thread
             f == IF m.ok THEN Advanced(frame[t]) ELSE Thrown(frame[t])
  <2>1. t \in Threads /\ About(m, t)
    BY <1>1, <1>4 DEF Reply, Messages, About, Threads
  <2>2. frame[t].waits = "promise"
    BY <1>1, <1>4 DEF Reply, IInv, Expected
  <2>3. frame[t] \in CallFrames
    BY <2>1, <2>2, IdleFrame DEF IInv, Typed, Frames
  <2>4. t # Signaling
    BY <1>2, <2>2, IdleFrame DEF InCall
  <2>5. f \in Frames /\ f.waits = "no"
    BY <2>3, FrameEnds
  <2>6. /\ frame' = [frame EXCEPT ![t] = f] /\ queue' = rest
        /\ UNCHANGED <<pcClosed, connectionState, callback, closedBy>>
    BY <1>4, <2>1 DEF Reply, IInv, Typed
  <2> HIDE DEF t, f, m, rest
  <2>7. QueueInv'
    BY <1>1, <2>1, <2>5, <2>6, WaitEnds DEF IInv, Typed, Queued, QueueInv, Frames, m, rest
  <2>8. CallbackFrame' /\ frame' \in [Threads -> Frames]
    BY <2>1, <2>4, <2>5, <2>6, FrameStep
  <2>9. Quiet'
    BY <2>6 DEF IInv, Quiet
  <2> QED  BY <1>1, <2>6, <2>7, <2>8, <2>9 DEF IInv, Typed, Frames, QueueInv
<1>5. CASE OnConnectionStateChange(m)
  <2>1. m.type = "change" /\ queue' = rest /\ UNCHANGED <<pcClosed, frame, closedBy>>
    BY <1>5 DEF OnConnectionStateChange
  <2>2. \/ UNCHANGED <<connectionState, callback>>
        \/ ~pcClosed /\ connectionState' = "changed" /\ callback' = "entered"
    BY <1>5 DEF OnConnectionStateChange
  <2>3. QueueInv'
    BY <1>1, <2>1, ChangeGoes DEF IInv, Typed, Queued, QueueInv, Frames
  <2>4. Quiet' /\ CallbackFrame'
    BY <1>2, <2>1, <2>2, CallsAssumption DEF IInv, Typed, Quiet, CallbackFrame, InCall, Threads
  <2> HIDE DEF m, rest
  <2> QED  BY <1>1, <2>1, <2>2, <2>3, <2>4 DEF IInv, Typed, QueueInv
<1> QED  BY <1>3, <1>4, <1>5 DEF Deliver

\* The callback of the application returns.
LEMMA CallbackReturnsStep ==
    ASSUME IInv, CallbackReturns
    PROVE  IInv'
BY DEF CallbackReturns, IInv, Typed, Expected, OnlyOne, Promised, WaitsOnQueue, About,
   CallbackFrame, InCall, Quiet

\* The state of the ICE connection changes.
LEMMA IceChangesStep ==
    ASSUME IInv, IceChanges
    PROVE  IInv'
<1>1. /\ queue' = Append(queue, [type |-> "change"])
      /\ UNCHANGED <<sending, closed, pcClosed, transportReady, connectionState, callback,
                     frame, closedBy>>
  BY DEF IceChanges
<1>2. QueueInv'
  BY <1>1, ChangeComes DEF IInv, Typed, Queued, QueueInv, Frames
<1>3. queue' \in Seq(Messages)
  <2>1. [type |-> "change"] \in Messages
    BY DEF Messages
  <2> QED  BY <1>1, <2>1 DEF IInv, Typed
<1> QED  BY <1>1, <1>2, <1>3 DEF IInv, Typed, QueueInv, CallbackFrame, InCall, Quiet

-----------------------------------------------------------------------------
(***************************************************************************)
(* The theorems.                                                           *)
(***************************************************************************)
LEMMA Initial == Init => IInv
<1> SUFFICES ASSUME Init
    PROVE  IInv
  OBVIOUS
<1>1. \A t \in Threads : frame[t] = Idle
  BY DEF Init
<1>2. Typed
  <2>1. queue \in Seq(Messages) /\ frame \in [Threads -> CallFrames \cup {Idle}]
    BY DEF Init
  <2> QED  BY <2>1 DEF Init, Typed
<1>3. Expected /\ OnlyOne
  BY DEF Init, Expected, OnlyOne
<1>4. Promised
  BY <1>1, IdleFrame DEF Promised, WaitsOnQueue
<1>5. CallbackFrame
  BY <1>1 DEF CallbackFrame, InCall, Threads
<1>6. Quiet
  BY CallsAssumption DEF Init, Quiet, Threads
<1> QED  BY <1>2, <1>3, <1>4, <1>5, <1>6 DEF IInv

\* Every step keeps it.
LEMMA Inductive == IInv /\ [Next]_vars => IInv'
<1> SUFFICES ASSUME IInv, [Next]_vars
    PROVE  IInv'
  OBVIOUS
<1>1. ASSUME NEW t \in Threads, AppCalls(t)
      PROVE  IInv'
  BY <1>1, BeginStep DEF AppCalls
<1>2. ASSUME CallbackCalls
      PROVE  IInv'
  BY <1>2, BeginStep DEF CallbackCalls, Threads
<1>3. ASSUME NEW t \in Threads, ThreadRuns(t) \/ AppAnswers(t)
      PROVE  IInv'
  BY <1>3, CallerStep, PostStep DEF ThreadRuns, AppAnswers
<1>4. CASE UNCHANGED vars
  BY <1>4 DEF vars, IInv, Typed, Expected, OnlyOne, Promised, WaitsOnQueue, About,
     CallbackFrame, InCall, Quiet
<1> QED
  BY <1>1, <1>2, <1>3, <1>4, DirectStep, DeliverStep, CallbackReturnsStep, IceChangesStep DEF Next

\* The protocol of the queue: every thread that waits for the signaling thread
\* or for an observer is named by one message of the queue, and by no other.
THEOREM Invariance == Spec => []IInv
BY Initial, Inductive, PTL DEF Spec

\* The types, and that the signaling thread calls the transport from inside
\* OnConnectionStateChange only.
THEOREM TypeCorrect == Spec => []TypeOK
<1>1. IInv => TypeOK
  <2> SUFFICES ASSUME IInv
      PROVE  TypeOK
    OBVIOUS
  <2>1. ASSUME NEW t \in Threads
        PROVE  /\ frame[t].op \in Ops \cup {"none"}
               /\ frame[t].waits \in {"no", "turn", "promise", "future"}
               /\ InCall(t) <=> frame[t].steps # <<>>
    <3>1. CASE frame[t] = Idle
      BY <3>1 DEF Idle, InCall
    <3>2. CASE frame[t] \in CallFrames
      BY <3>2, IdleFrame DEF InCall, CallFrames, Waits
    <3> QED  BY <3>1, <3>2 DEF IInv, Typed
  <2> QED  BY <2>1 DEF IInv, Typed, TypeOK, CallbackFrame
<1> QED  BY <1>1, Invariance, PTL

\* Once the Close that closes the handler has returned to a thread of the
\* application, OnConnectionStateChange neither runs nor will run, and the
\* state says closed: with any number of threads and any calls and callbacks.
THEOREM AlwaysQuietAfterClose == Spec => []QuietAfterClose
<1>1. IInv => QuietAfterClose
  BY CallsAssumption DEF IInv, Quiet, QuietAfterClose, Threads
<1> QED  BY <1>1, Invariance, PTL

\* A signaling thread that waits for its own observer waits for ever, and so
\* does every thread that waits for a message of the queue.
THEOREM SelfWaitIsFinal == Spec => NothingEndsSelfWait
<1> DEFINE Stuck ==
      WaitsForItself =>
        /\ WaitsForItself'
        /\ \A t \in AppThreads : frame[t].waits \in {"turn", "promise"} => frame'[t] = frame[t]
<1>1. IInv /\ [Next]_vars => [Stuck]_vars
  <2> SUFFICES ASSUME IInv, [Next]_vars, WaitsForItself
      PROVE  /\ WaitsForItself'
             /\ \A t \in AppThreads : frame[t].waits \in {"turn", "promise"} => frame'[t] = frame[t]
    OBVIOUS
  <2>1. /\ frame[Signaling].waits = "promise" /\ frame[Signaling] # Idle
        /\ callback = "called"
    BY IdleFrame DEF WaitsForItself, IInv, CallbackFrame, InCall
  <2> DEFINE MovesAlone(t) ==
        /\ frame[t].waits \in {"no", "future"}
        /\ \A s \in Threads : s # t => frame'[s] = frame[s]
  <2> SUFFICES \/ frame' = frame
               \/ \E t \in Threads : MovesAlone(t)
    BY <2>1 DEF IInv, Typed, WaitsForItself, Threads
  <2>2. ASSUME NEW t \in Threads, AppCalls(t)
        PROVE  MovesAlone(t)
    BY <2>2, IdleFrame DEF AppCalls, Begin, InCall, IInv, Typed
  <2>3. ASSUME NEW t \in Threads, ThreadRuns(t) \/ AppAnswers(t)
        PROVE  MovesAlone(t)
    <3>1. CASE Ready(t)
      BY <3>1 DEF Ready, At, IInv, Typed
    <3>2. CASE Connect(t)
      BY <3>2 DEF Connect, At, IInv, Typed
    <3>3. CASE Post(t)
      BY <3>3 DEF Post, At, IInv, Typed
    <3>4. CASE AppAnswers(t)
      BY <3>4 DEF AppAnswers, OnConnectResolves, OnConnectRejects, IInv, Typed
    <3> QED  BY <2>3, <3>1, <3>2, <3>3, <3>4 DEF ThreadRuns
  <2>4. ~CallbackCalls /\ ~Direct /\ ~Deliver /\ ~CallbackReturns
    BY <2>1 DEF CallbackCalls, Direct, At, Deliver, CallbackReturns, InCall
  <2>5. IceChanges \/ UNCHANGED vars => frame' = frame
    BY DEF IceChanges, vars
  <2> QED  BY <2>2, <2>3, <2>4, <2>5 DEF Next
<1> QED  BY <1>1, Invariance, PTL DEF Spec, NothingEndsSelfWait
=============================================================================
