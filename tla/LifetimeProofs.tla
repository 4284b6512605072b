--------------------------- MODULE LifetimeProofs ---------------------------
(***************************************************************************)
(* Proofs about Lifetime, for any number of transports and of threads.     *)
(* The handle of a wrapper says what is left of its transport; the         *)
(* invariant says which calls may be in progress for each handle, and,     *)
(* for each rule of the application that is not broken, what it buys.      *)
(***************************************************************************)
EXTENDS Lifetime, TLAPS

(***************************************************************************)
(* The inductive invariant.                                                *)
(***************************************************************************)
Calls ==
    [op : Ops \cup {"none"}, on : Transports \cup {NoTransport},
     at : Stages \cup {"end", "aborted"}, native : BOOLEAN]

Typed ==
    /\ binding \in {"java", "objc"}
    /\ handle \in [Transports \cup {Device} -> {"none", "native", "zero", "gone", "failed"}]
    /\ alive \subseteq {DeviceObject} \cup ({"transport", "listener"} \X Transports)
    /\ pc \in [Transports -> {"none", "open", "closed"}]
    /\ closed \in [Transports -> BOOLEAN]
    /\ changes \in [Transports -> 0..MaxChanges]
    /\ callback \in Transports \cup {NoTransport}
    /\ call \in [Threads -> Calls]
    /\ broken \subseteq {"callAfterClose", "deviceFirst"}

\* How far a call of each method gets, and what it may rely on by itself.
Shape(c) ==
    /\ c.op = "none" => c.on = NoTransport /\ c.at = "end"
    /\ c.op \notin {"none", "Dispose"} => c.on \in Transports
    /\ c.op = "Create" => c.at \in {"entered", "aborted"}
    /\ c.op \in {"Produce", "Use"} => c.at \in {"entered", "checked", "working", "aborted"}
    /\ c.op = "Ask" => c.at = "entered"
    /\ c.op = "Close" =>
         /\ c.native
         /\ c.at \in {"entered", "closing", "deleteListener", "deleting"}
         /\ c.at \in {"deleteListener", "deleting"} => binding = "java"
    /\ c.op = "Dealloc" => c.native /\ c.at = "deleting" /\ binding = "objc"
    /\ c.op = "Dispose" => c.native /\ c.at = "entered" /\ c.on = NoTransport
    /\ c.op \in {"Produce", "Use", "Ask"} => c.native \/ "callAfterClose" \in broken

Shapes == \A t \in Threads : Shape(call[t])

\* Which calls have a transport to themselves; close() of Java only does if
\* the application keeps the rule for it.
Alone(c) ==
    \/ c.op \in {"Create", "Dealloc"}
    \/ c.op = "Close" /\ binding = "java" /\ "callAfterClose" \notin broken

Exclusive ==
    \A s, t \in Threads :
        s # t /\ call[t].on \in Transports /\ Alone(call[t]) => call[s].on # call[t].on

NotCreated(i) ==
    handle[i] = "none" =>
        /\ TransportObject(i) \notin alive /\ pc[i] = "none" /\ ~closed[i]
        /\ \A t \in Threads : call[t].on = i => call[t].op = "Create" /\ call[t].at = "entered"
        /\ Listener(i) \in alive <=> \E t \in Threads : call[t].on = i

Failed(i) ==
    handle[i] = "failed" =>
        /\ TransportObject(i) \notin alive /\ pc[i] = "none" /\ Listener(i) \in alive
        /\ \A t \in Threads : call[t].on = i => call[t].at = "aborted"

Live(i) ==
    handle[i] = "native" =>
        /\ TransportObject(i) \in alive /\ pc[i] # "none"
        /\ \A t \in Threads : call[t].on = i => call[t].op # "Create"
        /\ Listener(i) \notin alive
           <=> \E t \in Threads : call[t].on = i /\ call[t].op = "Close" /\ call[t].at = "deleting"

\* What close() of Java leaves: a call that still runs has broken the rule.
Zero(i) ==
    handle[i] = "zero" =>
        /\ binding = "java"
        /\ TransportObject(i) \notin alive /\ pc[i] = "none" /\ Listener(i) \notin alive
        /\ \A t \in Threads : call[t].on = i =>
             "callAfterClose" \in broken /\ call[t].op \in {"Produce", "Use", "Ask", "Close"}

Gone(i) ==
    handle[i] = "gone" =>
        /\ binding = "objc"
        /\ TransportObject(i) \notin alive /\ pc[i] = "none" /\ Listener(i) \in alive
        /\ \A t \in Threads : call[t].on # i

Handles == \A i \in Transports : NotCreated(i) /\ Failed(i) /\ Live(i) /\ Zero(i) /\ Gone(i)

\* Where the rule is kept, the first close() of Java is the only one, and the
\* peer connection is closed, with no callback left, before the listener goes.
ClosedOnce ==
    binding = "java" /\ "callAfterClose" \notin broken =>
        /\ \A i \in Transports : closed[i] /\ handle[i] = "native" =>
             \E t \in Threads : call[t].on = i /\ call[t].op = "Close" /\ call[t].at # "entered"
        /\ \A t \in Threads : call[t].op = "Close" /\ call[t].at \in {"deleteListener", "deleting"} =>
             pc[call[t].on] # "open" /\ callback # call[t].on

CallbackLives == callback \in Transports => handle[callback] = "native"

DeviceLives ==
    /\ handle[Device] \in {"native", "zero", "gone"}
    /\ DeviceObject \in alive <=> handle[Device] = "native"
    /\ "deviceFirst" \notin broken =>
         /\ \A t \in Threads :
              /\ call[t].op \in {"Create", "Produce", "Dispose"} => handle[Device] = "native"
              /\ call[t].op = "Create" => call[t].native
         /\ \A s, t \in Threads :
              s # t /\ call[s].op = "Dispose" => call[t].op \notin {"Create", "Produce", "Dispose"}

IInv ==
    Typed /\ Shapes /\ Exclusive /\ Handles /\ ClosedOnce /\ CallbackLives /\ DeviceLives

-----------------------------------------------------------------------------
(***************************************************************************)
(* Objects and calls.                                                      *)
(***************************************************************************)
LEMMA ObjectsDiffer ==
    ASSUME NEW i, NEW j
    PROVE  /\ TransportObject(i) = TransportObject(j) <=> i = j
           /\ Listener(i) = Listener(j) <=> i = j
           /\ TransportObject(i) # Listener(j)
           /\ TransportObject(i) # DeviceObject /\ Listener(i) # DeviceObject
BY DEF TransportObject, Listener, DeviceObject

\* The objects of a transport are objects.
LEMMA ObjectsTyped ==
    ASSUME NEW i \in Transports
    PROVE  {TransportObject(i), Listener(i)} \subseteq
             {DeviceObject} \cup ({"transport", "listener"} \X Transports)
BY DEF TransportObject, Listener, DeviceObject

\* The record of thread t after a step of its call that ends at `stage'.
At(c, stage) == [op |-> c.op, on |-> c.on, at |-> stage, native |-> c.native]

\* A call that goes on to another stage is a call.
LEMMA CallGoes ==
    ASSUME call \in [Threads -> Calls], NEW t \in Threads,
           NEW stage \in Stages \cup {"end", "aborted"}, Goes(t, stage)
    PROVE  call' \in [Threads -> Calls] /\ call' = [call EXCEPT ![t] = At(call[t], stage)]
<1> DEFINE c == call[t]
<1>1. c \in Calls
  OBVIOUS
<1>2. [c EXCEPT !.at = stage] = At(c, stage)
  <2>1. c = [op |-> c.op, on |-> c.on, at |-> c.at, native |-> c.native]
    BY <1>1 DEF Calls
  <2> QED  BY <2>1 DEF At
<1>3. At(c, stage) \in Calls
  BY <1>1 DEF At, Calls
<1> QED  BY <1>2, <1>3 DEF Goes

\* A thread whose call returns is idle.
LEMMA CallReturns ==
    ASSUME call \in [Threads -> Calls], NEW t \in Threads, Returns(t)
    PROVE  call' \in [Threads -> Calls] /\ call' = [call EXCEPT ![t] = Idle]
BY DEF Returns, Idle, Calls, Stages

\* A call that is entered is a call.
LEMMA CallEnters ==
    ASSUME call \in [Threads -> Calls], NEW t \in Threads, NEW op \in Ops,
           NEW i \in Transports, NEW native \in BOOLEAN, Enters(t, op, i, native)
    PROVE  call' \in [Threads -> Calls]
BY DEF Enters, Calls, Stages

-----------------------------------------------------------------------------
(***************************************************************************)
(* The steps.                                                              *)
(***************************************************************************)
LEMMA CreateTransportStep ==
    ASSUME IInv, Defined, NEW t \in Threads, NEW i \in Transports, CreateTransport(t, i)
    PROVE  IInv'
<1> USE LifetimeAssumption, ObjectsDiffer
<1> DEFINE c == [op |-> "Create", on |-> i, at |-> "entered", native |-> handle[Device] = "native"]
<1>1. /\ call' \in [Threads -> Calls] /\ call' = [call EXCEPT ![t] = c]
      /\ call[t] = Idle
  BY CallEnters DEF IInv, Typed, CreateTransport, Enters, Ops, Free
<1>2. /\ alive' = alive \cup {Listener(i)}
      /\ UNCHANGED <<binding, handle, pc, closed, changes, callback>>
      /\ broken \subseteq broken' /\ broken' \subseteq broken \cup {"deviceFirst"}
      /\ handle[i] = "none" /\ \A s \in Threads : call[s].on # i
      /\ \/ "deviceFirst" \in broken'
         \/ handle[Device] = "native" /\ \A s \in Threads : call[s].op # "Dispose"
  BY DEF CreateTransport, Breaks, CallsOn, Running
<1>3. Typed'
  BY <1>1, <1>2, ObjectsTyped DEF IInv, Typed
<1>4. Shapes'
  BY <1>1, <1>2 DEF IInv, Typed, Shapes, Shape
<1>5. Exclusive'
  BY <1>1, <1>2 DEF IInv, Typed, Exclusive, Alone, Idle
<1>6. Handles'
  BY <1>1, <1>2 DEF IInv, Typed, Handles, NotCreated, Failed, Live, Zero, Gone, Idle
<1>7. ClosedOnce'
  BY <1>1, <1>2 DEF IInv, Typed, ClosedOnce, Idle
<1>8. CallbackLives'
  BY <1>1, <1>2 DEF IInv, CallbackLives
<1>9. DeviceLives'
  <2>1. handle[Device] = "native" => c.native
    OBVIOUS
  <2>2. DeviceObject \in alive' <=> DeviceObject \in alive
    BY <1>2
  <2> SUFFICES ASSUME "deviceFirst" \notin broken'
      PROVE  /\ \A s \in Threads :
              /\ call'[s].op \in {"Create", "Produce", "Dispose"} => handle[Device] = "native"
              /\ call'[s].op = "Create" => call'[s].native
         /\ \A s, u \in Threads :
              s # u /\ call'[s].op = "Dispose" => call'[u].op \notin {"Create", "Produce", "Dispose"}
    BY <1>1, <1>2, <2>2 DEF IInv, DeviceLives
  <2>3. \A s \in Threads : call'[s].op \in {"Create", "Produce", "Dispose"} => handle[Device] = "native"
    BY <1>1, <1>2
  <2>4. \A s \in Threads : call'[s].op = "Create" => call'[s].native
    BY <1>1, <1>2, <2>1 DEF IInv, Typed, DeviceLives, Idle
  <2>5. \A s, u \in Threads :
              s # u /\ call'[s].op = "Dispose" => call'[u].op \notin {"Create", "Produce", "Dispose"}
    BY <1>1, <1>2, <2>1 DEF IInv, Typed, DeviceLives, Idle
  <2> QED  BY <2>3, <2>4, <2>5
<1> QED  BY <1>3, <1>4, <1>5, <1>6, <1>7, <1>8, <1>9 DEF IInv

\* The transport and its listener are created.
LEMMA CreateEndsStep ==
    ASSUME IInv, Defined, NEW t \in Threads, CreateEnds(t)
    PROVE  IInv'
<1> USE LifetimeAssumption, ObjectsDiffer
<1> DEFINE i == call[t].on
<1>1. call[t].op = "Create" /\ i \in Transports /\ handle[i] = "none"
  BY DEF IInv, Typed, Shapes, Shape, Handles, CreateEnds, NotCreated, Failed, Live, Zero, Gone
<1>2. CASE callback = NoTransport /\ alive' = alive \cup {TransportObject(i)}
           /\ pc' = [pc EXCEPT ![i] = "open"] /\ handle' = [handle EXCEPT ![i] = "native"]
           /\ Returns(t)
  <2>1. call' \in [Threads -> Calls] /\ call' = [call EXCEPT ![t] = Idle]
    BY <1>2, CallReturns DEF IInv, Typed
  <2>2. UNCHANGED <<binding, closed, changes, callback, broken>>
    BY DEF CreateEnds
  <2>3. Typed'
    BY <1>1, <1>2, <2>1, <2>2, ObjectsTyped DEF IInv, Typed
  <2>4. Shapes'
    BY <1>1, <2>1, <2>2 DEF IInv, Typed, Shapes, Shape, Idle
  <2>5. Exclusive'
    BY <1>1, <2>1, <2>2 DEF IInv, Typed, Exclusive, Alone, Idle
  <2>6. Handles'
    BY <1>1, <1>2, <2>1, <2>2 DEF IInv, Typed, Handles, NotCreated, Failed, Live, Zero, Gone, Idle,
       Exclusive, Alone
  <2>7. ClosedOnce'
    BY <1>1, <1>2, <2>1, <2>2 DEF IInv, Typed, ClosedOnce, Idle, Handles, NotCreated
  <2>8. CallbackLives'
    BY <1>1, <1>2, <2>1, <2>2 DEF IInv, Typed, CallbackLives
  <2>9. DeviceLives'
    BY <1>1, <1>2, <2>1, <2>2 DEF IInv, Typed, DeviceLives, Idle
  <2> QED  BY <2>3, <2>4, <2>5, <2>6, <2>7, <2>8, <2>9 DEF IInv
<1>3. CASE handle' = [handle EXCEPT ![i] = "failed"] /\ Throws(t) /\ UNCHANGED <<alive, pc>>
  <2> DEFINE d == IF binding = "java" THEN At(call[t], "aborted") ELSE Idle
  <2>1. call' \in [Threads -> Calls] /\ call' = [call EXCEPT ![t] = d]
    BY <1>3, CallReturns, CallGoes DEF IInv, Typed, Throws
  <2>2. UNCHANGED <<binding, closed, changes, callback, broken>>
    BY DEF CreateEnds
  <2>3. Typed'
    BY <1>1, <1>3, <2>1, <2>2 DEF IInv, Typed
  <2>4. Shapes'
    BY <1>1, <2>1, <2>2 DEF IInv, Typed, Shapes, Shape, Idle, At
  <2>5. Exclusive'
    BY <1>1, <2>1, <2>2 DEF IInv, Typed, Exclusive, Alone, Idle, At
  <2>6. Handles'
    BY <1>1, <1>3, <2>1, <2>2 DEF IInv, Typed, Handles, NotCreated, Failed, Live, Zero, Gone, Idle,
       Exclusive, Alone, At
  <2>7. ClosedOnce'
    BY <1>1, <1>3, <2>1, <2>2 DEF IInv, Typed, ClosedOnce, Idle, At
  <2>8. CallbackLives'
    BY <1>1, <1>3, <2>1, <2>2 DEF IInv, Typed, CallbackLives
  <2>9. DeviceLives'
    BY <1>1, <1>3, <2>1, <2>2 DEF IInv, Typed, DeviceLives, Idle, At
  <2> QED  BY <2>3, <2>4, <2>5, <2>6, <2>7, <2>8, <2>9 DEF IInv
<1> QED  BY <1>2, <1>3 DEF CreateEnds

\* Calls of the methods that only use the transport, after they have begun.
UseStep(t, d) ==
    /\ call' = [call EXCEPT ![t] = d]
    /\ call[t].op \in {"Produce", "Use", "Ask"}
    /\ \/ d = Idle
       \/ d = At(call[t], "aborted") /\ binding = "java" /\ call[t].op # "Ask"
       \/ (d = At(call[t], "checked") \/ d = At(call[t], "working")) /\ call[t].op # "Ask"
    /\ UNCHANGED <<binding, handle, alive, pc, closed, changes, callback, broken>>

\* A step of a call that frees nothing.
LEMMA UseSteps ==
    ASSUME IInv, Defined, NEW t \in Threads, NEW d \in Calls, UseStep(t, d)
    PROVE  IInv'
<1> USE LifetimeAssumption, ObjectsDiffer DEF UseStep
<1>1. Typed'
  BY DEF IInv, Typed
<1>2. Shapes'
  BY DEF IInv, Typed, Shapes, Shape, Idle, At
<1>3. Exclusive'
  BY DEF IInv, Typed, Exclusive, Alone, Idle, At
<1>4. Handles'
  BY DEF IInv, Typed, Handles, NotCreated, Failed, Live, Zero, Gone, Idle, At, Defined
<1>5. ClosedOnce'
  BY DEF IInv, Typed, ClosedOnce, Idle, At
<1>6. CallbackLives'
  BY DEF IInv, CallbackLives
<1>7. DeviceLives'
  BY DEF IInv, Typed, DeviceLives, Idle, At
<1> QED  BY <1>1, <1>2, <1>3, <1>4, <1>5, <1>6, <1>7 DEF IInv

\* The guard, the work and the return of a call.
LEMMA CheckWorkReturnStep ==
    ASSUME IInv, Defined, NEW t \in Threads, Check(t) \/ Work(t) \/ Return(t)
    PROVE  IInv'
<1>1. call[t] \in Calls /\ call[t].op \in {"Produce", "Use", "Ask"}
  BY DEF IInv, Typed, Shapes, Shape, Check, Work, Return, Calls, Ops
<1>2. PICK d \in Calls : UseStep(t, d)
  <2>1. At(call[t], "aborted") \in Calls /\ At(call[t], "checked") \in Calls
        /\ At(call[t], "working") \in Calls /\ Idle \in Calls
    BY <1>1 DEF At, Calls, Stages, Idle
  <2>2. \/ Returns(t)
        \/ Throws(t) /\ call[t].op # "Ask"
        \/ (Goes(t, "checked") \/ Goes(t, "working")) /\ call[t].op # "Ask"
    <3>1. CASE Check(t)
      BY <3>1 DEF Check
    <3>2. CASE Work(t) \/ Return(t)
      <4>1. call[t].op # "Ask"
        BY <3>2 DEF Work, Return, IInv, Shapes, Shape
      <4> QED  BY <3>2, <4>1 DEF Work, Return
    <3> QED  BY <3>1, <3>2
  <2>3. UNCHANGED <<binding, handle, alive, pc, closed, changes, callback, broken>>
    BY DEF Check, Work, Return
  <2>4. ASSUME NEW stage \in {"checked", "working", "aborted"}, Goes(t, stage)
        PROVE  call' = [call EXCEPT ![t] = At(call[t], stage)]
    BY <2>4, CallGoes DEF IInv, Typed, Stages
  <2>5. CASE Returns(t)
    BY <1>1, <2>1, <2>3, <2>5 DEF UseStep, Returns
  <2>6. CASE Throws(t) /\ call[t].op # "Ask"
    <3>1. CASE binding = "java"
      BY <1>1, <2>1, <2>3, <2>4, <2>6, <3>1 DEF UseStep, Throws
    <3>2. CASE binding # "java"
      BY <1>1, <2>1, <2>3, <2>6, <3>2 DEF UseStep, Throws, Returns
    <3> QED  BY <3>1, <3>2
  <2>7. CASE Goes(t, "checked") /\ call[t].op # "Ask"
    BY <1>1, <2>1, <2>3, <2>4, <2>7 DEF UseStep
  <2>8. CASE Goes(t, "working") /\ call[t].op # "Ask"
    BY <1>1, <2>1, <2>3, <2>4, <2>8 DEF UseStep
  <2> QED  BY <2>2, <2>5, <2>6, <2>7, <2>8
<1> QED  BY <1>2, UseSteps

\* What becomes of `broken' when a call begins.
LEMMA BeginStep ==
    ASSUME IInv, Defined, NEW t \in Threads, NEW i \in Transports, NEW op \in Ops, Begin(t, op, i)
    PROVE  IInv'
<1> USE LifetimeAssumption, ObjectsDiffer
<1> DEFINE c == [op |-> op, on |-> i, at |-> "entered", native |-> handle[i] = "native"]
<1>1. /\ call' \in [Threads -> Calls] /\ call' = [call EXCEPT ![t] = c]
      /\ call[t] = Idle /\ op \in {"Produce", "Use", "Ask"}
      /\ handle[i] = "native" => c.native
  BY CallEnters DEF IInv, Typed, Begin, Enters, Ops, Free
<1>2. /\ UNCHANGED <<binding, handle, alive, pc, closed, changes, callback>>
      /\ broken \subseteq broken' /\ broken' \subseteq {"callAfterClose", "deviceFirst"}
      /\ handle[i] \in {"native", "zero"} /\ \A s \in Threads : call[s].on = i => call[s].op # "Dealloc"
  BY DEF IInv, Typed, Begin, Has, CallsOn
<1>3. \/ "callAfterClose" \in broken'
      \/ binding = "objc"
      \/ handle[i] = "native" /\ \A s \in Threads : call[s].on = i => call[s].op # "Close"
  BY <1>2 DEF IInv, Typed, Begin, CallsOn
<1>4. \/ op # "Produce"
      \/ "deviceFirst" \in broken'
      \/ handle[Device] = "native" /\ \A s \in Threads : call[s].op # "Dispose"
  BY DEF Begin, Running
<1>5. binding = "objc" => handle[i] = "native"
  BY <1>2 DEF IInv, Typed, Handles, Zero
<1>6. Typed'
  BY <1>1, <1>2, <1>3, <1>4, <1>5 DEF IInv, Typed
<1>7. Shapes'
  BY <1>1, <1>2, <1>3, <1>4, <1>5 DEF IInv, Typed, Shapes, Shape, Idle, At
<1>8. Exclusive'
  BY <1>1, <1>2, <1>3, <1>4, <1>5 DEF IInv, Typed, Exclusive, Alone, Idle, At, Handles, Live, Zero
<1>9. Handles'
  BY <1>1, <1>2, <1>3, <1>4, <1>5 DEF IInv, Typed, Handles, NotCreated, Failed, Live, Zero, Gone, Idle, At
<1>10. ClosedOnce'
  BY <1>1, <1>2, <1>3, <1>4, <1>5 DEF IInv, Typed, ClosedOnce, Idle, At
<1>11. CallbackLives'
  BY <1>1, <1>2, <1>3, <1>4, <1>5 DEF IInv, Typed, CallbackLives
<1>12. DeviceLives'
  BY <1>1, <1>2, <1>3, <1>4, <1>5 DEF IInv, Typed, DeviceLives, Idle, At
<1> QED  BY <1>6, <1>7, <1>8, <1>9, <1>10, <1>11, <1>12 DEF IInv

\* Close is called.
LEMMA CloseStep ==
    ASSUME IInv, Defined, NEW t \in Threads, NEW i \in Transports, Close(t, i)
    PROVE  IInv'
<1> USE LifetimeAssumption, ObjectsDiffer
<1> DEFINE c == [op |-> "Close", on |-> i, at |-> "entered", native |-> TRUE]
<1>1. /\ call' \in [Threads -> Calls] /\ call' = [call EXCEPT ![t] = c]
      /\ call[t] = Idle
  BY CallEnters DEF IInv, Typed, Close, Enters, Ops, Free
<1>2. /\ UNCHANGED <<binding, handle, alive, pc, closed, changes, callback>>
      /\ broken \subseteq broken' /\ broken' \subseteq broken \cup {"callAfterClose"}
      /\ handle[i] = "native" /\ \A s \in Threads : call[s].on = i => call[s].op # "Dealloc"
      /\ \/ "callAfterClose" \in broken' \/ binding = "objc" \/ \A s \in Threads : call[s].on # i
  BY DEF IInv, Typed, Close, Has, CallsOn, Breaks
<1>3. Typed'
  BY <1>1, <1>2 DEF IInv, Typed
<1>4. Shapes'
  BY <1>1, <1>2 DEF IInv, Typed, Shapes, Shape, Idle, At
<1>5. Exclusive'
  BY <1>1, <1>2 DEF IInv, Typed, Exclusive, Alone, Idle, At, Handles, Live
<1>6. Handles'
  BY <1>1, <1>2 DEF IInv, Typed, Handles, NotCreated, Failed, Live, Zero, Gone, Idle, At
<1>7. ClosedOnce'
  BY <1>1, <1>2 DEF IInv, Typed, ClosedOnce, Idle, At
<1>8. CallbackLives'
  BY <1>1, <1>2 DEF IInv, Typed, CallbackLives
<1>9. DeviceLives'
  BY <1>1, <1>2 DEF IInv, Typed, DeviceLives, Idle, At
<1> QED  BY <1>3, <1>4, <1>5, <1>6, <1>7, <1>8, <1>9 DEF IInv

\* close() of Java goes on to the listener, that of Objective-C returns.
LEMMA AfterCloseCall ==
    ASSUME IInv, NEW t \in Threads, AfterClose(t)
    PROVE  /\ call' \in [Threads -> Calls]
           /\ call' = [call EXCEPT ![t] = IF binding = "java" THEN At(call[t], "deleteListener") ELSE Idle]
BY CallGoes, CallReturns DEF IInv, Typed, AfterClose, Stages

\* The closed flag is set, by the first Close only.
LEMMA CloseOnceStep ==
    ASSUME IInv, Defined, NEW t \in Threads, CloseOnce(t)
    PROVE  IInv'
<1> USE LifetimeAssumption, ObjectsDiffer
<1> DEFINE i == call[t].on
           d == IF ~closed[i] THEN At(call[t], "closing")
                ELSE IF binding = "java" THEN At(call[t], "deleteListener") ELSE Idle
<1>1. i \in Transports /\ call[t].op = "Close" /\ call[t].at = "entered"
  BY DEF IInv, Shapes, Shape, CloseOnce
<1>2. call' \in [Threads -> Calls] /\ call' = [call EXCEPT ![t] = d]
  BY AfterCloseCall, CallGoes DEF IInv, Typed, CloseOnce, Stages
<1>3. /\ closed' = [closed EXCEPT ![i] = TRUE]
      /\ UNCHANGED <<binding, handle, alive, pc, changes, callback, broken>>
  BY DEF CloseOnce
<1>4. handle[i] \in {"native", "zero"} /\ (handle[i] = "zero" => "callAfterClose" \in broken)
  BY <1>1 DEF IInv, Typed, Handles, NotCreated, Failed, Zero, Gone
<1>5. binding = "java" /\ "callAfterClose" \notin broken => ~closed[i]
  BY <1>1, <1>4 DEF IInv, Typed, ClosedOnce, Exclusive, Alone
<1>6. Typed'
  BY <1>1, <1>2, <1>3, <1>4, <1>5 DEF IInv, Typed
<1>7. Shapes'
  BY <1>1, <1>2, <1>3, <1>4, <1>5 DEF IInv, Typed, Shapes, Shape, Idle, At
<1>8. Exclusive'
  BY <1>1, <1>2, <1>3, <1>4, <1>5 DEF IInv, Typed, Exclusive, Alone, Idle, At
<1>9. Handles'
  BY <1>1, <1>2, <1>3, <1>4, <1>5 DEF IInv, Typed, Handles, NotCreated, Failed, Live, Zero, Gone, Idle, At
<1>10. ClosedOnce'
  BY <1>1, <1>2, <1>3, <1>4, <1>5 DEF IInv, Typed, ClosedOnce, Idle, At
<1>11. CallbackLives'
  BY <1>1, <1>2, <1>3, <1>4, <1>5 DEF IInv, Typed, CallbackLives
<1>12. DeviceLives'
  BY <1>1, <1>2, <1>3, <1>4, <1>5 DEF IInv, Typed, DeviceLives, Idle, At
<1> QED  BY <1>6, <1>7, <1>8, <1>9, <1>10, <1>11, <1>12 DEF IInv

\* The peer connection is closed.
LEMMA ClosePcStep ==
    ASSUME IInv, Defined, NEW t \in Threads, ClosePc(t)
    PROVE  IInv'
<1> USE LifetimeAssumption, ObjectsDiffer
<1> DEFINE i == call[t].on
           d == IF binding = "java" THEN At(call[t], "deleteListener") ELSE Idle
<1>1. i \in Transports /\ call[t].op = "Close" /\ call[t].at = "closing" /\ callback = NoTransport
  BY DEF IInv, Typed, Calls, Ops, Shapes, Shape, ClosePc
<1>2. call' \in [Threads -> Calls] /\ call' = [call EXCEPT ![t] = d]
  BY AfterCloseCall DEF ClosePc
<1>3. /\ pc' = [pc EXCEPT ![i] = "closed"]
      /\ UNCHANGED <<binding, handle, alive, closed, changes, callback, broken>>
  BY DEF ClosePc
<1>4. handle[i] = "native"
  BY <1>1 DEF IInv, Typed, Handles, NotCreated, Failed, Zero, Gone, Defined, CallFinds, Reads
<1>5. Typed'
  BY <1>1, <1>2, <1>3, <1>4 DEF IInv, Typed
<1>6. Shapes'
  BY <1>1, <1>2, <1>3, <1>4 DEF IInv, Typed, Shapes, Shape, Idle, At
<1>7. Exclusive'
  BY <1>1, <1>2, <1>3, <1>4 DEF IInv, Typed, Exclusive, Alone, Idle, At
<1>8. Handles'
  BY <1>1, <1>2, <1>3, <1>4 DEF IInv, Typed, Handles, NotCreated, Failed, Live, Zero, Gone, Idle, At
<1>9. ClosedOnce'
  BY <1>1, <1>2, <1>3, <1>4 DEF IInv, Typed, ClosedOnce, Idle, At
<1>10. CallbackLives'
  BY <1>1, <1>2, <1>3, <1>4 DEF IInv, Typed, CallbackLives
<1>11. DeviceLives'
  BY <1>1, <1>2, <1>3, <1>4 DEF IInv, Typed, DeviceLives, Idle, At
<1> QED  BY <1>5, <1>6, <1>7, <1>8, <1>9, <1>10, <1>11 DEF IInv

\* The listener of a transport is deleted.
LEMMA DeleteListenerStep ==
    ASSUME IInv, Defined, NEW t \in Threads, DeleteListener(t)
    PROVE  IInv'
<1> USE LifetimeAssumption, ObjectsDiffer
<1> DEFINE i == call[t].on
<1>1. /\ i \in Transports /\ call[t].op = "Close" /\ call[t].at = "deleteListener"
      /\ binding = "java"
  BY DEF IInv, Typed, Calls, Ops, Shapes, Shape, DeleteListener
<1>2. call' \in [Threads -> Calls] /\ call' = [call EXCEPT ![t] = At(call[t], "deleting")]
  BY CallGoes DEF IInv, Typed, DeleteListener, Stages
<1>3. /\ alive' = alive \ {Listener(i)}
      /\ UNCHANGED <<binding, handle, pc, closed, changes, callback, broken>>
  BY DEF DeleteListener
<1>4. handle[i] = "native" /\ Listener(i) \in alive
  <2>1. TransportObject(i) \in alive /\ Listener(i) \in alive
    BY <1>1 DEF Defined, CallFinds, Reads
  <2> QED  BY <1>1, <2>1 DEF IInv, Typed, Handles, NotCreated, Failed, Zero, Gone
<1>5. Typed'
  BY <1>1, <1>2, <1>3, <1>4 DEF IInv, Typed
<1>6. Shapes'
  BY <1>1, <1>2, <1>3, <1>4 DEF IInv, Typed, Shapes, Shape, Idle, At
<1>7. Exclusive'
  BY <1>1, <1>2, <1>3, <1>4 DEF IInv, Typed, Exclusive, Alone, Idle, At
<1>8. Handles'
  BY <1>1, <1>2, <1>3, <1>4 DEF IInv, Typed, Handles, NotCreated, Failed, Live, Zero, Gone, Idle, At
<1>9. ClosedOnce'
  BY <1>1, <1>2, <1>3, <1>4 DEF IInv, Typed, ClosedOnce, Idle, At
<1>10. CallbackLives'
  BY <1>1, <1>2, <1>3, <1>4 DEF IInv, Typed, CallbackLives
<1>11. DeviceLives'
  BY <1>1, <1>2, <1>3, <1>4 DEF IInv, Typed, DeviceLives, Idle, At
<1> QED  BY <1>5, <1>6, <1>7, <1>8, <1>9, <1>10, <1>11 DEF IInv

\* The transport itself is deleted.
LEMMA DeleteTransportStep ==
    ASSUME IInv, Defined, NEW t \in Threads, DeleteTransport(t)
    PROVE  IInv'
<1> USE LifetimeAssumption, ObjectsDiffer
<1> DEFINE i == call[t].on
<1>1. /\ i \in Transports /\ call[t].at = "deleting" /\ callback = NoTransport
      /\ \/ call[t].op = "Close" /\ binding = "java"
         \/ call[t].op = "Dealloc" /\ binding = "objc"
  BY DEF IInv, Typed, Calls, Ops, Shapes, Shape, DeleteTransport
<1>2. call' \in [Threads -> Calls] /\ call' = [call EXCEPT ![t] = Idle]
  BY CallReturns DEF IInv, Typed, DeleteTransport
<1>3. /\ alive' = alive \ {TransportObject(i)}
      /\ pc' = [pc EXCEPT ![i] = "none"]
      /\ handle' = [handle EXCEPT ![i] = IF binding = "java" THEN "zero" ELSE "gone"]
      /\ UNCHANGED <<binding, closed, changes, callback, broken>>
  BY DEF DeleteTransport
<1>4. handle[i] = "native"
  BY <1>1 DEF IInv, Typed, Handles, NotCreated, Failed, Zero, Gone, Defined, CallFinds, Reads
<1>5. Typed'
  BY <1>1, <1>2, <1>3, <1>4 DEF IInv, Typed
<1>6. Shapes'
  BY <1>1, <1>2, <1>3, <1>4 DEF IInv, Typed, Shapes, Shape, Idle, At
<1>7. Exclusive'
  BY <1>1, <1>2, <1>3, <1>4 DEF IInv, Typed, Exclusive, Alone, Idle, At
<1>8. Handles'
  BY <1>1, <1>2, <1>3, <1>4 DEF IInv, Typed, Handles, NotCreated, Failed, Live, Zero, Gone, Idle, At, Exclusive, Alone, Shapes, Shape, Calls, Ops
<1>9. ClosedOnce'
  BY <1>1, <1>2, <1>3, <1>4 DEF IInv, Typed, ClosedOnce, Idle, At
<1>10. CallbackLives'
  BY <1>1, <1>2, <1>3, <1>4 DEF IInv, Typed, CallbackLives
<1>11. DeviceLives'
  BY <1>1, <1>2, <1>3, <1>4 DEF IInv, Typed, DeviceLives, Idle, At
<1> QED  BY <1>5, <1>6, <1>7, <1>8, <1>9, <1>10, <1>11 DEF IInv

\* The owner of a transport lets it go.
LEMMA DeallocStep ==
    ASSUME IInv, Defined, NEW t \in Threads, NEW i \in Transports, Dealloc(t, i)
    PROVE  IInv'
<1> USE LifetimeAssumption, ObjectsDiffer
<1> DEFINE c == [op |-> "Dealloc", on |-> i, at |-> "deleting", native |-> TRUE]
<1>1. /\ call' \in [Threads -> Calls] /\ call' = [call EXCEPT ![t] = c]
      /\ call[t] = Idle
  BY DEF IInv, Typed, Calls, Stages, Dealloc, Ops, Free
<1>2. /\ UNCHANGED <<binding, handle, alive, pc, closed, changes, callback, broken>>
      /\ binding = "objc" /\ handle[i] = "native" /\ \A s \in Threads : call[s].on # i
  BY DEF Dealloc, CallsOn
<1>3. Typed'
  BY <1>1, <1>2 DEF IInv, Typed
<1>4. Shapes'
  BY <1>1, <1>2 DEF IInv, Typed, Shapes, Shape, Idle, At
<1>5. Exclusive'
  BY <1>1, <1>2 DEF IInv, Typed, Exclusive, Alone, Idle, At
<1>6. Handles'
  BY <1>1, <1>2 DEF IInv, Typed, Handles, NotCreated, Failed, Live, Zero, Gone, Idle, At
<1>7. ClosedOnce'
  BY <1>1, <1>2 DEF IInv, Typed, ClosedOnce, Idle, At
<1>8. CallbackLives'
  BY <1>1, <1>2 DEF IInv, Typed, CallbackLives
<1>9. DeviceLives'
  BY <1>1, <1>2 DEF IInv, Typed, DeviceLives, Idle, At
<1> QED  BY <1>3, <1>4, <1>5, <1>6, <1>7, <1>8, <1>9 DEF IInv

\* The device is disposed of.
LEMMA DisposeStep ==
    ASSUME IInv, Defined, NEW t \in Threads, Dispose(t)
    PROVE  IInv'
<1> USE LifetimeAssumption, ObjectsDiffer
<1> DEFINE c == [op |-> "Dispose", on |-> NoTransport, at |-> "entered", native |-> TRUE]
<1>1. /\ call' \in [Threads -> Calls] /\ call' = [call EXCEPT ![t] = c]
      /\ call[t] = Idle
  BY DEF IInv, Typed, Calls, Stages, Ops, Dispose, Enters, Free
<1>2. /\ UNCHANGED <<binding, handle, alive, pc, closed, changes, callback>>
      /\ broken \subseteq broken' /\ broken' \subseteq broken \cup {"deviceFirst"}
      /\ handle[Device] = "native"
      /\ \/ "deviceFirst" \in broken'
         \/ \A s \in Threads : call[s].op \notin {"Produce", "Create", "Dispose"}
  BY DEF Dispose, Breaks, Running
<1>3. Typed'
  BY <1>1, <1>2 DEF IInv, Typed
<1>4. Shapes'
  BY <1>1, <1>2 DEF IInv, Typed, Shapes, Shape, Idle, At
<1>5. Exclusive'
  BY <1>1, <1>2 DEF IInv, Typed, Exclusive, Alone, Idle, At
<1>6. Handles'
  BY <1>1, <1>2 DEF IInv, Typed, Handles, NotCreated, Failed, Live, Zero, Gone, Idle, At
<1>7. ClosedOnce'
  BY <1>1, <1>2 DEF IInv, Typed, ClosedOnce, Idle, At
<1>8. CallbackLives'
  BY <1>1, <1>2 DEF IInv, Typed, CallbackLives
<1>9. DeviceLives'
  BY <1>1, <1>2 DEF IInv, Typed, DeviceLives, Idle, At
<1> QED  BY <1>3, <1>4, <1>5, <1>6, <1>7, <1>8, <1>9 DEF IInv

\* The device is deleted.
LEMMA DeleteDeviceStep ==
    ASSUME IInv, Defined, NEW t \in Threads, DeleteDevice(t)
    PROVE  IInv'
<1> USE LifetimeAssumption, ObjectsDiffer
<1>1. call' \in [Threads -> Calls] /\ call' = [call EXCEPT ![t] = Idle]
  BY CallReturns DEF IInv, Typed, DeleteDevice
<1>2. /\ alive' = alive \ {DeviceObject}
      /\ handle' = [handle EXCEPT ![Device] = IF binding = "java" THEN "zero" ELSE "gone"]
      /\ UNCHANGED <<binding, pc, closed, changes, callback, broken>>
      /\ call[t].op = "Dispose" /\ call[t].on = NoTransport
  BY DEF DeleteDevice, IInv, Shapes, Shape
<1>3. Typed'
  BY <1>1, <1>2 DEF IInv, Typed
<1>4. Shapes'
  BY <1>1, <1>2 DEF IInv, Typed, Shapes, Shape, Idle, At
<1>5. Exclusive'
  BY <1>1, <1>2 DEF IInv, Typed, Exclusive, Alone, Idle, At
<1>6. Handles'
  BY <1>1, <1>2 DEF IInv, Typed, Handles, NotCreated, Failed, Live, Zero, Gone, Idle, At
<1>7. ClosedOnce'
  BY <1>1, <1>2 DEF IInv, Typed, ClosedOnce, Idle, At
<1>8. CallbackLives'
  BY <1>1, <1>2 DEF IInv, Typed, CallbackLives
<1>9. DeviceLives'
  BY <1>1, <1>2 DEF IInv, Typed, DeviceLives, Idle, At
<1> QED  BY <1>3, <1>4, <1>5, <1>6, <1>7, <1>8, <1>9 DEF IInv

\* The steps of the signaling thread.
LEMMA SignalingStep ==
    ASSUME IInv, Defined,
           CallbackReturns \/ \E i \in Transports : IceChanges(i) \/ OnConnectionStateChange(i)
    PROVE  IInv'
<1> USE LifetimeAssumption, ObjectsDiffer
<1>1. /\ UNCHANGED <<binding, handle, alive, pc, closed, call, broken>>
      /\ \/ callback' \in {callback, NoTransport}
         \/ callback' \in Transports /\ pc[callback'] = "open"
  BY DEF CallbackReturns, IceChanges, OnConnectionStateChange
<1>2. changes' \in [Transports -> 0..MaxChanges]
  BY DEF CallbackReturns, IceChanges, OnConnectionStateChange, IInv, Typed
<1>3. Typed'
  BY <1>1, <1>2 DEF IInv, Typed
<1>4. Shapes'
  BY <1>1, <1>2 DEF IInv, Typed, Shapes, Shape, Idle, At
<1>5. Exclusive'
  BY <1>1, <1>2 DEF IInv, Typed, Exclusive, Alone, Idle, At
<1>6. Handles'
  BY <1>1, <1>2 DEF IInv, Typed, Handles, NotCreated, Failed, Live, Zero, Gone, Idle, At
<1>7. ClosedOnce'
  BY <1>1, <1>2 DEF IInv, Typed, ClosedOnce, Idle, At, Shapes, Shape
<1>8. CallbackLives'
  BY <1>1, <1>2 DEF IInv, Typed, CallbackLives, Handles, NotCreated, Failed, Zero, Gone
<1>9. DeviceLives'
  BY <1>1, <1>2 DEF IInv, Typed, DeviceLives, Idle, At
<1> QED  BY <1>3, <1>4, <1>5, <1>6, <1>7, <1>8, <1>9 DEF IInv

-----------------------------------------------------------------------------
(***************************************************************************)
(* The theorems.                                                           *)
(***************************************************************************)
LEMMA Inductive ==
    IInv /\ [Next]_vars => IInv'
<1> SUFFICES ASSUME IInv, [Next]_vars
    PROVE  IInv'
  OBVIOUS
<1>1. CASE Next
  <2>1. Defined
    BY <1>1 DEF Next
  <2> QED
    BY <1>1, <2>1, CreateTransportStep, CloseStep, DeallocStep, BeginStep, CreateEndsStep,
       CheckWorkReturnStep, CloseOnceStep, ClosePcStep, DeleteListenerStep, DeleteTransportStep,
       DisposeStep, DeleteDeviceStep, SignalingStep DEF Next
<1>2. CASE UNCHANGED vars
  BY <1>2 DEF vars, IInv, Typed, Shapes, Shape, Exclusive, Alone, Handles, NotCreated, Failed, Live,
     Zero, Gone, ClosedOnce, CallbackLives, DeviceLives
<1> QED  BY <1>1, <1>2

\* The invariant holds before the first call.
LEMMA Initial == Init => IInv
<1> SUFFICES ASSUME Init
    PROVE  IInv
  OBVIOUS
<1> USE LifetimeAssumption, ObjectsDiffer DEF Init
<1>1. Typed
  BY DEF Typed, Calls, Idle
<1>2. Shapes /\ Exclusive /\ ClosedOnce /\ CallbackLives /\ DeviceLives
  BY DEF Shapes, Shape, Exclusive, ClosedOnce, CallbackLives, DeviceLives, Idle
<1>3. Handles
  BY DEF Handles, NotCreated, Failed, Live, Zero, Gone, Idle
<1> QED  BY <1>1, <1>2, <1>3 DEF IInv

\* Whatever the application does, rules kept or not, until something undefined
\* happens: the calls, handles and native objects stay as the invariant says.
THEOREM Invariance == Spec => []IInv
BY Initial, Inductive, PTL DEF Spec

\* The types, and that a peer connection never outlives its transport.
THEOREM TypeCorrect == Spec => []TypeOK
<1>1. IInv => TypeOK
  <2> SUFFICES ASSUME IInv
      PROVE  TypeOK
    OBVIOUS
  <2>1. \A t \in Threads :
          /\ call[t].op \in Ops \cup {"none"}
          /\ call[t].on \in Transports \cup {NoTransport}
          /\ call[t].at \in Stages \cup {"end", "aborted"}
    BY DEF IInv, Typed, Calls
  <2>2. \A i \in Transports : pc[i] # "none" => TransportObject(i) \in alive
    BY DEF IInv, Typed, Handles, NotCreated, Failed, Live, Zero, Gone
  <2> QED  BY <2>1, <2>2 DEF IInv, Typed, TypeOK
<1> QED  BY <1>1, Invariance, PTL

\* A callback of libwebrtc never meets a deleted transport or listener: in
\* Objective-C whatever the application does, in Java (TransportJni, the
\* close() of java/Transport) if it keeps off a transport that is being closed.
THEOREM CallbackAlwaysHasItsObjects == Spec => []CallbackHasItsObjects
<1>1. IInv => CallbackHasItsObjects
  <2> SUFFICES ASSUME IInv, "callAfterClose" \notin broken, callback # NoTransport
      PROVE  {TransportObject(callback), Listener(callback)} \subseteq alive
    BY DEF CallbackHasItsObjects, CallbackFinds
  <2>1. callback \in Transports /\ handle[callback] = "native"
    BY DEF IInv, Typed, CallbackLives
  <2>2. TransportObject(callback) \in alive
    BY <2>1 DEF IInv, Handles, Live
  <2>3. Listener(callback) \in alive
    BY <2>1 DEF IInv, Handles, Live, ClosedOnce, Shapes, Shape
  <2> QED  BY <2>2, <2>3
<1> QED  BY <1>1, Invariance, PTL

\* A call finds what it reads: the two rules of the application are enough,
\* each for its own part, with any number of threads that close, call and
\* deallocate at the same time.
THEOREM CallAlwaysHasItsObjects == Spec => []CallHasItsObjects
<1>1. IInv => CallHasItsObjects
  <2> SUFFICES ASSUME IInv, NEW t \in Threads, "callAfterClose" \notin broken,
                      ~("deviceFirst" \in broken /\ call[t].op \in {"Produce", "Create", "Dispose"})
      PROVE  CallFinds(call[t])
    BY DEF CallHasItsObjects
  <2> DEFINE c == call[t]
  <2>1. c \in Calls /\ Shape(c)
    BY DEF IInv, Typed, Shapes
  <2>2. CASE c.op \in {"Create", "Dispose"}
    BY <2>1, <2>2 DEF IInv, DeviceLives, CallFinds, Reads, Shape
  <2>3. CASE c.op \notin {"none", "Create", "Dispose"} /\ c.at # "aborted"
    <3>1. c.on \in Transports /\ c.native
      BY <2>1, <2>3 DEF Shape, Calls, Ops
    <3>2. handle[c.on] = "native"
      BY <2>3, <3>1 DEF IInv, Typed, Handles, NotCreated, Failed, Zero, Gone
    <3>3. TransportObject(c.on) \in alive
      BY <3>1, <3>2 DEF IInv, Handles, Live
    <3>4. c.op = "Produce" => DeviceObject \in alive
      BY <2>3 DEF IInv, DeviceLives
    <3>5. c.at = "deleteListener" => Listener(c.on) \in alive
      <4>1. c.at = "deleteListener" => c.op = "Close" /\ binding = "java"
        BY <2>1, <2>3 DEF Shape, Calls, Ops
      <4> QED  BY <3>1, <3>2, <4>1 DEF IInv, Handles, Live, Exclusive, Alone
    <3> QED  BY <2>3, <3>1, <3>3, <3>4, <3>5 DEF CallFinds, Reads
  <2>4. CASE c.op = "none" \/ c.at = "aborted"
    BY <2>4 DEF CallFinds, Reads
  <2> QED  BY <2>2, <2>3, <2>4
<1> QED  BY <1>1, Invariance, PTL

\* Nothing but listeners is ever left behind, and those exactly where
\* transportNativeFreeTransport of Java has no counterpart.
THEOREM OnlyListenersEverLeak == Spec => []OnlyListenersLeak
<1>1. IInv => OnlyListenersLeak
  BY DEF IInv, Typed, Handles, NotCreated, Failed, Zero, Gone, OnlyListenersLeak, CallsOn
<1> QED  BY <1>1, Invariance, PTL
=============================================================================
