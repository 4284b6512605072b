------------------------------- MODULE Calls --------------------------------
(***************************************************************************)
(* The threads of one transport: who waits for whom.  Application threads  *)
(* call the transport (src/Transport.cpp) and run the whole handler; each  *)
(* use of the libwebrtc object is executed on the signaling thread, while  *)
(* the caller waits; CreateOffer and the like (src/PeerConnection.cpp)     *)
(* wait once more, for a promise that an observer fulfils on the signaling *)
(* thread; SetupTransport waits for the future that the application's      *)
(* OnConnect returned.  The signaling thread runs the application's        *)
(* OnConnectionStateChange, in which the application may call the          *)
(* transport again.  No class takes a lock.                                *)
(*                                                                         *)
(* What the calls do to the descriptions is in SendHandler and             *)
(* RecvHandler; here a call is the sequence of its waits, and any request  *)
(* may fail.  The consumer for probation is left out: it is one more       *)
(* Receive by the same thread.                                             *)
(***************************************************************************)
EXTENDS Naturals, Sequences

CONSTANTS
    AppThreads,
    Signaling,       \* libwebrtc's signaling thread
    MayCall,         \* per thread, the operations that the application calls
                     \* on it: on Signaling, from OnConnectionStateChange
    MaxChanges       \* bound: changes of the ICE state waiting in the queue

Threads == AppThreads \cup {Signaling}

Ops == {"Produce", "ProduceData", "CloseProducer", "Consume", "ConsumeData",
        "CloseConsumer", "RestartIce", "GetStats", "Close"}

ASSUME CallsAssumption ==
    /\ Signaling \notin AppThreads
    /\ "nobody" \notin Threads
    /\ MayCall \in [Threads -> SUBSET Ops]
    /\ MaxChanges \in Nat

VARIABLES
    sending,            \* a SendTransport; otherwise a RecvTransport
    closed,             \* Transport::closed
    pcClosed,           \* the libwebrtc object is closed
    transportReady,
    connectionState,    \* Transport::connectionState, abridged
    queue,              \* messages of the signaling thread
    callback,           \* OnConnectionStateChange runs: no, entered, called
    frame,              \* per thread, the call that it is in
    closedBy            \* history: the thread whose Close has closed the
                        \* handler and returned

vars == <<sending, closed, pcClosed, transportReady, connectionState, queue,
          callback, frame, closedBy>>

-----------------------------------------------------------------------------
(* A call is the steps it has left.  "add" creates a transceiver or a data *)
(* channel, which fails on a closed connection, "read" is any use of it    *)
(* that does not, "request" one that waits for an observer, and "ready"    *)
(* the return of RestartIce from a transport that was never set up.        *)

Send == <<"add", "request", "connect", "request", "read", "request">>
SendDataChannel == <<"add", "request", "connect", "request", "request">>
StopSending == <<"read", "request", "request", "read", "request">>
Receive == <<"request", "request", "connect", "request", "read">>
ReceiveDataChannel == <<"add", "request", "request", "connect", "request">>
StopReceiving == <<"read", "request", "request", "request">>

HandlerRestartIce ==
    IF sending THEN <<"ready", "request", "request", "read", "request">>
    ELSE <<"ready", "request", "request", "request">>

\* The first data channel negotiates its section, later ones are only added.
Programs ==
    {<<"RestartIce", HandlerRestartIce>>, <<"GetStats", <<"request">>>>, <<"Close", <<"close">>>>}
    \cup IF sending
         THEN {<<"Produce", Send>>, <<"CloseProducer", StopSending>>,
               <<"ProduceData", SendDataChannel>>, <<"ProduceData", <<"add">>>>}
         ELSE {<<"Consume", Receive>>, <<"CloseConsumer", StopReceiving>>,
               <<"ConsumeData", ReceiveDataChannel>>, <<"ConsumeData", <<"add">>>>}

Idle == [op |-> "none", steps |-> <<>>, waits |-> "no"]

InCall(t) == frame[t] # Idle

Step(t) == Head(frame[t].steps)

\* The thread is about to take this step.
At(t, steps) == InCall(t) /\ frame[t].waits = "no" /\ Step(t) \in steps

After(f, steps) == IF steps = <<>> THEN Idle ELSE [op |-> f.op, steps |-> steps, waits |-> "no"]

Advanced(f) == After(f, Tail(f.steps))

\* The catch block of Send uses the transceiver; it covers the steps from
\* CreateOffer to SetLocalDescription.
Thrown(f) ==
    After(f, IF f.op = "Produce" /\ Len(f.steps) \in 3..5 THEN <<"read">> ELSE <<>>)

Init ==
    /\ sending \in BOOLEAN
    /\ closed = FALSE
    /\ pcClosed = FALSE
    /\ transportReady = FALSE
    /\ connectionState = "new"
    /\ queue = <<>>
    /\ callback = "no"
    /\ frame = [t \in Threads |-> Idle]
    /\ closedBy = "nobody"

-----------------------------------------------------------------------------
(* The calling thread.                                                     *)

\* Every call but ProduceData checks `closed' first, and Close sets it.
Begin(t) ==
    /\ ~InCall(t)
    /\ \E program \in Programs :
         LET op == program[1]
         IN  /\ op \in MayCall[t]
             /\ ~closed \/ op = "ProduceData"
             /\ frame' = [frame EXCEPT ![t] = [op |-> op, steps |-> program[2], waits |-> "no"]]
             /\ closed' = (closed \/ op = "Close")
    /\ UNCHANGED <<sending, pcClosed, transportReady, connectionState, queue, closedBy>>

AppCalls(t) ==
    /\ t \in AppThreads
    /\ Begin(t)
    /\ UNCHANGED callback

CallbackCalls ==
    /\ callback = "entered"
    /\ Begin(Signaling)
    /\ callback' = "called"

Ready(t) ==
    /\ At(t, {"ready"})
    /\ frame' = [frame EXCEPT ![t] = IF transportReady THEN Advanced(@) ELSE Idle]
    /\ UNCHANGED <<sending, closed, pcClosed, transportReady, connectionState, queue,
                   callback, closedBy>>

\* SetupTransport, and OnConnect up to its future.
Connect(t) ==
    /\ At(t, {"connect"})
    /\ frame' = [frame EXCEPT ![t] =
                   IF transportReady THEN Advanced(@)
                   ELSE IF closed THEN Thrown(@)
                   ELSE [@ EXCEPT !.waits = "future"]]
    /\ UNCHANGED <<sending, closed, pcClosed, transportReady, connectionState, queue,
                   callback, closedBy>>

OnConnectResolves(t) ==
    /\ frame[t].waits = "future"
    /\ transportReady' = TRUE
    /\ frame' = [frame EXCEPT ![t] = Advanced(@)]
    /\ UNCHANGED <<sending, closed, pcClosed, connectionState, queue, callback, closedBy>>

OnConnectRejects(t) ==
    /\ frame[t].waits = "future"
    /\ frame' = [frame EXCEPT ![t] = Thrown(@)]
    /\ UNCHANGED <<sending, closed, pcClosed, transportReady, connectionState, queue,
                   callback, closedBy>>

-----------------------------------------------------------------------------
(* What the signaling thread does for thread t; `rest' is its queue then.  *)

Use(t, rest) ==
    /\ Step(t) \in {"add", "read"}
    /\ frame' = [frame EXCEPT ![t] =
                   IF Step(t) = "add" /\ pcClosed THEN Thrown(@) ELSE Advanced(@)]
    /\ queue' = rest
    /\ UNCHANGED <<pcClosed, connectionState, closedBy>>

\* The observer is notified by a message, not by the request itself.
Request(t, rest) ==
    /\ Step(t) = "request"
    /\ frame' = [frame EXCEPT ![t].waits = "promise"]
    /\ \E ok \in IF pcClosed THEN {FALSE} ELSE BOOLEAN :
         queue' = Append(rest, [type |-> "reply", thread |-> t, ok |-> ok])
    /\ UNCHANGED <<pcClosed, connectionState, closedBy>>

\* The last change of the ICE state is notified before Close returns; calls
\* that the application makes then find the transport closed.
ClosePc(t, rest) ==
    /\ Step(t) = "close"
    /\ pcClosed' = TRUE
    /\ connectionState' = "closed"
    /\ closedBy' = t
    /\ frame' = [frame EXCEPT ![t] = Advanced(@)]
    /\ queue' = rest

Execute(t, rest) == Use(t, rest) \/ Request(t, rest) \/ ClosePc(t, rest)

\* Fault: Close does not wait for the signaling thread.
PostCloseAndReturn(t) ==
    /\ t # Signaling
    /\ At(t, {"add", "read", "request", "close"})
    /\ queue' = Append(queue, [type |-> "run", thread |-> t])
    /\ frame' = [frame EXCEPT ![t].waits = "turn"]
    /\ closedBy' = IF Step(t) = "close" THEN t ELSE closedBy
    /\ UNCHANGED <<sending, closed, pcClosed, transportReady, connectionState, callback>>

\* From any other thread it is a message, and the thread waits for its turn.
Post(t) ==
    /\ t # Signaling
    /\ At(t, {"add", "read", "request", "close"})
    /\ queue' = Append(queue, [type |-> "run", thread |-> t])
    /\ frame' = [frame EXCEPT ![t].waits = "turn"]
    /\ UNCHANGED <<sending, closed, pcClosed, transportReady, connectionState, callback,
                   closedBy>>

\* Fault: Close lets the calls in progress come to their end first.
DirectJoins ==
    /\ At(Signaling, {"add", "read", "request", "close"})
    /\ Step(Signaling) = "close" => \A t \in AppThreads : ~InCall(t)
    /\ Execute(Signaling, queue)
    /\ UNCHANGED <<sending, closed, transportReady, callback>>

Direct ==
    /\ At(Signaling, {"add", "read", "request", "close"})
    /\ Execute(Signaling, queue)
    /\ UNCHANGED <<sending, closed, transportReady, callback>>

-----------------------------------------------------------------------------
(* The signaling thread's loop.                                            *)

RunsMessage(m) ==
    /\ m.type = "run"
    /\ Execute(m.thread, Tail(queue))
    /\ UNCHANGED callback

\* An observer keeps or breaks its promise.
Reply(m) ==
    /\ m.type = "reply"
    /\ frame' = [frame EXCEPT ![m.thread] = IF m.ok THEN Advanced(@) ELSE Thrown(@)]
    /\ queue' = Tail(queue)
    /\ UNCHANGED <<pcClosed, connectionState, callback, closedBy>>

\* OnIceConnectionChange; a closed connection reports no change any more.
OnConnectionStateChange(m) ==
    /\ m.type = "change"
    /\ IF pcClosed THEN UNCHANGED <<connectionState, callback>>
       ELSE connectionState' = "changed" /\ callback' = "entered"
    /\ queue' = Tail(queue)
    /\ UNCHANGED <<pcClosed, frame, closedBy>>

Deliver ==
    /\ callback = "no"
    /\ queue # <<>>
    /\ LET m == Head(queue)
       IN  RunsMessage(m) \/ Reply(m) \/ OnConnectionStateChange(m)
    /\ UNCHANGED <<sending, closed, transportReady>>

\* Fault: the listener is notified, and not waited for.
CallbackReturnsEarly ==
    /\ callback # "no"
    /\ callback' = "no"
    /\ UNCHANGED <<sending, closed, pcClosed, transportReady, connectionState, queue,
                   frame, closedBy>>

CallbackReturns ==
    /\ callback # "no"
    /\ ~InCall(Signaling)
    /\ callback' = "no"
    /\ UNCHANGED <<sending, closed, pcClosed, transportReady, connectionState, queue,
                   frame, closedBy>>

Changes == SelectSeq(queue, LAMBDA m : m.type = "change")

\* The network thread reports a change of the ICE state.
IceChanges ==
    /\ ~pcClosed
    /\ Len(Changes) < MaxChanges
    /\ queue' = Append(queue, [type |-> "change"])
    /\ UNCHANGED <<sending, closed, pcClosed, transportReady, connectionState, callback,
                   frame, closedBy>>

\* Fault, and a repair: a wait for an observer ends after a while.
TimesOut(t) ==
    /\ frame[t].waits = "promise"
    /\ frame' = [frame EXCEPT ![t] = Thrown(@)]
    /\ queue' = SelectSeq(queue, LAMBDA m : m.type # "reply" \/ m.thread # t)
    /\ UNCHANGED <<sending, closed, pcClosed, transportReady, connectionState, callback,
                   closedBy>>

ThreadRunsOrTimesOut(t) == Ready(t) \/ Connect(t) \/ Post(t) \/ TimesOut(t)

ThreadRuns(t) == Ready(t) \/ Connect(t) \/ Post(t)

AppAnswers(t) == OnConnectResolves(t) \/ OnConnectRejects(t)

Next ==
    \/ \E t \in Threads : AppCalls(t) \/ ThreadRuns(t) \/ AppAnswers(t)
    \/ CallbackCalls \/ Direct \/ Deliver \/ CallbackReturns \/ IceChanges

\* Threads are scheduled, the signaling thread takes its messages in order,
\* and the application does what the listener asks of it: it returns from its
\* callbacks and, be the transport closed or not, answers OnConnect.  Nobody
\* has to call, and the ICE state has not to change.
Fairness ==
    /\ \A t \in Threads : WF_vars(ThreadRuns(t)) /\ WF_vars(AppAnswers(t))
    /\ WF_vars(Direct) /\ WF_vars(Deliver) /\ WF_vars(CallbackReturns)

Spec == Init /\ [][Next]_vars /\ Fairness

-----------------------------------------------------------------------------
(* Properties                                                              *)

TypeOK ==
    /\ sending \in BOOLEAN /\ closed \in BOOLEAN /\ pcClosed \in BOOLEAN
    /\ transportReady \in BOOLEAN
    /\ connectionState \in {"new", "changed", "closed"}
    /\ callback \in {"no", "entered", "called"}
    /\ \A t \in Threads :
         /\ frame[t].op \in Ops \cup {"none"}
         /\ frame[t].waits \in {"no", "turn", "promise", "future"}
         /\ InCall(t) <=> frame[t].steps # <<>>
    /\ closedBy \in Threads \cup {"nobody"}
    /\ InCall(Signaling) => callback = "called"

\* The signaling thread waits for a promise that only it can fulfil.
WaitsForItself == frame[Signaling].waits = "promise"

\* Every call returns, however calls, Close, callbacks and failures of two
\* threads and the signaling thread interleave, with one exception: a call
\* from a callback that has to wait for an observer.
EveryCallReturns ==
    \A t \in Threads : InCall(t) ~> (~InCall(t) \/ WaitsForItself)

\* That exception is final: nothing ends the wait, Close of another thread
\* neither, which waits as well from then on, like every call to come.
NothingEndsSelfWait ==
    [][WaitsForItself =>
         /\ WaitsForItself'
         /\ \A t \in AppThreads : frame[t].waits \in {"turn", "promise"} =>
                                    frame'[t] = frame[t]]_vars

\* When the Close that closes the handler returns to an application thread,
\* the listener's OnConnectionStateChange neither runs nor will run, and the
\* state is final: the listener may be deleted, as nativeClose of the Android
\* binding does.
QuietAfterClose ==
    closedBy \in AppThreads => callback = "no" /\ connectionState = "closed"
=============================================================================
