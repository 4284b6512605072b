------------------------------ MODULE Lifetime ------------------------------
(***************************************************************************)
(* Who deletes what in the Java binding (java, jni) and the Objective-C    *)
(* binding (objc).  A wrapper holds a raw pointer to a native object; a    *)
(* native transport holds one to its listener, and two into the device.    *)
(* Java deletes listener and transport in close(), and the device in       *)
(* dispose(); Objective-C deletes transport and device in dealloc, and the *)
(* listener never.  All transports have the factory of the application,    *)
(* and so one signaling thread, which runs the callbacks of all of them.   *)
(* In both bindings the callbacks only log, and OnConnect is answered at   *)
(* once.                                                                   *)
(*                                                                         *)
(* The application may call what it likes, in any order, on any thread;    *)
(* `broken' collects the rules it has broken, so that properties can say   *)
(* which rules are enough.  A use of a deleted object is undefined: no     *)
(* step follows it.                                                        *)
(***************************************************************************)
EXTENDS Naturals

CONSTANTS
    Transports,
    Threads,         \* application threads
    Device,          \* the device, and its wrapper
    NoTransport,
    MaxChanges       \* bound: ICE changes of one transport that wait

ASSUME LifetimeAssumption ==
    /\ Device \notin Transports
    /\ NoTransport \notin Transports
    /\ MaxChanges \in Nat

VARIABLES
    binding,         \* "java" or "objc"
    handle,          \* per wrapper: none, native, zero (Java), gone, failed
    alive,           \* native objects: <<"device">>, <<"transport", i>>, ...
    pc,              \* the libwebrtc object: none, open, closed
    closed,          \* Transport::closed
    changes,         \* ICE changes waiting for the signaling thread
    callback,        \* the transport whose OnConnectionStateChange runs
    call,            \* per thread, the call that it is in
    broken           \* history: the rules that the application has broken

vars == <<binding, handle, alive, pc, closed, changes, callback, call, broken>>

DeviceObject == <<"device", Device>>
TransportObject(i) == <<"transport", i>>
Listener(i) == <<"listener", i>>

\* Produce and Consume read the device; of the other methods those of Use
\* work with the peer connection, and those of Ask do not.
Ops == {"Produce", "Use", "Ask", "Close", "Dealloc", "Create", "Dispose"}

Idle == [op |-> "none", on |-> NoTransport, at |-> "end", native |-> FALSE]

Stages == {"entered", "checked", "working", "closing", "deleteListener", "deleting"}

CallsOn(i) == {t \in Threads : call[t].on = i}

Running(ops) == {t \in Threads : call[t].op \in ops}

\* The application has a wrapper to call; an Objective-C object that is being
\* deallocated has no reference left.
Has(i) == handle[i] \in {"native", "zero"} /\ \A t \in CallsOn(i) : call[t].op # "Dealloc"

\* The application may start a call of thread t.
Free(t) == call[t] = Idle

Enters(t, op, i, native) ==
    call' = [call EXCEPT ![t] = [op |-> op, on |-> i, at |-> "entered", native |-> native]]

Goes(t, stage) == call' = [call EXCEPT ![t].at = stage]

Returns(t) == call' = [call EXCEPT ![t] = Idle]

\* No function of the Java binding catches what a C++ call throws, and the
\* process ends; in Objective-C the application may catch it.
Throws(t) == IF binding = "java" THEN Goes(t, "aborted") ELSE Returns(t)

Breaks(rule, condition) == broken' = broken \cup IF condition THEN {rule} ELSE {}

Init ==
    /\ binding \in {"java", "objc"}
    /\ handle = [w \in Transports \cup {Device} |-> IF w = Device THEN "native" ELSE "none"]
    /\ alive = {DeviceObject}
    /\ pc = [i \in Transports |-> "none"]
    /\ closed = [i \in Transports |-> FALSE]
    /\ changes = [i \in Transports |-> 0]
    /\ callback = NoTransport
    /\ call = [t \in Threads |-> Idle]
    /\ broken = {}

-----------------------------------------------------------------------------
(* Creation.                                                               *)

\* The listener comes first, and is not deleted if the device throws.  The
\* device's other methods, which create nothing, are left out.
CreateTransport(t, i) ==
    /\ Free(t)
    /\ handle[i] = "none" /\ CallsOn(i) = {}
    /\ binding = "objc" => handle[Device] = "native" /\ Running({"Dispose"}) = {}
    /\ Enters(t, "Create", i, handle[Device] = "native")
    /\ alive' = alive \cup {Listener(i)}
    /\ Breaks("deviceFirst", handle[Device] # "native" \/ Running({"Dispose"}) # {})
    /\ UNCHANGED <<binding, handle, pc, closed, changes, callback>>

CreateEnds(t) ==
    LET i == call[t].on
    IN  /\ call[t].op = "Create" /\ call[t].at = "entered"
        /\ \/ /\ callback = NoTransport
              /\ alive' = alive \cup {TransportObject(i)}
              /\ pc' = [pc EXCEPT ![i] = "open"]
              /\ handle' = [handle EXCEPT ![i] = "native"]
              /\ Returns(t)
           \/ /\ handle' = [handle EXCEPT ![i] = "failed"]
              /\ Throws(t)
              /\ UNCHANGED <<alive, pc>>
        /\ UNCHANGED <<binding, closed, changes, callback, broken>>

-----------------------------------------------------------------------------
(* Calls of a transport's methods.                                         *)

\* Java hands over the pointer, or the 0 that close() has left.
Begin(t, op, i) ==
    /\ Free(t)
    /\ op \in {"Produce", "Use", "Ask"}
    /\ Has(i)
    /\ Enters(t, op, i, handle[i] = "native")
    /\ broken' = broken
         \cup (IF binding = "java"
                  /\ (handle[i] = "zero" \/ \E s \in CallsOn(i) : call[s].op = "Close")
               THEN {"callAfterClose"} ELSE {})
         \cup (IF op = "Produce" /\ (handle[Device] # "native" \/ Running({"Dispose"}) # {})
               THEN {"deviceFirst"} ELSE {})
    /\ UNCHANGED <<binding, handle, alive, pc, closed, changes, callback>>

\* `closed' is looked at first: most methods throw then, CloseProducer and
\* CloseConsumer do nothing, and ReplaceTrack and SetMaxSpatialLayer go on.
Check(t) ==
    /\ call[t].at = "entered"
    /\ \/ call[t].op = "Ask" /\ Returns(t)
       \/ call[t].op \in {"Produce", "Use"} /\ closed[call[t].on] /\ Throws(t)
       \/ call[t].op = "Use" /\ closed[call[t].on] /\ Returns(t)
       \/ call[t].op = "Use" /\ Goes(t, "checked")
       \/ call[t].op = "Produce" /\ ~closed[call[t].on] /\ Goes(t, "checked")
    /\ UNCHANGED <<binding, handle, alive, pc, closed, changes, callback, broken>>

\* Then canProduceByKind or extendedRtpCapabilities is read in the device,
\* and what fails there or in the peer connection throws.
Work(t) ==
    /\ call[t].at = "checked"
    /\ Goes(t, "working") \/ Throws(t)
    /\ UNCHANGED <<binding, handle, alive, pc, closed, changes, callback, broken>>

\* The peer connection is used on the signaling thread.
Return(t) ==
    /\ call[t].at = "working"
    /\ callback = NoTransport
    /\ Returns(t) \/ Throws(t)
    /\ UNCHANGED <<binding, handle, alive, pc, closed, changes, callback, broken>>

-----------------------------------------------------------------------------
(* Closing and deleting.                                                   *)

\* Java's close() asks for the handle first, and is the end of the transport.
Close(t, i) ==
    /\ Free(t)
    /\ Has(i) /\ handle[i] = "native"
    /\ Enters(t, "Close", i, TRUE)
    /\ Breaks("callAfterClose", binding = "java" /\ CallsOn(i) # {})
    /\ UNCHANGED <<binding, handle, alive, pc, closed, changes, callback>>

AfterClose(t) == IF binding = "java" THEN Goes(t, "deleteListener") ELSE Returns(t)

\* Transport::Close, up to the wait for the signaling thread.
CloseOnce(t) ==
    /\ call[t].op = "Close" /\ call[t].at = "entered"
    /\ IF closed[call[t].on] THEN AfterClose(t) ELSE Goes(t, "closing")
    /\ closed' = [closed EXCEPT ![call[t].on] = TRUE]
    /\ UNCHANGED <<binding, handle, alive, pc, changes, callback, broken>>

\* Fault: the peer connection is closed without waiting for a callback.
ClosePcAtOnce(t) ==
    /\ call[t].at = "closing"
    /\ pc' = [pc EXCEPT ![call[t].on] = "closed"]
    /\ AfterClose(t)
    /\ UNCHANGED <<binding, handle, alive, closed, changes, callback, broken>>

ClosePc(t) ==
    /\ call[t].at = "closing"
    /\ callback = NoTransport
    /\ pc' = [pc EXCEPT ![call[t].on] = "closed"]
    /\ AfterClose(t)
    /\ UNCHANGED <<binding, handle, alive, closed, changes, callback, broken>>

DeleteListener(t) ==
    /\ call[t].at = "deleteListener"
    /\ alive' = alive \ {Listener(call[t].on)}
    /\ Goes(t, "deleting")
    /\ UNCHANGED <<binding, handle, pc, closed, changes, callback, broken>>

\* Fault: close() leaves the pointer in the Java object.
DeleteTransportKeepHandle(t) ==
    LET i == call[t].on
    IN  /\ call[t].at = "deleting"
        /\ callback = NoTransport
        /\ pc' = [pc EXCEPT ![i] = "none"]
        /\ alive' = alive \ {TransportObject(i)}
        /\ handle' = [handle EXCEPT ![i] = IF binding = "java" THEN @ ELSE "gone"]
        /\ Returns(t)
        /\ UNCHANGED <<binding, closed, changes, callback, broken>>

\* Fault: deleting the listener is all that close() does.
DeleteTransportForgotten(t) ==
    LET i == call[t].on
    IN  /\ call[t].at = "deleting"
        /\ handle' = [handle EXCEPT ![i] = IF binding = "java" THEN "zero" ELSE "gone"]
        /\ Returns(t)
        /\ UNCHANGED <<binding, alive, pc, closed, changes, callback, broken>>

\* Fault: the transport goes before the handler's peer connection.
DeleteTransportFirst(t) ==
    LET i == call[t].on
    IN  /\ call[t].at = "deleting"
        /\ alive' = alive \ {TransportObject(i)}
        /\ IF TransportObject(i) \in alive
           THEN UNCHANGED <<pc, handle, call>>
           ELSE /\ callback = NoTransport
                /\ pc' = [pc EXCEPT ![i] = "none"]
                /\ handle' = [handle EXCEPT ![i] = IF binding = "java" THEN "zero" ELSE "gone"]
                /\ Returns(t)
        /\ UNCHANGED <<binding, closed, changes, callback, broken>>

\* The handler's peer connection goes first, on the signaling thread: a
\* callback in progress still finds the transport.
DeleteTransport(t) ==
    LET i == call[t].on
    IN  /\ call[t].at = "deleting"
        /\ callback = NoTransport
        /\ pc' = [pc EXCEPT ![i] = "none"]
        /\ alive' = alive \ {TransportObject(i)}
        /\ handle' = [handle EXCEPT ![i] = IF binding = "java" THEN "zero" ELSE "gone"]
        /\ Returns(t)
        /\ UNCHANGED <<binding, closed, changes, callback, broken>>

\* Objective-C: the last reference is dropped, so no call is in progress.
Dealloc(t, i) ==
    /\ binding = "objc"
    /\ Free(t)
    /\ handle[i] = "native" /\ CallsOn(i) = {}
    /\ call' = [call EXCEPT ![t] = [op |-> "Dealloc", on |-> i, at |-> "deleting", native |-> TRUE]]
    /\ UNCHANGED <<binding, handle, alive, pc, closed, changes, callback, broken>>

\* dispose() of Java, or dealloc of MSDevice: then, no method of the device
\* is running, but nothing keeps it for the transports.
Dispose(t) ==
    /\ Free(t)
    /\ handle[Device] = "native"
    /\ binding = "objc" => Running({"Create", "Dispose"}) = {}
    /\ Enters(t, "Dispose", NoTransport, TRUE)
    /\ Breaks("deviceFirst", Running({"Produce", "Create", "Dispose"}) # {})
    /\ UNCHANGED <<binding, handle, alive, pc, closed, changes, callback>>

DeleteDevice(t) ==
    /\ call[t].op = "Dispose"
    /\ alive' = alive \ {DeviceObject}
    /\ handle' = [handle EXCEPT ![Device] = IF binding = "java" THEN "zero" ELSE "gone"]
    /\ Returns(t)
    /\ UNCHANGED <<binding, pc, closed, changes, callback, broken>>

-----------------------------------------------------------------------------
(* The signaling thread.                                                   *)

IceChanges(i) ==
    /\ pc[i] = "open"
    /\ changes[i] < MaxChanges
    /\ changes' = [changes EXCEPT ![i] = @ + 1]
    /\ UNCHANGED <<binding, handle, alive, pc, closed, callback, call, broken>>

\* A peer connection that is closed or deleted notifies nobody.
OnConnectionStateChange(i) ==
    /\ callback = NoTransport
    /\ changes[i] > 0
    /\ changes' = [changes EXCEPT ![i] = @ - 1]
    /\ callback' = IF pc[i] = "open" THEN i ELSE NoTransport
    /\ UNCHANGED <<binding, handle, alive, pc, closed, call, broken>>

CallbackReturns ==
    /\ callback # NoTransport
    /\ callback' = NoTransport
    /\ UNCHANGED <<binding, handle, alive, pc, closed, changes, call, broken>>

-----------------------------------------------------------------------------
CallbackFinds == callback # NoTransport => {TransportObject(callback), Listener(callback)} \subseteq alive

\* What the next step of a call reads.
Reads(c) ==
    IF c.op = "none" \/ c.at = "aborted" THEN {}
    ELSE IF c.op \in {"Create", "Dispose"} THEN {DeviceObject}
    ELSE {TransportObject(c.on)}
         \cup (IF c.op = "Produce" /\ c.at = "checked" THEN {DeviceObject} ELSE {})
         \cup (IF c.at = "deleteListener" THEN {Listener(c.on)} ELSE {})

CallFinds(c) == Reads(c) # {} => c.native /\ Reads(c) \subseteq alive

Defined == CallbackFinds /\ \A t \in Threads : CallFinds(call[t]) /\ call[t].at # "aborted"

Next ==
    /\ Defined
    /\ \/ \E t \in Threads :
            \/ \E i \in Transports :
                 \/ CreateTransport(t, i) \/ Close(t, i) \/ Dealloc(t, i)
                 \/ \E op \in Ops : Begin(t, op, i)
            \/ CreateEnds(t) \/ Check(t) \/ Work(t) \/ Return(t)
            \/ CloseOnce(t) \/ ClosePc(t) \/ DeleteListener(t) \/ DeleteTransport(t)
            \/ Dispose(t) \/ DeleteDevice(t)
       \/ \E i \in Transports : IceChanges(i) \/ OnConnectionStateChange(i)
       \/ CallbackReturns

Spec == Init /\ [][Next]_vars

-----------------------------------------------------------------------------
(* Properties                                                              *)

TypeOK ==
    /\ binding \in {"java", "objc"}
    /\ handle \in [Transports \cup {Device} -> {"none", "native", "zero", "gone", "failed"}]
    /\ alive \subseteq {DeviceObject} \cup ({"transport", "listener"} \X Transports)
    /\ pc \in [Transports -> {"none", "open", "closed"}]
    /\ closed \in [Transports -> BOOLEAN]
    /\ changes \in [Transports -> 0..MaxChanges]
    /\ callback \in Transports \cup {NoTransport}
    /\ \A t \in Threads :
         /\ call[t].op \in Ops \cup {"none"}
         /\ call[t].on \in Transports \cup {NoTransport}
         /\ call[t].at \in Stages \cup {"end", "aborted"}
    /\ broken \subseteq {"callAfterClose", "deviceFirst"}
    \* A transport has a peer connection for as long as it lives.
    /\ \A i \in Transports : pc[i] # "none" => TransportObject(i) \in alive

\* A callback always finds its transport and its listener, whenever and on
\* whichever thread a transport is closed, deleted, or deleted without having
\* been closed, and whatever becomes of the device; in Java, if nothing is
\* called on a transport from the start of close() on, nor close() during a call.
CallbackHasItsObjects == "callAfterClose" \notin broken => CallbackFinds

\* A call always finds the transport, and Produce, Consume and the creation
\* of transports the device, for an application that keeps the rule for Java and disposes of the
\* device after the last of those; the other calls, close() twice in a row
\* among them, need no device.
CallHasItsObjects ==
    \A t \in Threads :
        \/ CallFinds(call[t])
        \/ "callAfterClose" \in broken
        \/ "deviceFirst" \in broken /\ call[t].op \in {"Produce", "Create", "Dispose"}

\* Whatever the wrappers have let go of is deleted, the peer connection too;
\* only listeners are left: in Objective-C, and after a failed creation.
OnlyListenersLeak ==
    \A i \in Transports :
        CallsOn(i) = {} /\ handle[i] # "native" =>
            /\ TransportObject(i) \notin alive /\ pc[i] = "none"
            /\ Listener(i) \in alive <=> handle[i] \in {"gone", "failed"}
=============================================================================
