---------------------------- MODULE SendHandler -----------------------------
(***************************************************************************)
(* SendHandler (src/Handler.cpp) behind SendTransport (src/Transport.cpp): *)
(* it makes the local peer connection offer, has RemoteSdp write the       *)
(* answer of the mediasoup server, and applies it.                         *)
(*                                                                         *)
(* One thread runs the calls, one at a time.  A call that needs the        *)
(* transport waits in SetupTransport for the future that the application   *)
(* returned from OnConnect, which may be fulfilled, rejected, or find the  *)
(* transport closed by then: `call' holds the locals of the call that is   *)
(* waiting, and Close may fall between any two of its steps.  The blocking *)
(* calls of one step see no other actor, except a Close that would have    *)
(* made them fail as it does when it falls before the step.                *)
(*                                                                         *)
(* Calls that throw before they change anything (a guard of SendTransport, *)
(* reduceCodecs, a stream id in use, StopSending of a producer that was    *)
(* stopped already) are no steps.  Produce's StopSending after a failed    *)
(* validateRtpParameters is StopSending by the application.                *)
(***************************************************************************)
EXTENDS Naturals, Sequences

CONSTANTS
    IceParams,        \* ICE credentials the server may hand out
    NoMid, DataMid,
    SctpNumStreams,   \* SctpNumStreamsMis in the code, 1024
    MaxTransceivers,  \* bound: calls of Send that reach AddTransceiver
    MaxSections       \* bound: sections before a data section is not added

ASSUME SendHandlerAssumption ==
    /\ SctpNumStreams \in Nat \ {0}
    /\ MaxTransceivers \in Nat /\ MaxSections \in Nat
    /\ {NoMid, DataMid} \cap (0..MaxTransceivers) = {}
    /\ NoMid # DataMid

VARIABLES
    peer,                         \* the PeerConnection
    mediaSections, midToIndex, firstMid, sdpMedia, bundleMids,
    iceParameters, dtlsRole,      \* the RemoteSdp
    forcedLocalDtlsRole,          \* "" when the server offered "auto"
    transportReady,
    mapMidTransceiver,            \* its keys: the mid of transceiver n is n
    hasDataChannelMediaSection,
    nextSendSctpStreamId,
    call,                         \* the call in progress
    stopped,                      \* history: mids whose StopSending went through
    failed                        \* history: a call threw after it changed the peer
                                  \* and before it negotiated

Mids == (1..MaxTransceivers) \cup {DataMid}

Remote == INSTANCE RemoteSdp WITH answering <- TRUE
Pc == INSTANCE Jsep

remoteVars == <<mediaSections, midToIndex, firstMid, sdpMedia, bundleMids,
                iceParameters, dtlsRole>>
handlerVars == <<forcedLocalDtlsRole, transportReady, mapMidTransceiver,
                 hasDataChannelMediaSection, nextSendSctpStreamId>>
vars == <<peer, remoteVars, handlerVars, call, stopped, failed>>

Idle == [op |-> "none"]

Opposite(role) == IF role = "client" THEN "server" ELSE "client"

LocalDtlsRole == IF forcedLocalDtlsRole # "" THEN forcedLocalDtlsRole ELSE "server"

\* What GetSdp() hands to SetRemoteDescription.
Answer == [i \in DOMAIN sdpMedia |->
             [mid |-> sdpMedia[i].mid, rejected |-> sdpMedia[i].closed]]

Init ==
    /\ Remote!Init
    /\ forcedLocalDtlsRole = IF dtlsRole = "auto" THEN "" ELSE Opposite(dtlsRole)
    /\ peer = Pc!NewPeer
    /\ transportReady = FALSE
    /\ mapMidTransceiver = {}
    /\ hasDataChannelMediaSection = FALSE
    /\ nextSendSctpStreamId = 0
    /\ call = Idle
    /\ stopped = {}
    /\ failed = FALSE

-----------------------------------------------------------------------------
(* Transport set-up.                                                       *)

\* Fault: our own role is written into the remote description.
TellRemoteRoleOwn == Remote!UpdateDtlsRole(LocalDtlsRole)

TellRemoteRole == Remote!UpdateDtlsRole(Opposite(LocalDtlsRole))

\* The first half of SetupTransport, up to the wait in OnConnect.
Begin(c) ==
    IF transportReady
    THEN /\ call' = [c EXCEPT !.stage = "negotiate"]
         /\ UNCHANGED remoteVars
    ELSE /\ call' = c
         /\ TellRemoteRole

OnConnectResolves ==
    /\ call.op # "none" /\ call.stage = "connect"
    /\ transportReady' = TRUE
    /\ call' = [call EXCEPT !.stage = "negotiate"]
    /\ UNCHANGED <<peer, remoteVars, forcedLocalDtlsRole, mapMidTransceiver,
                   hasDataChannelMediaSection, nextSendSctpStreamId, stopped, failed>>

\* Fault, and a repair: the transceiver is taken out of the negotiation.
UndoStops == [peer EXCEPT !.transceivers[call.transceiver] =
                            [@ EXCEPT !.sending = FALSE, !.stopped = TRUE]]

\* "Panic here. Try to undo things."
Undo == Pc!StopSender(peer, call.transceiver)

Throw ==
    /\ peer' = IF call.op = "send" THEN Undo ELSE peer
    /\ call' = Idle
    /\ failed' = TRUE
    /\ UNCHANGED <<remoteVars, handlerVars, stopped>>

OnConnectRejects ==
    /\ call.op # "none" /\ call.stage = "connect"
    /\ Throw

-----------------------------------------------------------------------------
(* SendTransport::Produce and SendHandler::Send.                           *)

\* Fault: the closed section that libwebrtc recycles is not recycled.
NextSlotAppends == [idx |-> Len(mediaSections) + 1, reuseMid |-> NoMid]

NextSlot == Remote!GetNextMediaSectionIdx

\* Up to the wait.  `prepares' is FALSE when the code between SetupTransport
\* and SetLocalDescription throws, as it does for a kind with no codec at all.
Send(simulcast, prepares) ==
    /\ peer' = Pc!AddTransceiver(peer)
    /\ Begin([op |-> "send", stage |-> "connect",
              idx |-> NextSlot.idx, reuseMid |-> NextSlot.reuseMid,
              transceiver |-> Len(peer'.transceivers), offer |-> Pc!CreateOffer(peer'),
              simulcast |-> simulcast, prepares |-> prepares])
    /\ UNCHANGED <<handlerVars, stopped, failed>>

\* canProduceByKind has an entry for both kinds, so that a kind that cannot be
\* produced gets through.
Produce(simulcast, prepares) ==
    /\ call = Idle
    /\ ~peer.closed
    /\ Len(peer.transceivers) < MaxTransceivers
    /\ Send(simulcast, prepares)

\* getRtpEncodings finds a=ssrc lines only in the section of a live sender,
\* and throws, or fails an assertion of the JSON library, in any other.
HasSsrcs(p, mid) == mid # DataMid /\ p.transceivers[mid].sending

\* SetRemoteDescription(ANSWER) after `p', by a call that throws if it fails.
ApplyAnswer(p) ==
    IF Pc!AnswerFits(p, Answer')
    THEN peer' = Pc!SetRemoteAnswer(p, Answer')
    ELSE peer' = p

SendThrows ==
    /\ call.op = "send" /\ call.stage = "negotiate"
    /\ peer.closed \/ ~call.prepares
    /\ Throw

\* The offer is set, and its section at the index taken from RemoteSdp before
\* it was made is answered; without encodings of the caller's, they are read
\* from that section first.  After earlier failures there may be no such
\* section, and the null that stands for it makes the call throw.
SendNegotiates ==
    /\ call.op = "send" /\ call.stage = "negotiate"
    /\ ~peer.closed /\ call.prepares
    /\ LET p == Pc!SetLocalOffer(peer, call.offer)
           offerMid == p.local[call.idx].mid
       IN  IF call.idx \in DOMAIN p.local /\ (call.simulcast \/ HasSsrcs(p, offerMid))
           THEN /\ Remote!Send(offerMid, call.reuseMid)
                /\ ApplyAnswer(p)
                /\ mapMidTransceiver' = IF Pc!AnswerFits(p, Answer')
                                        THEN mapMidTransceiver \cup {call.transceiver}
                                        ELSE mapMidTransceiver
           ELSE /\ peer' = p
                /\ UNCHANGED <<remoteVars, mapMidTransceiver>>
    /\ call' = Idle
    /\ UNCHANGED <<forcedLocalDtlsRole, transportReady, hasDataChannelMediaSection,
                   nextSendSctpStreamId, stopped, failed>>

-----------------------------------------------------------------------------
(* SendTransport::ProduceData and SendHandler::SendDataChannel.            *)

\* Fault: the id is not wrapped.
NextStreamIdUnwrapped == nextSendSctpStreamId + 1

NextStreamId == (nextSendSctpStreamId + 1) % SctpNumStreams

\* Up to the wait.  If CreateDataChannel fails, because the connection is
\* closed or the id in use, the id stays the next one, and nothing changes.
SendDataChannel ==
    /\ Pc!CanCreateDataChannel(peer, nextSendSctpStreamId)
    /\ LET p == Pc!CreateDataChannel(peer, nextSendSctpStreamId)
       IN  /\ peer' = p
           /\ IF hasDataChannelMediaSection
              THEN UNCHANGED <<call, remoteVars>>
              ELSE Begin([op |-> "data", stage |-> "connect", offer |-> Pc!CreateOffer(p)])
    /\ nextSendSctpStreamId' = NextStreamId
    /\ UNCHANGED <<forcedLocalDtlsRole, transportReady, mapMidTransceiver,
                   hasDataChannelMediaSection, stopped, failed>>

\* There is no closed guard.
ProduceData ==
    /\ call = Idle
    /\ hasDataChannelMediaSection \/ Len(mediaSections) < MaxSections
    /\ SendDataChannel

DataThrows ==
    /\ call.op = "data" /\ call.stage = "negotiate"
    /\ peer.closed
    /\ Throw

DataNegotiates ==
    /\ call.op = "data" /\ call.stage = "negotiate"
    /\ ~peer.closed
    /\ LET p == Pc!SetLocalOffer(peer, call.offer)
       IN  /\ Remote!SendSctpAssociation(DataMid)
           /\ ApplyAnswer(p)
           /\ hasDataChannelMediaSection' = Pc!AnswerFits(p, Answer')
    /\ call' = Idle
    /\ UNCHANGED <<forcedLocalDtlsRole, transportReady, mapMidTransceiver,
                   nextSendSctpStreamId, stopped, failed>>

\* The application closes a data channel, which frees its id.
CloseDataChannel(id) ==
    /\ peer' = [peer EXCEPT !.channels = @ \ {id}]
    /\ UNCHANGED <<remoteVars, handlerVars, call, stopped, failed>>

-----------------------------------------------------------------------------
(* The other calls.                                                        *)

\* Fault: the sender is left running when its section is closed.
StopSendingKeepsTrack(localId) ==
    /\ peer.transceivers[localId].mid # NoMid
    /\ Remote!CloseMediaSection(peer.transceivers[localId].mid)
    /\ ApplyAnswer(Pc!SetLocalOffer(peer, Pc!CreateOffer(peer)))
    /\ stopped' = stopped \cup {localId}
    /\ UNCHANGED <<handlerVars, call, failed>>

\* Fault: the section is looked up by the id of the producer, also when its
\* transceiver has lost that mid.
StopSendingByLocalId(localId) ==
    /\ Remote!CloseMediaSection(localId)
    /\ LET p == Pc!StopSender(peer, localId)
       IN  ApplyAnswer(Pc!SetLocalOffer(p, Pc!CreateOffer(p)))
    /\ stopped' = stopped \cup {localId}
    /\ UNCHANGED <<handlerVars, call, failed>>

StopSending(localId) ==
    /\ peer.transceivers[localId].mid # NoMid
    /\ Remote!CloseMediaSection(peer.transceivers[localId].mid)
    /\ LET p == Pc!StopSender(peer, localId)
       IN  ApplyAnswer(Pc!SetLocalOffer(p, Pc!CreateOffer(p)))
    /\ stopped' = stopped \cup {localId}
    /\ UNCHANGED <<handlerVars, call, failed>>

CloseProducer(localId) ==
    /\ call = Idle
    /\ ~peer.closed
    /\ StopSending(localId)

HandlerRestartIce(ice) ==
    /\ Remote!UpdateIceParameters(ice)
    /\ IF transportReady
       THEN ApplyAnswer(Pc!SetLocalOffer(peer, Pc!CreateOffer(peer)))
       ELSE UNCHANGED peer
    /\ UNCHANGED <<handlerVars, call, stopped, failed>>

RestartIce(ice) ==
    /\ call = Idle
    /\ ~peer.closed
    /\ HandlerRestartIce(ice)

\* Transport::Close, by the application at any time, its listener included.
Close ==
    /\ ~peer.closed
    /\ peer' = Pc!Close(peer)
    /\ UNCHANGED <<remoteVars, handlerVars, call, stopped, failed>>

Next ==
    \/ \E simulcast, prepares \in BOOLEAN : Produce(simulcast, prepares)
    \/ ProduceData
    \/ OnConnectResolves \/ OnConnectRejects
    \/ SendThrows \/ SendNegotiates
    \/ DataThrows \/ DataNegotiates
    \/ \E id \in peer.channels : CloseDataChannel(id)
    \/ \E localId \in mapMidTransceiver : CloseProducer(localId)
    \/ \E ice \in IceParams : RestartIce(ice)
    \/ Close

Spec == Init /\ [][Next]_vars

-----------------------------------------------------------------------------
(* Properties                                                              *)

Line == [mid : Mids, rejected : BOOLEAN]

TypeOK ==
    /\ Remote!TypeOK
    /\ peer.closed \in BOOLEAN
    /\ peer.signaling \in {"stable", "have-local-offer"}
    /\ peer.transceivers \in Seq([mid : Mids \cup {NoMid}, sending : BOOLEAN, stopped : BOOLEAN])
    /\ peer.local \in Seq(Line) /\ peer.remote \in Seq(Line)
    /\ peer.channels \subseteq 0..SctpNumStreams - 1
    /\ forcedLocalDtlsRole \in {"", "client", "server"}
    /\ transportReady \in BOOLEAN
    /\ mapMidTransceiver \subseteq 1..MaxTransceivers
    /\ hasDataChannelMediaSection \in BOOLEAN
    /\ nextSendSctpStreamId \in 0..SctpNumStreams - 1
    /\ call.op \in {"none", "send", "data"}

\* Between calls, as long as none has failed halfway, every answer has been
\* accepted, and the peer connection and RemoteSdp hold the same m= lines at
\* the same places: the index taken from RemoteSdp before the offer exists is
\* the one libwebrtc gives the section, through closings, recyclings, the
\* data section and ICE restarts.
NegotiationInStep ==
    call = Idle /\ ~peer.closed /\ ~failed =>
        /\ peer.signaling = "stable"
        /\ peer.remote = Answer
        /\ Len(peer.local) = Len(Answer)
        /\ \A i \in DOMAIN Answer : peer.local[i].mid = Answer[i].mid

\* No call touches a producer other than its own: one that was not stopped
\* keeps its transceiver, its track and an open section under its mid even
\* after calls that failed, and one that was stopped sends nothing, under a
\* section that stays inactive as long as no call has failed.
ProducersMatchSections ==
    \A localId \in mapMidTransceiver :
        LET transceiver == peer.transceivers[localId]
            sections == {i \in DOMAIN sdpMedia : sdpMedia[i].mid = localId}
        IN  IF localId \in stopped
            THEN /\ ~transceiver.sending
                 /\ failed \/ \A i \in sections : sdpMedia[i].direction = "inactive"
            ELSE /\ transceiver.mid = localId
                 /\ transceiver.sending
                 /\ sections # {}
                 /\ \A i \in sections : sdpMedia[i].direction = "open" /\ ~sdpMedia[i].closed

\* No answer is applied before the application has accepted the DTLS
\* parameters, and no answer leaves the role open or takes the one announced
\* to the server as ours, whatever attempts failed before.
DtlsRoleSettled ==
    /\ peer.remote # <<>> => transportReady
    /\ transportReady =>
         \A i \in DOMAIN sdpMedia :
           sdpMedia[i].setup = IF LocalDtlsRole = "server" THEN "active" ELSE "passive"

\* The handler uses RemoteSdp as RemoteSdp!Spec assumes: mids are new when
\* they are added, closed sections are recycled, unknown mids never closed.
RemoteSdpUsedAsSpecified == [][~failed => [Remote!Next]_remoteVars]_vars

\* A transceiver that Undo left behind, waiting for its m= line.
Abandoned ==
    \E t \in DOMAIN peer.transceivers :
        /\ ~peer.transceivers[t].sending
        /\ t \notin mapMidTransceiver

\* After a Send that was undone no later Send can succeed on this transport:
\* the section that the abandoned transceiver is offered is never answered.
FailedSendIsFinal ==
    [][Abandoned => mapMidTransceiver' = mapMidTransceiver]_vars

\* What the handler's comment asks of the catch block ("Try to undo things"):
\* no transceiver is left that the next offer would give an m= line to.
UndoneSendLeavesNoTrace ==
    call = Idle /\ ~peer.closed => Pc!NewTransceivers(peer) = {}
=============================================================================
