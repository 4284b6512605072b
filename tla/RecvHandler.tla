---------------------------- MODULE RecvHandler -----------------------------
(***************************************************************************)
(* RecvHandler (src/Handler.cpp) behind RecvTransport (src/Transport.cpp): *)
(* RemoteSdp writes the offer that the mediasoup server would make, and    *)
(* the local peer connection answers it.                                   *)
(*                                                                         *)
(* As in SendHandler, one thread runs the calls one at a time, `call' is   *)
(* the one that waits in SetupTransport for the application's OnConnect,   *)
(* and Close may fall between any two steps.  The offer has been changed   *)
(* and applied before that wait, so a call that fails there leaves the     *)
(* peer connection with an offer that nobody answers.                      *)
(*                                                                         *)
(* The mids come from the server with the parameters of each consumer, and *)
(* an application that retries Consume hands in the same mid again.        *)
(***************************************************************************)
EXTENDS Naturals, Sequences, FiniteSets

CONSTANTS
    IceParams,
    NoMid, DataMid,
    ProbatorMid,      \* mid of the consumer for RTP probation
    ServerMids,       \* numbers: the server numbers the mids of consumers
    StreamIds,        \* SCTP stream ids the server may hand out
    MaxSections       \* bound: sections in the offer

ASSUME RecvHandlerAssumption ==
    /\ ServerMids \subseteq Nat
    /\ MaxSections \in Nat
    /\ DataMid \notin ServerMids /\ ProbatorMid \notin ServerMids
    /\ DataMid # ProbatorMid
    /\ NoMid \notin ServerMids \cup {DataMid, ProbatorMid}

VARIABLES
    peer,                         \* the PeerConnection
    mediaSections, midToIndex, firstMid, sdpMedia, bundleMids,
    iceParameters, dtlsRole,      \* the RemoteSdp
    forcedLocalDtlsRole,          \* "" when the server offered "auto"
    transportReady,
    mapMidTransceiver,            \* its keys
    hasDataChannelMediaSection,
    probatorConsumerCreated,      \* of the RecvTransport
    call,                         \* the call in progress
    midless,                      \* the server's parameters carry no mids
    announcedRole,                \* history: our role, as OnConnect was told
    stopped,                      \* history: mids whose StopReceiving went through
    repeated,                     \* history: a mid was received that the offer had
    failed                        \* history: a call threw after its offer was applied

Mids == ServerMids \cup {DataMid, ProbatorMid}

Remote == INSTANCE RemoteSdp WITH answering <- FALSE
Pc == INSTANCE JsepAnswerer

remoteVars == <<mediaSections, midToIndex, firstMid, sdpMedia, bundleMids,
                iceParameters, dtlsRole>>
handlerVars == <<forcedLocalDtlsRole, transportReady, mapMidTransceiver,
                 hasDataChannelMediaSection, probatorConsumerCreated>>
history == <<midless, announcedRole, stopped, repeated, failed>>
vars == <<peer, remoteVars, handlerVars, call, history>>

Idle == [op |-> "none"]

Opposite(role) == IF role = "client" THEN "server" ELSE "client"

LocalDtlsRole == IF forcedLocalDtlsRole # "" THEN forcedLocalDtlsRole ELSE "client"

\* What GetSdp() hands to SetRemoteDescription.
Offer == [i \in DOMAIN sdpMedia |->
            [mid |-> sdpMedia[i].mid, rejected |-> sdpMedia[i].closed]]

Init ==
    /\ Remote!Init
    /\ forcedLocalDtlsRole = IF dtlsRole = "auto" THEN "" ELSE Opposite(dtlsRole)
    /\ peer = Pc!NewPeer
    /\ transportReady = FALSE
    /\ mapMidTransceiver = {}
    /\ hasDataChannelMediaSection = FALSE
    /\ probatorConsumerCreated = FALSE
    /\ call = Idle
    /\ midless \in BOOLEAN
    /\ announcedRole = ""
    /\ stopped = {}
    /\ repeated = FALSE
    /\ failed = FALSE

-----------------------------------------------------------------------------
(* RecvTransport::Consume and RecvHandler::Receive.                        *)

\* Fault: a mid-less consumer is numbered by the sections of the offer.
LocalIdBySections(mid) == IF mid = NoMid THEN Len(mediaSections) ELSE mid

LocalId(mid) == IF mid = NoMid THEN Cardinality(mapMidTransceiver) ELSE mid

\* A mid is given to a section while RemoteSdp still has one of that mid.
Repeats(mid) == mid \in DOMAIN midToIndex

\* SetRemoteDescription(OFFER); the call throws if it fails.
ApplyOffer(c) ==
    IF Pc!OfferFits(peer, Offer')
    THEN /\ peer' = Pc!SetRemoteOffer(peer, Offer')
         /\ call' = c
    ELSE UNCHANGED <<peer, call>>

\* The stage at which a call resumes once its offer is applied.
NextStage == IF transportReady THEN "answer" ELSE "setup"

\* Up to the wait.
Receive(mid, video) ==
    /\ LocalId(mid) \in ServerMids
    /\ Remote!Receive(LocalId(mid))
    /\ ApplyOffer([op |-> "receive", stage |-> NextStage,
                   localId |-> LocalId(mid), video |-> video])
    /\ repeated' = (repeated \/ Repeats(LocalId(mid)))
    /\ UNCHANGED <<handlerVars, midless, announcedRole, stopped, failed>>

Consume(mid, video) ==
    /\ call = Idle
    /\ ~peer.closed
    /\ Len(mediaSections) < MaxSections \/ Remote!ClosedSections # {}
    /\ Receive(mid, video)

\* SetupTransport, up to the wait.
SetupTransport ==
    /\ call.op \in {"receive", "data"} /\ call.stage = "setup"
    /\ ~peer.closed
    /\ Remote!UpdateDtlsRole(Opposite(LocalDtlsRole))
    /\ announcedRole' = LocalDtlsRole
    /\ call' = [call EXCEPT !.stage = "connect"]
    /\ UNCHANGED <<peer, handlerVars, midless, stopped, repeated, failed>>

OnConnectResolves ==
    /\ call.op \in {"receive", "data"} /\ call.stage = "connect"
    /\ transportReady' = TRUE
    /\ call' = [call EXCEPT !.stage = "answer"]
    /\ UNCHANGED <<peer, remoteVars, forcedLocalDtlsRole, mapMidTransceiver,
                   hasDataChannelMediaSection, probatorConsumerCreated, history>>

Throw ==
    /\ call' = Idle
    /\ failed' = TRUE
    /\ UNCHANGED <<peer, remoteVars, handlerVars, midless, announcedRole, stopped,
                   repeated>>

OnConnectRejects ==
    /\ call.op \in {"receive", "data"} /\ call.stage = "connect"
    /\ Throw

\* CreateAnswer, before SetupTransport, or SetLocalDescription, after it.
AnswerThrows ==
    /\ call.op \in {"receive", "data"} /\ call.stage \in {"setup", "answer"}
    /\ peer.closed
    /\ Throw

ReceiveAnswers ==
    /\ call.op = "receive" /\ call.stage = "answer"
    /\ ~peer.closed
    /\ peer' = Pc!SetLocalAnswer(peer)
    /\ mapMidTransceiver' = mapMidTransceiver \cup {call.localId}
    /\ call' = IF call.video /\ ~probatorConsumerCreated THEN [op |-> "probator"] ELSE Idle
    /\ UNCHANGED <<remoteVars, forcedLocalDtlsRole, transportReady,
                   hasDataChannelMediaSection, probatorConsumerCreated, history>>

\* The consumer for RTP probation, after the first video consumer; if it
\* fails the error is logged.
ReceiveProbator ==
    /\ call.op = "probator"
    /\ Remote!Receive(ProbatorMid)
    /\ repeated' = (repeated \/ Repeats(ProbatorMid))
    /\ IF Pc!OfferFits(peer, Offer')
       THEN /\ peer' = Pc!SetLocalAnswer(Pc!SetRemoteOffer(peer, Offer'))
            /\ mapMidTransceiver' = mapMidTransceiver \cup {ProbatorMid}
            /\ probatorConsumerCreated' = TRUE
       ELSE UNCHANGED <<peer, mapMidTransceiver, probatorConsumerCreated>>
    /\ call' = Idle
    /\ UNCHANGED <<forcedLocalDtlsRole, transportReady, hasDataChannelMediaSection,
                   midless, announcedRole, stopped, failed>>

-----------------------------------------------------------------------------
(* RecvTransport::ConsumeData and RecvHandler::ReceiveDataChannel.         *)

\* Up to the wait.
ReceiveDataChannel(id) ==
    /\ Pc!CanCreateDataChannel(peer, id)
    /\ LET p == Pc!CreateDataChannel(peer, id)
       IN  IF hasDataChannelMediaSection
           THEN /\ peer' = p
                /\ UNCHANGED <<remoteVars, call, repeated>>
           ELSE /\ Remote!RecvSctpAssociation
                /\ repeated' = (repeated \/ Repeats(DataMid))
                /\ IF Pc!OfferFits(p, Offer')
                   THEN /\ peer' = Pc!SetRemoteOffer(p, Offer')
                        /\ call' = [op |-> "data", stage |-> NextStage]
                   ELSE /\ peer' = p
                        /\ UNCHANGED call
    /\ UNCHANGED <<handlerVars, midless, announcedRole, stopped, failed>>

ConsumeData(id) ==
    /\ call = Idle
    /\ hasDataChannelMediaSection \/ Len(mediaSections) < MaxSections
    /\ ReceiveDataChannel(id)

DataAnswers ==
    /\ call.op = "data" /\ call.stage = "answer"
    /\ ~peer.closed
    /\ peer' = Pc!SetLocalAnswer(peer)
    /\ hasDataChannelMediaSection' = TRUE
    /\ call' = Idle
    /\ UNCHANGED <<remoteVars, forcedLocalDtlsRole, transportReady, mapMidTransceiver,
                   probatorConsumerCreated, history>>

-----------------------------------------------------------------------------
(* The other calls.                                                        *)

\* Fault: the change waits for the next offer.
RenegotiateLater == UNCHANGED peer

\* The offer is renewed and answered, by a call that throws if that fails.
Renegotiate ==
    IF Pc!OfferFits(peer, Offer')
    THEN peer' = Pc!SetLocalAnswer(Pc!SetRemoteOffer(peer, Offer'))
    ELSE UNCHANGED peer

\* Fault: the transceiver is not asked for its mid.
CanStopAny(localId) == TRUE

\* transceiver->mid().value() throws once the transceiver has lost its mid.
CanStop(localId) == localId \in Pc!TransceiverMids(peer)

StopReceiving(localId) ==
    /\ CanStop(localId)
    /\ Remote!CloseMediaSection(localId)
    /\ Renegotiate
    /\ stopped' = stopped \cup {localId}
    /\ UNCHANGED <<handlerVars, call, midless, announcedRole, repeated, failed>>

CloseConsumer(localId) ==
    /\ call = Idle
    /\ ~peer.closed
    /\ StopReceiving(localId)

HandlerRestartIce(ice) ==
    /\ Remote!UpdateIceParameters(ice)
    /\ IF transportReady THEN Renegotiate ELSE UNCHANGED peer
    /\ UNCHANGED <<handlerVars, call, history>>

RestartIce(ice) ==
    /\ call = Idle
    /\ ~peer.closed
    /\ HandlerRestartIce(ice)

\* Transport::Close, by the application at any time, its listener included.
Close ==
    /\ ~peer.closed
    /\ peer' = Pc!Close(peer)
    /\ UNCHANGED <<remoteVars, handlerVars, call, history>>

Next ==
    \/ \E mid \in IF midless THEN {NoMid} ELSE ServerMids, video \in BOOLEAN :
         Consume(mid, video)
    \/ \E id \in StreamIds : ConsumeData(id)
    \/ SetupTransport \/ OnConnectResolves \/ OnConnectRejects
    \/ AnswerThrows \/ ReceiveAnswers \/ DataAnswers \/ ReceiveProbator
    \/ \E localId \in mapMidTransceiver \ {ProbatorMid} : CloseConsumer(localId)
    \/ \E ice \in IceParams : RestartIce(ice)
    \/ Close

Spec == Init /\ [][Next]_vars

-----------------------------------------------------------------------------
(* Properties                                                              *)

Line == [mid : Mids, rejected : BOOLEAN]

TypeOK ==
    /\ Remote!TypeOK
    /\ peer.closed \in BOOLEAN
    /\ peer.signaling \in {"stable", "have-remote-offer"}
    /\ peer.local \in Seq(Line) /\ peer.remote \in Seq(Line)
    /\ peer.channels \subseteq StreamIds
    /\ forcedLocalDtlsRole \in {"", "client", "server"}
    /\ transportReady \in BOOLEAN
    /\ mapMidTransceiver \subseteq Mids \ {DataMid}
    /\ hasDataChannelMediaSection \in BOOLEAN
    /\ probatorConsumerCreated \in BOOLEAN
    /\ call.op \in {"none", "receive", "probator", "data"}
    /\ announcedRole \in {"", "client", "server"}

\* Between calls, as long as none has failed and no mid was repeated, what
\* RemoteSdp would offer is what the peer connection was last offered and has
\* answered, through closings, recyclings, the data section and ICE restarts.
NegotiationInStep ==
    call = Idle /\ ~peer.closed /\ ~failed /\ ~repeated =>
        /\ peer.signaling = "stable"
        /\ peer.remote = Offer
        /\ peer.local = Offer

\* A call that failed in OnConnect does not wedge the transport: as long as
\* no mid is repeated, the offer that is pending is one the peer connection
\* takes, so that the next call gets as far as OnConnect again.
RetryWithNewMidFits ==
    call = Idle /\ ~peer.closed /\ ~repeated => Pc!OfferFits(peer, Offer)

\* No call touches a consumer other than its own: one that was not stopped
\* keeps its transceiver and exactly one open section under its mid.
ConsumersMatchSections ==
    ~repeated =>
      \A localId \in mapMidTransceiver \ stopped :
        /\ localId \in Pc!TransceiverMids(peer)
        /\ \E i \in DOMAIN sdpMedia :
             /\ sdpMedia[i].mid = localId
             /\ sdpMedia[i].direction = "open"

\* The handler uses RemoteSdp as RemoteSdp!Spec assumes, unless the server or
\* a retry gives a mid again: also the mids it makes up are new ones.
RemoteSdpUsedAsSpecified == [][~repeated' => [Remote!Next]_remoteVars]_vars

\* When the handler has to make up the mids itself, it repeats none as long
\* as no call fails: neither stopping a consumer nor the probator shifts the
\* numbering onto a mid in use.
OwnMidsAreNew == midless /\ ~failed => ~repeated

\* The DTLS role that the server is told is ours ("Set our DTLS role") is the
\* one we take: the peer connection answers actpass, which every section of
\* the offer has, as the client.
AnnouncedDtlsRoleIsTaken ==
    peer.local # <<>> => announcedRole = "client"
=============================================================================
