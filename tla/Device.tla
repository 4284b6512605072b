------------------------------- MODULE Device -------------------------------
(***************************************************************************)
(* mediasoupclient::Device (src/Device.cpp) with what a SendTransport      *)
(* computes from it when it is created (src/Transport.cpp) and what        *)
(* SendHandler::Send and RecvTransport::Consume then look up: the          *)
(* capabilities that were negotiated with the router, by Ortc, from those  *)
(* that SdpCapabilities reads off an offer of libwebrtc.                   *)
(*                                                                         *)
(* Load may fail after it has written some members, and may be called      *)
(* again, with another factory and the capabilities of another router.     *)
(* Load of capabilities that are not valid, or when libwebrtc cannot make  *)
(* an offer, throws before it writes anything and is no step.  The SCTP    *)
(* capabilities are constants, and a RecvTransport stores no more than a   *)
(* pointer to the extended capabilities.                                   *)
(***************************************************************************)
EXTENDS SdpCapabilities

CONSTANTS
    NativeOffers,   \* offers that libwebrtc may make to Load
    RouterCaps      \* capabilities that a router may have

Finite(seq) == seq \in Seq(ToSet(seq))

\* libwebrtc writes a section of each kind, with a codec for each line that
\* has an apt, and one line for each codec.
IsOffer(offer) ==
    /\ Finite(offer)
    /\ \A i, j \in DOMAIN offer : offer[i].type = offer[j].type => i = j
    /\ \A i \in DOMAIN offer :
         /\ offer[i].type \in {"audio", "video"}
         /\ Finite(offer[i].rtp) /\ Finite(offer[i].fmtp)
         /\ \A j \in DOMAIN offer[i].fmtp :
              /\ offer[i].fmtp[j].level \in Nat
              /\ offer[i].fmtp[j].apt # Null =>
                   \E n \in DOMAIN offer[i].rtp :
                     offer[i].rtp[n].pt = offer[i].fmtp[j].pt /\ offer[i].rtp[n].mime = "rtx"
              /\ \A k \in DOMAIN offer[i].fmtp :
                   offer[i].fmtp[j].pt = offer[i].fmtp[k].pt => j = k

CodecMembers ==
    {"mime", "kind", "channels", "pt", "apt", "profile", "level", "asymmetry", "rtcpFeedback"}

IsCaps(caps) ==
    /\ Finite(caps.codecs)
    /\ \A i \in DOMAIN caps.codecs :
         DOMAIN caps.codecs[i] = CodecMembers /\ caps.codecs[i].level \in Nat

\* No payload type is given twice.
ASSUME DeviceAssumption ==
    /\ \A offer \in NativeOffers : IsOffer(offer) /\ \A i, j \in DOMAIN offer :
         \A m \in DOMAIN offer[i].rtp, n \in DOMAIN offer[j].rtp :
           /\ offer[i].rtp[m].pt \in Nat
           /\ offer[i].rtp[m].pt = offer[j].rtp[n].pt => i = j /\ m = n
    /\ \A caps \in RouterCaps : IsCaps(caps) /\ \A i, j \in DOMAIN caps.codecs :
         /\ caps.codecs[i].pt \in Nat \cup {Absent}
         /\ caps.codecs[i].pt = caps.codecs[j].pt => i = j

VARIABLES
    loaded,
    extendedRtpCapabilities,
    canProduceByKind,
    recvRtpCapabilities,
    sendTransport,     \* the parameters of the SendTransport created last
    native, router     \* history: the offer and the capabilities of the last Load

device == <<loaded, extendedRtpCapabilities, canProduceByKind, recvRtpCapabilities>>
vars == <<device, sendTransport, native, router>>

Kinds == {"audio", "video"}

Init ==
    /\ loaded = FALSE
    /\ extendedRtpCapabilities = Null
    /\ canProduceByKind = [kind \in Kinds |-> FALSE]
    /\ recvRtpCapabilities = Null
    /\ sendTransport = Null
    /\ native = Null /\ router = Null

\* Fault: the capabilities that were generated are not validated.
LoadUnchecked(offer, routerCaps) ==
    LET localCaps == ExtractRtpCapabilities(offer)
        extended == GetExtendedRtpCapabilities(localCaps, routerCaps)
        recv == GetRecvRtpCapabilities(extended)
    IN  /\ ~loaded
        /\ ValidCaps(routerCaps) /\ ValidCaps(localCaps)
        /\ extendedRtpCapabilities' = extended
        /\ canProduceByKind' = [kind \in Kinds |-> CanSend(kind, extended)]
        /\ recvRtpCapabilities' = recv
        /\ loaded' = TRUE
        /\ native' = offer /\ router' = routerCaps
        /\ UNCHANGED sendTransport

\* Fault: canProduceByKind is only ever set to true, so that what a Load that
\* failed has left stays.
LoadOnlySetsTrue(offer, routerCaps) ==
    LET localCaps == ExtractRtpCapabilities(offer)
        extended == GetExtendedRtpCapabilities(localCaps, routerCaps)
        recv == GetRecvRtpCapabilities(extended)
    IN  /\ ~loaded
        /\ ValidCaps(routerCaps) /\ ValidCaps(localCaps)
        /\ extendedRtpCapabilities' = extended
        /\ canProduceByKind' = [kind \in Kinds |->
                                canProduceByKind[kind] \/ CanSend(kind, extended)]
        /\ recvRtpCapabilities' = recv
        /\ loaded' = ValidCaps(recv)
        /\ native' = offer /\ router' = routerCaps
        /\ UNCHANGED sendTransport

Load(offer, routerCaps) ==
    LET localCaps == ExtractRtpCapabilities(offer)
        extended == GetExtendedRtpCapabilities(localCaps, routerCaps)
        recv == GetRecvRtpCapabilities(extended)
    IN  /\ ~loaded
        /\ ValidCaps(routerCaps) /\ ValidCaps(localCaps)
        /\ extendedRtpCapabilities' = extended
        /\ canProduceByKind' = [kind \in Kinds |-> CanSend(kind, extended)]
        /\ recvRtpCapabilities' = recv
        /\ loaded' = ValidCaps(recv)
        /\ native' = offer /\ router' = routerCaps
        /\ UNCHANGED sendTransport

CreateSendTransport ==
    /\ loaded
    /\ sendTransport' =
         [sending |-> [kind \in Kinds |->
                         GetSendingRtpParameters(kind, extendedRtpCapabilities)],
          sendingRemote |-> [kind \in Kinds |->
                               GetSendingRemoteRtpParameters(kind, extendedRtpCapabilities)]]
    /\ UNCHANGED <<device, native, router>>

Next ==
    \/ \E offer \in NativeOffers, routerCaps \in RouterCaps : Load(offer, routerCaps)
    \/ CreateSendTransport

Spec == Init /\ [][Next]_vars

-----------------------------------------------------------------------------
(* What the transports look up.                                            *)

\* SendTransport::Produce throws "cannot produce track kind": it asks whether
\* the map has an entry, and not what the entry says.
CannotProduce(kind) == kind \notin DOMAIN canProduceByKind

\* The codecs that SendHandler::Send tells the server that it sends, and those
\* that it puts in the answer to itself.
CodecsToSend(kind, capCodec) ==
    ReduceCodecs(sendTransport.sending[kind].codecs, capCodec)

CodecsOfAnswer(kind, capCodec) ==
    ReduceCodecs(sendTransport.sendingRemote[kind].codecs, capCodec)

-----------------------------------------------------------------------------
(* Properties                                                              *)

NativeCodecs == ToSet(ValidateRtpCapabilities(ExtractRtpCapabilities(native)).codecs)
RouterCodecs == ToSet(ValidateRtpCapabilities(router).codecs)
RecvCaps == recvRtpCapabilities.codecs

\* The last offer has an RTX codec for this payload type.
OffersRtx(pt) ==
    \E i \in DOMAIN native : \E j \in DOMAIN native[i].fmtp : native[i].fmtp[j].apt = pt

\* A device that is loaded announces payload types that are numbers.
TypeOK ==
    /\ loaded \in BOOLEAN
    /\ canProduceByKind \in [Kinds -> BOOLEAN]
    /\ \/ <<extendedRtpCapabilities, native, router>> = <<Null, Null, Null>>
       \/ IsOffer(native) /\ IsCaps(router)
    /\ loaded => \A i \in DOMAIN RecvCaps :
                   RecvCaps[i].pt \in Nat /\ RecvCaps[i].apt \in Nat \cup {Null}
    /\ sendTransport = Null \/ loaded

\* What the device announces that it receives is what both sides have, at the
\* payload types of the router: a codec of the router for each, none twice,
\* each RTX codec right behind its codec and apt to it on both sides, no H264
\* level above our own, and no codec left out that both sides have, nor an RTX
\* codec that both have for it.  Of the RTX codecs of the router for one codec
\* the first is taken, so that one without a payload type hides those behind it.
RecvCapsMatchRouter ==
    loaded =>
      /\ \A i \in DOMAIN RecvCaps :
           /\ \E codec \in RouterCodecs :
                /\ codec.pt = RecvCaps[i].pt
                /\ codec.mime = RecvCaps[i].mime
                /\ IF IsRtxCodec(codec)
                   THEN i > 1 /\ codec.apt = RecvCaps[i].apt /\ codec.apt = RecvCaps[i - 1].pt
                   ELSE \E own \in NativeCodecs :
                          /\ MatchCodecs(own, codec, TRUE)
                          /\ RecvCaps[i].parameters.level <= own.level
           /\ \A j \in DOMAIN RecvCaps : RecvCaps[j].pt = RecvCaps[i].pt => i = j
      /\ \A codec \in RouterCodecs :
           ~IsRtxCodec(codec) /\ (\E own \in NativeCodecs : MatchCodecs(own, codec, TRUE))
             => \E i \in DOMAIN RecvCaps : RecvCaps[i].pt = codec.pt
      /\ \A i \in DOMAIN RecvCaps :
           LET theirs == {rtx \in RouterCodecs : IsRtxCodec(rtx) /\ rtx.apt = RecvCaps[i].pt}
           IN  (/\ ~IsRtxCodec(RecvCaps[i])
                /\ theirs # {} /\ \A rtx \in theirs : rtx.pt # Absent
                /\ \A own \in NativeCodecs : own.mime = RecvCaps[i].mime => OffersRtx(own.pt))
                 => i < Len(RecvCaps) /\ IsRtxCodec(RecvCaps[i + 1])

\* A first codec is accepted by Consume exactly if it was announced as one to
\* receive: a codec that only shares a payload type of ours, or an RTX codec,
\* is not.
ConsumableIffAnnounced ==
    loaded =>
      \A codec \in NativeCodecs \cup RouterCodecs :
        CanReceive(<<codec>>, extendedRtpCapabilities) <=>
          \E i \in DOMAIN RecvCaps : ~IsRtxCodec(RecvCaps[i]) /\ RecvCaps[i].pt = codec.pt

\* What we tell the server that we send is what we write in its name into the
\* answer to our own offer: the same codecs at the same payload types and
\* level, the same header extensions, and the same selection of codecs for any
\* codec the application asks for.  CanProduce says whether there is a codec,
\* also after a Load that failed.
SendParamsAgree ==
    sendTransport # Null =>
      \A kind \in Kinds :
        LET sending == sendTransport.sending[kind]
            remote == sendTransport.sendingRemote[kind]
            pts(codecs) == [i \in DOMAIN codecs |-> codecs[i].pt]
        IN  /\ canProduceByKind[kind] <=> sending.codecs # <<>>
            /\ pts(sending.codecs) = pts(remote.codecs)
            /\ sending.headerExtensions = remote.headerExtensions
            /\ \A i \in DOMAIN sending.codecs :
                 /\ \E own \in NativeCodecs :
                      own.pt = sending.codecs[i].pt /\ own.mime = sending.codecs[i].mime
                 /\ sending.codecs[i].apt = remote.codecs[i].apt
                 /\ i = 1 => sending.codecs[1].parameters.level = remote.codecs[1].parameters.level
            /\ sending.codecs # <<>> =>
                 \A capCodec \in NativeCodecs \cup {NoCodec} :
                   pts(CodecsToSend(kind, capCodec)) = pts(CodecsOfAnswer(kind, capCodec))

\* The answer asks for bandwidth estimation of one kind at most, and only with
\* the header extension that it needs.
FeedbackHasItsExtension ==
    sendTransport # Null =>
      \A kind \in Kinds :
        LET remote == sendTransport.sendingRemote[kind]
            uris == {ext.uri : ext \in remote.headerExtensions}
        IN  \A codec \in ToSet(remote.codecs) :
              /\ "transport-cc" \in codec.rtcpFeedback => "transport-wide-cc" \in uris
              /\ "goog-remb" \in codec.rtcpFeedback =>
                   "abs-send-time" \in uris /\ "transport-cc" \notin codec.rtcpFeedback

\* "cannot produce track kind": a kind without a codec is refused.
KindWithoutCodecIsRefused ==
    loaded => \A kind \in Kinds : ~canProduceByKind[kind] => CannotProduce(kind)

\* "Otherwise look for a compatible set of codecs": a codec that was asked for
\* and that is the one we send is found.
GivenCodecIsFound ==
    sendTransport # Null =>
      \A kind \in Kinds :
        LET codecs == sendTransport.sending[kind].codecs
        IN  \A capCodec \in NativeCodecs :
              codecs # <<>> /\ MatchCodecs(codecs[1], capCodec, FALSE)
                => CodecsToSend(kind, capCodec) # <<>>
=============================================================================
