-------------------------------- MODULE Ortc --------------------------------
(***************************************************************************)
(* The capability negotiation of src/ortc.cpp: what a device and a router  *)
(* have in common, what the device announces that it receives, and what it *)
(* sends.  Operators only; Device calls them.                              *)
(*                                                                         *)
(* A codec is a record: `channels' and `rtcpFeedback' are optional in what *)
(* the router sends, `profile' stands for the parameters that a strict     *)
(* match compares (H264 packetization mode and profile, VP9 profile id),   *)
(* `level' and `asymmetry' for the level of an H264 profile-level-id and   *)
(* level-asymmetry-allowed.  The clock rate is part of the name, and the   *)
(* parameters nobody looks at are left out, as is `encrypt' of a header    *)
(* extension.                                                              *)
(***************************************************************************)
EXTENDS Naturals, Sequences, SequencesExt

CONSTANTS
    Absent,      \* a JSON member that is not there
    Null,        \* a JSON member that is null
    NoCodec      \* no codec given to Produce

-----------------------------------------------------------------------------
(* Validation: it throws for a codec that is not valid, and fills in the   *)
(* defaults of one that is.                                                *)

\* preferredPayloadType is optional, but a number if it is there.
ValidCodec(codec) == codec.pt # Null

ValidateRtpCodecCapability(codec) ==
    [codec EXCEPT
       !.channels = IF codec.kind = "video" THEN Absent
                    ELSE IF codec.channels = Absent THEN 1 ELSE codec.channels,
       !.rtcpFeedback = IF codec.rtcpFeedback = Absent THEN {} ELSE codec.rtcpFeedback]

ValidateRtpHeaderExtension(ext) ==
    [ext EXCEPT !.direction = IF ext.direction = Absent THEN "sendrecv" ELSE ext.direction]

ValidCaps(caps) == \A i \in DOMAIN caps.codecs : ValidCodec(caps.codecs[i])

ValidateRtpCapabilities(caps) ==
    [codecs |-> [i \in DOMAIN caps.codecs |-> ValidateRtpCodecCapability(caps.codecs[i])],
     headerExtensions |-> {ValidateRtpHeaderExtension(ext) : ext \in caps.headerExtensions}]

-----------------------------------------------------------------------------
(* Matching.                                                               *)

IsRtxCodec(codec) == codec.mime = "rtx"

MatchCodecs(a, b, strict) ==
    /\ a.mime = b.mime
    /\ a.kind = b.kind
    /\ a.channels = b.channels
    /\ strict /\ a.mime \in {"h264", "vp9"} => a.profile = b.profile

MatchHeaderExtensions(a, b) == a.kind = b.kind /\ a.uri = b.uri

ReduceRtcpFeedback(a, b) == a.rtcpFeedback \cap b.rtcpFeedback

\* Fault: the level of the router is taken as it is.
AnswerLevelRemote(local, remote) == remote.level

\* webrtc::H264GenerateProfileLevelIdForAnswer.
AnswerLevel(local, remote) ==
    IF (local.asymmetry /\ remote.asymmetry) \/ local.level < remote.level
    THEN local.level ELSE remote.level

\* What is read of the payload type of a codec: operator[] puts null where there is none.
PayloadTypeOf(codec) == IF codec.pt = Absent THEN Null ELSE codec.pt

\* One codec of the router: the first local codec that matches it takes, with
\* it, the level of the answer, also for the codecs of the router to come.
ExtendCodec(matched, remote) ==
    LET i == SelectInSeq(matched.local, LAMBDA codec : MatchCodecs(codec, remote, TRUE))
    IN  IF IsRtxCodec(remote) \/ i = 0 THEN matched
        ELSE LET level == AnswerLevel(matched.local[i], remote)
                 local == [matched.local[i] EXCEPT !.level = level]
             IN  [local |-> [matched.local EXCEPT ![i] = local],
                  codecs |-> Append(matched.codecs,
                    [mime |-> local.mime, kind |-> local.kind, channels |-> local.channels,
                     localPt |-> local.pt, localRtxPt |-> Null,
                     remotePt |-> PayloadTypeOf(remote),
                     remoteRtxPt |-> Null,
                     localParameters |-> [profile |-> local.profile, level |-> level],
                     remoteParameters |-> [profile |-> remote.profile, level |-> level],
                     rtcpFeedback |-> ReduceRtcpFeedback(local, remote)])]

RtxFor(codecs, pt) ==
    SelectInSeq(codecs, LAMBDA codec : IsRtxCodec(codec) /\ codec.apt = pt)

\* Fault: the RTX codec of the router is looked up by the local payload type.
AddRtxByLocalPt(codec, local, remote) ==
    LET i == RtxFor(local, codec.localPt)
        j == RtxFor(remote, codec.localPt)
    IN  IF i = 0 \/ j = 0 THEN codec
        ELSE [codec EXCEPT !.localRtxPt = local[i].pt, !.remoteRtxPt = PayloadTypeOf(remote[j])]

AddRtx(codec, local, remote) ==
    LET i == RtxFor(local, codec.localPt)
        j == RtxFor(remote, codec.remotePt)
    IN  IF i = 0 \/ j = 0 THEN codec
        ELSE [codec EXCEPT !.localRtxPt = local[i].pt, !.remoteRtxPt = PayloadTypeOf(remote[j])]

\* The direction is the router's, seen from here.
OurDirection(direction) ==
    CASE direction = "sendonly" -> "recvonly"
      [] direction = "recvonly" -> "sendonly"
      [] OTHER -> direction

ExtendExtensions(local, remote) ==
    {[kind |-> r.kind, uri |-> r.uri, recvId |-> r.id, direction |-> OurDirection(r.direction),
      sendId |-> (CHOOSE l \in local : MatchHeaderExtensions(l, r)).id] :
       r \in {r \in remote : \E l \in local : MatchHeaderExtensions(l, r)}}

GetExtendedRtpCapabilities(localCaps, remoteCaps) ==
    LET local == ValidateRtpCapabilities(localCaps)
        remote == ValidateRtpCapabilities(remoteCaps)
        matched == FoldLeft(ExtendCodec, [local |-> local.codecs, codecs |-> <<>>], remote.codecs)
    IN  [codecs |-> [i \in DOMAIN matched.codecs |->
                       AddRtx(matched.codecs[i], local.codecs, remote.codecs)],
         headerExtensions |-> ExtendExtensions(local.headerExtensions, remote.headerExtensions)]

-----------------------------------------------------------------------------
(* What is derived from the extended capabilities.                         *)

\* A codec as it stands in capabilities or parameters, and its RTX codec.
MediaCodec(codec, pt, parameters) ==
    [mime |-> codec.mime, kind |-> codec.kind, channels |-> codec.channels, pt |-> pt,
     apt |-> Null, parameters |-> parameters, rtcpFeedback |-> codec.rtcpFeedback]

RtxCodec(codec, pt, apt) ==
    [mime |-> "rtx", kind |-> codec.kind, channels |-> Absent, pt |-> pt, apt |-> apt,
     parameters |-> Null, rtcpFeedback |-> {}]

WithRtx(codec, rtxPt) ==
    IF rtxPt = Null THEN <<codec>> ELSE <<codec, RtxCodec(codec, rtxPt, codec.pt)>>

\* Fault: the device announces its own payload types.
RecvCodecsLocalPt(codec) ==
    WithRtx(MediaCodec(codec, codec.localPt, codec.localParameters), codec.remoteRtxPt)

RecvCodecs(codec) ==
    WithRtx(MediaCodec(codec, codec.remotePt, codec.localParameters), codec.remoteRtxPt)

GetRecvRtpCapabilities(extended) ==
    [codecs |-> FlattenSeq([i \in DOMAIN extended.codecs |-> RecvCodecs(extended.codecs[i])]),
     headerExtensions |->
       {[kind |-> ext.kind, uri |-> ext.uri, id |-> ext.recvId, direction |-> ext.direction] :
          ext \in {e \in extended.headerExtensions : e.direction \in {"sendrecv", "recvonly"}}}]

FirstOfKind(kind, extended) == SelectInSeq(extended.codecs, LAMBDA codec : codec.kind = kind)

SendExtensions(kind, extended) ==
    {[uri |-> ext.uri, id |-> ext.sendId] :
       ext \in {e \in extended.headerExtensions :
                  e.kind = kind /\ e.direction \in {"sendrecv", "sendonly"}}}

GetSendingRtpParameters(kind, extended) ==
    LET i == FirstOfKind(kind, extended)
        codec == extended.codecs[i]
    IN  [codecs |-> IF i = 0 THEN <<>>
                    ELSE WithRtx(MediaCodec(codec, codec.localPt, codec.localParameters),
                                 codec.localRtxPt),
         headerExtensions |-> SendExtensions(kind, extended)]

\* Fault: the feedback is left as it was negotiated.
BweFeedbackAll(uris) == {"transport-cc", "goog-remb"}

\* The bandwidth estimation feedback that the header extensions support.
BweFeedback(uris) ==
    IF "transport-wide-cc" \in uris THEN {"transport-cc"}
    ELSE IF "abs-send-time" \in uris THEN {"goog-remb"} ELSE {}

WithoutFeedback(codec, dropped) == [codec EXCEPT !.rtcpFeedback = @ \ dropped]

GetSendingRemoteRtpParameters(kind, extended) ==
    LET i == FirstOfKind(kind, extended)
        codec == extended.codecs[i]
        exts == SendExtensions(kind, extended)
        dropped == {"transport-cc", "goog-remb"} \ BweFeedback({ext.uri : ext \in exts})
        codecs == IF i = 0 THEN <<>>
                  ELSE WithRtx(MediaCodec(codec, codec.localPt, codec.remoteParameters),
                               codec.localRtxPt)
    IN  [codecs |-> [j \in DOMAIN codecs |-> WithoutFeedback(codecs[j], dropped)],
         headerExtensions |-> exts]

CanSend(kind, extended) == FirstOfKind(kind, extended) # 0

\* Fault: the first codec of the consumer is compared with local payload types.
CanReceiveLocalPt(codecs, extended) ==
    codecs # <<>> /\ \E i \in DOMAIN extended.codecs : extended.codecs[i].localPt = codecs[1].pt

CanReceive(codecs, extended) ==
    codecs # <<>> /\ \E i \in DOMAIN extended.codecs : extended.codecs[i].remotePt = codecs[1].pt

\* A codec of the list and the RTX codec behind it.
CodecAndRtx(codecs, i) ==
    IF i + 1 \in DOMAIN codecs /\ IsRtxCodec(codecs[i + 1]) THEN <<codecs[i], codecs[i + 1]>>
    ELSE <<codecs[i]>>

FirstMatching(codecs, capCodec) ==
    SelectInSeq(codecs, LAMBDA codec : MatchCodecs(codec, capCodec, FALSE))

\* The reduced list, or <<>> when the call throws.  Of an empty list without a
\* given codec the first element is null; with a given one, the element after
\* the codec that matches is read whether there is one or not, and isRtxCodec
\* throws for the null that stands for it.
ReduceCodecs(codecs, capCodec) ==
    LET i == FirstMatching(codecs, capCodec)
    IN  IF capCodec = NoCodec
        THEN IF codecs = <<>> THEN <<Null>> ELSE CodecAndRtx(codecs, 1)
        ELSE IF i \in {0, Len(codecs)} THEN <<>> ELSE CodecAndRtx(codecs, i)
=============================================================================
