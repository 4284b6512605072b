------------------------------- MODULE MCMedia -------------------------------
(***************************************************************************)
(* Three devices: VP8 and opus with RTX, VP9 with RTX, and H264 with a     *)
(* router that has no RTX.  Two calls of Produce with every form of        *)
(* encodings: none, one, one that asks for three spatial layers, one with  *)
(* an empty mode, and simulcast.  The SSRCs of the first stream wrap       *)
(* around after the second layer.                                          *)
(***************************************************************************)
EXTENDS Media

NoParameters == [key \in {} |-> Null]

ExtendedCodec(mime, kind, localPt, localRtxPt, remotePt, remoteRtxPt, parameters) ==
    [mime |-> mime, kind |-> kind, channels |-> IF kind = "audio" THEN 2 ELSE Absent,
     localPt |-> localPt, localRtxPt |-> localRtxPt,
     remotePt |-> remotePt, remoteRtxPt |-> remoteRtxPt,
     localParameters |-> parameters, remoteParameters |-> NoParameters,
     rtcpFeedback |-> {"nack", "transport-cc"}]

ExtendedExt(kind, uri, sendId, recvId, direction) ==
    [kind |-> kind, uri |-> uri, sendId |-> sendId, recvId |-> recvId, direction |-> direction]

Opus ==
    ExtendedCodec("opus", "audio", 111, Null, 100, Null,
                  "minptime" :> Num(10) @@ "useinbandfec" :> Num(1))

Caps(codecs) ==
    [codecs |-> codecs,
     headerExtensions |->
       {ExtendedExt("audio", "mid", 4, 1, "sendrecv"), ExtendedExt("video", "mid", 4, 1, "sendrecv"),
        ExtendedExt("video", "transport-wide-cc", 3, 5, "sendrecv"),
        ExtendedExt("video", "toffset", 14, 12, "recvonly")}]

MCExtendedCaps ==
    {Caps(<<Opus, ExtendedCodec("vp8", "video", 96, 97, 101, 102, NoParameters)>>),
     Caps(<<ExtendedCodec("vp9", "video", 98, 99, 96, 97, "profile-id" :> Num(0)), Opus>>),
     Caps(<<ExtendedCodec("h264", "video", 100, Null, 111, Null,
                          "packetization-mode" :> Num(1))>>)}

Encoding(active, mode) ==
    [active |-> active, rid |-> "app", maxBitrate |-> Absent, scalabilityMode |-> mode]

MCEncodingChoices ==
    {<<>>, <<Encoding(TRUE, Absent)>>, <<Encoding(TRUE, Mode("L", 3, 2))>>,
     <<Encoding(TRUE, EmptyMode)>>,
     <<[Encoding(FALSE, Mode("L", 1, 2)) EXCEPT !.maxBitrate = 100], Encoding(TRUE, Absent)>>,
     <<Encoding(TRUE, EmptyMode), Encoding(FALSE, Absent), Encoding(TRUE, Absent)>>}

MCOptionChoices ==
    {NoParameters,
     "opusStereo" :> Bool(TRUE) @@ "opusFec" :> Bool(FALSE) @@ "opusDtx" :> Bool(TRUE) @@
     "opusPtime" :> Num(20) @@ "videoGoogleStartBitrate" :> Num(1000)}

MCLocalStreams == {[ssrc |-> 18, rtx |-> 9], [ssrc |-> 4, rtx |-> 0]}

MCServerStreams == {[ssrc |-> 7, rtx |-> 8]}

MCLimits == {-1, 0, 1}

\* Media and data channels share no variable, and no property is about both:
\* no step begins one side when the other has begun.
OneSideAtATime ==
    \/ producers' = <<>>
    \/ dataProducers' = {} /\ dataConsumers' = {} /\ nextSendSctpStreamId' = 0
=============================================================================
