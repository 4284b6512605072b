---------------------------- MODULE MediaSections ----------------------------
(***************************************************************************)
(* The sections that the library writes in the server's name, and what it  *)
(* asks of RTP parameters before it does: src/sdp/MediaSection.cpp, the    *)
(* validation of RTP parameters in src/ortc.cpp, and applyCodecParameters  *)
(* of src/sdp/Utils.cpp.                                                   *)
(*                                                                         *)
(* RTP parameters are records with the members of the JSON object, codecs  *)
(* those of Ortc: the apt of an RTX codec stands beside its parameters.    *)
(***************************************************************************)
EXTENDS SdpStreams

NoKeys == [key \in {} |-> ""]

-----------------------------------------------------------------------------
(* Validation of RTP parameters.  Members that have the wrong JSON type in *)
(* every call, or in none, are left out.                                   *)

ValidRtpCodecParameters(codec) ==
    /\ codec.pt \in Nat
    /\ IF IsRtxCodec(codec) THEN codec.apt \in Nat
       ELSE \A key \in DOMAIN codec.parameters : codec.parameters[key].type # "boolean"

ValidRtpEncodingParameters(encoding) ==
    /\ encoding.rid # ""
    /\ encoding.scalabilityMode # EmptyMode

ValidRtpParameters(params) ==
    /\ \A i \in DOMAIN params.codecs : ValidRtpCodecParameters(params.codecs[i])
    /\ \A i \in DOMAIN params.encodings : ValidRtpEncodingParameters(params.encodings[i])

\* Members that may be missing get their defaults.
ValidateRtpParameters(params) ==
    [params EXCEPT
       !.encodings = [i \in DOMAIN params.encodings |->
                        [params.encodings[i] EXCEPT !.dtx = IF @ = Absent THEN FALSE ELSE @]],
       !.rtcp.reducedSize = IF @ = Absent THEN TRUE ELSE @]

-----------------------------------------------------------------------------
(* Codec options of a producer.                                            *)

BooleanOptions == {"opusStereo", "opusFec", "opusDtx", "opusCbr"}

ValidProducerCodecOptions(options) ==
    \A option \in DOMAIN options :
      options[option].type = IF option \in BooleanOptions THEN "boolean" ELSE "number"

\* The parameters that the server is told, and those of the answer.
ToldKeys ==
    [opusStereo |-> "sprop-stereo", opusFec |-> "useinbandfec", opusDtx |-> "usedtx",
     opusCbr |-> "cbr"]

OpusKeys ==
    [opusStereo |-> "stereo", opusFec |-> "useinbandfec", opusDtx |-> "usedtx",
     opusCbr |-> "cbr", opusMaxPlaybackRate |-> "maxplaybackrate",
     opusMaxAverageBitrate |-> "maxaveragebitrate", opusPtime |-> "ptime"]

VideoKeys ==
    [videoGoogleStartBitrate |-> "x-google-start-bitrate",
     videoGoogleMaxBitrate |-> "x-google-max-bitrate",
     videoGoogleMinBitrate |-> "x-google-min-bitrate"]

AnswerKeys(codec) ==
    IF codec.mime = "opus" THEN OpusKeys
    ELSE IF codec.mime \in {"vp8", "vp9", "h264", "h265"} THEN VideoKeys ELSE NoKeys

\* Fault: the option is stored as the boolean that it is.
WithOptionsAsTyped(parameters, keys, options) ==
    LET given == DOMAIN options \cap DOMAIN keys
    IN  IF given = {} THEN parameters
        ELSE [key \in {keys[option] : option \in given} |->
                options[CHOOSE option \in given : keys[option] = key]] @@ parameters

\* The parameters with the options that were given, booleans as 1 and 0.
WithOptions(parameters, keys, options) ==
    LET given == DOMAIN options \cap DOMAIN keys
        own == {keys[option] : option \in given}
        value(key) == options[CHOOSE option \in given : keys[option] = key].value
    IN  IF given = {} THEN parameters
        ELSE [key \in DOMAIN parameters \cup own |->
                IF key \in own THEN Num(value(key)) ELSE parameters[key]]

-----------------------------------------------------------------------------
(* The sections.                                                           *)

\* rtpmap, fmtp and rtcp-fb lines of a codec.
CodecLines(codec, parameters) ==
    [pt |-> codec.pt, mime |-> codec.mime, apt |-> codec.apt,
     channels |-> IF codec.channels \in {Absent, 1} THEN Absent ELSE codec.channels,
     parameters |-> parameters, rtcpFeedback |-> codec.rtcpFeedback]

\* Fault: an extension that the offer does not have is answered.
AnsweredExtAll(offer, headerExtensions) == headerExtensions

\* "Don't add a header extension if not present in the offer."
AnsweredExt(offer, headerExtensions) ==
    {ext \in headerExtensions : ext.uri \in {own.uri : own \in offer.ext}}

\* AnswerMediaSection of audio or video.
AnswerSection(offer, answerParams, options) ==
    [codecs |-> [i \in DOMAIN answerParams.codecs |->
                   LET codec == answerParams.codecs[i]
                   IN  CodecLines(codec, WithOptions(codec.parameters, AnswerKeys(codec), options))],
     ext |-> AnsweredExt(offer, answerParams.headerExtensions),
     ssrcs |-> <<>>, ssrcGroups |-> <<>>,
     rids |-> [i \in DOMAIN offer.rids |-> [offer.rids[i] EXCEPT !.direction = "recv"]]]

AnswersOpus(answerParams, pt) ==
    \E j \in DOMAIN answerParams.codecs :
      answerParams.codecs[j].mime = "opus" /\ answerParams.codecs[j].pt = pt

WithToldOptions(codec, options) ==
    [codec EXCEPT !.parameters = WithOptions(@, ToldKeys, options)]

ToldCodecs(codecs, answerParams, options) ==
    [i \in DOMAIN codecs |->
       IF AnswersOpus(answerParams, codecs[i].pt) THEN WithToldOptions(codecs[i], options)
       ELSE codecs[i]]

\* What its constructor writes into the parameters that the server is told of:
\* for an opus codec of the answer, into the codec with its payload type.
Told(offerParams, answerParams, options) ==
    [offerParams EXCEPT !.codecs = ToldCodecs(@, answerParams, options)]

\* Fault: the group names the RTX stream first.
OfferFidSwapped(encoding) == Group("FID", <<encoding.rtx, encoding.ssrc>>)

OfferFid(encoding) == Group("FID", <<encoding.ssrc, encoding.rtx>>)

\* MediaSection::Close, and Disable of the first section, by the lines here.
CloseSection(section) ==
    [section EXCEPT !.ext = {}, !.ssrcs = <<>>, !.ssrcGroups = <<>>, !.rids = <<>>]

\* OfferMediaSection of audio or video.  The first encoding and its SSRC are
\* read whether they are there or not; the cname, too, by the caller.
OfferSection(params, trackId) ==
    LET encoding == params.encodings[1]
        msid == <<params.rtcp.cname, trackId>>
        hasRtx == encoding.rtx \notin {Absent, 0}
        lines(id) == LinesOf(id, params.rtcp.cname, msid)
    IN  [codecs |-> [i \in DOMAIN params.codecs |->
                       CodecLines(params.codecs[i], params.codecs[i].parameters)],
         ext |-> params.headerExtensions,
         ssrcs |-> lines(encoding.ssrc) \o IF hasRtx THEN lines(encoding.rtx) ELSE <<>>,
         ssrcGroups |-> IF hasRtx THEN <<OfferFid(encoding)>> ELSE <<>>,
         rids |-> <<>>]

\* The answer of libwebrtc with the parameters that the offer asks for.  Only
\* a boolean sprop-stereo is looked at.
ApplyCodecParameters(params, answer) ==
    [answer EXCEPT !.codecs = [i \in DOMAIN answer.codecs |->
       LET j == SelectInSeq(params.codecs,
                            LAMBDA codec : codec.mime = "opus" /\ codec.pt = answer.codecs[i].pt)
           stereo == IF j = 0 THEN Absent
                     ELSE Lookup(params.codecs[j].parameters, "sprop-stereo")
       IN  IF stereo # Absent /\ stereo.type = "boolean"
           THEN [answer.codecs[i] EXCEPT !.parameters = "stereo" :> Num(stereo.value) @@ @]
           ELSE answer.codecs[i]]]
=============================================================================
