--------------------------- MODULE SdpCapabilities ---------------------------
(***************************************************************************)
(* The capabilities that libwebrtc shows in an offer:                      *)
(* Handler::GetNativeRtpCapabilities (src/Handler.cpp), which asks for an  *)
(* offer with one section of each kind, and extractRtpCapabilities         *)
(* (src/sdp/Utils.cpp), which reads it.                                    *)
(*                                                                         *)
(* An offer is a sequence of sections, each with its rtpmap, fmtp and      *)
(* rtcp-fb lines in their order (`rtp', `fmtp', `rtcpFb', each with the    *)
(* payload type `pt' that it is for) and its extensions.  The values of a  *)
(* fmtp line are those that Ortc tells apart.                              *)
(***************************************************************************)
EXTENDS Ortc, FiniteSets

FirstSection(offer, kind) == offer[SelectInSeq(offer, LAMBDA m : m.type = kind)]

KindsOf(offer) == {offer[i].type : i \in DOMAIN offer} \cap {"audio", "video"}

\* The number in the rtpmap line of an audio codec; 1 if there is none.
ExtractedChannels(kind, rtp) ==
    IF kind = "video" THEN Absent ELSE IF rtp.encoding = Absent THEN 1 ELSE rtp.encoding

\* A codec without a fmtp line has no parameters: no profile, and no level,
\* which stands as 0.
NoFmtp == [apt |-> Null, profile |-> Absent, level |-> 0, asymmetry |-> FALSE]

\* Fault: the n-th codec has the parameters of the n-th fmtp line.
FmtpByPosition(m, n) == IF n \in DOMAIN m.fmtp THEN m.fmtp[n] ELSE NoFmtp

\* The parameters of the last fmtp line for the payload type of the n-th codec.
Fmtp(m, n) ==
    LET i == SelectLastInSeq(m.fmtp, LAMBDA fmtp : fmtp.pt = m.rtp[n].pt)
    IN  IF i = 0 THEN NoFmtp ELSE m.fmtp[i]

ExtractedCodec(m, n) ==
    LET fmtp == Fmtp(m, n)
    IN  [mime |-> m.rtp[n].mime, kind |-> m.type, pt |-> m.rtp[n].pt,
         channels |-> ExtractedChannels(m.type, m.rtp[n]),
         apt |-> fmtp.apt, profile |-> fmtp.profile, level |-> fmtp.level,
         asymmetry |-> fmtp.asymmetry,
         rtcpFeedback |-> {m.rtcpFb[i].type :
                             i \in {j \in DOMAIN m.rtcpFb : m.rtcpFb[j].pt = m.rtp[n].pt}}]

\* The order of a map by payload type: a codec stands behind those below it.
InOrderOfPt(codecs) ==
    [i \in 1..Cardinality(codecs) |->
       CHOOSE codec \in codecs : Cardinality({c \in codecs : c.pt < codec.pt}) = i - 1]

\* The codecs of the first section of each kind in the order of their payload
\* types, no two of which are the same in one offer of libwebrtc.
ExtractRtpCapabilities(offer) ==
    LET sections == {FirstSection(offer, kind) : kind \in KindsOf(offer)}
        codecs == UNION {{ExtractedCodec(m, n) : n \in DOMAIN m.rtp} : m \in sections}
    IN  [codecs |-> InOrderOfPt(codecs),
         headerExtensions |->
           UNION {{[kind |-> m.type, uri |-> ext.uri, id |-> ext.id, direction |-> Absent] :
                     ext \in m.ext} : m \in sections}]
=============================================================================
