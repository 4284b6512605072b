------------------------------- MODULE Media --------------------------------
(***************************************************************************)
(* What a producer sends, what the server is told that it sends, and what  *)
(* is written in the server's name: SendTransport::Produce with            *)
(* SendHandler::Send, and RecvTransport::Consume with RecvHandler::Receive *)
(* of what the server makes of a producer.  The same calls, by their order *)
(* and their failures, are in SendHandler and RecvHandler; here each is    *)
(* one step on the SSRCs, codecs, options and extensions, and one that     *)
(* throws before it has changed any of these is no step.                   *)
(*                                                                         *)
(* libwebrtc chooses the SSRCs and the extensions of a section.  A kind    *)
(* without a codec is in Device and SendHandler, simulcast of audio, which *)
(* libwebrtc does not have, nowhere.                                       *)
(***************************************************************************)
EXTENDS MediaSections, DataChannels

CONSTANTS
    ExtendedCaps,      \* extended capabilities of a loaded device
    EncodingChoices,   \* sequences of encodings given to Produce
    OptionChoices,     \* codec options given to Produce
    LocalStreams,      \* SSRC and RTX SSRC of a section, 0 for no RTX
    LocalExtensions,   \* URIs of the extensions of a section
    ServerStreams,     \* the same for a consumer
    ProbatorSsrc,      \* 1234 in the code
    MaxProducers, MaxConsumers   \* bounds

\* libwebrtc draws SSRCs other than 0 for a stream and for its RTX.
ASSUME MediaAssumption ==
    /\ \A stream \in LocalStreams \cup ServerStreams :
         stream.ssrc \in 1..SsrcSpace - 1 /\ stream.rtx \in 0..SsrcSpace - 1
    /\ \A stream \in ServerStreams : stream.rtx \notin {0, stream.ssrc}
    /\ MaxProducers \in Nat /\ MaxConsumers \in Nat
    /\ Absent \notin {"", EmptyMode}

\* Up to three encodings: a bound.
ASSUME EncodingsAssumption ==
    \A encodings \in EncodingChoices :
      /\ encodings \in Seq(ToSet(encodings)) /\ Len(encodings) <= 3
      /\ \A i \in DOMAIN encodings :
           /\ DOMAIN encodings[i] = {"active", "rid", "maxBitrate", "scalabilityMode"}
           /\ encodings[i].active \in BOOLEAN

\* What negotiation leaves of the codecs of a router that gives each its
\* payload type: none is RTX, and validation has refused boolean parameters.
ASSUME ExtendedCapsAssumption ==
    \A caps \in ExtendedCaps :
      /\ DOMAIN caps.codecs = 1..Len(caps.codecs) /\ Len(caps.codecs) \in Nat
      /\ \A i \in DOMAIN caps.codecs :
           LET codec == caps.codecs[i]
           IN  /\ codec.mime # "rtx"
               /\ codec.localPt \in Nat /\ codec.localRtxPt \in Nat \cup {Null}
               /\ codec.remotePt \in Nat
               /\ codec.remoteRtxPt \in (Nat \ {codec.remotePt}) \cup {Null}
               /\ \A key \in DOMAIN codec.localParameters :
                    codec.localParameters[key].type # "boolean"

VARIABLES
    extendedRtpCapabilities,
    sendingRtpParametersByKind, sendingRemoteRtpParametersByKind,
    producers,         \* one record for each call of Produce; `told' is NoKeys
                       \* once it was refused, `layered' is history: a layer
                       \* was chosen that changed the sender
    consumers,         \* one for each call of Receive
    probatorConsumerCreated

mediaVars == <<extendedRtpCapabilities, sendingRtpParametersByKind,
               sendingRemoteRtpParametersByKind, producers, consumers,
               probatorConsumerCreated>>
vars == <<mediaVars, dataVars>>

Kinds == {"audio", "video"}

Init ==
    /\ extendedRtpCapabilities \in ExtendedCaps
    /\ sendingRtpParametersByKind =
         [kind \in Kinds |-> GetSendingRtpParameters(kind, extendedRtpCapabilities)]
    /\ sendingRemoteRtpParametersByKind =
         [kind \in Kinds |-> GetSendingRemoteRtpParameters(kind, extendedRtpCapabilities)]
    /\ producers = <<>>
    /\ consumers = <<>>
    /\ probatorConsumerCreated = FALSE
    /\ DataInit

-----------------------------------------------------------------------------
(* The encodings.                                                          *)

Rids == <<"r0", "r1", "r2">>

\* The copy that Produce makes, with the RIDs that Send gives to more than one.
Normalized(given) ==
    [i \in DOMAIN given |->
       [given[i] EXCEPT !.rid = IF Len(given) > 1 THEN Rids[i] ELSE ""]]

\* fillJsonRtpEncodingParameters
FillJson(encoding, given) ==
    [encoding EXCEPT
       !.active = given.active,
       !.rid = IF given.rid = "" THEN @ ELSE given.rid,
       !.maxBitrate = IF given.maxBitrate = Absent THEN @ ELSE given.maxBitrate,
       !.scalabilityMode = IF given.scalabilityMode = Absent THEN @ ELSE given.scalabilityMode]

SpatialLayersOf(given) ==
    SpatialLayers(IF given = <<>> \/ given[1].scalabilityMode = Absent THEN EmptyMode
                  ELSE given[1].scalabilityMode)

\* The SSRCs of a stream and of its RTX are apart, those counted on from them for
\* spatial layers included: drawn at random of 2^32, not by any check.
ASSUME StreamsAssumption ==
    \A encodings \in EncodingChoices, stream \in LocalStreams :
      LET n == SpatialLayersOf(encodings)
      IN  /\ n <= SsrcSpace
          /\ stream.rtx # 0 =>
               \A i, j \in 0..n - 1 :
                 (stream.ssrc + i) % SsrcSpace # (stream.rtx + j) % SsrcSpace

\* "Special case for VP9 with SVC."
HackVp9Svc(given, codec) ==
    Len(given) = 1 /\ SpatialLayersOf(given) > 1 /\ codec.mime = "vp9"

\* The encodings before the scalability mode of simulcast is set.
EncodingsOf(section, given, hack) ==
    LET parsed == GetRtpEncodings(section)
    IN  CASE given = <<>> -> parsed
          [] Len(given) = 1 -> <<FillJson(parsed[1], given[1])>> \o
                               IF hack THEN <<>> ELSE Tail(parsed)
          [] OTHER -> [i \in DOMAIN given |-> FillJson(NoEncoding, given[i])]

\* "If VP8 and there is effective simulcast, add scalabilityMode to each encoding."
WithSimulcastMode(encodings, codec) ==
    IF Len(encodings) > 1 /\ codec.mime \in {"vp8", "h264"}
    THEN [i \in DOMAIN encodings |->
            [encodings[i] EXCEPT !.scalabilityMode = Mode("S", 1, 3)]]
    ELSE encodings

\* The section that libwebrtc offers for a transceiver with these encodings.
\* Its codecs are not read.
LocalSection(kind, given, stream, uris) ==
    LET hasRtx == stream.rtx # 0 /\ kind = "video"
    IN  [ext |-> {[uri |-> uri] : uri \in uris},
         ssrcs |-> IF Len(given) > 1 THEN <<>>
                   ELSE LinesOf(stream.ssrc, "local", "msid") \o
                        IF hasRtx THEN LinesOf(stream.rtx, "local", "msid") ELSE <<>>,
         ssrcGroups |-> IF Len(given) > 1 \/ ~hasRtx THEN <<>>
                        ELSE <<Group("FID", <<stream.ssrc, stream.rtx>>)>>,
         rids |-> IF Len(given) > 1
                  THEN [i \in DOMAIN given |-> [id |-> given[i].rid, direction |-> "send"]]
                  ELSE <<>>]

\* Which encodings the sender of that section has active: those that were
\* given, and one for each further SSRC of a legacy simulcast.
Sender(section, given) ==
    LET streams == IF \E i \in DOMAIN section.ssrcGroups : section.ssrcGroups[i].semantics = "SIM"
                   THEN Len(section.ssrcGroups[1].ssrcs) ELSE 1
    IN  [i \in 1..(IF Len(given) > 1 THEN Len(given) ELSE streams) |->
           i \in DOMAIN given => given[i].active]

-----------------------------------------------------------------------------
(* SendTransport                                                           *)

\* Fault: the member is changed with the parameters of one producer.
KeptParametersShared(kind, told) ==
    [sendingRtpParametersByKind EXCEPT ![kind].codecs = told.codecs]

\* Send works on a copy of the member.
KeptParameters(kind, told) == sendingRtpParametersByKind

\* Fault: the producer is not stopped when its parameters are refused.
ValidatedOnly(producer) ==
    IF ValidRtpParameters(producer.told) THEN producer ELSE [producer EXCEPT !.told = NoKeys]

\* validateRtpParameters at the end of Produce, and StopSending if it throws.
Validated(producer) ==
    IF ValidRtpParameters(producer.told)
    THEN [producer EXCEPT !.told = ValidateRtpParameters(@)]
    ELSE [producer EXCEPT !.told = NoKeys, !.sending = FALSE, !.answer = CloseSection(@)]

Produce(kind, encodings, options, stream, uris) ==
    LET given == Normalized(encodings)
        sending == sendingRtpParametersByKind[kind]
        offered == [sending EXCEPT !.codecs = ReduceCodecs(@, NoCodec)]
        remote == sendingRemoteRtpParametersByKind[kind]
        answering == [remote EXCEPT !.codecs = ReduceCodecs(@, NoCodec)]
        codec == offered.codecs[1]
        hack == HackVp9Svc(given, codec)
        local == LocalSection(kind, given, stream, uris)
        section == IF hack THEN AddLegacySimulcast(local, SpatialLayersOf(given)) ELSE local
        params == [codecs |-> offered.codecs, headerExtensions |-> offered.headerExtensions,
                   encodings |-> WithSimulcastMode(EncodingsOf(section, given, hack), codec),
                   rtcp |-> [cname |-> GetCname(section), reducedSize |-> Absent]]
        told == Told(params, answering, options)
    IN  /\ Len(producers) < MaxProducers
        /\ kind = "audio" => Len(encodings) <= 1
        /\ ValidProducerCodecOptions(options)
        /\ CanSend(kind, extendedRtpCapabilities)
        /\ producers' = Append(producers, Validated(
             [kind |-> kind, encodings |-> encodings, options |-> options,
              section |-> section, sender |-> Sender(section, given), layered |-> FALSE,
              answer |-> AnswerSection(section, answering, options),
              told |-> told, sending |-> TRUE]))
        /\ sendingRtpParametersByKind' = KeptParameters(kind, told)
        /\ UNCHANGED <<extendedRtpCapabilities, sendingRemoteRtpParametersByKind, consumers,
                       probatorConsumerCreated>>

\* Fault: a layer does not switch on those below it.
LayersAlone(active, layer) == [i \in DOMAIN active |-> i = layer]

\* The first three encodings for a layer of 1 to 3; others stay as they are.
Layers(active, layer) ==
    IF layer \in 1..3
    THEN [i \in DOMAIN active |-> IF i <= 3 THEN i <= layer ELSE active[i]]
    ELSE active

WithLayer(producer, layer) ==
    LET sender == Layers(producer.sender, layer)
    IN  [producer EXCEPT !.sender = sender, !.layered = @ \/ sender # producer.sender]

SetMaxSpatialLayer(n, layer) ==
    /\ producers[n].sending
    /\ producers' = [producers EXCEPT ![n] = WithLayer(@, layer)]
    /\ UNCHANGED <<extendedRtpCapabilities, sendingRtpParametersByKind,
                   sendingRemoteRtpParametersByKind, consumers, probatorConsumerCreated>>

-----------------------------------------------------------------------------
(* The server, and RecvTransport.                                          *)

\* What the server has a consumer of this producer receive: the codec at the
\* payload types of the router, with the parameters of the producer.
ServerParams(producer, stream) ==
    LET codec == extendedRtpCapabilities.codecs[FirstOfKind(producer.kind, extendedRtpCapabilities)]
        recvExts == {ext \in GetRecvRtpCapabilities(extendedRtpCapabilities).headerExtensions :
                       ext.kind = producer.kind}
    IN  [codecs |-> WithRtx(MediaCodec(codec, codec.remotePt, producer.told.codecs[1].parameters),
                            codec.remoteRtxPt),
         headerExtensions |-> {[uri |-> ext.uri, id |-> ext.id] : ext \in recvExts},
         encodings |-> <<[NoEncoding EXCEPT
                            !.ssrc = stream.ssrc,
                            !.rtx = IF codec.remoteRtxPt = Null THEN Absent ELSE stream.rtx]>>,
         rtcp |-> [cname |-> producer.told.rtcp.cname, reducedSize |-> Absent]]

BweExtensions == {"abs-send-time", "transport-wide-cc"}

GenerateProbatorRtpParameters(params) ==
    [codecs |-> <<params.codecs[1]>>,
     headerExtensions |-> {ext \in params.headerExtensions : ext.uri \in BweExtensions},
     encodings |-> <<[NoEncoding EXCEPT !.ssrc = ProbatorSsrc]>>,
     rtcp |-> [cname |-> "probator", reducedSize |-> Absent]]

\* libwebrtc's answer has the codecs of the offer, with parameters of its own.
Received(params, id) ==
    LET section == OfferSection(params, id)
        localAnswer == [section EXCEPT !.codecs = [i \in DOMAIN @ |->
                          [@[i] EXCEPT !.parameters = IF IsRtxCodec(section.codecs[i]) THEN Null
                                                      ELSE [key \in {} |-> Null]]]]
    IN  [params |-> params, section |-> section,
         answer |-> ApplyCodecParameters(params, localAnswer)]

\* With the consumer for RTP probation behind the first one of video.
Consume(n, stream) ==
    LET params == ServerParams(producers[n], stream)
        validated == ValidateRtpParameters(params)
        probates == producers[n].kind = "video" /\ ~probatorConsumerCreated
    IN  /\ Len(consumers) < MaxConsumers
        /\ producers[n].told # NoKeys
        /\ ValidRtpParameters(params)
        /\ CanReceive(validated.codecs, extendedRtpCapabilities)
        /\ consumers' = consumers \o <<Received(validated, Len(consumers) + 1)>> \o
                        IF probates
                        THEN <<Received(GenerateProbatorRtpParameters(validated), 0)>>
                        ELSE <<>>
        /\ probatorConsumerCreated' = (probatorConsumerCreated \/ probates)
        /\ UNCHANGED <<extendedRtpCapabilities, sendingRtpParametersByKind,
                       sendingRemoteRtpParametersByKind, producers>>

MediaNext ==
    \/ \E kind \in Kinds, encodings \in EncodingChoices, options \in OptionChoices,
          stream \in LocalStreams, uris \in LocalExtensions :
         Produce(kind, encodings, options, stream, uris)
    \/ \E n \in DOMAIN producers, layer \in 0..4 : SetMaxSpatialLayer(n, layer)
    \/ \E n \in DOMAIN producers, stream \in ServerStreams : Consume(n, stream)

Next ==
    \/ MediaNext /\ UNCHANGED dataVars
    \/ DataNext /\ UNCHANGED mediaVars

Spec == Init /\ [][Next]_vars

-----------------------------------------------------------------------------
(* Properties                                                              *)

Accepted == {n \in DOMAIN producers : producers[n].told # NoKeys}

IsSsrc(ssrc) == ssrc \in 0..SsrcSpace - 1

\* SSRCs are of 32 bits, whatever was added to them.
TypeOK ==
    /\ extendedRtpCapabilities \in ExtendedCaps
    /\ Len(producers) <= MaxProducers
    /\ \A n \in DOMAIN producers :
         /\ \A i \in DOMAIN producers[n].section.ssrcs : IsSsrc(producers[n].section.ssrcs[i].id)
         /\ \A i \in DOMAIN producers[n].sender : producers[n].sender[i] \in BOOLEAN
    /\ \A n \in Accepted : \A i \in DOMAIN producers[n].told.encodings :
         LET encoding == producers[n].told.encodings[i]
         IN  /\ encoding.ssrc = Absent \/ IsSsrc(encoding.ssrc)
             /\ encoding.rtx = Absent \/ IsSsrc(encoding.rtx)
             /\ encoding.dtx \in BOOLEAN
    /\ probatorConsumerCreated \in BOOLEAN
    /\ nextSendSctpStreamId \in 0..SctpNumStreams - 1

FidOf(section, ssrc) ==
    LET group == SelectInSeq(section.ssrcGroups,
                             LAMBDA g : g.semantics = "FID" /\ g.ssrcs[1] = ssrc)
    IN  IF group = 0 THEN Absent ELSE section.ssrcGroups[group].ssrcs[2]

\* The encodings that the server is told are the streams of the section that
\* libwebrtc was given: with RIDs, those RIDs in their order; with SSRCs, the
\* first SSRC and its RTX SSRC alone, which for VP9 SVC head as many SSRCs as
\* the mode has spatial layers, all different, each with an RTX SSRC of its
\* own if the first has one.  The CNAME is the section's.
EncodingsDescribeSection ==
    \A n \in Accepted :
      LET section == producers[n].section
          encodings == producers[n].told.encodings
          given == producers[n].encodings
          ids == {section.ssrcs[i].id : i \in DOMAIN section.ssrcs}
      IN  /\ Len(encodings) = IF Len(given) > 1 THEN Len(given) ELSE 1
          /\ \A i \in DOMAIN section.ssrcs :
               section.ssrcs[i].attribute = "cname" =>
                 section.ssrcs[i].value = producers[n].told.rtcp.cname
          /\ IF section.ssrcs = <<>>
             THEN \A i \in DOMAIN encodings :
                    /\ encodings[i].ssrc = Absent
                    /\ encodings[i].rid = section.rids[i].id
             ELSE /\ encodings[1].rid = Absent
                  /\ encodings[1].ssrc = section.ssrcs[1].id
                  /\ encodings[1].rtx = FidOf(section, section.ssrcs[1].id)
                  /\ Cardinality(ids) =
                       Len(producers[n].sender) * (IF encodings[1].rtx = Absent THEN 1 ELSE 2)
                  /\ \A id \in ids : encodings[1].rtx # Absent =>
                       FidOf(section, id) # Absent \/ \E other \in ids : FidOf(section, other) = id

\* The server is told of the encodings that the sender has: as many, unless
\* they are the layers of one, and each as active as it was when it was told;
\* once the application has chosen another layer, no encoding is active above
\* one that is not.
SenderMatchesTold ==
    \A n \in Accepted :
      LET p == producers[n]
      IN  /\ Len(p.told.encodings) \in {1, Len(p.sender)}
          /\ ~p.layered => \A i \in DOMAIN p.told.encodings :
               p.told.encodings[i].active \in {Absent, p.sender[i]}
          /\ p.layered =>
               \A i, j \in DOMAIN p.sender : i < j /\ p.sender[j] => p.sender[i]

\* The parameters of the first codec that a call of Produce may have changed:
\* those that its own options ask for.
ToldParameters(n) == producers[n].told.codecs[1].parameters

\* The codec options of one producer reach the server and the answer for that
\* producer only, and nothing else of what was negotiated changes: neither
\* the order of the calls nor a call that fails leaves anything behind.
OptionsStayWithTheirProducer ==
    \A n \in Accepted :
      LET p == producers[n]
          codec == GetSendingRtpParameters(p.kind, extendedRtpCapabilities).codecs[1]
          options == IF codec.mime = "opus" THEN DOMAIN p.options \cap DOMAIN ToldKeys ELSE {}
          own == {ToldKeys[option] : option \in options}
      IN  /\ DOMAIN ToldParameters(n) = DOMAIN codec.parameters \cup own
          /\ \A key \in DOMAIN codec.parameters \ own :
               ToldParameters(n)[key] = codec.parameters[key]
          /\ \A option \in options :
               ToldParameters(n)[ToldKeys[option]].value = p.options[option].value

\* What the answer in the server's name says of a producer is what the server
\* is told of it: the same codecs in the same order at the same payload types,
\* each extension at the id that the server was told and only if it was
\* offered, the RIDs of the offer, and for opus the same FEC, DTX, CBR and
\* stereo wherever an option sets them.
AnswerAgreesWithTold ==
    \A n \in Accepted :
      LET p == producers[n]
          pts(codecs) == [i \in DOMAIN codecs |-> codecs[i].pt]
          answered == p.answer.codecs[1].parameters
      IN  /\ pts(p.answer.codecs) = pts(p.told.codecs)
          /\ p.answer.ext \subseteq p.told.headerExtensions
          /\ \A ext \in p.answer.ext : \E own \in p.section.ext : own.uri = ext.uri
          /\ Len(p.answer.rids) = Len(p.section.rids)
          /\ \A i \in DOMAIN p.answer.rids : p.answer.rids[i].id = p.section.rids[i].id
          /\ p.told.codecs[1].mime = "opus" =>
               \A option \in DOMAIN p.options \cap DOMAIN ToldKeys :
                 answered[OpusKeys[option]] = ToldParameters(n)[ToldKeys[option]]

\* A Produce that throws after it has negotiated sends nothing: the track is
\* sent exactly if the application was handed the parameters of the producer.
\* No codec option is a reason to throw, only an empty scalability mode.
RefusedProduceSendsNothing ==
    \A n \in DOMAIN producers :
      /\ n \in Accepted <=> producers[n].sending
      /\ n \notin Accepted =>
           /\ producers[n].answer.ext = {} /\ producers[n].answer.rids = <<>>
           /\ \E i \in DOMAIN producers[n].encodings :
                producers[n].encodings[i].scalabilityMode = EmptyMode

\* What is produced can be consumed: a device with the same capabilities takes
\* what the server makes of the producer, its codec options included.
ProducedIsConsumable ==
    \A n \in Accepted, stream \in ServerStreams :
      LET params == ServerParams(producers[n], stream)
      IN  /\ ValidRtpParameters(params)
          /\ CanReceive(params.codecs, extendedRtpCapabilities)

\* The section offered to our own peer connection for a consumer says what the
\* server sends: reading it back gives the stream, its RTX stream and CNAME of
\* the parameters, each payload type once, RTX behind the codec that it is
\* for, and the answer has the same codecs.  The probator repeats the codec of
\* a consumer of video, and is there once.
ConsumedStreamIsOffered ==
    /\ \A c \in DOMAIN consumers :
         LET section == consumers[c].section
             params == consumers[c].params
             pts == {section.codecs[i].pt : i \in DOMAIN section.codecs}
         IN  /\ GetRtpEncodings(section) =
                  <<[NoEncoding EXCEPT !.ssrc = params.encodings[1].ssrc,
                                       !.rtx = params.encodings[1].rtx]>>
             /\ GetCname(section) = params.rtcp.cname
             /\ Cardinality(pts) = Len(section.codecs)
             /\ \A i \in DOMAIN section.codecs :
                  IsRtxCodec(section.codecs[i]) =>
                    i > 1 /\ section.codecs[i].apt = section.codecs[i - 1].pt
             /\ \A i \in DOMAIN section.codecs :
                  consumers[c].answer.codecs[i].pt = section.codecs[i].pt
    /\ LET probators == {c \in DOMAIN consumers : consumers[c].params.rtcp.cname = "probator"}
       IN  /\ Cardinality(probators) = IF probatorConsumerCreated THEN 1 ELSE 0
           /\ \A c \in probators : c > 1 /\
                LET probator == consumers[c].params
                    first == consumers[c - 1].params
                IN  /\ probator.codecs = <<first.codecs[1]>>
                    /\ probator.headerExtensions \subseteq first.headerExtensions
=============================================================================
