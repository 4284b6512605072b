----------------------------- MODULE MediaProofs -----------------------------
(***************************************************************************)
(* Proofs about Media, for any capabilities, encodings, options, SSRCs,    *)
(* limits and number of streams.                                           *)
(***************************************************************************)
EXTENDS Media, TLAPS, WellFoundedInduction, FiniteSetTheorems

-----------------------------------------------------------------------------
(* Indices and lists.                                                      *)

\* Every set of indices that is not empty has a least one.
LEMMA LeastIndex ==
  ASSUME NEW I, I \subseteq Nat, I # {}
  PROVE  \E i \in I : \A j \in I : i <= j
<1>1. PICK i \in I : \A j \in I : ~ (<<j, i>> \in OpToRel(<, Nat))
  BY NatLessThanWellFounded, WFMin, Zenon
<1>2. ASSUME NEW j \in I, j < i PROVE FALSE
  <2>1. <<j, i>> \in Nat \X Nat
    BY SMT
  <2>2. <<j, i>>[1] < <<j, i>>[2]
    BY <1>2
  <2>3. <<j, i>> \in OpToRel(<, Nat)
    BY <2>1, <2>2, Zenon DEF OpToRel
  <2> QED
    BY <1>1, <2>3
<1> QED
  BY <1>2

\* Min is the least of some indices.
LEMMA MinOfIndices ==
  ASSUME NEW I, I \subseteq Nat, I # {}
  PROVE  Min(I) \in I /\ \A j \in I : Min(I) <= j
<1>1. \E i \in I : \A j \in I : i <= j
  BY LeastIndex
<1> QED
  BY <1>1, Zenon DEF Min

\* And the only one that is.
LEMMA MinIs ==
  ASSUME NEW I, I \subseteq Nat, NEW m \in I, \A i \in I : m <= i
  PROVE  Min(I) = m
<1> PICK k : k = Min(I)
  OBVIOUS
<1>1. k \in I /\ \A i \in I : k <= i
  BY MinOfIndices
<1>2. k \in Nat /\ m \in Nat /\ k <= m /\ m <= k
  BY <1>1
<1> QED
  BY <1>2

\* A function from 1..n is a list of n elements.
LEMMA Listed ==
  ASSUME NEW n \in Nat, NEW s, s = [i \in 1..n |-> s[i]]
  PROVE  s \in Seq(ToSet(s)) /\ Len(s) = n
<1>1. s \in [1..n -> ToSet(s)]
  <2>1. \A i \in 1..n : s[i] \in ToSet(s)
    BY DEF ToSet
  <2> HIDE DEF ToSet
  <2> QED
    BY <2>1
<1> QED
  BY <1>1

\* A list of one element.
LEMMA ListOfOne ==
  ASSUME NEW e
  PROVE  /\ DOMAIN <<e>> = 1..Len(<<e>>) /\ DOMAIN <<e>> = {1} /\ Len(<<e>>) = 1
         /\ <<e>>[1] = e /\ <<e>> \o <<>> = <<e>>
  OBVIOUS

\* A list behind a list.
IsJoined(both, a, n, b, m) ==
    /\ DOMAIN both = 1..n + m
    /\ \A j \in 1..n : both[j] = a[j]
    /\ \A j \in 1..m : both[n + j] = b[j]

\* Two lists make one.
LEMMA Joined ==
  ASSUME NEW S, NEW a \in Seq(S), NEW b \in Seq(S), NEW n, n = Len(a), NEW m, m = Len(b)
  PROVE  IsJoined(a \o b, a, n, b, m)
<1>1. n \in Nat /\ m \in Nat
  OBVIOUS
<1>2. DOMAIN (a \o b) = 1..n + m /\ \A j \in 1..n : (a \o b)[j] = a[j]
  OBVIOUS
<1>3. ASSUME NEW j \in 1..m PROVE (a \o b)[n + j] = b[j]
  <2>1. n + j \in 1..n + m /\ ~ n + j <= n /\ (n + j) - n = j
    BY <1>1
  <2> QED
    BY <2>1
<1> QED
  BY <1>2, <1>3 DEF IsJoined

\* The first index in order is 1 if that is one of them.
LEMMA InOrderFirst ==
  ASSUME NEW n \in Nat, NEW I, I \subseteq 1..n, 1 \in I
  PROVE  /\ DOMAIN InOrder(I) = 1..Cardinality(I) /\ Cardinality(I) \in Nat
         /\ 1 \in DOMAIN InOrder(I) /\ InOrder(I)[1] = 1
<1> DEFINE Below(i) == {j \in I : j < i}
<1>1. IsFiniteSet(I)
  <2>1. IsFiniteSet(1..n)
    BY FS_Interval
  <2> QED
    BY <2>1, FS_Subset
<1>2. Cardinality(I) \in Nat /\ Cardinality(I) # 0
  BY <1>1, FS_CardinalityType, FS_EmptySet
<1>3. DOMAIN InOrder(I) = 1..Cardinality(I) /\ 1 \in 1..Cardinality(I)
  BY <1>2 DEF InOrder
<1>4. Cardinality(Below(1)) = 0
  <2>1. \A j \in I : j \in 1..n
    OBVIOUS
  <2>2. \A j \in I : ~ j < 1
    BY <2>1
  <2>3. Below(1) = {}
    BY <2>2
  <2> QED
    BY <2>3, FS_EmptySet
<1>5. ASSUME NEW i \in I, Cardinality(Below(i)) = 0 PROVE i = 1
  <2>1. Below(i) = {}
    <3>1. IsFiniteSet(Below(i))
      BY <1>1, FS_Subset
    <3> HIDE DEF Below
    <3> QED
      BY <1>5, <3>1, FS_EmptySet
  <2>2. 1 \notin Below(i) /\ i \in 1..n
    BY <2>1
  <2> QED
    BY <2>2
<1>6. (CHOOSE i \in I : Cardinality(Below(i)) = 1 - 1) = 1
  <2>1. 1 - 1 = 0
    OBVIOUS
  <2> HIDE DEF Below
  <2> QED
    BY <1>4, <1>5, <2>1
<1> QED
  BY <1>2, <1>3, <1>6 DEF InOrder

-----------------------------------------------------------------------------
(* Data channels.                                                          *)

\* What libwebrtc and the server have of one channel agrees.
ToldTruly(d) ==
    /\ d.told.streamId = d.channel.id
    /\ d.told.ordered = d.channel.ordered
    /\ ToldLimit(d.told.maxRetransmits) = d.channel.maxRetransmits
    /\ ToldLimit(d.told.maxPacketLifeTime) = d.channel.maxRetransmitTime
    /\ d.told.ordered =>
         d.channel.maxRetransmits = Absent /\ d.channel.maxRetransmitTime = Absent

\* The limit that validation leaves in the parameters.
Validly(limit) == IF limit = Absent THEN 0 ELSE limit

\* A limit reaches libwebrtc and the server alike: 0 and -1 are none for both.
LEMMA LimitIsTold ==
  ASSUME NEW limit \in Limits
  PROVE  ToldLimit(Validly(GivenLimit(limit))) = EffectiveLimit(GivenLimit(limit))
  BY DataChannelsAssumption DEF GivenLimit, ToldLimit, EffectiveLimit, Validly

\* No limit is told as 0, and has no effect.
LEMMA NoLimitIsTold ==
  /\ ToldLimit(Validly(Absent)) = Absent
  /\ EffectiveLimit(Absent) = Absent
  BY DataChannelsAssumption DEF ToldLimit, EffectiveLimit, Validly

\* Validation, one parameter at a time.
LEMMA ValidatedParameters ==
  ASSUME NEW streamId, NEW ordered \in BOOLEAN, NEW protocol,
         NEW lifeTime, NEW retransmits, NEW params, NEW told,
         params = [streamId |-> streamId, ordered |-> ordered, protocol |-> protocol,
                   maxPacketLifeTime |-> lifeTime, maxRetransmits |-> retransmits],
         told = ValidateSctpStreamParameters(params)
  PROVE  /\ told.streamId = streamId
         /\ told.ordered = ordered
         /\ told.maxPacketLifeTime = Validly(lifeTime)
         /\ told.maxRetransmits = Validly(retransmits)
         /\ protocol # Absent => told.protocol = protocol
<1>1. ordered # Absent
  BY DataChannelsAssumption
<1>2. /\ params.streamId = streamId /\ params.ordered = ordered
      /\ params.protocol = protocol /\ params.maxPacketLifeTime = lifeTime
      /\ params.maxRetransmits = retransmits
      /\ DOMAIN params = {"streamId", "ordered", "protocol", "maxPacketLifeTime", "maxRetransmits"}
  OBVIOUS
<1>3. told = [params EXCEPT !.ordered = ordered,
                            !.maxPacketLifeTime = Validly(lifeTime),
                            !.maxRetransmits = Validly(retransmits),
                            !.protocol = IF protocol = Absent THEN "" ELSE protocol]
  BY <1>1, <1>2, Zenon DEF ValidateSctpStreamParameters, Validly
<1> QED
  BY <1>2, <1>3

\* The channel that ProduceData makes is as the server is told.
LEMMA ProducedChannel ==
  ASSUME NEW protocol \in Protocols, NEW ordered \in BOOLEAN,
         NEW maxRetransmits \in Limits, NEW maxPacketLifeTime \in Limits,
         NEW init, init = SendInit(protocol, ordered, maxRetransmits, maxPacketLifeTime),
         ValidSctpStreamParameters(SendStreamParameters(init)),
         NEW d, d = [channel |-> CreateDataChannel(init),
                     told |-> ValidateSctpStreamParameters(SendStreamParameters(init))]
  PROVE  /\ ToldTruly(d)
         /\ d.told.protocol = d.channel.protocol
         /\ d.channel.id = init.id
<1> DEFINE retransmits == GivenLimit(maxRetransmits)
           lifeTime == GivenLimit(maxPacketLifeTime)
<1>1. /\ init.id = nextSendSctpStreamId
      /\ init.ordered = ordered /\ init.protocol = protocol
      /\ init.maxRetransmits = retransmits /\ init.maxRetransmitTime = lifeTime
  BY DEF SendInit
<1>2. d.channel = [init EXCEPT !.maxRetransmits = EffectiveLimit(retransmits),
                               !.maxRetransmitTime = EffectiveLimit(lifeTime)]
  BY <1>1 DEF CreateDataChannel
<1>3. /\ d.channel.id = init.id
      /\ d.channel.ordered = ordered /\ d.channel.protocol = protocol
      /\ d.channel.maxRetransmits = EffectiveLimit(retransmits)
      /\ d.channel.maxRetransmitTime = EffectiveLimit(lifeTime)
  BY <1>1, <1>2 DEF SendInit
<1>4. SendStreamParameters(init) =
        [streamId |-> init.id, ordered |-> ordered, protocol |-> protocol,
         maxPacketLifeTime |-> lifeTime, maxRetransmits |-> retransmits]
  BY <1>1 DEF SendStreamParameters, ToldStreamId
<1>5. protocol # Absent
  BY DataChannelsAssumption
<1>6. /\ d.told.streamId = init.id
      /\ d.told.ordered = ordered /\ d.told.protocol = protocol
      /\ d.told.maxPacketLifeTime = Validly(lifeTime)
      /\ d.told.maxRetransmits = Validly(retransmits)
  BY <1>4, <1>5, ValidatedParameters
<1>7. /\ ToldLimit(Validly(retransmits)) = EffectiveLimit(retransmits)
      /\ ToldLimit(Validly(lifeTime)) = EffectiveLimit(lifeTime)
  BY LimitIsTold
<1>8. ordered => retransmits = Absent /\ lifeTime = Absent
  BY <1>4 DEF ValidSctpStreamParameters, Limited
<1>9. ordered => EffectiveLimit(retransmits) = Absent /\ EffectiveLimit(lifeTime) = Absent
  BY <1>8, NoLimitIsTold
<1> HIDE DEF retransmits, lifeTime
<1> QED
  BY <1>3, <1>6, <1>7, <1>9 DEF ToldTruly

\* The channel that ConsumeData makes is as the application is told.
LEMMA ConsumedChannel ==
  ASSUME NEW streamId, NEW protocol, NEW ordered \in BOOLEAN, NEW params, NEW init, NEW d,
         params = [streamId |-> streamId, ordered |-> ordered, protocol |-> Absent,
                   maxPacketLifeTime |-> Absent, maxRetransmits |-> Absent],
         init = [id |-> streamId, negotiated |-> TRUE, protocol |-> protocol,
                 ordered |-> ordered, maxRetransmits |-> Absent, maxRetransmitTime |-> Absent],
         d = [channel |-> CreateDataChannel(init), told |-> ValidateSctpStreamParameters(params)]
  PROVE  ToldTruly(d)
<1>1. d.channel = [id |-> streamId, negotiated |-> TRUE, protocol |-> protocol,
                   ordered |-> ordered, maxRetransmits |-> Absent, maxRetransmitTime |-> Absent]
  BY NoLimitIsTold DEF CreateDataChannel
<1>2. d.told = ValidateSctpStreamParameters(params)
  OBVIOUS
<1>3. /\ d.told.streamId = streamId /\ d.told.ordered = ordered
      /\ d.told.maxPacketLifeTime = Validly(Absent)
      /\ d.told.maxRetransmits = Validly(Absent)
  BY <1>2, ValidatedParameters
<1>4. /\ d.channel.id = streamId /\ d.channel.ordered = ordered
      /\ d.channel.maxRetransmits = Absent /\ d.channel.maxRetransmitTime = Absent
  BY <1>1
<1> QED
  BY <1>3, <1>4, NoLimitIsTold DEF ToldTruly

\* The property is inductive: no channel is changed after it has been made.
LEMMA DataStep ==
  ASSUME ChannelIsAsTold, DataNext
  PROVE  ChannelIsAsTold'
<1>1. ASSUME NEW protocol \in Protocols, NEW ordered \in BOOLEAN,
             NEW maxRetransmits \in Limits, NEW maxPacketLifeTime \in Limits,
             ProduceData(protocol, ordered, maxRetransmits, maxPacketLifeTime)
      PROVE  ChannelIsAsTold'
  <2> DEFINE init == SendInit(protocol, ordered, maxRetransmits, maxPacketLifeTime)
             new == [channel |-> CreateDataChannel(init),
                     told |-> ValidateSctpStreamParameters(SendStreamParameters(init))]
  <2>1. /\ ValidSctpStreamParameters(SendStreamParameters(init))
        /\ \A d \in dataProducers : d.channel.id # init.id
        /\ dataProducers' = dataProducers \cup {new}
        /\ dataConsumers' = dataConsumers
    BY <1>1 DEF ProduceData, CanProduceData, CanCreateDataChannel
  <2> HIDE DEF init
  <2>2. init = SendInit(protocol, ordered, maxRetransmits, maxPacketLifeTime)
    BY DEF init
  <2>3. /\ ToldTruly(new)
        /\ new.told.protocol = new.channel.protocol
        /\ new.channel.id = init.id
    BY <2>1, <2>2, ProducedChannel
  <2> HIDE DEF new
  <2>4. \A d \in dataProducers : d.told.streamId # new.told.streamId
    BY <2>1, <2>3 DEF ChannelIsAsTold, ToldTruly
  <2> QED
    BY <2>1, <2>3, <2>4 DEF ChannelIsAsTold, ToldTruly
<1>2. ASSUME NEW d \in dataProducers, CloseDataProducer(d)
      PROVE  ChannelIsAsTold'
  BY <1>2 DEF CloseDataProducer, ChannelIsAsTold
<1>3. ASSUME NEW streamId \in ServerStreamIds, NEW protocol \in Protocols,
             ConsumeData(streamId, protocol)
      PROVE  ChannelIsAsTold'
  <2>1. PICK new : /\ ToldTruly(new)
                   /\ dataConsumers' = dataConsumers \cup {new}
                   /\ dataProducers' = dataProducers
    BY <1>3, ConsumedChannel DEF ConsumeData
  <2> QED
    BY <2>1 DEF ChannelIsAsTold, ToldTruly
<1> QED
  BY <1>1, <1>2, <1>3 DEF DataNext

\* The server and libwebrtc have the same of every data channel, and no two
\* open ones share an id, for any number of streams and any limits.
THEOREM ChannelAlwaysAsTold == Spec => []ChannelIsAsTold
<1>1. Init => ChannelIsAsTold
  BY DEF Init, DataInit, ChannelIsAsTold
<1>2. ChannelIsAsTold /\ [Next]_vars => ChannelIsAsTold'
  <2> SUFFICES ASSUME ChannelIsAsTold, [Next]_vars PROVE ChannelIsAsTold'
    OBVIOUS
  <2>1. CASE DataNext
    BY <2>1, DataStep
  <2>2. CASE UNCHANGED dataVars
    BY <2>2 DEF ChannelIsAsTold, dataVars
  <2> QED
    BY <2>1, <2>2 DEF Next, vars
<1> QED
  BY <1>1, <1>2, PTL DEF Spec

-----------------------------------------------------------------------------
(* Codec options.                                                          *)

ProducerFields ==
    {"kind", "encodings", "options", "section", "sender", "layered", "answer", "told", "sending"}

\* What every producer is, by its form.
ProducersTypeOK ==
    /\ \E S : producers \in Seq(S)
    /\ \A n \in DOMAIN producers : DOMAIN producers[n] = ProducerFields
    /\ \A n \in DOMAIN producers : producers[n].kind \in Kinds

\* What was negotiated is what every producer starts from.
NegotiatedKept ==
    /\ sendingRtpParametersByKind =
         [kind \in Kinds |-> GetSendingRtpParameters(kind, extendedRtpCapabilities)]
    /\ sendingRemoteRtpParametersByKind =
         [kind \in Kinds |-> GetSendingRemoteRtpParameters(kind, extendedRtpCapabilities)]

\* No two options of ToldKeys have the same parameter.
LEMMA ToldKeysInjective == IsInjective(ToldKeys)
<1>1. DOMAIN ToldKeys = {"opusStereo", "opusFec", "opusDtx", "opusCbr"}
  BY DEF ToldKeys
<1>2. /\ ToldKeys["opusStereo"] = "sprop-stereo" /\ ToldKeys["opusFec"] = "useinbandfec"
      /\ ToldKeys["opusDtx"] = "usedtx" /\ ToldKeys["opusCbr"] = "cbr"
  BY DEF ToldKeys
<1> QED
  BY <1>1, <1>2 DEF IsInjective

\* The options that have a parameter, and those parameters.
Given(keys, options) == DOMAIN options \cap DOMAIN keys
GivenKeys(keys, options) == {keys[option] : option \in Given(keys, options)}

\* Of the options, those with a parameter get theirs, and nothing else changes.
HasOptions(new, parameters, keys, options) ==
    /\ DOMAIN new = DOMAIN parameters \cup GivenKeys(keys, options)
    /\ \A key \in DOMAIN parameters \ GivenKeys(keys, options) : new[key] = parameters[key]
    /\ \A option \in Given(keys, options) : new[keys[option]] = Num(options[option].value)

\* That is what WithOptions returns.
LEMMA OptionsGiven ==
  ASSUME NEW parameters, NEW keys, IsInjective(keys), NEW options
  PROVE  HasOptions(WithOptions(parameters, keys, options), parameters, keys, options)
<1> DEFINE new == WithOptions(parameters, keys, options)
           given == DOMAIN options \cap DOMAIN keys
           own == {keys[option] : option \in given}
           value(key) == options[CHOOSE option \in given : keys[option] = key].value
<1> SUFFICES HasOptions(new, parameters, keys, options)
  OBVIOUS
<1>1. Given(keys, options) = given /\ GivenKeys(keys, options) = own
  BY DEF Given, GivenKeys
<1>2. CASE given = {}
  <2>1. new = parameters
    BY <1>2 DEF WithOptions
  <2> HIDE DEF new
  <2> QED
    BY <1>1, <1>2, <2>1 DEF HasOptions
<1>3. CASE given # {}
  <2>1. new = [key \in DOMAIN parameters \cup own |->
                 IF key \in own THEN Num(value(key)) ELSE parameters[key]]
    BY <1>3 DEF WithOptions
  <2> HIDE DEF new
  <2>2. ASSUME NEW option \in given PROVE new[keys[option]] = Num(options[option].value)
    <3>1. (CHOOSE other \in given : keys[other] = keys[option]) = option
      BY DEF IsInjective
    <3> QED
      BY <2>1, <3>1
  <2> QED
    BY <1>1, <2>1, <2>2 DEF HasOptions
<1> QED
  BY <1>2, <1>3

-----------------------------------------------------------------------------
(* Produce: the first codec of what the server is told.                    *)

\* Both codecs that Send makes parameters of: the codec, and perhaps its RTX.
LEMMA ReducedCodecs ==
  ASSUME NEW codecs, NEW codec, NEW rtx, rtx.mime = "rtx",
         codecs = <<codec>> \/ codecs = <<codec, rtx>>,
         NEW reduced, reduced = ReduceCodecs(codecs, NoCodec)
  PROVE  reduced = codecs
<1>1. codecs # <<>> /\ reduced = CodecAndRtx(codecs, 1)
  BY DEF ReduceCodecs
<1>2. CASE codecs = <<codec>>
  BY <1>1, <1>2 DEF CodecAndRtx
<1>3. CASE codecs = <<codec, rtx>>
  BY <1>1, <1>3 DEF CodecAndRtx, IsRtxCodec
<1> QED
  BY <1>2, <1>3

\* Without some feedback a codec is the same.
LEMMA LessFeedback ==
  ASSUME NEW codec, {"mime", "pt"} \subseteq DOMAIN codec, NEW dropped, NEW less,
         less = WithoutFeedback(codec, dropped)
  PROVE  less.mime = codec.mime /\ less.pt = codec.pt
  BY Zenon DEF WithoutFeedback

\* The codec that a producer of a kind sends first.
SentCodec(kind) ==
    LET codec == extendedRtpCapabilities.codecs[FirstOfKind(kind, extendedRtpCapabilities)]
    IN  MediaCodec(codec, codec.localPt, codec.localParameters)

\* What Send works on, and what it puts into the answer.
Offered(kind) == ReduceCodecs(sendingRtpParametersByKind[kind].codecs, NoCodec)
Answering(kind) == ReduceCodecs(sendingRemoteRtpParametersByKind[kind].codecs, NoCodec)

\* The first codec of an offer is the one that is told to the server.
LEMMA OfferedFirst ==
  ASSUME NegotiatedKept, NEW kind \in Kinds, CanSend(kind, extendedRtpCapabilities)
  PROVE  /\ 1 \in DOMAIN Offered(kind)
         /\ Offered(kind)[1] = SentCodec(kind)
         /\ GetSendingRtpParameters(kind, extendedRtpCapabilities).codecs[1] = SentCodec(kind)
<1> DEFINE codec == extendedRtpCapabilities.codecs[FirstOfKind(kind, extendedRtpCapabilities)]
           codecs == GetSendingRtpParameters(kind, extendedRtpCapabilities).codecs
           rtx == RtxCodec(SentCodec(kind), codec.localRtxPt, SentCodec(kind).pt)
<1>1. codecs = WithRtx(SentCodec(kind), codec.localRtxPt)
  BY DEF GetSendingRtpParameters, CanSend, SentCodec
<1>2. codecs = <<SentCodec(kind)>> \/ codecs = <<SentCodec(kind), rtx>>
  BY <1>1 DEF WithRtx
<1>3. rtx.mime = "rtx"
  BY DEF RtxCodec
<1>4. sendingRtpParametersByKind[kind].codecs = codecs
  BY DEF NegotiatedKept
<1> HIDE DEF codecs, rtx
<1>5. Offered(kind) = codecs
  BY <1>2, <1>3, <1>4, ReducedCodecs DEF Offered
<1> QED
  BY <1>2, <1>5 DEF codecs

\* The codecs of the offer and of the answer: the codec, and perhaps its RTX.
AnsweredAlike(offered, answered, codec) ==
    \E own, ownRtx, rtx :
      /\ own.mime = codec.mime /\ own.pt = codec.pt
      /\ ownRtx.mime = "rtx" /\ ownRtx.pt = rtx.pt /\ "pt" \in DOMAIN rtx
      /\ \/ offered = <<codec>> /\ answered = <<own>>
         \/ offered = <<codec, rtx>> /\ answered = <<own, ownRtx>>

\* The answer has the codecs of the offer, at their payload types.
LEMMA AnsweringCodecs ==
  ASSUME NegotiatedKept, NEW kind \in Kinds, CanSend(kind, extendedRtpCapabilities)
  PROVE  AnsweredAlike(Offered(kind), Answering(kind), SentCodec(kind))
<1> DEFINE codec == extendedRtpCapabilities.codecs[FirstOfKind(kind, extendedRtpCapabilities)]
           media == MediaCodec(codec, codec.localPt, codec.remoteParameters)
           both == WithRtx(media, codec.localRtxPt)
           exts == SendExtensions(kind, extendedRtpCapabilities)
           dropped == {"transport-cc", "goog-remb"} \ BweFeedback({ext.uri : ext \in exts})
           codecs == [j \in DOMAIN both |-> WithoutFeedback(both[j], dropped)]
           rtx == RtxCodec(media, codec.localRtxPt, media.pt)
           own == WithoutFeedback(media, dropped)
           ownRtx == WithoutFeedback(rtx, dropped)
           sentRtx == RtxCodec(SentCodec(kind), codec.localRtxPt, SentCodec(kind).pt)
<1>1. sendingRemoteRtpParametersByKind[kind].codecs = codecs
  <2>1. sendingRemoteRtpParametersByKind[kind] =
          GetSendingRemoteRtpParameters(kind, extendedRtpCapabilities)
    BY DEF NegotiatedKept
  <2>2. FirstOfKind(kind, extendedRtpCapabilities) # 0
    BY DEF CanSend
  <2>3. GetSendingRemoteRtpParameters(kind, extendedRtpCapabilities).codecs = codecs
    BY <2>2 DEF GetSendingRemoteRtpParameters
  <2> QED
    BY <2>1, <2>3
<1>2. media.pt = codec.localPt /\ media.mime = codec.mime
  BY DEF MediaCodec
<1>3. IF codec.localRtxPt = Null THEN both = <<media>> ELSE both = <<media, rtx>>
  BY DEF WithRtx
<1>4. ownRtx.mime = "rtx" /\ ownRtx.pt = codec.localRtxPt
  <2>1. rtx.mime = "rtx" /\ rtx.pt = codec.localRtxPt /\ {"mime", "pt"} \subseteq DOMAIN rtx
    BY DEF RtxCodec
  <2> HIDE DEF rtx, dropped
  <2> QED
    BY <2>1, LessFeedback
<1>5. own.mime = codec.mime /\ own.pt = codec.localPt
  <2>1. {"mime", "pt"} \subseteq DOMAIN media
    BY DEF MediaCodec
  <2> HIDE DEF media, dropped
  <2> QED
    BY <1>2, <2>1, LessFeedback
<1>6. SentCodec(kind).pt = codec.localPt /\ SentCodec(kind).mime = codec.mime
  BY DEF SentCodec, MediaCodec
<1>7. sentRtx.mime = "rtx" /\ sentRtx.pt = codec.localRtxPt /\ "pt" \in DOMAIN sentRtx
  BY DEF RtxCodec
<1>8. sendingRtpParametersByKind[kind].codecs =
        IF codec.localRtxPt = Null THEN <<SentCodec(kind)>> ELSE <<SentCodec(kind), sentRtx>>
  BY DEF NegotiatedKept, GetSendingRtpParameters, CanSend, SentCodec, WithRtx
<1> HIDE DEF media, both, rtx, dropped, sentRtx
<1>9. codecs = IF codec.localRtxPt = Null THEN <<own>> ELSE <<own, ownRtx>>
  <2>1. CASE codec.localRtxPt = Null
    BY <1>3, <2>1
  <2>2. CASE codec.localRtxPt # Null
    BY <1>3, <2>2
  <2> QED
    BY <2>1, <2>2
<1> HIDE DEF codec, codecs, own, ownRtx
<1>10. Answering(kind) = codecs
  BY <1>1, <1>4, <1>9, ReducedCodecs DEF Answering
<1>11. Offered(kind) = IF codec.localRtxPt = Null THEN <<SentCodec(kind)>>
                       ELSE <<SentCodec(kind), sentRtx>>
  BY <1>7, <1>8, ReducedCodecs DEF Offered
<1>12. own.mime = SentCodec(kind).mime /\ own.pt = SentCodec(kind).pt
       /\ ownRtx.mime = "rtx" /\ ownRtx.pt = sentRtx.pt /\ "pt" \in DOMAIN sentRtx
  BY <1>4, <1>5, <1>6, <1>7
<1> QED
  BY <1>9, <1>10, <1>11, <1>12, Zenon DEF AnsweredAlike

\* The answer has an opus codec at the payload type of the codec that is sent
\* exactly if that is opus.
LEMMA AnsweringFirst ==
  ASSUME NegotiatedKept, NEW kind \in Kinds, CanSend(kind, extendedRtpCapabilities)
  PROVE  (\E j \in DOMAIN Answering(kind) :
            Answering(kind)[j].mime = "opus" /\ Answering(kind)[j].pt = SentCodec(kind).pt)
         <=> SentCodec(kind).mime = "opus"
<1>1. PICK own, ownRtx :
        /\ own.mime = SentCodec(kind).mime /\ own.pt = SentCodec(kind).pt
        /\ ownRtx.mime = "rtx"
        /\ Answering(kind) = <<own>> \/ Answering(kind) = <<own, ownRtx>>
  BY AnsweringCodecs, Zenon DEF AnsweredAlike
<1>2. CASE Answering(kind) = <<own>>
  BY <1>1, <1>2
<1>3. CASE Answering(kind) = <<own, ownRtx>>
  BY <1>1, <1>3
<1> QED
  BY <1>1, <1>2, <1>3

\* The property for one producer.
OptionsStay(p, extended) ==
    LET codec == GetSendingRtpParameters(p.kind, extended).codecs[1]
        options == IF codec.mime = "opus" THEN DOMAIN p.options \cap DOMAIN ToldKeys ELSE {}
        own == {ToldKeys[option] : option \in options}
        told == p.told.codecs[1].parameters
    IN  /\ DOMAIN told = DOMAIN codec.parameters \cup own
        /\ \A key \in DOMAIN codec.parameters \ own : told[key] = codec.parameters[key]
        /\ \A option \in options : told[ToldKeys[option]].value = p.options[option].value

\* The first codec of what the server is told has the options if it is opus.
LEMMA ToldOptions ==
  ASSUME NegotiatedKept, NEW kind \in Kinds, CanSend(kind, extendedRtpCapabilities),
         NEW params, "codecs" \in DOMAIN params, params.codecs = Offered(kind),
         NEW answering, answering.codecs = Answering(kind),
         NEW p, p.told.codecs = Told(params, answering, p.options).codecs, p.kind = kind
  PROVE  OptionsStay(p, extendedRtpCapabilities)
<1> DEFINE codec == SentCodec(kind)
           first == p.told.codecs[1]
           changed(c) == WithToldOptions(c, p.options)
           new == WithOptions(codec.parameters, ToldKeys, p.options)
<1>1. first = IF codec.mime = "opus" THEN changed(codec) ELSE codec
  <2>1. Told(params, answering, p.options).codecs =
          ToldCodecs(params.codecs, answering, p.options)
    BY Zenon DEF Told
  <2>2. AnswersOpus(answering, codec.pt) <=> codec.mime = "opus"
    BY AnsweringFirst DEF AnswersOpus
  <2> QED
    BY <2>1, <2>2, OfferedFirst DEF ToldCodecs
<1>2. changed(codec).parameters = new
  BY Zenon DEF WithToldOptions, SentCodec, MediaCodec
<1>3. GetSendingRtpParameters(p.kind, extendedRtpCapabilities).codecs[1] = codec
  BY OfferedFirst
<1> HIDE DEF changed
<1>4. CASE codec.mime = "opus"
  <2>1. first.parameters = new
    BY <1>1, <1>2, <1>4
  <2>2. HasOptions(new, codec.parameters, ToldKeys, p.options)
    BY OptionsGiven, ToldKeysInjective
  <2> HIDE DEF new
  <2>3. \A option \in DOMAIN p.options \cap DOMAIN ToldKeys :
          new[ToldKeys[option]].value = p.options[option].value
    <3>1. \A option \in DOMAIN p.options \cap DOMAIN ToldKeys :
            new[ToldKeys[option]] = Num(p.options[option].value)
      BY <2>2, Zenon DEF HasOptions, Given
    <3>2. \A n : Num(n).value = n
      BY DEF Num
    <3> QED
      BY <3>1, <3>2, Zenon
  <2> QED
    BY <1>3, <1>4, <2>1, <2>2, <2>3 DEF OptionsStay, HasOptions, Given, GivenKeys
<1>5. CASE codec.mime # "opus"
  BY <1>1, <1>3, <1>5 DEF OptionsStay
<1> QED
  BY <1>4, <1>5

\* The property of the answer, for one producer.
AnswerAgrees(p) ==
    LET answered == p.answer.codecs[1].parameters
        told == p.told.codecs[1].parameters
    IN  /\ [i \in DOMAIN p.answer.codecs |-> p.answer.codecs[i].pt]
             = [i \in DOMAIN p.told.codecs |-> p.told.codecs[i].pt]
        /\ p.answer.ext \subseteq p.told.headerExtensions
        /\ \A ext \in p.answer.ext : \E own \in p.section.ext : own.uri = ext.uri
        /\ Len(p.answer.rids) = Len(p.section.rids)
        /\ \A i \in DOMAIN p.answer.rids : p.answer.rids[i].id = p.section.rids[i].id
        /\ p.told.codecs[1].mime = "opus" =>
             \A option \in DOMAIN p.options \cap DOMAIN ToldKeys :
               answered[OpusKeys[option]] = told[ToldKeys[option]]

\* No two options have the same parameter in the answer, either.
LEMMA OpusKeysInjective == IsInjective(OpusKeys)
<1>1. DOMAIN OpusKeys = {"opusStereo", "opusFec", "opusDtx", "opusCbr", "opusMaxPlaybackRate",
                         "opusMaxAverageBitrate", "opusPtime"}
  BY DEF OpusKeys
<1>2. /\ OpusKeys["opusStereo"] = "stereo" /\ OpusKeys["opusFec"] = "useinbandfec"
      /\ OpusKeys["opusDtx"] = "usedtx" /\ OpusKeys["opusCbr"] = "cbr"
      /\ OpusKeys["opusMaxPlaybackRate"] = "maxplaybackrate"
      /\ OpusKeys["opusMaxAverageBitrate"] = "maxaveragebitrate"
      /\ OpusKeys["opusPtime"] = "ptime"
  BY DEF OpusKeys
<1> QED
  BY <1>1, <1>2 DEF IsInjective

\* A codec with options has its payload type and its name.
LEMMA OptionsKeepPt ==
  ASSUME NEW codec, "pt" \in DOMAIN codec, NEW options
  PROVE  WithToldOptions(codec, options).pt = codec.pt
  BY Zenon DEF WithToldOptions

\* What the server is told has the payload types of the offer.
LEMMA ToldPts ==
  ASSUME NEW codecs, \A i \in DOMAIN codecs : "pt" \in DOMAIN codecs[i],
         NEW answering, NEW options, NEW told, told = ToldCodecs(codecs, answering, options)
  PROVE  DOMAIN told = DOMAIN codecs /\ \A i \in DOMAIN codecs : told[i].pt = codecs[i].pt
<1>1. DOMAIN told = DOMAIN codecs
  BY DEF ToldCodecs
<1>2. ASSUME NEW i \in DOMAIN codecs PROVE told[i].pt = codecs[i].pt
  <2>1. told[i] = codecs[i] \/ told[i] = WithToldOptions(codecs[i], options)
    BY DEF ToldCodecs
  <2> QED
    BY <2>1, OptionsKeepPt
<1> QED
  BY <1>1, <1>2

\* The answer that Send writes agrees with what the server is told.
LEMMA AnswerIsTold ==
  ASSUME NegotiatedKept, NEW kind \in Kinds, CanSend(kind, extendedRtpCapabilities),
         NEW params, "codecs" \in DOMAIN params, params.codecs = Offered(kind),
         params.headerExtensions = sendingRtpParametersByKind[kind].headerExtensions,
         NEW answering, answering.codecs = Answering(kind),
         answering.headerExtensions = sendingRemoteRtpParametersByKind[kind].headerExtensions,
         NEW p, p.told.codecs = Told(params, answering, p.options).codecs,
         p.told.headerExtensions = params.headerExtensions,
         p.answer = AnswerSection(p.section, answering, p.options)
  PROVE  AnswerAgrees(p)
<1> DEFINE codec == SentCodec(kind)
           told == p.told.codecs
           answer == p.answer.codecs
<1>1. told = ToldCodecs(Offered(kind), answering, p.options)
  BY Zenon DEF Told
<1>2. answer = [i \in DOMAIN Answering(kind) |->
                  CodecLines(Answering(kind)[i], WithOptions(Answering(kind)[i].parameters,
                               AnswerKeys(Answering(kind)[i]), p.options))]
  BY DEF AnswerSection
<1>3. PICK own, ownRtx, rtx :
        /\ own.mime = codec.mime /\ own.pt = codec.pt
        /\ ownRtx.mime = "rtx" /\ ownRtx.pt = rtx.pt /\ "pt" \in DOMAIN rtx
        /\ \/ Offered(kind) = <<codec>> /\ Answering(kind) = <<own>>
           \/ Offered(kind) = <<codec, rtx>> /\ Answering(kind) = <<own, ownRtx>>
  BY AnsweringCodecs, Zenon DEF AnsweredAlike
<1>4. "pt" \in DOMAIN codec /\ "parameters" \in DOMAIN codec /\ "mime" \in DOMAIN codec
  BY DEF SentCodec, MediaCodec
<1> HIDE DEF codec, told, answer
<1>5. /\ DOMAIN Answering(kind) = DOMAIN Offered(kind)
      /\ \A i \in DOMAIN Offered(kind) :
           "pt" \in DOMAIN Offered(kind)[i] /\ Answering(kind)[i].pt = Offered(kind)[i].pt
      /\ 1 \in DOMAIN Offered(kind) /\ Offered(kind)[1] = codec /\ Answering(kind)[1] = own
  <2>1. CASE Offered(kind) = <<codec>> /\ Answering(kind) = <<own>>
    BY <1>3, <1>4, <2>1
  <2>2. CASE Offered(kind) = <<codec, rtx>> /\ Answering(kind) = <<own, ownRtx>>
    BY <1>3, <1>4, <2>2
  <2> QED
    BY <1>3, <2>1, <2>2
<1>6. DOMAIN told = DOMAIN Offered(kind)
      /\ \A i \in DOMAIN Offered(kind) : told[i].pt = Offered(kind)[i].pt
  BY <1>1, <1>5, ToldPts
<1>7. DOMAIN answer = DOMAIN Offered(kind)
      /\ \A i \in DOMAIN Offered(kind) : answer[i].pt = Offered(kind)[i].pt
  BY <1>2, <1>5 DEF CodecLines
<1>8. [i \in DOMAIN answer |-> answer[i].pt] = [i \in DOMAIN told |-> told[i].pt]
  BY <1>6, <1>7
<1>9. p.answer.ext \subseteq p.told.headerExtensions
      /\ \A ext \in p.answer.ext : \E mine \in p.section.ext : mine.uri = ext.uri
  <2>1. p.answer.ext = {ext \in answering.headerExtensions :
                          ext.uri \in {mine.uri : mine \in p.section.ext}}
    BY DEF AnswerSection, AnsweredExt
  <2>2. answering.headerExtensions = p.told.headerExtensions
    BY DEF NegotiatedKept, GetSendingRtpParameters, GetSendingRemoteRtpParameters
  <2> QED
    BY <2>1, <2>2
<1>10. Len(p.answer.rids) = Len(p.section.rids)
       /\ \A i \in DOMAIN p.answer.rids : p.answer.rids[i].id = p.section.rids[i].id
  BY DEF AnswerSection
<1>11. ASSUME told[1].mime = "opus", NEW option \in DOMAIN p.options \cap DOMAIN ToldKeys
       PROVE  answer[1].parameters[OpusKeys[option]] = told[1].parameters[ToldKeys[option]]
  <2>1. told[1] = IF AnswersOpus(answering, codec.pt) THEN WithToldOptions(codec, p.options)
                  ELSE codec
    BY <1>1, <1>5 DEF ToldCodecs
  <2>2. WithToldOptions(codec, p.options).mime = codec.mime
        /\ WithToldOptions(codec, p.options).parameters
             = WithOptions(codec.parameters, ToldKeys, p.options)
    BY <1>4, Zenon DEF WithToldOptions
  <2>3. codec.mime = "opus"
    BY <1>11, <2>1, <2>2
  <2>4. AnswersOpus(answering, codec.pt)
    BY <1>3, <1>5, <2>3 DEF AnswersOpus
  <2>5. told[1].parameters = WithOptions(codec.parameters, ToldKeys, p.options)
    BY <2>1, <2>2, <2>4
  <2>6. HasOptions(told[1].parameters, codec.parameters, ToldKeys, p.options)
    BY <2>5, OptionsGiven, ToldKeysInjective
  <2>7. AnswerKeys(own) = OpusKeys
    BY <1>3, <2>3 DEF AnswerKeys
  <2>8. answer[1].parameters = WithOptions(own.parameters, OpusKeys, p.options)
    BY <1>2, <1>5, <2>7 DEF CodecLines
  <2>9. HasOptions(answer[1].parameters, own.parameters, OpusKeys, p.options)
    BY <2>8, OptionsGiven, OpusKeysInjective
  <2>10. DOMAIN ToldKeys \subseteq DOMAIN OpusKeys
    BY DEF ToldKeys, OpusKeys
  <2>11. told[1].parameters[ToldKeys[option]] = Num(p.options[option].value)
    BY <2>6, Zenon DEF HasOptions, Given
  <2>12. answer[1].parameters[OpusKeys[option]] = Num(p.options[option].value)
    BY <2>9, <2>10 DEF HasOptions, Given
  <2> QED
    BY <2>11, <2>12
<1> QED
  BY <1>8, <1>9, <1>10, <1>11, Zenon DEF AnswerAgrees, answer, told

\* What is told of a producer can be sent on: no parameter of its first codec is
\* a boolean.
ToldNumbers(p, extended) ==
    /\ CanSend(p.kind, extended)
    /\ \A key \in DOMAIN p.told.codecs[1].parameters :
         p.told.codecs[1].parameters[key].type # "boolean"

\* The first codec of a kind is one of the negotiated codecs.
LEMMA FirstOfKindFinds ==
  ASSUME NEW extended \in ExtendedCaps, NEW kind, CanSend(kind, extended)
  PROVE  FirstOfKind(kind, extended) \in DOMAIN extended.codecs
<1> DEFINE codecs == extended.codecs
           I == {i \in 1..Len(codecs) : codecs[i].kind = kind}
<1>1. Len(codecs) \in Nat /\ DOMAIN codecs = 1..Len(codecs)
  BY ExtendedCapsAssumption
<1>2. FirstOfKind(kind, extended) = Min(I) /\ I # {}
  BY DEF FirstOfKind, SelectInSeq, CanSend
<1>3. I \subseteq Nat /\ I \subseteq 1..Len(codecs)
  BY <1>1
<1>4. Min(I) \in I
  BY <1>2, <1>3, MinOfIndices
<1> QED
  BY <1>1, <1>2, <1>3, <1>4

\* Options make numbers of booleans, and validation has let no other pass.
LEMMA ToldIsNumbers ==
  ASSUME NegotiatedKept, extendedRtpCapabilities \in ExtendedCaps,
         NEW kind \in Kinds, CanSend(kind, extendedRtpCapabilities),
         NEW params, "codecs" \in DOMAIN params, params.codecs = Offered(kind), NEW answering,
         NEW p, p.told.codecs = Told(params, answering, p.options).codecs, p.kind = kind
  PROVE  ToldNumbers(p, extendedRtpCapabilities)
<1> DEFINE codec == SentCodec(kind)
           first == p.told.codecs[1]
<1>1. first = codec \/ first = WithToldOptions(codec, p.options)
  <2>1. p.told.codecs = ToldCodecs(Offered(kind), answering, p.options)
    BY Zenon DEF Told
  <2> QED
    BY <2>1, OfferedFirst DEF ToldCodecs
<1>2. WithToldOptions(codec, p.options).parameters
        = WithOptions(codec.parameters, ToldKeys, p.options)
  BY Zenon DEF WithToldOptions, SentCodec, MediaCodec
<1>3. \A key \in DOMAIN codec.parameters : codec.parameters[key].type # "boolean"
  <2>1. codec.parameters =
          extendedRtpCapabilities.codecs[FirstOfKind(kind, extendedRtpCapabilities)].localParameters
    BY DEF SentCodec, MediaCodec
  <2> QED
    BY <2>1, FirstOfKindFinds, ExtendedCapsAssumption
<1> HIDE DEF codec, first
<1>4. CASE first = codec
  BY <1>3, <1>4 DEF ToldNumbers, first
<1>5. CASE first = WithToldOptions(codec, p.options)
  <2>1. HasOptions(first.parameters, codec.parameters, ToldKeys, p.options)
    BY <1>2, <1>5, OptionsGiven, ToldKeysInjective
  <2>2. \A n : Num(n).type = "number"
    BY DEF Num
  <2>3. ASSUME NEW key \in DOMAIN first.parameters
        PROVE  first.parameters[key].type # "boolean"
    <3>1. CASE key \in GivenKeys(ToldKeys, p.options)
      <4>1. PICK option \in Given(ToldKeys, p.options) : key = ToldKeys[option]
        BY <3>1 DEF GivenKeys
      <4> QED
        BY <2>1, <2>2, <4>1 DEF HasOptions
    <3>2. CASE key \notin GivenKeys(ToldKeys, p.options)
      BY <1>3, <2>1, <3>2 DEF HasOptions
    <3> QED
      BY <3>1, <3>2
  <2> QED
    BY <2>3 DEF ToldNumbers, first
<1> QED
  BY <1>1, <1>4, <1>5

\* What validation leaves of a producer: only what it is told may be gone.
LEMMA ValidatedProducer ==
  ASSUME NEW p, DOMAIN p = ProducerFields,
         {"codecs", "headerExtensions", "encodings", "rtcp"} \subseteq DOMAIN p.told,
         NEW new, new = Validated(p)
  PROVE  /\ DOMAIN new = ProducerFields
         /\ new.kind = p.kind /\ new.options = p.options /\ new.section = p.section
         /\ new.told # NoKeys => /\ new.told.codecs = p.told.codecs
                               /\ new.told.headerExtensions = p.told.headerExtensions
                               /\ new.answer = p.answer
<1>1. CASE ValidRtpParameters(p.told)
  <2>1. new = [p EXCEPT !.told = ValidateRtpParameters(p.told)]
    BY <1>1 DEF Validated
  <2>2. /\ ValidateRtpParameters(p.told).codecs = p.told.codecs
        /\ ValidateRtpParameters(p.told).headerExtensions = p.told.headerExtensions
    BY Zenon DEF ValidateRtpParameters
  <2> QED
    BY <2>1, <2>2, Zenon DEF ProducerFields
<1>2. CASE ~ValidRtpParameters(p.told)
  <2>1. new = [p EXCEPT !.told = NoKeys, !.sending = FALSE, !.answer = CloseSection(@)]
    BY <1>2 DEF Validated
  <2> QED
    BY <2>1, Zenon DEF ProducerFields
<1> QED
  BY <1>1, <1>2

\* What is so of every producer that the server was told of.
AsTold(p, extended) ==
    OptionsStay(p, extended) /\ AnswerAgrees(p) /\ ToldNumbers(p, extended)

\* Produce adds one producer, and what was negotiated stays.
LEMMA ProduceStep ==
  ASSUME NegotiatedKept, extendedRtpCapabilities \in ExtendedCaps,
         NEW kind \in Kinds, NEW encodings, NEW options, NEW stream, NEW uris,
         Produce(kind, encodings, options, stream, uris)
  PROVE  \E new : /\ producers' = Append(producers, new)
                  /\ DOMAIN new = ProducerFields /\ new.kind = kind
                  /\ new.told # NoKeys => AsTold(new, extendedRtpCapabilities)
<1> DEFINE given == Normalized(encodings)
           sending == sendingRtpParametersByKind[kind]
           offered == [sending EXCEPT !.codecs = ReduceCodecs(@, NoCodec)]
           remote == sendingRemoteRtpParametersByKind[kind]
           answering == [remote EXCEPT !.codecs = ReduceCodecs(@, NoCodec)]
           codec == offered.codecs[1]
           hack == HackVp9Svc(given, codec)
           local == LocalSection(kind, given, stream, uris)
           section == IF hack THEN AddLegacySimulcast(local, SpatialLayersOf(given)) ELSE local
           params == [codecs |-> offered.codecs, headerExtensions |-> offered.headerExtensions,
                      encodings |-> WithSimulcastMode(EncodingsOf(section, given, hack), codec),
                      rtcp |-> [cname |-> GetCname(section), reducedSize |-> Absent]]
           told == Told(params, answering, options)
           p == [kind |-> kind, encodings |-> encodings, options |-> options,
                 section |-> section, sender |-> Sender(section, given), layered |-> FALSE,
                 answer |-> AnswerSection(section, answering, options),
                 told |-> told, sending |-> TRUE]
           new == Validated(p)
<1>1. producers' = Append(producers, new) /\ CanSend(kind, extendedRtpCapabilities)
  BY Zenon DEF Produce
<1>2. /\ sending = GetSendingRtpParameters(kind, extendedRtpCapabilities)
      /\ remote = GetSendingRemoteRtpParameters(kind, extendedRtpCapabilities)
  BY DEF NegotiatedKept
<1>3. {"codecs", "headerExtensions"} \subseteq DOMAIN sending \cap DOMAIN remote
  BY <1>2 DEF GetSendingRtpParameters, GetSendingRemoteRtpParameters
<1> HIDE DEF sending, remote
<1>4. offered.codecs = ReduceCodecs(sending.codecs, NoCodec)
      /\ offered.headerExtensions = sending.headerExtensions
  BY <1>3, Zenon
<1>5. answering.codecs = ReduceCodecs(remote.codecs, NoCodec)
      /\ answering.headerExtensions = remote.headerExtensions
  BY <1>3, Zenon
<1>6. /\ offered.codecs = Offered(kind) /\ answering.codecs = Answering(kind)
      /\ offered.headerExtensions = sendingRtpParametersByKind[kind].headerExtensions
      /\ answering.headerExtensions = sendingRemoteRtpParametersByKind[kind].headerExtensions
  BY <1>4, <1>5 DEF sending, remote, Offered, Answering
<1> HIDE DEF offered, answering, hack, section
<1>7. /\ DOMAIN params = {"codecs", "headerExtensions", "encodings", "rtcp"}
      /\ params.codecs = Offered(kind)
      /\ params.headerExtensions = sendingRtpParametersByKind[kind].headerExtensions
  BY <1>6
<1> HIDE DEF params
<1>8. DOMAIN p = ProducerFields /\ p.kind = kind /\ p.options = options /\ p.told = told
      /\ p.section = section /\ p.answer = AnswerSection(section, answering, options)
  BY DEF ProducerFields
<1>9. DOMAIN told = DOMAIN params /\ told.headerExtensions = params.headerExtensions
  BY <1>7, Zenon DEF Told
<1> HIDE DEF p, told
<1>10. /\ DOMAIN new = ProducerFields
       /\ new.kind = kind /\ new.options = options /\ new.section = section
       /\ new.told # NoKeys => /\ new.told.codecs = told.codecs
                             /\ new.told.headerExtensions = params.headerExtensions
                             /\ new.answer = AnswerSection(section, answering, options)
  BY <1>7, <1>8, <1>9, ValidatedProducer
<1> HIDE DEF new
<1>11. ASSUME new.told # NoKeys
       PROVE  AsTold(new, extendedRtpCapabilities)
  <2>1. new.told.codecs = Told(params, answering, new.options).codecs
    BY <1>10, <1>11 DEF told
  <2>2. OptionsStay(new, extendedRtpCapabilities)
    BY <1>1, <1>6, <1>7, <1>10, <2>1, ToldOptions
  <2>3. new.answer = AnswerSection(new.section, answering, new.options)
        /\ new.told.headerExtensions = params.headerExtensions
    BY <1>10, <1>11
  <2>4. AnswerAgrees(new)
    BY <1>1, <1>6, <1>7, <2>1, <2>3, AnswerIsTold
  <2>5. ToldNumbers(new, extendedRtpCapabilities)
    BY <1>1, <1>7, <1>10, <2>1, ToldIsNumbers
  <2> QED
    BY <2>2, <2>4, <2>5 DEF AsTold
<1> QED
  BY <1>1, <1>10, <1>11

\* A layer changes neither what a producer is of nor what the server is told.
LEMMA LayerKeeps ==
  ASSUME NEW p, DOMAIN p = ProducerFields, NEW layer
  PROVE  /\ DOMAIN WithLayer(p, layer) = ProducerFields
         /\ WithLayer(p, layer).kind = p.kind
         /\ WithLayer(p, layer).options = p.options
         /\ WithLayer(p, layer).told = p.told
         /\ WithLayer(p, layer).section = p.section
         /\ WithLayer(p, layer).answer = p.answer
  BY Zenon DEF WithLayer, ProducerFields

\* The invariant: the properties of each producer, what they start from, and
\* the form of producers.
ProducersInv ==
    /\ ProducersTypeOK
    /\ NegotiatedKept
    /\ extendedRtpCapabilities \in ExtendedCaps
    /\ \A n \in DOMAIN producers :
         producers[n].told # NoKeys => AsTold(producers[n], extendedRtpCapabilities)

\* Every step of the transports keeps it.
LEMMA MediaStep ==
  ASSUME ProducersInv, MediaNext
  PROVE  ProducersInv'
<1> PICK S : producers \in Seq(S)
  BY DEF ProducersInv, ProducersTypeOK
<1> USE DEF ProducersInv, ProducersTypeOK
<1>1. ASSUME NEW kind \in Kinds, NEW encodings \in EncodingChoices,
             NEW options \in OptionChoices, NEW stream \in LocalStreams,
             NEW uris \in LocalExtensions, Produce(kind, encodings, options, stream, uris)
      PROVE  ProducersInv'
  <2>1. PICK new : /\ producers' = Append(producers, new)
                   /\ DOMAIN new = ProducerFields /\ new.kind = kind
                   /\ new.told # NoKeys => AsTold(new, extendedRtpCapabilities)
    BY <1>1, ProduceStep
  <2>2. /\ DOMAIN producers' = DOMAIN producers \cup {Len(producers) + 1}
        /\ producers'[Len(producers) + 1] = new
        /\ \A n \in DOMAIN producers : producers'[n] = producers[n]
        /\ producers' \in Seq(S \cup {new})
    BY <2>1
  <2>3. extendedRtpCapabilities' = extendedRtpCapabilities /\ NegotiatedKept'
    BY <1>1, Zenon DEF Produce, KeptParameters, NegotiatedKept
  <2> QED
    BY <2>1, <2>2, <2>3
<1>2. ASSUME NEW n \in DOMAIN producers, NEW layer \in 0..4, SetMaxSpatialLayer(n, layer)
      PROVE  ProducersInv'
  <2> DEFINE new == WithLayer(producers[n], layer)
  <2>1. /\ DOMAIN new = ProducerFields /\ new.kind = producers[n].kind
        /\ new.options = producers[n].options /\ new.told = producers[n].told
        /\ new.section = producers[n].section /\ new.answer = producers[n].answer
    BY LayerKeeps
  <2>2. producers' = [producers EXCEPT ![n] = new]
    BY <1>2 DEF SetMaxSpatialLayer
  <2>3. extendedRtpCapabilities' = extendedRtpCapabilities /\ NegotiatedKept'
    BY <1>2 DEF SetMaxSpatialLayer, NegotiatedKept
  <2> HIDE DEF new
  <2>4. /\ DOMAIN producers' = DOMAIN producers /\ producers'[n] = new
        /\ \A m \in DOMAIN producers \ {n} : producers'[m] = producers[m]
        /\ producers' \in Seq(S \cup {new})
    BY <2>2
  <2>5. AsTold(producers[n], extendedRtpCapabilities) => AsTold(new, extendedRtpCapabilities)
    BY <2>1 DEF AsTold, OptionsStay, AnswerAgrees, ToldNumbers
  <2> QED
    BY <2>1, <2>3, <2>4, <2>5
<1>3. ASSUME NEW n \in DOMAIN producers, NEW stream \in ServerStreams, Consume(n, stream)
      PROVE  ProducersInv'
  BY <1>3, Zenon DEF Consume, NegotiatedKept
<1> QED
  BY <1>1, <1>2, <1>3 DEF MediaNext

\* That holds at any time, for any capabilities, options, encodings and SSRCs.
THEOREM ProducersInvariance == Spec => []ProducersInv
<1>1. Init => ProducersInv
  <2> SUFFICES ASSUME Init PROVE ProducersInv
    OBVIOUS
  <2>1. producers = <<>> /\ DOMAIN producers = {} /\ producers \in Seq({})
    BY DEF Init
  <2> QED
    BY <2>1 DEF Init, ProducersInv, ProducersTypeOK, NegotiatedKept
<1>2. ProducersInv /\ [Next]_vars => ProducersInv'
  <2> SUFFICES ASSUME ProducersInv, [Next]_vars PROVE ProducersInv'
    OBVIOUS
  <2>1. CASE MediaNext
    BY <2>1, MediaStep
  <2>2. CASE UNCHANGED mediaVars
    BY <2>2 DEF ProducersInv, ProducersTypeOK, NegotiatedKept, mediaVars
  <2> QED
    BY <2>1, <2>2 DEF Next, vars
<1> QED
  BY <1>1, <1>2, PTL DEF Spec

\* The codec options of a producer reach the server for that producer and for
\* no other, and nothing else of what was negotiated changes: in any order of
\* the calls, of any options and capabilities, of whatever calls failed.
THEOREM OptionsAlwaysStay == Spec => []OptionsStayWithTheirProducer
<1>1. ProducersInv => OptionsStayWithTheirProducer
  BY DEF ProducersInv, AsTold, OptionsStayWithTheirProducer, OptionsStay, Accepted,
         ToldParameters
<1> QED
  BY <1>1, ProducersInvariance, PTL

\* What the answer says of a producer is what the server is told of it: codecs
\* and payload types, extensions, RIDs and the options of opus.
THEOREM AnswerAlwaysAgrees == Spec => []AnswerAgreesWithTold
<1>1. ProducersInv => AnswerAgreesWithTold
  BY Zenon DEF ProducersInv, AsTold, AnswerAgreesWithTold, AnswerAgrees, Accepted, ToldParameters
<1> QED
  BY <1>1, ProducersInvariance, PTL

\* What the server makes of a producer passes the validation of a consumer, and
\* the device has its codec.
THEOREM ProducedAlwaysConsumable == Spec => []ProducedIsConsumable
<1>1. ProducersInv => ProducedIsConsumable
  <2> SUFFICES ASSUME ProducersInv, NEW n \in Accepted, NEW stream \in ServerStreams
               PROVE  LET params == ServerParams(producers[n], stream)
                      IN  /\ ValidRtpParameters(params)
                          /\ CanReceive(params.codecs, extendedRtpCapabilities)
    BY Zenon DEF ProducedIsConsumable
  <2> DEFINE p == producers[n]
             i == FirstOfKind(p.kind, extendedRtpCapabilities)
             codec == extendedRtpCapabilities.codecs[i]
             media == MediaCodec(codec, codec.remotePt, p.told.codecs[1].parameters)
             rtx == RtxCodec(media, codec.remoteRtxPt, media.pt)
             params == ServerParams(p, stream)
  <2>1. ToldNumbers(p, extendedRtpCapabilities) /\ extendedRtpCapabilities \in ExtendedCaps
    BY DEF Accepted, ProducersInv, AsTold
  <2>2. i \in DOMAIN extendedRtpCapabilities.codecs
    BY <2>1, FirstOfKindFinds DEF ToldNumbers
  <2>3. /\ codec.mime # "rtx"
        /\ codec.remotePt \in Nat /\ codec.remoteRtxPt \in Nat \cup {Null}
    BY <2>1, <2>2, ExtendedCapsAssumption
  <2>4. params.codecs = IF codec.remoteRtxPt = Null THEN <<media>> ELSE <<media, rtx>>
    BY DEF ServerParams, WithRtx
  <2>5. media.pt = codec.remotePt /\ ValidRtpCodecParameters(media)
    BY <2>1, <2>3 DEF MediaCodec, ValidRtpCodecParameters, IsRtxCodec, ToldNumbers
  <2>6. codec.remoteRtxPt # Null => ValidRtpCodecParameters(rtx)
    BY <2>3, <2>5 DEF RtxCodec, ValidRtpCodecParameters, IsRtxCodec
  <2>7. \A j \in DOMAIN params.encodings : ValidRtpEncodingParameters(params.encodings[j])
    <3> DEFINE encoding == [NoEncoding EXCEPT !.ssrc = stream.ssrc,
                              !.rtx = IF codec.remoteRtxPt = Null THEN Absent ELSE stream.rtx]
    <3>1. params.encodings = <<encoding>>
      BY DEF ServerParams
    <3>2. encoding.rid = Absent /\ encoding.scalabilityMode = Absent
      BY DEF NoEncoding
    <3> HIDE DEF encoding, params
    <3>3. Absent # "" /\ Absent # EmptyMode
      BY MediaAssumption
    <3>4. ValidRtpEncodingParameters(encoding)
      BY <3>2, <3>3, Zenon DEF ValidRtpEncodingParameters
    <3> QED
      BY <3>1, <3>4
  <2> HIDE DEF p, i, codec, media, rtx, params
  <2>8. \A j \in DOMAIN params.codecs : ValidRtpCodecParameters(params.codecs[j])
    <3>1. CASE codec.remoteRtxPt = Null
      BY <2>4, <2>5, <3>1
    <3>2. CASE codec.remoteRtxPt # Null
      BY <2>4, <2>5, <2>6, <3>2
    <3> QED
      BY <3>1, <3>2
  <2>9. params.codecs # <<>> /\ params.codecs[1] = media
    BY <2>4
  <2>10. CanReceive(params.codecs, extendedRtpCapabilities)
    BY <2>2, <2>5, <2>9 DEF CanReceive, codec
  <2> QED
    BY <2>7, <2>8, <2>10 DEF ValidRtpParameters, params, p
<1> QED
  BY <1>1, ProducersInvariance, PTL

-----------------------------------------------------------------------------
(* The streams of a section.                                               *)

\* Some indices of which 1 is the only one.
LEMMA InOrderOne == InOrder({1}) = <<1>>
<1>1. Cardinality({1}) = 1
  BY FS_Singleton
<1>2. /\ DOMAIN InOrder({1}) = 1..1
      /\ InOrder({1})[1] = 1
  BY <1>1, InOrderFirst, {1} \subseteq 1..1
<1>3. InOrder({1}) = [k \in 1..1 |-> InOrder({1})[k]]
  <2> DEFINE At(k) == CHOOSE i \in {1} : Cardinality({j \in {1} : j < i}) = k - 1
  <2>1. InOrder({1}) = [k \in 1..1 |-> At(k)]
    BY <1>1 DEF InOrder
  <2> HIDE DEF At
  <2> QED
    BY <2>1
<1> HIDE DEF InOrder
<1>4. \A k \in 1..1 : k = 1
  OBVIOUS
<1> QED
  BY <1>2, <1>3, <1>4

\* The lines and groups of a stream that may have an RTX stream.
OneStream(section, ssrc, rtx, hasRtx, cname, msid) ==
    /\ section.ssrcs = LinesOf(ssrc, cname, msid) \o
                       IF hasRtx THEN LinesOf(rtx, cname, msid) ELSE <<>>
    /\ section.ssrcGroups = IF hasRtx THEN <<Group("FID", <<ssrc, rtx>>)>> ELSE <<>>

\* Line by line.
LEMMA StreamLines ==
  ASSUME NEW section, NEW ssrc, NEW rtx, NEW hasRtx \in BOOLEAN, NEW cname, NEW msid,
         OneStream(section, ssrc, rtx, hasRtx, cname, msid),
         NEW n, n = IF hasRtx THEN 4 ELSE 2
  PROVE  /\ DOMAIN section.ssrcs = 1..n /\ section.ssrcs # <<>> /\ Len(section.ssrcs) = n
         /\ section.ssrcs[1] = SsrcLine(ssrc, "cname", cname)
         /\ section.ssrcs[2] = SsrcLine(ssrc, "msid", msid)
         /\ hasRtx => /\ section.ssrcs[3] = SsrcLine(rtx, "cname", cname)
                      /\ section.ssrcs[4] = SsrcLine(rtx, "msid", msid)
<1> DEFINE a == SsrcLine(ssrc, "cname", cname)
           b == SsrcLine(ssrc, "msid", msid)
           c == SsrcLine(rtx, "cname", cname)
           d == SsrcLine(rtx, "msid", msid)
<1>1. CASE hasRtx
  <2>1. section.ssrcs = <<a, b>> \o <<c, d>>
    BY <1>1 DEF OneStream, LinesOf
  <2> HIDE DEF a, b, c, d
  <2>2. LET s == section.ssrcs
        IN  /\ DOMAIN s = 1..4 /\ Len(s) = 4
            /\ s[1] = a /\ s[2] = b /\ s[3] = c /\ s[4] = d
    BY <2>1
  <2> QED
    BY <1>1, <2>2 DEF a, b, c, d
<1>2. CASE ~hasRtx
  <2>1. section.ssrcs = <<a, b>> \o <<>>
    BY <1>2 DEF OneStream, LinesOf
  <2> HIDE DEF a, b
  <2>2. section.ssrcs = <<a, b>>
    BY <2>1
  <2> QED
    BY <1>2, <2>2 DEF a, b
<1> QED
  BY <1>1, <1>2

\* The indices of those lines.
LEMMA SmallIntervals == 1..2 = {1, 2} /\ 1..4 = {1, 2, 3, 4}
<1>1. \A i \in Int : i \in 1..2 <=> i \in {1, 2}
  OBVIOUS
<1>2. \A i \in Int : i \in 1..4 <=> i \in {1, 2, 3, 4}
  OBVIOUS
<1> QED
  BY <1>1, <1>2

\* The SSRCs of a section, the first of them, and the CNAME that its lines give.
Says(section, ssrc, cname, ids) ==
    /\ section.ssrcs # <<>> /\ section.ssrcs[1].id = ssrc /\ GetCname(section) = cname
    /\ \A i \in DOMAIN section.ssrcs :
         section.ssrcs[i].attribute = "cname" => section.ssrcs[i].value = cname
    /\ {section.ssrcs[i].id : i \in DOMAIN section.ssrcs} = ids

\* What the lines of a stream say.
LEMMA StreamSays ==
  ASSUME NEW section, NEW ssrc, NEW rtx, NEW hasRtx \in BOOLEAN, NEW cname, NEW msid,
         OneStream(section, ssrc, rtx, hasRtx, cname, msid),
         NEW all, all = IF hasRtx THEN {ssrc, rtx} ELSE {ssrc}
  PROVE  Says(section, ssrc, cname, all)
<1> PICK n : n = IF hasRtx THEN 4 ELSE 2
  OBVIOUS
<1> DEFINE lines == section.ssrcs
<1>1. /\ DOMAIN lines = 1..n /\ lines # <<>>
      /\ lines[1] = SsrcLine(ssrc, "cname", cname) /\ lines[2] = SsrcLine(ssrc, "msid", msid)
      /\ hasRtx => lines[3] = SsrcLine(rtx, "cname", cname) /\ lines[4] = SsrcLine(rtx, "msid", msid)
  BY StreamLines
<1> HIDE DEF lines
<1>2. /\ lines[1].id = ssrc /\ lines[1].attribute = "cname" /\ lines[1].value = cname
      /\ lines[2].id = ssrc /\ lines[2].attribute = "msid"
      /\ hasRtx => /\ lines[3].id = rtx /\ lines[3].attribute = "cname" /\ lines[3].value = cname
                   /\ lines[4].id = rtx /\ lines[4].attribute = "msid"
  BY <1>1 DEF SsrcLine
<1>3. 1..n = IF hasRtx THEN {1, 2, 3, 4} ELSE {1, 2}
  BY SmallIntervals, Zenon
<1>4. \A i \in DOMAIN lines : lines[i].attribute = "cname" => lines[i].value = cname
  BY <1>1, <1>2, <1>3
<1>5. {lines[i].id : i \in DOMAIN lines} = IF hasRtx THEN {ssrc, rtx} ELSE {ssrc}
  <2>1. CASE hasRtx
    BY <1>1, <1>2, <1>3, <2>1
  <2>2. CASE ~hasRtx
    BY <1>1, <1>2, <1>3, <2>2
  <2> QED
    BY <2>1, <2>2
<1> QED
  BY <1>1, <1>2, <1>4, <1>5 DEF Says, GetCname, lines

\* Min and Max of no more than one index.
LEMMA OfOne == Min({1}) = 1 /\ Max({1}) = 1
<1>1. 1 <= 1 /\ 1 >= 1
  OBVIOUS
<1>2. \A i \in {1} : i = 1
  OBVIOUS
<1> QED
  BY <1>1, <1>2 DEF Min, Max

\* A section is read as one encoding, of its SSRC and RTX SSRC.
ReadAs(section, ssrc, rtx) ==
    /\ FidOf(section, ssrc) = rtx
    /\ GetRtpEncodings(section) = <<[NoEncoding EXCEPT !.ssrc = ssrc, !.rtx = rtx]>>

\* So is a stream.
LEMMA StreamRead ==
  ASSUME NEW section, NEW ssrc, NEW rtx, NEW hasRtx \in BOOLEAN, NEW cname, NEW msid,
         OneStream(section, ssrc, rtx, hasRtx, cname, msid), hasRtx => rtx # ssrc,
         NEW told, told = IF hasRtx THEN rtx ELSE Absent
  PROVE  ReadAs(section, ssrc, told)
<1> PICK n : n = IF hasRtx THEN 4 ELSE 2
  OBVIOUS
<1> DEFINE ids == [i \in DOMAIN section.ssrcs |-> section.ssrcs[i].id]
           groups == section.ssrcGroups
           fids == {i \in DOMAIN groups : groups[i].semantics = "FID"}
           rtxSsrcs == {groups[i].ssrcs[2] : i \in fids}
           indices == {i \in Unique(ids) : ids[i] \notin rtxSsrcs}
           I == {i \in 1..Len(groups) : groups[i].semantics = "FID" /\ groups[i].ssrcs[1] = ssrc}
<1>1. groups = IF hasRtx THEN <<Group("FID", <<ssrc, rtx>>)>> ELSE <<>>
  BY DEF OneStream
<1>2. rtxSsrcs = IF hasRtx THEN {rtx} ELSE {}
  <2>1. CASE hasRtx
    <3>1. /\ DOMAIN groups = {1}
          /\ groups[1].semantics = "FID" /\ groups[1].ssrcs[2] = rtx
      BY <1>1, <2>1 DEF Group
    <3> HIDE DEF groups
    <3>2. fids = {1}
      BY <3>1
    <3> HIDE DEF fids
    <3> QED
      BY <2>1, <3>1, <3>2
  <2>2. CASE ~hasRtx
    <3>1. DOMAIN groups = {}
      BY <1>1, <2>2
    <3> HIDE DEF groups
    <3> QED
      BY <2>2, <3>1
  <2> QED
    BY <2>1, <2>2
<1>3. I = IF hasRtx THEN {1} ELSE {}
  <2>1. CASE hasRtx
    <3>1. /\ Len(groups) = 1
          /\ groups[1].semantics = "FID" /\ groups[1].ssrcs[1] = ssrc
      BY <1>1, <2>1 DEF Group
    <3> HIDE DEF groups
    <3> QED
      BY <2>1, <3>1
  <2>2. CASE ~hasRtx
    <3>1. Len(groups) = 0
      BY <1>1, <2>2
    <3> HIDE DEF groups
    <3> QED
      BY <2>2, <3>1
  <2> QED
    BY <2>1, <2>2
<1>4. hasRtx => groups[1].ssrcs[2] = rtx
  BY <1>1 DEF Group
<1>5. /\ DOMAIN ids = 1..n /\ ids[1] = ssrc /\ ids[2] = ssrc
      /\ hasRtx => ids[3] = rtx /\ ids[4] = rtx
  <2>1. /\ DOMAIN section.ssrcs = 1..n
        /\ section.ssrcs[1].id = ssrc /\ section.ssrcs[2].id = ssrc
        /\ hasRtx => section.ssrcs[3].id = rtx /\ section.ssrcs[4].id = rtx
    <3>1. /\ DOMAIN section.ssrcs = 1..n
          /\ section.ssrcs[1] = SsrcLine(ssrc, "cname", cname)
          /\ section.ssrcs[2] = SsrcLine(ssrc, "msid", msid)
          /\ hasRtx => /\ section.ssrcs[3] = SsrcLine(rtx, "cname", cname)
                       /\ section.ssrcs[4] = SsrcLine(rtx, "msid", msid)
      BY StreamLines
    <3> QED
      BY <3>1 DEF SsrcLine
  <2>2. 1 \in 1..n /\ 2 \in 1..n /\ (hasRtx => 3 \in 1..n /\ 4 \in 1..n)
    OBVIOUS
  <2> QED
    BY <2>1, <2>2
<1> HIDE DEF ids
<1>6. indices = {1}
  <2>1. 1..n = IF hasRtx THEN {1, 2, 3, 4} ELSE {1, 2}
    BY SmallIntervals, Zenon
  <2> HIDE DEF rtxSsrcs
  <2>2. Unique(ids) = IF hasRtx THEN {1, 3} ELSE {1}
    <3>1. CASE hasRtx
      BY <1>5, <2>1, <3>1 DEF Unique
    <3>2. CASE ~hasRtx
      BY <1>5, <2>1, <3>2 DEF Unique
    <3> QED
      BY <3>1, <3>2
  <2> QED
    BY <1>2, <1>5, <2>2
<1> DEFINE fid(id) == SelectLastInSeq(groups, LAMBDA g : g.semantics = "FID" /\ g.ssrcs[1] = id)
           encoding(id) == [NoEncoding EXCEPT !.ssrc = id,
                              !.rtx = IF fid(id) = 0 THEN Absent ELSE groups[fid(id)].ssrcs[2]]
           kept == InOrder(indices)
<1>7. fid(ssrc) = IF hasRtx THEN 1 ELSE 0
  <2>1. fid(ssrc) = IF I # {} THEN Max(I) ELSE 0
    BY DEF SelectLastInSeq
  <2> HIDE DEF I, fid
  <2> QED
    BY <1>3, <2>1, OfOne
<1>8. encoding(ssrc) = [NoEncoding EXCEPT !.ssrc = ssrc, !.rtx = told]
  <2> HIDE DEF fid, groups
  <2>1. (IF fid(ssrc) = 0 THEN Absent ELSE groups[fid(ssrc)].ssrcs[2])
          = told
    BY <1>4, <1>7
  <2> QED
    BY <2>1, Zenon
<1>9. GetRtpEncodings(section) = [k \in DOMAIN kept |-> encoding(ids[kept[k]])]
  BY Zenon DEF GetRtpEncodings, ids
<1> HIDE DEF encoding, indices
<1>10. GetRtpEncodings(section) = <<encoding(ssrc)>>
  <2>1. kept = <<1>>
    BY <1>6, InOrderOne
  <2> HIDE DEF kept
  <2> QED
    BY <1>5, <1>9, <2>1
<1>11. FidOf(section, ssrc) = told
  <2> DEFINE group == SelectInSeq(groups, LAMBDA g : g.semantics = "FID" /\ g.ssrcs[1] = ssrc)
  <2>1. group = IF I # {} THEN Min(I) ELSE 0
    BY DEF SelectInSeq
  <2>2. FidOf(section, ssrc) = IF group = 0 THEN Absent ELSE groups[group].ssrcs[2]
    BY Zenon DEF FidOf
  <2> HIDE DEF I, group, groups
  <2>3. group = IF hasRtx THEN 1 ELSE 0
    BY <1>3, <2>1, OfOne
  <2> QED
    BY <1>4, <2>2, <2>3
<1> QED
  BY <1>8, <1>10, <1>11 DEF ReadAs

-----------------------------------------------------------------------------
(* The encodings of a producer.                                            *)

\* A RID that is one.
Named(rid) == rid # ""

\* The encodings as Send has them: those that were given, with its RIDs.
IsGiven(given, encodings) ==
    LET n == Len(encodings)
    IN  /\ n \in 0..3 /\ DOMAIN encodings = 1..n
        /\ Len(given) = n /\ DOMAIN given = 1..n /\ (given = <<>> <=> n = 0)
        /\ \A i \in 1..n :
             /\ given[i].active \in BOOLEAN
             /\ given[i].scalabilityMode = encodings[i].scalabilityMode
             /\ n > 1 => Named(given[i].rid)
             /\ n <= 1 => ~Named(given[i].rid)
        /\ SpatialLayersOf(given) = SpatialLayersOf(encodings)

\* That is what it makes of them.
LEMMA GivenNormalized ==
  ASSUME NEW encodings \in EncodingChoices, NEW given, given = Normalized(encodings)
  PROVE  IsGiven(given, encodings)
<1> DEFINE n == Len(encodings)
           rid(i) == IF n > 1 THEN Rids[i] ELSE ""
<1>1. /\ n \in 0..3 /\ DOMAIN encodings = 1..n
      /\ \A i \in 1..n :
           /\ DOMAIN encodings[i] = {"active", "rid", "maxBitrate", "scalabilityMode"}
           /\ encodings[i].active \in BOOLEAN
  <2>1. encodings \in Seq(ToSet(encodings)) /\ n <= 3
    BY EncodingsAssumption
  <2>2. PICK S : encodings \in Seq(S)
    BY <2>1
  <2>3. n \in Nat /\ DOMAIN encodings = 1..n
    BY <2>2
  <2> QED
    BY <2>1, <2>3, EncodingsAssumption
<1>2. given = [i \in 1..n |-> [encodings[i] EXCEPT !.rid = rid(i)]]
  BY <1>1, Zenon DEF Normalized
<1>3. \A i \in 1..3 : Rids[i] # ""
  <2>1. Rids[1] # "" /\ Rids[2] # "" /\ Rids[3] # ""
    BY DEF Rids
  <2>2. \A i \in 1..3 : i = 1 \/ i = 2 \/ i = 3
    OBVIOUS
  <2> QED
    BY <2>1, <2>2
<1> HIDE DEF n, rid
<1>4. DOMAIN given = 1..n /\ n \in Nat /\ Len(given) = n
  <2>1. given = [i \in 1..n |-> given[i]]
    BY <1>2
  <2>2. n \in Nat
    BY <1>1
  <2> QED
    BY <1>2, <2>1, <2>2, Listed
<1>5. ASSUME NEW i \in 1..n
      PROVE  /\ given[i].active = encodings[i].active
             /\ given[i].scalabilityMode = encodings[i].scalabilityMode
             /\ given[i].rid = rid(i)
  <2>1. given[i] = [encodings[i] EXCEPT !.rid = rid(i)]
    BY <1>2
  <2>2. DOMAIN encodings[i] = {"active", "rid", "maxBitrate", "scalabilityMode"}
    BY <1>1
  <2> QED
    BY <2>1, <2>2, Zenon
<1>6. ASSUME NEW i \in 1..n PROVE (n > 1 => Named(rid(i))) /\ (n <= 1 => ~Named(rid(i)))
  <2>1. i \in 1..3 /\ n \in 0..3
    BY <1>1
  <2>2. Named(Rids[i]) /\ ~Named("")
    BY <1>3, <2>1, Zenon DEF Named
  <2>3. CASE n > 1
    <3>1. rid(i) = Rids[i]
      BY <2>3, Zenon DEF rid
    <3>2. ~ n <= 1
      BY <2>1, <2>3
    <3> QED
      BY <2>2, <3>1, <3>2, Zenon
  <2>4. CASE ~ n > 1
    <3>1. rid(i) = ""
      BY <2>4 DEF rid
    <3> QED
      BY <2>1, <2>2, <2>4, <3>1
  <2> QED
    BY <2>3, <2>4
<1>7. given = <<>> <=> n = 0
  <2>1. n = 0 => given = <<>>
    BY <1>2
  <2>2. given = <<>> => Len(given) = 0
    OBVIOUS
  <2> QED
    BY <1>4, <2>1, <2>2
<1>8. encodings = <<>> <=> n = 0
  <2>1. encodings \in Seq(ToSet(encodings))
    BY EncodingsAssumption
  <2> QED
    BY <2>1 DEF n
<1>9. SpatialLayersOf(given) = SpatialLayersOf(encodings)
  <2>1. CASE n = 0
    <3>1. given = <<>> /\ encodings = <<>>
      BY <1>7, <1>8, <2>1
    <3> QED
      BY <3>1 DEF SpatialLayersOf
  <2>2. CASE n # 0
    <3>1. 1 \in 1..n
      BY <1>1, <2>2
    <3>2. encodings # <<>> /\ given # <<>>
      BY <1>7, <1>8, <2>2
    <3>3. given[1].scalabilityMode = encodings[1].scalabilityMode
      BY <1>5, <3>1
    <3> QED
      BY <3>2, <3>3 DEF SpatialLayersOf
  <2> QED
    BY <2>1, <2>2
<1> QED
  BY <1>1, <1>4, <1>5, <1>6, <1>7, <1>9 DEF IsGiven, n

\* What is read of the JSON of one encoding.
LEMMA Filled ==
  ASSUME NEW encoding, DOMAIN encoding = DOMAIN NoEncoding, NEW given,
         NEW new, new = FillJson(encoding, given)
  PROVE  /\ DOMAIN new = DOMAIN NoEncoding
         /\ new.ssrc = encoding.ssrc /\ new.rtx = encoding.rtx /\ new.dtx = encoding.dtx
         /\ new.active = given.active
         /\ new.rid = IF Named(given.rid) THEN given.rid ELSE encoding.rid
         /\ new.scalabilityMode = IF given.scalabilityMode = Absent THEN encoding.scalabilityMode
                                  ELSE given.scalabilityMode
<1>1. DOMAIN NoEncoding = {"ssrc", "rtx", "rid", "active", "maxBitrate", "scalabilityMode", "dtx"}
  BY DEF NoEncoding
<1> QED
  BY <1>1, Zenon DEF FillJson, Named

\* One encoding as it is told, before validation: what an application gives
\* may be refused for an empty scalability mode alone.
IsEncoding(encoding, given) ==
    /\ DOMAIN encoding = DOMAIN NoEncoding
    /\ encoding.dtx = Absent /\ Named(encoding.rid)
    /\ encoding.ssrc = Absent \/ IsSsrc(encoding.ssrc)
    /\ encoding.rtx = Absent \/ IsSsrc(encoding.rtx)
    /\ encoding.scalabilityMode = EmptyMode =>
         \E i \in DOMAIN given : given[i].scalabilityMode = EmptyMode

\* The streams of a section, for a sender of n streams and encodings told of it.
TellsStreams(section, n, encodings) ==
    LET ids == {section.ssrcs[i].id : i \in DOMAIN section.ssrcs}
    IN  IF section.ssrcs = <<>>
        THEN \A i \in DOMAIN encodings :
               encodings[i].ssrc = Absent /\ encodings[i].rid = section.rids[i].id
        ELSE /\ encodings[1].rid = Absent
             /\ encodings[1].ssrc = section.ssrcs[1].id
             /\ encodings[1].rtx = FidOf(section, section.ssrcs[1].id)
             /\ Cardinality(ids) = n * (IF encodings[1].rtx = Absent THEN 1 ELSE 2)
             /\ \A id \in ids : encodings[1].rtx # Absent =>
                  FidOf(section, id) # Absent \/ \E other \in ids : FidOf(section, other) = id

\* What Send makes of the encodings that are given to it: the section, the
\* sender, and the encodings that are told.
Sends(given, section, sender, encodings) ==
    /\ DOMAIN encodings = 1..Len(encodings)
    /\ Len(encodings) = IF Len(given) > 1 THEN Len(given) ELSE 1
    /\ Len(sender) \in Nat \ {0} /\ DOMAIN sender = 1..Len(sender)
    /\ Len(encodings) \in {1, Len(sender)}
    /\ Len(sender) \in {1, Len(given), SpatialLayersOf(given)}
    /\ \A i \in DOMAIN sender : sender[i] \in BOOLEAN
    /\ \A i \in DOMAIN encodings :
         IsEncoding(encodings[i], given) /\ encodings[i].active \in {Absent, sender[i]}
    /\ \A i \in DOMAIN section.ssrcs :
         /\ IsSsrc(section.ssrcs[i].id)
         /\ section.ssrcs[i].attribute = "cname" => section.ssrcs[i].value = GetCname(section)
    /\ GetCname(section) # "probator"
    /\ TellsStreams(section, Len(sender), encodings)

\* The members of no encoding.
LEMMA NothingTold ==
  /\ NoEncoding.ssrc = Absent /\ NoEncoding.rtx = Absent /\ NoEncoding.rid = Absent
  /\ NoEncoding.active = Absent /\ NoEncoding.scalabilityMode = Absent /\ NoEncoding.dtx = Absent
  /\ Named(Absent) /\ Absent # EmptyMode
  BY MediaAssumption, Zenon DEF NoEncoding, Named

\* How many encodings a sender has.
SenderSize(section, given) ==
    IF Len(given) > 1 THEN Len(given)
    ELSE IF \E i \in DOMAIN section.ssrcGroups : section.ssrcGroups[i].semantics = "SIM"
         THEN Len(section.ssrcGroups[1].ssrcs) ELSE 1

\* A sender of n encodings, of which those are active that were given as such.
IsSender(sender, given, n) ==
    /\ Len(sender) = n /\ DOMAIN sender = 1..n
    /\ \A i \in DOMAIN sender : sender[i] \in BOOLEAN
    /\ \A i \in DOMAIN sender \cap DOMAIN given : sender[i] = given[i].active

\* That is the sender of a section.
LEMMA SenderHas ==
  ASSUME NEW encodings, NEW given, IsGiven(given, encodings),
         NEW section, NEW n \in Nat \ {0}, SenderSize(section, given) = n,
         NEW sender, sender = Sender(section, given)
  PROVE  IsSender(sender, given, n)
<1>1. sender = [i \in 1..n |-> i \in DOMAIN given => given[i].active]
  BY Zenon DEF Sender, SenderSize
<1>2. Len(sender) = n
  <2>1. sender = [i \in 1..n |-> sender[i]]
    BY <1>1
  <2> QED
    BY <2>1, Listed
<1>3. \A i \in DOMAIN given : given[i].active \in BOOLEAN
  BY DEF IsGiven
<1> QED
  BY <1>1, <1>2, <1>3 DEF IsSender

\* More than one encoding: the section has their RIDs.
LEMMA SendsSimulcast ==
  ASSUME NEW encodings, NEW given, IsGiven(given, encodings),
         NEW n, n = Len(given), n > 1,
         NEW kind, NEW stream, NEW uris,
         NEW section, section = LocalSection(kind, given, stream, uris)
  PROVE  Sends(given, section, Sender(section, given), EncodingsOf(section, given, FALSE))
<1> DEFINE told == EncodingsOf(section, given, FALSE)
<1>1. /\ n \in 0..3 /\ DOMAIN given = 1..n /\ (given = <<>> <=> n = 0)
      /\ \A i \in 1..n : n > 1 => Named(given[i].rid)
  BY DEF IsGiven
<1>2. n > 1 /\ given # <<>> /\ \A i \in 1..n : Named(given[i].rid)
  <2>1. n > 1
    BY <1>1
  <2>2. given # <<>>
    BY <1>1, <2>1
  <2>3. \A i \in 1..n : Named(given[i].rid)
    BY <1>1, <2>1
  <2> QED
    BY <2>1, <2>2, <2>3
<1>3. /\ section.ssrcs = <<>>
      /\ section.rids = [i \in 1..n |-> [id |-> given[i].rid, direction |-> "send"]]
  BY <1>1, <1>2 DEF LocalSection
<1>4. told = [i \in 1..n |-> FillJson(NoEncoding, given[i])]
  <2>1. n # 1
    BY <1>1
  <2>2. told = [i \in DOMAIN given |-> FillJson(NoEncoding, given[i])]
    BY <1>2, <2>1, Zenon DEF EncodingsOf
  <2> QED
    BY <1>1, <2>2
<1> HIDE DEF told
<1>5. Len(told) = n /\ DOMAIN told = 1..n
  <2>1. told = [i \in 1..n |-> told[i]]
    BY <1>4
  <2>2. n \in Nat
    BY <1>1
  <2> QED
    BY <1>4, <2>1, <2>2, Listed
<1>6. PICK sender : sender = Sender(section, given)
  OBVIOUS
<1>7. /\ Len(sender) = n /\ DOMAIN sender = 1..n
      /\ \A i \in DOMAIN sender : sender[i] \in BOOLEAN
      /\ \A i \in DOMAIN sender \cap DOMAIN given : sender[i] = given[i].active
  <2>1. SenderSize(section, given) = n /\ n \in Nat \ {0}
    BY <1>1 DEF SenderSize
  <2>2. IsSender(sender, given, n)
    BY <1>6, <2>1, SenderHas
  <2> QED
    BY <2>2 DEF IsSender
<1>8. ASSUME NEW i \in 1..n
      PROVE  /\ IsEncoding(told[i], given) /\ told[i].active = sender[i]
             /\ told[i].ssrc = Absent /\ told[i].rid = given[i].rid
  <2>1. told[i] = FillJson(NoEncoding, given[i])
    BY <1>4
  <2>2. Named(given[i].rid) /\ i \in DOMAIN sender \cap DOMAIN given
    BY <1>1, <1>2, <1>7
  <2>3. /\ DOMAIN told[i] = DOMAIN NoEncoding
        /\ told[i].ssrc = Absent /\ told[i].rtx = Absent /\ told[i].dtx = Absent
        /\ told[i].active = given[i].active /\ told[i].rid = given[i].rid
        /\ told[i].scalabilityMode = IF given[i].scalabilityMode = Absent THEN Absent
                                     ELSE given[i].scalabilityMode
    BY <2>1, <2>2, Filled, NothingTold
  <2>4. told[i].scalabilityMode = EmptyMode => given[i].scalabilityMode = EmptyMode
    BY <2>3, NothingTold
  <2> QED
    BY <1>7, <2>2, <2>3, <2>4 DEF IsEncoding
<1>9. GetCname(section) # "probator"
  BY <1>3, Zenon DEF GetCname
<1>10. DOMAIN section.ssrcs = {}
  BY <1>3
<1>11. TellsStreams(section, Len(sender), told)
  <2>1. \A i \in 1..n : told[i].ssrc = Absent /\ told[i].rid = section.rids[i].id
    BY <1>3, <1>8
  <2> QED
    BY <1>3, <1>5, <2>1 DEF TellsStreams
<1>12. Len(sender) \in Nat \ {0} /\ Len(told) \in {1, Len(sender)}
       /\ Len(sender) \in {1, Len(given), SpatialLayersOf(given)}
       /\ Len(told) = IF Len(given) > 1 THEN Len(given) ELSE 1
  BY <1>1, <1>2, <1>5, <1>7
<1>13. \A j \in DOMAIN told : IsEncoding(told[j], given) /\ told[j].active \in {Absent, sender[j]}
  BY <1>5, <1>8
<1> QED
  BY <1>5, <1>6, <1>7, <1>9, <1>10, <1>11, <1>12, <1>13, Zenon DEF Sends, told

\* A mode has at least one spatial layer.
LEMMA LayersPositive ==
  ASSUME NEW given PROVE SpatialLayersOf(given) \in 1..99
<1>1. ASSUME NEW mode PROVE SpatialLayers(mode) \in 1..99
  BY DEF SpatialLayers
<1> QED
  BY <1>1, Zenon DEF SpatialLayersOf

\* A stream and its RTX stream have different SSRCs.
LEMMA StreamsApart ==
  ASSUME NEW encodings \in EncodingChoices, NEW stream \in LocalStreams, stream.rtx # 0
  PROVE  stream.rtx # stream.ssrc
<1>1. 0 \in 0..SpatialLayersOf(encodings) - 1
  BY LayersPositive
<1>2. (stream.ssrc + 0) % SsrcSpace # (stream.rtx + 0) % SsrcSpace
  BY <1>1, StreamsAssumption
<1> QED
  BY <1>2

\* The section of up to one encoding has one stream.
LEMMA LocalStream ==
  ASSUME NEW encodings \in EncodingChoices, NEW given, NEW n \in 0..1, n = Len(given),
         NEW kind, NEW stream \in LocalStreams, NEW uris,
         NEW section, section = LocalSection(kind, given, stream, uris)
  PROVE  \E hasRtx \in BOOLEAN :
           /\ OneStream(section, stream.ssrc, stream.rtx, hasRtx, "local", "msid")
           /\ hasRtx => stream.rtx # 0 /\ stream.rtx # stream.ssrc
<1> DEFINE hasRtx == stream.rtx # 0 /\ kind = "video"
<1>1. ~ n > 1
  OBVIOUS
<1>2. /\ section.ssrcs = LinesOf(stream.ssrc, "local", "msid") \o
                         IF hasRtx THEN LinesOf(stream.rtx, "local", "msid") ELSE <<>>
      /\ section.ssrcGroups = IF n > 1 \/ ~hasRtx THEN <<>>
                              ELSE <<Group("FID", <<stream.ssrc, stream.rtx>>)>>
  BY <1>1, Zenon DEF LocalSection
<1>3. section.ssrcGroups = IF hasRtx THEN <<Group("FID", <<stream.ssrc, stream.rtx>>)>> ELSE <<>>
  BY <1>1, <1>2, Zenon
<1>4. OneStream(section, stream.ssrc, stream.rtx, hasRtx, "local", "msid")
  BY <1>2, <1>3, Zenon DEF OneStream
<1>5. hasRtx => stream.rtx # 0 /\ stream.rtx # stream.ssrc
  BY StreamsApart
<1> QED
  BY <1>4, <1>5

\* SSRCs are numbers, and none is absent.
LEMMA StreamNumbers ==
  ASSUME NEW stream \in LocalStreams
  PROVE  /\ IsSsrc(stream.ssrc) /\ IsSsrc(stream.rtx)
         /\ stream.ssrc \in Nat /\ stream.rtx \in Nat /\ stream.rtx # Absent
<1>1. stream.ssrc \in 1..SsrcSpace - 1 /\ stream.rtx \in 0..SsrcSpace - 1 /\ SsrcSpace \in Nat
  BY MediaAssumption, SsrcAssumption
<1>2. stream.rtx \in Int /\ Absent \notin Int
  BY <1>1, DataChannelsAssumption
<1> QED
  BY <1>1, <1>2 DEF IsSsrc

\* Up to one encoding, on one stream.
LEMMA SendsOne ==
  ASSUME NEW encodings \in EncodingChoices, NEW given, IsGiven(given, encodings),
         NEW n \in 0..1, n = Len(given),
         NEW kind, NEW stream \in LocalStreams, NEW uris,
         NEW section, section = LocalSection(kind, given, stream, uris)
  PROVE  Sends(given, section, Sender(section, given), EncodingsOf(section, given, FALSE))
<1> PICK hasRtx \in BOOLEAN :
      /\ OneStream(section, stream.ssrc, stream.rtx, hasRtx, "local", "msid")
      /\ hasRtx => stream.rtx # 0 /\ stream.rtx # stream.ssrc
  BY LocalStream
<1> PICK rtx : rtx = IF hasRtx THEN stream.rtx ELSE Absent
  OBVIOUS
<1> PICK all : all = IF hasRtx THEN {stream.ssrc, stream.rtx} ELSE {stream.ssrc}
  OBVIOUS
<1> DEFINE parsed == [NoEncoding EXCEPT !.ssrc = stream.ssrc, !.rtx = rtx]
<1>1. GetRtpEncodings(section) = <<parsed>> /\ FidOf(section, stream.ssrc) = rtx
  <2>1. hasRtx => stream.rtx # stream.ssrc
    OBVIOUS
  <2>2. ReadAs(section, stream.ssrc, rtx)
    BY <2>1, StreamRead
  <2> QED
    BY <2>2 DEF ReadAs
<1>2. /\ DOMAIN parsed = DOMAIN NoEncoding /\ parsed.ssrc = stream.ssrc /\ parsed.rtx = rtx
      /\ parsed.rid = Absent /\ parsed.dtx = Absent /\ parsed.active = Absent
      /\ parsed.scalabilityMode = Absent
  BY NothingTold, Zenon DEF NoEncoding
<1>3. /\ DOMAIN given = 1..n /\ (given = <<>> <=> n = 0)
      /\ \A i \in 1..n : ~Named(given[i].rid)
  BY DEF IsGiven
<1> HIDE DEF parsed
<1>4. PICK told : told = EncodingsOf(section, given, FALSE)
  OBVIOUS
<1>5. PICK sender : sender = Sender(section, given)
  OBVIOUS
<1>6. /\ Len(sender) = 1 /\ DOMAIN sender = 1..1
      /\ \A i \in DOMAIN sender : sender[i] \in BOOLEAN
      /\ \A i \in DOMAIN sender \cap DOMAIN given : sender[i] = given[i].active
  <2>1. ~ \E i \in DOMAIN section.ssrcGroups : section.ssrcGroups[i].semantics = "SIM"
    <3>1. CASE hasRtx
      BY <3>1 DEF OneStream, Group
    <3>2. CASE ~hasRtx
      BY <3>2 DEF OneStream
    <3> QED
      BY <3>1, <3>2
  <2>2. ~ n > 1
    OBVIOUS
  <2>3. SenderSize(section, given) = 1
    BY <2>1, <2>2, Zenon DEF SenderSize
  <2>4. IsSender(sender, given, 1)
    BY <1>5, <2>3, SenderHas
  <2> QED
    BY <2>4 DEF IsSender
<1>7. \E encoding : /\ told = <<encoding>>
                    /\ IsEncoding(encoding, given)
                    /\ encoding.ssrc = stream.ssrc /\ encoding.rtx = rtx
                    /\ encoding.rid = Absent /\ encoding.active \in {Absent, sender[1]}
  <2>1. IsSsrc(stream.ssrc) /\ (rtx = Absent \/ IsSsrc(rtx))
    BY StreamNumbers
  <2>2. CASE n = 0
    <3>1. told = <<parsed>>
      <4>1. given = <<>> /\ Len(given) # 1
        BY <1>3, <2>2
      <4> QED
        BY <1>1, <1>4, <4>1, Zenon DEF EncodingsOf
    <3>2. IsEncoding(parsed, given)
      BY <1>2, <2>1, NothingTold DEF IsEncoding
    <3> QED
      BY <1>2, <3>1, <3>2
  <2>3. CASE n = 1
    <3> DEFINE filled == FillJson(parsed, given[1])
    <3>1. told = <<filled>> \o <<>>
      <4>1. given # <<>>
        BY <1>3, <2>3
      <4>2. told = <<FillJson(GetRtpEncodings(section)[1], given[1])>>
                   \o Tail(GetRtpEncodings(section))
        BY <1>4, <2>3, <4>1, Zenon DEF EncodingsOf
      <4>3. GetRtpEncodings(section)[1] = parsed /\ Tail(GetRtpEncodings(section)) = <<>>
        BY <1>1
      <4> QED
        BY <4>2, <4>3
    <3>2. told = <<filled>>
      <4> HIDE DEF filled
      <4> QED
        BY <3>1
    <3>3. 1 \in DOMAIN given /\ ~Named(given[1].rid)
      BY <1>3, <2>3
    <3>4. /\ DOMAIN filled = DOMAIN NoEncoding
          /\ filled.ssrc = stream.ssrc /\ filled.rtx = rtx /\ filled.dtx = Absent
          /\ filled.active = given[1].active /\ filled.rid = Absent
          /\ filled.scalabilityMode = IF given[1].scalabilityMode = Absent THEN Absent
                                      ELSE given[1].scalabilityMode
      BY <1>2, <3>3, Filled
    <3> HIDE DEF filled
    <3>5. filled.scalabilityMode = EmptyMode => given[1].scalabilityMode = EmptyMode
      BY <3>4, NothingTold
    <3>6. IsEncoding(filled, given)
      BY <2>1, <3>3, <3>4, <3>5, NothingTold DEF IsEncoding
    <3>7. filled.active = sender[1]
      BY <1>6, <3>3, <3>4
    <3> QED
      BY <3>2, <3>4, <3>6, <3>7
  <2> QED
    BY <2>2, <2>3
<1>8. PICK encoding : /\ told = <<encoding>>
                      /\ IsEncoding(encoding, given)
                      /\ encoding.ssrc = stream.ssrc /\ encoding.rtx = rtx
                      /\ encoding.rid = Absent /\ encoding.active \in {Absent, sender[1]}
  BY <1>7
<1>9. /\ DOMAIN told = 1..Len(told) /\ Len(told) = 1 /\ told[1] = encoding
      /\ DOMAIN told = {1}
  BY <1>8
<1>10. \A i \in DOMAIN told : IsEncoding(told[i], given) /\ told[i].active \in {Absent, sender[i]}
  BY <1>8, <1>9
<1> DEFINE ids == {section.ssrcs[i].id : i \in DOMAIN section.ssrcs}
<1>11. /\ section.ssrcs # <<>> /\ section.ssrcs[1].id = stream.ssrc
       /\ GetCname(section) = "local"
       /\ \A i \in DOMAIN section.ssrcs :
            section.ssrcs[i].attribute = "cname" => section.ssrcs[i].value = "local"
       /\ ids = all
  <2>1. Says(section, stream.ssrc, "local", all)
    BY StreamSays
  <2> QED
    BY <2>1 DEF Says
<1>12. \A i \in DOMAIN section.ssrcs : IsSsrc(section.ssrcs[i].id)
  <2>1. \A i \in DOMAIN section.ssrcs : section.ssrcs[i].id \in ids
    OBVIOUS
  <2> HIDE DEF ids
  <2>2. \A id \in ids : IsSsrc(id)
    BY <1>11, StreamNumbers
  <2> QED
    BY <2>1, <2>2
<1>13. TellsStreams(section, Len(sender), told)
  <2>1. Cardinality(ids) = 1 * (IF rtx = Absent THEN 1 ELSE 2)
    <3> HIDE DEF ids
    <3>1. CASE hasRtx
      <4>1. ids = {stream.ssrc, stream.rtx} /\ stream.ssrc # stream.rtx /\ rtx # Absent
        BY <1>11, <3>1, StreamNumbers
      <4>2. Cardinality(ids) = 2
        <5>1. Cardinality({stream.rtx}) = 1 /\ IsFiniteSet({stream.rtx})
          BY FS_Singleton
        <5>2. ids = {stream.rtx} \cup {stream.ssrc} /\ stream.ssrc \notin {stream.rtx}
          BY <4>1
        <5>3. Cardinality(ids) = Cardinality({stream.rtx}) + 1
          BY <5>1, <5>2, FS_AddElement
        <5> QED
          BY <5>1, <5>3
      <4> QED
        BY <4>1, <4>2
    <3>2. CASE ~hasRtx
      <4>1. Cardinality(ids) = 1
        BY <1>11, <3>2, FS_Singleton
      <4> QED
        BY <3>2, <4>1
    <3> QED
      BY <3>1, <3>2
  <2>2. \A id \in ids : rtx # Absent =>
          FidOf(section, id) # Absent \/ \E other \in ids : FidOf(section, other) = id
    <3> HIDE DEF ids
    <3>1. CASE hasRtx
      BY <1>1, <1>11, <3>1
    <3>2. CASE ~hasRtx
      BY <3>2
    <3> QED
      BY <3>1, <3>2
  <2> QED
    BY <1>1, <1>6, <1>8, <1>9, <1>11, <2>1, <2>2, Zenon DEF TellsStreams
<1>14. "local" # "probator"
  OBVIOUS
<1>15. /\ Len(told) = IF Len(given) > 1 THEN Len(given) ELSE 1
       /\ Len(sender) \in Nat \ {0} /\ DOMAIN sender = 1..Len(sender)
       /\ Len(told) \in {1, Len(sender)}
       /\ Len(sender) \in {1, Len(given), SpatialLayersOf(given)}
  <2>1. ~ n > 1
    OBVIOUS
  <2> QED
    BY <1>6, <1>9, <2>1
<1> QED
  BY <1>4, <1>5, <1>6, <1>9, <1>10, <1>11, <1>12, <1>13, <1>14, <1>15, Zenon DEF Sends

-----------------------------------------------------------------------------
(* VP9 with SVC: as many SSRCs as there are spatial layers.                *)

\* What is counted on from an SSRC wraps around at most once.
LEMMA Wraps ==
  ASSUME NEW n \in Nat \ {0}, NEW a \in 0..n - 1, NEW k \in 0..n - 1
  PROVE  /\ (a + k) % n = IF a + k < n THEN a + k ELSE a + k - n
         /\ (a + k) % n \in 0..n - 1
<1>1. CASE a + k < n
  <2>1. a + k \in 0..n - 1
    BY <1>1
  <2>2. \A b \in 0..n - 1 : b % n = b
    OBVIOUS
  <2>3. (a + k) % n = a + k
    BY <2>1, <2>2
  <2> QED
    BY <1>1, <2>1, <2>3
<1>2. CASE ~ a + k < n
  <2>1. a + k \in n..2 * n - 1 /\ a + k - n \in 0..n - 1
    BY <1>2
  <2>2. \A b \in n..2 * n - 1 : b % n = b - n
    OBVIOUS
  <2>3. (a + k) % n = a + k - n
    BY <2>1, <2>2
  <2> QED
    BY <1>2, <2>1, <2>3
<1> QED
  BY <1>1, <1>2

\* So that no two of as many as there are SSRCs are the same.
LEMMA WrapsInjective ==
  ASSUME NEW n \in Nat \ {0}, NEW a \in 0..n - 1, NEW k \in 0..n - 1, NEW m \in 0..n - 1,
         (a + k) % n = (a + m) % n
  PROVE  k = m
<1>1. /\ (a + k) % n = IF a + k < n THEN a + k ELSE a + k - n
      /\ (a + m) % n = IF a + m < n THEN a + m ELSE a + m - n
  BY Wraps
<1> PICK v : v = (a + k) % n
  OBVIOUS
<1>2. /\ v = IF a + k < n THEN a + k ELSE a + k - n
      /\ v = IF a + m < n THEN a + m ELSE a + m - n
  BY <1>1
<1> QED
  BY <1>2

\* A function without equal values has as many of them as places.
LEMMA AsMany ==
  ASSUME NEW n \in Nat, NEW f, \A i, j \in 1..n : f[i] = f[j] => i = j
  PROVE  /\ IsFiniteSet({f[i] : i \in 1..n})
         /\ Cardinality({f[i] : i \in 1..n}) = n
<1> DEFINE T == {f[i] : i \in 1..n}
           g == [i \in 1..n |-> f[i]]
<1>1. IsFiniteSet(1..n) /\ Cardinality(1..n) = n
  BY FS_Interval
<1>2. g \in Bijection(1..n, T)
  BY DEF Bijection, Injection, Surjection, IsInjective
<1>3. ExistsBijection(1..n, T)
  BY <1>2 DEF ExistsBijection
<1> HIDE DEF T, g
<1>4. IsFiniteSet(T) /\ Cardinality(T) = n
  BY <1>1, <1>3, FS_Bijection
<1> QED
  BY <1>4 DEF T

\* What is so for 0, and for a number whenever it is for the one before, is so
\* for all: the set of the numbers for which it is so is all of Nat.
LEMMA AllNumbers ==
    ASSUME NEW T, T \subseteq Nat, 0 \in T, \A k \in T : k + 1 \in T
    PROVE  T = Nat
<1> SUFFICES ASSUME Nat \ T # {} PROVE FALSE
  OBVIOUS
<1>1. PICK k \in Nat \ T : \A j \in Nat \ T : k <= j
  BY LeastIndex
<1>2. k # 0 /\ k - 1 \in Nat
  BY <1>1
<1>3. k - 1 \in T
  BY <1>1, <1>2
<1> QED  BY <1>1, <1>2, <1>3

\* The recursive function behind FlattenSeq has a value at every index.
LEMMA FlattenExists ==
    ASSUME NEW s, NEW n \in Nat
    PROVE  \E f : f = [i \in 1..n |-> IF i = 1 THEN s[i] ELSE f[i - 1] \o s[i]]
<1> DEFINE Step(f, i) == IF i = 1 THEN s[i] ELSE f[i - 1] \o s[i]
           T == {k \in Nat : \E f : f = [i \in 1..k |-> Step(f, i)]}
<1>1. 0 \in T
  <2>1. [i \in 1..0 |-> 0] = [i \in 1..0 |-> Step([j \in 1..0 |-> 0], i)]
    OBVIOUS
  <2> QED  BY <2>1
<1>2. ASSUME NEW k \in T PROVE k + 1 \in T
  <2>1. PICK f : f = [i \in 1..k |-> Step(f, i)]
    OBVIOUS
  <2> DEFINE g == [i \in 1..k + 1 |-> IF i = k + 1 THEN Step(f, i) ELSE f[i]]
  <2>2. ASSUME NEW i \in 1..k + 1 PROVE g[i] = Step(g, i)
    <3>1. CASE i = 1
      BY <2>1, <3>1
    <3>2. CASE i # 1
      <4>1. i - 1 \in 1..k /\ i - 1 # k + 1 /\ i - 1 \in 1..k + 1
        BY <3>2
      <4>2. g[i - 1] = f[i - 1]
        BY <4>1
      <4>3. g[i] = Step(f, i)
        <5>1. CASE i = k + 1
          BY <5>1
        <5>2. CASE i # k + 1
          <6>1. i \in 1..k
            BY <5>2
          <6>2. f[i] = Step(f, i)
            <7> HIDE DEF Step
            <7> QED  BY <2>1, <6>1
          <6> QED  BY <5>2, <6>2
        <5> QED  BY <5>1, <5>2
      <4> QED  BY <3>2, <4>2, <4>3
    <3> QED  BY <3>1, <3>2
  <2>3. g = [i \in 1..k + 1 |-> Step(g, i)]
    <3> HIDE DEF Step
    <3> QED  BY <2>2
  <2>4. \E h : h = [i \in 1..k + 1 |-> Step(h, i)]
    <3> HIDE DEF g, Step
    <3> QED  BY <2>3
  <2> HIDE DEF Step
  <2> QED  BY <2>4
<1>3. T = Nat
  <2> HIDE DEF Step
  <2> QED  BY <1>1, <1>2, AllNumbers
<1>4. n \in T
  BY <1>3
<1> QED  BY <1>4

\* The lines of the first m of some SSRCs.
AreLinesOf(lines, ids, m, cname, msid) ==
    /\ DOMAIN lines = 1..Len(lines) /\ Len(lines) \in Nat \ {0} /\ \E S : lines \in Seq(S)
    /\ lines[1] = SsrcLine(ids[1], "cname", cname)
    /\ \A i \in DOMAIN lines : \E j \in 1..m :
         \/ lines[i] = SsrcLine(ids[j], "cname", cname)
         \/ lines[i] = SsrcLine(ids[j], "msid", msid)
    /\ \A j \in 1..m : \E i \in DOMAIN lines : lines[i] = SsrcLine(ids[j], "cname", cname)

\* The lines of the first SSRC.
LEMMA LinesOfOne ==
  ASSUME NEW ids, NEW cname, NEW msid
  PROVE  AreLinesOf(LinesOf(ids[1], cname, msid), ids, 1, cname, msid)
<1> DEFINE a == SsrcLine(ids[1], "cname", cname)
           b == SsrcLine(ids[1], "msid", msid)
           lines == <<a, b>>
<1>1. LinesOf(ids[1], cname, msid) = lines
  BY DEF LinesOf
<1> HIDE DEF a, b
<1>2. /\ DOMAIN lines = 1..2 /\ Len(lines) = 2 /\ lines \in Seq({a, b})
      /\ lines[1] = a /\ lines[2] = b
  OBVIOUS
<1> HIDE DEF lines
<1>3. \A i \in DOMAIN lines : lines[i] = a \/ lines[i] = b
  BY <1>2, SmallIntervals
<1>4. \A j \in 1..1 : j = 1
  OBVIOUS
<1>5. 1 \in 1..1 /\ 1 \in DOMAIN lines
  BY <1>2
<1>6. DOMAIN lines = 1..Len(lines) /\ Len(lines) \in Nat \ {0} /\ \E S : lines \in Seq(S)
  BY <1>2
<1> QED
  BY <1>1, <1>2, <1>3, <1>4, <1>5, <1>6, Zenon DEF AreLinesOf, a, b

\* The lines of one SSRC more.
LEMMA LinesOfNext ==
  ASSUME NEW m \in Nat, NEW lines, NEW ids, NEW cname, NEW msid,
         AreLinesOf(lines, ids, m, cname, msid)
  PROVE  AreLinesOf(lines \o LinesOf(ids[m + 1], cname, msid), ids, m + 1, cname, msid)
<1> DEFINE a == SsrcLine(ids[m + 1], "cname", cname)
           b == SsrcLine(ids[m + 1], "msid", msid)
           l == Len(lines)
           both == lines \o <<a, b>>
<1>1. LinesOf(ids[m + 1], cname, msid) = <<a, b>>
  BY DEF LinesOf
<1> HIDE DEF a, b
<1>2. /\ DOMAIN lines = 1..l /\ l \in Nat \ {0}
      /\ lines[1] = SsrcLine(ids[1], "cname", cname)
      /\ \A i \in 1..l : \E j \in 1..m :
           \/ lines[i] = SsrcLine(ids[j], "cname", cname)
           \/ lines[i] = SsrcLine(ids[j], "msid", msid)
      /\ \A j \in 1..m : \E i \in 1..l : lines[i] = SsrcLine(ids[j], "cname", cname)
  BY Zenon DEF AreLinesOf
<1> PICK S : lines \in Seq(S)
  BY Zenon DEF AreLinesOf
<1>3. /\ DOMAIN both = 1..l + 2 /\ Len(both) = l + 2 /\ both \in Seq(S \cup {a, b})
      /\ \A i \in 1..l : both[i] = lines[i]
      /\ both[l + 1] = a /\ both[l + 2] = b
  BY <1>2
<1> HIDE DEF both, l
<1>4. /\ 1..l + 2 = 1..l \cup {l + 1, l + 2} /\ 1..m + 1 = 1..m \cup {m + 1} /\ 1 \in 1..l
      /\ l + 2 \in Nat \ {0}
  <2>1. l \in Nat \ {0}
    BY <1>2
  <2>2. \A k \in Nat : 1..k + 2 = 1..k \cup {k + 1, k + 2} /\ 1..k + 1 = 1..k \cup {k + 1}
    OBVIOUS
  <2> QED
    BY <2>1, <2>2
<1>5. ASSUME NEW i \in DOMAIN both
      PROVE  \E j \in 1..m + 1 : \/ both[i] = SsrcLine(ids[j], "cname", cname)
                                 \/ both[i] = SsrcLine(ids[j], "msid", msid)
  <2>1. CASE i \in 1..l
    <3>1. PICK j \in 1..m : \/ lines[i] = SsrcLine(ids[j], "cname", cname)
                            \/ lines[i] = SsrcLine(ids[j], "msid", msid)
      BY <1>2, <2>1
    <3>2. j \in 1..m + 1 /\ both[i] = lines[i]
      BY <1>3, <1>4, <2>1
    <3> QED
      BY <3>1, <3>2, Zenon
  <2>2. CASE i \in {l + 1, l + 2}
    BY <1>3, <1>4, <2>2, Zenon DEF a, b
  <2> QED
    BY <1>3, <1>4, <2>1, <2>2, Zenon
<1>6. ASSUME NEW j \in 1..m + 1
      PROVE  \E i \in DOMAIN both : both[i] = SsrcLine(ids[j], "cname", cname)
  <2>1. CASE j \in 1..m
    BY <1>2, <1>3, <1>4, <2>1, Zenon
  <2>2. CASE j = m + 1
    BY <1>3, <1>4, <2>2, Zenon DEF a
  <2> QED
    BY <1>4, <2>1, <2>2, Zenon
<1>7. both[1] = SsrcLine(ids[1], "cname", cname)
  BY <1>2, <1>3, <1>4, Zenon
<1>8. DOMAIN both = 1..Len(both) /\ Len(both) \in Nat \ {0} /\ \E R : both \in Seq(R)
  BY <1>3, <1>4, Zenon
<1>9. AreLinesOf(both, ids, m + 1, cname, msid)
  BY <1>5, <1>6, <1>7, <1>8, Zenon DEF AreLinesOf
<1> QED
  BY <1>1, <1>9 DEF both

\* FlattenSeq is the last value of that function.
Flattens(f, s, n) ==
    /\ f = [i \in 1..n |-> IF i = 1 THEN s[i] ELSE f[i - 1] \o s[i]]
    /\ FlattenSeq(s) = f[n]

\* There is such a function, and its values are the lists so far.
LEMMA FlattenIs ==
  ASSUME NEW s, NEW n \in Nat \ {0}, Len(s) = n
  PROVE  \E f : Flattens(f, s, n)
<1> DEFINE Recursive(f) == f = [i \in 1..n |-> IF i = 1 THEN s[i] ELSE f[i - 1] \o s[i]]
           flatten == CHOOSE f : Recursive(f)
<1>1. Recursive(flatten)
  <2>1. n \in Nat
    OBVIOUS
  <2>2. \E f : Recursive(f)
    BY <2>1, FlattenExists
  <2> HIDE DEF Recursive
  <2> QED
    BY <2>2, Zenon
<1>2. FlattenSeq(s) = flatten[n]
  <2>1. n # 0
    OBVIOUS
  <2> QED
    BY <2>1, Zenon DEF FlattenSeq
<1> HIDE DEF flatten
<1>3. Flattens(flatten, s, n)
  BY <1>1, <1>2 DEF Flattens
<1> QED
  BY <1>3

\* The lines that AddLegacySimulcast writes are the lines of its SSRCs.
LEMMA FlattenedLines ==
  ASSUME NEW n \in Nat \ {0}, NEW ids, NEW cname, NEW msid,
         NEW s, s = [i \in 1..n |-> LinesOf(ids[i], cname, msid)]
  PROVE  AreLinesOf(FlattenSeq(s), ids, n, cname, msid)
<1>1. Len(s) = n
  <2>1. s = [i \in 1..n |-> s[i]]
    OBVIOUS
  <2>2. n \in Nat
    OBVIOUS
  <2> QED
    BY <2>1, <2>2, Listed
<1> PICK flatten : Flattens(flatten, s, n)
  BY <1>1, FlattenIs
<1>2. flatten = [i \in 1..n |-> IF i = 1 THEN s[i] ELSE flatten[i - 1] \o s[i]]
  BY DEF Flattens
<1>3. FlattenSeq(s) = flatten[n]
  BY DEF Flattens
<1> DEFINE Good(k) == AreLinesOf(flatten[k], ids, k, cname, msid)
           T == {k \in Nat : k + 1 \in 1..n => Good(k + 1)}
<1>4. 0 \in T
  <2>1. 1 \in 1..n
    OBVIOUS
  <2>2. flatten[1] = LinesOf(ids[1], cname, msid)
    BY <1>2, <2>1
  <2>3. Good(1)
    BY <2>2, LinesOfOne
  <2> HIDE DEF Good
  <2>4. 0 \in Nat /\ 0 + 1 = 1
    OBVIOUS
  <2> QED
    BY <2>3, <2>4
<1>5. ASSUME NEW k \in T PROVE k + 1 \in T
  <2> SUFFICES ASSUME (k + 1) + 1 \in 1..n PROVE Good((k + 1) + 1)
    OBVIOUS
  <2>1. k + 1 \in 1..n /\ k + 1 \in Nat /\ k \in Nat
    OBVIOUS
  <2>2. Good(k + 1)
    <3> HIDE DEF Good
    <3> QED
      BY <2>1
  <2>3. flatten[(k + 1) + 1] = flatten[k + 1] \o LinesOf(ids[(k + 1) + 1], cname, msid)
    <3>1. (k + 1) + 1 # 1 /\ ((k + 1) + 1) - 1 = k + 1
      BY <2>1
    <3>2. PICK i \in 1..n : i = (k + 1) + 1
      OBVIOUS
    <3>3. flatten[i] = flatten[i - 1] \o s[i]
      <4> HIDE DEF T
      <4>1. i # 1
        BY <3>1, <3>2
      <4> QED
        BY <1>2, <4>1
    <3>4. s[i] = LinesOf(ids[i], cname, msid)
      OBVIOUS
    <3> QED
      BY <3>1, <3>2, <3>3, <3>4
  <2> PICK m \in Nat : m = k + 1
    BY <2>1
  <2>4. AreLinesOf(flatten[m] \o LinesOf(ids[m + 1], cname, msid), ids, m + 1, cname, msid)
    BY <2>2, LinesOfNext
  <2> QED
    BY <2>3, <2>4
<1>6. T = Nat
  <2> HIDE DEF Good
  <2> QED
    BY <1>4, <1>5, AllNumbers
<1>7. Good(n)
  <2>1. n - 1 \in Nat /\ (n - 1) + 1 = n /\ n \in 1..n
    OBVIOUS
  <2> HIDE DEF Good
  <2>2. n - 1 \in T
    BY <1>6, <2>1
  <2> QED
    BY <2>1, <2>2
<1> QED
  BY <1>3, <1>7

\* What the lines of some SSRCs say.
LEMMA LinesSay ==
  ASSUME NEW section, NEW n \in Nat \ {0}, NEW ids, NEW cname, NEW msid,
         AreLinesOf(section.ssrcs, ids, n, cname, msid),
         NEW all, all = {ids[j] : j \in 1..n}
  PROVE  Says(section, ids[1], cname, all)
<1> PICK lines : lines = section.ssrcs
  OBVIOUS
<1>1. /\ DOMAIN lines = 1..Len(lines) /\ Len(lines) \in Nat \ {0}
      /\ lines[1] = SsrcLine(ids[1], "cname", cname)
      /\ \A i \in DOMAIN lines : \E j \in 1..n :
           \/ lines[i] = SsrcLine(ids[j], "cname", cname)
           \/ lines[i] = SsrcLine(ids[j], "msid", msid)
      /\ \A j \in 1..n : \E i \in DOMAIN lines : lines[i] = SsrcLine(ids[j], "cname", cname)
  BY Zenon DEF AreLinesOf
<1>2. \A id, attribute, value :
        LET line == SsrcLine(id, attribute, value)
        IN  line.id = id /\ line.attribute = attribute /\ line.value = value
  BY DEF SsrcLine
<1>3. lines # <<>> /\ lines[1].id = ids[1] /\ lines[1].value = cname
  BY <1>1, <1>2
<1>4. ASSUME NEW i \in DOMAIN lines
      PROVE  /\ lines[i].attribute = "cname" => lines[i].value = cname
             /\ lines[i].id \in {ids[j] : j \in 1..n}
  <2> PICK j \in 1..n : \/ lines[i] = SsrcLine(ids[j], "cname", cname)
                        \/ lines[i] = SsrcLine(ids[j], "msid", msid)
    BY <1>1
  <2>1. "msid" # "cname"
    OBVIOUS
  <2>2. lines[i].id = ids[j] /\ (lines[i].attribute = "cname" => lines[i].value = cname)
    BY <1>2, <2>1
  <2> QED
    BY <2>2
<1>5. ASSUME NEW j \in 1..n PROVE ids[j] \in {lines[i].id : i \in DOMAIN lines}
  <2> PICK i \in DOMAIN lines : lines[i] = SsrcLine(ids[j], "cname", cname)
    BY <1>1
  <2> QED
    BY <1>2
<1>6. {lines[i].id : i \in DOMAIN lines} = {ids[j] : j \in 1..n}
  BY <1>4, <1>5
<1>7. GetCname(section) = cname
  BY <1>3, Zenon DEF GetCname
<1> QED
  BY <1>3, <1>4, <1>6, <1>7, Zenon DEF Says

\* What AddLegacySimulcast finds in the section of one stream: its lines, and
\* the group of its RTX stream.
Opens(section, ssrc, rtx, hasRtx, cname, msid) ==
    /\ FirstWith(section.ssrcs, "cname") = SsrcLine(ssrc, "cname", cname)
    /\ FirstWith(section.ssrcs, "msid") = SsrcLine(ssrc, "msid", msid)
    /\ SelectInSeq(section.ssrcGroups, LAMBDA g : g.ssrcs[1] = ssrc) = IF hasRtx THEN 1 ELSE 0
    /\ hasRtx => section.ssrcGroups[1].ssrcs[2] = rtx

\* The section of one stream has them.
LEMMA FirstLines ==
  ASSUME NEW section, NEW ssrc, NEW rtx, NEW hasRtx \in BOOLEAN, NEW cname, NEW msid,
         OneStream(section, ssrc, rtx, hasRtx, cname, msid)
  PROVE  Opens(section, ssrc, rtx, hasRtx, cname, msid)
<1> PICK n : n = IF hasRtx THEN 4 ELSE 2
  OBVIOUS
<1> PICK lines : lines = section.ssrcs
  OBVIOUS
<1> PICK groups : groups = section.ssrcGroups
  OBVIOUS
<1>1. /\ Len(lines) = n
      /\ lines[1] = SsrcLine(ssrc, "cname", cname) /\ lines[2] = SsrcLine(ssrc, "msid", msid)
  BY StreamLines
<1>2. lines[1].attribute = "cname" /\ lines[2].attribute = "msid"
  BY <1>1 DEF SsrcLine
<1>3. FirstWith(lines, "cname") = lines[1]
  <2> DEFINE I == {i \in 1..Len(lines) : lines[i].attribute = "cname"}
  <2>1. FirstWith(lines, "cname") = lines[IF I # {} THEN Min(I) ELSE 0]
    BY DEF FirstWith, SelectInSeq
  <2>2. 1 \in I /\ I \subseteq Nat
    BY <1>1, <1>2
  <2>3. \A i \in I : 1 <= i
    BY <1>1
  <2> HIDE DEF I
  <2>4. Min(I) = 1
    BY <2>2, <2>3, MinIs
  <2> QED
    BY <2>1, <2>2, <2>4
<1>4. FirstWith(lines, "msid") = lines[2]
  <2> DEFINE I == {i \in 1..Len(lines) : lines[i].attribute = "msid"}
  <2>1. FirstWith(lines, "msid") = lines[IF I # {} THEN Min(I) ELSE 0]
    BY DEF FirstWith, SelectInSeq
  <2>2. 2 \in I /\ I \subseteq Nat
    BY <1>1, <1>2
  <2>3. \A i \in I : 2 <= i
    <3>1. \A i \in I : i \in 1..4 /\ i # 1
      BY <1>1, <1>2
    <3> HIDE DEF I
    <3> QED
      BY <3>1
  <2> HIDE DEF I
  <2>4. Min(I) = 2
    BY <2>2, <2>3, MinIs
  <2> QED
    BY <2>1, <2>2, <2>4
<1>5. groups = IF hasRtx THEN <<Group("FID", <<ssrc, rtx>>)>> ELSE <<>>
  BY DEF OneStream
<1>6. hasRtx => groups[1].ssrcs[2] = rtx
  BY <1>5 DEF Group
<1>7. SelectInSeq(groups, LAMBDA g : g.ssrcs[1] = ssrc) = IF hasRtx THEN 1 ELSE 0
  <2> DEFINE I == {i \in 1..Len(groups) : groups[i].ssrcs[1] = ssrc}
             group == SelectInSeq(groups, LAMBDA g : g.ssrcs[1] = ssrc)
  <2>1. group = IF I # {} THEN Min(I) ELSE 0
    BY DEF SelectInSeq
  <2>2. I = IF hasRtx THEN {1} ELSE {}
    <3>1. CASE hasRtx
      <4>1. Len(groups) = 1 /\ groups[1].ssrcs[1] = ssrc
        BY <1>5, <3>1 DEF Group
      <4> QED
        BY <3>1, <4>1
    <3>2. CASE ~hasRtx
      <4>1. Len(groups) = 0
        BY <1>5, <3>2
      <4> QED
        BY <3>2, <4>1
    <3> QED
      BY <3>1, <3>2
  <2> HIDE DEF I, group
  <2>3. group = IF hasRtx THEN 1 ELSE 0
    BY <2>1, <2>2, OfOne
  <2> QED
    BY <2>3 DEF group
<1> QED
  BY <1>1, <1>3, <1>4, <1>6, <1>7, Zenon DEF Opens

\* The k-th SSRC that is counted on from one.
From(first, k) == (first + k - 1) % SsrcSpace

\* The SSRCs of n layers, and of their RTX streams.
LayersFrom(first, n) == {From(first, k) : k \in 1..n}

\* The section of n spatial layers of a stream.
SvcStreams(section, n, ssrc, rtx, hasRtx) ==
    /\ DOMAIN section.ssrcGroups = 1..Len(section.ssrcGroups)
    /\ Len(section.ssrcGroups) = IF hasRtx THEN n + 1 ELSE 1
    /\ section.ssrcGroups[1] = Group("SIM", Consecutive(ssrc, n))
    /\ hasRtx => \A k \in 1..n :
         section.ssrcGroups[k + 1] = Group("FID", <<From(ssrc, k), From(rtx, k)>>)
    /\ DOMAIN section.ssrcs = 1..Len(section.ssrcs) /\ Len(section.ssrcs) \in Nat
    /\ Says(section, From(ssrc, 1), "local",
            LayersFrom(ssrc, n) \cup IF hasRtx THEN LayersFrom(rtx, n) ELSE {})

\* The SSRCs that are counted on.
LEMMA Counted ==
  ASSUME NEW first \in Nat, NEW n \in Nat
  PROVE  /\ DOMAIN Consecutive(first, n) = 1..n /\ Len(Consecutive(first, n)) = n
         /\ Consecutive(first, n) \in Seq(Int)
         /\ \A k \in 1..n : Consecutive(first, n)[k] = From(first, k)
<1>1. Consecutive(first, n) = [k \in 1..n |-> From(first, k)]
  BY DEF Consecutive, From
<1>2. \A k \in 1..n : From(first, k) \in Int
  BY SsrcAssumption DEF From
<1> HIDE DEF Consecutive, From
<1>3. Consecutive(first, n) \in [1..n -> Int]
  BY <1>1, <1>2
<1> QED
  BY <1>1, <1>3

\* Some SSRCs and then others: the first n of them, and all.
IsCounted(all, m, ssrc, rtx, hasRtx, n) ==
    /\ DOMAIN all = 1..m /\ m \in Nat \ {0} /\ all[1] = From(ssrc, 1)
    /\ {all[j] : j \in 1..m}
         = LayersFrom(ssrc, n) \cup IF hasRtx THEN LayersFrom(rtx, n) ELSE {}

\* Counting on from both SSRCs gives the SSRCs of all layers.
LEMMA CountedOn ==
  ASSUME NEW ssrc \in Nat, NEW rtx \in Nat, NEW hasRtx \in BOOLEAN, NEW n \in Nat \ {0},
         NEW m, m = IF hasRtx THEN n + n ELSE n,
         NEW all, all = Consecutive(ssrc, n) \o IF hasRtx THEN Consecutive(rtx, n) ELSE <<>>
  PROVE  IsCounted(all, m, ssrc, rtx, hasRtx, n)
<1> PICK a : a = Consecutive(ssrc, n)
  OBVIOUS
<1> PICK b : b = Consecutive(rtx, n)
  OBVIOUS
<1>1. /\ n \in Nat \ {0} /\ 1 \in 1..n
      /\ a \in Seq(Int) /\ Len(a) = n /\ \A k \in 1..n : a[k] = From(ssrc, k)
      /\ b \in Seq(Int) /\ Len(b) = n /\ \A k \in 1..n : b[k] = From(rtx, k)
  <2>1. n \in Nat \ {0} /\ 1 \in 1..n /\ n \in Nat
    OBVIOUS
  <2>2. a \in Seq(Int) /\ Len(a) = n /\ \A k \in 1..n : a[k] = From(ssrc, k)
    BY <2>1, Counted, Zenon
  <2>3. b \in Seq(Int) /\ Len(b) = n /\ \A k \in 1..n : b[k] = From(rtx, k)
    BY <2>1, Counted, Zenon
  <2> QED
    BY <2>1, <2>2, <2>3, Zenon
<1>2. CASE ~hasRtx
  <2>1. all = a /\ m = n
    BY <1>1, <1>2
  <2>2. {all[j] : j \in 1..m} = LayersFrom(ssrc, n)
    BY <1>1, <2>1 DEF LayersFrom
  <2> QED
    BY <1>1, <1>2, <2>1, <2>2 DEF IsCounted
<1>3. CASE hasRtx
  <2>1. all = a \o b /\ m = n + n
    BY <1>3
  <2>2. /\ DOMAIN all = 1..m /\ m \in Nat \ {0} /\ 1 \in 1..m
        /\ \A j \in 1..n : all[j] = From(ssrc, j) /\ j \in 1..m
        /\ \A j \in 1..n : all[n + j] = From(rtx, j) /\ n + j \in 1..m
    <3>1. /\ DOMAIN all = 1..m
          /\ \A j \in 1..n : all[j] = a[j] /\ all[n + j] = b[j]
      <4>1. IsJoined(a \o b, a, n, b, n)
        BY <1>1, Joined
      <4> QED
        BY <2>1, <4>1 DEF IsJoined
    <3>2. m \in Nat \ {0} /\ 1 \in 1..m /\ \A j \in 1..n : j \in 1..m /\ n + j \in 1..m
      BY <2>1
    <3> QED
      BY <1>1, <3>1, <3>2
  <2>3. \A j \in 1..m : j \in 1..n \/ (j - n \in 1..n /\ n + (j - n) = j)
    BY <1>1, <2>1
  <2>4. {all[j] : j \in 1..m} = LayersFrom(ssrc, n) \cup LayersFrom(rtx, n)
    <3>1. ASSUME NEW j \in 1..m PROVE all[j] \in LayersFrom(ssrc, n) \cup LayersFrom(rtx, n)
      <4>1. CASE j \in 1..n
        BY <2>2, <4>1 DEF LayersFrom
      <4>2. CASE j - n \in 1..n /\ n + (j - n) = j
        <5> PICK k : k = j - n
          OBVIOUS
        <5> QED
          BY <2>2, <4>2 DEF LayersFrom
      <4> QED
        BY <2>3, <4>1, <4>2
    <3>2. \A k \in 1..n : From(ssrc, k) \in {all[j] : j \in 1..m}
      BY <2>2
    <3>3. \A k \in 1..n : From(rtx, k) \in {all[j] : j \in 1..m}
      BY <2>2
    <3>4. LayersFrom(ssrc, n) \subseteq {all[j] : j \in 1..m}
      BY <3>2 DEF LayersFrom
    <3>5. LayersFrom(rtx, n) \subseteq {all[j] : j \in 1..m}
      BY <3>3 DEF LayersFrom
    <3> QED
      BY <3>1, <3>4, <3>5
  <2> QED
    BY <1>1, <1>3, <2>2, <2>4 DEF IsCounted
<1> QED
  BY <1>2, <1>3

\* That is the section that AddLegacySimulcast makes of the section of a stream.
LEMMA SvcSection ==
  ASSUME NEW local, {"ssrcs", "ssrcGroups"} \subseteq DOMAIN local,
         NEW n \in Nat \ {0}, NEW ssrc \in Nat, NEW rtx \in Nat, NEW hasRtx \in BOOLEAN,
         OneStream(local, ssrc, rtx, hasRtx, "local", "msid"), hasRtx => rtx # 0,
         NEW section, section = AddLegacySimulcast(local, n)
  PROVE  SvcStreams(section, n, ssrc, rtx, hasRtx)
<1> DEFINE msid == FirstWith(local.ssrcs, "msid")
           cname == FirstWith(local.ssrcs, "cname").value
           group == SelectInSeq(local.ssrcGroups, LAMBDA g : g.ssrcs[1] = msid.id)
           firstRtx == IF group = 0 THEN 0 ELSE local.ssrcGroups[group].ssrcs[2]
           ssrcs == Consecutive(msid.id, n)
           rtxSsrcs == IF firstRtx = 0 THEN <<>> ELSE Consecutive(firstRtx, n)
           all == ssrcs \o rtxSsrcs
           lines == [i \in DOMAIN all |-> LinesOf(all[i], cname, msid.value)]
           fids == [i \in DOMAIN rtxSsrcs |-> Group("FID", <<ssrcs[i], rtxSsrcs[i]>>)]
<1>1. /\ section.ssrcs = FlattenSeq(lines)
      /\ section.ssrcGroups = <<Group("SIM", ssrcs)>> \o fids
  <2>1. section = [local EXCEPT !.ssrcs = FlattenSeq(lines),
                                !.ssrcGroups = <<Group("SIM", ssrcs)>> \o fids]
    BY Zenon DEF AddLegacySimulcast
  <2> HIDE DEF lines, ssrcs, fids
  <2> QED
    BY <2>1, Zenon
<1> HIDE DEF msid, cname, group, firstRtx, ssrcs, rtxSsrcs, all, lines, fids
<1>opens. Opens(local, ssrc, rtx, hasRtx, "local", "msid")
  BY FirstLines
<1>2. msid.id = ssrc /\ msid.value = "msid" /\ cname = "local"
  <2>1. msid = SsrcLine(ssrc, "msid", "msid")
        /\ FirstWith(local.ssrcs, "cname") = SsrcLine(ssrc, "cname", "local")
    BY <1>opens, Zenon DEF Opens, msid
  <2> QED
    BY <2>1 DEF SsrcLine, cname
<1>3. group = IF hasRtx THEN 1 ELSE 0
  <2>1. SelectInSeq(local.ssrcGroups, LAMBDA g : g.ssrcs[1] = ssrc) = IF hasRtx THEN 1 ELSE 0
    BY <1>opens, Zenon DEF Opens
  <2>2. group = SelectInSeq(local.ssrcGroups, LAMBDA g : g.ssrcs[1] = ssrc)
    <3>1. msid.id = ssrc
      BY <1>2
    <3> QED
      BY <3>1 DEF group
  <2> QED
    BY <2>1, <2>2, Zenon
<1>4. firstRtx = IF hasRtx THEN rtx ELSE 0
  <2>1. hasRtx => local.ssrcGroups[1].ssrcs[2] = rtx
    BY <1>opens, Zenon DEF Opens
  <2> QED
    BY <1>3, <2>1 DEF firstRtx
<1>5. /\ ssrcs = Consecutive(ssrc, n)
      /\ rtxSsrcs = IF hasRtx THEN Consecutive(rtx, n) ELSE <<>>
  BY <1>2, <1>4 DEF ssrcs, rtxSsrcs
<1> PICK m : m = IF hasRtx THEN n + n ELSE n
  OBVIOUS
<1>6. /\ DOMAIN all = 1..m /\ m \in Nat \ {0} /\ all[1] = From(ssrc, 1)
      /\ {all[j] : j \in 1..m}
           = LayersFrom(ssrc, n) \cup IF hasRtx THEN LayersFrom(rtx, n) ELSE {}
  <2>1. all = Consecutive(ssrc, n) \o IF hasRtx THEN Consecutive(rtx, n) ELSE <<>>
    BY <1>5 DEF all
  <2>2. IsCounted(all, m, ssrc, rtx, hasRtx, n)
    BY <2>1, CountedOn
  <2> QED
    BY <2>2 DEF IsCounted
<1>7. AreLinesOf(section.ssrcs, all, m, "local", "msid")
  <2>1. lines = [i \in 1..m |-> LinesOf(all[i], "local", "msid")]
    BY <1>2, <1>6 DEF lines
  <2>2. m \in Nat \ {0}
    BY <1>6
  <2>3. AreLinesOf(FlattenSeq(lines), all, m, "local", "msid")
    BY <2>1, <2>2, FlattenedLines
  <2> QED
    BY <1>1, <2>3
<1>8. DOMAIN section.ssrcs = 1..Len(section.ssrcs) /\ Len(section.ssrcs) \in Nat
  BY <1>7 DEF AreLinesOf
<1>9. Says(section, From(ssrc, 1), "local",
           LayersFrom(ssrc, n) \cup IF hasRtx THEN LayersFrom(rtx, n) ELSE {})
  <2>1. Says(section, all[1], "local", {all[j] : j \in 1..m})
    BY <1>6, <1>7, LinesSay
  <2> QED
    BY <1>6, <2>1
<1>10. /\ DOMAIN section.ssrcGroups = 1..Len(section.ssrcGroups)
       /\ Len(section.ssrcGroups) = IF hasRtx THEN n + 1 ELSE 1
       /\ section.ssrcGroups[1] = Group("SIM", Consecutive(ssrc, n))
       /\ hasRtx => \A k \in 1..n :
            section.ssrcGroups[k + 1] = Group("FID", <<From(ssrc, k), From(rtx, k)>>)
  <2> PICK sim : sim = Group("SIM", ssrcs)
    OBVIOUS
  <2> PICK groups : groups = section.ssrcGroups
    OBVIOUS
  <2>1. n \in Nat
    OBVIOUS
  <2>2. DOMAIN Consecutive(rtx, n) = 1..n /\ \A k \in 1..n : Consecutive(rtx, n)[k] = From(rtx, k)
    BY <2>1, Counted
  <2>3. \A k \in 1..n : Consecutive(ssrc, n)[k] = From(ssrc, k)
    BY <2>1, Counted
  <2>4. CASE hasRtx
    <3>1. fids = [k \in 1..n |-> Group("FID", <<From(ssrc, k), From(rtx, k)>>)]
      BY <1>5, <2>2, <2>3, <2>4 DEF fids
    <3> PICK list : list = fids
      OBVIOUS
    <3>2. /\ groups = <<sim>> \o list /\ list = [k \in 1..n |-> list[k]]
          /\ \A k \in 1..n : list[k] = Group("FID", <<From(ssrc, k), From(rtx, k)>>)
      BY <1>1, <3>1
    <3>3. PICK S : list \in Seq(S) /\ Len(list) = n
      BY <2>1, <3>2, Listed
    <3>4. /\ DOMAIN groups = 1..n + 1 /\ Len(groups) = n + 1 /\ groups[1] = sim
          /\ \A k \in 1..n : groups[k + 1] = list[k]
      <4>1. <<sim>> \in Seq(S \cup {sim}) /\ list \in Seq(S \cup {sim}) /\ Len(<<sim>>) = 1
        BY <3>3
      <4>2. IsJoined(<<sim>> \o list, <<sim>>, 1, list, n)
        BY <3>3, <4>1, Joined
      <4>3. groups \in Seq(S \cup {sim}) /\ Len(groups) = 1 + n
        BY <3>2, <3>3, <4>1
      <4>4. 1 \in 1..1 /\ <<sim>>[1] = sim /\ 1 + n = n + 1 /\ \A k \in 1..n : 1 + k = k + 1
        OBVIOUS
      <4> QED
        BY <3>2, <4>2, <4>3, <4>4 DEF IsJoined
    <3> QED
      BY <1>5, <2>4, <3>2, <3>4
  <2>5. CASE ~hasRtx
    <3>1. DOMAIN rtxSsrcs = {}
      BY <1>5, <2>5
    <3>2. fids = <<>>
      BY <3>1 DEF fids
    <3>3. groups = <<sim>>
      BY <1>1, <3>2
    <3> QED
      BY <1>5, <2>5, <3>3
  <2> QED
    BY <2>4, <2>5
<1> QED
  BY <1>8, <1>9, <1>10, Zenon DEF SvcStreams

\* As many SSRCs as layers, unless there are more layers than SSRCs.
LEMMA FromApart ==
  ASSUME NEW first \in 0..SsrcSpace - 1, NEW n \in Nat, n <= SsrcSpace
  PROVE  /\ \A k \in 1..n : IsSsrc(From(first, k))
         /\ \A j, k \in 1..n : From(first, j) = From(first, k) => j = k
         /\ From(first, 1) = first
<1>1. SsrcSpace \in Nat \ {0}
  BY SsrcAssumption
<1>2. \A k \in 1..n : k - 1 \in 0..SsrcSpace - 1 /\ From(first, k) = (first + (k - 1)) % SsrcSpace
  <2>1. \A k \in 1..n : k - 1 \in 0..SsrcSpace - 1 /\ first + k - 1 = first + (k - 1)
    BY <1>1
  <2> QED
    BY <2>1, Zenon DEF From
<1>3. ASSUME NEW j \in 1..n, NEW k \in 1..n, From(first, j) = From(first, k) PROVE j = k
  <2>1. j - 1 = k - 1
    BY <1>1, <1>2, <1>3, WrapsInjective
  <2> QED
    BY <2>1
<1>4. \A k \in 1..n : IsSsrc(From(first, k))
  BY <1>1, <1>2, Wraps DEF IsSsrc
<1>5. From(first, 1) = first
  <2>1. first + 1 - 1 = first + 0 /\ 0 \in 0..SsrcSpace - 1 /\ first + 0 < SsrcSpace
    BY <1>1
  <2>2. (first + 0) % SsrcSpace = first + 0
    BY <1>1, <2>1, Wraps
  <2> QED
    BY <2>1, <2>2 DEF From
<1> QED
  BY <1>3, <1>4, <1>5

\* The set of one index has it as its least and its greatest.
LEMMA OfOneIndex ==
  ASSUME NEW k \in Nat PROVE Min({k}) = k /\ Max({k}) = k
<1>1. k <= k /\ k >= k
  OBVIOUS
<1>2. \A i \in {k} : i = k
  OBVIOUS
<1> QED
  BY <1>1, <1>2 DEF Min, Max

\* The group of each layer is that of its RTX stream.
FidsOf(section, n, ssrc, rtx, hasRtx) ==
    \A k \in 1..n :
      /\ {g \in 1..Len(section.ssrcGroups) :
            /\ section.ssrcGroups[g].semantics = "FID"
            /\ section.ssrcGroups[g].ssrcs[1] = From(ssrc, k)} = IF hasRtx THEN {k + 1} ELSE {}
      /\ hasRtx => section.ssrcGroups[k + 1].ssrcs[2] = From(rtx, k)

\* And the SIM group is the first.
GroupsAre(section, n, ssrc, rtx, hasRtx) ==
    /\ FidsOf(section, n, ssrc, rtx, hasRtx)
    /\ {section.ssrcGroups[g].ssrcs[2] :
          g \in {g \in DOMAIN section.ssrcGroups : section.ssrcGroups[g].semantics = "FID"}}
         \subseteq IF hasRtx THEN LayersFrom(rtx, n) ELSE {}
    /\ 1 \in DOMAIN section.ssrcGroups /\ section.ssrcGroups[1].semantics = "SIM"
    /\ section.ssrcGroups[1].ssrcs = Consecutive(ssrc, n)

\* The groups that AddLegacySimulcast writes are these.
LEMMA GroupsOfLayers ==
  ASSUME NEW n \in Nat \ {0}, n <= SsrcSpace, NEW ssrc \in 0..SsrcSpace - 1, NEW rtx,
         NEW hasRtx \in BOOLEAN, NEW section, SvcStreams(section, n, ssrc, rtx, hasRtx)
  PROVE  GroupsAre(section, n, ssrc, rtx, hasRtx)
<1> PICK groups : groups = section.ssrcGroups
  OBVIOUS
<1> PICK size : size = IF hasRtx THEN n + 1 ELSE 1
  OBVIOUS
<1>1. /\ DOMAIN groups = 1..size /\ Len(groups) = size
      /\ groups[1] = Group("SIM", Consecutive(ssrc, n))
      /\ hasRtx => \A k \in 1..n : groups[k + 1] = Group("FID", <<From(ssrc, k), From(rtx, k)>>)
  BY Zenon DEF SvcStreams
<1>2. groups[1].semantics = "SIM" /\ groups[1].ssrcs = Consecutive(ssrc, n) /\ "SIM" # "FID"
  BY <1>1 DEF Group
<1>3. hasRtx => \A k \in 1..n : /\ groups[k + 1].semantics = "FID"
                                /\ groups[k + 1].ssrcs[1] = From(ssrc, k)
                                /\ groups[k + 1].ssrcs[2] = From(rtx, k)
  <2>1. \A x, y : LET group == Group("FID", <<x, y>>)
                 IN  group.semantics = "FID" /\ group.ssrcs[1] = x /\ group.ssrcs[2] = y
    BY DEF Group
  <2>2. ASSUME hasRtx, NEW k \in 1..n
        PROVE  LET group == groups[k + 1]
               IN  /\ group.semantics = "FID"
                   /\ group.ssrcs[1] = From(ssrc, k) /\ group.ssrcs[2] = From(rtx, k)
    <3>1. groups[k + 1] = Group("FID", <<From(ssrc, k), From(rtx, k)>>)
      BY <1>1, <2>2
    <3> PICK group : group = groups[k + 1]
      OBVIOUS
    <3> PICK x, y : x = From(ssrc, k) /\ y = From(rtx, k)
      OBVIOUS
    <3>2. group = Group("FID", <<x, y>>)
      BY <3>1
    <3>3. group.semantics = "FID" /\ group.ssrcs[1] = x /\ group.ssrcs[2] = y
      BY <2>1, <3>2
    <3> QED
      BY <3>3
  <2> QED
    BY <2>2, Zenon
<1>4. 1 \in 1..size /\ \A g \in 1..size : g = 1 \/ (hasRtx /\ g - 1 \in 1..n /\ (g - 1) + 1 = g)
  <2>1. CASE hasRtx
    <3>1. size = n + 1 /\ n \in Nat \ {0}
      BY <2>1
    <3>2. \A g \in 1..n + 1 : g = 1 \/ (g - 1 \in 1..n /\ (g - 1) + 1 = g)
      OBVIOUS
    <3> QED
      BY <2>1, <3>1, <3>2
  <2>2. CASE ~hasRtx
    BY <2>2
  <2> QED
    BY <2>1, <2>2
<1>5. hasRtx => \A k \in 1..n : k + 1 \in 1..size
  OBVIOUS
<1>6. \A j, k \in 1..n : From(ssrc, j) = From(ssrc, k) => j = k
  <2>1. n \in Nat
    OBVIOUS
  <2> QED
    BY <2>1, FromApart
<1>7. ASSUME NEW g \in 1..size, groups[g].semantics = "FID"
      PROVE  hasRtx /\ \E j \in 1..n : g = j + 1
  BY <1>2, <1>4, <1>7
<1>8. ASSUME NEW k \in 1..n
      PROVE  {g \in 1..Len(groups) : groups[g].semantics = "FID" /\ groups[g].ssrcs[1] = From(ssrc, k)}
               = IF hasRtx THEN {k + 1} ELSE {}
  <2> DEFINE I == {g \in 1..Len(groups) :
                     groups[g].semantics = "FID" /\ groups[g].ssrcs[1] = From(ssrc, k)}
  <2>1. CASE hasRtx
    <3>1. k + 1 \in I
      BY <1>1, <1>3, <1>5, <2>1
    <3>2. ASSUME NEW g \in I PROVE g = k + 1
      <4> PICK j \in 1..n : g = j + 1
        BY <1>1, <1>7
      <4>1. j = k
        BY <1>3, <1>6, <2>1
      <4> QED
        BY <4>1
    <3> HIDE DEF I
    <3>3. I = {k + 1}
      BY <3>1, <3>2
    <3> QED
      BY <2>1, <3>3 DEF I
  <2>2. CASE ~hasRtx
    BY <1>1, <1>7, <2>2
  <2> QED
    BY <2>1, <2>2
<1>9. {groups[g].ssrcs[2] : g \in {g \in DOMAIN groups : groups[g].semantics = "FID"}}
        \subseteq IF hasRtx THEN LayersFrom(rtx, n) ELSE {}
  <2>1. ASSUME NEW g \in DOMAIN groups, groups[g].semantics = "FID"
        PROVE  hasRtx /\ groups[g].ssrcs[2] \in LayersFrom(rtx, n)
    <3> PICK j \in 1..n : hasRtx /\ g = j + 1
      BY <1>1, <1>7, <2>1
    <3> QED
      BY <1>3 DEF LayersFrom
  <2> QED
    BY <2>1
<1>10. FidsOf(section, n, ssrc, rtx, hasRtx)
  BY <1>3, <1>8, Zenon DEF FidsOf
<1> QED
  BY <1>1, <1>2, <1>4, <1>9, <1>10, Zenon DEF GroupsAre

\* The RTX stream of an SSRC, and the index of the group that says so.
RtxIs(section, id, told, index) ==
    /\ FidOf(section, id) = told
    /\ SelectLastInSeq(section.ssrcGroups,
                       LAMBDA g : g.semantics = "FID" /\ g.ssrcs[1] = id) = index

\* The RTX stream of each layer.
LEMMA FidOfLayer ==
  ASSUME NEW section, NEW n \in Nat \ {0}, NEW ssrc, NEW rtx, NEW hasRtx \in BOOLEAN,
         FidsOf(section, n, ssrc, rtx, hasRtx),
         NEW k \in 1..n, NEW id, id = From(ssrc, k),
         NEW told, told = IF hasRtx THEN From(rtx, k) ELSE Absent,
         NEW index, index = IF hasRtx THEN k + 1 ELSE 0
  PROVE  RtxIs(section, id, told, index)
<1> PICK groups : groups = section.ssrcGroups
  OBVIOUS
<1> DEFINE I == {i \in 1..Len(groups) : groups[i].semantics = "FID" /\ groups[i].ssrcs[1] = id}
           first == SelectInSeq(groups, LAMBDA g : g.semantics = "FID" /\ g.ssrcs[1] = id)
           last == SelectLastInSeq(groups, LAMBDA g : g.semantics = "FID" /\ g.ssrcs[1] = id)
<1>1. I = IF hasRtx THEN {k + 1} ELSE {}
  BY DEF FidsOf
<1>2. first = IF I # {} THEN Min(I) ELSE 0
  BY DEF SelectInSeq
<1>3. last = IF I # {} THEN Max(I) ELSE 0
  BY DEF SelectLastInSeq
<1>4. FidOf(section, id) = IF first = 0 THEN Absent ELSE groups[first].ssrcs[2]
  BY Zenon DEF FidOf
<1>5. k + 1 \in Nat /\ k + 1 # 0 /\ (hasRtx => groups[k + 1].ssrcs[2] = From(rtx, k))
  BY DEF FidsOf
<1> HIDE DEF I, first, last
<1>6. first = index /\ last = index
  BY <1>1, <1>2, <1>3, <1>5, OfOneIndex
<1>7. FidOf(section, id) = told
  BY <1>4, <1>5, <1>6
<1> QED
  BY <1>6, <1>7, Zenon DEF last, RtxIs

\* No layer has the SSRC of the RTX stream of one.
LayersApart(ssrc, rtx, n) == \A j, k \in 1..n : From(ssrc, j) # From(rtx, k)

\* The first encoding that is read of the section is that of the first layer.
ReadFirst(section, ssrc, told) ==
    /\ FidOf(section, ssrc) = told
    /\ GetRtpEncodings(section)[1] = [NoEncoding EXCEPT !.ssrc = ssrc, !.rtx = told]

\* getRtpEncodings begins with it, and no later group changes it.
LEMMA SvcRead ==
  ASSUME NEW n \in Nat \ {0}, n <= SsrcSpace, NEW ssrc \in 0..SsrcSpace - 1, NEW rtx,
         NEW hasRtx \in BOOLEAN, NEW section, SvcStreams(section, n, ssrc, rtx, hasRtx),
         hasRtx => LayersApart(ssrc, rtx, n),
         NEW told, told = IF hasRtx THEN From(rtx, 1) ELSE Absent
  PROVE  ReadFirst(section, ssrc, told)
<1> DEFINE ids == [i \in DOMAIN section.ssrcs |-> section.ssrcs[i].id]
           groups == section.ssrcGroups
           rtxSsrcs == {groups[i].ssrcs[2] : i \in {i \in DOMAIN groups : groups[i].semantics = "FID"}}
           indices == {i \in Unique(ids) : ids[i] \notin rtxSsrcs}
           kept == InOrder(indices)
           fid(id) == SelectLastInSeq(groups, LAMBDA g : g.semantics = "FID" /\ g.ssrcs[1] = id)
           encoding(id) == [NoEncoding EXCEPT !.ssrc = id,
                              !.rtx = IF fid(id) = 0 THEN Absent ELSE groups[fid(id)].ssrcs[2]]
<1>1. GetRtpEncodings(section) = [k \in DOMAIN kept |-> encoding(ids[kept[k]])]
  BY Zenon DEF GetRtpEncodings, ids
<1>2. /\ FidsOf(section, n, ssrc, rtx, hasRtx)
      /\ rtxSsrcs \subseteq IF hasRtx THEN LayersFrom(rtx, n) ELSE {}
  <2>1. GroupsAre(section, n, ssrc, rtx, hasRtx)
    BY GroupsOfLayers
  <2> QED
    BY <2>1, Zenon DEF GroupsAre
<1> HIDE DEF rtxSsrcs
<1>3. 1 \in 1..n /\ From(ssrc, 1) = ssrc
  <2>1. n \in Nat /\ 1 \in 1..n
    OBVIOUS
  <2> QED
    BY <2>1, FromApart
<1>4. FidOf(section, ssrc) = told /\ fid(ssrc) = IF hasRtx THEN 2 ELSE 0
  <2> PICK k \in 1..n : k = 1
    BY <1>3
  <2> PICK index : index = IF hasRtx THEN k + 1 ELSE 0
    OBVIOUS
  <2>1. ssrc = From(ssrc, k) /\ told = (IF hasRtx THEN From(rtx, k) ELSE Absent)
    BY <1>3
  <2>2. RtxIs(section, ssrc, told, index)
    BY <1>2, <2>1, FidOfLayer
  <2>3. FidOf(section, ssrc) = told /\ fid(ssrc) = index
    BY <2>2, Zenon DEF RtxIs
  <2> QED
    BY <2>3
<1>5. hasRtx => groups[2].ssrcs[2] = From(rtx, 1)
  <2>1. hasRtx => groups[1 + 1].ssrcs[2] = From(rtx, 1)
    BY <1>2, <1>3 DEF FidsOf
  <2> QED
    BY <2>1
<1>6. encoding(ssrc) = [NoEncoding EXCEPT !.ssrc = ssrc, !.rtx = told]
  <2> HIDE DEF fid, groups
  <2>1. (IF fid(ssrc) = 0 THEN Absent ELSE groups[fid(ssrc)].ssrcs[2]) = told
    BY <1>4, <1>5
  <2> QED
    BY <2>1, Zenon
<1> HIDE DEF encoding
<1> PICK m \in Nat : DOMAIN ids = 1..m /\ m # 0 /\ ids[1] = ssrc
  <2>1. /\ DOMAIN section.ssrcs = 1..Len(section.ssrcs) /\ Len(section.ssrcs) \in Nat
        /\ section.ssrcs # <<>> /\ section.ssrcs[1].id = ssrc
    BY <1>3, Zenon DEF SvcStreams, Says
  <2> PICK lines : lines = section.ssrcs
    OBVIOUS
  <2> PICK m : m = Len(section.ssrcs)
    OBVIOUS
  <2>2. m # 0
    <3>1. section.ssrcs = <<>> \/ m # 0
      BY <2>1 DEF SvcStreams
    <3> QED
      BY <2>1, <3>1
  <2>3. 1 \in 1..m
    BY <2>1, <2>2
  <2> QED
    BY <2>1, <2>2, <2>3
<1> HIDE DEF ids
<1>7. 1 \in indices /\ indices \subseteq 1..m
  <2>1. ssrc \notin rtxSsrcs
    BY <1>2, <1>3 DEF LayersFrom, LayersApart
  <2>2. 1 \in Unique(ids) /\ Unique(ids) \subseteq 1..m
    BY DEF Unique
  <2> QED
    BY <2>1, <2>2
<1> HIDE DEF indices
<1>8. 1 \in DOMAIN kept /\ kept[1] = 1
  BY <1>7, InOrderFirst
<1> HIDE DEF kept
<1>9. GetRtpEncodings(section)[1] = encoding(ssrc)
  BY <1>1, <1>8
<1> QED
  BY <1>4, <1>6, <1>9 DEF ReadFirst

\* The SSRCs of n layers are n SSRCs.
LEMMA LayersMany ==
  ASSUME NEW first \in 0..SsrcSpace - 1, NEW n \in Nat, n <= SsrcSpace
  PROVE  IsFiniteSet(LayersFrom(first, n)) /\ Cardinality(LayersFrom(first, n)) = n
<1> DEFINE f == [k \in 1..n |-> From(first, k)]
<1>1. \A j, k \in 1..n : f[j] = f[k] => j = k
  BY FromApart
<1>2. LayersFrom(first, n) = {f[k] : k \in 1..n}
  BY DEF LayersFrom
<1> HIDE DEF f
<1>3. IsFiniteSet({f[k] : k \in 1..n}) /\ Cardinality({f[k] : k \in 1..n}) = n
  BY <1>1, AsMany
<1> QED
  BY <1>2, <1>3

\* The SSRCs of a section of layers: all are different, and each layer has an
\* RTX stream of its own if the first has one.
CountsTo(section, n, told, ids) ==
    /\ Cardinality(ids) = n * (IF told = Absent THEN 1 ELSE 2)
    /\ \A id \in ids : IsSsrc(id)
    /\ \A id \in ids : told # Absent =>
         FidOf(section, id) # Absent \/ \E other \in ids : FidOf(section, other) = id

\* As many as there are layers, twice with RTX: no two SSRCs fall together.
LEMMA SvcCount ==
  ASSUME NEW n \in Nat \ {0}, n <= SsrcSpace,
         NEW ssrc \in 0..SsrcSpace - 1, NEW rtx \in 0..SsrcSpace - 1, NEW hasRtx \in BOOLEAN,
         hasRtx => LayersApart(ssrc, rtx, n),
         NEW section, FidsOf(section, n, ssrc, rtx, hasRtx),
         NEW told, told = IF hasRtx THEN From(rtx, 1) ELSE Absent,
         NEW ids, ids = LayersFrom(ssrc, n) \cup IF hasRtx THEN LayersFrom(rtx, n) ELSE {}
  PROVE  CountsTo(section, n, told, ids)
<1> PICK A, B : A = LayersFrom(ssrc, n) /\ B = LayersFrom(rtx, n)
  OBVIOUS
<1>1. n \in Nat /\ 1 \in 1..n
  OBVIOUS
<1>2. /\ IsFiniteSet(A) /\ Cardinality(A) = n
      /\ IsFiniteSet(B) /\ Cardinality(B) = n
  BY <1>1, LayersMany
<1>3. /\ A = {From(ssrc, k) : k \in 1..n} /\ B = {From(rtx, k) : k \in 1..n}
      /\ ids = A \cup IF hasRtx THEN B ELSE {}
  BY DEF LayersFrom
<1>4. \A k \in 1..n : IsSsrc(From(ssrc, k)) /\ IsSsrc(From(rtx, k))
  BY <1>1, FromApart
<1>5. \A id : IsSsrc(id) => id # Absent
  BY DataChannelsAssumption, SsrcAssumption DEF IsSsrc
<1>6. \A id \in ids : IsSsrc(id)
  BY <1>3, <1>4
<1>7. CASE hasRtx
  <2>1. told # Absent
    BY <1>1, <1>4, <1>5, <1>7
  <2>2. Cardinality(ids) = n * 2
    <3>1. A \cap B = {}
      BY <1>3, <1>7 DEF LayersApart
    <3>2. Cardinality(A \cap B) = 0
      BY <3>1, FS_EmptySet
    <3>3. Cardinality(A \cup B) = Cardinality(A) + Cardinality(B) - Cardinality(A \cap B)
      BY <1>2, FS_Union
    <3>4. ids = A \cup B
      BY <1>3, <1>7
    <3> QED
      BY <1>1, <1>2, <3>2, <3>3, <3>4
  <2>3. \A k \in 1..n : FidOf(section, From(ssrc, k)) = From(rtx, k)
    <3> TAKE k \in 1..n
    <3> PICK index : index = IF hasRtx THEN k + 1 ELSE 0
      OBVIOUS
    <3> PICK own : own = IF hasRtx THEN From(rtx, k) ELSE Absent
      OBVIOUS
    <3> PICK id : id = From(ssrc, k)
      OBVIOUS
    <3>1. RtxIs(section, id, own, index)
      BY FidOfLayer
    <3> QED
      BY <1>7, <3>1 DEF RtxIs
  <2>4. ASSUME NEW id \in ids
        PROVE  FidOf(section, id) # Absent \/ \E other \in ids : FidOf(section, other) = id
    <3>1. CASE id \in A
      <4> PICK k \in 1..n : id = From(ssrc, k)
        BY <1>3, <3>1
      <4> QED
        BY <1>4, <1>5, <2>3
    <3>2. CASE id \in B
      <4> PICK k \in 1..n : id = From(rtx, k)
        BY <1>3, <3>2
      <4>1. From(ssrc, k) \in ids
        BY <1>3
      <4> QED
        BY <2>3, <4>1
    <3> QED
      BY <1>3, <1>7, <3>1, <3>2
  <2> QED
    BY <1>6, <2>1, <2>2, <2>4 DEF CountsTo
<1>8. CASE ~hasRtx
  <2>1. told = Absent /\ ids = A
    BY <1>3, <1>8
  <2>2. Cardinality(ids) = n
    BY <1>2, <2>1
  <2>3. n * 1 = n
    OBVIOUS
  <2> QED
    BY <1>6, <2>1, <2>2, <2>3 DEF CountsTo
<1> QED
  BY <1>7, <1>8

\* The section of a sender without RIDs may have RTX.
LEMMA LocalMembers ==
  ASSUME NEW kind, NEW given, NEW stream, NEW uris,
         NEW section, section = LocalSection(kind, given, stream, uris)
  PROVE  DOMAIN section = {"ext", "ssrcs", "ssrcGroups", "rids"}
  BY DEF LocalSection

\* One encoding of VP9 with layers.
LEMMA SendsSvc ==
  ASSUME NEW encodings \in EncodingChoices, NEW given, IsGiven(given, encodings),
         Len(given) = 1, NEW n, n = SpatialLayersOf(given), n > 1,
         NEW kind, NEW stream \in LocalStreams, NEW uris,
         NEW local, local = LocalSection(kind, given, stream, uris),
         NEW section, section = AddLegacySimulcast(local, n)
  PROVE  Sends(given, section, Sender(section, given), EncodingsOf(section, given, TRUE))
<1> PICK ssrc, rtx : ssrc = stream.ssrc /\ rtx = stream.rtx
  OBVIOUS
<1>1. /\ n \in 2..99 /\ n \in Nat \ {0} /\ n \in Nat /\ 1 \in 1..n
      /\ n = SpatialLayersOf(encodings) /\ n <= SsrcSpace
  <2>1. n \in 1..99
    BY LayersPositive
  <2>2. n = SpatialLayersOf(encodings)
    BY Zenon DEF IsGiven
  <2>3. n <= SsrcSpace
    BY <2>2, StreamsAssumption
  <2> QED
    BY <2>1, <2>2, <2>3
<1>2. /\ ssrc \in 0..SsrcSpace - 1 /\ rtx \in 0..SsrcSpace - 1
      /\ ssrc \in Nat /\ rtx \in Nat
  BY StreamNumbers DEF IsSsrc
<1> PICK hasRtx \in BOOLEAN :
      /\ OneStream(local, ssrc, rtx, hasRtx, "local", "msid")
      /\ hasRtx => rtx # 0
  <2> PICK k \in 0..1 : k = Len(given)
    OBVIOUS
  <2> QED
    BY LocalStream
<1>3. hasRtx => LayersApart(ssrc, rtx, n)
  <2> SUFFICES ASSUME hasRtx, NEW j \in 1..n, NEW k \in 1..n PROVE From(ssrc, j) # From(rtx, k)
    BY DEF LayersApart
  <2>1. j - 1 \in 0..n - 1 /\ k - 1 \in 0..n - 1
    BY <1>1
  <2>2. (ssrc + (j - 1)) % SsrcSpace # (rtx + (k - 1)) % SsrcSpace
    BY <1>1, <2>1, StreamsAssumption
  <2>3. ssrc + j - 1 = ssrc + (j - 1) /\ rtx + k - 1 = rtx + (k - 1)
    BY <1>2
  <2> QED
    BY <2>2, <2>3 DEF From
<1>4. From(ssrc, 1) = ssrc
  BY <1>1, <1>2, FromApart
<1>5. SvcStreams(section, n, ssrc, rtx, hasRtx)
  <2>1. {"ssrcs", "ssrcGroups"} \subseteq DOMAIN local
    BY LocalMembers
  <2> QED
    BY <1>1, <1>2, <2>1, SvcSection
<1> PICK told : told = IF hasRtx THEN From(rtx, 1) ELSE Absent
  OBVIOUS
<1>6. /\ FidOf(section, ssrc) = told
      /\ GetRtpEncodings(section)[1] = [NoEncoding EXCEPT !.ssrc = ssrc, !.rtx = told]
  <2>1. ReadFirst(section, ssrc, told)
    BY <1>1, <1>2, <1>3, <1>5, SvcRead
  <2> QED
    BY <2>1, Zenon DEF ReadFirst
<1>7. GroupsAre(section, n, ssrc, rtx, hasRtx)
  BY <1>1, <1>2, <1>5, GroupsOfLayers
<1> PICK ids : ids = LayersFrom(ssrc, n) \cup IF hasRtx THEN LayersFrom(rtx, n) ELSE {}
  OBVIOUS
<1>8. Says(section, ssrc, "local", ids)
  BY <1>4, <1>5, Zenon DEF SvcStreams
<1>9. /\ Cardinality(ids) = n * (IF told = Absent THEN 1 ELSE 2)
      /\ \A id \in ids : IsSsrc(id)
      /\ \A id \in ids : told # Absent =>
           FidOf(section, id) # Absent \/ \E other \in ids : FidOf(section, other) = id
  <2>1. FidsOf(section, n, ssrc, rtx, hasRtx)
    BY <1>7, Zenon DEF GroupsAre
  <2>2. CountsTo(section, n, told, ids)
    BY <1>1, <1>2, <1>3, <2>1, SvcCount
  <2> QED
    BY <2>2, Zenon DEF CountsTo
<1> PICK list : list = EncodingsOf(section, given, TRUE)
  OBVIOUS
<1> PICK sender : sender = Sender(section, given)
  OBVIOUS
<1> DEFINE parsed == [NoEncoding EXCEPT !.ssrc = ssrc, !.rtx = told]
           encoding == FillJson(parsed, given[1])
<1>10. list = <<encoding>>
  <2>1. given # <<>>
    <3>1. Len(<<>>) = 0
      OBVIOUS
    <3>2. 0 # 1
      OBVIOUS
    <3> QED
      BY <3>1, <3>2, Zenon
  <2>2. list = <<FillJson(GetRtpEncodings(section)[1], given[1])>> \o <<>>
    BY <2>1, Zenon DEF EncodingsOf
  <2>3. list = <<encoding>> \o <<>>
    BY <1>6, <2>2, Zenon
  <2> HIDE DEF encoding
  <2> QED
    BY <2>3, ListOfOne, Zenon
<1>11. /\ 1 \in DOMAIN given /\ ~Named(given[1].rid) /\ DOMAIN given = {1}
  <2> PICK k : k = Len(encodings)
    OBVIOUS
  <2>1. k = 1 /\ DOMAIN given = 1..k /\ \A i \in 1..k : k <= 1 => ~Named(given[i].rid)
    BY DEF IsGiven
  <2>2. 1..1 = {1} /\ 1 <= 1
    OBVIOUS
  <2> QED
    BY <2>1, <2>2
<1>12. /\ Len(sender) = n /\ DOMAIN sender = 1..n
       /\ \A i \in DOMAIN sender : sender[i] \in BOOLEAN
       /\ sender[1] = given[1].active
  <2>1. Len(section.ssrcGroups[1].ssrcs) = n
    <3>1. section.ssrcGroups[1].ssrcs = Consecutive(ssrc, n)
      BY <1>7, Zenon DEF GroupsAre
    <3>2. Len(Consecutive(ssrc, n)) = n
      BY <1>1, <1>2, Counted
    <3> QED
      BY <3>1, <3>2
  <2>2. \E i \in DOMAIN section.ssrcGroups : section.ssrcGroups[i].semantics = "SIM"
    BY <1>7, Zenon DEF GroupsAre
  <2>3. ~ Len(given) > 1
    OBVIOUS
  <2>4. SenderSize(section, given) = n
    BY <2>1, <2>2, <2>3, Zenon DEF SenderSize
  <2>5. IsSender(sender, given, n)
    BY <1>1, <2>4, SenderHas
  <2> QED
    BY <1>1, <1>11, <2>5 DEF IsSender
<1>13. /\ DOMAIN parsed = DOMAIN NoEncoding /\ parsed.ssrc = ssrc /\ parsed.rtx = told
       /\ parsed.rid = Absent /\ parsed.dtx = Absent /\ parsed.active = Absent
       /\ parsed.scalabilityMode = Absent
  BY NothingTold, Zenon DEF NoEncoding
<1> HIDE DEF parsed
<1>14. /\ DOMAIN encoding = DOMAIN NoEncoding
       /\ encoding.ssrc = ssrc /\ encoding.rtx = told /\ encoding.dtx = Absent
       /\ encoding.active = sender[1] /\ encoding.rid = Absent
       /\ encoding.scalabilityMode = IF given[1].scalabilityMode = Absent THEN Absent
                                     ELSE given[1].scalabilityMode
  BY <1>11, <1>12, <1>13, Filled
<1> HIDE DEF encoding
<1>15. IsEncoding(encoding, given)
  <2>1. IsSsrc(ssrc) /\ (told = Absent \/ IsSsrc(told))
    BY <1>1, <1>2, FromApart DEF IsSsrc
  <2>2. encoding.scalabilityMode = EmptyMode => given[1].scalabilityMode = EmptyMode
    BY <1>14, NothingTold
  <2> QED
    BY <1>11, <1>14, <2>1, <2>2, NothingTold DEF IsEncoding
<1>16. DOMAIN list = 1..Len(list) /\ Len(list) = 1 /\ list[1] = encoding /\ DOMAIN list = {1}
  BY <1>10, ListOfOne, Zenon
<1>17. \A i \in DOMAIN list : IsEncoding(list[i], given) /\ list[i].active \in {Absent, sender[i]}
  BY <1>14, <1>15, <1>16
<1>18. /\ section.ssrcs # <<>> /\ section.ssrcs[1].id = ssrc
       /\ GetCname(section) = "local" /\ "local" # "probator"
       /\ \A i \in DOMAIN section.ssrcs :
            section.ssrcs[i].attribute = "cname" => section.ssrcs[i].value = "local"
       /\ ids = {section.ssrcs[i].id : i \in DOMAIN section.ssrcs}
  BY <1>8 DEF Says
<1>19. \A i \in DOMAIN section.ssrcs : IsSsrc(section.ssrcs[i].id)
  BY <1>9, <1>18
<1>20. TellsStreams(section, Len(sender), list)
  <2>1. /\ list[1].rid = Absent /\ list[1].ssrc = section.ssrcs[1].id
        /\ list[1].rtx = told /\ told = FidOf(section, section.ssrcs[1].id)
    BY <1>6, <1>14, <1>16, <1>18
  <2>2. Cardinality(ids) = Len(sender) * (IF told = Absent THEN 1 ELSE 2)
    BY <1>9, <1>12
  <2> QED
    BY <1>9, <1>18, <2>1, <2>2, Zenon DEF TellsStreams
<1>21. /\ Len(list) = IF Len(given) > 1 THEN Len(given) ELSE 1
       /\ Len(sender) \in Nat \ {0} /\ DOMAIN sender = 1..Len(sender)
       /\ Len(list) \in {1, Len(sender)}
       /\ Len(sender) \in {1, Len(given), SpatialLayersOf(given)}
  BY <1>1, <1>12, <1>16
<1> QED
  BY <1>12, <1>16, <1>17, <1>18, <1>19, <1>20, <1>21, Zenon DEF Sends

-----------------------------------------------------------------------------
(* What a producer sends and what is told of it.                           *)

\* The scalability mode of simulcast changes nothing else.
LEMMA ModeKeeps ==
  ASSUME NEW given, NEW section, NEW sender, NEW encodings,
         Sends(given, section, sender, encodings),
         NEW codec, NEW new, new = WithSimulcastMode(encodings, codec)
  PROVE  Sends(given, section, sender, new)
<1> DEFINE mode == Mode("S", 1, 3)
           With(e) == [e EXCEPT !.scalabilityMode = mode]
<1>1. CASE new = encodings
  BY <1>1
<1>2. CASE new # encodings
  <2>1. new = [i \in DOMAIN encodings |-> With(encodings[i])]
    BY <1>2 DEF WithSimulcastMode
  <2>2. mode # EmptyMode
    <3>1. mode.spatial = 1 /\ EmptyMode.spatial = 0
      BY DEF Mode, EmptyMode
    <3> HIDE DEF mode
    <3> QED
      BY <3>1
  <2> HIDE DEF mode
  <2>3. \A e : DOMAIN e = DOMAIN NoEncoding =>
          /\ DOMAIN With(e) = DOMAIN NoEncoding /\ With(e).scalabilityMode = mode
          /\ With(e).ssrc = e.ssrc /\ With(e).rtx = e.rtx /\ With(e).rid = e.rid
          /\ With(e).dtx = e.dtx /\ With(e).active = e.active
    <3>1. DOMAIN NoEncoding = {"ssrc", "rtx", "rid", "active", "maxBitrate", "scalabilityMode", "dtx"}
      BY DEF NoEncoding
    <3> QED
      BY <3>1, Zenon
  <2> HIDE DEF With
  <2>4. /\ DOMAIN encodings = 1..Len(encodings) /\ Len(encodings) \in Nat
        /\ Len(encodings) \in {1, Len(sender)} /\ Len(sender) \in Nat \ {0}
        /\ \A i \in DOMAIN encodings :
             IsEncoding(encodings[i], given) /\ encodings[i].active \in {Absent, sender[i]}
        /\ TellsStreams(section, Len(sender), encodings)
    BY DEF Sends
  <2>5. DOMAIN new = DOMAIN encodings /\ Len(new) = Len(encodings)
    <3> PICK k : k = Len(encodings)
      OBVIOUS
    <3>1. new = [i \in 1..k |-> new[i]] /\ k \in Nat
      BY <2>1, <2>4
    <3>2. Len(new) = k
      BY <3>1, Listed
    <3> QED
      BY <2>1, <3>2
  <2>6. ASSUME NEW i \in DOMAIN new
        PROVE  /\ IsEncoding(new[i], given) /\ new[i].active = encodings[i].active
               /\ new[i].ssrc = encodings[i].ssrc /\ new[i].rtx = encodings[i].rtx
               /\ new[i].rid = encodings[i].rid
    <3>1. new[i] = With(encodings[i]) /\ IsEncoding(encodings[i], given)
      BY <2>1, <2>4, <2>5
    <3>2. DOMAIN encodings[i] = DOMAIN NoEncoding
      BY <3>1 DEF IsEncoding
    <3>3. /\ DOMAIN new[i] = DOMAIN NoEncoding /\ new[i].scalabilityMode = mode
          /\ new[i].ssrc = encodings[i].ssrc /\ new[i].rtx = encodings[i].rtx
          /\ new[i].rid = encodings[i].rid
          /\ new[i].dtx = encodings[i].dtx /\ new[i].active = encodings[i].active
      BY <2>3, <3>1, <3>2
    <3> QED
      BY <2>2, <3>1, <3>3 DEF IsEncoding
  <2>7. 1 \in DOMAIN new
    BY <2>4, <2>5
  <2>8. TellsStreams(section, Len(sender), new)
    <3>1. CASE section.ssrcs = <<>>
      BY <2>4, <2>5, <2>6, <3>1 DEF TellsStreams
    <3>2. CASE section.ssrcs # <<>>
      <4>1. /\ new[1].rid = encodings[1].rid /\ new[1].ssrc = encodings[1].ssrc
            /\ new[1].rtx = encodings[1].rtx
        BY <2>6, <2>7
      <4> QED
        BY <2>4, <3>2, <4>1, Zenon DEF TellsStreams
    <3> QED
      BY <3>1, <3>2
  <2>9. \A i \in DOMAIN new : IsEncoding(new[i], given) /\ new[i].active \in {Absent, sender[i]}
    BY <2>4, <2>5, <2>6
  <2> QED
    BY <2>5, <2>8, <2>9, Zenon DEF Sends
<1> QED
  BY <1>1, <1>2

\* What Send makes of what is given to it, in each of its three cases.
LEMMA SendSends ==
  ASSUME NEW encodings \in EncodingChoices, NEW given, given = Normalized(encodings),
         NEW kind, NEW stream \in LocalStreams, NEW uris, NEW codec,
         NEW hack, hack = HackVp9Svc(given, codec),
         NEW local, local = LocalSection(kind, given, stream, uris),
         NEW section,
         section = IF hack THEN AddLegacySimulcast(local, SpatialLayersOf(given)) ELSE local,
         NEW told, told = WithSimulcastMode(EncodingsOf(section, given, hack), codec)
  PROVE  IsGiven(given, encodings) /\ Sends(given, section, Sender(section, given), told)
<1>1. IsGiven(given, encodings)
  BY GivenNormalized
<1> PICK n : n = Len(given)
  OBVIOUS
<1>2. n \in 0..3
  BY <1>1 DEF IsGiven
<1>3. Sends(given, section, Sender(section, given), EncodingsOf(section, given, hack))
  <2>1. CASE hack
    <3>1. Len(given) = 1 /\ SpatialLayersOf(given) > 1
      BY <2>1 DEF HackVp9Svc
    <3>2. section = AddLegacySimulcast(local, SpatialLayersOf(given)) /\ hack = TRUE
      BY <2>1 DEF HackVp9Svc
    <3> PICK layers : layers = SpatialLayersOf(given)
      OBVIOUS
    <3>3. Sends(given, section, Sender(section, given), EncodingsOf(section, given, TRUE))
      BY <1>1, <3>1, <3>2, SendsSvc
    <3> QED
      BY <3>2, <3>3, Zenon
  <2>2. CASE ~hack
    <3>1. section = local /\ hack = FALSE
      BY <2>2 DEF HackVp9Svc
    <3>2. Sends(given, section, Sender(section, given), EncodingsOf(section, given, FALSE))
      <4>1. CASE n > 1
        BY <1>1, <3>1, <4>1, SendsSimulcast
      <4>2. CASE ~ n > 1
        <5>1. n \in 0..1
          BY <1>2, <4>2
        <5> QED
          BY <1>1, <3>1, <5>1, SendsOne
      <4> QED
        BY <4>1, <4>2
    <3> QED
      BY <3>1, <3>2, Zenon
  <2> QED
    BY <2>1, <2>2
<1> QED
  BY <1>1, <1>3, ModeKeeps

\* The codecs that are told are valid: only an encoding may be refused.
LEMMA ToldCodecsValid ==
  ASSUME NegotiatedKept, extendedRtpCapabilities \in ExtendedCaps,
         NEW kind \in Kinds, CanSend(kind, extendedRtpCapabilities),
         NEW p, ToldNumbers(p, extendedRtpCapabilities),
         NEW answering, NEW options, p.told.codecs = ToldCodecs(Offered(kind), answering, options)
  PROVE  \A i \in DOMAIN p.told.codecs : ValidRtpCodecParameters(p.told.codecs[i])
<1> DEFINE negotiated == extendedRtpCapabilities.codecs[FirstOfKind(kind, extendedRtpCapabilities)]
           codec == SentCodec(kind)
           rtx == RtxCodec(codec, negotiated.localRtxPt, codec.pt)
<1> PICK told : told = p.told.codecs
  OBVIOUS
<1>1. /\ negotiated.mime # "rtx"
      /\ negotiated.localPt \in Nat /\ negotiated.localRtxPt \in Nat \cup {Null}
  BY FirstOfKindFinds, ExtendedCapsAssumption
<1>2. Offered(kind) = IF negotiated.localRtxPt = Null THEN <<codec>> ELSE <<codec, rtx>>
  <2> DEFINE codecs == GetSendingRtpParameters(kind, extendedRtpCapabilities).codecs
  <2>1. codecs = IF negotiated.localRtxPt = Null THEN <<codec>> ELSE <<codec, rtx>>
    BY DEF GetSendingRtpParameters, CanSend, SentCodec, WithRtx
  <2>2. rtx.mime = "rtx"
    BY DEF RtxCodec
  <2>3. sendingRtpParametersByKind[kind].codecs = codecs
    BY DEF NegotiatedKept
  <2> HIDE DEF codecs, rtx, codec, negotiated
  <2>4. codecs = <<codec>> \/ codecs = <<codec, rtx>>
    BY <2>1
  <2>5. Offered(kind) = codecs
    BY <2>2, <2>3, <2>4, ReducedCodecs DEF Offered
  <2> QED
    BY <2>1, <2>5
<1>3. /\ DOMAIN codec = {"mime", "kind", "channels", "pt", "apt", "parameters", "rtcpFeedback"}
      /\ DOMAIN rtx = DOMAIN codec
      /\ codec.pt = negotiated.localPt /\ codec.mime = negotiated.mime
      /\ rtx.pt = negotiated.localRtxPt /\ rtx.mime = "rtx" /\ rtx.apt = codec.pt
  BY DEF SentCodec, MediaCodec, RtxCodec
<1> HIDE DEF codec, rtx, negotiated
<1>4. \A c : DOMAIN c = DOMAIN codec =>
        LET new == WithToldOptions(c, options)
        IN  new.pt = c.pt /\ new.mime = c.mime /\ new.apt = c.apt
  BY <1>3, Zenon DEF WithToldOptions
<1>5. /\ DOMAIN told = DOMAIN Offered(kind)
      /\ \A i \in DOMAIN Offered(kind) :
           told[i] = Offered(kind)[i] \/ told[i] = WithToldOptions(Offered(kind)[i], options)
  BY DEF ToldCodecs
<1>6. \A key \in DOMAIN told[1].parameters : told[1].parameters[key].type # "boolean"
  BY DEF ToldNumbers
<1>7. ValidRtpCodecParameters(told[1])
  <2>1. 1 \in DOMAIN Offered(kind) /\ Offered(kind)[1] = codec
    BY <1>2
  <2>2. told[1].pt = codec.pt /\ told[1].mime = codec.mime
    BY <1>4, <1>5, <2>1
  <2> QED
    BY <1>1, <1>3, <1>6, <2>2 DEF ValidRtpCodecParameters, IsRtxCodec
<1>8. negotiated.localRtxPt # Null => ValidRtpCodecParameters(told[2])
  <2> SUFFICES ASSUME negotiated.localRtxPt # Null PROVE ValidRtpCodecParameters(told[2])
    OBVIOUS
  <2>1. 2 \in DOMAIN Offered(kind) /\ Offered(kind)[2] = rtx
    BY <1>2
  <2>2. told[2].pt = rtx.pt /\ told[2].mime = rtx.mime /\ told[2].apt = rtx.apt
    BY <1>3, <1>4, <1>5, <2>1
  <2> QED
    BY <1>1, <1>3, <2>2 DEF ValidRtpCodecParameters, IsRtxCodec
<1>9. DOMAIN told = IF negotiated.localRtxPt = Null THEN {1} ELSE {1, 2}
  <2>1. \A e : DOMAIN <<e>> = {1}
    OBVIOUS
  <2>2. \A e, f : DOMAIN <<e, f>> = {1, 2}
    <3> TAKE e, f
    <3>1. DOMAIN <<e, f>> = 1..2
      OBVIOUS
    <3> QED
      BY <3>1, SmallIntervals
  <2> QED
    BY <1>2, <1>5, <2>1, <2>2
<1> QED
  BY <1>7, <1>8, <1>9

\* The sender of a producer, refused or not, and the section that it has.
HasSender(p) ==
    /\ p.encodings \in EncodingChoices
    /\ Len(p.sender) \in {1, Len(p.encodings), SpatialLayersOf(p.encodings)}
    /\ Len(p.sender) \in Nat \ {0} /\ DOMAIN p.sender = 1..Len(p.sender)
    /\ \A i \in DOMAIN p.sender : p.sender[i] \in BOOLEAN
    /\ \A i \in DOMAIN p.section.ssrcs : IsSsrc(p.section.ssrcs[i].id)

\* One encoding as it is told, of a sender that is active or not.
IsTold(encoding) ==
    /\ encoding.ssrc = Absent \/ IsSsrc(encoding.ssrc)
    /\ encoding.rtx = Absent \/ IsSsrc(encoding.rtx)
    /\ encoding.dtx \in BOOLEAN

\* What the server is told of the streams of a producer that was not refused.
TellsTruly(p) ==
    LET told == p.told.encodings
    IN  /\ p.sending
        /\ DOMAIN told = 1..Len(told) /\ Len(told) \in {1, Len(p.sender)}
        /\ Len(told) = IF Len(p.encodings) > 1 THEN Len(p.encodings) ELSE 1
        /\ \A i \in DOMAIN told : IsTold(told[i])
        /\ ~p.layered => \A i \in DOMAIN told : told[i].active \in {Absent, p.sender[i]}
        /\ p.told.rtcp.cname # "probator"
        /\ \A i \in DOMAIN p.section.ssrcs :
             p.section.ssrcs[i].attribute = "cname" =>
               p.section.ssrcs[i].value = p.told.rtcp.cname
        /\ TellsStreams(p.section, Len(p.sender), told)

\* What is left of one that was.
RefusedQuietly(p) ==
    /\ ~p.sending
    /\ p.answer.ext = {} /\ p.answer.rids = <<>>
    /\ \E i \in DOMAIN p.encodings : p.encodings[i].scalabilityMode = EmptyMode

\* Both.
SendsAsTold(p) ==
    /\ HasSender(p)
    /\ p.told # NoKeys => TellsTruly(p)
    /\ p.told = NoKeys => RefusedQuietly(p)

\* What a call of Produce has before its parameters are validated.
Prepared(p, given) ==
    /\ DOMAIN p = ProducerFields /\ p.encodings \in EncodingChoices
    /\ IsGiven(given, p.encodings) /\ Sends(given, p.section, p.sender, p.told.encodings)
    /\ p.sending = TRUE /\ p.layered = FALSE
    /\ DOMAIN p.told = {"codecs", "headerExtensions", "encodings", "rtcp"}
    /\ p.told.rtcp = [cname |-> GetCname(p.section), reducedSize |-> Absent]
    /\ \A i \in DOMAIN p.told.codecs : ValidRtpCodecParameters(p.told.codecs[i])
    /\ {"ext", "ssrcs", "ssrcGroups", "rids"} \subseteq DOMAIN p.answer

\* Valid parameters are told with their defaults.
LEMMA ValidTells ==
  ASSUME NEW p, NEW given, Prepared(p, given), ValidRtpParameters(p.told),
         NEW new, new = Validated(p)
  PROVE  SendsAsTold(new) /\ new.told # NoKeys
<1> DEFINE rtcp == [cname |-> GetCname(p.section), reducedSize |-> Absent]
           With(e) == [e EXCEPT !.dtx = IF @ = Absent THEN FALSE ELSE @]
<1>1. /\ DOMAIN p = ProducerFields /\ p.encodings \in EncodingChoices
      /\ IsGiven(given, p.encodings) /\ Sends(given, p.section, p.sender, p.told.encodings)
      /\ p.sending = TRUE /\ p.layered = FALSE
      /\ DOMAIN p.told = {"codecs", "headerExtensions", "encodings", "rtcp"}
      /\ p.told.rtcp = rtcp
  BY Zenon DEF Prepared
<1>2. new = [p EXCEPT !.told = ValidateRtpParameters(p.told)]
  BY Zenon DEF Validated
<1>3. /\ new.told = ValidateRtpParameters(p.told) /\ new.sending = TRUE /\ new.layered = FALSE
      /\ new.sender = p.sender /\ new.section = p.section /\ new.encodings = p.encodings
  BY <1>1, <1>2, Zenon DEF ProducerFields
<1>4. /\ DOMAIN new.told = DOMAIN p.told
      /\ new.told.encodings = [i \in DOMAIN p.told.encodings |-> With(p.told.encodings[i])]
      /\ new.told.rtcp = [rtcp EXCEPT !.reducedSize = IF @ = Absent THEN TRUE ELSE @]
  BY <1>1, <1>3, Zenon DEF ValidateRtpParameters
<1>5. new.told.rtcp.cname = GetCname(p.section)
  <2>1. DOMAIN rtcp = {"cname", "reducedSize"} /\ rtcp.cname = GetCname(p.section)
    OBVIOUS
  <2>2. \A r, v : "cname" \in DOMAIN r => [r EXCEPT !.reducedSize = v].cname = r.cname
    OBVIOUS
  <2> HIDE DEF rtcp
  <2>3. [rtcp EXCEPT !.reducedSize = IF @ = Absent THEN TRUE ELSE @].cname = rtcp.cname
    BY <2>1, <2>2, Zenon
  <2> QED
    BY <1>4, <2>1, <2>3, Zenon
<1>6. new.told # NoKeys
  <2>1. DOMAIN NoKeys = {}
    BY Zenon DEF NoKeys
  <2>2. DOMAIN new.told # {}
    BY <1>1, <1>4
  <2> QED
    BY <2>1, <2>2, Zenon
<1>7. \A e : DOMAIN e = DOMAIN NoEncoding =>
        /\ With(e).ssrc = e.ssrc /\ With(e).rtx = e.rtx /\ With(e).rid = e.rid
        /\ With(e).active = e.active /\ (e.dtx = Absent => With(e).dtx = FALSE)
  <2>1. DOMAIN NoEncoding = {"ssrc", "rtx", "rid", "active", "maxBitrate", "scalabilityMode", "dtx"}
    BY DEF NoEncoding
  <2> QED
    BY <2>1, Zenon
<1> HIDE DEF With, rtcp
<1> PICK old : old = p.told.encodings
  OBVIOUS
<1> PICK told : told = new.told.encodings
  OBVIOUS
<1>8. /\ DOMAIN old = 1..Len(old) /\ Len(old) \in Nat
      /\ Len(old) = IF Len(given) > 1 THEN Len(given) ELSE 1
      /\ Len(p.sender) \in Nat \ {0} /\ DOMAIN p.sender = 1..Len(p.sender)
      /\ Len(old) \in {1, Len(p.sender)}
      /\ Len(p.sender) \in {1, Len(given), SpatialLayersOf(given)}
      /\ \A i \in DOMAIN p.sender : p.sender[i] \in BOOLEAN
      /\ \A i \in DOMAIN old : IsEncoding(old[i], given) /\ old[i].active \in {Absent, p.sender[i]}
      /\ \A i \in DOMAIN p.section.ssrcs :
           /\ IsSsrc(p.section.ssrcs[i].id)
           /\ p.section.ssrcs[i].attribute = "cname" =>
                p.section.ssrcs[i].value = GetCname(p.section)
      /\ GetCname(p.section) # "probator"
      /\ TellsStreams(p.section, Len(p.sender), old)
  BY <1>1 DEF Sends
<1>9. Len(given) = Len(p.encodings) /\ SpatialLayersOf(given) = SpatialLayersOf(p.encodings)
  BY <1>1, Zenon DEF IsGiven
<1>10. DOMAIN told = DOMAIN old /\ Len(told) = Len(old)
  <2> PICK k : k = Len(old)
    OBVIOUS
  <2>1. told = [i \in 1..k |-> told[i]] /\ k \in Nat
    BY <1>4, <1>8
  <2>2. Len(told) = k
    BY <2>1, Listed
  <2> QED
    BY <1>4, <2>2
<1>11. ASSUME NEW i \in DOMAIN told
       PROVE  /\ IsTold(told[i]) /\ told[i].active = old[i].active /\ told[i].rid = old[i].rid
              /\ told[i].ssrc = old[i].ssrc /\ told[i].rtx = old[i].rtx
  <2>1. told[i] = With(old[i]) /\ IsEncoding(old[i], given)
    BY <1>4, <1>8, <1>10
  <2>2. DOMAIN old[i] = DOMAIN NoEncoding /\ old[i].dtx = Absent
    BY <2>1 DEF IsEncoding
  <2>3. /\ told[i].ssrc = old[i].ssrc /\ told[i].rtx = old[i].rtx /\ told[i].rid = old[i].rid
        /\ told[i].active = old[i].active /\ told[i].dtx = FALSE
    BY <1>7, <2>1, <2>2
  <2> QED
    BY <2>1, <2>3 DEF IsEncoding, IsTold
<1>12. TellsStreams(p.section, Len(p.sender), told)
  <2>1. 1 \in DOMAIN told
    BY <1>8, <1>10
  <2>2. CASE p.section.ssrcs = <<>>
    BY <1>8, <1>10, <1>11, <2>2 DEF TellsStreams
  <2>3. CASE p.section.ssrcs # <<>>
    <3>1. told[1].rid = old[1].rid /\ told[1].ssrc = old[1].ssrc /\ told[1].rtx = old[1].rtx
      BY <1>11, <2>1
    <3> QED
      BY <1>8, <2>3, <3>1, Zenon DEF TellsStreams
  <2> QED
    BY <2>2, <2>3
<1>13. \A i \in DOMAIN told : told[i].active \in {Absent, p.sender[i]}
  BY <1>8, <1>10, <1>11
<1>14. HasSender(new)
  BY <1>1, <1>3, <1>8, <1>9 DEF HasSender
<1>15. TellsTruly(new)
  <2>1. DOMAIN told = 1..Len(told) /\ Len(told) \in {1, Len(p.sender)}
        /\ Len(told) = IF Len(p.encodings) > 1 THEN Len(p.encodings) ELSE 1
    BY <1>8, <1>9, <1>10
  <2> QED
    BY <1>3, <1>5, <1>8, <1>11, <1>12, <1>13, <2>1 DEF TellsTruly
<1> QED
  BY <1>6, <1>14, <1>15 DEF SendsAsTold

\* Others are refused for a scalability mode that is empty.
LEMMA RefusedTells ==
  ASSUME NEW p, NEW given, Prepared(p, given), ~ValidRtpParameters(p.told),
         NEW new, new = Validated(p)
  PROVE  SendsAsTold(new)
<1>1. /\ DOMAIN p = ProducerFields /\ p.encodings \in EncodingChoices
      /\ IsGiven(given, p.encodings) /\ Sends(given, p.section, p.sender, p.told.encodings)
      /\ \A i \in DOMAIN p.told.codecs : ValidRtpCodecParameters(p.told.codecs[i])
      /\ {"ext", "ssrcs", "ssrcGroups", "rids"} \subseteq DOMAIN p.answer
  BY Zenon DEF Prepared
<1>2. new = [p EXCEPT !.told = NoKeys, !.sending = FALSE, !.answer = CloseSection(@)]
  BY Zenon DEF Validated
<1>3. /\ new.told = NoKeys /\ new.sending = FALSE /\ new.answer = CloseSection(p.answer)
      /\ new.sender = p.sender /\ new.section = p.section /\ new.encodings = p.encodings
  BY <1>1, <1>2, Zenon DEF ProducerFields
<1>4. new.answer.ext = {} /\ new.answer.rids = <<>>
  BY <1>1, <1>3, Zenon DEF CloseSection
<1>5. \E i \in DOMAIN p.encodings : p.encodings[i].scalabilityMode = EmptyMode
  <2>1. PICK j \in DOMAIN p.told.encodings : ~ValidRtpEncodingParameters(p.told.encodings[j])
    BY <1>1, Zenon DEF ValidRtpParameters
  <2>2. IsEncoding(p.told.encodings[j], given)
    BY <1>1, <2>1, Zenon DEF Sends
  <2>3. p.told.encodings[j].scalabilityMode = EmptyMode
    BY <2>1, <2>2, Zenon DEF ValidRtpEncodingParameters, IsEncoding, Named
  <2>4. PICK i \in DOMAIN given : given[i].scalabilityMode = EmptyMode
    BY <2>2, <2>3, Zenon DEF IsEncoding
  <2>5. i \in DOMAIN p.encodings /\ given[i].scalabilityMode = p.encodings[i].scalabilityMode
    BY <1>1, Zenon DEF IsGiven
  <2> QED
    BY <2>4, <2>5
<1>6. HasSender(new)
  <2>1. /\ Len(p.sender) \in Nat \ {0} /\ DOMAIN p.sender = 1..Len(p.sender)
        /\ Len(p.sender) \in {1, Len(given), SpatialLayersOf(given)}
        /\ \A i \in DOMAIN p.sender : p.sender[i] \in BOOLEAN
        /\ \A i \in DOMAIN p.section.ssrcs : IsSsrc(p.section.ssrcs[i].id)
    BY <1>1, Zenon DEF Sends
  <2>2. Len(given) = Len(p.encodings) /\ SpatialLayersOf(given) = SpatialLayersOf(p.encodings)
    BY <1>1, Zenon DEF IsGiven
  <2> QED
    BY <1>1, <1>3, <2>1, <2>2 DEF HasSender
<1> QED
  BY <1>3, <1>4, <1>5, <1>6, Zenon DEF SendsAsTold, RefusedQuietly

\* Either way a producer is as it is told, and no layer was chosen for it yet.
LEMMA ValidatedTells ==
  ASSUME NEW p, NEW given, Prepared(p, given), NEW new, new = Validated(p)
  PROVE  DOMAIN new = ProducerFields /\ SendsAsTold(new) /\ new.layered = FALSE
<1>1. DOMAIN p = ProducerFields /\ p.layered = FALSE
  BY Zenon DEF Prepared
<1>2. CASE ValidRtpParameters(p.told)
  <2>1. SendsAsTold(new)
    BY <1>2, ValidTells
  <2>2. new = [p EXCEPT !.told = ValidateRtpParameters(p.told)]
    BY <1>2, Zenon DEF Validated
  <2> QED
    BY <1>1, <2>1, <2>2, Zenon DEF ProducerFields
<1>3. CASE ~ValidRtpParameters(p.told)
  <2>1. SendsAsTold(new)
    BY <1>3, RefusedTells
  <2>2. new = [p EXCEPT !.told = NoKeys, !.sending = FALSE, !.answer = CloseSection(@)]
    BY <1>3, Zenon DEF Validated
  <2> QED
    BY <1>1, <2>1, <2>2, Zenon DEF ProducerFields
<1> QED
  BY <1>2, <1>3

\* Produce adds one producer, which is as it is told.
LEMMA ProduceTells ==
  ASSUME NegotiatedKept, extendedRtpCapabilities \in ExtendedCaps,
         NEW kind \in Kinds, NEW encodings \in EncodingChoices, NEW options,
         NEW stream \in LocalStreams, NEW uris,
         Produce(kind, encodings, options, stream, uris)
  PROVE  /\ Len(producers) < MaxProducers
         /\ \E new : /\ producers' = Append(producers, new)
                     /\ DOMAIN new = ProducerFields /\ SendsAsTold(new) /\ new.layered = FALSE
<1> DEFINE given == Normalized(encodings)
           sending == sendingRtpParametersByKind[kind]
           offered == [sending EXCEPT !.codecs = ReduceCodecs(@, NoCodec)]
           remote == sendingRemoteRtpParametersByKind[kind]
           answering == [remote EXCEPT !.codecs = ReduceCodecs(@, NoCodec)]
           codec == offered.codecs[1]
           hack == HackVp9Svc(given, codec)
           local == LocalSection(kind, given, stream, uris)
           section == IF hack THEN AddLegacySimulcast(local, SpatialLayersOf(given)) ELSE local
           encoded == WithSimulcastMode(EncodingsOf(section, given, hack), codec)
           params == [codecs |-> offered.codecs, headerExtensions |-> offered.headerExtensions,
                      encodings |-> encoded,
                      rtcp |-> [cname |-> GetCname(section), reducedSize |-> Absent]]
           told == Told(params, answering, options)
           sender == Sender(section, given)
           answer == AnswerSection(section, answering, options)
           p == [kind |-> kind, encodings |-> encodings, options |-> options,
                 section |-> section, sender |-> sender, layered |-> FALSE,
                 answer |-> answer, told |-> told, sending |-> TRUE]
           new == Validated(p)
<1>1. /\ producers' = Append(producers, new) /\ CanSend(kind, extendedRtpCapabilities)
      /\ Len(producers) < MaxProducers
  BY Zenon DEF Produce
<1>2. IsGiven(given, encodings) /\ Sends(given, section, sender, encoded)
  <2> HIDE DEF given, codec
  <2>1. given = Normalized(encodings)
    BY DEF given
  <2> HIDE DEF hack
  <2>2. hack = HackVp9Svc(given, codec)
    BY DEF hack
  <2> HIDE DEF local
  <2>3. local = LocalSection(kind, given, stream, uris)
    BY DEF local
  <2> HIDE DEF section
  <2>4. section = IF hack THEN AddLegacySimulcast(local, SpatialLayersOf(given)) ELSE local
    BY DEF section
  <2> HIDE DEF encoded
  <2>5. encoded = WithSimulcastMode(EncodingsOf(section, given, hack), codec)
    BY DEF encoded
  <2> QED
    BY <2>1, <2>2, <2>3, <2>4, <2>5, SendSends
<1>3. sending = GetSendingRtpParameters(kind, extendedRtpCapabilities)
  BY DEF NegotiatedKept
<1>4. {"codecs", "headerExtensions"} \subseteq DOMAIN sending
  BY <1>3 DEF GetSendingRtpParameters
<1> HIDE DEF sending
<1>5. offered.codecs = ReduceCodecs(sending.codecs, NoCodec)
  BY <1>4, Zenon
<1>6. offered.codecs = Offered(kind)
  BY <1>5 DEF sending, Offered
<1> HIDE DEF given, offered, answering, hack, section, encoded
<1>7. /\ DOMAIN params = {"codecs", "headerExtensions", "encodings", "rtcp"}
      /\ params.codecs = Offered(kind) /\ params.encodings = encoded
      /\ params.rtcp = [cname |-> GetCname(section), reducedSize |-> Absent]
  BY <1>6
<1> HIDE DEF params
<1>8. /\ DOMAIN told = DOMAIN params /\ told.encodings = encoded
      /\ told.rtcp = [cname |-> GetCname(section), reducedSize |-> Absent]
      /\ told.codecs = ToldCodecs(Offered(kind), answering, options)
      /\ told.codecs = Told(params, answering, options).codecs
  BY <1>7, Zenon DEF Told
<1>9. {"ext", "ssrcs", "ssrcGroups", "rids"} \subseteq DOMAIN answer
  BY DEF AnswerSection
<1> HIDE DEF told, sender, answer
<1>10. /\ DOMAIN p = ProducerFields /\ p.kind = kind /\ p.options = options /\ p.told = told
       /\ p.section = section /\ p.answer = answer /\ p.sender = sender
       /\ p.encodings = encodings /\ p.sending = TRUE /\ p.layered = FALSE
  BY DEF ProducerFields
<1> HIDE DEF p
<1>11. \A i \in DOMAIN p.told.codecs : ValidRtpCodecParameters(p.told.codecs[i])
  <2>1. ToldNumbers(p, extendedRtpCapabilities)
    BY <1>1, <1>7, <1>8, <1>10, ToldIsNumbers
  <2>2. p.told.codecs = ToldCodecs(Offered(kind), answering, options)
    BY <1>8, <1>10
  <2> QED
    BY <1>1, <2>1, <2>2, ToldCodecsValid
<1>12. Prepared(p, given)
  BY <1>2, <1>7, <1>8, <1>9, <1>10, <1>11, Zenon DEF Prepared
<1> HIDE DEF new
<1>13. DOMAIN new = ProducerFields /\ SendsAsTold(new) /\ new.layered = FALSE
  <2>1. new = Validated(p)
    BY DEF new
  <2> QED
    BY <1>12, <2>1, ValidatedTells
<1> QED
  BY <1>1, <1>13

\* Which of n encodings a sender sends, and that it sends the layers up to one.
AreActive(sender, n) ==
    /\ Len(sender) = n /\ DOMAIN sender = 1..n
    /\ \A i \in DOMAIN sender : sender[i] \in BOOLEAN

UpTo(sender, layer) == \A i \in DOMAIN sender : i <= 3 => sender[i] = (i <= layer)

\* A layer leaves a sender as it is, or has it send the layers up to this one.
LEMMA SenderLayers ==
  ASSUME NEW sender, NEW n \in Nat, AreActive(sender, n),
         NEW layer \in 0..4, NEW new, new = Layers(sender, layer)
  PROVE  AreActive(new, n) /\ (new = sender \/ UpTo(new, layer))
<1>0. Len(sender) = n /\ DOMAIN sender = 1..n /\ \A i \in DOMAIN sender : sender[i] \in BOOLEAN
  BY DEF AreActive
<1>1. CASE layer \notin 1..3
  <2>1. new = sender
    BY <1>1 DEF Layers
  <2> QED
    BY <2>1
<1>2. CASE layer \in 1..3
  <2>1. new = [i \in 1..n |-> IF i <= 3 THEN i <= layer ELSE sender[i]]
    BY <1>0, <1>2 DEF Layers
  <2>2. new = [i \in 1..n |-> new[i]] /\ DOMAIN new = 1..n
    BY <2>1
  <2>3. Len(new) = n
    BY <2>2, Listed
  <2>4. ASSUME NEW i \in 1..n
        PROVE  new[i] \in BOOLEAN /\ (i <= 3 => new[i] = (i <= layer))
    <3>1. CASE i <= 3
      <4>1. new[i] = (i <= layer)
        BY <2>1, <3>1, Zenon
      <4>2. (i <= layer) \in BOOLEAN
        OBVIOUS
      <4> QED
        BY <4>1, <4>2, Zenon
    <3>2. CASE ~ i <= 3
      <4>1. new[i] = sender[i]
        BY <2>1, <3>2, Zenon
      <4> QED
        BY <1>0, <3>2, <4>1, Zenon
    <3> QED
      BY <3>1, <3>2, Zenon
  <2> QED
    BY <2>2, <2>3, <2>4, Zenon DEF AreActive, UpTo
<1> QED
  BY <1>1, <1>2

\* Once the application has chosen a layer, none is sent above one that is not.
Descends(p) ==
    p.layered => \A i, j \in DOMAIN p.sender : i < j /\ p.sender[j] => p.sender[i]

\* Modes with as many layers as SetMaxSpatialLayer reaches.
ThreeLayers == \A encodings \in EncodingChoices : SpatialLayersOf(encodings) <= 3

\* A layer changes the sender alone, and says so in the history.
LEMMA LayerTells ==
  ASSUME NEW p, DOMAIN p = ProducerFields, SendsAsTold(p), NEW layer \in 0..4,
         NEW new, new = WithLayer(p, layer)
  PROVE  SendsAsTold(new) /\ (ThreeLayers /\ Descends(p) => Descends(new))
<1> PICK sender : sender = Layers(p.sender, layer)
  OBVIOUS
<1> PICK n : n = Len(p.sender)
  OBVIOUS
<1>1. new = [p EXCEPT !.sender = sender, !.layered = @ \/ sender # p.sender]
  BY DEF WithLayer
<1>2. /\ new.sender = sender /\ new.layered = (p.layered \/ sender # p.sender)
      /\ new.told = p.told /\ new.section = p.section /\ new.answer = p.answer
      /\ new.sending = p.sending /\ new.encodings = p.encodings
  BY <1>1, Zenon DEF ProducerFields
<1>3. /\ p.encodings \in EncodingChoices /\ n \in {1, Len(p.encodings), SpatialLayersOf(p.encodings)}
      /\ n \in Nat \ {0} /\ AreActive(p.sender, n)
      /\ \A i \in DOMAIN p.section.ssrcs : IsSsrc(p.section.ssrcs[i].id)
  BY DEF SendsAsTold, HasSender, AreActive
<1>4. AreActive(sender, n) /\ (sender = p.sender \/ UpTo(sender, layer))
  BY <1>3, SenderLayers
<1>5. HasSender(new)
  BY <1>2, <1>3, <1>4 DEF HasSender, AreActive
<1>6. TellsTruly(p) => TellsTruly(new)
  <2> SUFFICES ASSUME TellsTruly(p) PROVE TellsTruly(new)
    OBVIOUS
  <2>1. Len(new.sender) = Len(p.sender)
    BY <1>2, <1>4 DEF AreActive
  <2>2. ~new.layered => ~p.layered /\ new.sender = p.sender
    BY <1>2, Zenon
  <2> PICK told : told = p.told.encodings
    OBVIOUS
  <2>3. ~new.layered => \A i \in DOMAIN told : told[i].active \in {Absent, new.sender[i]}
    BY <2>2, Zenon DEF TellsTruly
  <2>4. TellsStreams(new.section, Len(new.sender), told)
    BY <1>2, <2>1, Zenon DEF TellsTruly
  <2>5. /\ new.sending /\ new.told.encodings = told
        /\ DOMAIN told = 1..Len(told) /\ Len(told) \in {1, Len(new.sender)}
        /\ Len(told) = IF Len(new.encodings) > 1 THEN Len(new.encodings) ELSE 1
        /\ \A i \in DOMAIN told : IsTold(told[i])
    BY <1>2, <2>1, Zenon DEF TellsTruly
  <2>6. /\ new.told.rtcp.cname # "probator"
        /\ \A i \in DOMAIN new.section.ssrcs :
             new.section.ssrcs[i].attribute = "cname" =>
               new.section.ssrcs[i].value = new.told.rtcp.cname
    <3>1. /\ p.told.rtcp.cname # "probator"
          /\ \A i \in DOMAIN p.section.ssrcs :
               p.section.ssrcs[i].attribute = "cname" =>
                 p.section.ssrcs[i].value = p.told.rtcp.cname
      BY Zenon DEF TellsTruly
    <3>2. new.section = p.section /\ new.told = p.told
      BY <1>2
    <3> QED
      BY <3>1, <3>2
  <2> QED
    BY <2>3, <2>4, <2>5, <2>6, Zenon DEF TellsTruly
<1>7. RefusedQuietly(p) => RefusedQuietly(new)
  BY <1>2, Zenon DEF RefusedQuietly
<1>8. SendsAsTold(new)
  BY <1>2, <1>5, <1>6, <1>7, Zenon DEF SendsAsTold
<1>9. ASSUME ThreeLayers, Descends(p) PROVE Descends(new)
  <2>1. CASE sender = p.sender
    BY <1>2, <1>9, <2>1, Zenon DEF Descends
  <2>2. CASE sender # p.sender
    <3>1. n <= 3
      <4>1. Len(p.encodings) \in 0..3
        BY <1>3, GivenNormalized DEF IsGiven
      <4>2. SpatialLayersOf(p.encodings) <= 3 /\ SpatialLayersOf(p.encodings) \in 1..99
        BY <1>3, <1>9, LayersPositive DEF ThreeLayers
      <4>3. n = 1 \/ n = Len(p.encodings) \/ n = SpatialLayersOf(p.encodings)
        BY <1>3
      <4>4. \A a \in 0..3, b \in 1..99 : b <= 3 => a <= 3 /\ 1 <= 3
        OBVIOUS
      <4> QED
        BY <4>1, <4>2, <4>3, <4>4, Zenon
    <3>2. \A i \in 1..n : sender[i] = (i <= layer)
      BY <1>3, <1>4, <2>2, <3>1 DEF AreActive, UpTo
    <3>3. \A i, j \in 1..n : i < j /\ j <= layer => i <= layer
      OBVIOUS
    <3>4. \A i, j \in DOMAIN sender : i < j /\ sender[j] => sender[i]
      <4> SUFFICES ASSUME NEW i \in 1..n, NEW j \in 1..n, i < j, sender[j] PROVE sender[i]
        BY <1>4 DEF AreActive
      <4>1. sender[i] = (i <= layer) /\ sender[j] = (j <= layer)
        BY <3>2
      <4> QED
        BY <3>3, <4>1, Zenon
    <3> QED
      BY <1>2, <3>4, Zenon DEF Descends
  <2> QED
    BY <2>1, <2>2
<1> QED
  BY <1>8, <1>9

-----------------------------------------------------------------------------
(* What is sent, at any time.                                              *)

\* The invariant: what is so of producers, each of them sends as it is told,
\* and in the order of its layers if there are three at most.
StreamsInv ==
    /\ ProducersInv
    /\ Len(producers) <= MaxProducers
    /\ \A n \in DOMAIN producers :
         /\ SendsAsTold(producers[n])
         /\ ThreeLayers => Descends(producers[n])

\* The number of producers is bounded by a number.
LEMMA NumberOfProducers == MaxProducers \in Nat
  BY MediaAssumption, Zenon

\* Every step of the transports keeps it.
LEMMA StreamsStep ==
  ASSUME StreamsInv, MediaNext
  PROVE  StreamsInv'
<1>1. /\ ProducersInv /\ ProducersInv' /\ Len(producers) <= MaxProducers
      /\ \A n \in DOMAIN producers :
           SendsAsTold(producers[n]) /\ (ThreeLayers => Descends(producers[n]))
  BY MediaStep DEF StreamsInv
<1>2. PICK S : producers \in Seq(S)
  BY <1>1 DEF ProducersInv, ProducersTypeOK
<1>3. /\ NegotiatedKept /\ extendedRtpCapabilities \in ExtendedCaps
      /\ \A n \in DOMAIN producers : DOMAIN producers[n] = ProducerFields
  BY <1>1 DEF ProducersInv, ProducersTypeOK
<1>4. ASSUME NEW kind \in Kinds, NEW encodings \in EncodingChoices,
             NEW options \in OptionChoices, NEW stream \in LocalStreams,
             NEW uris \in LocalExtensions, Produce(kind, encodings, options, stream, uris)
      PROVE  StreamsInv'
  <2>1. Len(producers) < MaxProducers
    BY <1>3, <1>4, ProduceTells
  <2>2. PICK new : /\ producers' = Append(producers, new)
                   /\ SendsAsTold(new) /\ new.layered = FALSE
    BY <1>3, <1>4, ProduceTells
  <2>3. /\ DOMAIN producers' = DOMAIN producers \cup {Len(producers) + 1}
        /\ producers'[Len(producers) + 1] = new
        /\ \A n \in DOMAIN producers : producers'[n] = producers[n]
        /\ Len(producers') = Len(producers) + 1 /\ Len(producers) \in Nat
    BY <1>2, <2>2
  <2>4. Len(producers') <= MaxProducers
    BY <2>1, <2>3, NumberOfProducers
  <2>5. Descends(new)
    BY <2>2 DEF Descends
  <2> QED
    BY <1>1, <2>2, <2>3, <2>4, <2>5 DEF StreamsInv
<1>5. ASSUME NEW n \in DOMAIN producers, NEW layer \in 0..4, SetMaxSpatialLayer(n, layer)
      PROVE  StreamsInv'
  <2> PICK new : new = WithLayer(producers[n], layer)
    OBVIOUS
  <2>1. SendsAsTold(new) /\ (ThreeLayers => Descends(new))
    BY <1>1, <1>3, LayerTells
  <2>2. producers' = [producers EXCEPT ![n] = new]
    BY <1>5 DEF SetMaxSpatialLayer
  <2>3. /\ DOMAIN producers' = DOMAIN producers /\ producers'[n] = new
        /\ \A m \in DOMAIN producers \ {n} : producers'[m] = producers[m]
        /\ Len(producers') = Len(producers)
    BY <1>2, <2>2
  <2> QED
    BY <1>1, <2>1, <2>3 DEF StreamsInv
<1>6. ASSUME NEW n \in DOMAIN producers, NEW stream \in ServerStreams, Consume(n, stream)
      PROVE  StreamsInv'
  <2>1. producers' = producers
    BY <1>6 DEF Consume
  <2> QED
    BY <1>1, <2>1 DEF StreamsInv
<1> QED
  BY <1>4, <1>5, <1>6 DEF MediaNext

\* It holds at any time, for any encodings, streams and layers.
THEOREM StreamsInvariance == Spec => []StreamsInv
<1>1. Init => StreamsInv
  <2> SUFFICES ASSUME Init PROVE StreamsInv
    OBVIOUS
  <2>1. producers = <<>> /\ DOMAIN producers = {} /\ producers \in Seq({}) /\ Len(producers) = 0
    BY DEF Init
  <2>2. ProducersInv
    BY <2>1 DEF Init, ProducersInv, ProducersTypeOK, NegotiatedKept
  <2> QED
    BY <2>1, <2>2, NumberOfProducers DEF StreamsInv
<1>2. StreamsInv /\ [Next]_vars => StreamsInv'
  <2> SUFFICES ASSUME StreamsInv, [Next]_vars PROVE StreamsInv'
    OBVIOUS
  <2>1. CASE MediaNext
    BY <2>1, StreamsStep
  <2>2. CASE UNCHANGED mediaVars
    BY <2>2 DEF StreamsInv, ProducersInv, ProducersTypeOK, NegotiatedKept, mediaVars
  <2> QED
    BY <2>1, <2>2 DEF Next, vars
<1> QED
  BY <1>1, <1>2, PTL DEF Spec

\* A Produce that throws behind its negotiation sends nothing and leaves no
\* line of a stream in the answer; no option is a reason for it.
THEOREM RefusedAlwaysSendsNothing == Spec => []RefusedProduceSendsNothing
<1>1. StreamsInv => RefusedProduceSendsNothing
  BY Zenon DEF StreamsInv, SendsAsTold, TellsTruly, RefusedQuietly, RefusedProduceSendsNothing,
               Accepted
<1> QED
  BY <1>1, StreamsInvariance, PTL

\* The encodings that the server is told are the streams of the section: their
\* RIDs, or the first SSRC, its RTX SSRC and the CNAME, for simulcast, for one
\* stream and for as many layers of VP9 as a mode can have.
THEOREM EncodingsAlwaysDescribe == Spec => []EncodingsDescribeSection
<1>1. StreamsInv => EncodingsDescribeSection
  BY Zenon DEF StreamsInv, SendsAsTold, TellsTruly, TellsStreams, EncodingsDescribeSection,
               Accepted
<1> QED
  BY <1>1, StreamsInvariance, PTL

\* The sender has the encodings that the server is told of, each as active as
\* it was told; once layers were chosen they are sent from the lowest on, of
\* modes with up to three: SetMaxSpatialLayer sets no encoding above the third.
THEOREM SenderAlwaysMatches ==
  ASSUME ThreeLayers
  PROVE  Spec => []SenderMatchesTold
<1>1. StreamsInv => SenderMatchesTold
  BY Zenon DEF StreamsInv, SendsAsTold, TellsTruly, Descends, SenderMatchesTold, Accepted
<1> QED
  BY <1>1, StreamsInvariance, PTL

\* The flag of the probator, and the counter of data channels.
FlagAndCounter ==
    /\ probatorConsumerCreated \in BOOLEAN
    /\ nextSendSctpStreamId \in 0..SctpNumStreams - 1

\* Both stay in their ranges, however often the ids wrap around.
LEMMA FlagAndCounterInvariance == Spec => []FlagAndCounter
<1>1. SctpNumStreams \in Nat \ {0}
  BY DataChannelsAssumption
<1>2. Init => FlagAndCounter
  <2>1. 0 \in 0..SctpNumStreams - 1
    BY <1>1
  <2>2. Init => probatorConsumerCreated = FALSE /\ nextSendSctpStreamId = 0
    BY Zenon DEF Init, DataInit
  <2> QED
    BY <2>1, <2>2, Zenon DEF FlagAndCounter
<1>3. FlagAndCounter /\ [Next]_vars => FlagAndCounter'
  <2> SUFFICES ASSUME FlagAndCounter, [Next]_vars PROVE FlagAndCounter'
    OBVIOUS
  <2>1. probatorConsumerCreated' \in BOOLEAN
    <3>1. CASE MediaNext
      <4>1. ASSUME NEW kind, NEW encodings, NEW options, NEW stream, NEW uris,
                   Produce(kind, encodings, options, stream, uris)
            PROVE  probatorConsumerCreated' = probatorConsumerCreated
        BY <4>1, Zenon DEF Produce
      <4>2. ASSUME NEW n, NEW layer, SetMaxSpatialLayer(n, layer)
            PROVE  probatorConsumerCreated' = probatorConsumerCreated
        BY <4>2, Zenon DEF SetMaxSpatialLayer
      <4>3. ASSUME NEW n, NEW stream, Consume(n, stream)
            PROVE  probatorConsumerCreated' \in BOOLEAN
        <5> DEFINE probates == producers[n].kind = "video" /\ ~probatorConsumerCreated
        <5>1. probatorConsumerCreated' = (probatorConsumerCreated \/ probates)
          BY <4>3, Zenon DEF Consume
        <5> HIDE DEF probates
        <5> QED
          BY <5>1, Zenon
      <4> QED
        BY <3>1, <4>1, <4>2, <4>3, Zenon DEF MediaNext, FlagAndCounter
    <3>2. CASE UNCHANGED mediaVars
      BY <3>2, Zenon DEF mediaVars, FlagAndCounter
    <3> QED
      BY <3>1, <3>2 DEF Next, vars
  <2>2. nextSendSctpStreamId' \in 0..SctpNumStreams - 1
    <3>1. CASE DataNext
      <4>1. ASSUME nextSendSctpStreamId' = NextStreamId
            PROVE  nextSendSctpStreamId' \in 0..SctpNumStreams - 1
        BY <1>1, <4>1 DEF NextStreamId, FlagAndCounter
      <4>2. nextSendSctpStreamId' = NextStreamId \/ nextSendSctpStreamId' = nextSendSctpStreamId
        BY <3>1, Zenon DEF DataNext, ProduceData, CloseDataProducer, ConsumeData
      <4> QED
        BY <4>1, <4>2, Zenon DEF FlagAndCounter
    <3>2. CASE UNCHANGED dataVars
      BY <3>2 DEF dataVars, FlagAndCounter
    <3> QED
      BY <3>1, <3>2 DEF Next, vars
  <2> QED
    BY <2>1, <2>2, Zenon DEF FlagAndCounter
<1> QED
  BY <1>2, <1>3, PTL DEF Spec

\* SSRCs stay within 32 bits, the data channels within the streams of SCTP, and
\* every encoding that was told has its defaults.
THEOREM MediaTypeCorrect == Spec => []TypeOK
<1>1. StreamsInv /\ FlagAndCounter => TypeOK
  BY Zenon DEF StreamsInv, ProducersInv, SendsAsTold, HasSender, TellsTruly, IsTold, FlagAndCounter,
               TypeOK, Accepted
<1> QED
  BY <1>1, StreamsInvariance, FlagAndCounterInvariance, PTL

-----------------------------------------------------------------------------
(* What is offered for a consumer.                                         *)

\* A codec, and the RTX codec that is for it.
IsRtxOf(rtx, media) == rtx.mime = "rtx" /\ rtx.apt = media.pt /\ rtx.pt # media.pt

OneCodec(codecs) ==
    \E media : media.mime # "rtx" /\ \/ codecs = <<media>>
                                     \/ \E rtx : IsRtxOf(rtx, media) /\ codecs = <<media, rtx>>

\* The parameters that the server sends of one consumer.
ConsumesOne(params) ==
    LET ssrc == params.encodings[1].ssrc
        rtx == params.encodings[1].rtx
    IN  OneCodec(params.codecs) /\ (rtx = Absent \/ rtx \notin {0, ssrc})

\* What the section and the answer say of each codec.
CodecsOffered(section, answer) ==
    /\ Cardinality({section.codecs[i].pt : i \in DOMAIN section.codecs}) = Len(section.codecs)
    /\ \A i \in DOMAIN section.codecs :
         IsRtxCodec(section.codecs[i]) => i > 1 /\ section.codecs[i].apt = section.codecs[i - 1].pt
    /\ \A i \in DOMAIN section.codecs : answer.codecs[i].pt = section.codecs[i].pt

\* What the section says of the stream.
StreamOffered(section, params) ==
    /\ GetRtpEncodings(section) = <<[NoEncoding EXCEPT !.ssrc = params.encodings[1].ssrc,
                                                       !.rtx = params.encodings[1].rtx]>>
    /\ GetCname(section) = params.rtcp.cname

\* The section of a consumer has its stream.
LEMMA OffersStream ==
  ASSUME NEW params, ConsumesOne(params), NEW id, NEW section, section = OfferSection(params, id)
  PROVE  StreamOffered(section, params)
<1> PICK ssrc, rtx : ssrc = params.encodings[1].ssrc /\ rtx = params.encodings[1].rtx
  OBVIOUS
<1> PICK cname, msid : cname = params.rtcp.cname /\ msid = <<cname, id>>
  OBVIOUS
<1> PICK hasRtx : hasRtx = (rtx \notin {Absent, 0})
  OBVIOUS
<1>1. rtx = Absent \/ rtx \notin {0, ssrc}
  BY Zenon DEF ConsumesOne
<1>2. hasRtx \in BOOLEAN /\ (hasRtx => rtx # ssrc) /\ rtx = IF hasRtx THEN rtx ELSE Absent
  BY <1>1, Zenon
<1>3. OneStream(section, ssrc, rtx, hasRtx, cname, msid)
  <2>1. /\ section.ssrcs = LinesOf(ssrc, cname, msid) \o
                           IF hasRtx THEN LinesOf(rtx, cname, msid) ELSE <<>>
        /\ section.ssrcGroups = IF hasRtx THEN <<Group("FID", <<ssrc, rtx>>)>> ELSE <<>>
    BY Zenon DEF OfferSection, OfferFid
  <2> QED
    BY <2>1, Zenon DEF OneStream
<1>4. ReadAs(section, ssrc, rtx)
  BY <1>2, <1>3, StreamRead
<1>5. GetCname(section) = cname
  <2> PICK all : all = IF hasRtx THEN {ssrc, rtx} ELSE {ssrc}
    OBVIOUS
  <2>1. Says(section, ssrc, cname, all)
    BY <1>2, <1>3, StreamSays
  <2> QED
    BY <2>1, Zenon DEF Says
<1> QED
  BY <1>4, <1>5, Zenon DEF ReadAs, StreamOffered

\* The lines of a codec are of its payload type.
OfCodec(lines, codec) ==
    /\ lines.pt = codec.pt /\ lines.mime = codec.mime /\ lines.apt = codec.apt
    /\ DOMAIN lines = {"pt", "mime", "apt", "channels", "parameters", "rtcpFeedback"}

\* That is what is written for it.
LEMMA LinesOfCodec ==
  ASSUME NEW codec, NEW parameters
  PROVE  OfCodec(CodecLines(codec, parameters), codec)
  BY DEF CodecLines, OfCodec

\* And its answer has the codecs.
LEMMA AnswersCodecs ==
  ASSUME NEW params, ConsumesOne(params), NEW id, NEW consumer, consumer = Received(params, id)
  PROVE  /\ consumer.params = params /\ consumer.section = OfferSection(params, id)
         /\ CodecsOffered(consumer.section, consumer.answer)
<1> DEFINE section == OfferSection(params, id)
           With(i) == [section.codecs[i] EXCEPT !.parameters =
                         IF IsRtxCodec(section.codecs[i]) THEN Null ELSE [key \in {} |-> Null]]
           localAnswer == [section EXCEPT !.codecs = [i \in DOMAIN section.codecs |-> With(i)]]
           answer == ApplyCodecParameters(params, localAnswer)
           own == params.codecs
           codecs == section.codecs
<1>1. /\ consumer.params = params /\ consumer.section = section
      /\ consumer.answer = answer
  BY Zenon DEF Received
<1>2. /\ "codecs" \in DOMAIN section
      /\ codecs = [i \in DOMAIN own |-> CodecLines(own[i], own[i].parameters)]
  BY DEF OfferSection
<1> HIDE DEF section
<1>3. /\ DOMAIN codecs = DOMAIN own
      /\ \A i \in DOMAIN own : OfCodec(codecs[i], own[i])
  <2>1. \A i \in DOMAIN own : codecs[i] = CodecLines(own[i], own[i].parameters)
    BY <1>2, Zenon
  <2> QED
    BY <1>2, <2>1, LinesOfCodec, Zenon
<1> HIDE DEF With
<1>4. localAnswer.codecs = [i \in DOMAIN codecs |-> With(i)] /\ "codecs" \in DOMAIN localAnswer
  BY <1>2, Zenon
<1> HIDE DEF localAnswer, codecs
<1>5. \A i \in DOMAIN codecs : With(i).pt = codecs[i].pt /\ "pt" \in DOMAIN With(i)
  BY <1>3, Zenon DEF With, codecs, OfCodec
<1>6. \A i \in DOMAIN codecs : answer.codecs[i].pt = codecs[i].pt
  <2> TAKE i \in DOMAIN codecs
  <2>1. localAnswer.codecs[i] = With(i) /\ i \in DOMAIN localAnswer.codecs
    BY <1>4, Zenon
  <2>2. \/ answer.codecs[i] = localAnswer.codecs[i]
        \/ \E f : answer.codecs[i] = [localAnswer.codecs[i] EXCEPT !.parameters = f]
    BY <1>4, <2>1, Zenon DEF ApplyCodecParameters
  <2> QED
    BY <1>5, <2>1, <2>2, Zenon
<1>7. PICK media : media.mime # "rtx" /\ \/ own = <<media>>
                                         \/ \E rtx : IsRtxOf(rtx, media) /\ own = <<media, rtx>>
  BY Zenon DEF ConsumesOne, OneCodec
<1>8. Len(codecs) = Len(own) /\ DOMAIN codecs = DOMAIN own
      /\ \A i \in DOMAIN own : codecs[i].pt = own[i].pt /\ codecs[i].mime = own[i].mime
                               /\ codecs[i].apt = own[i].apt
  <2>1. \E m \in Nat : DOMAIN own = 1..m /\ Len(own) = m
    <3>1. CASE own = <<media>>
      <4>1. DOMAIN own = 1..Len(own) /\ Len(own) = 1
        BY <3>1, ListOfOne, Zenon
      <4>2. 1 \in Nat
        OBVIOUS
      <4> QED
        BY <4>1, <4>2, Zenon
    <3>2. ASSUME NEW rtx, own = <<media, rtx>> PROVE DOMAIN own = 1..2 /\ Len(own) = 2
      BY <3>2
    <3>3. 2 \in Nat
      OBVIOUS
    <3> QED
      BY <1>7, <3>1, <3>2, <3>3, Zenon
  <2> HIDE DEF own
  <2> PICK m \in Nat : DOMAIN own = 1..m /\ Len(own) = m
    BY <2>1
  <2>2. DOMAIN codecs = 1..m /\ codecs = [i \in 1..m |-> codecs[i]]
    BY <1>2, <1>3 DEF codecs
  <2>3. Len(codecs) = m
    BY <2>2, Listed
  <2> QED
    BY <1>3, <2>2, <2>3 DEF codecs, OfCodec
<1>9. CodecsOffered(section, answer)
  <2> PICK read : read = codecs
    OBVIOUS
  <2>1. CASE own = <<media>>
    <3>1. DOMAIN own = {1} /\ own[1] = media /\ Len(own) = 1
      BY <2>1
    <3> HIDE DEF own
    <3>2. DOMAIN read = {1} /\ read[1].pt = media.pt /\ read[1].mime # "rtx" /\ Len(read) = 1
      BY <1>7, <1>8, <3>1
    <3>3. {read[i].pt : i \in DOMAIN read} = {media.pt}
      BY <3>2
    <3>4. Cardinality({media.pt}) = 1
      BY FS_Singleton
    <3>5. \A i \in DOMAIN read : ~IsRtxCodec(read[i])
      BY <3>2 DEF IsRtxCodec
    <3> QED
      BY <1>6, <3>2, <3>3, <3>4, <3>5, Zenon DEF CodecsOffered, codecs
  <2>2. ASSUME NEW rtx, IsRtxOf(rtx, media), own = <<media, rtx>>
        PROVE  CodecsOffered(section, answer)
    <3>1. DOMAIN own = 1..2 /\ own[1] = media /\ own[2] = rtx /\ Len(own) = 2
      BY <2>2
    <3> HIDE DEF own
    <3>2. /\ DOMAIN read = {1, 2} /\ Len(read) = 2
          /\ read[1].pt = media.pt /\ read[1].mime # "rtx"
          /\ read[2].pt = rtx.pt /\ read[2].apt = media.pt
      BY <1>7, <1>8, <2>2, <3>1, SmallIntervals DEF IsRtxOf
    <3>3. {read[i].pt : i \in DOMAIN read} = {media.pt, rtx.pt}
      BY <3>2
    <3>4. Cardinality({media.pt, rtx.pt}) = 2
      <4>1. media.pt # rtx.pt
        BY <2>2 DEF IsRtxOf
      <4>2. {media.pt, rtx.pt} = {media.pt} \cup {rtx.pt} /\ rtx.pt \notin {media.pt}
        BY <4>1
      <4>3. IsFiniteSet({media.pt}) /\ Cardinality({media.pt}) = 1
        BY FS_Singleton
      <4>4. Cardinality({media.pt} \cup {rtx.pt}) = Cardinality({media.pt}) + 1
        BY <4>2, <4>3, FS_AddElement
      <4> QED
        BY <4>2, <4>3, <4>4
    <3>5. \A i \in DOMAIN read : IsRtxCodec(read[i]) => i > 1 /\ read[i].apt = read[i - 1].pt
      <4>1. ~IsRtxCodec(read[1])
        BY <3>2 DEF IsRtxCodec
      <4>2. 2 > 1 /\ 2 - 1 = 1
        OBVIOUS
      <4>3. read[2].apt = read[2 - 1].pt
        BY <3>2, <4>2
      <4> QED
        BY <3>2, <4>1, <4>2, <4>3, Zenon
    <3> QED
      BY <1>6, <3>2, <3>3, <3>4, <3>5, Zenon DEF CodecsOffered, codecs
  <2> QED
    BY <1>7, <2>1, <2>2
<1> QED
  BY <1>1, <1>9 DEF section

\* What the server sends of a producer is a stream of the codec.
LEMMA ServerConsumes ==
  ASSUME extendedRtpCapabilities \in ExtendedCaps,
         NEW p, CanSend(p.kind, extendedRtpCapabilities), NEW stream \in ServerStreams,
         NEW params, params = ValidateRtpParameters(ServerParams(p, stream))
  PROVE  ConsumesOne(params) /\ params.rtcp.cname = p.told.rtcp.cname
<1> DEFINE codec == extendedRtpCapabilities.codecs[FirstOfKind(p.kind, extendedRtpCapabilities)]
           media == MediaCodec(codec, codec.remotePt, p.told.codecs[1].parameters)
           rtx == RtxCodec(media, codec.remoteRtxPt, media.pt)
           encoding == [NoEncoding EXCEPT !.ssrc = stream.ssrc,
                          !.rtx = IF codec.remoteRtxPt = Null THEN Absent ELSE stream.rtx]
           rtcp == [cname |-> p.told.rtcp.cname, reducedSize |-> Absent]
           sent == ServerParams(p, stream)
           With(e) == [e EXCEPT !.dtx = IF @ = Absent THEN FALSE ELSE @]
<1>1. /\ codec.mime # "rtx" /\ codec.remotePt \in Nat
      /\ codec.remoteRtxPt = Null \/ codec.remoteRtxPt # codec.remotePt
  BY FirstOfKindFinds, ExtendedCapsAssumption
<1>2. stream.rtx \notin {0, stream.ssrc}
  BY MediaAssumption, Zenon
<1>3. /\ DOMAIN sent = {"codecs", "headerExtensions", "encodings", "rtcp"}
      /\ sent.codecs = IF codec.remoteRtxPt = Null THEN <<media>> ELSE <<media, rtx>>
      /\ sent.encodings = <<encoding>> /\ sent.rtcp = rtcp
  BY DEF ServerParams, WithRtx
<1>4. media.mime # "rtx" /\ media.pt = codec.remotePt
  BY <1>1 DEF MediaCodec
<1>5. codec.remoteRtxPt # Null => IsRtxOf(rtx, media)
  BY <1>1, <1>4 DEF RtxCodec, IsRtxOf
<1>6. encoding.ssrc = stream.ssrc
      /\ encoding.rtx = (IF codec.remoteRtxPt = Null THEN Absent ELSE stream.rtx)
      /\ DOMAIN encoding = DOMAIN NoEncoding
  BY Zenon DEF NoEncoding
<1>7. DOMAIN rtcp = {"cname", "reducedSize"} /\ rtcp.cname = p.told.rtcp.cname
  OBVIOUS
<1>8. \A e : DOMAIN e = DOMAIN NoEncoding => With(e).ssrc = e.ssrc /\ With(e).rtx = e.rtx
  <2>1. DOMAIN NoEncoding = {"ssrc", "rtx", "rid", "active", "maxBitrate", "scalabilityMode", "dtx"}
    BY DEF NoEncoding
  <2> QED
    BY <2>1, Zenon
<1> HIDE DEF sent, media, rtx, encoding, rtcp, With
<1>9. params = ValidateRtpParameters(sent)
  BY DEF sent
<1>10. /\ params.codecs = sent.codecs
       /\ params.encodings = [i \in DOMAIN sent.encodings |-> With(sent.encodings[i])]
       /\ params.rtcp = [rtcp EXCEPT !.reducedSize = IF @ = Absent THEN TRUE ELSE @]
  BY <1>3, <1>9, Zenon DEF ValidateRtpParameters, With
<1>11. OneCodec(params.codecs)
  <2>1. CASE codec.remoteRtxPt = Null
    BY <1>3, <1>4, <1>10, <2>1, Zenon DEF OneCodec
  <2>2. CASE codec.remoteRtxPt # Null
    <3>1. params.codecs = <<media, rtx>> /\ IsRtxOf(rtx, media)
      BY <1>3, <1>5, <1>10, <2>2
    <3> QED
      BY <1>4, <3>1, Zenon DEF OneCodec
  <2> QED
    BY <2>1, <2>2
<1>12. params.encodings[1] = With(encoding)
  <2>1. 1 \in DOMAIN sent.encodings /\ sent.encodings[1] = encoding
    BY <1>3
  <2> QED
    BY <1>10, <2>1, Zenon
<1>13. params.encodings[1].ssrc = stream.ssrc /\ params.encodings[1].rtx \in {Absent, stream.rtx}
  BY <1>6, <1>8, <1>12, Zenon
<1>14. params.rtcp.cname = p.told.rtcp.cname
  <2>1. [rtcp EXCEPT !.reducedSize = IF @ = Absent THEN TRUE ELSE @].cname = rtcp.cname
    BY <1>7, Zenon
  <2> QED
    BY <1>7, <1>10, <2>1, Zenon
<1> QED
  BY <1>2, <1>11, <1>13, <1>14, Zenon DEF ConsumesOne

\* What the probator is of a consumer.
Probates(probator, first) ==
    /\ probator.codecs = <<first.codecs[1]>>
    /\ probator.headerExtensions \subseteq first.headerExtensions

\* The probator is a stream without RTX.
LEMMA ProbatorConsumes ==
  ASSUME NEW first, ConsumesOne(first),
         NEW params, params = GenerateProbatorRtpParameters(first)
  PROVE  /\ ConsumesOne(params) /\ params.rtcp.cname = "probator"
         /\ Probates(params, first)
<1> DEFINE encoding == [NoEncoding EXCEPT !.ssrc = ProbatorSsrc]
<1>1. /\ params.codecs = <<first.codecs[1]>> /\ params.encodings = <<encoding>>
      /\ params.headerExtensions \subseteq first.headerExtensions
      /\ params.rtcp.cname = "probator"
  BY DEF GenerateProbatorRtpParameters
<1>2. encoding.rtx = Absent
  BY Zenon DEF NoEncoding
<1> HIDE DEF encoding
<1>3. params.encodings[1].rtx = Absent
  BY <1>1, <1>2
<1>4. first.codecs[1].mime # "rtx"
  <2>1. PICK media : media.mime # "rtx" /\ \/ first.codecs = <<media>>
                                           \/ \E rtx : first.codecs = <<media, rtx>>
    BY Zenon DEF ConsumesOne, OneCodec
  <2>2. first.codecs[1] = media
    BY <2>1
  <2> QED
    BY <2>1, <2>2
<1>5. OneCodec(params.codecs)
  BY <1>1, <1>4, Zenon DEF OneCodec
<1> QED
  BY <1>1, <1>3, <1>5, Zenon DEF ConsumesOne, Probates

\* What is so of every consumer.
OfferedAsSent(consumer) ==
    /\ StreamOffered(consumer.section, consumer.params)
    /\ CodecsOffered(consumer.section, consumer.answer)

\* Receive offers what it is asked for.
LEMMA ReceivedOffered ==
  ASSUME NEW params, ConsumesOne(params), NEW id, NEW new, new = Received(params, id)
  PROVE  OfferedAsSent(new) /\ new.params = params
<1>1. /\ new.params = params /\ new.section = OfferSection(params, id)
      /\ CodecsOffered(new.section, new.answer)
  BY AnswersCodecs
<1>2. StreamOffered(new.section, params)
  BY <1>1, OffersStream
<1> QED
  BY <1>1, <1>2, Zenon DEF OfferedAsSent

\* The indices of a list that grows.
LEMMA OneOrTwoMore ==
  ASSUME NEW n \in Nat
  PROVE  /\ 1..n + 1 = (1..n) \cup {n + 1}
         /\ 1..n + 2 = (1..n) \cup {n + 1} \cup {n + 2}
<1>1. \A i \in Int : i \in 1..n + 1 <=> i \in 1..n \/ i = n + 1
  OBVIOUS
<1>2. \A i \in Int : i \in 1..n + 2 <=> i \in 1..n \/ i = n + 1 \/ i = n + 2
  OBVIOUS
<1>3. \A m \in Int : \A i \in 1..m : i \in Int
  OBVIOUS
<1>4. n + 1 \in Int /\ n + 2 \in Int /\ n \in Int
  OBVIOUS
<1>5. 1..n + 1 = (1..n) \cup {n + 1}
  BY <1>1, <1>3, <1>4, Zenon
<1>6. 1..n + 2 = (1..n) \cup {n + 1} \cup {n + 2}
  BY <1>2, <1>3, <1>4, Zenon
<1> QED
  BY <1>5, <1>6

\* One more consumer and, with the first one of video, the probator.
ConsumersGrow(old, new, first, probator, probates) ==
    /\ \E S : new \in Seq(S)
    /\ \A c \in DOMAIN old : new[c] = old[c]
    /\ new[Len(old) + 1] = first
    /\ probates => new[Len(old) + 2] = probator
    /\ DOMAIN new = DOMAIN old \cup {Len(old) + 1} \cup IF probates THEN {Len(old) + 2} ELSE {}

\* Consume adds them behind those that are there.
LEMMA GrowBy ==
  ASSUME NEW old, NEW S, old \in Seq(S), NEW first, NEW probator, NEW probates \in BOOLEAN,
         NEW new, new = old \o <<first>> \o IF probates THEN <<probator>> ELSE <<>>
  PROVE  ConsumersGrow(old, new, first, probator, probates)
<1>1. Len(old) \in Nat /\ DOMAIN old = 1..Len(old)
  OBVIOUS
<1>2. CASE probates
  <2> PICK all : all = S \cup {first, probator}
    OBVIOUS
  <2> PICK grown : grown = old \o <<first>>
    OBVIOUS
  <2>1. new = grown \o <<probator>>
    BY <1>2
  <2>2. new = grown \o <<probator>> /\ grown \in Seq(all) /\ Len(grown) = Len(old) + 1
    <3>1. old \in Seq(all) /\ first \in all
      OBVIOUS
    <3>2. grown \in Seq(all) /\ Len(grown) = Len(old) + 1
      BY <3>1
    <3> QED
      BY <2>1, <3>2
  <2>3. new \in Seq(all) /\ Len(new) = Len(old) + 2
    <3>1. <<probator>> \in Seq(all) /\ Len(<<probator>>) = 1
      OBVIOUS
    <3> PICK last : last = <<probator>>
      OBVIOUS
    <3>2. /\ new = grown \o last /\ last \in Seq(all) /\ Len(last) = 1
          /\ grown \in Seq(all) /\ Len(grown) = Len(old) + 1 /\ Len(old) \in Nat
      BY <1>1, <2>2, <3>1, Zenon
    <3>3. \A s, t \in Seq(all) : s \o t \in Seq(all) /\ Len(s \o t) = Len(s) + Len(t)
      OBVIOUS
    <3>4. new \in Seq(all) /\ Len(new) = Len(grown) + Len(last)
      BY <3>2, <3>3, Zenon
    <3>5. \A n \in Nat : n + 1 + 1 = n + 2
      OBVIOUS
    <3> QED
      BY <3>2, <3>4, <3>5, Zenon
  <2>4. /\ DOMAIN new = 1..Len(old) + 2
        /\ new[Len(old) + 1] = first /\ new[Len(old) + 2] = probator
        /\ \A c \in DOMAIN old : new[c] = old[c]
    <3>1. /\ DOMAIN grown = 1..Len(old) + 1 /\ grown[Len(old) + 1] = first
          /\ \A c \in DOMAIN old : grown[c] = old[c]
      BY <1>1
    <3>2. /\ DOMAIN new = 1..Len(old) + 2 /\ new[Len(old) + 2] = probator
          /\ \A c \in 1..Len(old) + 1 : new[c] = grown[c]
      BY <1>1, <2>2, <2>3
    <3> QED
      BY <1>1, <3>1, <3>2
  <2>5. 1..Len(old) + 2 = (1..Len(old)) \cup {Len(old) + 1} \cup {Len(old) + 2}
    BY <1>1, OneOrTwoMore
  <2>6. \E T : new \in Seq(T)
    BY <2>3, Zenon
  <2>7. DOMAIN new = DOMAIN old \cup {Len(old) + 1}
                     \cup IF probates THEN {Len(old) + 2} ELSE {}
    BY <1>1, <1>2, <2>4, <2>5, Zenon
  <2> QED
    BY <2>4, <2>6, <2>7, Zenon DEF ConsumersGrow
<1>3. CASE ~probates
  <2>1. new = (old \o <<first>>) \o <<>>
    BY <1>3
  <2>2. new = Append(old, first)
    BY <2>1
  <2>3. new \in Seq(S \cup {first})
    BY <2>2
  <2>4. /\ DOMAIN new = 1..Len(old) + 1
        /\ new[Len(old) + 1] = first
        /\ \A c \in DOMAIN old : new[c] = old[c]
    BY <1>1, <2>2
  <2>5. 1..Len(old) + 1 = (1..Len(old)) \cup {Len(old) + 1}
    BY <1>1, OneOrTwoMore
  <2> QED
    BY <1>1, <1>3, <2>3, <2>4, <2>5, Zenon DEF ConsumersGrow
<1> QED
  BY <1>2, <1>3

\* The consumers that probe.
IsProbator(consumer) == consumer.params.rtcp.cname = "probator"

\* The invariant: every consumer is offered as the server sends it, and the
\* probator, once it is there, is the only one and behind what it repeats.
ConsumersInv ==
    /\ \E S : consumers \in Seq(S)
    /\ \A c \in DOMAIN consumers : OfferedAsSent(consumers[c])
    /\ ~probatorConsumerCreated => \A c \in DOMAIN consumers : ~IsProbator(consumers[c])
    /\ probatorConsumerCreated =>
         \E c \in DOMAIN consumers :
           /\ \A d \in DOMAIN consumers : IsProbator(consumers[d]) <=> d = c
           /\ c > 1 /\ Probates(consumers[c].params, consumers[c - 1].params)

\* A consumer, and the probator behind it if there is none yet, keep it.
LEMMA ConsumersMore ==
  ASSUME ConsumersInv, NEW first, NEW probator, NEW probates \in BOOLEAN,
         ConsumersGrow(consumers, consumers', first, probator, probates),
         probates => ~probatorConsumerCreated,
         probatorConsumerCreated' = (probatorConsumerCreated \/ probates),
         OfferedAsSent(first), ~IsProbator(first),
         probates => /\ OfferedAsSent(probator) /\ IsProbator(probator)
                     /\ Probates(probator.params, first.params)
  PROVE  ConsumersInv'
<1> PICK new : new = consumers'
  OBVIOUS
<1> PICK n : n = Len(consumers)
  OBVIOUS
<1>1. n \in Nat /\ DOMAIN consumers = 1..n
  BY DEF ConsumersInv
<1>2. /\ \E S : new \in Seq(S)
      /\ \A c \in 1..n : new[c] = consumers[c]
      /\ new[n + 1] = first /\ (probates => new[n + 2] = probator)
      /\ DOMAIN new = (1..n) \cup {n + 1} \cup IF probates THEN {n + 2} ELSE {}
  BY <1>1, Zenon DEF ConsumersGrow
<1>3. \A c \in DOMAIN new : c \in 1..n \/ c = n + 1 \/ (probates /\ c = n + 2)
  BY <1>2, Zenon
<1>4. \A c \in DOMAIN new : OfferedAsSent(new[c])
  BY <1>1, <1>2, <1>3, Zenon DEF ConsumersInv
<1>5. ~probatorConsumerCreated' => \A c \in DOMAIN new : ~IsProbator(new[c])
  BY <1>1, <1>2, <1>3, Zenon DEF ConsumersInv
<1>6. ASSUME probatorConsumerCreated'
      PROVE  \E c \in DOMAIN new :
               /\ \A d \in DOMAIN new : IsProbator(new[d]) <=> d = c
               /\ c > 1 /\ Probates(new[c].params, new[c - 1].params)
  <2>1. CASE probates
    <3>1. \A c \in DOMAIN consumers : ~IsProbator(consumers[c])
      BY <2>1, Zenon DEF ConsumersInv
    <3> PICK m : m = n + 2
      OBVIOUS
    <3>2. m > 1 /\ m - 1 = n + 1 /\ n + 1 # m /\ m \notin 1..n
      BY <1>1
    <3>3. m \in DOMAIN new /\ new[m] = probator /\ new[m - 1] = first
      BY <1>2, <2>1, <3>2, Zenon
    <3>4. \A d \in DOMAIN new : IsProbator(new[d]) <=> d = m
      BY <1>1, <1>2, <1>3, <2>1, <3>1, <3>2, <3>3, Zenon
    <3>5. Probates(new[m].params, new[m - 1].params)
      BY <2>1, <3>3, Zenon
    <3> QED
      BY <3>2, <3>3, <3>4, <3>5, Zenon
  <2>2. CASE ~probates
    <3>1. probatorConsumerCreated
      BY <1>6, <2>2, Zenon
    <3>2. PICK c \in 1..n :
            /\ \A d \in 1..n : IsProbator(consumers[d]) <=> d = c
            /\ c > 1 /\ Probates(consumers[c].params, consumers[c - 1].params)
      BY <1>1, <3>1, Zenon DEF ConsumersInv
    <3>3. c - 1 \in 1..n /\ c # n + 1
      BY <1>1, <3>2
    <3>4. c \in DOMAIN new /\ new[c] = consumers[c] /\ new[c - 1] = consumers[c - 1]
      BY <1>2, <3>3, Zenon
    <3>5. \A d \in DOMAIN new : IsProbator(new[d]) <=> d = c
      BY <1>2, <1>3, <2>2, <3>2, <3>3, Zenon
    <3> QED
      BY <3>2, <3>4, <3>5, Zenon
  <2> QED
    BY <2>1, <2>2
<1> QED
  BY <1>2, <1>4, <1>5, <1>6, Zenon DEF ConsumersInv

\* Consume adds what is offered for a producer that the server was told of.
LEMMA ConsumeStep ==
  ASSUME StreamsInv, ConsumersInv, probatorConsumerCreated \in BOOLEAN,
         NEW n \in DOMAIN producers, NEW stream \in ServerStreams, Consume(n, stream)
  PROVE  ConsumersInv'
<1> DEFINE params == ServerParams(producers[n], stream)
           validated == ValidateRtpParameters(params)
           probates == producers[n].kind = "video" /\ ~probatorConsumerCreated
           first == Received(validated, Len(consumers) + 1)
           probed == GenerateProbatorRtpParameters(validated)
           probator == Received(probed, 0)
<1>1. /\ producers[n].told # NoKeys
      /\ consumers' = consumers \o <<first>> \o IF probates THEN <<probator>> ELSE <<>>
      /\ probatorConsumerCreated' = (probatorConsumerCreated \/ probates)
  BY Zenon DEF Consume
<1>2. /\ extendedRtpCapabilities \in ExtendedCaps
      /\ CanSend(producers[n].kind, extendedRtpCapabilities)
      /\ producers[n].told.rtcp.cname # "probator"
  BY <1>1, Zenon DEF StreamsInv, ProducersInv, AsTold, ToldNumbers, SendsAsTold, TellsTruly
<1>3. ConsumesOne(validated) /\ validated.rtcp.cname = producers[n].told.rtcp.cname
  BY <1>2, ServerConsumes
<1>4. probates \in BOOLEAN /\ (probates => ~probatorConsumerCreated)
  BY Zenon
<1> HIDE DEF validated, probates
<1>5. ConsumesOne(probed) /\ probed.rtcp.cname = "probator" /\ Probates(probed, validated)
  BY <1>3, ProbatorConsumes
<1> HIDE DEF probed
<1>6. OfferedAsSent(first) /\ first.params = validated
  BY <1>3, ReceivedOffered
<1>7. OfferedAsSent(probator) /\ probator.params = probed
  BY <1>5, ReceivedOffered
<1> HIDE DEF first, probator
<1>8. ConsumersGrow(consumers, consumers', first, probator, probates)
  <2> PICK S : consumers \in Seq(S)
    BY Zenon DEF ConsumersInv
  <2> QED
    BY <1>1, <1>4, GrowBy
<1>9. ~IsProbator(first) /\ IsProbator(probator) /\ Probates(probator.params, first.params)
  BY <1>2, <1>3, <1>5, <1>6, <1>7, Zenon DEF IsProbator
<1> QED
  BY <1>1, <1>4, <1>6, <1>7, <1>8, <1>9, ConsumersMore

\* It holds at any time.
THEOREM ConsumersInvariance == Spec => []ConsumersInv
<1>1. Init => ConsumersInv
  <2> SUFFICES ASSUME Init PROVE ConsumersInv
    OBVIOUS
  <2>1. consumers = <<>> /\ probatorConsumerCreated = FALSE
    BY DEF Init
  <2>2. DOMAIN consumers = {} /\ consumers \in Seq({})
    BY <2>1
  <2> QED
    BY <2>1, <2>2, Zenon DEF ConsumersInv
<1>2. StreamsInv /\ FlagAndCounter /\ ConsumersInv /\ [Next]_vars => ConsumersInv'
  <2> SUFFICES ASSUME StreamsInv, FlagAndCounter, ConsumersInv, [Next]_vars PROVE ConsumersInv'
    OBVIOUS
  <2>1. ASSUME UNCHANGED <<consumers, probatorConsumerCreated>> PROVE ConsumersInv'
    BY <2>1 DEF ConsumersInv
  <2>2. CASE MediaNext
    <3>1. ASSUME NEW kind, NEW encodings, NEW options, NEW stream, NEW uris,
                 Produce(kind, encodings, options, stream, uris)
          PROVE  ConsumersInv'
      BY <2>1, <3>1, Zenon DEF Produce
    <3>2. ASSUME NEW n, NEW layer, SetMaxSpatialLayer(n, layer) PROVE ConsumersInv'
      BY <2>1, <3>2, Zenon DEF SetMaxSpatialLayer
    <3>3. ASSUME NEW n \in DOMAIN producers, NEW stream \in ServerStreams, Consume(n, stream)
          PROVE  ConsumersInv'
      BY <3>3, ConsumeStep DEF FlagAndCounter
    <3> QED
      BY <2>2, <3>1, <3>2, <3>3, Zenon DEF MediaNext
  <2>3. CASE UNCHANGED mediaVars
    BY <2>1, <2>3, Zenon DEF mediaVars
  <2> QED
    BY <2>2, <2>3 DEF Next, vars
<1> QED
  BY <1>1, <1>2, StreamsInvariance, FlagAndCounterInvariance, PTL DEF Spec

\* The section that is offered for a consumer says what the server sends, the
\* answer has its codecs, and the probator is there once, behind the consumer
\* that it repeats.
THEOREM ConsumedAlwaysOffered == Spec => []ConsumedStreamIsOffered
<1>1. ConsumersInv /\ FlagAndCounter => ConsumedStreamIsOffered
  <2> SUFFICES ASSUME ConsumersInv, FlagAndCounter PROVE ConsumedStreamIsOffered
    OBVIOUS
  <2> DEFINE probators == {c \in DOMAIN consumers : consumers[c].params.rtcp.cname = "probator"}
  <2>1. \A c \in DOMAIN consumers : OfferedAsSent(consumers[c])
    BY Zenon DEF ConsumersInv
  <2>2. Cardinality(probators) = IF probatorConsumerCreated THEN 1 ELSE 0
    <3>1. CASE probatorConsumerCreated
      <4>1. PICK c \in DOMAIN consumers :
              \A d \in DOMAIN consumers : IsProbator(consumers[d]) <=> d = c
        BY <3>1, Zenon DEF ConsumersInv
      <4>2. probators = {c}
        BY <4>1, Zenon DEF IsProbator
      <4> HIDE DEF probators
      <4> QED
        BY <3>1, <4>2, FS_Singleton
    <3>2. CASE ~probatorConsumerCreated
      <4>1. probators = {}
        BY <3>2, Zenon DEF ConsumersInv, IsProbator
      <4> HIDE DEF probators
      <4> QED
        BY <3>2, <4>1, FS_EmptySet
    <3> QED
      BY <3>1, <3>2
  <2>3. \A c \in probators : c > 1 /\ Probates(consumers[c].params, consumers[c - 1].params)
    BY Zenon DEF ConsumersInv, IsProbator
  <2> QED
    BY <2>1, <2>2, <2>3, Zenon DEF ConsumedStreamIsOffered, OfferedAsSent, StreamOffered,
                                   CodecsOffered, Probates
<1> QED
  BY <1>1, ConsumersInvariance, FlagAndCounterInvariance, PTL
=============================================================================
