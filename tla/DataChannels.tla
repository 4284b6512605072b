---------------------------- MODULE DataChannels -----------------------------
(***************************************************************************)
(* What becomes of the arguments of SendTransport::ProduceData and         *)
(* RecvTransport::ConsumeData (src/Transport.cpp): the DataChannelInit     *)
(* that libwebrtc is given, and the SCTP stream parameters, validated by   *)
(* src/ortc.cpp, that go to the server.  How the data section is           *)
(* negotiated is in SendHandler and RecvHandler; a call that throws        *)
(* changes nothing here and is no step.                                    *)
(***************************************************************************)
EXTENDS Ortc, Integers, FiniteSets

CONSTANTS
    SctpNumStreams,   \* SctpNumStreamsMis in the code, 1024
    Limits,           \* numbers for maxRetransmits and maxPacketLifeTime
    Protocols,
    ServerStreamIds   \* stream ids of the data consumers

ASSUME DataChannelsAssumption ==
    /\ Absent \notin Int \cup BOOLEAN \cup Protocols
    /\ SctpNumStreams \in Nat \ {0}
    /\ Limits \subseteq Int /\ 0 \in Limits
    /\ ServerStreamIds \subseteq 0..SctpNumStreams - 1

VARIABLES
    nextSendSctpStreamId,
    dataProducers,    \* open channels: what libwebrtc and the server have of each
    dataConsumers

dataVars == <<nextSendSctpStreamId, dataProducers, dataConsumers>>

DataInit ==
    /\ nextSendSctpStreamId = 0
    /\ dataProducers = {}
    /\ dataConsumers = {}

-----------------------------------------------------------------------------
(* validateSctpStreamParameters                                            *)

Limited(params) == params.maxPacketLifeTime # Absent \/ params.maxRetransmits # Absent

\* Fault: an ordered stream may be limited.
ValidSctpStreamParametersOrdered(params) ==
    params.maxPacketLifeTime = Absent \/ params.maxRetransmits = Absent

ValidSctpStreamParameters(params) ==
    /\ params.maxPacketLifeTime = Absent \/ params.maxRetransmits = Absent
    /\ params.ordered = TRUE => ~Limited(params)

ValidateSctpStreamParameters(params) ==
    [params EXCEPT
       !.ordered = IF @ = Absent THEN ~Limited(params) ELSE @,
       !.maxPacketLifeTime = IF @ = Absent THEN 0 ELSE @,
       !.maxRetransmits = IF @ = Absent THEN 0 ELSE @,
       !.protocol = IF @ = Absent THEN "" ELSE @]

-----------------------------------------------------------------------------
(* libwebrtc                                                               *)

\* A limit of -1 is none.
EffectiveLimit(limit) == IF limit = -1 THEN Absent ELSE limit

\* It refuses an id in use, both limits at once, and negative ones.
CanCreateDataChannel(open, init) ==
    LET limits == {EffectiveLimit(init.maxRetransmits), EffectiveLimit(init.maxRetransmitTime)}
    IN  /\ \A d \in open : d.channel.id # init.id
        /\ Absent \in limits
        /\ \A limit \in limits \ {Absent} : limit >= 0

CreateDataChannel(init) ==
    [init EXCEPT !.maxRetransmits = EffectiveLimit(@), !.maxRetransmitTime = EffectiveLimit(@)]

-----------------------------------------------------------------------------
(* ProduceData and SendDataChannel                                         *)

\* "Cannot set both maxRetransmits and maxPacketLifeTime"
SetsBoth(maxRetransmits, maxPacketLifeTime) == maxRetransmits # -1 /\ maxPacketLifeTime # 0

GivenLimit(limit) == IF limit = 0 THEN Absent ELSE limit

\* The init that ProduceData fills in and SendDataChannel completes.
SendInit(protocol, ordered, maxRetransmits, maxPacketLifeTime) ==
    [id |-> nextSendSctpStreamId, negotiated |-> TRUE,
     protocol |-> protocol, ordered |-> ordered,
     maxRetransmits |-> GivenLimit(maxRetransmits),
     maxRetransmitTime |-> GivenLimit(maxPacketLifeTime)]

NextStreamId == (nextSendSctpStreamId + 1) % SctpNumStreams

\* Fault: the id is read again after it was increased.
ToldStreamIdLate(init) == NextStreamId

ToldStreamId(init) == init.id

SendStreamParameters(init) ==
    [streamId |-> ToldStreamId(init), ordered |-> init.ordered, protocol |-> init.protocol,
     maxPacketLifeTime |-> init.maxRetransmitTime, maxRetransmits |-> init.maxRetransmits]

\* The call does not throw.
CanProduceData(protocol, ordered, maxRetransmits, maxPacketLifeTime) ==
    LET init == SendInit(protocol, ordered, maxRetransmits, maxPacketLifeTime)
    IN  /\ ~SetsBoth(maxRetransmits, maxPacketLifeTime)
        /\ ValidSctpStreamParameters(SendStreamParameters(init))
        /\ CanCreateDataChannel(dataProducers, init)

ProduceData(protocol, ordered, maxRetransmits, maxPacketLifeTime) ==
    LET init == SendInit(protocol, ordered, maxRetransmits, maxPacketLifeTime)
    IN  /\ CanProduceData(protocol, ordered, maxRetransmits, maxPacketLifeTime)
        /\ dataProducers' = dataProducers \cup
             {[channel |-> CreateDataChannel(init),
               told |-> ValidateSctpStreamParameters(SendStreamParameters(init))]}
        /\ nextSendSctpStreamId' = NextStreamId
        /\ UNCHANGED dataConsumers

\* The application closes a channel, which frees its id.
CloseDataProducer(d) ==
    /\ dataProducers' = dataProducers \ {d}
    /\ UNCHANGED <<nextSendSctpStreamId, dataConsumers>>

-----------------------------------------------------------------------------
(* ConsumeData and ReceiveDataChannel                                      *)

\* DataChannelInit is ordered unless it is told otherwise.
ConsumeData(streamId, protocol) ==
    LET init == [id |-> streamId, negotiated |-> TRUE, protocol |-> protocol, ordered |-> TRUE,
                 maxRetransmits |-> Absent, maxRetransmitTime |-> Absent]
        params == [streamId |-> init.id, ordered |-> init.ordered, protocol |-> Absent,
                   maxPacketLifeTime |-> Absent, maxRetransmits |-> Absent]
    IN  /\ ValidSctpStreamParameters(params)
        /\ CanCreateDataChannel(dataConsumers, init)
        /\ dataConsumers' = dataConsumers \cup
             {[channel |-> CreateDataChannel(init),
               told |-> ValidateSctpStreamParameters(params)]}
        /\ UNCHANGED <<nextSendSctpStreamId, dataProducers>>

DataNext ==
    \/ \E protocol \in Protocols, ordered \in BOOLEAN, maxRetransmits, maxPacketLifeTime \in Limits :
         ProduceData(protocol, ordered, maxRetransmits, maxPacketLifeTime)
    \/ \E d \in dataProducers : CloseDataProducer(d)
    \/ \E streamId \in ServerStreamIds, protocol \in Protocols : ConsumeData(streamId, protocol)

-----------------------------------------------------------------------------
(* Properties                                                              *)

\* The limit that the server reads: 0 stands for none.
ToldLimit(limit) == IF limit = 0 THEN Absent ELSE EffectiveLimit(limit)

\* The server and libwebrtc have the same stream: id, order, limits; the order
\* that the server is told is never one that a limit contradicts; and no two
\* open channels share an id, also after the ids have wrapped around.
ChannelIsAsTold ==
    /\ \A d \in dataProducers \cup dataConsumers :
         /\ d.told.streamId = d.channel.id
         /\ d.told.ordered = d.channel.ordered
         /\ ToldLimit(d.told.maxRetransmits) = d.channel.maxRetransmits
         /\ ToldLimit(d.told.maxPacketLifeTime) = d.channel.maxRetransmitTime
         /\ d.told.ordered =>
              d.channel.maxRetransmits = Absent /\ d.channel.maxRetransmitTime = Absent
    /\ \A d \in dataProducers : d.told.protocol = d.channel.protocol
    /\ \A d, e \in dataProducers : d.told.streamId = e.told.streamId => d = e

\* "Cannot set both maxRetransmits and maxPacketLifeTime": a call that leaves
\* maxRetransmits at its default 0, or says -1 for none, sets one limit only
\* and can make a channel.
OneLimitIsAccepted ==
    (\A d \in dataProducers : d.channel.id # nextSendSctpStreamId) =>
      \A maxPacketLifeTime \in Limits \cap (Nat \ {0}) :
        \E maxRetransmits \in {0, -1}, protocol \in Protocols :
          CanProduceData(protocol, FALSE, maxRetransmits, maxPacketLifeTime)
=============================================================================
