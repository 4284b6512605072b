CONSTANTS
    Absent = absent
    Null = null
    NoCodec = nocodec
    SsrcSpace = 20
    ExtendedCaps <- MCExtendedCaps
    EncodingChoices <- MCEncodingChoices
    OptionChoices <- MCOptionChoices
    LocalStreams <- MCLocalStreams
    LocalExtensions = {{}, {"mid", "transport-wide-cc"}}
    ServerStreams <- MCServerStreams
    ProbatorSsrc = 12
    MaxProducers = 2
    MaxConsumers = 2
    SctpNumStreams = 2
    Limits <- MCLimits
    Protocols = {"p"}
    ServerStreamIds = {0}
SPECIFICATION Spec
INVARIANTS
    TypeOK
    EncodingsDescribeSection
    SenderMatchesTold
    OptionsStayWithTheirProducer
    AnswerAgreesWithTold
    RefusedProduceSendsNothing
    ProducedIsConsumable
    ConsumedStreamIsOffered
    ChannelIsAsTold
ACTION_CONSTRAINT OneSideAtATime
CHECK_DEADLOCK FALSE
