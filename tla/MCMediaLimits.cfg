CONSTANTS
    Absent = absent
    Null = null
    NoCodec = nocodec
    SsrcSpace = 20
    ExtendedCaps <- MCExtendedCaps
    EncodingChoices <- MCEncodingChoices
    OptionChoices <- MCOptionChoices
    LocalStreams <- MCLocalStreams
    LocalExtensions = {{}, {"mid", "transport-wide-cc"}}
    ServerStreams <- MCServerStreams
    ProbatorSsrc = 12
    MaxProducers = 0
    MaxConsumers = 0
    SctpNumStreams = 2
    Limits <- MCLimits
    Protocols = {"p"}
    ServerStreamIds = {0}
SPECIFICATION Spec
INVARIANT OneLimitIsAccepted
CHECK_DEADLOCK FALSE
