CONSTANTS
    IceParams = {"ice1", "ice2"}
    NoMid = none
    DataMid = data
    SctpNumStreams = 2
    MaxTransceivers = 3
    MaxSections = 4
SPECIFICATION Spec
INVARIANTS
    TypeOK
    NegotiationInStep
    ProducersMatchSections
    DtlsRoleSettled
PROPERTIES
    RemoteSdpUsedAsSpecified
    FailedSendIsFinal
CHECK_DEADLOCK FALSE
