CONSTANTS
    IceParams = {"ice1", "ice2"}
    NoMid = none
    DataMid = data
    ProbatorMid = probator
    ServerMids = {0, 1, 2}
    StreamIds = {0, 1}
    MaxSections = 4
SPECIFICATION Spec
INVARIANTS
    TypeOK
    NegotiationInStep
    RetryWithNewMidFits
    ConsumersMatchSections
    OwnMidsAreNew
PROPERTIES
    RemoteSdpUsedAsSpecified
CONSTRAINT NotRepeated
CHECK_DEADLOCK FALSE
