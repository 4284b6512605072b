CONSTANTS
    IceParams = {"ice1"}
    NoMid = none
    DataMid = data
    SctpNumStreams = 2
    MaxTransceivers = 2
    MaxSections = 3
SPECIFICATION Spec
INVARIANT UndoneSendLeavesNoTrace
CHECK_DEADLOCK FALSE
