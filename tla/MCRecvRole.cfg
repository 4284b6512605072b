CONSTANTS
    IceParams = {"ice1"}
    NoMid = none
    DataMid = data
    ProbatorMid = probator
    ServerMids = {0}
    StreamIds = {0}
    MaxSections = 2
SPECIFICATION Spec
INVARIANT AnnouncedDtlsRoleIsTaken
CHECK_DEADLOCK FALSE
