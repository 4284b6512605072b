CONSTANTS
    Mids <- MCMids
    DataMid <- MCDataMid
    NoMid <- MCNoMid
    IceParams <- MCIceParams
SPECIFICATION Spec
INVARIANTS
    TypeOK
    MidIndexExact
    PublishedSdpIsCurrent
    FirstSectionKeepsBundle
    SectionsShareTransport
PROPERTY ImplementsMLineTable
