CONSTANTS
    Absent = absent
    Null = null
    NoCodec = nocodec
    MaxCodecs = 4
    NativeOffers <- MCNativeOffers
    RouterCaps <- MCRouterCaps
SPECIFICATION Spec
INVARIANTS
    TypeOK
    RecvCapsMatchRouter
    ConsumableIffAnnounced
    SendParamsAgree
    FeedbackHasItsExtension
