CONSTANTS
    Absent = absent
    Null = null
    NoCodec = nocodec
    MaxCodecs = 1
    NativeOffers <- MCNativeOffers
    RouterCaps <- MCRouterCaps
SPECIFICATION Spec
INVARIANT KindWithoutCodecIsRefused
