------------------------------ MODULE MCDevice ------------------------------
(***************************************************************************)
(* Offers of two libwebrtc builds, with and without level asymmetry, that  *)
(* prefer a codec with a higher payload type, and routers with up to four  *)
(* codecs in any order out of eight: two H264 codecs of one profile that   *)
(* match the same local one, one of another profile, RTX codecs with and   *)
(* without their codec, payload types that mean something else on our      *)
(* side, and one codec without a payload type, alone or after another,     *)
(* which makes Load fail halfway, or the RTX codec of another.             *)
(***************************************************************************)
EXTENDS Device

CONSTANT MaxCodecs   \* bound: codecs of a router

Codec(mime, kind, pt) ==
    [mime |-> mime, kind |-> kind, channels |-> Absent, pt |-> pt, apt |-> Null,
     profile |-> "p1", level |-> 0, asymmetry |-> FALSE, rtcpFeedback |-> Absent]

Rtx(pt, apt) == [Codec("rtx", "video", pt) EXCEPT !.apt = apt]

Video(mime, pt) ==
    [Codec(mime, "video", pt) EXCEPT !.rtcpFeedback = {"nack", "goog-remb", "transport-cc"}]

H264(pt, profile, level, asymmetry) ==
    [Video("h264", pt) EXCEPT !.profile = profile, !.level = level, !.asymmetry = asymmetry]

Ext(uri, id, direction) == [kind |-> "video", uri |-> uri, id |-> id, direction |-> direction]

Rtpmap(pt, mime) == [pt |-> pt, mime |-> mime, encoding |-> Absent]

Feedback(pts, types) ==
    SetToSeq({[pt |-> pt, type |-> type] : pt \in pts, type \in types})

NativeExts == {[uri |-> "abs-send-time", id |-> 2], [uri |-> "transport-wide-cc", id |-> 3]}

MCNativeOffers ==
    {<<[type |-> "audio", rtp |-> <<Rtpmap(111, "opus")>>, fmtp |-> <<>>, rtcpFb |-> <<>>,
        ext |-> {}],
       [type |-> "video",
        rtp |-> <<Rtpmap(98, "h264"), Rtpmap(99, "rtx"), Rtpmap(96, "vp8"), Rtpmap(97, "rtx")>>,
        fmtp |-> <<[NoFmtp EXCEPT !.profile = "p1", !.level = 2, !.asymmetry = asymmetry]
                     @@ "pt" :> 98,
                   "pt" :> 99 @@ [NoFmtp EXCEPT !.apt = 98],
                   "pt" :> 97 @@ [NoFmtp EXCEPT !.apt = 96]>>,
        rtcpFb |-> Feedback({96, 98}, {"nack", "goog-remb", "transport-cc"}),
        ext |-> NativeExts]>> : asymmetry \in BOOLEAN}

RouterCodecSet ==
    {[Codec("opus", "audio", 100) EXCEPT !.channels = 1],
     Video("vp8", 98), Rtx(99, 98),
     H264(96, "p1", 1, TRUE), H264(103, "p1", 3, FALSE), H264(105, "p2", 2, TRUE),
     Rtx(104, 103), Rtx(97, 96)}

RouterExts ==
    {{}, {Ext("abs-send-time", 5, "sendrecv")},
     {Ext("abs-send-time", 5, "sendrecv"), Ext("transport-wide-cc", 6, "recvonly")}}

RouterCapsWithoutPt ==
    {[codecs |-> codecs, headerExtensions |-> {}] :
       codecs \in {<<Codec("opus", "audio", Absent)>>,
                  <<Video("vp8", 98), Codec("opus", "audio", Absent)>>,
                  <<Video("vp8", 98), Rtx(Absent, 98)>>,
                  <<Video("vp8", 98), Rtx(Absent, 98), Rtx(99, 98)>>}}

MCRouterCaps ==
    {[codecs |-> codecs, headerExtensions |-> exts] :
       codecs \in UNION {SetToSeqs(S) : S \in UNION {kSubset(k, RouterCodecSet) : k \in 0..MaxCodecs}},
       exts \in RouterExts}
    \cup RouterCapsWithoutPt
=============================================================================
