----------------------------- MODULE SdpStreams -----------------------------
(***************************************************************************)
(* What the m= section of one producer or consumer says about its streams: *)
(* src/sdp/Utils.cpp reads and rewrites the SSRC lines of a local offer,   *)
(* src/sdp/MediaSection.cpp writes the sections of the server.             *)
(*                                                                         *)
(* A section is a record: `codecs' (each with its rtpmap, fmtp and rtcp-fb *)
(* lines), `ext', `ssrcs' and `ssrcGroups' (the a=ssrc and a=ssrc-group    *)
(* lines in their order), `rids' (a=simulcast and a=rid).  The values of   *)
(* codec parameters are JSON values with their type.  Candidates, ICE and  *)
(* DTLS are in RemoteSdp, the data section is in DataChannels.             *)
(***************************************************************************)
EXTENDS Ortc, FiniteSets

CONSTANT SsrcSpace   \* the number of SSRCs, 2^32 in the code

ASSUME SsrcAssumption == SsrcSpace \in Nat \ {0}

\* JSON values.
Num(n) == [type |-> "number", value |-> n]
Bool(b) == [type |-> "boolean", value |-> IF b THEN 1 ELSE 0]

Lookup(object, key) == IF key \in DOMAIN object THEN object[key] ELSE Absent

-----------------------------------------------------------------------------
(* Scalability modes.                                                      *)

\* A mode by its parts, as in "L3T2": a text that is none has other parts.
Mode(letter, spatial, temporal) ==
    [letter |-> letter, spatial |-> spatial, temporal |-> temporal]

EmptyMode == Mode("", 0, 0)

\* spatialLayers of parseScalabilityMode, which takes up to two digits without
\* a leading zero and answers 1 for what is not a mode.
SpatialLayers(mode) ==
    IF mode.letter \in {"L", "S"} /\ mode.spatial \in 1..99 /\ mode.temporal \in 1..99
    THEN mode.spatial ELSE 1

-----------------------------------------------------------------------------
(* The SSRC lines of a local offer.                                        *)

SsrcLine(id, attribute, value) == [id |-> id, attribute |-> attribute, value |-> value]

Group(semantics, ssrcs) == [semantics |-> semantics, ssrcs |-> ssrcs]

\* The lines that one SSRC has.
LinesOf(id, cname, msid) == <<SsrcLine(id, "cname", cname), SsrcLine(id, "msid", msid)>>

FirstWith(lines, attribute) ==
    lines[SelectInSeq(lines, LAMBDA line : line.attribute = attribute)]

\* Fault: the SSRCs are not kept to 32 bits.
ConsecutiveUnbounded(first, n) == [i \in 1..n |-> first + i - 1]

Consecutive(first, n) == [i \in 1..n |-> (first + i - 1) % SsrcSpace]

\* Only called for the section of a live sender without RIDs, which libwebrtc
\* gives cname and msid lines: the throws for the lack of either cannot happen.
\* An RTX SSRC of 0 counts as none.
AddLegacySimulcast(section, numStreams) ==
    LET msid == FirstWith(section.ssrcs, "msid")
        cname == FirstWith(section.ssrcs, "cname").value
        group == SelectInSeq(section.ssrcGroups, LAMBDA g : g.ssrcs[1] = msid.id)
        firstRtx == IF group = 0 THEN 0 ELSE section.ssrcGroups[group].ssrcs[2]
        ssrcs == Consecutive(msid.id, numStreams)
        rtxSsrcs == IF firstRtx = 0 THEN <<>> ELSE Consecutive(firstRtx, numStreams)
        all == ssrcs \o rtxSsrcs
    IN  [section EXCEPT
           !.ssrcs = FlattenSeq([i \in DOMAIN all |-> LinesOf(all[i], cname, msid.value)]),
           !.ssrcGroups = <<Group("SIM", ssrcs)>> \o
                          [i \in DOMAIN rtxSsrcs |-> Group("FID", <<ssrcs[i], rtxSsrcs[i]>>)]]

\* The value of the first line, whatever its attribute is.
GetCname(section) == IF section.ssrcs = <<>> THEN "" ELSE section.ssrcs[1].value

NoEncoding ==
    [ssrc |-> Absent, rtx |-> Absent, rid |-> Absent, active |-> Absent,
     maxBitrate |-> Absent, scalabilityMode |-> Absent, dtx |-> Absent]

\* The indices that std::list::unique leaves: the first of equal neighbours.
Unique(ids) == {i \in DOMAIN ids : i = 1 \/ ids[i] # ids[i - 1]}

\* The k-th of some indices.
InOrder(indices) ==
    [k \in 1..Cardinality(indices) |->
       CHOOSE i \in indices : Cardinality({j \in indices : j < i}) = k - 1]

\* Fault: the SSRCs for RTX are taken for streams of their own.
GetRtpEncodingsWithRtx(section) ==
    LET ids == [i \in DOMAIN section.ssrcs |-> section.ssrcs[i].id]
        kept == InOrder(Unique(ids))
    IN  [k \in DOMAIN kept |-> [NoEncoding EXCEPT !.ssrc = ids[kept[k]]]]

\* Of a section with a=ssrc lines; it throws for one without.  Of two FID groups
\* for one SSRC the last counts.
GetRtpEncodings(section) ==
    LET ids == [i \in DOMAIN section.ssrcs |-> section.ssrcs[i].id]
        groups == section.ssrcGroups
        rtxSsrcs == {groups[i].ssrcs[2] : i \in {i \in DOMAIN groups : groups[i].semantics = "FID"}}
        kept == InOrder({i \in Unique(ids) : ids[i] \notin rtxSsrcs})
        fid(id) == SelectLastInSeq(groups, LAMBDA g : g.semantics = "FID" /\ g.ssrcs[1] = id)
    IN  [k \in DOMAIN kept |->
           LET id == ids[kept[k]]
           IN  [NoEncoding EXCEPT !.ssrc = id,
                                  !.rtx = IF fid(id) = 0 THEN Absent ELSE groups[fid(id)].ssrcs[2]]]
=============================================================================
