----------------------------- MODULE RemoteSdp ------------------------------
(***************************************************************************)
(* Sdp::RemoteSdp (src/sdp/RemoteSdp.cpp) and the part of the media        *)
(* sections it holds (src/sdp/MediaSection.cpp) that decides what the peer *)
(* connection is told: the mid of each m= line, whether its port is 0,     *)
(* whether it is disabled, its ICE credentials and its a=setup.            *)
(*                                                                         *)
(* The class plays the remote peer: the SendHandler feeds it with the      *)
(* sections of the local offers and reads answers from it, the RecvHandler *)
(* has it produce offers.  Codecs, SSRCs, candidates and the session       *)
(* version, which nothing reads back, are left out.  Indices are 1-based   *)
(* here and 0-based in the code.                                           *)
(***************************************************************************)
EXTENDS Naturals, Sequences

CONSTANTS
    Mids,        \* the mids the program can meet
    DataMid,     \* the mid of the m=application section
    NoMid,       \* the empty string
    IceParams    \* the ICE credentials the server may hand out

ASSUME RemoteSdpAssumption ==
    /\ DataMid \in Mids
    /\ NoMid \notin Mids

VARIABLES
    answering,       \* its owner is a SendHandler: it holds AnswerMediaSections;
                     \* otherwise a RecvHandler and OfferMediaSections
    mediaSections,   \* std::vector<MediaSection*>
    midToIndex,      \* std::map<std::string, size_t>
    firstMid,        \* mid of the first section ever added
    sdpMedia,        \* sdpObject["media"]: what GetSdp() writes
    bundleMids,      \* sdpObject["groups"][0]["mids"], as a set
    iceParameters,
    dtlsRole         \* dtlsParameters["role"]: the role of the remote side

sectionVars == <<mediaSections, midToIndex, firstMid, sdpMedia, bundleMids>>
vars == <<answering, sectionVars, iceParameters, dtlsRole>>

DtlsRoles == {"auto", "client", "server"}
Setups == {"actpass", "active", "passive"}

Section == [mid : Mids, closed : BOOLEAN, direction : {"open", "inactive"},
            ice : IceParams, setup : Setups]

-----------------------------------------------------------------------------
(* MediaSection                                                            *)

\* AnswerMediaSection::SetDtlsRole follows the role, an offer says actpass.
SetupFor(role) ==
    IF ~answering \/ role = "auto" THEN "actpass"
    ELSE IF role = "client" THEN "active" ELSE "passive"

NewSection(mid) ==
    [mid |-> mid, closed |-> FALSE, direction |-> "open",
     ice |-> iceParameters, setup |-> SetupFor(dtlsRole)]

Disabled(section) == [section EXCEPT !.direction = "inactive"]

Closed(section) == [section EXCEPT !.direction = "inactive", !.closed = TRUE]

-----------------------------------------------------------------------------
(* std::map: Put is m[k] = v, Erase is m.erase(k), and m[k] on a key that  *)
(* is missing inserts the first index.                                     *)

Put(map, k, v) == [m \in DOMAIN map \cup {k} |-> IF m = k THEN v ELSE map[m]]

Erase(map, k) == [m \in DOMAIN map \ {k} |-> map[m]]

IndexOf(mid) == IF mid \in DOMAIN midToIndex THEN midToIndex[mid] ELSE 1

-----------------------------------------------------------------------------
(* The private operations.                                                 *)

OpenMids(sections) ==
    {sections[i].mid : i \in {j \in DOMAIN sections : ~sections[j].closed}}

RegenerateBundleMids == bundleMids' = OpenMids(mediaSections')

\* Fault: the index is taken before the section is counted.
AddMediaSectionStaleIndex(section) ==
    /\ firstMid' = IF firstMid = NoMid THEN section.mid ELSE firstMid
    /\ mediaSections' = Append(mediaSections, section)
    /\ midToIndex' = Put(midToIndex, section.mid, Len(mediaSections))
    /\ sdpMedia' = Append(sdpMedia, section)
    /\ RegenerateBundleMids

AddMediaSection(section) ==
    /\ firstMid' = IF firstMid = NoMid THEN section.mid ELSE firstMid
    /\ mediaSections' = Append(mediaSections, section)
    /\ midToIndex' = Put(midToIndex, section.mid, Len(mediaSections) + 1)
    /\ sdpMedia' = Append(sdpMedia, section)
    /\ RegenerateBundleMids

\* Fault: the mid of the section that goes away stays in the map.
ReplaceMediaSectionNoErase(section, reuseMid) ==
    LET idx == IndexOf(reuseMid)
    IN  /\ mediaSections' = [mediaSections EXCEPT ![idx] = section]
        /\ midToIndex' = Put(midToIndex, section.mid, idx)
        /\ sdpMedia' = [sdpMedia EXCEPT ![idx] = section]
        /\ RegenerateBundleMids
        /\ UNCHANGED firstMid

\* Fault: the SDP object is updated at the end of the array, as in the
\* branch of ReplaceMediaSection that takes no mid.
ReplaceMediaSectionLastLine(section, reuseMid) ==
    LET idx == IndexOf(reuseMid)
    IN  /\ mediaSections' = [mediaSections EXCEPT ![idx] = section]
        /\ midToIndex' = Put(Erase(midToIndex, mediaSections[idx].mid), section.mid, idx)
        /\ sdpMedia' = [sdpMedia EXCEPT ![Len(mediaSections)] = section]
        /\ RegenerateBundleMids
        /\ UNCHANGED firstMid

ReplaceMediaSection(section, reuseMid) ==
    LET idx == IndexOf(reuseMid)
        old == mediaSections[idx].mid
    IN  /\ mediaSections' = [mediaSections EXCEPT ![idx] = section]
        /\ midToIndex' = Put(Erase(Put(midToIndex, reuseMid, idx), old), section.mid, idx)
        /\ sdpMedia' = [sdpMedia EXCEPT ![idx] = section]
        /\ RegenerateBundleMids
        /\ UNCHANGED firstMid

\* Fault: a disabled section counts as closed.
InactiveSections == {i \in DOMAIN mediaSections : mediaSections[i].direction = "inactive"}

ClosedSections == {i \in DOMAIN mediaSections : mediaSections[i].closed}

\* Fault: the most recently closed section first.
LastClosed == CHOOSE i \in ClosedSections : \A j \in ClosedSections : j <= i

FirstClosed == CHOOSE i \in ClosedSections : \A j \in ClosedSections : i <= j

-----------------------------------------------------------------------------
(* The public operations.                                                  *)

GetNextMediaSectionIdx ==
    IF ClosedSections # {}
    THEN [idx |-> FirstClosed, reuseMid |-> mediaSections[FirstClosed].mid]
    ELSE [idx |-> Len(mediaSections) + 1, reuseMid |-> NoMid]

\* offerMid is offerMediaObject["mid"], set by libwebrtc in the local offer.
Send(offerMid, reuseMid) ==
    /\ IF reuseMid # NoMid
       THEN ReplaceMediaSection(NewSection(offerMid), reuseMid)
       ELSE AddMediaSection(NewSection(offerMid))
    /\ UNCHANGED <<iceParameters, dtlsRole>>

\* Fault: the data section takes the place of a closed one.
SendSctpAssociationReuses(offerMid) ==
    /\ IF ClosedSections # {}
       THEN ReplaceMediaSection(NewSection(offerMid), mediaSections[FirstClosed].mid)
       ELSE AddMediaSection(NewSection(offerMid))
    /\ UNCHANGED <<iceParameters, dtlsRole>>

SendSctpAssociation(offerMid) ==
    /\ AddMediaSection(NewSection(offerMid))
    /\ UNCHANGED <<iceParameters, dtlsRole>>

RecvSctpAssociation ==
    /\ AddMediaSection(NewSection(DataMid))
    /\ UNCHANGED <<iceParameters, dtlsRole>>

Receive(mid) ==
    /\ IF ClosedSections # {}
       THEN ReplaceMediaSection(NewSection(mid), mediaSections[FirstClosed].mid)
       ELSE AddMediaSection(NewSection(mid))
    /\ UNCHANGED <<iceParameters, dtlsRole>>

\* Fault: the first m= line is closed like any other.
CloseMediaSectionAlways(mid) ==
    LET idx == IndexOf(mid)
    IN  /\ midToIndex' = Put(midToIndex, mid, idx)
        /\ mediaSections' = [mediaSections EXCEPT ![idx] = Closed(@)]
        /\ sdpMedia' = [sdpMedia EXCEPT ![idx] = mediaSections'[idx]]
        /\ RegenerateBundleMids
        /\ UNCHANGED <<firstMid, iceParameters, dtlsRole>>

\* Fault: the SDP object is not refreshed, as in DisableMediaSection.
CloseMediaSectionUnpublished(mid) ==
    LET idx == IndexOf(mid)
    IN  /\ midToIndex' = Put(midToIndex, mid, idx)
        /\ mediaSections' = [mediaSections EXCEPT
                               ![idx] = IF mid = firstMid THEN Disabled(@) ELSE Closed(@)]
        /\ RegenerateBundleMids
        /\ UNCHANGED <<sdpMedia, firstMid, iceParameters, dtlsRole>>

CloseMediaSection(mid) ==
    LET idx == IndexOf(mid)
    IN  /\ midToIndex' = Put(midToIndex, mid, idx)
        /\ mediaSections' = [mediaSections EXCEPT
                               ![idx] = IF mid = firstMid THEN Disabled(@) ELSE Closed(@)]
        /\ sdpMedia' = [sdpMedia EXCEPT ![idx] = mediaSections'[idx]]
        /\ RegenerateBundleMids
        /\ UNCHANGED <<firstMid, iceParameters, dtlsRole>>

\* Fault: only sections added later get the new credentials.
UpdateIceParametersLater(ice) ==
    /\ iceParameters' = ice
    /\ UNCHANGED <<sectionVars, dtlsRole>>

UpdateIceParameters(ice) ==
    /\ iceParameters' = ice
    /\ mediaSections' = [i \in DOMAIN mediaSections |-> [mediaSections[i] EXCEPT !.ice = ice]]
    /\ sdpMedia' = [i \in DOMAIN mediaSections |-> mediaSections'[i]]
    /\ UNCHANGED <<midToIndex, firstMid, bundleMids, dtlsRole>>

UpdateDtlsRole(role) ==
    /\ dtlsRole' = role
    /\ mediaSections' = [i \in DOMAIN mediaSections |->
                           [mediaSections[i] EXCEPT !.setup = SetupFor(role)]]
    /\ sdpMedia' = [i \in DOMAIN mediaSections |-> mediaSections'[i]]
    /\ UNCHANGED <<midToIndex, firstMid, bundleMids, iceParameters>>

-----------------------------------------------------------------------------
(* The object on its own, used the way a handler uses it: a mid is new     *)
(* when it is added (libwebrtc generates the mids of local offers, the     *)
(* server numbers those of consumers), one data section at most, and only  *)
(* sections that were added are closed.  SendHandler and RecvHandler       *)
(* compose these operations with the calls that decide their arguments.    *)

Init ==
    /\ answering \in BOOLEAN
    /\ mediaSections = <<>>
    /\ midToIndex = [m \in {} |-> 1]
    /\ firstMid = NoMid
    /\ sdpMedia = <<>>
    /\ bundleMids = {}
    /\ iceParameters \in IceParams
    /\ dtlsRole \in DtlsRoles

FreshMids == Mids \ DOMAIN midToIndex

AddRtp ==
    \E mid \in FreshMids \ {DataMid} :
      \/ answering /\ Send(mid, GetNextMediaSectionIdx.reuseMid)
      \/ ~answering /\ Receive(mid)

AddSctp ==
    /\ DataMid \in FreshMids
    /\ \/ answering /\ SendSctpAssociation(DataMid)
       \/ ~answering /\ RecvSctpAssociation

CloseRtp == \E mid \in DOMAIN midToIndex \ {DataMid} : CloseMediaSection(mid)

RestartIce == \E ice \in IceParams : UpdateIceParameters(ice)

SetupTransport == \E role \in {"client", "server"} : UpdateDtlsRole(role)

Next ==
    /\ AddRtp \/ AddSctp \/ CloseRtp \/ RestartIce \/ SetupTransport
    /\ UNCHANGED answering

Spec == Init /\ [][Next]_vars

-----------------------------------------------------------------------------
(* Properties                                                              *)

TypeOK ==
    /\ answering \in BOOLEAN
    /\ mediaSections \in Seq(Section)
    /\ DOMAIN midToIndex \subseteq Mids
    /\ midToIndex \in [DOMAIN midToIndex -> Nat \ {0}]
    /\ firstMid \in Mids \cup {NoMid}
    /\ sdpMedia \in Seq(Section)
    /\ bundleMids \subseteq Mids
    /\ iceParameters \in IceParams
    /\ dtlsRole \in DtlsRoles

\* The map and the vector are inverse of each other: every section is found
\* under its own mid at its own index, so no two sections share a mid, and no
\* mid of a section that was replaced is left behind.
MidIndexExact ==
    /\ DOMAIN midToIndex = {mediaSections[i].mid : i \in DOMAIN mediaSections}
    /\ \A i \in DOMAIN mediaSections : midToIndex[mediaSections[i].mid] = i

\* The SDP that GetSdp() would write now is the state of the sections now:
\* no operation changes a section and forgets to publish it, and the BUNDLE
\* group names exactly the sections whose port is not 0.
PublishedSdpIsCurrent ==
    /\ sdpMedia = mediaSections
    /\ bundleMids = OpenMids(mediaSections)

\* Once there is a section, the first one is open and bundled under firstMid
\* (CloseMediaSection: "Closing the first m section is a pain since it
\* invalidates the bundled transport, so let's avoid it").
FirstSectionKeepsBundle ==
    /\ mediaSections = <<>> <=> firstMid = NoMid
    /\ mediaSections # <<>> =>
         /\ mediaSections[1].mid = firstMid
         /\ ~mediaSections[1].closed
         /\ firstMid \in bundleMids

\* All m= lines of the bundle present the same credentials and DTLS role, the
\* current ones, however ICE restarts, role changes and closings interleave.
SectionsShareTransport ==
    \A i \in DOMAIN mediaSections :
      /\ mediaSections[i].ice = iceParameters
      /\ mediaSections[i].setup = SetupFor(dtlsRole)

\* What has been published moves only as a table of m= lines may move.
MLines == INSTANCE MLineTable
            WITH lines <- [i \in DOMAIN sdpMedia |->
                             [mid |-> sdpMedia[i].mid, rejected |-> sdpMedia[i].closed]]

ImplementsMLineTable == MLines!Spec
=============================================================================
