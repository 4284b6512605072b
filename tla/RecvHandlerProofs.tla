------------------------- MODULE RecvHandlerProofs --------------------------
(***************************************************************************)
(* RecvHandler, for any number of mids, m= lines and stream ids.           *)
(*                                                                         *)
(* RemoteSdpProofs says what its RemoteSdp does as long as every mid that  *)
(* is received is new; the lemmas here add what the peer connection and    *)
(* the consumers make of it.                                               *)
(***************************************************************************)
EXTENDS RecvHandler, FiniteSetTheorems, TLAPS

Sdp == INSTANCE RemoteSdpProofs WITH answering <- FALSE

Sections == DOMAIN mediaSections

-----------------------------------------------------------------------------
(* The inductive invariant.                                                *)

Stages == {"setup", "connect", "answer"}

Peers == [closed : BOOLEAN, signaling : {"stable", "have-remote-offer"},
          local : Seq(Line), remote : Seq(Line), channels : SUBSET StreamIds]

ReceiveCalls == [op : {"receive"}, stage : Stages, localId : ServerMids, video : BOOLEAN]

DataCalls == [op : {"data"}, stage : Stages]

Probation == [op |-> "probator"]

Typed ==
    /\ Remote!TypeOK
    /\ peer \in Peers
    /\ forcedLocalDtlsRole \in {"", "client", "server"}
    /\ transportReady \in BOOLEAN
    /\ mapMidTransceiver \subseteq ServerMids \cup {ProbatorMid}
    /\ IsFiniteSet(mapMidTransceiver)
    /\ hasDataChannelMediaSection \in BOOLEAN /\ probatorConsumerCreated \in BOOLEAN
    /\ call = Idle \/ call \in ReceiveCalls \/ call \in DataCalls \/ call = Probation
    /\ announcedRole \in {"", "client", "server"}
    /\ midless \in BOOLEAN /\ repeated \in BOOLEAN /\ failed \in BOOLEAN

\* What is left of the table when mids were repeated: both arrays are written
\* at the same index, which is one of a section.
Arrays ==
    /\ sdpMedia = mediaSections
    /\ \A mid \in DOMAIN midToIndex : midToIndex[mid] \in Sections

Table == Arrays /\ (mediaSections = <<>> => peer.remote = <<>>)

ClosedAreInactive ==
    \A i \in Sections : mediaSections[i].closed => mediaSections[i].direction = "inactive"

\* Otherwise RemoteSdp satisfies its own invariant.
Exact == ~repeated => Sdp!IInv /\ ClosedAreInactive

\* The peer connection has been offered what RemoteSdp would offer now, also
\* when nobody has answered, because the offer is applied before the wait.
Offered == ~repeated /\ ~peer.closed => peer.remote = Offer

Answered ==
    ~repeated /\ ~peer.closed /\ ~failed /\ call.op \in {"none", "probator"} =>
        peer.signaling = "stable" /\ peer.local = peer.remote

\* There is an open section and a transceiver for a mid.
Served(mid) ==
    /\ mid \in Pc!TransceiverMids(peer)
    /\ \E i \in Sections : mediaSections[i].mid = mid /\ mediaSections[i].direction = "open"

Consumers ==
    ~repeated =>
        /\ \A mid \in mapMidTransceiver \ stopped : Served(mid)
        /\ call.op = "receive" => Served(call.localId)

\* The mids that are taken, as long as the handler makes them up itself.
Numbered ==
    midless /\ ~failed =>
        /\ ~repeated
        /\ \A mid \in mapMidTransceiver \ {ProbatorMid} : mid < Cardinality(mapMidTransceiver)
        /\ \A mid \in DOMAIN midToIndex \ {DataMid, ProbatorMid} :
             \/ mid < Cardinality(mapMidTransceiver)
             \/ call.op = "receive" /\ mid = call.localId
        /\ call.op = "receive" => call.localId = Cardinality(mapMidTransceiver)
        /\ DataMid \in DOMAIN midToIndex => hasDataChannelMediaSection \/ call.op = "data"
        /\ ProbatorMid \in DOMAIN midToIndex =>
             probatorConsumerCreated \/ (peer.closed /\ call = Idle)
        /\ call.op = "probator" => ~probatorConsumerCreated

IInv ==
    /\ Typed
    /\ Table
    /\ Exact
    /\ Offered
    /\ Answered
    /\ Consumers
    /\ Numbered
-----------------------------------------------------------------------------
(* What the operations of RemoteSdp do to the table, repeated mids or not. *)

\* The assumptions of RemoteSdp hold of the mids here.
LEMMA SdpAssumption == Sdp!RemoteSdpAssumption
BY RecvHandlerAssumption DEF RecvHandlerAssumption, Sdp!RemoteSdpAssumption, Mids

\* A section for the mid is put behind the last or in the place of a closed
\* one, and nothing else changes.
Added(mid) ==
    /\ Sections \subseteq Sections'
    /\ \E k \in Sections' :
         /\ mediaSections'[k].mid = mid
         /\ mediaSections'[k].direction = "open"
         /\ ~mediaSections'[k].closed
         /\ k \in Sections => mediaSections[k].closed
         /\ \A i \in Sections' \ {k} : i \in Sections /\ mediaSections'[i] = mediaSections[i]
    /\ DOMAIN midToIndex' \subseteq DOMAIN midToIndex \cup {mid}

\* The sections are counted from 1.
LEMMA SectionsAreCounted ==
  ASSUME Remote!TypeOK
  PROVE  /\ Len(mediaSections) \in Nat /\ Sections = 1..Len(mediaSections)
         /\ \A i \in Sections : mediaSections[i] \in Remote!Section
BY DEF Remote!TypeOK, Sections

\* Without sections the sequence of sections is empty.
LEMMA NoSections ==
  ASSUME Remote!TypeOK
  PROVE  mediaSections = <<>> <=> Sections = {}
<1>1. mediaSections \in Seq(Remote!Section)
  BY DEF Remote!TypeOK
<1>2. mediaSections = <<>> <=> Len(mediaSections) = 0
  BY <1>1
<1> QED  BY <1>2, SectionsAreCounted

\* A new section is open.
LEMMA NewSectionFacts ==
  ASSUME Remote!TypeOK, NEW mid \in Mids
  PROVE  /\ Remote!NewSection(mid) \in Remote!Section
         /\ Remote!NewSection(mid).mid = mid
         /\ ~Remote!NewSection(mid).closed
         /\ Remote!NewSection(mid).direction = "open"
BY DEF Remote!TypeOK, Remote!NewSection, Remote!Section, Remote!SetupFor, Remote!Setups,
   Remote!DtlsRoles

\* The BUNDLE group holds mids.
LEMMA OpenMidsType ==
  ASSUME NEW sections \in Seq(Remote!Section)
  PROVE  Remote!OpenMids(sections) \subseteq Mids
<1>1. \A i \in DOMAIN sections : sections[i] \in Remote!Section
  OBVIOUS
<1>2. \A section \in Remote!Section : section.mid \in Mids
  BY DEF Remote!Section
<1> QED BY <1>1, <1>2 DEF Remote!OpenMids

\* A map into the sections and arrays that are the same are all that the types
\* need.
LEMMA WrittenAlike ==
  ASSUME Remote!TypeOK,
         mediaSections' \in Seq(Remote!Section), sdpMedia' = mediaSections',
         DOMAIN midToIndex' \subseteq Mids,
         midToIndex' = [mid \in DOMAIN midToIndex' |-> midToIndex'[mid]],
         \A mid \in DOMAIN midToIndex' : midToIndex'[mid] \in Sections',
         firstMid' \in Mids \cup {NoMid},
         bundleMids' = bundleMids \/ bundleMids' = Remote!OpenMids(mediaSections'),
         iceParameters' \in IceParams, dtlsRole' \in Remote!DtlsRoles
  PROVE  Remote!TypeOK' /\ Arrays'
<1>1. Sections' \subseteq Nat \ {0}
  BY DEF Sections
<1>2. midToIndex' \in [DOMAIN midToIndex' -> Nat \ {0}]
  <2>1. \A mid \in DOMAIN midToIndex' : midToIndex'[mid] \in Nat \ {0}
    BY <1>1
  <2> QED  BY <2>1
<1>3. bundleMids' \subseteq Mids
  BY OpenMidsType DEF Remote!TypeOK
<1>4. Arrays'
  BY DEF Arrays
<1> QED  BY <1>2, <1>3, <1>4 DEF Remote!TypeOK

\* A section that is added is behind the others.
LEMMA AddKeepsArrays ==
  ASSUME Remote!TypeOK, Arrays, NEW mid \in Mids,
         Remote!AddMediaSection(Remote!NewSection(mid)), UNCHANGED <<iceParameters, dtlsRole>>
  PROVE  Remote!TypeOK' /\ Arrays' /\ Added(mid)
<1> DEFINE n == Len(mediaSections)
           new == Remote!NewSection(mid)
<1>1. /\ new \in Remote!Section /\ new.mid = mid /\ ~new.closed /\ new.direction = "open"
  BY NewSectionFacts
<1>2. n \in Nat /\ Sections = 1..n /\ mediaSections \in Seq(Remote!Section)
  BY SectionsAreCounted DEF Remote!TypeOK
<1>3. /\ firstMid' = IF firstMid = NoMid THEN new.mid ELSE firstMid
      /\ mediaSections' = Append(mediaSections, new)
      /\ midToIndex' = Remote!Put(midToIndex, new.mid, n + 1)
      /\ sdpMedia' = Append(sdpMedia, new)
      /\ bundleMids' = Remote!OpenMids(mediaSections')
  BY DEF Remote!AddMediaSection, Remote!RegenerateBundleMids
<1> HIDE DEF new
<1>4. /\ mediaSections' \in Seq(Remote!Section)
      /\ Sections' = 1..n + 1
      /\ mediaSections'[n + 1] = new
      /\ \A i \in 1..n : mediaSections'[i] = mediaSections[i]
  BY <1>1, <1>2, <1>3 DEF Sections
<1>5. midToIndex' = [m \in DOMAIN midToIndex \cup {mid} |-> IF m = mid THEN n + 1 ELSE midToIndex[m]]
  BY <1>1, <1>3 DEF Remote!Put
<1>6. DOMAIN midToIndex' = DOMAIN midToIndex \cup {mid}
  BY <1>5
<1>7. \A m \in DOMAIN midToIndex' : midToIndex'[m] \in Sections'
  BY <1>2, <1>4, <1>5 DEF Arrays
<1>8. Remote!TypeOK' /\ Arrays'
  <2>1. /\ sdpMedia' = mediaSections' /\ DOMAIN midToIndex' \subseteq Mids
        /\ firstMid' \in Mids \cup {NoMid}
        /\ iceParameters' \in IceParams /\ dtlsRole' \in Remote!DtlsRoles
    BY <1>1, <1>3, <1>6 DEF Remote!TypeOK, Arrays
  <2>2. midToIndex' = [m \in DOMAIN midToIndex' |-> midToIndex'[m]]
    BY <1>5
  <2> QED  BY <1>3, <1>4, <1>7, <2>1, <2>2, WrittenAlike
<1>9. Added(mid)
  <2>1. /\ n + 1 \in Sections' /\ n + 1 \notin Sections /\ Sections \subseteq Sections'
        /\ \A i \in Sections' \ {n + 1} : i \in Sections
    BY <1>2, <1>4
  <2>2. \A i \in Sections' \ {n + 1} : mediaSections'[i] = mediaSections[i]
    BY <1>2, <1>4, <2>1
  <2> QED  BY <1>1, <1>4, <1>6, <2>1, <2>2 DEF Added
<1> QED  BY <1>8, <1>9

\* A section that is replaced is one of the sections, found by a mid that need
\* not be its own.
LEMMA ReplaceKeepsArrays ==
  ASSUME Remote!TypeOK, Arrays, NEW mid \in Mids, NEW reuseMid \in Mids, mediaSections # <<>>,
         Remote!ReplaceMediaSection(Remote!NewSection(mid), reuseMid),
         UNCHANGED <<iceParameters, dtlsRole>>
  PROVE  Remote!TypeOK' /\ Arrays' /\ Sections' = Sections
<1> DEFINE new == Remote!NewSection(mid)
<1>1. new \in Remote!Section /\ new.mid = mid
  BY NewSectionFacts
<1>2. /\ Len(mediaSections) \in Nat /\ Sections = 1..Len(mediaSections)
      /\ mediaSections \in Seq(Remote!Section)
  BY SectionsAreCounted DEF Remote!TypeOK
<1>3. PICK idx : idx = Remote!IndexOf(reuseMid)
  OBVIOUS
<1>4. PICK old : old = mediaSections[idx].mid
  OBVIOUS
<1>5. idx \in Sections
  <2>1. 1 \in Sections
    BY <1>2
  <2> QED  BY <1>3, <2>1 DEF Arrays, Remote!IndexOf
<1>6. /\ mediaSections' = [mediaSections EXCEPT ![idx] = new]
      /\ midToIndex' = Remote!Put(Remote!Erase(Remote!Put(midToIndex, reuseMid, idx), old), new.mid, idx)
      /\ sdpMedia' = [sdpMedia EXCEPT ![idx] = new]
      /\ bundleMids' = Remote!OpenMids(mediaSections')
      /\ firstMid' = firstMid
  BY <1>3, <1>4 DEF Remote!ReplaceMediaSection, Remote!RegenerateBundleMids
<1> HIDE DEF new
<1>7. mediaSections' \in Seq(Remote!Section) /\ Sections' = Sections
  BY <1>1, <1>2, <1>5, <1>6 DEF Sections
<1>8. /\ DOMAIN midToIndex' \subseteq Mids
      /\ midToIndex' = [m \in DOMAIN midToIndex' |-> midToIndex'[m]]
      /\ \A m \in DOMAIN midToIndex' : midToIndex'[m] \in Sections
  <2>1. PICK put : put = [m \in DOMAIN midToIndex \cup {reuseMid} |->
                            IF m = reuseMid THEN idx ELSE midToIndex[m]]
    OBVIOUS
  <2>2. /\ DOMAIN put = DOMAIN midToIndex \cup {reuseMid}
        /\ \A m \in DOMAIN put : put[m] \in Sections
    BY <1>5, <2>1 DEF Arrays
  <2>3. PICK rest : rest = [m \in DOMAIN put \ {old} |-> put[m]]
    OBVIOUS
  <2>4. /\ DOMAIN rest = DOMAIN put \ {old}
        /\ \A m \in DOMAIN rest : rest[m] \in Sections
    BY <2>2, <2>3
  <2>5. midToIndex' = [m \in DOMAIN rest \cup {mid} |-> IF m = mid THEN idx ELSE rest[m]]
    BY <1>1, <1>6, <2>1, <2>3 DEF Remote!Put, Remote!Erase
  <2>6. DOMAIN midToIndex' = DOMAIN rest \cup {mid}
    BY <2>5
  <2>7. DOMAIN midToIndex \subseteq Mids
    BY DEF Remote!TypeOK
  <2>8. \A m \in DOMAIN midToIndex' : midToIndex'[m] \in Sections
    BY <1>5, <2>4, <2>5, <2>6
  <2> QED  BY <2>2, <2>4, <2>5, <2>6, <2>7, <2>8
<1>9. /\ sdpMedia' = mediaSections' /\ firstMid' \in Mids \cup {NoMid}
      /\ iceParameters' \in IceParams /\ dtlsRole' \in Remote!DtlsRoles
  BY <1>6 DEF Remote!TypeOK, Arrays
<1> QED  BY <1>6, <1>7, <1>8, <1>9, WrittenAlike

\* Closing or disabling a section leaves its mid.
LEMMA ClosedSectionFacts ==
  ASSUME NEW section \in Remote!Section
  PROVE  /\ Remote!Closed(section) \in Remote!Section
         /\ Remote!Disabled(section) \in Remote!Section
         /\ Remote!Closed(section).mid = section.mid
         /\ Remote!Disabled(section).mid = section.mid
         /\ Remote!Closed(section).direction = "inactive"
         /\ Remote!Disabled(section).direction = "inactive"
BY DEF Remote!Section, Remote!Closed, Remote!Disabled

\* What closing does to a table, exact or not.
LEMMA CloseKeepsArrays ==
  ASSUME Remote!TypeOK, Arrays, NEW mid \in Mids, mediaSections # <<>>,
         Remote!CloseMediaSection(mid)
  PROVE  /\ Remote!TypeOK' /\ Arrays' /\ Sections' = Sections
         /\ LET idx == Remote!IndexOf(mid)
            IN  /\ idx \in Sections
                /\ mediaSections'[idx].mid = mediaSections[idx].mid
                /\ mediaSections'[idx].direction = "inactive"
                /\ \A i \in Sections \ {idx} : mediaSections'[i] = mediaSections[i]
<1>1. /\ Len(mediaSections) \in Nat /\ Sections = 1..Len(mediaSections)
      /\ mediaSections \in Seq(Remote!Section)
      /\ \A i \in Sections : mediaSections[i] \in Remote!Section
  BY SectionsAreCounted DEF Remote!TypeOK
<1>2. PICK idx : idx = Remote!IndexOf(mid)
  OBVIOUS
<1>3. idx \in Sections
  <2>1. 1 \in Sections
    BY <1>1
  <2> QED  BY <1>2, <2>1 DEF Arrays, Remote!IndexOf
<1>4. PICK new : new = IF mid = firstMid THEN Remote!Disabled(mediaSections[idx])
                                         ELSE Remote!Closed(mediaSections[idx])
  OBVIOUS
<1>5. new \in Remote!Section /\ new.mid = mediaSections[idx].mid /\ new.direction = "inactive"
  BY <1>1, <1>3, <1>4, ClosedSectionFacts
<1>6. /\ midToIndex' = Remote!Put(midToIndex, mid, idx)
      /\ mediaSections' = [mediaSections EXCEPT ![idx] = new]
      /\ sdpMedia' = [sdpMedia EXCEPT ![idx] = mediaSections'[idx]]
      /\ bundleMids' = Remote!OpenMids(mediaSections')
      /\ UNCHANGED <<firstMid, iceParameters, dtlsRole>>
  BY <1>2, <1>4 DEF Remote!CloseMediaSection, Remote!RegenerateBundleMids
<1>7. /\ mediaSections' \in Seq(Remote!Section) /\ Sections' = Sections
      /\ mediaSections'[idx] = new
      /\ \A i \in Sections \ {idx} : mediaSections'[i] = mediaSections[i]
  BY <1>1, <1>3, <1>5, <1>6 DEF Sections
<1>8. midToIndex' = [m \in DOMAIN midToIndex \cup {mid} |-> IF m = mid THEN idx ELSE midToIndex[m]]
  BY <1>6 DEF Remote!Put
<1>9. DOMAIN midToIndex' = DOMAIN midToIndex \cup {mid}
  BY <1>8
<1>10. /\ DOMAIN midToIndex' \subseteq Mids
       /\ midToIndex' = [m \in DOMAIN midToIndex' |-> midToIndex'[m]]
       /\ \A m \in DOMAIN midToIndex' : midToIndex'[m] \in Sections
  BY <1>3, <1>8, <1>9 DEF Arrays, Remote!TypeOK
<1>11. /\ sdpMedia' = mediaSections' /\ firstMid' \in Mids \cup {NoMid}
       /\ iceParameters' \in IceParams /\ dtlsRole' \in Remote!DtlsRoles
  BY <1>6, <1>7 DEF Remote!TypeOK, Arrays
<1>12. Remote!TypeOK' /\ Arrays'
  BY <1>6, <1>7, <1>10, <1>11, WrittenAlike
<1> QED  BY <1>2, <1>3, <1>5, <1>7, <1>12

\* New transport parameters change no mid and close no section.
Rewritten ==
    /\ Sections' = Sections
    /\ midToIndex' = midToIndex
    /\ \A i \in Sections :
         /\ mediaSections'[i].mid = mediaSections[i].mid
         /\ mediaSections'[i].closed = mediaSections[i].closed
         /\ mediaSections'[i].direction = mediaSections[i].direction

\* UpdateIceParameters rewrites all sections.
LEMMA IceKeepsArrays ==
  ASSUME Remote!TypeOK, Arrays, NEW ice \in IceParams, Remote!UpdateIceParameters(ice)
  PROVE  Remote!TypeOK' /\ Arrays' /\ Rewritten
<1>1. /\ Len(mediaSections) \in Nat /\ Sections = 1..Len(mediaSections)
      /\ \A i \in Sections : mediaSections[i] \in Remote!Section
  BY SectionsAreCounted
<1>2. \A section \in Remote!Section :
        LET new == [section EXCEPT !.ice = ice]
        IN  /\ new \in Remote!Section
            /\ new.mid = section.mid /\ new.closed = section.closed
            /\ new.direction = section.direction
  BY DEF Remote!Section
<1>3. /\ iceParameters' = ice
      /\ mediaSections' = [i \in Sections |-> [mediaSections[i] EXCEPT !.ice = ice]]
      /\ sdpMedia' = [i \in Sections |-> mediaSections'[i]]
      /\ UNCHANGED <<midToIndex, firstMid, bundleMids, dtlsRole>>
  BY DEF Remote!UpdateIceParameters, Sections
<1>4. /\ mediaSections' \in Seq(Remote!Section) /\ Sections' = Sections
      /\ sdpMedia' = mediaSections'
  BY <1>1, <1>2, <1>3 DEF Sections
<1>5. Rewritten
  BY <1>1, <1>2, <1>3, <1>4 DEF Rewritten
<1>6. /\ midToIndex' = [m \in DOMAIN midToIndex' |-> midToIndex'[m]]
      /\ \A m \in DOMAIN midToIndex' : midToIndex'[m] \in Sections'
      /\ firstMid' \in Mids \cup {NoMid} /\ DOMAIN midToIndex' \subseteq Mids
      /\ iceParameters' \in IceParams /\ dtlsRole' \in Remote!DtlsRoles
  BY <1>3, <1>4 DEF Remote!TypeOK, Arrays
<1> QED  BY <1>3, <1>4, <1>5, <1>6, WrittenAlike

\* UpdateDtlsRole rewrites all sections.
LEMMA DtlsKeepsArrays ==
  ASSUME Remote!TypeOK, Arrays, NEW role \in {"client", "server"}, Remote!UpdateDtlsRole(role)
  PROVE  Remote!TypeOK' /\ Arrays' /\ Rewritten
<1>1. /\ Len(mediaSections) \in Nat /\ Sections = 1..Len(mediaSections)
      /\ \A i \in Sections : mediaSections[i] \in Remote!Section
  BY SectionsAreCounted
<1>2. PICK setup \in Remote!Setups : setup = Remote!SetupFor(role)
  BY DEF Remote!SetupFor, Remote!Setups
<1>3. \A section \in Remote!Section :
        LET new == [section EXCEPT !.setup = setup]
        IN  /\ new \in Remote!Section
            /\ new.mid = section.mid /\ new.closed = section.closed
            /\ new.direction = section.direction
  BY DEF Remote!Section
<1>4. /\ dtlsRole' = role
      /\ mediaSections' = [i \in Sections |-> [mediaSections[i] EXCEPT !.setup = setup]]
      /\ sdpMedia' = [i \in Sections |-> mediaSections'[i]]
      /\ UNCHANGED <<midToIndex, firstMid, bundleMids, iceParameters>>
  BY <1>2 DEF Remote!UpdateDtlsRole, Sections
<1>5. /\ mediaSections' \in Seq(Remote!Section) /\ Sections' = Sections
      /\ sdpMedia' = mediaSections'
  BY <1>1, <1>3, <1>4 DEF Sections
<1>6. Rewritten
  BY <1>1, <1>3, <1>4, <1>5 DEF Rewritten
<1>7. /\ midToIndex' = [m \in DOMAIN midToIndex' |-> midToIndex'[m]]
      /\ \A m \in DOMAIN midToIndex' : midToIndex'[m] \in Sections'
      /\ firstMid' \in Mids \cup {NoMid} /\ DOMAIN midToIndex' \subseteq Mids
      /\ iceParameters' \in IceParams /\ dtlsRole' \in Remote!DtlsRoles
  BY <1>4, <1>5 DEF Remote!TypeOK, Arrays, Remote!DtlsRoles
<1> QED  BY <1>4, <1>5, <1>6, <1>7, WrittenAlike

-----------------------------------------------------------------------------
(* What they do to an exact table.                                         *)

\* The two instances of RemoteSdp are the same.
LEMMA SameSdp ==
  /\ Remote!Init <=> Sdp!Init
  /\ Remote!Next <=> Sdp!Next
  /\ Remote!TypeOK <=> Sdp!TypeOK
  /\ \A mid : Remote!NewSection(mid) = Sdp!NewSection(mid)
<1>1. Remote!Init <=> Sdp!Init
  BY DEF Remote!Init, Sdp!Init, Remote!DtlsRoles, Sdp!DtlsRoles
<1>2. Remote!TypeOK <=> Sdp!TypeOK
  BY DEF Remote!TypeOK, Sdp!TypeOK, Remote!DtlsRoles, Sdp!DtlsRoles, Remote!Section, Sdp!Section,
     Remote!Setups, Sdp!Setups
<1>3. \A mid : Remote!NewSection(mid) = Sdp!NewSection(mid)
  BY DEF Remote!NewSection, Sdp!NewSection, Remote!SetupFor, Sdp!SetupFor
<1>4. Remote!Next <=> Sdp!Next
  BY DEF Remote!Next, Sdp!Next, Remote!AddRtp, Sdp!AddRtp, Remote!AddSctp, Sdp!AddSctp,
     Remote!CloseRtp, Sdp!CloseRtp, Remote!RestartIce, Sdp!RestartIce,
     Remote!SetupTransport, Sdp!SetupTransport, Remote!FreshMids, Sdp!FreshMids,
     Remote!Send, Sdp!Send, Remote!Receive, Sdp!Receive,
     Remote!SendSctpAssociation, Sdp!SendSctpAssociation,
     Remote!RecvSctpAssociation, Sdp!RecvSctpAssociation,
     Remote!GetNextMediaSectionIdx, Sdp!GetNextMediaSectionIdx,
     Remote!ReplaceMediaSection, Sdp!ReplaceMediaSection,
     Remote!AddMediaSection, Sdp!AddMediaSection,
     Remote!CloseMediaSection, Sdp!CloseMediaSection,
     Remote!UpdateIceParameters, Sdp!UpdateIceParameters,
     Remote!UpdateDtlsRole, Sdp!UpdateDtlsRole,
     Remote!NewSection, Sdp!NewSection, Remote!SetupFor, Sdp!SetupFor,
     Remote!Disabled, Sdp!Disabled, Remote!Closed, Sdp!Closed,
     Remote!Put, Sdp!Put, Remote!Erase, Sdp!Erase, Remote!IndexOf, Sdp!IndexOf,
     Remote!OpenMids, Sdp!OpenMids, Remote!RegenerateBundleMids, Sdp!RegenerateBundleMids,
     Remote!ClosedSections, Sdp!ClosedSections, Remote!FirstClosed, Sdp!FirstClosed
<1> QED  BY <1>1, <1>2, <1>3, <1>4

\* What the invariant of RemoteSdp says of the sections here.
LEMMA ExactFacts ==
  ASSUME Sdp!IInv
  PROVE  /\ Remote!TypeOK
         /\ sdpMedia = mediaSections
         /\ DOMAIN midToIndex = {mediaSections[i].mid : i \in Sections}
         /\ \A i \in Sections : midToIndex[mediaSections[i].mid] = i
BY SameSdp DEF Sdp!IInv, Sdp!MidIndexExact, Sdp!PublishedSdpIsCurrent, Sections

\* RemoteSdpProofs is about every step that RemoteSdp!Next allows.
LEMMA NextKeepsExact ==
  ASSUME Sdp!IInv, Remote!Next
  PROVE  Sdp!IInv'
BY SameSdp, SdpAssumption, Sdp!NextIInv

\* Closed sections are looked up as RemoteSdpProofs does.
LEMMA FirstClosedFacts ==
  ASSUME Sdp!IInv, Remote!ClosedSections # {}
  PROVE  Remote!FirstClosed \in Sections /\ mediaSections[Remote!FirstClosed].closed
<1>1. Sdp!ClosedSections = Remote!ClosedSections /\ Sdp!FirstClosed = Remote!FirstClosed
  BY DEF Sdp!ClosedSections, Remote!ClosedSections, Sdp!FirstClosed, Remote!FirstClosed
<1>2. Sdp!FirstClosed \in Sdp!ClosedSections
  BY <1>1, Sdp!FirstClosedIsLeast, SdpAssumption DEF Sdp!IInv
<1> QED  BY <1>1, <1>2 DEF Remote!ClosedSections, Sections

\* In an exact table the section that is replaced is the one that was meant.
LEMMA ReplaceAdds ==
  ASSUME Sdp!IInv, NEW mid \in Mids, Remote!ClosedSections # {},
         Remote!ReplaceMediaSection(Remote!NewSection(mid), mediaSections[Remote!FirstClosed].mid)
  PROVE  Added(mid)
<1> DEFINE new == Remote!NewSection(mid)
<1>1. /\ Remote!TypeOK
      /\ DOMAIN midToIndex = {mediaSections[i].mid : i \in Sections}
      /\ \A i \in Sections : midToIndex[mediaSections[i].mid] = i
  BY ExactFacts
<1>2. new.mid = mid /\ ~new.closed /\ new.direction = "open"
  BY <1>1, NewSectionFacts
<1>3. PICK k : k = Remote!FirstClosed
  OBVIOUS
<1>4. k \in Sections /\ mediaSections[k].closed
  BY <1>3, FirstClosedFacts
<1>5. PICK old : old = mediaSections[k].mid
  OBVIOUS
<1>6. old \in DOMAIN midToIndex /\ Remote!IndexOf(old) = k
  BY <1>1, <1>4, <1>5 DEF Remote!IndexOf
<1>7. /\ mediaSections' = [mediaSections EXCEPT ![k] = new]
      /\ midToIndex' = Remote!Put(Remote!Erase(Remote!Put(midToIndex, old, k), old), new.mid, k)
  BY <1>3, <1>5, <1>6 DEF Remote!ReplaceMediaSection
<1> HIDE DEF new
<1>8. /\ Sections' = Sections /\ mediaSections'[k] = new
      /\ \A i \in Sections' \ {k} : i \in Sections /\ mediaSections'[i] = mediaSections[i]
  BY <1>4, <1>7 DEF Sections
<1>9. DOMAIN midToIndex' \subseteq DOMAIN midToIndex \cup {mid}
  BY <1>2, <1>6, <1>7 DEF Remote!Put, Remote!Erase
<1> QED  BY <1>2, <1>4, <1>8, <1>9 DEF Added

\* A section that is added is not a closed one.
LEMMA AddedIsOpen ==
  ASSUME ClosedAreInactive, NEW mid, Added(mid)
  PROVE  ClosedAreInactive'
<1>1. PICK k \in Sections' :
        /\ ~mediaSections'[k].closed
        /\ \A i \in Sections' \ {k} : i \in Sections /\ mediaSections'[i] = mediaSections[i]
  BY DEF Added
<1> QED  BY <1>1 DEF ClosedAreInactive

\* Receive with a mid that is new.
LEMMA ReceiveIsNext ==
  ASSUME Sdp!IInv, Arrays, ClosedAreInactive, NEW mid \in Mids \ {DataMid},
         mid \notin DOMAIN midToIndex, Remote!Receive(mid)
  PROVE  Remote!Next /\ Sdp!IInv' /\ ClosedAreInactive' /\ Added(mid)
<1>1. Remote!Next
  BY DEF Remote!Next, Remote!AddRtp, Remote!FreshMids
<1>2. Sdp!IInv'
  BY <1>1, NextKeepsExact
<1>3. Added(mid)
  <2>1. CASE Remote!ClosedSections # {}
    BY <2>1, ReplaceAdds DEF Remote!Receive
  <2>2. CASE Remote!ClosedSections = {}
    BY <2>2, AddKeepsArrays, ExactFacts DEF Remote!Receive
  <2> QED  BY <2>1, <2>2
<1> QED  BY <1>1, <1>2, <1>3, AddedIsOpen

\* The data section where there is none.
LEMMA RecvSctpIsNext ==
  ASSUME Sdp!IInv, Arrays, ClosedAreInactive, DataMid \notin DOMAIN midToIndex,
         Remote!RecvSctpAssociation
  PROVE  Remote!Next /\ Sdp!IInv' /\ ClosedAreInactive' /\ Added(DataMid)
<1>1. DataMid \in Mids
  BY DEF Mids
<1>2. Remote!Next
  BY <1>1 DEF Remote!Next, Remote!AddSctp, Remote!FreshMids
<1>3. Sdp!IInv'
  BY <1>2, NextKeepsExact
<1>4. Added(DataMid)
  BY <1>1, AddKeepsArrays, ExactFacts DEF Remote!RecvSctpAssociation
<1> QED  BY <1>2, <1>3, <1>4, AddedIsOpen

\* Closing the section of a mid that has one.
LEMMA CloseIsNext ==
  ASSUME Sdp!IInv, Arrays, ClosedAreInactive, NEW mid \in DOMAIN midToIndex \ {DataMid},
         Remote!CloseMediaSection(mid)
  PROVE  /\ Remote!Next /\ Sdp!IInv' /\ ClosedAreInactive'
         /\ Sections' = Sections /\ DOMAIN midToIndex' = DOMAIN midToIndex
         /\ \A i \in Sections :
              /\ mediaSections'[i].mid = mediaSections[i].mid
              /\ mediaSections[i].mid # mid => mediaSections'[i] = mediaSections[i]
<1>1. Remote!Next
  BY DEF Remote!Next, Remote!CloseRtp
<1>2. Sdp!IInv'
  BY <1>1, NextKeepsExact
<1>3. /\ Remote!TypeOK
      /\ DOMAIN midToIndex = {mediaSections[i].mid : i \in Sections}
      /\ \A i \in Sections : midToIndex[mediaSections[i].mid] = i
  BY ExactFacts
<1>4. mid \in Mids /\ mediaSections # <<>>
  BY <1>3 DEF Remote!TypeOK, Sections
<1>5. PICK idx : idx = Remote!IndexOf(mid)
  OBVIOUS
<1>6. mediaSections[idx].mid = mid
  BY <1>3, <1>5 DEF Remote!IndexOf
<1>7. /\ Sections' = Sections /\ idx \in Sections
      /\ mediaSections'[idx].mid = mediaSections[idx].mid
      /\ mediaSections'[idx].direction = "inactive"
      /\ \A i \in Sections \ {idx} : mediaSections'[i] = mediaSections[i]
  BY <1>3, <1>4, <1>5, CloseKeepsArrays
<1>8. ClosedAreInactive'
  BY <1>7 DEF ClosedAreInactive
<1>9. DOMAIN midToIndex' = DOMAIN midToIndex
  BY DEF Remote!CloseMediaSection, Remote!Put
<1> QED  BY <1>1, <1>2, <1>6, <1>7, <1>8, <1>9

-----------------------------------------------------------------------------
(* What the peer connection makes of the table.                            *)

\* The m= lines that are offered for some sections.
LinesOf(sections) ==
    [i \in DOMAIN sections |-> [mid |-> sections[i].mid, rejected |-> sections[i].closed]]

\* One line for each section.
LEMMA LinesFacts ==
  ASSUME NEW sections \in Seq(Remote!Section)
  PROVE  /\ LinesOf(sections) \in Seq(Line)
         /\ Len(LinesOf(sections)) = Len(sections)
         /\ DOMAIN LinesOf(sections) = DOMAIN sections
         /\ \A i \in DOMAIN sections :
              /\ LinesOf(sections)[i].mid = sections[i].mid
              /\ LinesOf(sections)[i].rejected = sections[i].closed
<1>1. Len(sections) \in Nat /\ DOMAIN sections = 1..Len(sections)
  OBVIOUS
<1>2. \A i \in DOMAIN sections : sections[i] \in Remote!Section
  OBVIOUS
<1>3. \A section \in Remote!Section :
        [mid |-> section.mid, rejected |-> section.closed] \in Line
  BY DEF Remote!Section, Line
<1>4. \A i \in 1..Len(sections) : [mid |-> sections[i].mid, rejected |-> sections[i].closed] \in Line
  BY <1>1, <1>2, <1>3
<1>5. LinesOf(sections) \in Seq(Line) /\ Len(LinesOf(sections)) = Len(sections)
  BY <1>1, <1>4 DEF LinesOf
<1> QED  BY <1>5 DEF LinesOf

\* Offer and Offer' are these lines.
LEMMA OfferIsLines == Offer = LinesOf(sdpMedia) /\ Offer' = LinesOf(sdpMedia')
BY DEF Offer, LinesOf

\* Each operation on a peer connection and what it leaves.
LEMMA PeerFacts ==
  ASSUME NEW p \in Peers, NEW offer \in Seq(Line), NEW id \in StreamIds
  PROVE  /\ LET q == Pc!SetRemoteOffer(p, offer)
            IN  q \in Peers /\ q.closed = p.closed /\ q.remote = offer
         /\ LET q == Pc!SetLocalAnswer(p)
            IN  /\ q \in Peers /\ q.closed = p.closed /\ q.remote = p.remote
                /\ q.local = p.remote /\ q.signaling = "stable"
         /\ LET q == Pc!Close(p)
            IN  /\ q \in Peers /\ q.closed /\ q.remote = p.remote /\ q.local = p.local
         /\ LET q == Pc!CreateDataChannel(p, id)
            IN  /\ q \in Peers /\ q.closed = p.closed /\ q.remote = p.remote
                /\ q.local = p.local /\ q.signaling = p.signaling
BY DEF Peers, Pc!SetRemoteOffer, Pc!SetLocalAnswer, Pc!Close, Pc!CreateDataChannel

\* An exact table repeats no mid, and publishes itself.
LEMMA ExactNext ==
  ASSUME Sdp!IInv'
  PROVE  /\ mediaSections' \in Seq(Remote!Section)
         /\ sdpMedia' = mediaSections'
         /\ \A i, j \in Sections' : mediaSections'[i].mid = mediaSections'[j].mid => i = j
<1>1. \A i \in DOMAIN mediaSections' : midToIndex'[mediaSections'[i].mid] = i
  BY DEF Sdp!IInv, Sdp!MidIndexExact
<1>2. mediaSections' \in Seq(Sdp!Section) /\ sdpMedia' = mediaSections'
  BY DEF Sdp!IInv, Sdp!TypeOK, Sdp!PublishedSdpIsCurrent
<1>3. Sdp!Section = Remote!Section
  BY DEF Sdp!Section, Remote!Section, Sdp!Setups, Remote!Setups
<1> QED  BY <1>1, <1>2, <1>3 DEF Sections

\* An offer is taken if every section that is not new stands where it stood.
LEMMA OfferFits ==
  ASSUME Sdp!IInv, Sdp!IInv', NEW p, ~p.closed, p.remote = Offer,
         Sections \subseteq Sections',
         \A i \in Sections : \/ mediaSections'[i].mid = mediaSections[i].mid
                             \/ mediaSections[i].closed
  PROVE  Pc!OfferFits(p, Offer')
<1>1. Remote!TypeOK /\ sdpMedia = mediaSections
  BY ExactFacts
<1>2. /\ mediaSections' \in Seq(Remote!Section) /\ sdpMedia' = mediaSections'
      /\ \A i, j \in Sections' : mediaSections'[i].mid = mediaSections'[j].mid => i = j
  BY ExactNext
<1>3. /\ mediaSections \in Seq(Remote!Section)
      /\ Len(mediaSections) \in Nat /\ Sections = 1..Len(mediaSections)
  BY <1>1, SectionsAreCounted DEF Remote!TypeOK
<1>4. Len(mediaSections') \in Nat /\ Sections' = 1..Len(mediaSections')
  BY <1>2 DEF Sections
<1>5. PICK old, new : old = Offer /\ new = Offer'
  OBVIOUS
<1>6. /\ Len(old) = Len(mediaSections) /\ DOMAIN old = Sections
      /\ \A i \in Sections : old[i].mid = mediaSections[i].mid
                             /\ old[i].rejected = mediaSections[i].closed
  BY <1>1, <1>3, <1>5, OfferIsLines, LinesFacts DEF Sections
<1>7. /\ Len(new) = Len(mediaSections') /\ DOMAIN new = Sections'
      /\ \A i \in Sections' : new[i].mid = mediaSections'[i].mid
  BY <1>2, <1>5, OfferIsLines, LinesFacts DEF Sections
<1>8. Len(old) <= Len(new)
  BY <1>3, <1>4, <1>6, <1>7
<1>9. Pc!UniqueMids(new)
  BY <1>2, <1>7 DEF Pc!UniqueMids
<1>10. \A i \in DOMAIN old : new[i].mid = old[i].mid \/ old[i].rejected
  BY <1>6, <1>7
<1>11. p.remote = old
  BY <1>5
<1>12. Pc!OfferFits(p, new)
  BY <1>8, <1>9, <1>10, <1>11 DEF Pc!OfferFits, Pc!Recyclable
<1> QED  BY <1>5, <1>12

\* An offer with one mid more is taken.
LEMMA AddedFits ==
  ASSUME Sdp!IInv, Sdp!IInv', NEW p, ~p.closed, p.remote = Offer, NEW mid, Added(mid)
  PROVE  Pc!OfferFits(p, Offer')
<1>1. PICK k \in Sections' :
        /\ k \in Sections => mediaSections[k].closed
        /\ \A i \in Sections' \ {k} : i \in Sections /\ mediaSections'[i] = mediaSections[i]
  BY DEF Added
<1>2. Sections \subseteq Sections'
  BY DEF Added
<1>3. \A i \in Sections : mediaSections'[i].mid = mediaSections[i].mid \/ mediaSections[i].closed
  BY <1>1, <1>2
<1> QED  BY <1>2, <1>3, OfferFits

\* A mid has a transceiver if a line that is not rejected has it.
LEMMA TransceiverFacts ==
  ASSUME NEW p, NEW sections \in Seq(Remote!Section), p.remote = LinesOf(sections),
         NEW mid, mid # DataMid
  PROVE  mid \in Pc!TransceiverMids(p)
           <=> \E i \in DOMAIN sections : sections[i].mid = mid /\ ~sections[i].closed
<1>1. /\ DOMAIN p.remote = DOMAIN sections
      /\ \A i \in DOMAIN sections :
           p.remote[i].mid = sections[i].mid /\ p.remote[i].rejected = sections[i].closed
  BY LinesFacts
<1> QED  BY <1>1 DEF Pc!TransceiverMids

\* A consumer whose section is not touched keeps its transceiver in the next
\* offer.
LEMMA UntouchedIsServed ==
  ASSUME ClosedAreInactive, mediaSections' \in Seq(Remote!Section), sdpMedia' = mediaSections',
         NEW mid, Served(mid), peer'.remote = peer.remote \/ peer'.remote = Offer',
         \A i \in Sections : mediaSections[i].mid = mid /\ ~mediaSections[i].closed =>
           i \in Sections' /\ mediaSections'[i] = mediaSections[i]
  PROVE  Served(mid)'
<1>1. PICK i \in Sections : mediaSections[i].mid = mid /\ mediaSections[i].direction = "open"
  BY DEF Served
<1>2. ~mediaSections[i].closed
  BY <1>1 DEF ClosedAreInactive
<1>3. /\ i \in Sections' /\ mediaSections'[i].mid = mid /\ mediaSections'[i].direction = "open"
      /\ ~mediaSections'[i].closed
  BY <1>1, <1>2
<1>4. mid # DataMid /\ mid \in Pc!TransceiverMids(peer)
  BY DEF Served, Pc!TransceiverMids
<1>5. mid \in Pc!TransceiverMids(peer')
  <2>1. CASE peer'.remote = peer.remote
    BY <2>1, <1>4 DEF Pc!TransceiverMids
  <2>2. CASE peer'.remote = Offer'
    <3>1. peer'.remote = LinesOf(mediaSections')
      BY <2>2, OfferIsLines
    <3> QED  BY <3>1, <1>3, <1>4, TransceiverFacts DEF Sections
  <2> QED  BY <2>1, <2>2
<1> QED  BY <1>3, <1>5 DEF Served

\* So do all consumers when a mid is added.
LEMMA AddedServes ==
  ASSUME ClosedAreInactive, Sdp!IInv', NEW mid, Added(mid), NEW m, Served(m),
         peer'.remote = peer.remote \/ peer'.remote = Offer'
  PROVE  Served(m)'
<1>1. mediaSections' \in Seq(Remote!Section) /\ sdpMedia' = mediaSections'
  BY ExactNext
<1>2. PICK k \in Sections' :
        /\ k \in Sections => mediaSections[k].closed
        /\ \A i \in Sections' \ {k} : i \in Sections /\ mediaSections'[i] = mediaSections[i]
  BY DEF Added
<1>3. \A i \in Sections : mediaSections[i].mid = m /\ ~mediaSections[i].closed =>
        i \in Sections' /\ mediaSections'[i] = mediaSections[i]
  BY <1>2 DEF Added
<1> QED  BY <1>1, <1>3, UntouchedIsServed

\* And so is the mid that was added.
LEMMA NewIsServed ==
  ASSUME Sdp!IInv', NEW mid, mid # DataMid, Added(mid), peer'.remote = Offer'
  PROVE  Served(mid)'
<1>1. mediaSections' \in Seq(Remote!Section) /\ sdpMedia' = mediaSections'
  BY ExactNext
<1>2. PICK k \in Sections' :
        /\ mediaSections'[k].mid = mid /\ mediaSections'[k].direction = "open"
        /\ ~mediaSections'[k].closed
  BY DEF Added
<1>3. peer'.remote = LinesOf(mediaSections')
  BY <1>1, OfferIsLines
<1>4. mid \in Pc!TransceiverMids(peer')
  BY <1>1, <1>2, <1>3, TransceiverFacts DEF Sections
<1> QED  BY <1>2, <1>4 DEF Served

\* Nothing moves when only transport parameters are rewritten.
LEMMA RewrittenKeeps ==
  ASSUME Arrays, Arrays', Rewritten
  PROVE  /\ Offer' = Offer
         /\ ClosedAreInactive => ClosedAreInactive'
         /\ peer'.remote = peer.remote => \A mid : Served(mid) => Served(mid)'
<1>1. Offer' = Offer
  BY DEF Offer, Arrays, Rewritten, Sections
<1>2. ClosedAreInactive => ClosedAreInactive'
  BY DEF ClosedAreInactive, Rewritten
<1>3. ASSUME peer'.remote = peer.remote, NEW mid, Served(mid) PROVE Served(mid)'
  <2>1. mid \in Pc!TransceiverMids(peer')
    BY <1>3 DEF Served, Pc!TransceiverMids
  <2> QED  BY <1>3, <2>1 DEF Served, Rewritten
<1> QED  BY <1>1, <1>2, <1>3

-----------------------------------------------------------------------------
(* The steps.                                                              *)

\* The initial state.
LEMMA Initial == Init => IInv
<1> SUFFICES ASSUME Init PROVE IInv
  OBVIOUS
<1>1. /\ mediaSections = <<>> /\ sdpMedia = <<>> /\ midToIndex = [m \in {} |-> 1]
      /\ dtlsRole \in Remote!DtlsRoles
  BY DEF Init, Remote!Init
<1>2. Sdp!IInv
  BY SameSdp, SdpAssumption, Sdp!InitIInv DEF Init
<1>3. /\ peer = [closed |-> FALSE, signaling |-> "stable", local |-> <<>>, remote |-> <<>>,
                 channels |-> {}]
      /\ transportReady = FALSE /\ mapMidTransceiver = {} /\ call = Idle /\ call.op = "none"
      /\ hasDataChannelMediaSection = FALSE /\ probatorConsumerCreated = FALSE
      /\ midless \in BOOLEAN /\ announcedRole = "" /\ repeated = FALSE /\ failed = FALSE
      /\ forcedLocalDtlsRole \in {"", "client", "server"}
  BY DEF Init, Pc!NewPeer, Idle, Opposite, Remote!DtlsRoles
<1>4. DOMAIN <<>> = {} /\ DOMAIN midToIndex = {}
  BY <1>1
<1>5. \A S : <<>> \in Seq(S)
  OBVIOUS
<1>6. peer \in Peers
  BY <1>3, <1>5 DEF Peers
<1>7. IsFiniteSet(mapMidTransceiver)
  BY <1>3, FS_EmptySet
<1>8. Remote!TypeOK
  BY <1>2, ExactFacts
<1>9. Typed
  BY <1>3, <1>6, <1>7, <1>8 DEF Typed
<1>10. Table
  BY <1>1, <1>3, <1>4 DEF Table, Arrays
<1>11. Exact
  BY <1>1, <1>2, <1>4 DEF Exact, ClosedAreInactive, Sections
<1>12. Offered
  <2>1. LinesOf(<<>>) \in Seq(Line) /\ Len(LinesOf(<<>>)) = 0
    BY <1>5, LinesFacts
  <2>2. Offer = <<>>
    BY <1>1, <2>1, OfferIsLines
  <2> QED  BY <1>3, <2>2 DEF Offered
<1>13. Answered
  BY <1>3 DEF Answered
<1>14. Consumers
  BY <1>3 DEF Consumers
<1>15. Numbered
  BY <1>3, <1>4 DEF Numbered
<1> QED  BY <1>9, <1>10, <1>11, <1>12, <1>13, <1>14, <1>15 DEF IInv

\* What a call that adds a section leaves of the types, repeated mid or not.
LEMMA ReceiveKeepsArrays ==
  ASSUME Remote!TypeOK, Arrays, NEW mid \in Mids, Remote!Receive(mid)
  PROVE  Remote!TypeOK' /\ Arrays' /\ mediaSections' # <<>>
<1>1. CASE Remote!ClosedSections # {}
  <2>1. Sections # {} /\ mediaSections # <<>>
    BY <1>1, SectionsAreCounted DEF Remote!ClosedSections, Sections
  <2>2. PICK reuseMid : reuseMid = mediaSections[Remote!FirstClosed].mid
    OBVIOUS
  <2>3. reuseMid \in Mids
    <3>1. Remote!ClosedSections \subseteq Nat
      BY SectionsAreCounted DEF Remote!ClosedSections, Sections
    <3>2. \E i \in Remote!ClosedSections : \A j \in Remote!ClosedSections : i <= j
      BY <1>1, <3>1, Sdp!LeastIndex, SdpAssumption
    <3>3. Remote!FirstClosed \in Remote!ClosedSections
      BY <3>2, Zenon DEF Remote!FirstClosed
    <3>4. mediaSections[Remote!FirstClosed] \in Remote!Section
      BY <3>3, SectionsAreCounted DEF Remote!ClosedSections, Sections
    <3> QED  BY <2>2, <3>4 DEF Remote!Section
  <2>4. Remote!ReplaceMediaSection(Remote!NewSection(mid), reuseMid)
    BY <1>1, <2>2 DEF Remote!Receive
  <2>5. UNCHANGED <<iceParameters, dtlsRole>>
    BY DEF Remote!Receive
  <2>6. Remote!TypeOK' /\ Arrays' /\ Sections' = Sections
    BY <2>1, <2>3, <2>4, <2>5, ReplaceKeepsArrays
  <2> QED  BY <2>1, <2>6 DEF Sections
<1>2. CASE Remote!ClosedSections = {}
  <2>1. /\ Remote!AddMediaSection(Remote!NewSection(mid))
        /\ UNCHANGED <<iceParameters, dtlsRole>>
    BY <1>2 DEF Remote!Receive
  <2>2. Remote!TypeOK' /\ Arrays' /\ Added(mid)
    BY <2>1, AddKeepsArrays
  <2>3. Sections' # {}
    BY <2>2 DEF Added
  <2> QED  BY <2>2, <2>3 DEF Sections
<1> QED  BY <1>1, <1>2

\* What is offered are lines, in any state.
LEMMA OfferType ==
  ASSUME Remote!TypeOK'
  PROVE  Offer' \in Seq(Line)
BY OfferIsLines, LinesFacts DEF Remote!TypeOK

\* Consume, up to its wait or its throw.
LEMMA Consumes ==
  ASSUME IInv, NEW mid \in IF midless THEN {NoMid} ELSE ServerMids, NEW video \in BOOLEAN,
         Consume(mid, video)
  PROVE  IInv'
<1>1. PICK m \in ServerMids : m = LocalId(mid)
  BY DEF Consume, Receive
<1>2. m \in Mids /\ m # DataMid /\ m # ProbatorMid /\ m \in Nat
  BY RecvHandlerAssumption DEF RecvHandlerAssumption, Mids
<1>3. /\ Typed /\ Table /\ Exact /\ Offered /\ Answered /\ Consumers /\ Numbered
  BY DEF IInv
<1>4. /\ call = Idle /\ call.op = "none" /\ ~peer.closed
      /\ Remote!Receive(m)
      /\ repeated' = (repeated \/ m \in DOMAIN midToIndex)
      /\ UNCHANGED <<forcedLocalDtlsRole, transportReady, mapMidTransceiver,
                     hasDataChannelMediaSection, probatorConsumerCreated,
                     midless, announcedRole, stopped, failed>>
  BY <1>1 DEF Consume, Receive, Repeats, handlerVars, Idle
<1>5. PICK c : c = [op |-> "receive", stage |-> NextStage, localId |-> m, video |-> video]
  OBVIOUS
<1>6. c \in ReceiveCalls /\ c.op = "receive" /\ c.localId = m
  BY <1>5 DEF ReceiveCalls, NextStage, Stages
<1>7. IF Pc!OfferFits(peer, Offer') THEN peer' = Pc!SetRemoteOffer(peer, Offer') /\ call' = c
                                    ELSE peer' = peer /\ call' = call
  BY <1>1, <1>5 DEF Consume, Receive, ApplyOffer
<1>8. Remote!TypeOK' /\ Arrays' /\ mediaSections' # <<>>
  BY <1>2, <1>3, <1>4, ReceiveKeepsArrays DEF Typed, Table
<1>9. Offer' \in Seq(Line)
  BY <1>8, OfferType
<1>10. PICK offer \in Seq(Line) : offer = Offer'
  BY <1>9
<1>11. LET q == Pc!SetRemoteOffer(peer, offer)
       IN  q \in Peers /\ q.closed = peer.closed /\ q.remote = offer
  BY <1>3 DEF Typed, Peers, Pc!SetRemoteOffer
<1>12. Typed'
  <2>1. peer' \in Peers
    BY <1>3, <1>7, <1>10, <1>11 DEF Typed
  <2>2. call' = Idle \/ call' \in ReceiveCalls
    BY <1>4, <1>6, <1>7
  <2>3. repeated' \in BOOLEAN
    BY <1>3, <1>4 DEF Typed
  <2> QED  BY <1>3, <1>4, <1>8, <2>1, <2>2, <2>3 DEF Typed
<1>13. Table'
  BY <1>8 DEF Table
<1>14. ASSUME ~repeated'
       PROVE  /\ Sdp!IInv' /\ ClosedAreInactive' /\ Added(m)
              /\ peer' = Pc!SetRemoteOffer(peer, offer) /\ peer'.remote = Offer'
              /\ call' = c /\ ClosedAreInactive
  <2>1. ~repeated /\ m \notin DOMAIN midToIndex
    BY <1>4, <1>14
  <2>2. Sdp!IInv /\ Arrays /\ ClosedAreInactive /\ peer.remote = Offer
    BY <1>3, <1>4, <2>1 DEF Exact, Table, Offered
  <2>3. Sdp!IInv' /\ ClosedAreInactive' /\ Added(m)
    BY <1>2, <1>4, <2>1, <2>2, ReceiveIsNext
  <2>4. Pc!OfferFits(peer, Offer')
    BY <1>4, <2>2, <2>3, AddedFits
  <2> QED  BY <1>7, <1>10, <1>11, <2>2, <2>3, <2>4
<1>15. Exact'
  BY <1>14 DEF Exact
<1>16. Offered'
  BY <1>14 DEF Offered
<1>17. Answered'
  <2>1. ~repeated' => call'.op = "receive"
    BY <1>6, <1>14
  <2> QED  BY <2>1 DEF Answered
<1>18. Consumers'
  <2> SUFFICES ASSUME ~repeated'
               PROVE  /\ \A k \in mapMidTransceiver' \ stopped' : Served(k)'
                      /\ Served(call.localId)'
    BY DEF Consumers
  <2>1. ~repeated
    BY <1>4
  <2>2. \A k \in mapMidTransceiver \ stopped : Served(k)
    BY <1>3, <2>1 DEF Consumers
  <2>3. \A k \in mapMidTransceiver \ stopped : Served(k)'
    BY <1>14, <2>2, AddedServes
  <2>4. Served(m)'
    BY <1>2, <1>14, NewIsServed
  <2>5. call'.localId = m
    BY <1>6, <1>14
  <2>6. Served(call.localId)' <=> Served(m)'
    BY <2>5 DEF Served
  <2>7. mapMidTransceiver' \ stopped' = mapMidTransceiver \ stopped
    BY <1>4
  <2> QED  BY <2>3, <2>4, <2>6, <2>7
<1>19. Numbered'
  <2> SUFFICES ASSUME midless, ~failed PROVE Numbered'
    BY <1>4 DEF Numbered
  <2>1. PICK n : n = Cardinality(mapMidTransceiver)
    OBVIOUS
  <2>2. m = n
    BY <1>1, <2>1 DEF LocalId
  <2>3. /\ ~repeated
        /\ \A k \in mapMidTransceiver \ {ProbatorMid} : k < n
        /\ \A k \in DOMAIN midToIndex \ {DataMid, ProbatorMid} : k < n
        /\ DataMid \in DOMAIN midToIndex => hasDataChannelMediaSection
        /\ ProbatorMid \in DOMAIN midToIndex => probatorConsumerCreated
    BY <1>3, <1>4, <2>1 DEF Numbered
  <2>4. m \notin DOMAIN midToIndex
    BY <1>2, <2>2, <2>3
  <2>5. ~repeated'
    BY <1>4, <2>3, <2>4
  <2>6. /\ call'.op = "receive" /\ call'.localId = n
        /\ DOMAIN midToIndex' \subseteq DOMAIN midToIndex \cup {m}
    BY <1>6, <1>14, <2>2, <2>5 DEF Added
  <2>7. Cardinality(mapMidTransceiver)' = n
    BY <1>4, <2>1
  <2>8. \A k \in DOMAIN midToIndex' \ {DataMid, ProbatorMid} : k < n \/ k = call'.localId
    BY <2>2, <2>3, <2>6
  <2>9. /\ DataMid \in DOMAIN midToIndex' => hasDataChannelMediaSection'
        /\ ProbatorMid \in DOMAIN midToIndex' => probatorConsumerCreated'
    BY <1>2, <1>4, <2>3, <2>6
  <2>10. \A k \in mapMidTransceiver' \ {ProbatorMid} : k < n
    BY <1>4, <2>3
  <2> QED  BY <2>5, <2>6, <2>7, <2>8, <2>9, <2>10 DEF Numbered
<1> QED  BY <1>12, <1>13, <1>15, <1>16, <1>17, <1>18, <1>19 DEF IInv

\* A step that leaves RemoteSdp and the offer alone.
LEMMA TableKept ==
  ASSUME IInv, UNCHANGED <<remoteVars, repeated>>,
         peer'.remote = peer.remote, peer.closed => peer'.closed, peer'.closed \in BOOLEAN
  PROVE  /\ Remote!TypeOK' /\ Table' /\ Exact' /\ Offered'
         /\ \A mid : Served(mid) => Served(mid)'
<1>1. /\ UNCHANGED <<mediaSections, midToIndex, firstMid, sdpMedia, bundleMids, iceParameters,
                     dtlsRole>>
      /\ repeated' = repeated
  BY DEF remoteVars
<1>2. Typed /\ Table /\ Exact /\ Offered
  BY DEF IInv
<1>3. Remote!TypeOK'
  BY <1>1, <1>2 DEF Typed, Remote!TypeOK
<1>4. Table'
  BY <1>1, <1>2 DEF Table, Arrays, Sections
<1>5. Exact'
  <2> SUFFICES ASSUME ~repeated PROVE Sdp!IInv' /\ ClosedAreInactive'
    BY <1>1 DEF Exact
  <2>1. UNCHANGED Sdp!vars
    BY <1>1 DEF Sdp!vars, Sdp!sectionVars
  <2>2. Sdp!IInv'
    BY <1>2, <2>1, SdpAssumption, Sdp!NextIInv DEF Exact
  <2> QED  BY <1>1, <1>2, <2>2 DEF Exact, ClosedAreInactive, Sections
<1>6. Offer' = Offer
  BY <1>1 DEF Offer
<1>7. peer.closed \in BOOLEAN
  BY <1>2 DEF Typed, Peers
<1>8. Offered'
  BY <1>1, <1>2, <1>6, <1>7 DEF Offered
<1>9. ASSUME NEW mid, Served(mid) PROVE Served(mid)'
  BY <1>1, <1>9 DEF Served, Pc!TransceiverMids, Sections
<1> QED  BY <1>3, <1>4, <1>5, <1>8, <1>9

\* The locals of a call that waits, and that it goes on with the same mid.
LEMMA CallFacts ==
  ASSUME Typed
  PROVE  /\ call.op \in {"none", "receive", "data", "probator"}
         /\ call.op = "receive" => call \in ReceiveCalls
         /\ call.op = "data" => call \in DataCalls
         /\ call.op = "none" => call = Idle
         /\ call.op = "probator" => call = Probation
<1>1. call = Idle \/ call \in ReceiveCalls \/ call \in DataCalls \/ call = Probation
  BY DEF Typed
<1> QED  BY <1>1 DEF Idle, ReceiveCalls, DataCalls, Probation

\* A call goes to its next stage.
LEMMA NextStageType ==
  ASSUME Typed, call.op \in {"receive", "data"}, NEW stage \in Stages,
         call' = [call EXCEPT !.stage = stage]
  PROVE  /\ call' \in ReceiveCalls \/ call' \in DataCalls
         /\ call'.op = call.op
         /\ call.op = "receive" => call'.localId = call.localId
<1>1. CASE call.op = "receive"
  BY <1>1, CallFacts DEF ReceiveCalls
<1>2. CASE call.op = "data"
  BY <1>2, CallFacts DEF DataCalls
<1> QED  BY <1>1, <1>2

\* SetupTransport, up to the wait: only setup attributes are rewritten.
LEMMA SetsUp ==
  ASSUME IInv, SetupTransport
  PROVE  IInv'
<1>1. /\ Typed /\ Table /\ Exact /\ Offered /\ Answered /\ Consumers /\ Numbered
  BY DEF IInv
<1>2. PICK role \in {"client", "server"} : role = Opposite(LocalDtlsRole)
  BY DEF Opposite
<1>3. /\ call.op \in {"receive", "data"} /\ Remote!UpdateDtlsRole(role)
      /\ announcedRole' = LocalDtlsRole
      /\ call' = [call EXCEPT !.stage = "connect"]
      /\ UNCHANGED <<peer, forcedLocalDtlsRole, transportReady, mapMidTransceiver,
                     hasDataChannelMediaSection, probatorConsumerCreated,
                     midless, stopped, repeated, failed>>
  BY <1>2 DEF SetupTransport, handlerVars
<1>4. /\ call' \in ReceiveCalls \/ call' \in DataCalls
      /\ call'.op = call.op
      /\ call.op = "receive" => call'.localId = call.localId
  BY <1>1, <1>3, NextStageType DEF Stages
<1>5. Remote!TypeOK' /\ Arrays' /\ Rewritten
  BY <1>1, <1>3, DtlsKeepsArrays DEF Typed, Table
<1>6. /\ Offer' = Offer
      /\ ClosedAreInactive => ClosedAreInactive'
      /\ \A mid : Served(mid) => Served(mid)'
  BY <1>1, <1>3, <1>5, RewrittenKeeps DEF Table
<1>7. announcedRole' \in {"", "client", "server"}
  BY <1>1, <1>3 DEF LocalDtlsRole, Typed
<1>8. Typed'
  BY <1>1, <1>3, <1>4, <1>5, <1>7 DEF Typed
<1>9. Table'
  BY <1>1, <1>3, <1>5 DEF Table, Rewritten, Sections
<1>10. Exact'
  <2> SUFFICES ASSUME ~repeated PROVE Sdp!IInv' /\ ClosedAreInactive'
    BY <1>3 DEF Exact
  <2>1. Remote!Next
    BY <1>3 DEF Remote!Next, Remote!SetupTransport
  <2> QED  BY <1>1, <1>6, <2>1, NextKeepsExact DEF Exact
<1>11. Offered'
  BY <1>1, <1>3, <1>6 DEF Offered
<1>12. Answered'
  BY <1>3, <1>4 DEF Answered
<1>13. Consumers'
  <2> SUFFICES ASSUME ~repeated
               PROVE  /\ \A mid \in mapMidTransceiver' \ stopped' : Served(mid)'
                      /\ call'.op = "receive" => Served(call.localId)'
    BY <1>3 DEF Consumers
  <2>1. \A mid \in mapMidTransceiver' \ stopped' : Served(mid)'
    BY <1>1, <1>3, <1>6 DEF Consumers
  <2>2. ASSUME call'.op = "receive" PROVE Served(call.localId)'
    <3>1. call.op = "receive" /\ call'.localId = call.localId
      BY <2>2, <1>4
    <3>2. PICK mid : mid = call.localId
      OBVIOUS
    <3>3. Served(mid)
      BY <1>1, <3>1, <3>2 DEF Consumers
    <3>4. Served(mid)' <=> Served(call.localId)'
      BY <3>1, <3>2 DEF Served
    <3> QED  BY <1>6, <3>3, <3>4
  <2> QED  BY <2>1, <2>2
<1>14. Numbered'
  <2> SUFFICES ASSUME midless, ~failed PROVE Numbered'
    BY <1>3 DEF Numbered
  <2>1. midToIndex' = midToIndex
    BY <1>5 DEF Rewritten
  <2>2. call.op # "none" /\ call # Idle
    BY <1>3 DEF Idle
  <2>3. call'.op # "probator"
    BY <1>3, <1>4
  <2> QED  BY <1>1, <1>3, <1>4, <2>1, <2>2, <2>3 DEF Numbered
<1> QED  BY <1>8, <1>9, <1>10, <1>11, <1>12, <1>13, <1>14 DEF IInv

\* The application accepts the DTLS parameters.
LEMMA Connects ==
  ASSUME IInv, OnConnectResolves
  PROVE  IInv'
<1>1. /\ Typed /\ Table /\ Exact /\ Offered /\ Answered /\ Consumers /\ Numbered
  BY DEF IInv
<1>2. /\ call.op \in {"receive", "data"} /\ transportReady' = TRUE
      /\ call' = [call EXCEPT !.stage = "answer"]
      /\ UNCHANGED <<peer, remoteVars, forcedLocalDtlsRole, mapMidTransceiver,
                     hasDataChannelMediaSection, probatorConsumerCreated,
                     midless, announcedRole, stopped, repeated, failed>>
  BY DEF OnConnectResolves, history
<1>3. /\ call' \in ReceiveCalls \/ call' \in DataCalls
      /\ call'.op = call.op
      /\ call.op = "receive" => call'.localId = call.localId
  BY <1>1, <1>2, NextStageType DEF Stages
<1>4. /\ Remote!TypeOK' /\ Table' /\ Exact' /\ Offered'
      /\ \A mid : Served(mid) => Served(mid)'
  BY <1>1, <1>2, TableKept DEF Typed, Peers
<1>5. Typed'
  BY <1>1, <1>2, <1>3, <1>4 DEF Typed
<1>6. Answered'
  BY <1>2, <1>3 DEF Answered
<1>7. Consumers'
  <2> SUFFICES ASSUME ~repeated
               PROVE  /\ \A mid \in mapMidTransceiver' \ stopped' : Served(mid)'
                      /\ call'.op = "receive" => Served(call.localId)'
    BY <1>2 DEF Consumers
  <2>1. \A mid \in mapMidTransceiver' \ stopped' : Served(mid)'
    BY <1>1, <1>2, <1>4 DEF Consumers
  <2>2. ASSUME call'.op = "receive" PROVE Served(call.localId)'
    <3>1. call.op = "receive" /\ call'.localId = call.localId
      BY <2>2, <1>3
    <3>2. PICK mid : mid = call.localId
      OBVIOUS
    <3>3. Served(mid)
      BY <1>1, <3>1, <3>2 DEF Consumers
    <3>4. Served(mid)' <=> Served(call.localId)'
      BY <3>1, <3>2 DEF Served
    <3> QED  BY <1>4, <3>3, <3>4
  <2> QED  BY <2>1, <2>2
<1>8. Numbered'
  <2> SUFFICES ASSUME midless, ~failed PROVE Numbered'
    BY <1>2 DEF Numbered
  <2>1. midToIndex' = midToIndex
    BY <1>2 DEF remoteVars
  <2>2. call.op # "none" /\ call # Idle
    BY <1>2 DEF Idle
  <2>3. call'.op # "probator"
    BY <1>2, <1>3
  <2> QED  BY <1>1, <1>2, <1>3, <2>1, <2>2, <2>3 DEF Numbered
<1> QED  BY <1>4, <1>5, <1>6, <1>7, <1>8 DEF IInv

\* A call that throws leaves an offer that nobody has answered.
LEMMA Throws ==
  ASSUME IInv, Throw
  PROVE  IInv'
<1>1. /\ Typed /\ Table /\ Exact /\ Offered /\ Answered /\ Consumers /\ Numbered
  BY DEF IInv
<1>2. /\ call' = Idle /\ call'.op = "none" /\ failed' = TRUE
      /\ UNCHANGED <<peer, remoteVars, forcedLocalDtlsRole, transportReady, mapMidTransceiver,
                     hasDataChannelMediaSection, probatorConsumerCreated,
                     midless, announcedRole, stopped, repeated>>
  BY DEF Throw, handlerVars, Idle
<1>3. /\ Remote!TypeOK' /\ Table' /\ Exact' /\ Offered'
      /\ \A mid : Served(mid) => Served(mid)'
  BY <1>1, <1>2, TableKept DEF Typed, Peers
<1>4. Typed'
  BY <1>1, <1>2, <1>3 DEF Typed
<1>5. Answered' /\ Numbered'
  BY <1>2 DEF Answered, Numbered
<1>6. Consumers'
  BY <1>1, <1>2, <1>3 DEF Consumers
<1> QED  BY <1>3, <1>4, <1>5, <1>6 DEF IInv

\* Close changes nothing but the peer connection.
LEMMA Closes ==
  ASSUME IInv, Close
  PROVE  IInv'
<1>1. /\ Typed /\ Table /\ Exact /\ Offered /\ Answered /\ Consumers /\ Numbered
  BY DEF IInv
<1>2. /\ ~peer.closed /\ peer' = Pc!Close(peer)
      /\ UNCHANGED <<call, remoteVars, forcedLocalDtlsRole, transportReady, mapMidTransceiver,
                     hasDataChannelMediaSection, probatorConsumerCreated,
                     midless, announcedRole, stopped, repeated, failed>>
  BY DEF Close, handlerVars, history
<1>3. peer' \in Peers /\ peer'.closed = TRUE /\ peer'.remote = peer.remote
  BY <1>1, <1>2 DEF Typed, Peers, Pc!Close
<1>4. /\ Remote!TypeOK' /\ Table' /\ Exact' /\ Offered'
      /\ \A mid : Served(mid) => Served(mid)'
  BY <1>1, <1>2, <1>3, TableKept
<1>5. Typed'
  BY <1>1, <1>2, <1>3, <1>4 DEF Typed
<1>6. Answered'
  BY <1>3 DEF Answered
<1>7. Consumers'
  <2>1. call.op = "receive" => (Served(call.localId)' <=> \A mid : mid = call.localId => Served(mid)')
    BY <1>2 DEF Served
  <2> QED  BY <1>1, <1>2, <1>4, <2>1 DEF Consumers
<1>8. Numbered'
  <2>1. midToIndex' = midToIndex
    BY <1>2 DEF remoteVars
  <2> QED  BY <1>1, <1>2, <1>3, <2>1 DEF Numbered
<1> QED  BY <1>4, <1>5, <1>6, <1>7, <1>8 DEF IInv

\* The offer is answered, and the new consumer is one of them.
LEMMA Answers ==
  ASSUME IInv, ReceiveAnswers
  PROVE  IInv'
<1>1. /\ Typed /\ Table /\ Exact /\ Offered /\ Answered /\ Consumers /\ Numbered
  BY DEF IInv
<1>2. PICK m : m = call.localId
  OBVIOUS
<1>3. /\ call.op = "receive" /\ ~peer.closed
      /\ peer' = Pc!SetLocalAnswer(peer)
      /\ mapMidTransceiver' = mapMidTransceiver \cup {m}
      /\ call' = IF call.video /\ ~probatorConsumerCreated THEN Probation ELSE Idle
      /\ UNCHANGED <<remoteVars, forcedLocalDtlsRole, transportReady,
                     hasDataChannelMediaSection, probatorConsumerCreated,
                     midless, announcedRole, stopped, repeated, failed>>
  BY <1>2 DEF ReceiveAnswers, history, Probation
<1>4. m \in ServerMids /\ m \in Nat /\ m # ProbatorMid
  BY <1>1, <1>2, <1>3, CallFacts, RecvHandlerAssumption DEF ReceiveCalls, RecvHandlerAssumption
<1>5. /\ peer' \in Peers /\ peer'.closed = peer.closed /\ peer'.remote = peer.remote
      /\ peer'.local = peer.remote /\ peer'.signaling = "stable"
  BY <1>1, <1>3 DEF Typed, Peers, Pc!SetLocalAnswer
<1>6. call' = Idle \/ (call' = Probation /\ ~probatorConsumerCreated)
  BY <1>3
<1>7. /\ call'.op # "receive" /\ call'.op # "data"
      /\ call'.op = "probator" => ~probatorConsumerCreated
  BY <1>6 DEF Idle, Probation
<1>8. /\ Remote!TypeOK' /\ Table' /\ Exact' /\ Offered'
      /\ \A mid : Served(mid) => Served(mid)'
  BY <1>1, <1>3, <1>5, TableKept DEF Typed, Peers
<1>9. Typed'
  <2>1. IsFiniteSet(mapMidTransceiver')
    BY <1>1, <1>3, FS_AddElement DEF Typed
  <2>2. mapMidTransceiver' \subseteq ServerMids \cup {ProbatorMid}
    BY <1>1, <1>3, <1>4 DEF Typed
  <2> QED  BY <1>1, <1>3, <1>5, <1>6, <1>8, <2>1, <2>2 DEF Typed
<1>10. Answered'
  BY <1>5 DEF Answered
<1>11. Consumers'
  <2> SUFFICES ASSUME ~repeated, NEW mid \in mapMidTransceiver' \ stopped' PROVE Served(mid)'
    BY <1>3, <1>7 DEF Consumers
  <2>1. Served(mid)
    <3>1. CASE mid = m
      BY <3>1, <1>1, <1>2, <1>3 DEF Consumers
    <3>2. CASE mid # m
      BY <3>2, <1>1, <1>3 DEF Consumers
    <3> QED  BY <3>1, <3>2
  <2> QED  BY <2>1, <1>8
<1>12. Numbered'
  <2> SUFFICES ASSUME midless, ~failed PROVE Numbered'
    BY <1>3 DEF Numbered
  <2>1. PICK n : n = Cardinality(mapMidTransceiver)
    OBVIOUS
  <2>2. /\ ~repeated /\ m = n
        /\ \A k \in mapMidTransceiver \ {ProbatorMid} : k < n
        /\ \A k \in DOMAIN midToIndex \ {DataMid, ProbatorMid} : k < n \/ k = m
        /\ DataMid \in DOMAIN midToIndex => hasDataChannelMediaSection
        /\ ProbatorMid \in DOMAIN midToIndex => probatorConsumerCreated
    BY <1>1, <1>2, <1>3, <2>1 DEF Numbered
  <2>3. m \notin mapMidTransceiver
    BY <1>4, <2>2
  <2>4. Cardinality(mapMidTransceiver') = n + 1 /\ n \in Nat
    BY <1>1, <1>3, <2>1, <2>3, FS_AddElement, FS_CardinalityType DEF Typed
  <2>5. /\ mapMidTransceiver \ {ProbatorMid} \subseteq Nat
        /\ DOMAIN midToIndex \ {DataMid, ProbatorMid} \subseteq Nat
    BY <1>1, RecvHandlerAssumption DEF Typed, RecvHandlerAssumption, Remote!TypeOK, Mids
  <2>6. \A k \in mapMidTransceiver' \ {ProbatorMid} : k < n + 1
    BY <1>3, <2>2, <2>4, <2>5
  <2>7. \A k \in DOMAIN midToIndex \ {DataMid, ProbatorMid} : k < n + 1
    BY <2>2, <2>4, <2>5
  <2>8. midToIndex' = midToIndex
    BY <1>3 DEF remoteVars
  <2>9. /\ \A k \in DOMAIN midToIndex' \ {DataMid, ProbatorMid} : k < Cardinality(mapMidTransceiver')
        /\ \A k \in mapMidTransceiver' \ {ProbatorMid} : k < Cardinality(mapMidTransceiver')
    BY <2>4, <2>6, <2>7, <2>8
  <2>10. /\ DataMid \in DOMAIN midToIndex' => hasDataChannelMediaSection'
         /\ ProbatorMid \in DOMAIN midToIndex' => probatorConsumerCreated'
         /\ ~repeated'
         /\ call'.op = "probator" => ~probatorConsumerCreated'
    BY <1>3, <1>7, <2>2, <2>8
  <2> QED  BY <1>7, <2>9, <2>10 DEF Numbered
<1> QED  BY <1>8, <1>9, <1>10, <1>11, <1>12 DEF IInv

\* The data section is answered.
LEMMA AnswersData ==
  ASSUME IInv, DataAnswers
  PROVE  IInv'
<1>1. /\ Typed /\ Table /\ Exact /\ Offered /\ Answered /\ Consumers /\ Numbered
  BY DEF IInv
<1>2. /\ call.op = "data" /\ ~peer.closed
      /\ peer' = Pc!SetLocalAnswer(peer)
      /\ hasDataChannelMediaSection' = TRUE
      /\ call' = Idle /\ call'.op = "none"
      /\ UNCHANGED <<remoteVars, forcedLocalDtlsRole, transportReady, mapMidTransceiver,
                     probatorConsumerCreated,
                     midless, announcedRole, stopped, repeated, failed>>
  BY DEF DataAnswers, history, Idle
<1>3. /\ peer' \in Peers /\ peer'.closed = peer.closed /\ peer'.remote = peer.remote
      /\ peer'.local = peer.remote /\ peer'.signaling = "stable"
  BY <1>1, <1>2 DEF Typed, Peers, Pc!SetLocalAnswer
<1>4. /\ Remote!TypeOK' /\ Table' /\ Exact' /\ Offered'
      /\ \A mid : Served(mid) => Served(mid)'
  BY <1>1, <1>2, <1>3, TableKept DEF Typed, Peers
<1>5. Typed'
  BY <1>1, <1>2, <1>3, <1>4 DEF Typed
<1>6. Answered'
  BY <1>3 DEF Answered
<1>7. Consumers'
  BY <1>1, <1>2, <1>4 DEF Consumers
<1>8. Numbered'
  <2>1. midToIndex' = midToIndex
    BY <1>2 DEF remoteVars
  <2>2. call # Idle
    BY <1>2 DEF Idle
  <2> QED  BY <1>1, <1>2, <2>1, <2>2 DEF Numbered
<1> QED  BY <1>4, <1>5, <1>6, <1>7, <1>8 DEF IInv

\* The consumer for probation is added, unless the transport was closed.
LEMMA Probes ==
  ASSUME IInv, ReceiveProbator
  PROVE  IInv'
<1>1. /\ Typed /\ Table /\ Exact /\ Offered /\ Answered /\ Consumers /\ Numbered
  BY DEF IInv
<1>2. ProbatorMid \in Mids /\ ProbatorMid # DataMid
  BY RecvHandlerAssumption DEF RecvHandlerAssumption, Mids
<1>3. /\ call.op = "probator" /\ Remote!Receive(ProbatorMid)
      /\ repeated' = (repeated \/ ProbatorMid \in DOMAIN midToIndex)
      /\ call' = Idle /\ call'.op = "none"
      /\ UNCHANGED <<forcedLocalDtlsRole, transportReady, hasDataChannelMediaSection,
                     midless, announcedRole, stopped, failed>>
  BY DEF ReceiveProbator, Repeats, Idle
<1>4. Remote!TypeOK' /\ Arrays' /\ mediaSections' # <<>>
  BY <1>1, <1>2, <1>3, ReceiveKeepsArrays DEF Typed, Table
<1>5. PICK offer \in Seq(Line) : offer = Offer'
  BY <1>4, OfferType
<1>6. PICK q : q = Pc!SetLocalAnswer(Pc!SetRemoteOffer(peer, offer))
  OBVIOUS
<1>7. /\ q \in Peers /\ q.closed = peer.closed /\ q.remote = offer /\ q.local = offer
      /\ q.signaling = "stable"
  BY <1>1, <1>6 DEF Typed, Peers, Pc!SetRemoteOffer, Pc!SetLocalAnswer
<1>8. CASE Pc!OfferFits(peer, Offer')
  <2>1. /\ peer' = q /\ mapMidTransceiver' = mapMidTransceiver \cup {ProbatorMid}
        /\ probatorConsumerCreated' = TRUE
    BY <1>5, <1>6, <1>8 DEF ReceiveProbator
  <2>2. ~peer.closed
    BY <1>8 DEF Pc!OfferFits
  <2>3. IsFiniteSet(mapMidTransceiver')
    BY <1>1, <2>1, FS_AddElement DEF Typed
  <2>4. Typed'
    BY <1>1, <1>3, <1>4, <1>7, <2>1, <2>3 DEF Typed
  <2>5. Table' /\ Answered' /\ Offered'
    BY <1>4, <1>5, <1>7, <2>1 DEF Table, Answered, Offered
  <2>6. ASSUME ~repeated'
        PROVE  /\ Sdp!IInv' /\ ClosedAreInactive' /\ Added(ProbatorMid)
               /\ \A mid : Served(mid) => Served(mid)'
               /\ Served(ProbatorMid)'
    <3>1. ~repeated /\ ProbatorMid \notin DOMAIN midToIndex
      BY <1>3, <2>6
    <3>2. Sdp!IInv /\ Arrays /\ ClosedAreInactive
      BY <1>1, <3>1 DEF Exact, Table
    <3>3. Sdp!IInv' /\ ClosedAreInactive' /\ Added(ProbatorMid)
      BY <1>2, <1>3, <3>1, <3>2, ReceiveIsNext
    <3>4. peer'.remote = Offer'
      BY <1>5, <1>7, <2>1
    <3>5. \A mid : Served(mid) => Served(mid)'
      BY <3>2, <3>3, <3>4, AddedServes
    <3>6. Served(ProbatorMid)'
      BY <1>2, <3>3, <3>4, NewIsServed
    <3> QED  BY <3>3, <3>5, <3>6
  <2>7. Exact'
    BY <2>6 DEF Exact
  <2>8. Consumers'
    <3> SUFFICES ASSUME ~repeated', NEW mid \in mapMidTransceiver' \ stopped' PROVE Served(mid)'
      BY <1>3 DEF Consumers
    <3>1. CASE mid = ProbatorMid
      BY <3>1, <2>6
    <3>2. CASE mid # ProbatorMid
      BY <3>2, <1>1, <1>3, <2>1, <2>6 DEF Consumers
    <3> QED  BY <3>1, <3>2
  <2>9. Numbered'
    <3> SUFFICES ASSUME midless, ~failed PROVE Numbered'
      BY <1>3 DEF Numbered
    <3>1. PICK n, n2 : n = Cardinality(mapMidTransceiver) /\ n2 = Cardinality(mapMidTransceiver')
      OBVIOUS
    <3>2. /\ ~repeated /\ ~probatorConsumerCreated
          /\ \A k \in mapMidTransceiver \ {ProbatorMid} : k < n
          /\ \A k \in DOMAIN midToIndex \ {DataMid, ProbatorMid} : k < n
          /\ DataMid \in DOMAIN midToIndex => hasDataChannelMediaSection
          /\ ProbatorMid \notin DOMAIN midToIndex
      BY <1>1, <1>3, <2>2, <3>1 DEF Numbered
    <3>3. ~repeated'
      BY <1>3, <3>2
    <3>4. n \in Nat /\ n2 \in Nat /\ n <= n2
      <4>1. IsFiniteSet(mapMidTransceiver)
        BY <1>1 DEF Typed
      <4>2. n \in Nat
        BY <3>1, <4>1, FS_CardinalityType
      <4>3. n2 = n \/ n2 = n + 1
        BY <2>1, <3>1, <4>1, FS_AddElement
      <4> QED  BY <4>2, <4>3
    <3>5. /\ mapMidTransceiver \ {ProbatorMid} \subseteq Nat
          /\ DOMAIN midToIndex \ {DataMid, ProbatorMid} \subseteq Nat
      BY <1>1, RecvHandlerAssumption DEF Typed, RecvHandlerAssumption, Remote!TypeOK, Mids
    <3>6. DOMAIN midToIndex' \subseteq DOMAIN midToIndex \cup {ProbatorMid}
      BY <2>6, <3>3 DEF Added
    <3>7. \A k \in mapMidTransceiver' \ {ProbatorMid} : k < n2
      BY <2>1, <3>2, <3>4, <3>5
    <3>8. \A k \in DOMAIN midToIndex' \ {DataMid, ProbatorMid} : k < n2
      BY <3>2, <3>4, <3>5, <3>6
    <3>9. DataMid \in DOMAIN midToIndex' => hasDataChannelMediaSection'
      BY <1>2, <1>3, <3>2, <3>6
    <3> QED  BY <1>3, <2>1, <3>1, <3>3, <3>7, <3>8, <3>9 DEF Numbered
  <2> QED  BY <2>4, <2>5, <2>7, <2>8, <2>9 DEF IInv
<1>9. CASE ~Pc!OfferFits(peer, Offer')
  <2>1. /\ peer' = peer /\ mapMidTransceiver' = mapMidTransceiver
        /\ probatorConsumerCreated' = probatorConsumerCreated
    BY <1>9 DEF ReceiveProbator
  <2>2. Typed'
    BY <1>1, <1>3, <1>4, <2>1 DEF Typed
  <2>3. Table'
    BY <1>4 DEF Table
  <2>4. ASSUME ~repeated'
        PROVE  /\ Sdp!IInv' /\ ClosedAreInactive' /\ Added(ProbatorMid)
               /\ \A mid : Served(mid) => Served(mid)'
               /\ peer.closed
    <3>1. ~repeated /\ ProbatorMid \notin DOMAIN midToIndex
      BY <1>3, <2>4
    <3>2. Sdp!IInv /\ Arrays /\ ClosedAreInactive
      BY <1>1, <3>1 DEF Exact, Table
    <3>3. Sdp!IInv' /\ ClosedAreInactive' /\ Added(ProbatorMid)
      BY <1>2, <1>3, <3>1, <3>2, ReceiveIsNext
    <3>4. \A mid : Served(mid) => Served(mid)'
      BY <2>1, <3>2, <3>3, AddedServes
    <3>5. peer.closed
      BY <1>1, <1>9, <3>1, <3>2, <3>3, AddedFits DEF Offered
    <3> QED  BY <3>3, <3>4, <3>5
  <2>5. Exact' /\ Offered' /\ Answered'
    BY <2>1, <2>4 DEF Exact, Offered, Answered
  <2>6. Consumers'
    BY <1>1, <1>3, <2>1, <2>4 DEF Consumers
  <2>7. Numbered'
    <3> SUFFICES ASSUME midless, ~failed PROVE Numbered'
      BY <1>3 DEF Numbered
    <3>1. PICK n : n = Cardinality(mapMidTransceiver)
      OBVIOUS
    <3>2. call # Idle
      BY <1>3 DEF Idle
    <3>3. /\ ~repeated /\ ~probatorConsumerCreated
          /\ \A k \in mapMidTransceiver \ {ProbatorMid} : k < n
          /\ \A k \in DOMAIN midToIndex \ {DataMid, ProbatorMid} : k < n
          /\ DataMid \in DOMAIN midToIndex => hasDataChannelMediaSection
          /\ ProbatorMid \notin DOMAIN midToIndex
      BY <1>1, <1>3, <3>1, <3>2 DEF Numbered
    <3>4. ~repeated'
      BY <1>3, <3>3
    <3>5. peer.closed /\ DOMAIN midToIndex' \subseteq DOMAIN midToIndex \cup {ProbatorMid}
      BY <2>4, <3>4 DEF Added
    <3>6. \A k \in DOMAIN midToIndex' \ {DataMid, ProbatorMid} : k < n
      BY <3>3, <3>5
    <3>7. DataMid \in DOMAIN midToIndex' => hasDataChannelMediaSection'
      BY <1>2, <1>3, <3>3, <3>5
    <3> QED  BY <1>3, <2>1, <3>1, <3>3, <3>4, <3>5, <3>6, <3>7 DEF Numbered
  <2> QED  BY <2>2, <2>3, <2>5, <2>6, <2>7 DEF IInv
<1> QED  BY <1>8, <1>9

\* ConsumeData, up to its wait, its throw, or its end if there is a data
\* section.
LEMMA ConsumesData ==
  ASSUME IInv, NEW id \in StreamIds, ConsumeData(id)
  PROVE  IInv'
<1>1. /\ Typed /\ Table /\ Exact /\ Offered /\ Answered /\ Consumers /\ Numbered
  BY DEF IInv
<1>2. PICK p : p = Pc!CreateDataChannel(peer, id)
  OBVIOUS
<1>3. /\ p \in Peers /\ p.closed = peer.closed /\ p.remote = peer.remote
      /\ p.local = peer.local /\ p.signaling = peer.signaling
  BY <1>1, <1>2 DEF Typed, Peers, Pc!CreateDataChannel
<1>4. /\ call = Idle /\ call.op = "none" /\ ~peer.closed
      /\ UNCHANGED <<forcedLocalDtlsRole, transportReady, mapMidTransceiver,
                     hasDataChannelMediaSection, probatorConsumerCreated,
                     midless, announcedRole, stopped, failed>>
  BY DEF ConsumeData, ReceiveDataChannel, Pc!CanCreateDataChannel, handlerVars, Idle
<1>5. CASE hasDataChannelMediaSection
  <2>1. peer' = p /\ UNCHANGED <<remoteVars, call, repeated>>
    BY <1>2, <1>5 DEF ConsumeData, ReceiveDataChannel
  <2>2. /\ Remote!TypeOK' /\ Table' /\ Exact' /\ Offered'
        /\ \A mid : Served(mid) => Served(mid)'
    BY <1>1, <1>3, <2>1, TableKept DEF Typed, Peers
  <2>3. Typed'
    BY <1>1, <1>3, <1>4, <2>1, <2>2 DEF Typed
  <2>4. Answered'
    BY <1>1, <1>3, <1>4, <2>1 DEF Answered
  <2>5. Consumers'
    BY <1>1, <1>4, <2>1, <2>2 DEF Consumers
  <2>6. Numbered'
    <3>1. midToIndex' = midToIndex
      BY <2>1 DEF remoteVars
    <3> QED  BY <1>1, <1>3, <1>4, <2>1, <3>1 DEF Numbered
  <2> QED  BY <2>2, <2>3, <2>4, <2>5, <2>6 DEF IInv
<1>6. CASE ~hasDataChannelMediaSection
  <2>1. PICK c : c = [op |-> "data", stage |-> NextStage]
    OBVIOUS
  <2>2. c \in DataCalls /\ c.op = "data"
    BY <2>1 DEF DataCalls, NextStage, Stages
  <2>3. /\ Remote!RecvSctpAssociation
        /\ repeated' = (repeated \/ DataMid \in DOMAIN midToIndex)
        /\ IF Pc!OfferFits(p, Offer') THEN peer' = Pc!SetRemoteOffer(p, Offer') /\ call' = c
                                      ELSE peer' = p /\ call' = call
    BY <1>2, <1>6, <2>1 DEF ConsumeData, ReceiveDataChannel, Repeats
  <2>4. DataMid \in Mids
    BY DEF Mids
  <2>5. Remote!TypeOK' /\ Arrays' /\ mediaSections' # <<>>
    <3>1. Remote!TypeOK' /\ Arrays' /\ Added(DataMid)
      BY <1>1, <2>3, <2>4, AddKeepsArrays DEF Remote!RecvSctpAssociation, Typed, Table
    <3> QED  BY <3>1 DEF Added, Sections
  <2>6. PICK offer \in Seq(Line) : offer = Offer'
    BY <2>5, OfferType
  <2>7. LET q == Pc!SetRemoteOffer(p, offer)
        IN  q \in Peers /\ q.closed = p.closed /\ q.remote = offer
    BY <1>3 DEF Peers, Pc!SetRemoteOffer
  <2>8. Typed'
    <3>1. peer' \in Peers
      BY <1>3, <2>3, <2>6, <2>7
    <3>2. call' = Idle \/ call' \in DataCalls
      BY <1>4, <2>2, <2>3
    <3>3. repeated' \in BOOLEAN
      BY <1>1, <2>3 DEF Typed
    <3> QED  BY <1>1, <1>4, <2>5, <3>1, <3>2, <3>3 DEF Typed
  <2>9. Table'
    BY <2>5 DEF Table
  <2>10. ASSUME ~repeated'
         PROVE  /\ Sdp!IInv' /\ ClosedAreInactive' /\ Added(DataMid)
                /\ peer'.remote = Offer' /\ call' = c
                /\ \A mid : Served(mid) => Served(mid)'
    <3>1. ~repeated /\ DataMid \notin DOMAIN midToIndex
      BY <2>3, <2>10
    <3>2. Sdp!IInv /\ Arrays /\ ClosedAreInactive /\ peer.remote = Offer
      BY <1>1, <1>4, <3>1 DEF Exact, Table, Offered
    <3>3. Sdp!IInv' /\ ClosedAreInactive' /\ Added(DataMid)
      BY <2>3, <3>1, <3>2, RecvSctpIsNext
    <3>4. Pc!OfferFits(p, Offer')
      BY <1>3, <1>4, <3>2, <3>3, AddedFits
    <3>5. peer'.remote = Offer' /\ call' = c
      BY <2>3, <2>6, <2>7, <3>4
    <3>6. \A mid : Served(mid) => Served(mid)'
      BY <3>2, <3>3, <3>5, AddedServes
    <3> QED  BY <3>3, <3>5, <3>6
  <2>11. Exact' /\ Offered'
    BY <2>10 DEF Exact, Offered
  <2>12. Answered'
    <3>1. ~repeated' => call'.op = "data"
      BY <2>2, <2>10
    <3> QED  BY <3>1 DEF Answered
  <2>13. Consumers'
    <3> SUFFICES ASSUME ~repeated', NEW mid \in mapMidTransceiver' \ stopped' PROVE Served(mid)'
      BY <2>2, <2>10 DEF Consumers
    <3>1. ~repeated
      BY <2>3
    <3> QED  BY <1>1, <1>4, <2>10, <3>1 DEF Consumers
  <2>14. Numbered'
    <3> SUFFICES ASSUME midless, ~failed PROVE Numbered'
      BY <1>4 DEF Numbered
    <3>1. PICK n : n = Cardinality(mapMidTransceiver)
      OBVIOUS
    <3>2. /\ ~repeated /\ DataMid \notin DOMAIN midToIndex
          /\ \A k \in mapMidTransceiver \ {ProbatorMid} : k < n
          /\ \A k \in DOMAIN midToIndex \ {DataMid, ProbatorMid} : k < n
          /\ ProbatorMid \in DOMAIN midToIndex => probatorConsumerCreated
      BY <1>1, <1>4, <1>6, <3>1 DEF Numbered
    <3>3. ~repeated'
      BY <2>3, <3>2
    <3>4. call'.op = "data" /\ DOMAIN midToIndex' \subseteq DOMAIN midToIndex \cup {DataMid}
      BY <2>2, <2>10, <3>3 DEF Added
    <3>5. \A k \in DOMAIN midToIndex' \ {DataMid, ProbatorMid} : k < n
      BY <3>2, <3>4
    <3>6. ProbatorMid \in DOMAIN midToIndex' => probatorConsumerCreated'
      BY <1>4, <3>2, <3>4, RecvHandlerAssumption DEF RecvHandlerAssumption
    <3> QED  BY <1>4, <3>1, <3>2, <3>3, <3>4, <3>5, <3>6 DEF Numbered
  <2> QED  BY <2>8, <2>9, <2>11, <2>12, <2>13, <2>14 DEF IInv
<1> QED  BY <1>5, <1>6

\* What renegotiating leaves: the offer is taken and answered, or nothing
\* changes.
LEMMA RenegotiateFacts ==
  ASSUME peer \in Peers, Remote!TypeOK', Renegotiate
  PROVE  /\ peer' \in Peers /\ peer'.closed = peer.closed
         /\ peer' = peer \/ peer'.remote = Offer'
         /\ Pc!OfferFits(peer, Offer') =>
              peer'.remote = Offer' /\ peer'.local = Offer' /\ peer'.signaling = "stable"
<1>1. PICK offer \in Seq(Line) : offer = Offer'
  BY OfferType
<1>2. PICK q : q = Pc!SetLocalAnswer(Pc!SetRemoteOffer(peer, offer))
  OBVIOUS
<1>3. /\ q \in Peers /\ q.closed = peer.closed /\ q.remote = offer /\ q.local = offer
      /\ q.signaling = "stable"
  BY <1>2 DEF Peers, Pc!SetRemoteOffer, Pc!SetLocalAnswer
<1>4. IF Pc!OfferFits(peer, Offer') THEN peer' = q ELSE peer' = peer
  BY <1>1, <1>2 DEF Renegotiate
<1> QED  BY <1>1, <1>3, <1>4

\* A consumer that is closed has a section, which is closed and no other.
LEMMA ClosesConsumer ==
  ASSUME IInv, NEW localId \in mapMidTransceiver \ {ProbatorMid}, CloseConsumer(localId)
  PROVE  IInv'
<1>1. /\ Typed /\ Table /\ Exact /\ Offered /\ Answered /\ Consumers /\ Numbered
  BY DEF IInv
<1>2. localId \in Mids /\ localId # DataMid
  BY <1>1, RecvHandlerAssumption DEF Typed, RecvHandlerAssumption, Mids
<1>3. /\ call = Idle /\ call.op = "none" /\ ~peer.closed
      /\ localId \in Pc!TransceiverMids(peer)
      /\ Remote!CloseMediaSection(localId) /\ Renegotiate
      /\ stopped' = stopped \cup {localId}
      /\ UNCHANGED <<forcedLocalDtlsRole, transportReady, mapMidTransceiver,
                     hasDataChannelMediaSection, probatorConsumerCreated, call,
                     midless, announcedRole, repeated, failed>>
  BY DEF CloseConsumer, StopReceiving, CanStop, handlerVars, Idle
<1>4. mediaSections # <<>>
  <2>1. DOMAIN peer.remote # {}
    BY <1>3 DEF Pc!TransceiverMids
  <2> QED  BY <1>1, <2>1 DEF Table
<1>5. Remote!TypeOK' /\ Arrays' /\ Sections' = Sections
  BY <1>1, <1>2, <1>3, <1>4, CloseKeepsArrays DEF Typed, Table
<1>6. mediaSections' # <<>>
  <2>1. Sections # {}
    BY <1>1, <1>4, NoSections DEF Typed
  <2> QED  BY <1>5, <2>1 DEF Sections
<1>7. /\ peer' \in Peers /\ peer'.closed = peer.closed
      /\ Pc!OfferFits(peer, Offer') =>
           peer'.remote = Offer' /\ peer'.local = Offer' /\ peer'.signaling = "stable"
  BY <1>1, <1>3, <1>5, RenegotiateFacts DEF Typed
<1>8. Typed'
  BY <1>1, <1>3, <1>5, <1>7 DEF Typed
<1>9. Table'
  BY <1>5, <1>6 DEF Table
<1>10. ASSUME ~repeated
       PROVE  /\ Sdp!IInv' /\ ClosedAreInactive' /\ ClosedAreInactive
              /\ DOMAIN midToIndex' = DOMAIN midToIndex
              /\ peer'.remote = Offer' /\ peer'.local = Offer' /\ peer'.signaling = "stable"
              /\ \A i \in Sections : mediaSections[i].mid # localId =>
                   mediaSections'[i] = mediaSections[i]
  <2>1. Sdp!IInv /\ Arrays /\ ClosedAreInactive /\ peer.remote = Offer
    BY <1>1, <1>3, <1>10 DEF Exact, Table, Offered
  <2>2. localId \in DOMAIN midToIndex
    <3>1. /\ DOMAIN midToIndex = {mediaSections[i].mid : i \in Sections}
          /\ mediaSections \in Seq(Remote!Section)
      BY <2>1, ExactFacts DEF Remote!TypeOK
    <3>2. peer.remote = LinesOf(mediaSections)
      BY <2>1, OfferIsLines DEF Arrays
    <3>3. PICK i \in Sections : mediaSections[i].mid = localId
      BY <1>2, <1>3, <3>1, <3>2, TransceiverFacts DEF Sections
    <3> QED  BY <3>1, <3>3
  <2>3. /\ Sdp!IInv' /\ ClosedAreInactive' /\ DOMAIN midToIndex' = DOMAIN midToIndex
        /\ \A i \in Sections :
             /\ mediaSections'[i].mid = mediaSections[i].mid
             /\ mediaSections[i].mid # localId => mediaSections'[i] = mediaSections[i]
    BY <1>2, <1>3, <2>1, <2>2, CloseIsNext
  <2>4. Pc!OfferFits(peer, Offer')
    BY <1>3, <1>5, <2>1, <2>3, OfferFits
  <2> QED  BY <1>7, <2>1, <2>3, <2>4
<1>11. Exact' /\ Offered' /\ Answered'
  BY <1>3, <1>10 DEF Exact, Offered, Answered
<1>12. Consumers'
  <2> SUFFICES ASSUME ~repeated, NEW mid \in mapMidTransceiver' \ stopped' PROVE Served(mid)'
    BY <1>3 DEF Consumers
  <2>1. mid # localId /\ Served(mid)
    BY <1>1, <1>3 DEF Consumers
  <2>2. mediaSections' \in Seq(Remote!Section) /\ sdpMedia' = mediaSections'
    BY <1>5 DEF Remote!TypeOK, Arrays
  <2>3. \A i \in Sections : mediaSections[i].mid = mid /\ ~mediaSections[i].closed =>
          i \in Sections' /\ mediaSections'[i] = mediaSections[i]
    BY <1>5, <1>10, <2>1
  <2> QED  BY <1>10, <2>1, <2>2, <2>3, UntouchedIsServed
<1>13. Numbered'
  BY <1>1, <1>3, <1>7, <1>10 DEF Numbered
<1> QED  BY <1>8, <1>9, <1>11, <1>12, <1>13 DEF IInv

\* New ICE credentials are offered at once if the transport is connected.
LEMMA Restarts ==
  ASSUME IInv, NEW ice \in IceParams, RestartIce(ice)
  PROVE  IInv'
<1>1. /\ Typed /\ Table /\ Exact /\ Offered /\ Answered /\ Consumers /\ Numbered
  BY DEF IInv
<1>2. /\ call = Idle /\ call.op = "none" /\ ~peer.closed
      /\ Remote!UpdateIceParameters(ice)
      /\ Renegotiate \/ peer' = peer
      /\ UNCHANGED <<forcedLocalDtlsRole, transportReady, mapMidTransceiver,
                     hasDataChannelMediaSection, probatorConsumerCreated, call,
                     midless, announcedRole, stopped, repeated, failed>>
  BY DEF RestartIce, HandlerRestartIce, handlerVars, history, Idle
<1>3. Remote!TypeOK' /\ Arrays' /\ Rewritten
  BY <1>1, <1>2, IceKeepsArrays DEF Typed, Table
<1>4. /\ Offer' = Offer
      /\ ClosedAreInactive => ClosedAreInactive'
      /\ peer'.remote = peer.remote => \A mid : Served(mid) => Served(mid)'
  BY <1>1, <1>3, RewrittenKeeps DEF Table
<1>5. /\ peer' \in Peers /\ peer'.closed = peer.closed
      /\ peer' = peer \/ peer'.remote = Offer'
  BY <1>1, <1>2, <1>3, RenegotiateFacts DEF Typed
<1>6. Typed'
  BY <1>1, <1>2, <1>3, <1>5 DEF Typed
<1>7. Table'
  <2>1. mediaSections' = <<>> => mediaSections = <<>> /\ sdpMedia = <<>>
    <3>1. Sections' = Sections
      BY <1>3 DEF Rewritten
    <3>2. mediaSections' = <<>> => Sections = {}
      BY <3>1 DEF Sections
    <3> QED  BY <1>1, <3>2, NoSections DEF Typed, Table, Arrays
  <2>2. sdpMedia = <<>> => Offer = <<>>
    <3>1. Remote!TypeOK /\ sdpMedia \in Seq(Remote!Section)
      BY <1>1 DEF Typed, Remote!TypeOK
    <3>2. Offer \in Seq(Line) /\ Len(Offer) = Len(sdpMedia)
      BY <3>1, OfferIsLines, LinesFacts
    <3> QED  BY <3>2
  <2> QED  BY <1>1, <1>3, <1>4, <1>5, <2>1, <2>2 DEF Table
<1>8. ASSUME ~repeated
      PROVE  /\ Sdp!IInv' /\ ClosedAreInactive' /\ peer.remote = Offer
             /\ peer'.remote = Offer
             /\ peer' = peer \/ (peer'.local = Offer /\ peer'.signaling = "stable")
  <2>1. Sdp!IInv /\ ClosedAreInactive /\ peer.remote = Offer
    BY <1>1, <1>2, <1>8 DEF Exact, Offered
  <2>2. Remote!Next
    BY <1>2 DEF Remote!Next, Remote!RestartIce
  <2>3. Sdp!IInv'
    BY <2>1, <2>2, NextKeepsExact
  <2>4. Pc!OfferFits(peer, Offer')
    BY <1>2, <1>3, <2>1, <2>3, OfferFits DEF Rewritten
  <2>5. Renegotiate => peer'.local = Offer' /\ peer'.signaling = "stable"
    BY <1>1, <1>3, <2>4, RenegotiateFacts DEF Typed
  <2> QED  BY <1>2, <1>4, <1>5, <2>1, <2>3, <2>5
<1>9. Exact' /\ Offered'
  BY <1>2, <1>4, <1>8 DEF Exact, Offered
<1>10. Answered'
  <2> SUFFICES ASSUME ~repeated, ~failed PROVE peer'.signaling = "stable" /\ peer'.local = peer'.remote
    BY <1>2 DEF Answered
  <2>1. peer.signaling = "stable" /\ peer.local = peer.remote
    BY <1>1, <1>2 DEF Answered
  <2> QED  BY <1>8, <2>1
<1>11. Consumers'
  <2>1. ~repeated => peer'.remote = peer.remote
    BY <1>8
  <2> QED  BY <1>1, <1>2, <1>4, <2>1 DEF Consumers
<1>12. Numbered'
  <2>1. midToIndex' = midToIndex
    BY <1>3 DEF Rewritten
  <2> QED  BY <1>1, <1>2, <1>5, <2>1 DEF Numbered
<1> QED  BY <1>6, <1>7, <1>9, <1>10, <1>11, <1>12 DEF IInv

\* No variable changes.
LEMMA Stutters ==
  ASSUME IInv, UNCHANGED vars
  PROVE  IInv'
<1>1. /\ Typed /\ Table /\ Exact /\ Offered /\ Answered /\ Consumers /\ Numbered
  BY DEF IInv
<1>2. UNCHANGED <<peer, remoteVars, forcedLocalDtlsRole, transportReady, mapMidTransceiver,
                  hasDataChannelMediaSection, probatorConsumerCreated, call,
                  midless, announcedRole, stopped, repeated, failed>>
  BY DEF vars, handlerVars, history
<1>3. /\ Remote!TypeOK' /\ Table' /\ Exact' /\ Offered'
      /\ \A mid : Served(mid) => Served(mid)'
  BY <1>1, <1>2, TableKept DEF Typed, Peers
<1>4. Typed'
  BY <1>1, <1>2, <1>3 DEF Typed
<1>5. Answered'
  BY <1>1, <1>2 DEF Answered
<1>6. Consumers'
  <2>1. call.op = "receive" => (Served(call.localId)' <=> \A mid : mid = call.localId => Served(mid)')
    BY <1>2 DEF Served
  <2> QED  BY <1>1, <1>2, <1>3, <2>1 DEF Consumers
<1>7. Numbered'
  <2>1. midToIndex' = midToIndex
    BY <1>2 DEF remoteVars
  <2> QED  BY <1>1, <1>2, <2>1 DEF Numbered
<1> QED  BY <1>3, <1>4, <1>5, <1>6, <1>7 DEF IInv

\* Every step of the handler, of the application and of the peer connection.
LEMMA Inductive == IInv /\ [Next]_vars => IInv'
<1> SUFFICES ASSUME IInv, [Next]_vars PROVE IInv'
  OBVIOUS
<1>1. CASE \E mid \in IF midless THEN {NoMid} ELSE ServerMids, video \in BOOLEAN :
             Consume(mid, video)
  BY <1>1, Consumes
<1>2. CASE \E id \in StreamIds : ConsumeData(id)
  BY <1>2, ConsumesData
<1>3. CASE SetupTransport
  BY <1>3, SetsUp
<1>4. CASE OnConnectResolves
  BY <1>4, Connects
<1>5. CASE OnConnectRejects \/ AnswerThrows
  BY <1>5, Throws DEF OnConnectRejects, AnswerThrows
<1>6. CASE ReceiveAnswers
  BY <1>6, Answers
<1>7. CASE DataAnswers
  BY <1>7, AnswersData
<1>8. CASE ReceiveProbator
  BY <1>8, Probes
<1>9. CASE \E localId \in mapMidTransceiver \ {ProbatorMid} : CloseConsumer(localId)
  BY <1>9, ClosesConsumer
<1>10. CASE \E ice \in IceParams : RestartIce(ice)
  BY <1>10, Restarts
<1>11. CASE Close
  BY <1>11, Closes
<1>12. CASE UNCHANGED vars
  BY <1>12, Stutters
<1> QED  BY <1>1, <1>2, <1>3, <1>4, <1>5, <1>6, <1>7, <1>8, <1>9, <1>10, <1>11, <1>12 DEF Next

\* IInv holds in every reachable state, also after calls that failed, mids
\* that were repeated and a Close in the middle of a call.
THEOREM Invariance == Spec => []IInv
<1> QED  BY Initial, Inductive, PTL DEF Spec

-----------------------------------------------------------------------------
(* The properties.                                                         *)

\* Every variable keeps its type, however many mids the server hands out, and
\* whether or not it repeats them: no index leads behind the last section.
THEOREM TypeCorrect == Spec => []TypeOK
<1>1. IInv => TypeOK
  <2> SUFFICES ASSUME IInv PROVE TypeOK
    OBVIOUS
  <2>1. Typed
    BY DEF IInv
  <2>2. /\ peer.closed \in BOOLEAN /\ peer.signaling \in {"stable", "have-remote-offer"}
        /\ peer.local \in Seq(Line) /\ peer.remote \in Seq(Line)
        /\ peer.channels \subseteq StreamIds
    BY <2>1 DEF Typed, Peers
  <2>3. call.op \in {"none", "receive", "probator", "data"}
    BY <2>1, CallFacts
  <2>4. mapMidTransceiver \subseteq Mids \ {DataMid}
    BY <2>1, RecvHandlerAssumption DEF Typed, RecvHandlerAssumption, Mids
  <2> QED  BY <2>1, <2>2, <2>3, <2>4 DEF Typed, TypeOK
<1> QED  BY <1>1, Invariance, PTL

\* NegotiationInStep: between calls, what RemoteSdp would offer is what the
\* peer connection was last offered and has answered.
THEOREM AlwaysInStep == Spec => []NegotiationInStep
<1>1. IInv => NegotiationInStep
  <2> SUFFICES ASSUME IInv, call = Idle, ~peer.closed, ~failed, ~repeated
               PROVE  peer.signaling = "stable" /\ peer.remote = Offer /\ peer.local = Offer
    BY DEF NegotiationInStep
  <2>1. Offered /\ Answered /\ call.op = "none"
    BY DEF IInv, Idle
  <2> QED  BY <2>1 DEF Offered, Answered
<1> QED  BY <1>1, Invariance, PTL

\* RetryWithNewMidFits: a call that failed in OnConnect leaves an offer that
\* the peer connection takes again.
THEOREM RetryAlwaysFits == Spec => []RetryWithNewMidFits
<1>1. IInv => RetryWithNewMidFits
  <2> SUFFICES ASSUME IInv, ~peer.closed, ~repeated PROVE Pc!OfferFits(peer, Offer)
    BY DEF RetryWithNewMidFits
  <2>1. Sdp!IInv /\ peer.remote = Offer
    BY DEF IInv, Exact, Offered
  <2>2. /\ mediaSections \in Seq(Remote!Section)
        /\ \A i, j \in Sections : mediaSections[i].mid = mediaSections[j].mid => i = j
        /\ Offer = LinesOf(mediaSections)
    <3>1. \A i \in Sections : midToIndex[mediaSections[i].mid] = i
      BY <2>1, ExactFacts
    <3> QED  BY <2>1, <3>1, ExactFacts, OfferIsLines DEF Remote!TypeOK
  <2>3. /\ DOMAIN Offer = Sections /\ Len(Offer) \in Nat
        /\ \A i \in Sections : Offer[i].mid = mediaSections[i].mid
    BY <2>2, LinesFacts DEF Sections
  <2> QED  BY <2>1, <2>2, <2>3 DEF Pc!OfferFits, Pc!UniqueMids
<1> QED  BY <1>1, Invariance, PTL

\* ConsumersMatchSections: no call touches a consumer other than its own.
THEOREM ConsumersAlwaysMatch == Spec => []ConsumersMatchSections
<1>1. IInv => ConsumersMatchSections
  <2> SUFFICES ASSUME IInv, ~repeated, NEW localId \in mapMidTransceiver \ stopped
               PROVE  /\ localId \in Pc!TransceiverMids(peer)
                      /\ \E i \in DOMAIN sdpMedia :
                           sdpMedia[i].mid = localId /\ sdpMedia[i].direction = "open"
    BY DEF ConsumersMatchSections
  <2>1. Served(localId) /\ sdpMedia = mediaSections
    BY DEF IInv, Consumers, Table, Arrays
  <2> QED  BY <2>1 DEF Served, Sections
<1> QED  BY <1>1, Invariance, PTL

\* OwnMidsAreNew: the mids that the handler makes up are new ones as long as
\* no call fails.
THEOREM OwnMidsAlwaysNew == Spec => []OwnMidsAreNew
<1>1. IInv => OwnMidsAreNew
  BY DEF IInv, Numbered, OwnMidsAreNew
<1> QED  BY <1>1, Invariance, PTL

-----------------------------------------------------------------------------
(* The handler as a user of RemoteSdp.                                     *)

\* A mid that is not repeated is added as RemoteSdp!Next assumes.
LEMMA ReceiveIsSpecified ==
  ASSUME NEW mid \in Mids \ {DataMid}, Remote!Receive(mid), mid \notin DOMAIN midToIndex
  PROVE  Remote!Next
BY DEF Remote!Next, Remote!AddRtp, Remote!FreshMids

\* Only consumers that have a section are closed.
LEMMA CloseIsSpecified ==
  ASSUME IInv, ~repeated, NEW localId \in mapMidTransceiver \ {ProbatorMid},
         CloseConsumer(localId)
  PROVE  Remote!Next
<1>1. /\ Typed /\ Exact /\ Offered
  BY DEF IInv
<1>2. localId # DataMid
  BY <1>1, RecvHandlerAssumption DEF Typed, RecvHandlerAssumption
<1>3. /\ ~peer.closed /\ localId \in Pc!TransceiverMids(peer)
      /\ Remote!CloseMediaSection(localId)
  BY DEF CloseConsumer, StopReceiving, CanStop
<1>4. Sdp!IInv /\ peer.remote = Offer
  BY <1>1, <1>3 DEF Exact, Offered
<1>5. /\ DOMAIN midToIndex = {mediaSections[i].mid : i \in Sections}
      /\ mediaSections \in Seq(Remote!Section) /\ sdpMedia = mediaSections
  BY <1>4, ExactFacts DEF Remote!TypeOK
<1>6. PICK i \in Sections : mediaSections[i].mid = localId
  BY <1>2, <1>3, <1>4, <1>5, OfferIsLines, TransceiverFacts DEF Sections
<1>7. localId \in DOMAIN midToIndex
  BY <1>5, <1>6
<1> QED  BY <1>2, <1>3, <1>7 DEF Remote!Next, Remote!CloseRtp

\* RemoteSdpUsedAsSpecified: as long as no mid is repeated, every step is one
\* that RemoteSdpProofs is about, so that all it proves holds of the RemoteSdp
\* of a RecvHandler.
THEOREM RemoteSdpAlwaysUsedAsSpecified == Spec => RemoteSdpUsedAsSpecified
<1>1. IInv /\ [Next]_vars => [~repeated' => [Remote!Next]_remoteVars]_vars
  <2> SUFFICES ASSUME IInv, Next, ~repeated' PROVE Remote!Next \/ UNCHANGED remoteVars
    OBVIOUS
  <2>1. CASE \E mid \in IF midless THEN {NoMid} ELSE ServerMids, video \in BOOLEAN :
               Consume(mid, video)
    <3>1. PICK mid, video : Consume(mid, video)
      BY <2>1
    <3>2. PICK m \in ServerMids : m = LocalId(mid)
      BY <3>1 DEF Consume, Receive
    <3>3. Remote!Receive(m) /\ m \notin DOMAIN midToIndex
      BY <3>1, <3>2 DEF Consume, Receive, Repeats
    <3>4. m \in Mids \ {DataMid}
      BY RecvHandlerAssumption DEF RecvHandlerAssumption, Mids
    <3> QED  BY <3>3, <3>4, ReceiveIsSpecified
  <2>2. CASE \E id \in StreamIds : ConsumeData(id)
    <3>1. PICK id : ReceiveDataChannel(id)
      BY <2>2 DEF ConsumeData
    <3>2. CASE hasDataChannelMediaSection
      BY <3>1, <3>2 DEF ReceiveDataChannel
    <3>3. CASE ~hasDataChannelMediaSection
      <4>1. Remote!RecvSctpAssociation /\ DataMid \notin DOMAIN midToIndex
        BY <3>1, <3>3 DEF ReceiveDataChannel, Repeats
      <4> QED  BY <4>1 DEF Remote!Next, Remote!AddSctp, Remote!FreshMids, Mids
    <3> QED  BY <3>2, <3>3
  <2>3. CASE SetupTransport
    <3>1. PICK role \in {"client", "server"} : role = Opposite(LocalDtlsRole)
      BY DEF Opposite
    <3>2. Remote!UpdateDtlsRole(role)
      BY <2>3, <3>1 DEF SetupTransport
    <3> QED  BY <3>2 DEF Remote!Next, Remote!SetupTransport
  <2>4. CASE OnConnectResolves \/ OnConnectRejects \/ AnswerThrows \/ ReceiveAnswers
             \/ DataAnswers \/ Close
    BY <2>4 DEF OnConnectResolves, OnConnectRejects, AnswerThrows, Throw, ReceiveAnswers,
       DataAnswers, Close
  <2>5. CASE ReceiveProbator
    <3>1. Remote!Receive(ProbatorMid) /\ ProbatorMid \notin DOMAIN midToIndex
      BY <2>5 DEF ReceiveProbator, Repeats
    <3>2. ProbatorMid \in Mids \ {DataMid}
      BY RecvHandlerAssumption DEF RecvHandlerAssumption, Mids
    <3> QED  BY <3>1, <3>2, ReceiveIsSpecified
  <2>6. CASE \E localId \in mapMidTransceiver \ {ProbatorMid} : CloseConsumer(localId)
    <3>1. PICK localId \in mapMidTransceiver \ {ProbatorMid} : CloseConsumer(localId)
      BY <2>6
    <3>2. repeated' = repeated
      BY <3>1 DEF CloseConsumer, StopReceiving
    <3> QED  BY <3>1, <3>2, CloseIsSpecified
  <2>7. CASE \E ice \in IceParams : RestartIce(ice)
    BY <2>7 DEF RestartIce, HandlerRestartIce, Remote!Next, Remote!RestartIce
  <2> QED  BY <2>1, <2>2, <2>3, <2>4, <2>5, <2>6, <2>7 DEF Next
<1> QED  BY <1>1, Invariance, PTL DEF Spec, RemoteSdpUsedAsSpecified
=============================================================================
