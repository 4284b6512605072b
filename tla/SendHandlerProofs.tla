------------------------- MODULE SendHandlerProofs --------------------------
(***************************************************************************)
(* SendHandler, for any number of transceivers, m= lines and stream ids.   *)
(***************************************************************************)
EXTENDS SendHandler, FiniteSets, TLAPS

Offers == INSTANCE JsepProofs

Transceivers == DOMAIN peer.transceivers
Tr(t) == peer.transceivers[t]
Sections == DOMAIN mediaSections
LocalMids == Offers!MidsOf(peer.local)
AnsweredMids == {mediaSections[i].mid : i \in Sections}
Pending == Offers!NewTransceivers(peer)

-----------------------------------------------------------------------------
(* The inductive invariant.                                                *)

Stages == {"connect", "negotiate"}

SendCalls == [op : {"send"}, stage : Stages, idx : Nat, reuseMid : Mids \cup {NoMid},
              transceiver : Nat, offer : Offers!Lines(Mids), simulcast : BOOLEAN,
              prepares : BOOLEAN]

DataCalls == [op : {"data"}, stage : Stages, offer : Offers!Lines(Mids)]

Typed ==
    /\ Remote!TypeOK
    /\ peer \in Offers!Peers(Mids)
    /\ Transceivers \subseteq 1..MaxTransceivers
    /\ peer.channels \subseteq 0..SctpNumStreams - 1
    /\ forcedLocalDtlsRole \in {"", "client", "server"}
    /\ transportReady \in BOOLEAN /\ hasDataChannelMediaSection \in BOOLEAN
    /\ failed \in BOOLEAN
    /\ nextSendSctpStreamId \in 0..SctpNumStreams - 1
    /\ call = Idle \/ call \in SendCalls \/ call \in DataCalls
    /\ stopped \subseteq mapMidTransceiver
    /\ mapMidTransceiver \subseteq Transceivers

\* The sections and the map, also after failed calls, when there may be two
\* data sections: a mid of the map leads to a section that has it, and every
\* other section is the only one with its mid.
Table ==
    /\ sdpMedia = mediaSections
    /\ \A mid \in DOMAIN midToIndex :
         midToIndex[mid] \in Sections /\ mediaSections[midToIndex[mid]].mid = mid
    /\ \A i \in Sections :
         /\ mediaSections[i].mid \in DOMAIN midToIndex
         /\ mediaSections[i].mid # DataMid => midToIndex[mediaSections[i].mid] = i
         /\ mediaSections[i].closed =>
              mediaSections[i].mid # DataMid /\ mediaSections[i].direction = "inactive"
         /\ mediaSections[i].setup = Remote!SetupFor(dtlsRole)

\* A section stands where the peer connection has the line with its mid, or
\* the transceiver of the mid is gone.
Aligned ==
    \A i \in Sections :
        LET mid == mediaSections[i].mid
        IN  mid # DataMid =>
              /\ mid \in Transceivers
              /\ \/ i \in DOMAIN peer.local /\ peer.local[i].mid = mid
                 \/ Tr(mid).stopped /\ mid \notin LocalMids

\* The locals of a call that waits in OnConnect fit the state that it finds.
Waiting ==
    /\ call.op # "none" => Offers!OfferOf(peer, call.offer)
    /\ call.op # "none" /\ call.stage = "negotiate" => transportReady
    /\ call.op = "send" =>
         /\ call.transceiver \in Pending
         /\ call.transceiver \notin mapMidTransceiver
         /\ Tr(call.transceiver).sending
         /\ call.idx = Remote!GetNextMediaSectionIdx.idx
         /\ call.reuseMid = Remote!GetNextMediaSectionIdx.reuseMid

Producers ==
    /\ \A i \in Sections : mediaSections[i].closed => mediaSections[i].mid \in stopped
    /\ \A t \in mapMidTransceiver : Tr(t).mid = t => t \in AnsweredMids
    /\ mapMidTransceiver \cap Pending = {}
    /\ \A t \in stopped : ~Tr(t).sending
    /\ \A t \in mapMidTransceiver \ stopped : 
         /\ Tr(t).mid = t /\ ~Tr(t).stopped /\ Tr(t).sending
         /\ \A i \in Sections : mediaSections[i].mid = t => mediaSections[i].direction = "open"
    /\ \A t \in Transceivers : Tr(t).stopped => t \in stopped

Roles ==
    /\ transportReady \/ call.op # "none" => dtlsRole = Opposite(LocalDtlsRole)
    /\ mediaSections # <<>> \/ peer.remote # <<>> \/ mapMidTransceiver # {} => transportReady

\* The two tables of m= lines, as long as no call has failed.
InStep ==
    ~failed =>
        /\ peer.signaling = "stable"
        /\ peer.remote = Answer
        /\ Len(peer.local) = Len(mediaSections)
        /\ \A i \in Sections :
             /\ peer.local[i].mid = mediaSections[i].mid
             /\ mediaSections[i].mid # DataMid =>
                  (mediaSections[i].closed <=> Tr(mediaSections[i].mid).stopped)
             /\ mediaSections[i].mid \in stopped => mediaSections[i].direction = "inactive"
        /\ call.op # "send" => Pending = {}
        /\ call.op = "send" => Pending = {call.transceiver}
        /\ call.op = "send" /\ DataMid \in Offers!MidsOf(call.offer) => DataMid \in LocalMids
        /\ call.op = "data" => DataMid \in Offers!MidsOf(call.offer) /\ DataMid \notin LocalMids
        /\ call.op # "data" /\ peer.channels # {} => DataMid \in LocalMids
        /\ hasDataChannelMediaSection <=> DataMid \in LocalMids

\* A transceiver that is neither answered nor going to be, once one is abandoned.
Lagging ==
    Abandoned => \E t \in Transceivers :
        /\ ~Tr(t).stopped
        /\ t \notin AnsweredMids
        /\ call.op = "send" => t # call.transceiver

IInv ==
    /\ Typed
    /\ Offers!WellFormed(peer)
    /\ Table
    /\ Aligned
    /\ Waiting
    /\ Producers
    /\ Roles
    /\ InStep
    /\ Lagging

-----------------------------------------------------------------------------
(* The operations of Jsep here and in the lemmas about them are the same.  *)

\* Jsep and JsepProofs are instanced with the same constants.
LEMMA Same ==
  /\ \A lines : Pc!MidsOf(lines) = Offers!MidsOf(lines)
  /\ \A p : Pc!NewTransceivers(p) = Offers!NewTransceivers(p)
  /\ \A p : Pc!CreateOffer(p) = Offers!CreateOffer(p)
  /\ \A p, offer : Pc!SetLocalOffer(p, offer) = Offers!SetLocalOffer(p, offer)
  /\ \A p, answer : Pc!SetRemoteAnswer(p, answer) = Offers!SetRemoteAnswer(p, answer)
  /\ \A p : Pc!AddTransceiver(p) = Offers!AddTransceiver(p)
  /\ \A p, t : Pc!StopSender(p, t) = Offers!StopSender(p, t)
  /\ \A p : Pc!Close(p) = Offers!Close(p)
<1>1. \A lines : Pc!MidsOf(lines) = Offers!MidsOf(lines)
  BY DEF Pc!MidsOf, Offers!MidsOf
<1>2. \A p : Pc!NewTransceivers(p) = Offers!NewTransceivers(p)
  BY DEF Pc!NewTransceivers, Offers!NewTransceivers
<1>3. \A p : Pc!CreateOffer(p) = Offers!CreateOffer(p)
  BY DEF Pc!CreateOffer, Offers!CreateOffer, Pc!InOrder, Offers!InOrder, Pc!MidsOf, Offers!MidsOf,
     Pc!NewTransceivers, Offers!NewTransceivers, Pc!RecyclableLines, Offers!RecyclableLines,
     Pc!AssociatedMids, Offers!AssociatedMids, Pc!Cardinality, Offers!Cardinality
<1>4. \A p, offer : Pc!SetLocalOffer(p, offer) = Offers!SetLocalOffer(p, offer)
  BY DEF Pc!SetLocalOffer, Offers!SetLocalOffer, Pc!Associated, Offers!Associated,
     Pc!MidsOf, Offers!MidsOf
<1>5. \A p, answer : Pc!SetRemoteAnswer(p, answer) = Offers!SetRemoteAnswer(p, answer)
  BY DEF Pc!SetRemoteAnswer, Offers!SetRemoteAnswer, Pc!StopRejected, Offers!StopRejected,
     Pc!RejectedMids, Offers!RejectedMids
<1>6. \A p : Pc!AddTransceiver(p) = Offers!AddTransceiver(p)
  BY DEF Pc!AddTransceiver, Offers!AddTransceiver
<1>7. \A p, t : Pc!StopSender(p, t) = Offers!StopSender(p, t)
  BY DEF Pc!StopSender, Offers!StopSender
<1>8. \A p : Pc!Close(p) = Offers!Close(p)
  BY DEF Pc!Close, Offers!Close
<1> QED  BY <1>1, <1>2, <1>3, <1>4, <1>5, <1>6, <1>7, <1>8

\* The mids, from the assumptions on the constants.
LEMMA MidsFacts ==
  /\ NoMid \notin Mids /\ DataMid \in Mids
  /\ 1..MaxTransceivers \subseteq Mids /\ DataMid \notin 1..MaxTransceivers
  /\ MaxTransceivers \in Nat
<1>1. MaxTransceivers \in Nat /\ NoMid # DataMid
      /\ NoMid \notin 0..MaxTransceivers /\ DataMid \notin 0..MaxTransceivers
  BY SendHandlerAssumption DEF SendHandlerAssumption
<1>2. 1..MaxTransceivers \subseteq 0..MaxTransceivers
  BY <1>1
<1> QED  BY <1>1, <1>2 DEF Mids

\* The domain and the elements of a sequence.
LEMMA SeqFacts ==
  ASSUME NEW S, NEW s \in Seq(S)
  PROVE  /\ DOMAIN s = 1..Len(s) /\ Len(s) \in Nat
         /\ \A i \in 1..Len(s) : s[i] \in S
OBVIOUS

-----------------------------------------------------------------------------
(* The operations of RemoteSdp.                                            *)

\* A section with this mid was put at this index, in the place of another one
\* or behind the last.
Placed(idx, mid) ==
    /\ idx \in 1..Len(mediaSections) + 1
    /\ DOMAIN mediaSections' = Sections \cup {idx}
    /\ \A i \in Sections : i # idx => mediaSections'[i] = mediaSections[i]
    /\ mediaSections'[idx].mid = mid
    /\ ~mediaSections'[idx].closed
    /\ mediaSections'[idx].direction = "open"
    /\ UNCHANGED dtlsRole

\* A new section is open and has the role of now.
LEMMA NewSectionFacts ==
  ASSUME Remote!TypeOK, NEW mid \in Mids
  PROVE  /\ Remote!NewSection(mid) \in Remote!Section
         /\ Remote!NewSection(mid).mid = mid
         /\ ~Remote!NewSection(mid).closed
         /\ Remote!NewSection(mid).direction = "open"
         /\ Remote!NewSection(mid).setup = Remote!SetupFor(dtlsRole)
BY DEF Remote!TypeOK, Remote!NewSection, Remote!Section, Remote!SetupFor, Remote!Setups,
   Remote!DtlsRoles

\* The BUNDLE group holds mids.
LEMMA OpenMidsType ==
  ASSUME NEW sections \in Seq(Remote!Section)
  PROVE  Remote!OpenMids(sections) \subseteq Mids
<1>1. \A i \in DOMAIN sections : sections[i] \in Remote!Section
  OBVIOUS
<1>2. \A section \in Remote!Section : section.mid \in Mids
  BY DEF Remote!Section
<1> QED BY <1>1, <1>2 DEF Remote!OpenMids

\* What both branches of Remote!Send do to the table: the section at idx, the
\* one behind the last or one that is the only one with its mid, is replaced,
\* and the mids that are gone with it leave the map.
LEMMA PutSection ==
  ASSUME Remote!TypeOK, Table, NEW mid \in Mids, NEW idx, NEW gone,
         idx \in 1..Len(mediaSections) + 1,
         mid = DataMid \/ \A j \in Sections : j # idx => mediaSections[j].mid # mid,
         \A j \in Sections : j # idx => mediaSections[j].mid \notin gone,
         idx \in Sections => mediaSections[idx].mid \in gone,
         mediaSections' \in Seq(Remote!Section),
         DOMAIN mediaSections' = Sections \cup {idx},
         \A j \in Sections : j # idx => mediaSections'[j] = mediaSections[j],
         mediaSections'[idx] = Remote!NewSection(mid),
         midToIndex' = [m \in (DOMAIN midToIndex \ gone) \cup {mid} |->
                          IF m = mid THEN idx ELSE midToIndex[m]],
         sdpMedia' = mediaSections', bundleMids' = Remote!OpenMids(mediaSections'),
         firstMid' \in Mids \cup {NoMid},
         UNCHANGED <<iceParameters, dtlsRole>>
  PROVE  Remote!TypeOK' /\ Table' /\ Placed(idx, mid)
<1> DEFINE new == Remote!NewSection(mid)
<1>1. /\ new.mid = mid /\ ~new.closed /\ new.direction = "open"
      /\ new.setup = Remote!SetupFor(dtlsRole)
  BY NewSectionFacts
<1>2. /\ DOMAIN midToIndex \subseteq Mids /\ iceParameters \in IceParams
      /\ midToIndex \in [DOMAIN midToIndex -> Nat \ {0}]
      /\ dtlsRole \in Remote!DtlsRoles
  BY DEF Remote!TypeOK
<1>3. idx \in Nat \ {0} /\ Len(mediaSections) \in Nat /\ Sections = 1..Len(mediaSections)
  BY DEF Remote!TypeOK, Sections
<1>4. DOMAIN midToIndex' = (DOMAIN midToIndex \ gone) \cup {mid}
  OBVIOUS
<1>5. midToIndex'[mid] = idx
  OBVIOUS
<1>6. \A m \in DOMAIN midToIndex \ gone : m # mid => midToIndex'[m] = midToIndex[m]
  OBVIOUS
<1>7. Sections' = Sections \cup {idx}
  BY DEF Sections
<1> HIDE DEF new
<1>8. Remote!TypeOK'
  <2>1. \A m \in DOMAIN midToIndex' : m \in Mids /\ midToIndex'[m] \in Nat \ {0}
    BY <1>2, <1>3, <1>4, <1>5, <1>6
  <2>2. midToIndex' \in [DOMAIN midToIndex' -> Nat \ {0}]
    BY <2>1
  <2>3. bundleMids' \subseteq Mids
    BY OpenMidsType
  <2> QED BY <1>2, <2>1, <2>2, <2>3 DEF Remote!TypeOK
<1>9. \A m \in DOMAIN midToIndex' : midToIndex'[m] \in Sections' /\ mediaSections'[midToIndex'[m]].mid = m
  <2> TAKE m \in DOMAIN midToIndex'
  <2>1. CASE m = mid
    BY <2>1, <1>1, <1>5, <1>7 DEF new
  <2>2. CASE m # mid
    <3>1. m \in DOMAIN midToIndex /\ m \notin gone /\ midToIndex'[m] = midToIndex[m]
      BY <2>2, <1>4, <1>6
    <3>2. midToIndex[m] \in Sections /\ mediaSections[midToIndex[m]].mid = m
      BY <3>1 DEF Table
    <3>3. midToIndex[m] # idx
      BY <3>1, <3>2
    <3> QED  BY <3>1, <3>2, <3>3, <1>7
  <2> QED  BY <2>1, <2>2
<1>10. ASSUME NEW i \in Sections'
       PROVE  /\ mediaSections'[i].mid \in DOMAIN midToIndex'
              /\ mediaSections'[i].mid # DataMid => midToIndex'[mediaSections'[i].mid] = i
              /\ mediaSections'[i].closed =>
                   mediaSections'[i].mid # DataMid /\ mediaSections'[i].direction = "inactive"
              /\ mediaSections'[i].setup = Remote!SetupFor(dtlsRole)
  <2>1. CASE i = idx
    BY <2>1, <1>1, <1>4, <1>5 DEF new
  <2>2. CASE i # idx
    <3>1. i \in Sections /\ mediaSections'[i] = mediaSections[i]
      BY <2>2, <1>7
    <3>2. mediaSections[i].mid \in DOMAIN midToIndex \ gone
      BY <2>2, <3>1 DEF Table
    <3>3. /\ mediaSections[i].mid # DataMid => midToIndex[mediaSections[i].mid] = i
          /\ mediaSections[i].closed =>
               mediaSections[i].mid # DataMid /\ mediaSections[i].direction = "inactive"
          /\ mediaSections[i].setup = Remote!SetupFor(dtlsRole)
      BY <3>1 DEF Table
    <3>4. mediaSections[i].mid # DataMid => mediaSections[i].mid # mid
      BY <2>2, <3>1
    <3> QED  BY <3>1, <3>2, <3>3, <3>4, <1>4, <1>6
  <2> QED  BY <2>1, <2>2
<1>11. Remote!SetupFor(dtlsRole)' = Remote!SetupFor(dtlsRole)
  BY DEF Remote!SetupFor
<1>12. Table'
  BY <1>9, <1>10, <1>11 DEF Table
<1>13. Placed(idx, mid)
  BY <1>1 DEF Placed, new, Sections
<1> QED  BY <1>8, <1>12, <1>13

\* AddMediaSection.
LEMMA AddPlaces ==
  ASSUME Remote!TypeOK, Table, NEW mid \in Mids,
         mid = DataMid \/ \A j \in Sections : mediaSections[j].mid # mid,
         Remote!AddMediaSection(Remote!NewSection(mid)),
         UNCHANGED <<iceParameters, dtlsRole>>
  PROVE  Remote!TypeOK' /\ Table' /\ Placed(Len(mediaSections) + 1, mid)
<1> DEFINE n == Len(mediaSections)
           new == Remote!NewSection(mid)
<1>1. new \in Remote!Section /\ new.mid = mid
  BY NewSectionFacts
<1>2. mediaSections \in Seq(Remote!Section) /\ firstMid \in Mids \cup {NoMid}
  BY DEF Remote!TypeOK
<1>3. /\ mediaSections' \in Seq(Remote!Section)
      /\ Sections = 1..n /\ n \in Nat
      /\ DOMAIN mediaSections' = Sections \cup {n + 1}
      /\ \A i \in Sections : mediaSections'[i] = mediaSections[i]
      /\ mediaSections'[n + 1] = new
  BY <1>1, <1>2 DEF Remote!AddMediaSection, Sections
<1>4. midToIndex' = [m \in (DOMAIN midToIndex \ {}) \cup {mid} |->
                       IF m = mid THEN n + 1 ELSE midToIndex[m]]
  BY <1>1 DEF Remote!AddMediaSection, Remote!Put
<1>5. /\ firstMid' \in Mids \cup {NoMid}
      /\ sdpMedia' = mediaSections'
      /\ bundleMids' = Remote!OpenMids(mediaSections')
  BY <1>1, <1>2 DEF Remote!AddMediaSection, Remote!RegenerateBundleMids, Table
<1>6. n + 1 \in 1..n + 1 /\ n + 1 \notin Sections
  BY <1>3
<1> DEFINE idx == n + 1
           gone == {}
<1>7. \A j \in Sections : mediaSections[j].mid \notin gone
  OBVIOUS
<1>8. midToIndex' = [m \in (DOMAIN midToIndex \ gone) \cup {mid} |->
                       IF m = mid THEN idx ELSE midToIndex[m]]
  BY <1>4
<1> HIDE DEF gone
<1>9. Remote!TypeOK' /\ Table' /\ Placed(idx, mid)
  <2>1. idx \in 1..Len(mediaSections) + 1 /\ idx \notin Sections
    BY <1>6
  <2>2. DOMAIN mediaSections' = Sections \cup {idx}
    BY <1>3
  <2>3. mediaSections'[idx] = Remote!NewSection(mid)
    BY <1>3
  <2> HIDE DEF idx
  <2> QED  BY <1>3, <1>5, <1>7, <1>8, <2>1, <2>2, <2>3, PutSection
<1> QED  BY <1>9

\* GetNextMediaSectionIdx finds the first closed section, if there is one.
LEMMA NextSlotFacts ==
  ASSUME Remote!TypeOK, Table
  PROVE  LET slot == Remote!GetNextMediaSectionIdx
             closed == {i \in Sections : mediaSections[i].closed}
         IN  /\ slot.idx \in 1..Len(mediaSections) + 1
             /\ slot.idx \in Nat
             /\ closed = {} => slot.idx = Len(mediaSections) + 1 /\ slot.reuseMid = NoMid
             /\ closed # {} => /\ slot.idx \in closed
                               /\ \A i \in closed : slot.idx <= i
                               /\ slot.reuseMid = mediaSections[slot.idx].mid
                               /\ slot.reuseMid # NoMid
                               /\ slot.idx = Remote!FirstClosed
             /\ slot.reuseMid \in Mids \cup {NoMid}
<1> DEFINE slot == Remote!GetNextMediaSectionIdx
           closed == {i \in Sections : mediaSections[i].closed}
<1>1. closed = Remote!ClosedSections
  BY DEF Remote!ClosedSections, Sections
<1>2. Sections = 1..Len(mediaSections) /\ Len(mediaSections) \in Nat
      /\ \A i \in Sections : mediaSections[i] \in Remote!Section
  BY SeqFacts DEF Sections, Remote!TypeOK
<1>3. CASE closed = {}
  <2>1. slot = [idx |-> Len(mediaSections) + 1, reuseMid |-> NoMid]
    BY <1>1, <1>3 DEF Remote!GetNextMediaSectionIdx
  <2> QED  BY <2>1, <1>2, <1>3
<1>4. CASE closed # {}
  <2>1. slot = [idx |-> Remote!FirstClosed, reuseMid |-> mediaSections[Remote!FirstClosed].mid]
    BY <1>1, <1>4 DEF Remote!GetNextMediaSectionIdx
  <2>2. \E i \in closed : \A j \in closed : i <= j
    <3>1. closed \subseteq Nat
      BY <1>2
    <3> QED  BY <3>1, <1>4, Offers!LeastNumber
  <2>3. Remote!FirstClosed \in closed /\ \A i \in closed : Remote!FirstClosed <= i
    BY <1>1, <2>2, Zenon DEF Remote!FirstClosed
  <2>4. mediaSections[Remote!FirstClosed].mid \in Mids
    BY <1>2, <2>3 DEF Remote!Section
  <2> QED  BY <2>1, <2>3, <2>4, <1>2, <1>4, MidsFacts
<1> QED  BY <1>3, <1>4

\* Remote!Send puts the section at the index that GetNextMediaSectionIdx gave.
LEMMA SendPlaces ==
  ASSUME Remote!TypeOK, Table, NEW mid \in Mids,
         NEW slot, slot = Remote!GetNextMediaSectionIdx,
         mid = DataMid \/ \A j \in Sections : j # slot.idx => mediaSections[j].mid # mid,
         Remote!Send(mid, slot.reuseMid)
  PROVE  Remote!TypeOK' /\ Table' /\ Placed(slot.idx, mid)
<1> DEFINE n == Len(mediaSections)
           k == slot.idx
           closed == {i \in Sections : mediaSections[i].closed}
           new == Remote!NewSection(mid)
<1>1. /\ k \in 1..n + 1
      /\ closed = {} => k = n + 1 /\ slot.reuseMid = NoMid
      /\ closed # {} => /\ k \in closed
                        /\ slot.reuseMid = mediaSections[k].mid
                        /\ slot.reuseMid # NoMid
  BY NextSlotFacts
<1>2. UNCHANGED <<iceParameters, dtlsRole>>
  BY DEF Remote!Send
<1>3. Sections = 1..n /\ n \in Nat
  BY SeqFacts DEF Sections, Remote!TypeOK
<1>4. CASE closed = {}
  <2>1. Remote!AddMediaSection(new)
    BY <1>1, <1>4 DEF Remote!Send
  <2>2. k \notin Sections /\ k = n + 1
    BY <1>1, <1>3, <1>4
  <2> QED  BY <1>2, <2>1, <2>2, AddPlaces
<1>5. CASE closed # {}
  <2> DEFINE old == mediaSections[k].mid
             gone == {old}
  <2>1. k \in Sections /\ mediaSections[k].closed /\ slot.reuseMid = old
    BY <1>1, <1>5
  <2>2. old # DataMid /\ old \in DOMAIN midToIndex /\ midToIndex[old] = k
    BY <2>1 DEF Table
  <2>3. Remote!ReplaceMediaSection(new, old)
    BY <1>1, <1>5 DEF Remote!Send
  <2>4. Remote!IndexOf(old) = k
    BY <2>2 DEF Remote!IndexOf
  <2>5. new \in Remote!Section /\ new.mid = mid
    BY NewSectionFacts
  <2>6. /\ mediaSections \in Seq(Remote!Section) /\ firstMid \in Mids \cup {NoMid}
        /\ sdpMedia = mediaSections
    BY DEF Remote!TypeOK, Table
  <2>7. /\ mediaSections' = [mediaSections EXCEPT ![k] = new]
        /\ sdpMedia' = [sdpMedia EXCEPT ![k] = new]
        /\ bundleMids' = Remote!OpenMids(mediaSections')
        /\ firstMid' = firstMid
        /\ midToIndex' = Remote!Put(Remote!Erase(Remote!Put(midToIndex, old, k), old), new.mid, k)
    BY <2>3, <2>4 DEF Remote!ReplaceMediaSection, Remote!RegenerateBundleMids
  <2>8. midToIndex' = [m \in (DOMAIN midToIndex \ gone) \cup {mid} |->
                         IF m = mid THEN k ELSE midToIndex[m]]
    BY <2>2, <2>5, <2>7 DEF Remote!Put, Remote!Erase
  <2>9. /\ mediaSections' \in Seq(Remote!Section)
        /\ DOMAIN mediaSections' = Sections \cup {k}
        /\ \A i \in Sections : i # k => mediaSections'[i] = mediaSections[i]
        /\ mediaSections'[k] = new
    <3>1. mediaSections' = [mediaSections EXCEPT ![k] = new]
      BY <2>7
    <3>2. DOMAIN mediaSections' = Sections
      BY <3>1 DEF Sections
    <3>3. mediaSections' \in Seq(Remote!Section)
      BY <3>1, <2>1, <2>5, <2>6 DEF Sections
    <3> QED  BY <2>1, <3>1, <3>2, <3>3 DEF Sections
  <2>18. sdpMedia' = mediaSections'
    BY <2>6, <2>7
  <2>10. \A j \in Sections : j # k => mediaSections[j].mid # old
    BY <2>2 DEF Table
  <2>11. \A j \in Sections : j # k => mediaSections[j].mid \notin gone
    BY <2>10
  <2>12. k \in Sections => mediaSections[k].mid \in gone
    OBVIOUS
  <2>13. k \in 1..Len(mediaSections) + 1
    BY <1>1
  <2>14. firstMid' \in Mids \cup {NoMid}
    BY <2>6, <2>7
  <2>15. mid = DataMid \/ \A j \in Sections : j # k => mediaSections[j].mid # mid
    OBVIOUS
  <2>16. mediaSections'[k] = Remote!NewSection(mid)
    BY <2>9
  <2> HIDE DEF old, gone, k
  <2>17. Remote!TypeOK' /\ Table' /\ Placed(k, mid)
    BY <1>2, <2>7, <2>8, <2>9, <2>11, <2>12, <2>13, <2>14, <2>15, <2>16, <2>18, PutSection
  <2> QED  BY <2>17 DEF k
<1> QED  BY <1>4, <1>5

\* No operation but Remote!Send adds, moves or renames a section.
SameMids ==
    /\ Len(mediaSections') = Len(mediaSections)
    /\ DOMAIN mediaSections' = Sections
    /\ \A i \in Sections : mediaSections'[i].mid = mediaSections[i].mid

\* CloseMediaSection of a known mid: the one section that has it is inactive.
LEMMA TableCloses ==
  ASSUME Remote!TypeOK, Table, NEW mid \in DOMAIN midToIndex, mid # DataMid,
         Remote!CloseMediaSection(mid)
  PROVE  /\ Remote!TypeOK' /\ Table' /\ SameMids
         /\ UNCHANGED dtlsRole
         /\ \A i \in Sections :
              /\ mediaSections[i].mid # mid => mediaSections'[i] = mediaSections[i]
              /\ mediaSections[i].mid = mid => /\ mediaSections'[i].direction = "inactive"
                                               /\ mediaSections[i].closed => mediaSections'[i].closed
<1> DEFINE n == Len(mediaSections)
           k == midToIndex[mid]
           new == IF mid = firstMid THEN Remote!Disabled(mediaSections[k])
                                    ELSE Remote!Closed(mediaSections[k])
<1>1. /\ Sections = 1..n /\ n \in Nat
      /\ k \in Sections /\ mediaSections[k].mid = mid
      /\ \A i \in Sections : mediaSections[i].mid = mid => i = k
  BY SeqFacts DEF Sections, Remote!TypeOK, Table
<1>2. mediaSections[k] \in Remote!Section /\ mediaSections \in Seq(Remote!Section)
  BY <1>1, SeqFacts DEF Remote!TypeOK, Sections
<1>3. /\ new \in Remote!Section /\ new.mid = mid /\ new.direction = "inactive"
      /\ new.setup = mediaSections[k].setup
      /\ mediaSections[k].closed => new.closed
  BY <1>1, <1>2 DEF Remote!Section, Remote!Disabled, Remote!Closed
<1>4. Remote!IndexOf(mid) = k
  BY DEF Remote!IndexOf
<1>5. /\ mediaSections' = [mediaSections EXCEPT ![k] = new]
      /\ sdpMedia' = [sdpMedia EXCEPT ![k] = mediaSections'[k]]
      /\ bundleMids' = Remote!OpenMids(mediaSections')
      /\ UNCHANGED <<firstMid, iceParameters, dtlsRole>>
  BY <1>4 DEF Remote!CloseMediaSection, Remote!RegenerateBundleMids
<1>6. midToIndex' = midToIndex
  BY <1>4 DEF Remote!CloseMediaSection, Remote!Put, Remote!TypeOK
<1> HIDE DEF n, k, new
<1>7. /\ mediaSections' \in Seq(Remote!Section)
      /\ DOMAIN mediaSections' = Sections
      /\ \A i \in Sections : i # k => mediaSections'[i] = mediaSections[i]
      /\ mediaSections'[k] = new
      /\ Len(mediaSections') = Len(mediaSections)
  BY <1>1, <1>2, <1>3, <1>5 DEF Sections
<1>8. sdpMedia' = mediaSections'
  BY <1>5, <1>7 DEF Table
<1>9. Remote!TypeOK'
  <2>1. bundleMids' \subseteq Mids
    BY <1>5, <1>7, OpenMidsType
  <2> QED BY <1>5, <1>6, <1>7, <1>8, <2>1 DEF Remote!TypeOK
<1>10. SameMids
  BY <1>1, <1>3, <1>7 DEF SameMids
<1>11. Table'
  <2>1. Sections' = Sections
    BY <1>7 DEF Sections
  <2>2. Remote!SetupFor(dtlsRole)' = Remote!SetupFor(dtlsRole)
    BY <1>5 DEF Remote!SetupFor
  <2>3. ASSUME NEW i \in Sections
        PROVE  /\ mediaSections'[i].mid \in DOMAIN midToIndex
               /\ mediaSections'[i].mid # DataMid => midToIndex[mediaSections'[i].mid] = i
               /\ mediaSections'[i].closed =>
                    mediaSections'[i].mid # DataMid /\ mediaSections'[i].direction = "inactive"
               /\ mediaSections'[i].setup = Remote!SetupFor(dtlsRole)
    <3>1. CASE i = k
      BY <3>1, <1>1, <1>3, <1>7 DEF Table
    <3>2. CASE i # k
      BY <3>2, <1>7 DEF Table
    <3> QED  BY <3>1, <3>2
  <2>4. \A m \in DOMAIN midToIndex :
          midToIndex[m] \in Sections /\ mediaSections'[midToIndex[m]].mid = m
    BY <1>10 DEF Table, SameMids
  <2> QED  BY <1>6, <1>8, <2>1, <2>2, <2>3, <2>4 DEF Table
<1>12. \A i \in Sections :
              /\ mediaSections[i].mid # mid => mediaSections'[i] = mediaSections[i]
              /\ mediaSections[i].mid = mid => /\ mediaSections'[i].direction = "inactive"
                                               /\ mediaSections[i].closed => mediaSections'[i].closed
  BY <1>1, <1>3, <1>7
<1> QED  BY <1>5, <1>9, <1>10, <1>11, <1>12

\* What ICE restarts and role changes have in common.
Rewritten ==
    /\ SameMids
    /\ \A i \in Sections : /\ mediaSections'[i].closed = mediaSections[i].closed
                           /\ mediaSections'[i].direction = mediaSections[i].direction

\* An operation that rewrites every section in its place keeps the table.
LEMMA TableRewritten ==
  ASSUME Remote!TypeOK, Table,
         DOMAIN mediaSections' = Sections,
         mediaSections' = [i \in Sections |-> mediaSections'[i]],
         \A i \in Sections :
            /\ mediaSections'[i] \in Remote!Section
            /\ mediaSections'[i].mid = mediaSections[i].mid
            /\ mediaSections'[i].closed = mediaSections[i].closed
            /\ mediaSections'[i].direction = mediaSections[i].direction
            /\ mediaSections'[i].setup = Remote!SetupFor(dtlsRole'),
         sdpMedia' = mediaSections', UNCHANGED <<midToIndex, firstMid, bundleMids>>,
         iceParameters' \in IceParams, dtlsRole' \in Remote!DtlsRoles
  PROVE  Remote!TypeOK' /\ Table' /\ Rewritten
<1> DEFINE n == Len(mediaSections)
<1>1. Sections = 1..n /\ n \in Nat
  BY SeqFacts DEF Sections, Remote!TypeOK
<1>2. mediaSections' \in [1..n -> Remote!Section]
  BY <1>1
<1> HIDE DEF n
<1>3. mediaSections' \in Seq(Remote!Section) /\ Len(mediaSections') = n
  BY <1>1, <1>2, Offers!FunctionIsSeq
<1>4. Rewritten
  BY <1>1, <1>3 DEF Rewritten, SameMids, n
<1>5. Remote!TypeOK'
  BY <1>3 DEF Remote!TypeOK
<1>6. Table'
  <2>1. Sections' = Sections
    BY DEF Sections
  <2>2. ASSUME NEW i \in Sections
        PROVE  /\ mediaSections'[i].mid \in DOMAIN midToIndex
               /\ mediaSections'[i].mid # DataMid => midToIndex[mediaSections'[i].mid] = i
               /\ mediaSections'[i].closed =>
                    mediaSections'[i].mid # DataMid /\ mediaSections'[i].direction = "inactive"
               /\ mediaSections'[i].setup = Remote!SetupFor(dtlsRole')
    BY DEF Table
  <2>3. \A m \in DOMAIN midToIndex :
          midToIndex[m] \in Sections /\ mediaSections'[midToIndex[m]].mid = m
    BY DEF Table
  <2>4. Remote!SetupFor(dtlsRole') = Remote!SetupFor(dtlsRole)'
    BY DEF Remote!SetupFor
  <2> QED  BY <2>1, <2>2, <2>3, <2>4 DEF Table
<1> QED  BY <1>4, <1>5, <1>6

\* An ICE restart.
LEMMA TableIce ==
  ASSUME Remote!TypeOK, Table, NEW ice \in IceParams, Remote!UpdateIceParameters(ice)
  PROVE  Remote!TypeOK' /\ Table' /\ Rewritten /\ UNCHANGED dtlsRole
<1>1. \A i \in Sections :
        /\ mediaSections[i] \in Remote!Section
        /\ mediaSections[i].setup = Remote!SetupFor(dtlsRole)
  BY SeqFacts DEF Sections, Remote!TypeOK, Table
<1>2. \A section \in Remote!Section :
        /\ [section EXCEPT !.ice = ice] \in Remote!Section
        /\ [section EXCEPT !.ice = ice].mid = section.mid
        /\ [section EXCEPT !.ice = ice].closed = section.closed
        /\ [section EXCEPT !.ice = ice].direction = section.direction
        /\ [section EXCEPT !.ice = ice].setup = section.setup
  BY DEF Remote!Section
<1>3. /\ UNCHANGED <<midToIndex, firstMid, bundleMids, dtlsRole>>
      /\ iceParameters' = ice
      /\ mediaSections' = [i \in Sections |-> [mediaSections[i] EXCEPT !.ice = ice]]
      /\ sdpMedia' = [i \in Sections |-> mediaSections'[i]]
  BY DEF Remote!UpdateIceParameters, Sections
<1>4. /\ DOMAIN mediaSections' = Sections
      /\ mediaSections' = [i \in Sections |-> mediaSections'[i]]
      /\ sdpMedia' = mediaSections'
  BY <1>3
<1>5. \A i \in Sections : mediaSections'[i] = [mediaSections[i] EXCEPT !.ice = ice]
  BY <1>3
<1>6. dtlsRole' \in Remote!DtlsRoles /\ Remote!SetupFor(dtlsRole') = Remote!SetupFor(dtlsRole)
  BY <1>3 DEF Remote!TypeOK
<1>7. \A i \in Sections :
        /\ mediaSections'[i] \in Remote!Section
        /\ mediaSections'[i].mid = mediaSections[i].mid
        /\ mediaSections'[i].closed = mediaSections[i].closed
        /\ mediaSections'[i].direction = mediaSections[i].direction
        /\ mediaSections'[i].setup = Remote!SetupFor(dtlsRole')
  <2> TAKE i \in Sections
  <2>1. mediaSections[i] \in Remote!Section
    BY <1>1
  <2>2. LET new == [mediaSections[i] EXCEPT !.ice = ice]
        IN  /\ new \in Remote!Section /\ new.mid = mediaSections[i].mid
            /\ new.closed = mediaSections[i].closed /\ new.direction = mediaSections[i].direction
            /\ new.setup = mediaSections[i].setup
    BY <1>2, <2>1, Zenon
  <2> QED  BY <1>1, <1>5, <1>6, <2>2
<1> QED  BY <1>3, <1>4, <1>6, <1>7, TableRewritten

\* SetupTransport tells the sections the role of the remote side.
LEMMA TableRole ==
  ASSUME Remote!TypeOK, Table, NEW role \in {"client", "server"}, Remote!UpdateDtlsRole(role)
  PROVE  Remote!TypeOK' /\ Table' /\ Rewritten /\ dtlsRole' = role
<1> DEFINE setup == Remote!SetupFor(role)
<1>1. \A i \in Sections : mediaSections[i] \in Remote!Section
  BY SeqFacts DEF Sections, Remote!TypeOK
<1>2. setup \in Remote!Setups
  BY DEF Remote!SetupFor, Remote!Setups
<1>3. /\ UNCHANGED <<midToIndex, firstMid, bundleMids, iceParameters>>
      /\ dtlsRole' = role
      /\ mediaSections' = [i \in Sections |-> [mediaSections[i] EXCEPT !.setup = setup]]
      /\ sdpMedia' = [i \in Sections |-> mediaSections'[i]]
  BY DEF Remote!UpdateDtlsRole, Sections
<1>4. setup = Remote!SetupFor(dtlsRole') /\ dtlsRole' \in Remote!DtlsRoles
      /\ iceParameters' \in IceParams
  BY <1>3 DEF Remote!DtlsRoles, Remote!TypeOK
<1> HIDE DEF setup
<1>5. \A section \in Remote!Section :
        /\ [section EXCEPT !.setup = setup] \in Remote!Section
        /\ [section EXCEPT !.setup = setup].mid = section.mid
        /\ [section EXCEPT !.setup = setup].closed = section.closed
        /\ [section EXCEPT !.setup = setup].direction = section.direction
        /\ [section EXCEPT !.setup = setup].setup = setup
  BY <1>2 DEF Remote!Section
<1>6. /\ DOMAIN mediaSections' = Sections
      /\ mediaSections' = [i \in Sections |-> mediaSections'[i]]
      /\ sdpMedia' = mediaSections'
  BY <1>3
<1>7. \A i \in Sections : mediaSections'[i] = [mediaSections[i] EXCEPT !.setup = setup]
  BY <1>3
<1>8. \A i \in Sections :
        /\ mediaSections'[i] \in Remote!Section
        /\ mediaSections'[i].mid = mediaSections[i].mid
        /\ mediaSections'[i].closed = mediaSections[i].closed
        /\ mediaSections'[i].direction = mediaSections[i].direction
        /\ mediaSections'[i].setup = Remote!SetupFor(dtlsRole')
  <2> TAKE i \in Sections
  <2>1. mediaSections[i] \in Remote!Section
    BY <1>1
  <2>2. LET new == [mediaSections[i] EXCEPT !.setup = setup]
        IN  /\ new \in Remote!Section /\ new.mid = mediaSections[i].mid
            /\ new.closed = mediaSections[i].closed /\ new.direction = mediaSections[i].direction
            /\ new.setup = setup
    BY <1>5, <2>1, Zenon
  <2> QED  BY <1>4, <1>7, <2>2
<1> QED  BY <1>3, <1>4, <1>6, <1>8, TableRewritten

-----------------------------------------------------------------------------
(* A negotiation: an offer is set, and RemoteSdp's answer if it fits.      *)

\* The peer that a call makes its offer with: its own, or without the sender
\* that the call stops.
Starts(p) ==
    /\ p \in Offers!Peers(Mids)
    /\ DOMAIN p.transceivers = Transceivers
    /\ p.closed = peer.closed /\ p.local = peer.local /\ p.remote = peer.remote
    /\ p.channels = peer.channels
    /\ \A t \in Transceivers :
         /\ p.transceivers[t].mid = Tr(t).mid /\ p.transceivers[t].stopped = Tr(t).stopped
         /\ p.transceivers[t].sending <=> Tr(t).sending /\ t \notin stopped'
    /\ Offers!WellFormed(p)
    /\ Offers!NewTransceivers(p) = Pending

ClosedMids == {mediaSections[i].mid : i \in {j \in Sections : mediaSections[j].closed}}

\* The answer has the m= lines of the offer.
Fits(offer) ==
    /\ Len(mediaSections') = Len(offer)
    /\ \A i \in 1..Len(offer) : mediaSections'[i].mid = offer[i].mid

\* What a negotiation makes of the peer connection.
Negotiated(offer, applied) ==
    /\ peer' \in Offers!Peers(Mids)
    /\ Transceivers' = Transceivers
    /\ peer'.closed = peer.closed /\ peer'.local = offer /\ peer'.channels = peer.channels
    /\ Offers!WellFormed(peer')
    /\ Pending' = {}
    /\ \A t \in Transceivers : Tr(t)'.sending <=> Tr(t).sending /\ t \notin stopped'
    /\ \A t \in Transceivers : Tr(t).stopped => Tr(t)'.stopped
    /\ \A t \in Transceivers : Tr(t)'.stopped => Tr(t).stopped \/ t \in ClosedMids'
    /\ \A t \in Transceivers : Tr(t).mid = t /\ t \notin ClosedMids' => Tr(t)'.mid = t
    /\ applied => Fits(offer)
    /\ IF applied
       THEN /\ peer'.signaling = "stable" /\ peer'.remote = Answer'
            /\ \A t \in Transceivers :
                 t \in Offers!MidsOf(offer) /\ t \in ClosedMids' => Tr(t)'.stopped
       ELSE /\ peer'.remote = peer.remote
            /\ \A t \in Transceivers : Tr(t)'.stopped = Tr(t).stopped

\* The transceivers are numbered from 1, and their numbers are mids.
LEMMA TransceiversFacts ==
  ASSUME Typed
  PROVE  \E n \in Nat : /\ Transceivers = 1..n /\ n <= MaxTransceivers
                        /\ 1..n \subseteq Mids /\ NoMid \notin 1..n /\ DataMid \notin 1..n
                        /\ n = Len(peer.transceivers)
<1> DEFINE n == Len(peer.transceivers)
<1>1. peer.transceivers \in Seq(Offers!Transceiver(Mids))
  BY DEF Typed, Offers!Peers
<1>2. n \in Nat /\ Transceivers = 1..n
  BY <1>1, SeqFacts DEF Transceivers
<1>3. n <= MaxTransceivers
  <2>1. CASE n = 0
    BY <2>1, MidsFacts
  <2>2. CASE n # 0
    <3>1. n \in Transceivers
      BY <1>2, <2>2
    <3>2. Transceivers \subseteq 1..MaxTransceivers
      BY DEF Typed
    <3> HIDE DEF n
    <3> QED  BY <3>1, <3>2, MidsFacts
  <2> QED  BY <2>1, <2>2
<1>4. 1..n \subseteq 1..MaxTransceivers
  BY <1>2, <1>3, MidsFacts
<1> HIDE DEF n
<1>5. 1..n \subseteq Mids /\ NoMid \notin 1..n /\ DataMid \notin 1..n
  BY <1>4, MidsFacts
<1> QED  BY <1>2, <1>3, <1>5 DEF n

\* Stopping a sender makes no difference to the m= lines of the offer.
LEMMA StartsOffer ==
  ASSUME NEW p, Starts(p), NEW offer
  PROVE  Offers!OfferOf(p, offer) <=> Offers!OfferOf(peer, offer)
<1>1. Offers!AssociatedMids(p) = Offers!AssociatedMids(peer)
  BY DEF Starts, Offers!AssociatedMids, Transceivers, Tr
<1>2. Offers!RecyclableLines(p) = Offers!RecyclableLines(peer)
  BY <1>1 DEF Starts, Offers!RecyclableLines
<1> QED  BY <1>2 DEF Starts, Offers!OfferOf, Pending

\* A call that stops no sender starts with the peer as it is.
LEMMA PeerStarts ==
  ASSUME Typed, Offers!WellFormed(peer), stopped' = stopped,
         \A t \in stopped : ~Tr(t).sending
  PROVE  Starts(peer)
<1>1. \A t \in Transceivers : Tr(t).sending <=> Tr(t).sending /\ t \notin stopped'
  OBVIOUS
<1> QED  BY <1>1 DEF Typed, Starts, Transceivers, Tr, Pending

\* What StopSender changes, and what it keeps.
LEMMA StoppedSender ==
  ASSUME Typed, Offers!WellFormed(peer), NEW t \in Transceivers,
         NEW p, p = Pc!StopSender(peer, t)
  PROVE  /\ p \in Offers!Peers(Mids)
         /\ p.closed = peer.closed /\ p.local = peer.local
         /\ p.remote = peer.remote /\ p.channels = peer.channels
         /\ DOMAIN p.transceivers = Transceivers
         /\ \A u \in Transceivers :
              /\ p.transceivers[u].mid = Tr(u).mid
              /\ p.transceivers[u].stopped = Tr(u).stopped
              /\ u # t => p.transceivers[u].sending = Tr(u).sending
         /\ ~p.transceivers[t].sending
         /\ Offers!WellFormed(p)
         /\ Offers!NewTransceivers(p) = Pending
<1> PICK n \in Nat : Transceivers = 1..n
  BY TransceiversFacts
<1>1. p = Offers!StopSender(peer, t)
  BY Same
<1>2. peer \in Offers!Peers(Mids) /\ DOMAIN peer.transceivers = 1..n /\ t \in 1..n
  BY DEF Typed, Transceivers
<1>3. /\ p \in Offers!Peers(Mids)
      /\ p.closed = peer.closed /\ p.local = peer.local
      /\ p.remote = peer.remote /\ p.channels = peer.channels
      /\ DOMAIN p.transceivers = 1..n
      /\ \A u \in 1..n : /\ p.transceivers[u].mid = peer.transceivers[u].mid
                         /\ p.transceivers[u].stopped = peer.transceivers[u].stopped
                         /\ u # t => p.transceivers[u].sending = peer.transceivers[u].sending
      /\ ~p.transceivers[t].sending
      /\ Offers!WellFormed(p)
      /\ Offers!NewTransceivers(p) = Offers!NewTransceivers(peer)
  BY <1>1, <1>2, Offers!StopSenderKeeps, SMTT(60)
<1>4. Offers!NewTransceivers(p) = Pending
  BY <1>3 DEF Pending
<1>5. \A u \in Transceivers :
        /\ p.transceivers[u].mid = Tr(u).mid
        /\ p.transceivers[u].stopped = Tr(u).stopped
        /\ u # t => p.transceivers[u].sending = Tr(u).sending
  BY <1>3 DEF Tr
<1> QED  BY <1>3, <1>4, <1>5

\* StopSending starts with the peer without the sender.
LEMMA StoppedSenderStarts ==
  ASSUME Typed, Offers!WellFormed(peer), NEW t \in Transceivers, stopped' = stopped \cup {t},
         \A u \in stopped : ~Tr(u).sending,
         NEW p, p = Pc!StopSender(peer, t)
  PROVE  Starts(p)
<1>1. /\ p \in Offers!Peers(Mids)
      /\ p.closed = peer.closed /\ p.local = peer.local
      /\ p.remote = peer.remote /\ p.channels = peer.channels
      /\ DOMAIN p.transceivers = Transceivers
      /\ \A u \in Transceivers :
           /\ p.transceivers[u].mid = Tr(u).mid
           /\ p.transceivers[u].stopped = Tr(u).stopped
           /\ u # t => p.transceivers[u].sending = Tr(u).sending
      /\ ~p.transceivers[t].sending
      /\ Offers!WellFormed(p)
      /\ Offers!NewTransceivers(p) = Pending
  BY StoppedSender
<1>2. \A u \in Transceivers : p.transceivers[u].sending <=> Tr(u).sending /\ u \notin stopped'
  BY <1>1
<1> QED  BY <1>1, <1>2 DEF Starts

\* The m= lines of RemoteSdp's answer are its sections.
LEMMA AnswerFacts ==
  ASSUME Remote!TypeOK', Table'
  PROVE  /\ Answer' \in Offers!Lines(Mids)
         /\ Len(Answer') = Len(mediaSections')
         /\ DOMAIN Answer' = 1..Len(mediaSections') /\ Len(mediaSections') \in Nat
         /\ Sections' = 1..Len(mediaSections')
         /\ \A i \in Sections' : /\ Answer'[i].mid = mediaSections'[i].mid
                                 /\ Answer'[i].rejected = mediaSections'[i].closed
         /\ Offers!RejectedMids(Answer') = ClosedMids'
         /\ ClosedMids' \subseteq Mids
<1> DEFINE n == Len(mediaSections')
<1>1. /\ n \in Nat /\ Sections' = 1..n /\ sdpMedia' = mediaSections'
      /\ \A i \in 1..n : mediaSections'[i] \in Remote!Section
  BY SeqFacts DEF Remote!TypeOK, Table, Sections
<1>2. Answer' = [i \in 1..n |-> [mid |-> mediaSections'[i].mid, rejected |-> mediaSections'[i].closed]]
  BY <1>1 DEF Answer, Sections
<1>3. \A i \in 1..n : mediaSections'[i].mid \in Mids /\ mediaSections'[i].closed \in BOOLEAN
  BY <1>1 DEF Remote!Section
<1>4. Answer' \in [1..n -> [mid : Mids, rejected : BOOLEAN]]
  BY <1>2, <1>3
<1> HIDE DEF n
<1>5. Answer' \in Offers!Lines(Mids) /\ Len(Answer') = n
  BY <1>1, <1>4, Offers!FunctionIsSeq DEF Offers!Lines
<1>6. \A i \in Sections' : /\ Answer'[i].mid = mediaSections'[i].mid
                           /\ Answer'[i].rejected = mediaSections'[i].closed
  BY <1>1, <1>2
<1>7. DOMAIN Answer' = Sections'
  BY <1>1, <1>2
<1>8. Offers!RejectedMids(Answer') = ClosedMids'
  BY <1>6, <1>7 DEF Offers!RejectedMids, ClosedMids
<1>9. ClosedMids' \subseteq Mids
  BY <1>1, <1>3 DEF ClosedMids
<1> QED  BY <1>1, <1>5, <1>6, <1>7, <1>8, <1>9 DEF n

\* The peer connection between the offer and the answer.
LEMMA OfferSet ==
  ASSUME Typed, NEW start, Starts(start),
         NEW offer \in Offers!Lines(Mids), Offers!OfferOf(start, offer),
         NEW p, p = Pc!SetLocalOffer(start, offer)
  PROVE  /\ p \in Offers!Peers(Mids)
         /\ p.closed = peer.closed /\ p.signaling = "have-local-offer" /\ p.local = offer
         /\ p.remote = peer.remote /\ p.channels = peer.channels
         /\ DOMAIN p.transceivers = Transceivers
         /\ Offers!WellFormed(p)
         /\ Offers!NewTransceivers(p) = {}
         /\ \A t \in Transceivers :
              /\ p.transceivers[t].sending <=> Tr(t).sending /\ t \notin stopped'
              /\ p.transceivers[t].stopped = Tr(t).stopped
              /\ Tr(t).mid = t => p.transceivers[t].mid = t
<1> PICK n \in Nat : /\ Transceivers = 1..n /\ 1..n \subseteq Mids
                     /\ NoMid \notin 1..n /\ DataMid \notin 1..n
  BY TransceiversFacts
<1>1. p = Offers!SetLocalOffer(start, offer)
  BY Same
<1>2. NoMid \notin Mids
  BY MidsFacts
<1>3. /\ start \in Offers!Peers(Mids) /\ DOMAIN start.transceivers = 1..n
      /\ Offers!WellFormed(start)
  BY DEF Starts
<1>4. /\ p \in Offers!Peers(Mids)
      /\ p.closed = start.closed /\ p.signaling = "have-local-offer" /\ p.local = offer
      /\ p.remote = start.remote /\ p.channels = start.channels
      /\ DOMAIN p.transceivers = 1..n
      /\ Offers!WellFormed(p)
      /\ Offers!NewTransceivers(p) = {}
      /\ \A t \in 1..n :
           /\ p.transceivers[t].sending = start.transceivers[t].sending
           /\ p.transceivers[t].stopped = start.transceivers[t].stopped
           /\ start.transceivers[t].mid = t => p.transceivers[t].mid = t
  BY <1>1, <1>2, <1>3, Offers!SetLocalOfferKeeps
<1> QED  BY <1>4 DEF Starts

\* An offer that was set, and no answer applied.
LEMMA NotApplied ==
  ASSUME Typed, NEW start, Starts(start),
         NEW offer \in Offers!Lines(Mids), Offers!OfferOf(start, offer),
         peer' = Pc!SetLocalOffer(start, offer)
  PROVE  Negotiated(offer, FALSE)
<1> PICK p : p = peer'
  OBVIOUS
<1>1. /\ p \in Offers!Peers(Mids)
      /\ p.closed = peer.closed /\ p.signaling = "have-local-offer" /\ p.local = offer
      /\ p.remote = peer.remote /\ p.channels = peer.channels
      /\ DOMAIN p.transceivers = Transceivers
      /\ Offers!WellFormed(p)
      /\ Offers!NewTransceivers(p) = {}
      /\ \A t \in Transceivers :
           /\ p.transceivers[t].sending <=> Tr(t).sending /\ t \notin stopped'
           /\ p.transceivers[t].stopped = Tr(t).stopped
           /\ Tr(t).mid = t => p.transceivers[t].mid = t
  BY OfferSet
<1>2. \A t \in Transceivers : /\ Tr(t)'.sending <=> Tr(t).sending /\ t \notin stopped'
                              /\ Tr(t)'.stopped = Tr(t).stopped
                              /\ Tr(t).mid = t => Tr(t)'.mid = t
  BY <1>1 DEF Tr
<1>3. Transceivers' = Transceivers /\ Pending' = {}
  BY <1>1 DEF Transceivers, Pending
<1> QED  BY <1>1, <1>2, <1>3 DEF Negotiated

\* The offer is set, and the answer applied exactly if it fits.
LEMMA Negotiation ==
  ASSUME Typed, NEW start, Starts(start), ~peer.closed,
         NEW offer \in Offers!Lines(Mids), Offers!OfferOf(start, offer),
         NEW p, p = Pc!SetLocalOffer(start, offer),
         Remote!TypeOK', Table', ApplyAnswer(p)
  PROVE  /\ Fits(offer) => Negotiated(offer, TRUE)
         /\ ~Fits(offer) => Negotiated(offer, FALSE)
         /\ Pc!AnswerFits(p, Answer') <=> Fits(offer)
<1> PICK n \in Nat : /\ Transceivers = 1..n /\ 1..n \subseteq Mids
                     /\ NoMid \notin 1..n /\ DataMid \notin 1..n
  BY TransceiversFacts
<1>2. NoMid \notin Mids
  BY MidsFacts
<1>4. /\ p \in Offers!Peers(Mids)
      /\ p.closed = peer.closed /\ p.signaling = "have-local-offer" /\ p.local = offer
      /\ p.remote = peer.remote /\ p.channels = peer.channels
      /\ DOMAIN p.transceivers = 1..n
      /\ Offers!WellFormed(p)
      /\ Offers!NewTransceivers(p) = {}
      /\ \A t \in Transceivers :
           /\ p.transceivers[t].sending <=> Tr(t).sending /\ t \notin stopped'
           /\ p.transceivers[t].stopped = Tr(t).stopped
           /\ Tr(t).mid = t => p.transceivers[t].mid = t
  BY OfferSet
<1>5. /\ Answer' \in Offers!Lines(Mids)
      /\ Len(Answer') = Len(mediaSections')
      /\ DOMAIN Answer' = 1..Len(mediaSections') /\ Len(mediaSections') \in Nat
      /\ \A i \in 1..Len(mediaSections') : Answer'[i].mid = mediaSections'[i].mid
      /\ Offers!RejectedMids(Answer') = ClosedMids'
  BY AnswerFacts
<1>6. Pc!AnswerFits(p, Answer') <=> Fits(offer)
  BY <1>4, <1>5 DEF Pc!AnswerFits, Fits
<1>7. CASE ~Fits(offer)
  <2>1. peer' = Pc!SetLocalOffer(start, offer)
    BY <1>6, <1>7 DEF ApplyAnswer
  <2>2. Negotiated(offer, FALSE)
    BY <2>1, NotApplied
  <2> QED  BY <2>2, <1>6, <1>7
<1>8. CASE Fits(offer)
  <2>1. peer' = Offers!SetRemoteAnswer(p, Answer')
    BY <1>6, <1>8, Same DEF ApplyAnswer
  <2> DEFINE q == peer'
  <2>2. /\ q \in Offers!Peers(Mids)
        /\ q.closed = p.closed /\ q.signaling = "stable" /\ q.local = p.local
        /\ q.remote = Answer' /\ q.channels = p.channels
        /\ DOMAIN q.transceivers = 1..n
        /\ Offers!WellFormed(q)
        /\ Offers!NewTransceivers(q) \subseteq Offers!NewTransceivers(p)
        /\ \A t \in 1..n :
             /\ q.transceivers[t].sending = p.transceivers[t].sending
             /\ p.transceivers[t].mid \in Offers!RejectedMids(Answer') =>
                  q.transceivers[t].stopped /\ q.transceivers[t].mid = NoMid
             /\ p.transceivers[t].mid \notin Offers!RejectedMids(Answer') =>
                  q.transceivers[t] = p.transceivers[t]
    BY <1>2, <1>4, <1>5, <2>1, Offers!SetRemoteAnswerKeeps
  <2>3. Transceivers' = Transceivers /\ Pending' = {}
    BY <2>2, <1>4 DEF Transceivers, Pending
  <2>4. NoMid \notin ClosedMids'
    BY AnswerFacts, MidsFacts
  <2>5. \A t \in Transceivers :
          p.transceivers[t].mid = IF t \in Offers!MidsOf(offer) /\ ~p.transceivers[t].stopped
                                  THEN t ELSE NoMid
    BY <1>4 DEF Offers!WellFormed
  <2>6. \A t \in Transceivers : Tr(t)'.sending <=> Tr(t).sending /\ t \notin stopped'
    BY <2>2, <1>4 DEF Tr
  <2>7. \A t \in Transceivers : /\ p.transceivers[t].mid \in ClosedMids' => Tr(t)'.stopped
                                /\ p.transceivers[t].mid \notin ClosedMids' =>
                                      Tr(t)' = p.transceivers[t]
    BY <2>2, <1>5 DEF Tr
  <2>8. \A t \in Transceivers : /\ p.transceivers[t].stopped = Tr(t).stopped
                                /\ Tr(t).mid = t => p.transceivers[t].mid = t
    BY <1>4
  <2>9. \A t \in Transceivers : Tr(t).stopped => Tr(t)'.stopped
    BY <2>7, <2>8
  <2>10. \A t \in Transceivers : Tr(t)'.stopped => Tr(t).stopped \/ t \in ClosedMids'
    BY <2>4, <2>5, <2>7, <2>8
  <2>11. \A t \in Transceivers : Tr(t).mid = t /\ t \notin ClosedMids' => Tr(t)'.mid = t
    BY <2>7, <2>8
  <2>12. \A t \in Transceivers :
                 t \in Offers!MidsOf(offer) /\ t \in ClosedMids' => Tr(t)'.stopped
    BY <2>5, <2>7, <2>8, <2>9
  <2>13. q.closed = peer.closed /\ q.channels = peer.channels /\ q.local = offer
    BY <2>2, <1>4
  <2>14. Negotiated(offer, TRUE)
    BY <1>8, <2>2, <2>3, <2>6, <2>9, <2>10, <2>11, <2>12, <2>13 DEF Negotiated
  <2> QED  BY <1>6, <1>8, <2>14
<1> QED  BY <1>6, <1>7, <1>8

-----------------------------------------------------------------------------
(* What a negotiation keeps of the invariant.                              *)

\* The m= lines of the local description as places in an offer.
LEMMA LocalInOffer ==
  ASSUME Typed, NEW offer \in Offers!Lines(Mids), Offers!OfferOf(peer, offer)
  PROVE  /\ DOMAIN peer.local = 1..Len(peer.local) /\ Len(peer.local) \in Nat
         /\ DOMAIN offer = 1..Len(offer) /\ Len(offer) \in Nat
         /\ Len(peer.local) <= Len(offer)
         /\ DOMAIN peer.local \subseteq DOMAIN offer
<1>1. /\ DOMAIN peer.local = 1..Len(peer.local) /\ Len(peer.local) \in Nat
      /\ DOMAIN offer = 1..Len(offer) /\ Len(offer) \in Nat
      /\ Len(peer.local) <= Len(offer)
  BY SeqFacts DEF Typed, Offers!Peers, Offers!Lines, Offers!OfferOf
<1>2. DOMAIN peer.local \subseteq DOMAIN offer
  BY <1>1
<1> QED  BY <1>1, <1>2

\* Where a section stands, the offer has its mid, or its transceiver is gone.
LEMMA KeptLine ==
  ASSUME Typed, Offers!WellFormed(peer), Aligned,
         NEW offer \in Offers!Lines(Mids), Offers!OfferOf(peer, offer),
         NEW i \in Sections, NEW mid, mid = mediaSections[i].mid, mid # DataMid
  PROVE  /\ mid \in Transceivers
         /\ \/ i \in DOMAIN offer /\ offer[i].mid = mid
            \/ Tr(mid).stopped /\ mid \notin Offers!MidsOf(offer)
<1>1. /\ mid \in Transceivers
      /\ \/ i \in DOMAIN peer.local /\ peer.local[i].mid = mid
         \/ Tr(mid).stopped /\ mid \notin LocalMids
  BY DEF Aligned
<1>3. DOMAIN peer.local \subseteq DOMAIN offer
  BY LocalInOffer
<1>4. mid \notin Pending \/ ~Tr(mid).stopped
  BY DEF Pending, Offers!NewTransceivers, Tr
<1>5. CASE Tr(mid).stopped /\ mid \notin LocalMids
  BY <1>1, <1>4, <1>5 DEF Offers!OfferOf, Offers!MidsOf, Pending, LocalMids
<1>6. CASE i \in DOMAIN peer.local /\ peer.local[i].mid = mid
  <2>1. CASE offer[i].mid = mid
    BY <1>1, <1>3, <1>6, <2>1
  <2>2. CASE offer[i].mid # mid
    <3>1. i \in Offers!RecyclableLines(peer)
      BY <1>6, <2>2 DEF Offers!OfferOf
    <3>2. mid \notin Offers!AssociatedMids(peer)
      BY <3>1, <1>6 DEF Offers!RecyclableLines
    <3>3. Tr(mid).mid # mid
      BY <3>2, <1>1, TransceiversFacts DEF Offers!AssociatedMids, Tr, Transceivers
    <3>4. mid \in LocalMids
      BY <1>6 DEF LocalMids, Offers!MidsOf
    <3>5. Tr(mid).stopped
      BY <3>3, <3>4, <1>1 DEF Offers!WellFormed, Tr, LocalMids, Transceivers
    <3>6. \A j \in DOMAIN offer : offer[j].mid # mid
      <4> SUFFICES ASSUME NEW j \in DOMAIN offer, offer[j].mid = mid PROVE FALSE
        OBVIOUS
      <4>1. j \in DOMAIN peer.local /\ peer.local[j].mid = mid
        BY <1>4, <3>5 DEF Offers!OfferOf, Pending
      <4>2. j = i
        BY <4>1, <1>6 DEF Offers!WellFormed, Offers!UniqueMids
      <4> QED  BY <4>2, <2>2
    <3> QED  BY <1>1, <3>5, <3>6 DEF Offers!MidsOf
  <2> QED  BY <2>1, <2>2
<1> QED  BY <1>1, <1>5, <1>6

\* Every section but those of the data channels stands where one with its mid
\* stood, or where the offer has it.
Covers(offer) ==
    \A i \in Sections' :
      \/ mediaSections'[i].mid = DataMid
      \/ i \in Sections /\ mediaSections'[i].mid = mediaSections[i].mid
      \/ i \in DOMAIN offer /\ offer[i].mid = mediaSections'[i].mid

\* The sections stay where the peer connection has the lines with their mids.
LEMMA NegotiationAligned ==
  ASSUME Typed, Offers!WellFormed(peer), Aligned,
         NEW offer \in Offers!Lines(Mids), Offers!OfferOf(peer, offer),
         NEW applied, Negotiated(offer, applied), Covers(offer)
  PROVE  Aligned'
<1>1. /\ Transceivers' = Transceivers /\ peer'.local = offer
      /\ \A t \in Transceivers : Tr(t).stopped => Tr(t)'.stopped
      /\ Offers!WellFormed(peer')
  BY DEF Negotiated
<1> SUFFICES ASSUME NEW i \in Sections', NEW mid, mid = mediaSections'[i].mid, mid # DataMid
             PROVE  /\ mid \in Transceivers
                    /\ \/ i \in DOMAIN offer /\ offer[i].mid = mid
                       \/ peer'.transceivers[mid].stopped /\ mid \notin Offers!MidsOf(offer)
  BY <1>1 DEF Aligned, LocalMids, Tr
<1>2. CASE i \in Sections /\ mediaSections'[i].mid = mediaSections[i].mid
  <2>1. /\ mid \in Transceivers
        /\ \/ i \in DOMAIN offer /\ offer[i].mid = mid
           \/ Tr(mid).stopped /\ mid \notin Offers!MidsOf(offer)
    BY <1>2, KeptLine
  <2> QED  BY <2>1, <1>1 DEF Tr
<1>3. CASE i \in DOMAIN offer /\ offer[i].mid = mid
  <2>1. mid \in Offers!MidsOf(offer)
    BY <1>3 DEF Offers!MidsOf
  <2>2. Offers!MidsOf(offer) \subseteq Transceivers \cup {DataMid}
    BY <1>1 DEF Offers!WellFormed, Transceivers
  <2> QED  BY <1>3, <2>1, <2>2
<1> QED  BY <1>2, <1>3 DEF Covers

\* A producer loses neither its section nor its sender, and one may be added
\* if the answer fits.
LEMMA NegotiationProducers ==
  ASSUME Typed, Offers!WellFormed(peer), Waiting, Producers, Remote!TypeOK',
         NEW offer \in Offers!Lines(Mids), Offers!OfferOf(peer, offer),
         NEW applied, Negotiated(offer, applied),
         NEW added, mapMidTransceiver' = mapMidTransceiver \cup added,
         added = {} \/ (Fits(offer) /\ call.op = "send" /\ added = {call.transceiver}),
         stopped \subseteq stopped', stopped' \subseteq mapMidTransceiver,
         \A i \in Sections' : mediaSections'[i].closed => mediaSections'[i].mid \in stopped',
         \A i \in Sections' :
            mediaSections'[i].mid \in mapMidTransceiver' /\ mediaSections'[i].mid \notin stopped'
              => mediaSections'[i].direction = "open",
         \A t \in mapMidTransceiver : Tr(t).mid = t => t \in AnsweredMids'
  PROVE  Producers'
<1>1. /\ Transceivers' = Transceivers /\ peer'.local = offer
      /\ Offers!WellFormed(peer')
      /\ Pending' = {}
      /\ \A t \in Transceivers : Tr(t)'.sending <=> Tr(t).sending /\ t \notin stopped'
      /\ \A t \in Transceivers : Tr(t).stopped => Tr(t)'.stopped
      /\ \A t \in Transceivers : Tr(t)'.stopped => Tr(t).stopped \/ t \in ClosedMids'
      /\ \A t \in Transceivers : Tr(t).mid = t /\ t \notin ClosedMids' => Tr(t)'.mid = t
  BY DEF Negotiated
<1>2. mapMidTransceiver \subseteq Transceivers /\ mapMidTransceiver \cap Pending = {}
  BY DEF Typed, Producers
<1>3. ClosedMids' \subseteq stopped'
  BY DEF ClosedMids
<1>4. \A t \in Transceivers :
        /\ t \in Offers!MidsOf(offer) /\ ~Tr(t)'.stopped => Tr(t)'.mid = t
        /\ Tr(t)'.mid = t \/ Tr(t)'.mid = NoMid
        /\ Tr(t)'.mid = t /\ t # NoMid => ~Tr(t)'.stopped
  BY <1>1 DEF Offers!WellFormed, Tr, Transceivers
<1>5. NoMid \notin Transceivers
  BY TransceiversFacts
<1>6. \A t \in Transceivers : ~Tr(t).stopped /\ t \notin Pending => Tr(t).mid = t
  BY DEF Pending, Offers!NewTransceivers, Offers!WellFormed, Tr, Transceivers
<1>7. \A t \in added : /\ t \in Pending /\ t \in Transceivers /\ t \notin mapMidTransceiver
                       /\ Tr(t).sending /\ ~Tr(t).stopped
                       /\ t \in Offers!MidsOf(offer) /\ Fits(offer)
  BY DEF Waiting, Pending, Offers!NewTransceivers, Tr, Transceivers, Offers!OfferOf
<1>8. Fits(offer) => Offers!MidsOf(offer) \subseteq AnsweredMids'
  <2> SUFFICES ASSUME Fits(offer), NEW i \in DOMAIN offer
               PROVE  offer[i].mid \in AnsweredMids'
    BY DEF Offers!MidsOf
  <2>1. DOMAIN offer = 1..Len(offer)
    BY SeqFacts DEF Offers!Lines
  <2>2. Sections' = 1..Len(mediaSections')
    BY SeqFacts DEF Remote!TypeOK, Sections
  <2> QED  BY <2>1, <2>2 DEF Fits, AnsweredMids
<1>9. \A t \in mapMidTransceiver' : Tr(t)'.mid = t => t \in AnsweredMids'
  <2> TAKE t \in mapMidTransceiver'
  <2> HAVE Tr(t)'.mid = t
  <2>1. CASE t \in added
    BY <2>1, <1>7, <1>8
  <2>2. CASE t \in mapMidTransceiver
    <3>1. ~Tr(t)'.stopped
      BY <2>2, <1>2, <1>4, <1>5
    <3>2. Tr(t).mid = t
      BY <3>1, <2>2, <1>1, <1>2, <1>6
    <3> QED  BY <3>2, <2>2
  <2> QED  BY <2>1, <2>2
<1>10. \A t \in stopped' : ~Tr(t)'.sending
  BY <1>1, <1>2
<1>11. ASSUME NEW t \in mapMidTransceiver', t \notin stopped'
       PROVE  Tr(t)'.mid = t /\ ~Tr(t)'.stopped /\ Tr(t)'.sending
  <2>1. t \notin ClosedMids'
    BY <1>3, <1>11
  <2>2. CASE t \in added
    BY <2>1, <2>2, <1>1, <1>4, <1>7, <1>11
  <2>3. CASE t \in mapMidTransceiver
    <3>1. Tr(t).mid = t /\ ~Tr(t).stopped /\ Tr(t).sending
      BY <2>3, <1>11 DEF Producers
    <3> QED  BY <3>1, <2>1, <2>3, <1>1, <1>2, <1>11
  <2> QED  BY <2>2, <2>3
<1>12. \A t \in Transceivers' : Tr(t)'.stopped => t \in stopped'
  BY <1>1, <1>3 DEF Producers
<1>13. \A t \in mapMidTransceiver' \ stopped' :
         \A i \in Sections' : mediaSections'[i].mid = t => mediaSections'[i].direction = "open"
  OBVIOUS
<1> QED  BY <1>1, <1>9, <1>10, <1>11, <1>12, <1>13 DEF Producers

\* A transceiver that waits for its m= line has no section.
LEMMA PendingUnanswered ==
  ASSUME Typed, Offers!WellFormed(peer), Aligned, NEW t \in Pending
  PROVE  t \in Transceivers /\ t \notin LocalMids /\ ~Tr(t).stopped /\ t \notin AnsweredMids
<1>1. NoMid \notin Transceivers /\ DataMid \notin Transceivers
  BY TransceiversFacts
<1>2. t \in Transceivers /\ t \notin LocalMids /\ ~Tr(t).stopped
  BY <1>1 DEF Pending, Offers!NewTransceivers, Offers!WellFormed, Transceivers, Tr, LocalMids
<1>3. \A i \in Sections : mediaSections[i].mid # t
  BY <1>1, <1>2 DEF Aligned, LocalMids, Offers!MidsOf
<1> QED  BY <1>2, <1>3 DEF AnsweredMids

\* The answer cannot fit: it would need the mids of all transceivers that are
\* left, and at least two of them are in no section.
LEMMA NegotiationLags ==
  ASSUME Typed, Offers!WellFormed(peer), Aligned, Waiting, Lagging, Abandoned,
         Remote!TypeOK',
         NEW offer \in Offers!Lines(Mids), Offers!OfferOf(peer, offer),
         NEW applied \in BOOLEAN, Negotiated(offer, applied),
         NEW mid, AnsweredMids' \subseteq AnsweredMids \cup {mid},
         mid = DataMid \/ call.op = "send"
  PROVE  ~Fits(offer) /\ \E t \in Transceivers : ~Tr(t)'.stopped /\ t \notin AnsweredMids'
<1>1. DataMid \notin Transceivers /\ NoMid \notin Transceivers
  BY TransceiversFacts
<1>2. PICK t \in Transceivers :
        /\ ~Tr(t).stopped
        /\ t \notin AnsweredMids
        /\ call.op = "send" => t # call.transceiver
  BY DEF Lagging
<1>3. \A u \in Transceivers : ~Tr(u).stopped => u \in Offers!MidsOf(offer)
  <2> TAKE u \in Transceivers
  <2> HAVE ~Tr(u).stopped
  <2>1. CASE u \in Pending
    BY <2>1 DEF Offers!OfferOf, Pending
  <2>2. CASE u \notin Pending
    <3>1. Tr(u).mid = u /\ u \in LocalMids
      BY <2>2, <1>1 DEF Pending, Offers!NewTransceivers, Offers!WellFormed, Tr, Transceivers, LocalMids
    <3>2. PICK i \in DOMAIN peer.local : peer.local[i].mid = u
      BY <3>1 DEF LocalMids, Offers!MidsOf
    <3>3. i \notin Offers!RecyclableLines(peer)
      BY <3>1, <3>2, <1>1 DEF Offers!RecyclableLines, Offers!AssociatedMids, Tr, Transceivers
    <3>4. DOMAIN peer.local \subseteq DOMAIN offer
      BY LocalInOffer
    <3> QED  BY <3>2, <3>3, <3>4 DEF Offers!OfferOf, Offers!MidsOf
  <2> QED  BY <2>1, <2>2
<1>4. \E u \in Transceivers : u # mid /\ ~Tr(u).stopped /\ u \notin AnsweredMids
  <2>1. CASE t # mid
    BY <2>1, <1>2
  <2>2. CASE t = mid
    <3>1. call.op = "send" /\ call.transceiver \in Pending /\ t # call.transceiver
      BY <2>2, <1>1, <1>2 DEF Waiting
    <3>2. /\ call.transceiver \in Transceivers /\ ~Tr(call.transceiver).stopped
          /\ Tr(call.transceiver).mid # call.transceiver
      BY <3>1, <1>1 DEF Pending, Offers!NewTransceivers, Transceivers, Tr
    <3>3. call.transceiver \notin AnsweredMids
      BY <3>1, PendingUnanswered
    <3> QED  BY <2>2, <3>1, <3>2, <3>3
  <2> QED  BY <2>1, <2>2
<1>5. PICK u \in Transceivers : u # mid /\ ~Tr(u).stopped /\ u \notin AnsweredMids
  BY <1>4
<1>6. u \notin AnsweredMids'
  BY <1>5
<1>7. ~Fits(offer)
  <2> SUFFICES ASSUME Fits(offer) PROVE FALSE
    OBVIOUS
  <2>1. PICK i \in DOMAIN offer : offer[i].mid = u
    BY <1>3, <1>5 DEF Offers!MidsOf
  <2>2. DOMAIN offer = 1..Len(offer)
    BY SeqFacts DEF Offers!Lines
  <2>3. Sections' = 1..Len(mediaSections')
    BY SeqFacts DEF Remote!TypeOK, Sections
  <2> QED  BY <2>1, <2>2, <2>3, <1>6 DEF Fits, AnsweredMids
<1>8. ~Tr(u)'.stopped
  BY <1>5, <1>7 DEF Negotiated
<1> QED  BY <1>5, <1>6, <1>7, <1>8

\* After calls that did not fail: the two tables agree once the answer fits.
LEMMA NegotiationStaysInStep ==
  ASSUME Typed, Remote!TypeOK', Table',
         NEW offer \in Offers!Lines(Mids), Negotiated(offer, TRUE),
         call' = Idle,
         \A i \in Sections' :
            /\ mediaSections'[i].mid # DataMid /\ Tr(mediaSections'[i].mid).stopped =>
                 mediaSections'[i].closed
            /\ mediaSections'[i].mid \in stopped' => mediaSections'[i].direction = "inactive",
         peer.channels # {} => DataMid \in Offers!MidsOf(offer),
         hasDataChannelMediaSection' <=> DataMid \in Offers!MidsOf(offer)
  PROVE  InStep'
<1>1. /\ Transceivers' = Transceivers /\ peer'.local = offer /\ peer'.channels = peer.channels
      /\ Pending' = {}
      /\ \A t \in Transceivers : Tr(t)'.stopped => Tr(t).stopped \/ t \in ClosedMids'
      /\ peer'.signaling = "stable" /\ peer'.remote = Answer'
      /\ \A t \in Transceivers :
           t \in Offers!MidsOf(offer) /\ t \in ClosedMids' => Tr(t)'.stopped
      /\ Offers!MidsOf(offer) \subseteq Transceivers \cup {DataMid}
  BY DEF Negotiated, Offers!WellFormed, Transceivers
<1>2. /\ DOMAIN offer = 1..Len(offer) /\ Sections' = DOMAIN offer
      /\ Len(offer) = Len(mediaSections') /\ Fits(offer)
  BY SeqFacts DEF Negotiated, Fits, Remote!TypeOK, Sections, Offers!Lines
<1>3. \A i \in Sections' : offer[i].mid = mediaSections'[i].mid
  BY <1>2 DEF Fits
<1>4. ASSUME NEW i \in Sections', NEW mid, mid = mediaSections'[i].mid, mid # DataMid
      PROVE  mediaSections'[i].closed <=> peer'.transceivers[mid].stopped
  <2>1. mid \in Offers!MidsOf(offer) /\ mid \in Transceivers
    BY <1>1, <1>2, <1>3, <1>4 DEF Offers!MidsOf
  <2>2. mid \in ClosedMids' <=> mediaSections'[i].closed
    BY <1>4 DEF ClosedMids, Table
  <2> QED  BY <2>1, <2>2, <1>1, <1>4 DEF Tr
<1>5. LocalMids' = Offers!MidsOf(offer)
  BY <1>1 DEF LocalMids
<1>6. call'.op = "none"
  BY DEF Idle
<1> QED  BY <1>1, <1>2, <1>3, <1>4, <1>5, <1>6 DEF InStep, Tr

\* The offer of a call that adds nothing has the m= lines of before.
LEMMA OfferOfSame ==
  ASSUME Typed, NEW offer \in Offers!Lines(Mids), Offers!OfferOf(peer, offer),
         Pending = {}, DataMid \in Offers!MidsOf(offer) => DataMid \in LocalMids
  PROVE  Len(offer) = Len(peer.local) /\ \A i \in 1..Len(offer) : offer[i].mid = peer.local[i].mid
<1>1. /\ DOMAIN peer.local = 1..Len(peer.local) /\ Len(peer.local) \in Nat
      /\ DOMAIN offer = 1..Len(offer) /\ Len(offer) \in Nat
      /\ Len(peer.local) <= Len(offer)
  BY LocalInOffer
<1>2. \A i \in DOMAIN offer : i \in DOMAIN peer.local /\ offer[i].mid = peer.local[i].mid
  BY DEF Offers!OfferOf, Pending, Offers!MidsOf, LocalMids
<1>3. Len(offer) <= Len(peer.local)
  BY <1>1, <1>2
<1> QED  BY <1>1, <1>2, <1>3

\* The offer of a call that adds the m= line of the data channels has it last.
LEMMA OfferOfData ==
  ASSUME Typed, NEW offer \in Offers!Lines(Mids), Offers!OfferOf(peer, offer),
         Pending = {}, DataMid \in Offers!MidsOf(offer), DataMid \notin LocalMids
  PROVE  /\ Len(offer) = Len(peer.local) + 1
         /\ \A i \in 1..Len(peer.local) : offer[i].mid = peer.local[i].mid
         /\ offer[Len(peer.local) + 1].mid = DataMid
<1> DEFINE n == Len(peer.local)
<1>1. /\ DOMAIN peer.local = 1..n /\ n \in Nat
      /\ DOMAIN offer = 1..Len(offer) /\ Len(offer) \in Nat
      /\ n <= Len(offer)
  BY LocalInOffer
<1>2. \A i \in DOMAIN offer : \/ i \in DOMAIN peer.local /\ offer[i].mid = peer.local[i].mid
                              \/ i \notin DOMAIN peer.local /\ offer[i].mid = DataMid
  BY DEF Offers!OfferOf, Pending
<1>3. PICK k \in DOMAIN offer : offer[k].mid = DataMid
  BY DEF Offers!MidsOf
<1>4. \A i \in DOMAIN offer : i \notin DOMAIN peer.local => i = k
  BY <1>2, <1>3 DEF Offers!OfferOf, Offers!UniqueMids
<1>5. k \notin DOMAIN peer.local
  BY <1>2, <1>3 DEF LocalMids, Offers!MidsOf
<1> HIDE DEF n
<1>6. k = n + 1
  <2>1. n + 1 \in 1..Len(offer) /\ n + 1 \notin 1..n
    BY <1>1, <1>3, <1>5
  <2> QED  BY <2>1, <1>1, <1>4
<1>7. Len(offer) = n + 1
  <2>1. Len(offer) \in 1..Len(offer) /\ Len(offer) \notin 1..n
    BY <1>1, <1>3, <1>5
  <2> QED  BY <2>1, <1>1, <1>4, <1>6
<1>8. \A i \in 1..n : offer[i].mid = peer.local[i].mid
  BY <1>1, <1>2
<1> QED  BY <1>3, <1>6, <1>7, <1>8 DEF n

\* The lines that libwebrtc recycles are the ones that RemoteSdp has closed.
LEMMA ClosedIsRecyclable ==
  ASSUME Typed, Offers!WellFormed(peer), Table, Aligned, Producers, InStep, ~failed
  PROVE  /\ DOMAIN peer.local = Sections
         /\ Offers!RecyclableLines(peer) = {i \in Sections : mediaSections[i].closed}
<1>1. DOMAIN peer.local = Sections
  <2>1. peer.local \in Offers!Lines(Mids) /\ mediaSections \in Seq(Remote!Section)
    BY DEF Typed, Offers!Peers, Remote!TypeOK
  <2> QED  BY <2>1 DEF InStep, Sections, Offers!Lines
<1>2. ASSUME NEW i \in Sections
      PROVE  i \in Offers!RecyclableLines(peer) <=> mediaSections[i].closed
  <2> DEFINE mid == mediaSections[i].mid
  <2>1. peer.local[i].mid = mid /\ (mid # DataMid => (mediaSections[i].closed <=> Tr(mid).stopped))
    BY DEF InStep
  <2>2. CASE mid = DataMid
    BY <2>1, <2>2, <1>1 DEF Offers!RecyclableLines, Table
  <2>3. CASE mid # DataMid
    <3>1. mid \in Transceivers /\ mid \in LocalMids /\ mid # NoMid /\ NoMid \notin Transceivers
      BY <2>1, <2>3, <1>1, TransceiversFacts DEF Aligned, LocalMids, Offers!MidsOf
    <3>2. \A t \in Transceivers : Tr(t).mid = IF t \in LocalMids /\ ~Tr(t).stopped THEN t ELSE NoMid
      BY DEF Offers!WellFormed, Transceivers, Tr, LocalMids
    <3>3. mid \in Offers!AssociatedMids(peer) <=> ~Tr(mid).stopped
      BY <3>1, <3>2 DEF Offers!AssociatedMids, Transceivers, Tr
    <3> QED  BY <3>3, <2>1, <2>3, <1>1 DEF Offers!RecyclableLines
  <2> QED  BY <2>2, <2>3
<1>3. Offers!RecyclableLines(peer) \subseteq Sections
  BY <1>1 DEF Offers!RecyclableLines
<1> QED  BY <1>1, <1>2, <1>3

\* The offer of Send has the new transceiver at the index that RemoteSdp gave,
\* and every other m= line is a section.
LEMMA OfferOfSend ==
  ASSUME Typed, Offers!WellFormed(peer), Table, Aligned, Producers, InStep, ~failed,
         NEW offer \in Offers!Lines(Mids), Offers!OfferOf(peer, offer),
         NEW t \in Pending, \A u \in Pending : u = t,
         DataMid \in Offers!MidsOf(offer) => DataMid \in LocalMids
  PROVE  LET k == Remote!GetNextMediaSectionIdx.idx
         IN  /\ DOMAIN offer = Sections \cup {k} /\ k \in DOMAIN offer
             /\ offer[k].mid = t
             /\ \A i \in Sections : i # k => offer[i].mid = mediaSections[i].mid
<1> DEFINE n == Len(mediaSections)
           closed == {i \in Sections : mediaSections[i].closed}
<1> PICK k : k = Remote!GetNextMediaSectionIdx.idx
  OBVIOUS
<1>0. Pending = {t}
  OBVIOUS
<1>1. /\ DOMAIN peer.local = Sections
      /\ Offers!RecyclableLines(peer) = closed
  BY ClosedIsRecyclable
<1>2. /\ Sections = 1..n /\ n \in Nat
      /\ DOMAIN offer = 1..Len(offer) /\ Len(offer) \in Nat
      /\ Sections \subseteq DOMAIN offer
  BY <1>1, SeqFacts, LocalInOffer DEF Sections, Typed, Remote!TypeOK
<1>3. /\ closed = {} => k = n + 1
      /\ closed # {} => k \in closed /\ \A i \in closed : k <= i
  BY NextSlotFacts DEF Typed
<1>4. t \notin LocalMids /\ t # DataMid
  BY PendingUnanswered, TransceiversFacts
<1>5. \A i \in Sections : peer.local[i].mid = mediaSections[i].mid /\ mediaSections[i].mid # t
  BY <1>1, <1>4 DEF InStep, LocalMids, Offers!MidsOf
<1>6. \A i \in DOMAIN offer : \/ i \in Sections /\ offer[i].mid = mediaSections[i].mid
                              \/ offer[i].mid = t
  <2> TAKE i \in DOMAIN offer
  <2>1. \/ i \in Sections /\ offer[i].mid = peer.local[i].mid
        \/ offer[i].mid = t
        \/ offer[i].mid = DataMid /\ DataMid \notin LocalMids
    BY <1>1 DEF Offers!OfferOf, Pending, LocalMids
  <2>2. offer[i].mid \in Offers!MidsOf(offer)
    BY DEF Offers!MidsOf
  <2> QED  BY <2>1, <2>2, <1>5
<1>7. \A i \in Sections : ~mediaSections[i].closed => offer[i].mid = mediaSections[i].mid
  BY <1>1, <1>5 DEF Offers!OfferOf
<1>8. PICK j \in DOMAIN offer : offer[j].mid = t
  BY DEF Offers!OfferOf, Offers!MidsOf, Pending
<1>9. \A i \in DOMAIN offer : offer[i].mid = t => i = j
  BY <1>8 DEF Offers!OfferOf, Offers!UniqueMids
<1>10. \A i \in closed : (j \in Sections => i < j) => offer[i].mid = t
  <2> TAKE i \in closed
  <2> HAVE j \in Sections => i < j
  <2>1. offer[i].mid # peer.local[i].mid
    BY <1>1, <1>8 DEF Offers!OfferOf, Pending
  <2> QED  BY <2>1, <1>2, <1>5, <1>6
<1> HIDE DEF n
<1>11. j = k
  <2>1. CASE closed = {}
    <3>1. j \notin Sections
      BY <2>1, <1>5, <1>7, <1>8
    <3>2. n + 1 \in DOMAIN offer /\ n + 1 \notin Sections
      BY <3>1, <1>2
    <3> QED  BY <3>2, <2>1, <1>3, <1>6, <1>9
  <2>2. CASE closed # {}
    <3>1. k \in closed /\ k \in Sections /\ k \in DOMAIN offer
      BY <2>2, <1>2, <1>3
    <3>2. j \in Sections => j \in closed
      BY <1>5, <1>7, <1>8
    <3>3. ~(j \in Sections => k < j) => j = k
      BY <3>1, <3>2, <1>2, <1>3
    <3>4. (j \in Sections => k < j) => j = k
      BY <3>1, <1>9, <1>10
    <3> QED  BY <3>3, <3>4
  <2> QED  BY <2>1, <2>2
<1>12. \A i \in DOMAIN offer : i # k => i \in Sections /\ offer[i].mid = mediaSections[i].mid
  BY <1>6, <1>9, <1>11
<1>13. DOMAIN offer = Sections \cup {k}
  BY <1>2, <1>8, <1>11, <1>12
<1> QED  BY <1>2, <1>8, <1>11, <1>12, <1>13

-----------------------------------------------------------------------------
(* The steps that negotiate nothing.                                       *)

\* A table with as many sections is as empty.
LEMMA EmptyStays ==
  ASSUME Remote!TypeOK, Remote!TypeOK', SameMids
  PROVE  mediaSections' = <<>> <=> mediaSections = <<>>
<1>1. mediaSections \in Seq(Remote!Section) /\ mediaSections' \in Seq(Remote!Section)
  BY DEF Remote!TypeOK
<1>2. Len(mediaSections) = Len(mediaSections')
  BY DEF SameMids
<1> QED  BY <1>1, <1>2

\* A step that leaves RemoteSdp alone keeps the table.
LEMMA UnchangedTable ==
  ASSUME Remote!TypeOK, Table, UNCHANGED remoteVars
  PROVE  Remote!TypeOK' /\ Table' /\ Rewritten
<1>1. /\ UNCHANGED <<mediaSections, midToIndex, firstMid, sdpMedia, bundleMids>>
      /\ UNCHANGED <<iceParameters, dtlsRole>>
  BY DEF remoteVars
<1>2. Remote!TypeOK'
  BY <1>1 DEF Remote!TypeOK
<1>3. Table'
  BY <1>1 DEF Table, Sections, Remote!SetupFor
<1>4. Rewritten
  BY <1>1 DEF Rewritten, SameMids, Sections
<1> QED  BY <1>2, <1>3, <1>4

\* The next index and mid depend on which sections are closed, and on nothing else.
LEMMA SlotStays ==
  ASSUME Remote!TypeOK, Table, Rewritten
  PROVE  Remote!GetNextMediaSectionIdx' = Remote!GetNextMediaSectionIdx
<1>1. Remote!ClosedSections' = Remote!ClosedSections
  BY DEF Rewritten, SameMids, Remote!ClosedSections, Sections
<1>2. Remote!FirstClosed' = Remote!FirstClosed
  BY <1>1 DEF Remote!FirstClosed
<1>3. CASE Remote!ClosedSections = {}
  BY <1>1, <1>3 DEF Remote!GetNextMediaSectionIdx, Rewritten, SameMids
<1>4. CASE Remote!ClosedSections # {}
  <2>1. Remote!FirstClosed \in Sections
    BY <1>4, NextSlotFacts DEF Remote!ClosedSections, Sections
  <2> QED  BY <2>1, <1>1, <1>2, <1>4 DEF Remote!GetNextMediaSectionIdx, Rewritten, SameMids
<1> QED  BY <1>3, <1>4

\* The op of a call says which locals it has.
LEMMA CallCases ==
  ASSUME Typed
  PROVE  /\ call.op \in {"none", "send", "data"}
         /\ call.op = "none" => call = Idle
         /\ call = Idle => call.op = "none"
         /\ call.op = "send" => call \in SendCalls
         /\ call.op = "data" => call \in DataCalls
<1>1. Idle.op = "none"
  BY DEF Idle
<1>2. \A c \in SendCalls : c.op = "send"
  BY DEF SendCalls
<1>3. \A c \in DataCalls : c.op = "data"
  BY DEF DataCalls
<1>4. call = Idle \/ call \in SendCalls \/ call \in DataCalls
  BY DEF Typed
<1> QED  BY <1>1, <1>2, <1>3, <1>4

\* What a step keeps that changes neither the transceivers nor the m= lines of
\* the peer connection nor the mids of the sections.
LEMMA QuietKeeps ==
  ASSUME IInv, Remote!TypeOK', Table', Rewritten, peer' \in Offers!Peers(Mids),
         peer'.transceivers = peer.transceivers, peer'.local = peer.local,
         UNCHANGED <<mapMidTransceiver, stopped>>
  PROVE  /\ Offers!WellFormed(peer') /\ Aligned' /\ Producers'
         /\ Transceivers' = Transceivers /\ Sections' = Sections
         /\ Pending' = Pending /\ LocalMids' = LocalMids /\ AnsweredMids' = AnsweredMids
         /\ Abandoned' => Abandoned
         /\ Answer' = Answer
         /\ Remote!GetNextMediaSectionIdx' = Remote!GetNextMediaSectionIdx
         /\ \A t : Tr(t)' = Tr(t)
         /\ \A offer : Offers!OfferOf(peer, offer) => Offers!OfferOf(peer', offer)
<1>1. /\ Sections' = Sections /\ Transceivers' = Transceivers
      /\ \A t : Tr(t)' = Tr(t)
      /\ LocalMids' = LocalMids
  BY DEF Rewritten, SameMids, Sections, Transceivers, Tr, LocalMids
<1>2. \A i \in Sections : /\ mediaSections'[i].mid = mediaSections[i].mid
                          /\ mediaSections'[i].closed = mediaSections[i].closed
                          /\ mediaSections'[i].direction = mediaSections[i].direction
  BY DEF Rewritten, SameMids
<1>3. AnsweredMids' = AnsweredMids
  BY <1>1, <1>2 DEF AnsweredMids
<1>4. /\ Offers!WellFormed(peer')
      /\ Pending' = Pending
      /\ \A offer : Offers!OfferOf(peer, offer) => Offers!OfferOf(peer', offer)
  BY Offers!OtherFieldsChange DEF IInv, Pending
<1>5. Aligned'
  BY <1>1, <1>2 DEF IInv, Aligned, Transceivers, Tr, LocalMids
<1>6. Producers'
  BY <1>1, <1>2, <1>3, <1>4 DEF IInv, Producers
<1>7. Abandoned' => Abandoned
  BY DEF Abandoned
<1>10. Remote!GetNextMediaSectionIdx' = Remote!GetNextMediaSectionIdx
  BY SlotStays DEF IInv, Typed
<1>11. Answer' = Answer
  BY <1>1, <1>2 DEF Answer, IInv, Table, Sections
<1> QED  BY <1>1, <1>3, <1>4, <1>5, <1>6, <1>7, <1>10, <1>11

\* The two tables are as much in step as before, if the call is the same or has ended.
LEMMA QuietInStep ==
  ASSUME IInv, Remote!TypeOK', Table', Rewritten, peer' \in Offers!Peers(Mids),
         peer'.transceivers = peer.transceivers, peer'.local = peer.local,
         peer'.signaling = peer.signaling, peer'.remote = peer.remote,
         peer'.channels \subseteq peer.channels,
         UNCHANGED <<mapMidTransceiver, stopped, failed, hasDataChannelMediaSection>>,
         call'.op = call.op,
         call.op = "send" => call'.transceiver = call.transceiver,
         call.op # "none" => call'.offer = call.offer
  PROVE  InStep' /\ Lagging'
<1>1. /\ Transceivers' = Transceivers /\ Sections' = Sections
      /\ Pending' = Pending /\ LocalMids' = LocalMids /\ AnsweredMids' = AnsweredMids
      /\ Abandoned' => Abandoned
      /\ Answer' = Answer
      /\ \A t : Tr(t)' = Tr(t)
  BY QuietKeeps
<1>2. \A i \in Sections : /\ mediaSections'[i].mid = mediaSections[i].mid
                          /\ mediaSections'[i].closed = mediaSections[i].closed
                          /\ mediaSections'[i].direction = mediaSections[i].direction
  BY DEF Rewritten, SameMids
<1>3. Len(mediaSections') = Len(mediaSections)
  BY DEF Rewritten, SameMids
<1>4. Lagging'
  BY <1>1 DEF IInv, Lagging
<1>5. InStep'
  <2> SUFFICES ASSUME ~failed PROVE InStep'
    BY DEF InStep
  <2>1. /\ peer.signaling = "stable"
        /\ peer.remote = Answer
        /\ Len(peer.local) = Len(mediaSections)
    BY DEF IInv, InStep
  <2>2. \A i \in Sections :
             /\ peer.local[i].mid = mediaSections[i].mid
             /\ mediaSections[i].mid # DataMid =>
                  (mediaSections[i].closed <=> Tr(mediaSections[i].mid).stopped)
             /\ mediaSections[i].mid \in stopped => mediaSections[i].direction = "inactive"
    BY DEF IInv, InStep
  <2>3. \A i \in Sections' :
             /\ peer'.local[i].mid = mediaSections'[i].mid
             /\ mediaSections'[i].mid # DataMid =>
                  (mediaSections'[i].closed <=> peer'.transceivers[mediaSections'[i].mid].stopped)
             /\ mediaSections'[i].mid \in stopped' => mediaSections'[i].direction = "inactive"
    BY <2>2, <1>1, <1>2 DEF Tr
  <2>4. /\ call'.op # "send" => Pending' = {}
        /\ call'.op = "send" => Pending' = {call'.transceiver}
        /\ call'.op = "send" /\ DataMid \in Offers!MidsOf(call'.offer) => DataMid \in LocalMids'
        /\ call'.op = "data" => DataMid \in Offers!MidsOf(call'.offer) /\ DataMid \notin LocalMids'
        /\ call'.op # "data" /\ peer'.channels # {} => DataMid \in LocalMids'
        /\ hasDataChannelMediaSection' <=> DataMid \in LocalMids'
    BY <1>1 DEF IInv, InStep
  <2> QED  BY <2>1, <2>3, <2>4, <1>1, <1>3 DEF InStep, Tr
<1> QED  BY <1>4, <1>5

\* A step that changes nothing keeps the invariant.
LEMMA Stuttering ==
  ASSUME IInv, UNCHANGED vars
  PROVE  IInv'
<1>1. /\ UNCHANGED <<peer, remoteVars>>
      /\ UNCHANGED <<forcedLocalDtlsRole, transportReady, mapMidTransceiver,
                     hasDataChannelMediaSection, nextSendSctpStreamId, call, stopped, failed>>
  BY DEF vars, handlerVars
<1>2. UNCHANGED <<mediaSections, midToIndex, firstMid, sdpMedia, bundleMids, iceParameters, dtlsRole>>
  BY <1>1 DEF remoteVars
<1>3. /\ Remote!TypeOK' /\ Table' /\ Rewritten
  BY <1>1, UnchangedTable DEF IInv, Typed
<1>4. /\ Offers!WellFormed(peer') /\ Aligned' /\ Producers'
      /\ InStep' /\ Lagging'
  BY <1>1, <1>3, QuietKeeps, QuietInStep DEF IInv, Typed
<1>5. Typed'
  BY <1>1, <1>3 DEF IInv, Typed, Transceivers
<1>6. Waiting'
  BY <1>1, <1>3, QuietKeeps DEF IInv, Typed, Waiting, Tr
<1>7. Roles'
  BY <1>1, <1>2 DEF IInv, Roles, LocalDtlsRole
<1> QED  BY <1>3, <1>4, <1>5, <1>6, <1>7 DEF IInv

\* A call that waits goes on to its second half.
LEMMA StageFacts ==
  ASSUME NEW stage \in Stages, NEW c
  PROVE  /\ c \in SendCalls =>
              LET d == [c EXCEPT !.stage = stage]
              IN  /\ d \in SendCalls /\ d.op = c.op /\ d.stage = stage /\ d.idx = c.idx
                  /\ d.reuseMid = c.reuseMid /\ d.transceiver = c.transceiver
                  /\ d.offer = c.offer /\ d.simulcast = c.simulcast /\ d.prepares = c.prepares
         /\ c \in DataCalls =>
              LET d == [c EXCEPT !.stage = stage]
              IN  d \in DataCalls /\ d.op = c.op /\ d.stage = stage /\ d.offer = c.offer
BY DEF SendCalls, DataCalls

\* The wait in OnConnect ends well: the transport is ready.
LEMMA Resolves ==
  ASSUME IInv, OnConnectResolves
  PROVE  IInv'
<1>1. /\ UNCHANGED <<peer, remoteVars>>
      /\ UNCHANGED <<forcedLocalDtlsRole, mapMidTransceiver,
                     hasDataChannelMediaSection, nextSendSctpStreamId, stopped, failed>>
      /\ call.op # "none" /\ call' = [call EXCEPT !.stage = "negotiate"]
      /\ transportReady'
  BY DEF OnConnectResolves
<1>2. UNCHANGED <<mediaSections, midToIndex, firstMid, sdpMedia, bundleMids, iceParameters, dtlsRole>>
  BY <1>1 DEF remoteVars
<1>3. Remote!TypeOK' /\ Table' /\ Rewritten /\ peer' \in Offers!Peers(Mids)
  BY <1>1, UnchangedTable DEF IInv, Typed
<1>4. \/ /\ call.op = "send" /\ call' \in SendCalls
         /\ call'.idx = call.idx /\ call'.reuseMid = call.reuseMid
         /\ call'.transceiver = call.transceiver
      \/ call.op = "data" /\ call' \in DataCalls
  BY <1>1, CallCases, StageFacts DEF IInv, Stages
<1>5. call'.op = call.op /\ call'.offer = call.offer /\ call'.stage = "negotiate"
  BY <1>1, CallCases, StageFacts DEF IInv, Stages
<1>6. /\ Offers!WellFormed(peer') /\ Aligned' /\ Producers'
      /\ Pending' = Pending /\ \A t : Tr(t)' = Tr(t)
      /\ Remote!GetNextMediaSectionIdx' = Remote!GetNextMediaSectionIdx
      /\ InStep' /\ Lagging'
  BY <1>1, <1>3, <1>4, <1>5, QuietKeeps, QuietInStep DEF IInv
<1>7. Typed'
  BY <1>1, <1>3, <1>4 DEF IInv, Typed, Transceivers
<1>8. Waiting'
  <2>1. Offers!OfferOf(peer', call'.offer)
    BY <1>1, <1>5 DEF IInv, Waiting
  <2>2. ASSUME call'.op = "send"
        PROVE  /\ call'.transceiver \in Pending'
               /\ call'.transceiver \notin mapMidTransceiver'
               /\ Tr(call.transceiver)'.sending
               /\ call'.transceiver = call.transceiver
               /\ call'.idx = Remote!GetNextMediaSectionIdx'.idx
               /\ call'.reuseMid = Remote!GetNextMediaSectionIdx'.reuseMid
    BY <2>2, <1>1, <1>4, <1>5, <1>6 DEF IInv, Waiting
  <2> QED  BY <1>1, <2>1, <2>2 DEF Waiting, Tr
<1>9. Roles'
  BY <1>1, <1>2 DEF IInv, Roles, LocalDtlsRole
<1> QED  BY <1>3, <1>6, <1>7, <1>8, <1>9 DEF IInv

\* A step that only closes the connection or one of its data channels.
LEMMA PeerCloses ==
  ASSUME IInv, peer' \in Offers!Peers(Mids),
         peer'.transceivers = peer.transceivers, peer'.local = peer.local,
         peer'.signaling = peer.signaling, peer'.remote = peer.remote,
         peer'.channels \subseteq peer.channels,
         UNCHANGED <<remoteVars, handlerVars, call, stopped, failed>>
  PROVE  IInv'
<1>1. /\ UNCHANGED remoteVars
      /\ UNCHANGED <<forcedLocalDtlsRole, transportReady, mapMidTransceiver,
                     hasDataChannelMediaSection, nextSendSctpStreamId, call, stopped, failed>>
  BY DEF handlerVars
<1>2. UNCHANGED <<mediaSections, midToIndex, firstMid, sdpMedia, bundleMids, iceParameters, dtlsRole>>
  BY <1>1 DEF remoteVars
<1>3. Remote!TypeOK' /\ Table' /\ Rewritten
  BY <1>1, UnchangedTable DEF IInv, Typed
<1>4. /\ Offers!WellFormed(peer') /\ Aligned' /\ Producers'
      /\ Pending' = Pending /\ \A t : Tr(t)' = Tr(t)
      /\ Remote!GetNextMediaSectionIdx' = Remote!GetNextMediaSectionIdx
      /\ \A offer : Offers!OfferOf(peer, offer) => Offers!OfferOf(peer', offer)
  BY <1>1, <1>3, QuietKeeps
<1>5. InStep' /\ Lagging'
  BY <1>1, <1>3, QuietInStep
<1>6. Typed'
  BY <1>1, <1>3 DEF IInv, Typed, Transceivers
<1>7. Waiting'
  <2>1. ASSUME call.op = "send"
        PROVE  /\ call.transceiver \in Pending'
               /\ Tr(call.transceiver)'.sending
               /\ call.idx = Remote!GetNextMediaSectionIdx'.idx
               /\ call.reuseMid = Remote!GetNextMediaSectionIdx'.reuseMid
    BY <2>1, <1>4 DEF IInv, Waiting
  <2> QED  BY <1>1, <1>4, <2>1 DEF IInv, Waiting, Tr
<1>8. Roles'
  BY <1>1, <1>2 DEF IInv, Roles, LocalDtlsRole
<1> QED  BY <1>3, <1>4, <1>5, <1>6, <1>7, <1>8 DEF IInv

\* Close, at any point of a call.
LEMMA Closes ==
  ASSUME IInv, Close
  PROVE  IInv'
<1>1. peer' = Offers!Close(peer) /\ UNCHANGED <<remoteVars, handlerVars, call, stopped, failed>>
  BY Same DEF Close
<1>2. peer \in Offers!Peers(Mids)
  BY DEF IInv, Typed
<1>3. /\ peer' \in Offers!Peers(Mids)
      /\ peer'.transceivers = peer.transceivers /\ peer'.local = peer.local
      /\ peer'.signaling = peer.signaling /\ peer'.remote = peer.remote
      /\ peer'.channels = peer.channels
  BY <1>1, <1>2, Offers!CloseKeeps
<1> QED  BY <1>1, <1>3, PeerCloses

\* The application closes a data channel.
LEMMA ClosesDataChannel ==
  ASSUME IInv, NEW id \in peer.channels, CloseDataChannel(id)
  PROVE  IInv'
<1> DEFINE ids == peer.channels \ {id}
<1>1. /\ peer' = [peer EXCEPT !.channels = ids]
      /\ UNCHANGED <<remoteVars, handlerVars, call, stopped, failed>>
  BY DEF CloseDataChannel
<1>2. peer \in Offers!Peers(Mids) /\ ids \in SUBSET Nat /\ ids \subseteq peer.channels
  BY DEF IInv, Typed, Offers!Peers
<1> HIDE DEF ids
<1>3. /\ peer' \in Offers!Peers(Mids)
      /\ peer'.channels = ids
      /\ peer'.transceivers = peer.transceivers /\ peer'.local = peer.local
      /\ peer'.signaling = peer.signaling /\ peer'.remote = peer.remote
  BY <1>1, <1>2, Offers!ChannelsKeep
<1> QED  BY <1>1, <1>2, <1>3, PeerCloses

-----------------------------------------------------------------------------
(* The steps up to the wait in OnConnect, and the ones that throw after it. *)

\* SetupTransport: the call waits, or goes on if the transport is ready.
LEMMA BeginFacts ==
  ASSUME IInv, NEW c, c \in SendCalls \/ c \in DataCalls, c.stage = "connect",
         Begin(c), UNCHANGED forcedLocalDtlsRole
  PROVE  /\ Remote!TypeOK' /\ Table' /\ Rewritten
         /\ c \in SendCalls =>
              /\ call' \in SendCalls
              /\ call'.idx = c.idx /\ call'.reuseMid = c.reuseMid
              /\ call'.transceiver = c.transceiver
         /\ c \in DataCalls => call' \in DataCalls
         /\ call'.op = c.op /\ call'.offer = c.offer
         /\ call'.stage = "negotiate" => transportReady
         /\ dtlsRole' = Opposite(LocalDtlsRole)
<1>1. Remote!TypeOK /\ Table
  BY DEF IInv, Typed
<1>2. CASE transportReady
  <2>1. call' = [c EXCEPT !.stage = "negotiate"] /\ UNCHANGED remoteVars
    BY <1>2 DEF Begin
  <2>2. UNCHANGED dtlsRole /\ dtlsRole = Opposite(LocalDtlsRole)
    BY <1>2, <2>1 DEF remoteVars, IInv, Roles
  <2>3. "negotiate" \in Stages
    BY DEF Stages
  <2> QED  BY <1>1, <1>2, <2>1, <2>2, <2>3, UnchangedTable, StageFacts
<1>3. CASE ~transportReady
  <2>1. call' = c /\ Remote!UpdateDtlsRole(Opposite(LocalDtlsRole))
    BY <1>3 DEF Begin, TellRemoteRole
  <2>2. Opposite(LocalDtlsRole) \in {"client", "server"}
    BY DEF Opposite
  <2> QED  BY <1>1, <2>1, <2>2, TableRole
<1> QED  BY <1>2, <1>3

\* ProduceData up to the wait, or to its end if there is a data section.
LEMMA ProducesData ==
  ASSUME IInv, ProduceData
  PROVE  IInv'
<1> DEFINE p == Pc!CreateDataChannel(peer, nextSendSctpStreamId)
           ids == peer.channels \cup {nextSendSctpStreamId}
           c == [op |-> "data", stage |-> "connect", offer |-> Pc!CreateOffer(p)]
<1>1. /\ call = Idle /\ peer' = p
      /\ IF hasDataChannelMediaSection THEN UNCHANGED <<call, remoteVars>> ELSE Begin(c)
      /\ nextSendSctpStreamId' = NextStreamId
      /\ UNCHANGED <<forcedLocalDtlsRole, transportReady, mapMidTransceiver,
                     hasDataChannelMediaSection, stopped, failed>>
  BY DEF ProduceData, SendDataChannel
<1>2. /\ SctpNumStreams \in Nat \ {0} /\ nextSendSctpStreamId \in 0..SctpNumStreams - 1
      /\ peer.channels \subseteq 0..SctpNumStreams - 1
      /\ peer \in Offers!Peers(Mids)
  BY SendHandlerAssumption DEF IInv, Typed, SendHandlerAssumption
<1>3. /\ nextSendSctpStreamId' \in 0..SctpNumStreams - 1
      /\ ids \subseteq 0..SctpNumStreams - 1 /\ ids \in SUBSET Nat /\ ids # {}
  BY <1>1, <1>2 DEF NextStreamId
<1>4. p = [peer EXCEPT !.channels = ids]
  BY <1>2 DEF Pc!CreateDataChannel, Offers!Peers
<1> HIDE DEF p, ids
<1>5. /\ p \in Offers!Peers(Mids)
      /\ p.channels = ids
      /\ p.transceivers = peer.transceivers /\ p.local = peer.local
      /\ p.signaling = peer.signaling /\ p.remote = peer.remote
  BY <1>2, <1>3, <1>4, Offers!ChannelsKeep
<1>6. PICK n \in Nat : /\ Transceivers = 1..n /\ 1..n \subseteq Mids
                       /\ NoMid \notin 1..n /\ DataMid \notin 1..n
  BY TransceiversFacts DEF IInv
<1>7. /\ Pc!CreateOffer(p) = Offers!CreateOffer(p)
      /\ Offers!CreateOffer(p) \in Offers!Lines(Mids)
      /\ Offers!OfferOf(p, Offers!CreateOffer(p))
      /\ DataMid \in Offers!MidsOf(Offers!CreateOffer(p))
  <2>1. /\ p.local \in Seq([mid : Mids, rejected : BOOLEAN])
        /\ DOMAIN p.transceivers = 1..n
        /\ Offers!WellFormed(p)
    BY <1>5, <1>6, Offers!OtherFieldsChange DEF Offers!Peers, Offers!Lines, Transceivers, IInv
  <2>2. DataMid \in Mids
    BY MidsFacts
  <2>3. p.channels # {}
    BY <1>3, <1>5
  <2> QED  BY <1>6, <2>1, <2>2, <2>3, Same, Offers!OfferOfPeer DEF Offers!Lines
<1>8. c \in DataCalls /\ c.op = "data" /\ c.stage = "connect" /\ c.offer = Offers!CreateOffer(p)
  BY <1>7 DEF DataCalls, Stages
<1> HIDE DEF c
<1>9. /\ Remote!TypeOK' /\ Table' /\ Rewritten
      /\ call' = Idle \/ call' \in DataCalls
      /\ hasDataChannelMediaSection => call' = Idle /\ UNCHANGED dtlsRole
      /\ ~hasDataChannelMediaSection =>
           /\ call'.op = "data" /\ call'.offer = Offers!CreateOffer(p)
           /\ call'.stage = "negotiate" => transportReady
           /\ dtlsRole' = Opposite(LocalDtlsRole)
  <2>1. CASE hasDataChannelMediaSection
    <3>1. UNCHANGED dtlsRole
      BY <1>1, <2>1 DEF remoteVars
    <3> QED  BY <1>1, <2>1, <3>1, UnchangedTable DEF IInv, Typed
  <2>2. CASE ~hasDataChannelMediaSection
    BY <1>1, <1>8, <2>2, BeginFacts
  <2> QED  BY <2>1, <2>2
<1>10. peer' = p
  BY <1>1
<1>11. /\ Offers!WellFormed(peer') /\ Aligned' /\ Producers'
       /\ Transceivers' = Transceivers /\ Sections' = Sections
       /\ Pending' = Pending /\ LocalMids' = LocalMids /\ AnsweredMids' = AnsweredMids
       /\ Abandoned' => Abandoned
       /\ Answer' = Answer
       /\ \A t : Tr(t)' = Tr(t)
  BY <1>1, <1>5, <1>9, <1>10, QuietKeeps
<1>12. call'.op \in {"none", "data"} /\ (call'.op = "none" => hasDataChannelMediaSection)
  BY <1>9 DEF Idle, DataCalls
<1>13. Typed'
  BY <1>1, <1>3, <1>5, <1>9, <1>10, <1>11 DEF IInv, Typed
<1>14. Waiting'
  BY <1>1, <1>7, <1>9, <1>10, <1>12 DEF Waiting, Idle
<1>15. Roles'
  <2>1. mediaSections' # <<>> => mediaSections # <<>>
    BY <1>9, EmptyStays DEF IInv, Typed, Rewritten
  <2>2. LocalDtlsRole' = LocalDtlsRole
    BY <1>1 DEF LocalDtlsRole
  <2> QED  BY <1>1, <1>5, <1>9, <1>10, <1>12, <2>1, <2>2 DEF IInv, Roles, Idle
<1>16. Lagging'
  BY <1>11, <1>12 DEF IInv, Lagging
<1>17. InStep'
  <2> SUFFICES ASSUME ~failed PROVE InStep'
    BY <1>1 DEF InStep
  <2>1. /\ peer.signaling = "stable"
        /\ peer.remote = Answer
        /\ Len(peer.local) = Len(mediaSections)
        /\ Pending = {}
        /\ hasDataChannelMediaSection <=> DataMid \in LocalMids
    BY <1>1 DEF IInv, InStep, Idle
  <2>2. \A i \in Sections :
             /\ peer.local[i].mid = mediaSections[i].mid
             /\ mediaSections[i].mid # DataMid =>
                  (mediaSections[i].closed <=> Tr(mediaSections[i].mid).stopped)
             /\ mediaSections[i].mid \in stopped => mediaSections[i].direction = "inactive"
    BY DEF IInv, InStep
  <2>3. \A i \in Sections : /\ mediaSections'[i].mid = mediaSections[i].mid
                            /\ mediaSections'[i].closed = mediaSections[i].closed
                            /\ mediaSections'[i].direction = mediaSections[i].direction
    BY <1>9 DEF Rewritten, SameMids
  <2>4. \A i \in Sections' :
             /\ peer'.local[i].mid = mediaSections'[i].mid
             /\ mediaSections'[i].mid # DataMid =>
                  (mediaSections'[i].closed <=> peer'.transceivers[mediaSections'[i].mid].stopped)
             /\ mediaSections'[i].mid \in stopped' => mediaSections'[i].direction = "inactive"
    BY <2>2, <2>3, <1>1, <1>5, <1>10, <1>11 DEF Tr
  <2>5. Len(mediaSections') = Len(mediaSections)
    BY <1>9 DEF Rewritten, SameMids
  <2>6. call'.op = "data" => DataMid \in Offers!MidsOf(call'.offer) /\ DataMid \notin LocalMids'
    BY <1>7, <1>9, <1>11, <2>1 DEF Idle
  <2> QED  BY <2>1, <2>4, <2>5, <2>6, <1>1, <1>5, <1>10, <1>11, <1>12 DEF InStep, Tr
<1> QED  BY <1>9, <1>11, <1>13, <1>14, <1>15, <1>16, <1>17 DEF IInv

\* The transceiver of a call of Send is new, and the offer that is made then is
\* kept until the transport is connected.
LEMMA Produces ==
  ASSUME IInv, NEW simulcast \in BOOLEAN, NEW prepares \in BOOLEAN,
         Produce(simulcast, prepares)
  PROVE  IInv'
<1> PICK n \in Nat : /\ Transceivers = 1..n /\ 1..n \subseteq Mids
                     /\ NoMid \notin 1..n /\ DataMid \notin 1..n
                     /\ n = Len(peer.transceivers)
  BY TransceiversFacts DEF IInv
<1> DEFINE p == peer'
           m == n + 1
           slot == Remote!GetNextMediaSectionIdx
           offer == Offers!CreateOffer(p)
           c == [op |-> "send", stage |-> "connect", idx |-> slot.idx, reuseMid |-> slot.reuseMid,
                 transceiver |-> m, offer |-> offer,
                 simulcast |-> simulcast, prepares |-> prepares]
<1>1. /\ call = Idle /\ n < MaxTransceivers
      /\ peer' = Offers!AddTransceiver(peer)
      /\ UNCHANGED <<forcedLocalDtlsRole, transportReady, mapMidTransceiver,
                     hasDataChannelMediaSection, nextSendSctpStreamId, stopped, failed>>
  BY Same DEF Produce, Send, handlerVars
<1>2. m \in 1..MaxTransceivers /\ 1..m \subseteq 1..MaxTransceivers /\ 1..m = 1..n \cup {m}
      /\ m \notin 1..n /\ m \in 1..m
  BY <1>1, MidsFacts
<1>3. 1..m \subseteq Mids /\ NoMid \notin 1..m /\ DataMid \notin 1..m
      /\ NoMid \notin Mids /\ DataMid \in Mids
  BY <1>2, MidsFacts
<1>4. /\ p \in Offers!Peers(Mids)
      /\ p.closed = peer.closed /\ p.signaling = peer.signaling /\ p.local = peer.local
      /\ p.remote = peer.remote /\ p.channels = peer.channels
      /\ DOMAIN p.transceivers = 1..m
      /\ \A t \in 1..n : p.transceivers[t] = peer.transceivers[t]
      /\ p.transceivers[m].mid = NoMid /\ p.transceivers[m].sending /\ ~p.transceivers[m].stopped
      /\ Offers!WellFormed(p)
      /\ Offers!NewTransceivers(p) = Offers!NewTransceivers(peer) \cup {m}
  <2>1. /\ peer \in Offers!Peers(Mids) /\ DOMAIN peer.transceivers = 1..n
        /\ Offers!WellFormed(peer)
    BY DEF IInv, Typed, Transceivers
  <2>2. 1..(n + 1) \subseteq Mids /\ NoMid \notin Mids /\ DataMid \notin 1..(n + 1)
    BY <1>3
  <2>3. p = Offers!AddTransceiver(peer)
    BY <1>1
  <2> HIDE DEF p
  <2> HIDE DEF m
  <2>4. /\ p \in Offers!Peers(Mids)
        /\ p.closed = peer.closed /\ p.signaling = peer.signaling /\ p.local = peer.local
        /\ p.remote = peer.remote /\ p.channels = peer.channels
        /\ DOMAIN p.transceivers = 1..(n + 1)
        /\ \A t \in 1..n : p.transceivers[t] = peer.transceivers[t]
        /\ p.transceivers[n + 1].mid = NoMid
        /\ p.transceivers[n + 1].sending /\ ~p.transceivers[n + 1].stopped
        /\ Offers!WellFormed(p)
        /\ Offers!NewTransceivers(p) = Offers!NewTransceivers(peer) \cup {n + 1}
    BY <2>1, <2>2, <2>3, Offers!AddTransceiverKeeps
  <2> QED  BY <2>4 DEF m
<1>5. Len(p.transceivers) = m
  <2>1. p.transceivers \in Seq(Offers!Transceiver(Mids))
    BY <1>4 DEF Offers!Peers
  <2> QED  BY <2>1, <1>2, <1>4
<1>6. /\ offer \in Offers!Lines(Mids)
      /\ Offers!OfferOf(p, offer)
      /\ DataMid \in Offers!MidsOf(offer) <=> p.channels # {} \/ DataMid \in Offers!MidsOf(p.local)
  <2>1. p.local \in Seq([mid : Mids, rejected : BOOLEAN])
    BY <1>4 DEF Offers!Peers, Offers!Lines
  <2> HIDE DEF p, m
  <2>2. m \in Nat
    BY DEF m
  <2> QED  BY <2>1, <2>2, <1>3, <1>4, Offers!OfferOfPeer DEF Offers!Lines, offer
<1>7. Begin(c)
  <2>1. Begin([op |-> "send", stage |-> "connect",
              idx |-> NextSlot.idx, reuseMid |-> NextSlot.reuseMid,
              transceiver |-> Len(peer'.transceivers), offer |-> Pc!CreateOffer(peer'),
              simulcast |-> simulcast, prepares |-> prepares])
    BY DEF Produce, Send
  <2>2. Pc!CreateOffer(peer') = offer /\ NextSlot = slot
    BY Same DEF NextSlot
  <2> QED  BY <2>1, <2>2, <1>5
<1>8. slot.idx \in Nat /\ slot.reuseMid \in Mids \cup {NoMid}
  BY NextSlotFacts DEF IInv, Typed
<1>9. /\ c \in SendCalls /\ c.stage = "connect" /\ c.op = "send" /\ c.offer = offer
      /\ c.transceiver = m /\ c.idx = slot.idx /\ c.reuseMid = slot.reuseMid
  BY <1>6, <1>8 DEF SendCalls, Stages
<1> HIDE DEF c, slot, offer, m, p
<1>10. /\ Remote!TypeOK' /\ Table' /\ Rewritten
       /\ call' \in SendCalls
       /\ call'.idx = slot.idx /\ call'.reuseMid = slot.reuseMid
       /\ call'.transceiver = m
       /\ call'.op = "send" /\ call'.offer = offer
       /\ call'.stage = "negotiate" => transportReady
       /\ dtlsRole' = Opposite(LocalDtlsRole)
  BY <1>1, <1>7, <1>9, BeginFacts
<1>11. /\ Transceivers' = 1..m /\ Transceivers' = Transceivers \cup {m}
       /\ \A t \in Transceivers : Tr(t)' = Tr(t)
       /\ p.transceivers[m].sending /\ ~p.transceivers[m].stopped
       /\ p.transceivers[m].mid = NoMid
       /\ LocalMids' = LocalMids
       /\ Pending' = Pending \cup {m}
       /\ m \notin Transceivers
  BY <1>2, <1>4 DEF p, Transceivers, Tr, LocalMids, Pending
<1>12. /\ Sections' = Sections
       /\ \A i \in Sections : /\ mediaSections'[i].mid = mediaSections[i].mid
                              /\ mediaSections'[i].closed = mediaSections[i].closed
                              /\ mediaSections'[i].direction = mediaSections[i].direction
       /\ Len(mediaSections') = Len(mediaSections)
       /\ AnsweredMids' = AnsweredMids
  BY <1>10 DEF Rewritten, SameMids, Sections, AnsweredMids
<1>13. Remote!GetNextMediaSectionIdx' = slot
  BY <1>10, SlotStays DEF slot, IInv, Typed
<1>14. Typed'
  <2>1. peer'.channels \subseteq 0..SctpNumStreams - 1
    BY <1>4 DEF p, IInv, Typed
  <2>2. Transceivers' \subseteq 1..MaxTransceivers
    BY <1>2, <1>11
  <2>3. stopped' \subseteq mapMidTransceiver' /\ mapMidTransceiver' \subseteq Transceivers'
    BY <1>1, <1>11 DEF IInv, Typed
  <2> QED  BY <1>1, <1>4, <1>10, <2>1, <2>2, <2>3 DEF p, IInv, Typed
<1>15. Aligned'
  <2> SUFFICES ASSUME NEW i \in Sections, NEW mid, mid = mediaSections'[i].mid, mid # DataMid
               PROVE  /\ mid \in Transceivers'
                      /\ \/ i \in DOMAIN peer'.local /\ peer'.local[i].mid = mid
                         \/ peer'.transceivers[mid].stopped /\ mid \notin LocalMids'
    BY <1>12 DEF Aligned, Tr
  <2> QED  BY <1>4, <1>11, <1>12 DEF IInv, Aligned, Tr, p
<1>16. Waiting'
  <2>1. Tr(m)'.sending
    BY <1>11 DEF Tr, p
  <2>2. m \notin mapMidTransceiver'
    BY <1>1, <1>11 DEF IInv, Typed
  <2>3. Offers!OfferOf(peer', call'.offer)
    BY <1>6, <1>10 DEF p
  <2> QED  BY <2>1, <2>2, <2>3, <1>1, <1>10, <1>11, <1>13 DEF Waiting, Tr
<1>17. Producers'
  <2>1. mapMidTransceiver \subseteq Transceivers /\ stopped \subseteq Transceivers
    BY DEF IInv, Typed
  <2>2. \A i \in Sections' : mediaSections'[i].closed => mediaSections'[i].mid \in stopped'
    BY <1>1, <1>12 DEF IInv, Producers
  <2>3. \A t \in mapMidTransceiver' : Tr(t)'.mid = t => t \in AnsweredMids'
    BY <2>1, <1>1, <1>11, <1>12 DEF IInv, Producers
  <2>4. mapMidTransceiver' \cap Pending' = {}
    BY <2>1, <1>1, <1>11 DEF IInv, Producers
  <2>5. \A t \in stopped' : ~Tr(t)'.sending
    BY <2>1, <1>1, <1>11 DEF IInv, Producers
  <2>6. \A t \in mapMidTransceiver' \ stopped' : Tr(t)'.mid = t /\ ~Tr(t)'.stopped /\ Tr(t)'.sending
    BY <2>1, <1>1, <1>11 DEF IInv, Producers
  <2>7. \A t \in mapMidTransceiver' \ stopped' : \A i \in Sections' :
          mediaSections'[i].mid = t => mediaSections'[i].direction = "open"
    BY <1>1, <1>12 DEF IInv, Producers
  <2>8. \A t \in Transceivers' : Tr(t)'.stopped => t \in stopped'
    BY <1>1, <1>11 DEF IInv, Producers, Tr, p
  <2> QED  BY <2>2, <2>3, <2>4, <2>5, <2>6, <2>7, <2>8 DEF Producers
<1>18. Roles'
  <2>1. mediaSections' = <<>> <=> mediaSections = <<>>
    BY <1>10, EmptyStays DEF IInv, Typed, Rewritten
  <2>2. LocalDtlsRole' = LocalDtlsRole
    BY <1>1 DEF LocalDtlsRole
  <2> QED  BY <1>1, <1>4, <1>10, <2>1, <2>2 DEF IInv, Roles, p
<1>19. Lagging'
  <2> SUFFICES ASSUME Abandoned'
               PROVE  \E t \in Transceivers : /\ ~Tr(t)'.stopped
                                              /\ t \notin AnsweredMids'
                                              /\ t # m
    BY <1>10, <1>11 DEF Lagging
  <2>1. PICK t \in Transceivers' : ~Tr(t)'.sending /\ t \notin mapMidTransceiver
    BY <1>1 DEF Abandoned, Tr, Transceivers
  <2>2. t # m
    BY <2>1, <1>11 DEF Tr, p
  <2>3. Abandoned
    BY <2>1, <2>2, <1>11 DEF Abandoned, Transceivers, Tr
  <2> QED  BY <2>3, <1>11, <1>12 DEF IInv, Lagging
<1>20. InStep'
  <2> SUFFICES ASSUME ~failed PROVE InStep'
    BY <1>1 DEF InStep
  <2>1. /\ peer.signaling = "stable"
        /\ peer.remote = Answer
        /\ Len(peer.local) = Len(mediaSections)
        /\ Pending = {}
        /\ peer.channels # {} => DataMid \in LocalMids
        /\ hasDataChannelMediaSection <=> DataMid \in LocalMids
    BY <1>1 DEF IInv, InStep, Idle
  <2>2. \A i \in Sections :
             /\ peer.local[i].mid = mediaSections[i].mid
             /\ mediaSections[i].mid # DataMid =>
                  (mediaSections[i].closed <=> Tr(mediaSections[i].mid).stopped)
             /\ mediaSections[i].mid \in stopped => mediaSections[i].direction = "inactive"
    BY DEF IInv, InStep
  <2>3. \A i \in Sections : mediaSections[i].mid # DataMid => mediaSections[i].mid \in Transceivers
    BY DEF IInv, Aligned
  <2>4. \A i \in Sections' :
             /\ peer'.local[i].mid = mediaSections'[i].mid
             /\ mediaSections'[i].mid # DataMid =>
                  (mediaSections'[i].closed <=> peer'.transceivers[mediaSections'[i].mid].stopped)
             /\ mediaSections'[i].mid \in stopped' => mediaSections'[i].direction = "inactive"
    BY <2>2, <2>3, <1>1, <1>4, <1>11, <1>12 DEF Tr, p
  <2>5. Answer' = Answer
    BY <1>10, <1>12 DEF Answer, IInv, Table, Sections
  <2>6. Pending' = {m}
    BY <2>1, <1>11
  <2>7. DataMid \in Offers!MidsOf(offer) => DataMid \in LocalMids'
    BY <2>1, <1>4, <1>6, <1>11 DEF LocalMids
  <2> QED  BY <2>1, <2>4, <2>5, <2>6, <2>7, <1>1, <1>4, <1>10, <1>11, <1>12 DEF InStep, Tr, p
<1> QED  BY <1>4, <1>10, <1>14, <1>15, <1>16, <1>17, <1>18, <1>19, <1>20 DEF IInv, p

\* A call of Send that is undone leaves its transceiver behind, without a
\* sender; any other call that throws leaves the peer connection as it is.
LEMMA Throws ==
  ASSUME IInv, call.op # "none", Throw
  PROVE  IInv'
<1> PICK n \in Nat : /\ Transceivers = 1..n /\ 1..n \subseteq Mids
                     /\ NoMid \notin 1..n /\ DataMid \notin 1..n
  BY TransceiversFacts DEF IInv
<1>1. /\ call' = Idle /\ failed'
      /\ UNCHANGED remoteVars
      /\ UNCHANGED <<forcedLocalDtlsRole, transportReady, mapMidTransceiver,
                     hasDataChannelMediaSection, nextSendSctpStreamId, stopped>>
  BY DEF Throw, handlerVars
<1>2. UNCHANGED <<mediaSections, midToIndex, firstMid, sdpMedia, bundleMids, iceParameters, dtlsRole>>
  BY <1>1 DEF remoteVars
<1>3. Remote!TypeOK' /\ Table' /\ Rewritten
  BY <1>1, UnchangedTable DEF IInv, Typed
<1>4. call'.op = "none"
  BY <1>1 DEF Idle
<1>5. Sections' = Sections /\ AnsweredMids' = AnsweredMids
  BY <1>2 DEF Sections, AnsweredMids
<1>6. /\ peer' \in Offers!Peers(Mids)
      /\ peer'.local = peer.local /\ peer'.remote = peer.remote /\ peer'.channels = peer.channels
      /\ Transceivers' = Transceivers
      /\ Offers!WellFormed(peer')
      /\ Pending' = Pending
      /\ \A t \in Transceivers :
           /\ Tr(t)'.mid = Tr(t).mid /\ Tr(t)'.stopped = Tr(t).stopped
           /\ call.op # "send" \/ t # call.transceiver => Tr(t)'.sending = Tr(t).sending
      /\ call.op = "send" => ~peer'.transceivers[call.transceiver].sending
  <2>1. CASE call.op = "send"
    <3> PICK c : c = call.transceiver
      OBVIOUS
    <3> PICK q : q = peer'
      OBVIOUS
    <3>1. q = Pc!StopSender(peer, c)
      BY <2>1 DEF Throw, Undo
    <3>2. c \in Transceivers
      BY <2>1 DEF IInv, Waiting, Pending, Offers!NewTransceivers, Transceivers
    <3>3. /\ q \in Offers!Peers(Mids)
          /\ q.local = peer.local /\ q.remote = peer.remote /\ q.channels = peer.channels
          /\ DOMAIN q.transceivers = Transceivers
          /\ \A u \in Transceivers :
               /\ q.transceivers[u].mid = Tr(u).mid
               /\ q.transceivers[u].stopped = Tr(u).stopped
               /\ u # c => q.transceivers[u].sending = Tr(u).sending
          /\ ~q.transceivers[c].sending
          /\ Offers!WellFormed(q)
          /\ Offers!NewTransceivers(q) = Pending
      BY <3>1, <3>2, StoppedSender DEF IInv
    <3> QED  BY <3>3, <2>1 DEF Transceivers, Tr, Pending
  <2>2. CASE call.op # "send"
    <3>1. peer' = peer
      BY <2>2 DEF Throw
    <3> QED  BY <2>2, <3>1 DEF IInv, Typed, Transceivers, Tr, Pending
  <2> QED  BY <2>1, <2>2
<1>7. Typed'
  BY <1>1, <1>3, <1>6 DEF IInv, Typed
<1>8. Aligned'
  <2> SUFFICES ASSUME NEW i \in Sections, NEW mid, mid = mediaSections[i].mid, mid # DataMid
               PROVE  /\ mid \in Transceivers
                      /\ \/ i \in DOMAIN peer.local /\ peer.local[i].mid = mid
                         \/ peer'.transceivers[mid].stopped /\ mid \notin LocalMids
    BY <1>2, <1>5, <1>6 DEF Aligned, Tr, LocalMids
  <2> QED  BY <1>6 DEF IInv, Aligned, Tr
<1>9. Waiting'
  BY <1>4 DEF Waiting
<1>10. Producers'
  <2>1. /\ mapMidTransceiver \subseteq Transceivers /\ stopped \subseteq mapMidTransceiver
        /\ call.op = "send" => call.transceiver \notin mapMidTransceiver
    BY DEF IInv, Typed, Waiting
  <2>2. \A i \in Sections' : mediaSections'[i].closed => mediaSections'[i].mid \in stopped'
    BY <1>1, <1>2, <1>5 DEF IInv, Producers
  <2>3. \A t \in mapMidTransceiver' : Tr(t)'.mid = t => t \in AnsweredMids'
    BY <2>1, <1>1, <1>5, <1>6 DEF IInv, Producers
  <2>4. mapMidTransceiver' \cap Pending' = {}
    BY <1>1, <1>6 DEF IInv, Producers
  <2>5. \A t \in stopped' : ~Tr(t)'.sending
    BY <2>1, <1>1, <1>6 DEF IInv, Producers
  <2>6. \A t \in mapMidTransceiver' \ stopped' : Tr(t)'.mid = t /\ ~Tr(t)'.stopped /\ Tr(t)'.sending
    BY <2>1, <1>1, <1>6 DEF IInv, Producers
  <2>7. \A t \in mapMidTransceiver' \ stopped' : \A i \in Sections' :
          mediaSections'[i].mid = t => mediaSections'[i].direction = "open"
    BY <1>1, <1>2, <1>5 DEF IInv, Producers
  <2>8. \A t \in Transceivers' : Tr(t)'.stopped => t \in stopped'
    BY <1>1, <1>6 DEF IInv, Producers
  <2> QED  BY <2>2, <2>3, <2>4, <2>5, <2>6, <2>7, <2>8 DEF Producers
<1>11. Roles'
  BY <1>1, <1>2, <1>4, <1>6 DEF IInv, Roles, LocalDtlsRole
<1>12. InStep'
  BY <1>1 DEF InStep
<1>13. Lagging'
  <2>1. CASE call.op = "send"
    <3>1. /\ call.transceiver \in Transceivers /\ ~Tr(call.transceiver).stopped
          /\ call.transceiver \notin AnsweredMids
      BY <2>1, PendingUnanswered DEF IInv, Waiting
    <3> QED  BY <3>1, <1>4, <1>5, <1>6 DEF Lagging
  <2>2. CASE call.op # "send"
    <3>1. Abandoned' => Abandoned
      BY <2>2, <1>1, <1>6 DEF Abandoned, Transceivers, Tr
    <3> QED  BY <3>1, <1>4, <1>5, <1>6 DEF IInv, Lagging
  <2> QED  BY <2>1, <2>2
<1> QED  BY <1>3, <1>6, <1>7, <1>8, <1>9, <1>10, <1>11, <1>12, <1>13 DEF IInv

-----------------------------------------------------------------------------
(* The steps that negotiate.                                               *)

\* The second half of Send.  The section is put where the offer has the line
\* of the same index, also after calls that failed.
LEMMA SendPlacesOffered ==
  ASSUME IInv, call.op = "send",
         NEW offer, offer = call.offer, NEW idx, idx = call.idx,
         NEW offerMid, idx \in DOMAIN offer, offerMid = offer[idx].mid,
         Remote!Send(offerMid, call.reuseMid)
  PROVE  /\ Remote!TypeOK' /\ Table' /\ Placed(idx, offerMid)
         /\ Covers(offer)
         /\ AnsweredMids' \subseteq AnsweredMids \cup {offerMid}
         /\ \A t \in mapMidTransceiver : Tr(t).mid = t => t \in AnsweredMids'
<1> DEFINE slot == Remote!GetNextMediaSectionIdx
<1>1. /\ call \in SendCalls /\ offer \in Offers!Lines(Mids)
      /\ Offers!OfferOf(peer, offer)
      /\ idx = slot.idx /\ call.reuseMid = slot.reuseMid
  BY CallCases DEF IInv, Waiting, SendCalls
<1>2. DOMAIN offer = 1..Len(offer) /\ offer[idx].mid \in Mids
      /\ Offers!UniqueMids(offer)
  <2>1. Offers!UniqueMids(offer)
    BY <1>1 DEF Offers!OfferOf
  <2>2. DOMAIN offer = 1..Len(offer) /\ offer[idx] \in [mid : Mids, rejected : BOOLEAN]
    BY <1>1, SeqFacts DEF Offers!Lines
  <2> QED  BY <2>1, <2>2
<1>3. \A j \in Sections : mediaSections[j].mid # DataMid =>
        /\ mediaSections[j].mid \in Transceivers
        /\ \/ j \in DOMAIN offer /\ offer[j].mid = mediaSections[j].mid
           \/ Tr(mediaSections[j].mid).stopped /\ mediaSections[j].mid \notin Offers!MidsOf(offer)
  BY <1>1, KeptLine DEF IInv
<1>4. \A j \in Sections : j # idx /\ offerMid # DataMid => mediaSections[j].mid # offerMid
  BY <1>2, <1>3 DEF Offers!UniqueMids, Offers!MidsOf
<1>5. offerMid = DataMid \/ \A j \in Sections : j # slot.idx => mediaSections[j].mid # offerMid
  BY <1>1, <1>4
<1>6. Remote!TypeOK' /\ Table' /\ Placed(idx, offerMid)
  <2>1. Remote!Send(offerMid, slot.reuseMid) /\ offerMid \in Mids
    BY <1>1, <1>2
  <2> HIDE DEF slot
  <2>2. slot = Remote!GetNextMediaSectionIdx
    BY DEF slot
  <2>3. Remote!TypeOK' /\ Table' /\ Placed(slot.idx, offerMid)
    BY <1>5, <2>1, <2>2, SendPlaces DEF IInv, Typed
  <2> QED  BY <2>3, <1>1
<1>7. /\ Sections' = Sections \cup {idx}
      /\ \A i \in Sections : i # idx => mediaSections'[i] = mediaSections[i]
      /\ mediaSections'[idx].mid = offerMid
  BY <1>6 DEF Placed, Sections
<1>8. Covers(offer)
  BY <1>2, <1>7 DEF Covers
<1>9. AnsweredMids' \subseteq AnsweredMids \cup {offerMid}
  BY <1>7 DEF AnsweredMids
<1>10. ASSUME NEW t \in mapMidTransceiver, Tr(t).mid = t
       PROVE  t \in AnsweredMids'
  <2>1. PICK j \in Sections : mediaSections[j].mid = t
    BY <1>10 DEF IInv, Producers, AnsweredMids
  <2>2. CASE j # idx
    BY <2>1, <2>2, <1>7 DEF AnsweredMids
  <2>3. CASE j = idx
    <3>1. t \in Transceivers /\ t # DataMid
      BY TransceiversFacts DEF IInv, Typed
    <3>2. ~Tr(t).stopped
      BY <3>1, <1>10, TransceiversFacts DEF IInv, Offers!WellFormed, Transceivers, Tr
    <3>3. offer[idx].mid = t
      BY <3>1, <3>2, <2>1, <2>3, <1>3
    <3> QED  BY <3>3, <1>7 DEF AnsweredMids
  <2> QED  BY <2>2, <2>3
<1> QED  BY <1>6, <1>8, <1>9, <1>10

\* After calls that did not fail, the line at the index is the one of the new
\* transceiver, and with its section the answer fits.
LEMMA SendFits ==
  ASSUME IInv, ~failed, call.op = "send",
         NEW offer, offer = call.offer, NEW idx, idx = call.idx,
         NEW t, t = call.transceiver
  PROVE  /\ idx \in DOMAIN offer /\ offer[idx].mid = t /\ t # DataMid
         /\ Remote!TypeOK' /\ Placed(idx, t) => Fits(offer)
<1>1. /\ call \in SendCalls /\ offer \in Offers!Lines(Mids)
      /\ Offers!OfferOf(peer, offer)
      /\ idx = Remote!GetNextMediaSectionIdx.idx
  BY CallCases DEF IInv, Waiting, SendCalls
<1>2. Pending = {t} /\ (DataMid \in Offers!MidsOf(offer) => DataMid \in LocalMids)
  BY DEF IInv, InStep
<1>3. /\ DOMAIN offer = Sections \cup {idx} /\ idx \in DOMAIN offer
      /\ offer[idx].mid = t
      /\ \A i \in Sections : i # idx => offer[i].mid = mediaSections[i].mid
  <2>1. Typed /\ Offers!WellFormed(peer) /\ Table /\ Aligned /\ Producers /\ InStep
    BY DEF IInv
  <2>2. t \in Pending /\ \A u \in Pending : u = t
    BY <1>2
  <2> QED  BY <1>1, <1>2, <2>1, <2>2, OfferOfSend
<1>4. t # DataMid
  BY <1>2, PendingUnanswered, TransceiversFacts DEF IInv
<1>5. ASSUME Remote!TypeOK', Placed(idx, t) PROVE Fits(offer)
  <2>1. /\ DOMAIN mediaSections' = DOMAIN offer
        /\ \A i \in DOMAIN offer : mediaSections'[i].mid = offer[i].mid
    BY <1>3, <1>5 DEF Placed
  <2>2. /\ mediaSections' \in Seq(Remote!Section) /\ offer \in Seq([mid : Mids, rejected : BOOLEAN])
    BY <1>1, <1>5 DEF Remote!TypeOK, Offers!Lines
  <2>3. /\ DOMAIN offer = 1..Len(offer) /\ Len(mediaSections') = Len(offer)
    BY <2>1, <2>2
  <2> QED  BY <2>1, <2>3 DEF Fits
<1> QED  BY <1>3, <1>4, <1>5

\* The second half of Send, after failed calls too; an abandoned transceiver
\* makes that no producer is added.
LEMMA SendsOffer ==
  ASSUME IInv, SendNegotiates
  PROVE  IInv' /\ (Abandoned => mapMidTransceiver' = mapMidTransceiver)
<1> PICK c, offer, idx, offerMid, p :
      /\ c = call.transceiver /\ offer = call.offer /\ idx = call.idx
      /\ offerMid = offer[idx].mid /\ p = Pc!SetLocalOffer(peer, offer)
  OBVIOUS
<1>1. /\ call.op = "send" /\ call.stage = "negotiate" /\ ~peer.closed
      /\ call' = Idle
      /\ UNCHANGED <<forcedLocalDtlsRole, transportReady, hasDataChannelMediaSection,
                     nextSendSctpStreamId, stopped, failed>>
  BY DEF SendNegotiates
<1>2. /\ Typed /\ Offers!WellFormed(peer) /\ Table /\ Aligned /\ Waiting /\ Producers
      /\ Roles /\ InStep /\ Lagging
  BY DEF IInv
<1>3. /\ call \in SendCalls /\ offer \in Offers!Lines(Mids)
      /\ Offers!OfferOf(peer, offer)
      /\ c \in Pending /\ c \notin mapMidTransceiver /\ Tr(c).sending
  BY <1>1, <1>2, CallCases DEF Waiting, SendCalls
<1>4. Starts(peer)
  BY <1>1, <1>2, PeerStarts DEF Producers
<1>5. p.local = offer /\ \A t \in Transceivers : p.transceivers[t].sending <=> Tr(t).sending /\ t \notin stopped'
  BY <1>2, <1>3, <1>4, OfferSet
<1> DEFINE answered == idx \in DOMAIN offer /\ (call.simulcast \/ HasSsrcs(p, offerMid))
<1>6. /\ answered => /\ Remote!Send(offerMid, call.reuseMid)
                     /\ ApplyAnswer(p)
                     /\ mapMidTransceiver' = IF Pc!AnswerFits(p, Answer')
                                             THEN mapMidTransceiver \cup {c}
                                             ELSE mapMidTransceiver
      /\ ~answered => peer' = p /\ UNCHANGED <<remoteVars, mapMidTransceiver>>
  BY <1>5 DEF SendNegotiates
<1> HIDE DEF answered
<1>7. /\ Remote!TypeOK' /\ Table'
      /\ Covers(offer)
      /\ AnsweredMids' \subseteq AnsweredMids \cup {offerMid}
      /\ \A t \in mapMidTransceiver : Tr(t).mid = t => t \in AnsweredMids'
      /\ answered => Placed(idx, offerMid)
      /\ UNCHANGED dtlsRole
  <2>1. CASE answered
    <3>1. idx \in DOMAIN offer
      BY <2>1 DEF answered
    <3>2. UNCHANGED dtlsRole
      BY <2>1, <1>6 DEF Remote!Send
    <3> QED  BY <2>1, <3>1, <3>2, <1>1, <1>6, SendPlacesOffered
  <2>2. CASE ~answered
    <3>1. Remote!TypeOK' /\ Table' /\ Rewritten /\ UNCHANGED <<mediaSections, dtlsRole>>
      BY <2>2, <1>2, <1>6, UnchangedTable DEF Typed, remoteVars
    <3>2. Sections' = Sections /\ AnsweredMids' = AnsweredMids
      BY <3>1 DEF Sections, AnsweredMids
    <3> QED  BY <2>2, <3>1, <3>2, <1>2 DEF Covers, Producers
  <2> QED  BY <2>1, <2>2
<1>8. PICK applied \in BOOLEAN :
        /\ Negotiated(offer, applied)
        /\ mapMidTransceiver' = IF applied THEN mapMidTransceiver \cup {c} ELSE mapMidTransceiver
        /\ answered /\ Fits(offer) => applied
  <2>1. CASE answered
    <3>1. /\ Fits(offer) => Negotiated(offer, TRUE)
          /\ ~Fits(offer) => Negotiated(offer, FALSE)
          /\ Pc!AnswerFits(p, Answer') <=> Fits(offer)
      BY <2>1, <1>1, <1>2, <1>3, <1>4, <1>6, <1>7, Negotiation
    <3>2. CASE Fits(offer)
      BY <2>1, <3>1, <3>2, <1>6
    <3>3. CASE ~Fits(offer)
      BY <2>1, <3>1, <3>3, <1>6
    <3> QED  BY <3>2, <3>3
  <2>2. CASE ~answered
    <3>1. Negotiated(offer, FALSE)
      BY <2>2, <1>2, <1>3, <1>4, <1>6, NotApplied
    <3> QED  BY <2>2, <3>1, <1>6
  <2> QED  BY <2>1, <2>2
<1> HIDE DEF answered
<1>9. /\ peer' \in Offers!Peers(Mids) /\ Transceivers' = Transceivers
      /\ peer'.closed = peer.closed /\ peer'.channels = peer.channels
      /\ Offers!WellFormed(peer')
      /\ Pending' = {}
      /\ \A t \in Transceivers : Tr(t)'.sending <=> Tr(t).sending /\ t \notin stopped'
      /\ applied => Fits(offer)
  BY <1>8 DEF Negotiated
<1>10. call'.op = "none"
  BY <1>1 DEF Idle
<1>11. c \in Transceivers
  BY <1>2, <1>3, PendingUnanswered
<1>12. stopped' = stopped /\ stopped \subseteq mapMidTransceiver /\ mapMidTransceiver \subseteq Transceivers
  BY <1>1, <1>2 DEF Typed
<1>13. Typed'
  <2>1. mapMidTransceiver' \subseteq Transceivers /\ stopped \subseteq mapMidTransceiver'
    BY <1>8, <1>11, <1>12
  <2> QED  BY <1>1, <1>2, <1>7, <1>9, <1>12, <2>1 DEF Typed
<1>14. Aligned'
  BY <1>2, <1>3, <1>7, <1>8, NegotiationAligned
<1>15. Waiting'
  BY <1>10 DEF Waiting
<1>16. /\ Sections' \subseteq Sections \cup {idx}
       /\ \A i \in Sections' : \/ i \in Sections /\ mediaSections'[i] = mediaSections[i]
                               \/ /\ i = idx /\ answered
                                  /\ mediaSections'[i].mid = offerMid
                                  /\ ~mediaSections'[i].closed /\ mediaSections'[i].direction = "open"
  <2>1. CASE answered
    BY <2>1, <1>7 DEF Placed, Sections
  <2>2. CASE ~answered
    BY <2>2, <1>6 DEF remoteVars, Sections
  <2> QED  BY <2>1, <2>2
<1>17. Producers'
  <2> DEFINE added == IF applied THEN {c} ELSE {}
  <2>1. mapMidTransceiver' = mapMidTransceiver \cup added
    BY <1>8
  <2>2. added = {} \/ (Fits(offer) /\ call.op = "send" /\ added = {call.transceiver})
    BY <1>1, <1>9
  <2>3. \A i \in Sections' : mediaSections'[i].closed => mediaSections'[i].mid \in stopped'
    BY <1>2, <1>12, <1>16 DEF Producers
  <2>4. ASSUME NEW i \in Sections', mediaSections'[i].mid \in mapMidTransceiver',
               mediaSections'[i].mid \notin stopped'
        PROVE  mediaSections'[i].direction = "open"
    <3>1. CASE i \in Sections /\ mediaSections'[i] = mediaSections[i]
      <4>1. mediaSections[i].mid # c
        <5>1. c \notin AnsweredMids
          BY <1>2, <1>3, PendingUnanswered
        <5> QED  BY <3>1, <5>1 DEF AnsweredMids
      <4>2. mediaSections[i].mid \in mapMidTransceiver \ stopped
        BY <2>4, <3>1, <4>1, <1>8, <1>12
      <4> QED  BY <3>1, <4>2, <1>2 DEF Producers
    <3> QED  BY <3>1, <1>16
  <2> HIDE DEF added
  <2> QED  BY <2>1, <2>2, <2>3, <2>4, <1>2, <1>3, <1>7, <1>8, <1>12, NegotiationProducers
<1>18. Roles'
  <2>1. transportReady /\ LocalDtlsRole' = LocalDtlsRole
    BY <1>1, <1>2 DEF Waiting, LocalDtlsRole
  <2> QED  BY <2>1, <1>1, <1>2, <1>7, <1>10 DEF Roles
<1>19. /\ Abandoned => ~Fits(offer)
       /\ Lagging'
  <2>1. Abandoned =>
          ~Fits(offer) /\ \E t \in Transceivers : ~Tr(t)'.stopped /\ t \notin AnsweredMids'
    BY <1>1, <1>2, <1>3, <1>7, <1>8, NegotiationLags
  <2>2. Abandoned' => Abandoned
    BY <1>8, <1>9, <1>12 DEF Abandoned, Transceivers, Tr
  <2> QED  BY <2>1, <2>2, <1>9, <1>10 DEF Lagging
<1>20. InStep'
  <2> SUFFICES ASSUME ~failed PROVE InStep'
    BY <1>1 DEF InStep
  <2>1. /\ idx \in DOMAIN offer /\ offerMid = c /\ c # DataMid
        /\ Remote!TypeOK' /\ Placed(idx, c) => Fits(offer)
    BY <1>1, SendFits
  <2>2. answered
    <3>1. p.transceivers[c].sending
      <4>1. c \notin stopped'
        BY <1>3, <1>12
      <4> QED  BY <4>1, <1>3, <1>5, <1>11
    <3> QED  BY <2>1, <3>1 DEF answered, HasSsrcs
  <2>3. applied = TRUE
    BY <2>1, <2>2, <1>7, <1>8
  <2>4. Negotiated(offer, TRUE)
    BY <2>3, <1>8
  <2>5. /\ \A i \in Sections :
              /\ mediaSections[i].mid # DataMid =>
                   (mediaSections[i].closed <=> Tr(mediaSections[i].mid).stopped)
              /\ mediaSections[i].mid \in stopped => mediaSections[i].direction = "inactive"
        /\ DataMid \in Offers!MidsOf(offer) => DataMid \in LocalMids
        /\ peer.channels # {} => DataMid \in LocalMids
        /\ hasDataChannelMediaSection <=> DataMid \in LocalMids
    BY <1>1, <1>2 DEF InStep
  <2>6. ~Tr(c).stopped /\ c \notin stopped
    BY <1>2, <1>3, <1>12, PendingUnanswered
  <2>7. \A i \in Sections' :
            /\ mediaSections'[i].mid # DataMid /\ Tr(mediaSections'[i].mid).stopped =>
                 mediaSections'[i].closed
            /\ mediaSections'[i].mid \in stopped' => mediaSections'[i].direction = "inactive"
    BY <2>1, <2>5, <2>6, <1>12, <1>16
  <2>8. DataMid \in LocalMids => DataMid \in Offers!MidsOf(offer)
    <3> SUFFICES ASSUME DataMid \in LocalMids PROVE DataMid \in Offers!MidsOf(offer)
      OBVIOUS
    <3>1. PICK i \in DOMAIN peer.local : peer.local[i].mid = DataMid
      BY DEF LocalMids, Offers!MidsOf
    <3>2. i \notin Offers!RecyclableLines(peer)
      BY <3>1 DEF Offers!RecyclableLines
    <3>3. DOMAIN peer.local \subseteq DOMAIN offer
      BY <1>2, <1>3, LocalInOffer
    <3> QED  BY <3>1, <3>2, <3>3, <1>3 DEF Offers!OfferOf, Offers!MidsOf
  <2> QED  BY <2>4, <2>5, <2>7, <2>8, <1>1, <1>2, <1>3, <1>7, NegotiationStaysInStep
<1>21. Abandoned => mapMidTransceiver' = mapMidTransceiver
  BY <1>8, <1>9, <1>19
<1> QED  BY <1>7, <1>9, <1>13, <1>14, <1>15, <1>17, <1>18, <1>19, <1>20, <1>21 DEF IInv
\* The offer that CreateOffer makes for such a call.
LEMMA OfferMade ==
  ASSUME Typed, NEW start, Starts(start), NEW offer, offer = Pc!CreateOffer(start)
  PROVE  /\ offer \in Offers!Lines(Mids)
         /\ Offers!OfferOf(start, offer) /\ Offers!OfferOf(peer, offer)
         /\ DataMid \in Offers!MidsOf(offer) <=> peer.channels # {} \/ DataMid \in LocalMids
<1> PICK n \in Nat : /\ Transceivers = 1..n /\ 1..n \subseteq Mids
                     /\ NoMid \notin 1..n /\ DataMid \notin 1..n
  BY TransceiversFacts
<1>1. offer = Offers!CreateOffer(start)
  BY Same
<1>2. /\ start.local \in Seq([mid : Mids, rejected : BOOLEAN])
      /\ DOMAIN start.transceivers = 1..n /\ Offers!WellFormed(start)
  BY DEF Starts, Offers!Peers, Offers!Lines
<1>3. DataMid \in Mids
  BY MidsFacts
<1>4. /\ offer \in Seq([mid : Mids, rejected : BOOLEAN])
      /\ Offers!OfferOf(start, offer)
      /\ DataMid \in Offers!MidsOf(offer) <=>
           start.channels # {} \/ DataMid \in Offers!MidsOf(start.local)
  BY <1>1, <1>2, <1>3, Offers!OfferOfPeer
<1> QED  BY <1>4, StartsOffer DEF Starts, LocalMids, Offers!Lines

\* A step that negotiates, ends its call and adds no producer.
LEMMA NegotiationKeeps ==
  ASSUME IInv, Remote!TypeOK', Table',
         NEW offer \in Offers!Lines(Mids), Offers!OfferOf(peer, offer),
         NEW applied \in BOOLEAN, Negotiated(offer, applied), Covers(offer),
         AnsweredMids' \subseteq AnsweredMids \cup {DataMid},
         AnsweredMids \subseteq AnsweredMids',
         call' = Idle, transportReady, hasDataChannelMediaSection' \in BOOLEAN,
         nextSendSctpStreamId' = nextSendSctpStreamId,
         UNCHANGED <<dtlsRole, forcedLocalDtlsRole, transportReady, mapMidTransceiver, failed>>,
         stopped \subseteq stopped', stopped' \subseteq mapMidTransceiver,
         \A i \in Sections' : mediaSections'[i].closed => mediaSections'[i].mid \in stopped',
         \A i \in Sections' :
            mediaSections'[i].mid \in mapMidTransceiver /\ mediaSections'[i].mid \notin stopped'
              => mediaSections'[i].direction = "open",
         ~failed => InStep'
  PROVE  IInv'
<1>1. /\ Typed /\ Offers!WellFormed(peer) /\ Table /\ Aligned /\ Waiting /\ Producers
      /\ Roles /\ Lagging
  BY DEF IInv
<1>2. /\ peer' \in Offers!Peers(Mids) /\ Transceivers' = Transceivers
      /\ peer'.channels = peer.channels
      /\ Offers!WellFormed(peer')
      /\ \A t \in Transceivers : Tr(t)'.sending <=> Tr(t).sending /\ t \notin stopped'
  BY DEF Negotiated
<1>3. call'.op = "none"
  BY DEF Idle
<1>4. Typed'
  BY <1>1, <1>2 DEF Typed
<1>5. Aligned'
  BY <1>1, NegotiationAligned
<1>6. Waiting'
  BY <1>3 DEF Waiting
<1>7. Producers'
  <2> DEFINE added == {}
  <2>1. mapMidTransceiver' = mapMidTransceiver \cup added
    OBVIOUS
  <2>2. added = {} \/ (Fits(offer) /\ call.op = "send" /\ added = {call.transceiver})
    OBVIOUS
  <2>3. \A t \in mapMidTransceiver : Tr(t).mid = t => t \in AnsweredMids'
    BY <1>1 DEF Producers
  <2> HIDE DEF added
  <2> QED  BY <1>1, <2>1, <2>2, <2>3, NegotiationProducers
<1>8. Roles'
  <2>1. LocalDtlsRole' = LocalDtlsRole
    BY DEF LocalDtlsRole
  <2> QED  BY <2>1, <1>1, <1>3 DEF Roles
<1>9. Lagging'
  <2>1. Abandoned' => Abandoned
    BY <1>2 DEF Abandoned, Transceivers, Tr
  <2>2. Abandoned => \E t \in Transceivers : ~Tr(t)'.stopped /\ t \notin AnsweredMids'
    BY <1>1, NegotiationLags
  <2> QED  BY <2>1, <2>2, <1>2, <1>3 DEF Lagging
<1>10. InStep'
  BY DEF InStep
<1> QED  BY <1>2, <1>4, <1>5, <1>6, <1>7, <1>8, <1>9, <1>10 DEF IInv

\* After calls that did not fail, the offer of a call that adds no m= line
\* is answered with the sections of before.
LEMMA SameOfferFits ==
  ASSUME IInv, ~failed, call.op = "none", SameMids,
         NEW offer \in Offers!Lines(Mids), Offers!OfferOf(peer, offer),
         DataMid \in Offers!MidsOf(offer) <=> peer.channels # {} \/ DataMid \in LocalMids
  PROVE  /\ Fits(offer)
         /\ DataMid \in Offers!MidsOf(offer) <=> DataMid \in LocalMids
         /\ peer.channels # {} => DataMid \in Offers!MidsOf(offer)
         /\ hasDataChannelMediaSection <=> DataMid \in Offers!MidsOf(offer)
<1>1. /\ Len(peer.local) = Len(mediaSections)
      /\ \A i \in Sections : peer.local[i].mid = mediaSections[i].mid
      /\ Pending = {}
      /\ peer.channels # {} => DataMid \in LocalMids
      /\ hasDataChannelMediaSection <=> DataMid \in LocalMids
  BY DEF IInv, InStep
<1>2. Typed
  BY DEF IInv
<1>3. /\ Len(offer) = Len(peer.local)
      /\ \A i \in 1..Len(offer) : offer[i].mid = peer.local[i].mid
  BY <1>1, <1>2, OfferOfSame
<1>4. Sections = 1..Len(mediaSections)
  BY <1>2, SeqFacts DEF Typed, Remote!TypeOK, Sections
<1>5. Fits(offer)
  BY <1>1, <1>3, <1>4 DEF Fits, SameMids
<1> QED  BY <1>1, <1>5

\* The second half of SendDataChannel.
LEMMA DataOffers ==
  ASSUME IInv, DataNegotiates
  PROVE  IInv'
<1> PICK offer, p, n : /\ offer = call.offer /\ p = Pc!SetLocalOffer(peer, offer)
                       /\ n = Len(mediaSections)
  OBVIOUS
<1>1. /\ call.op = "data" /\ call.stage = "negotiate" /\ ~peer.closed
      /\ call' = Idle
      /\ Remote!SendSctpAssociation(DataMid)
      /\ ApplyAnswer(p)
      /\ hasDataChannelMediaSection' = Pc!AnswerFits(p, Answer')
      /\ UNCHANGED <<forcedLocalDtlsRole, transportReady, mapMidTransceiver,
                     nextSendSctpStreamId, stopped, failed>>
  BY DEF DataNegotiates
<1>2. /\ Typed /\ Offers!WellFormed(peer) /\ Table /\ Aligned /\ Waiting /\ Producers
      /\ Roles /\ InStep
  BY DEF IInv
<1>3. /\ offer \in Offers!Lines(Mids) /\ Offers!OfferOf(peer, offer) /\ transportReady
  BY <1>1, <1>2, CallCases DEF Waiting, DataCalls
<1>4. /\ Remote!TypeOK' /\ Table' /\ Placed(n + 1, DataMid)
      /\ UNCHANGED dtlsRole
  <2>1. /\ Remote!AddMediaSection(Remote!NewSection(DataMid))
        /\ UNCHANGED <<iceParameters, dtlsRole>> /\ DataMid \in Mids
    BY <1>1, MidsFacts DEF Remote!SendSctpAssociation
  <2> QED  BY <1>2, <2>1, AddPlaces DEF Typed
<1>5. /\ n \in Nat /\ Sections = 1..n /\ n + 1 \notin Sections
  <2>1. n \in Nat /\ Sections = 1..n
    BY <1>2, SeqFacts DEF Typed, Remote!TypeOK, Sections
  <2> QED  BY <2>1
<1>6. /\ Sections' = Sections \cup {n + 1}
      /\ \A i \in Sections : mediaSections'[i] = mediaSections[i]
      /\ mediaSections'[n + 1].mid = DataMid
      /\ ~mediaSections'[n + 1].closed /\ mediaSections'[n + 1].direction = "open"
  BY <1>4, <1>5 DEF Placed, Sections
<1>7. /\ Fits(offer) => Negotiated(offer, TRUE)
      /\ ~Fits(offer) => Negotiated(offer, FALSE)
      /\ Pc!AnswerFits(p, Answer') <=> Fits(offer)
  <2>1. Starts(peer)
    BY <1>1, <1>2, PeerStarts DEF Producers
  <2> QED  BY <2>1, <1>1, <1>2, <1>3, <1>4, Negotiation
<1>8. hasDataChannelMediaSection' \in BOOLEAN
  BY <1>1 DEF Pc!AnswerFits
<1>9. /\ AnsweredMids' \subseteq AnsweredMids \cup {DataMid}
      /\ AnsweredMids \subseteq AnsweredMids'
  BY <1>6 DEF AnsweredMids
<1>10. DataMid \notin Transceivers
  BY <1>2, TransceiversFacts
<1>11. stopped' = stopped /\ stopped \subseteq mapMidTransceiver /\ mapMidTransceiver \subseteq Transceivers
  BY <1>1, <1>2 DEF Typed
<1>12. \A i \in Sections' : mediaSections'[i].closed => mediaSections'[i].mid \in stopped'
  BY <1>2, <1>6, <1>11 DEF Producers
<1>13. \A i \in Sections' :
         mediaSections'[i].mid \in mapMidTransceiver /\ mediaSections'[i].mid \notin stopped'
           => mediaSections'[i].direction = "open"
  BY <1>2, <1>6, <1>11 DEF Producers
<1>14. ASSUME ~failed PROVE InStep' /\ Fits(offer)
  <2>1. /\ Len(peer.local) = n /\ Pending = {}
        /\ \A i \in Sections :
              /\ peer.local[i].mid = mediaSections[i].mid
              /\ mediaSections[i].mid # DataMid =>
                   (mediaSections[i].closed <=> Tr(mediaSections[i].mid).stopped)
              /\ mediaSections[i].mid \in stopped => mediaSections[i].direction = "inactive"
        /\ DataMid \in Offers!MidsOf(offer) /\ DataMid \notin LocalMids
    BY <1>1, <1>2, <1>14 DEF InStep
  <2>2. /\ Len(offer) = n + 1
        /\ \A i \in 1..n : offer[i].mid = peer.local[i].mid
        /\ offer[n + 1].mid = DataMid
    BY <2>1, <1>2, <1>3, OfferOfData
  <2>3. Sections' = 1..Len(mediaSections') /\ Len(mediaSections') \in Nat
    BY <1>4, SeqFacts DEF Remote!TypeOK, Sections
  <2>4. Len(mediaSections') = n + 1
    <3> PICK m \in Nat : m = Len(mediaSections')
      BY <2>3
    <3>1. 1..m = 1..n \cup {n + 1}
      BY <2>3, <1>5, <1>6
    <3>2. n + 1 \in 1..m
      BY <3>1, <1>5
    <3>3. m \in 1..m
      BY <3>2, <1>5
    <3>4. m \in 1..n \/ m = n + 1
      BY <3>1, <3>3
    <3> QED  BY <3>2, <3>4, <1>5
  <2>5. Fits(offer)
    BY <2>1, <2>2, <2>4, <1>5, <1>6 DEF Fits
  <2>6. Negotiated(offer, TRUE) /\ (hasDataChannelMediaSection' <=> DataMid \in Offers!MidsOf(offer))
    BY <2>1, <2>5, <1>1, <1>7
  <2>7. \A i \in Sections' :
            /\ mediaSections'[i].mid # DataMid /\ Tr(mediaSections'[i].mid).stopped =>
                 mediaSections'[i].closed
            /\ mediaSections'[i].mid \in stopped' => mediaSections'[i].direction = "inactive"
    BY <2>1, <1>6, <1>10, <1>11
  <2> QED  BY <2>1, <2>5, <2>6, <2>7, <1>1, <1>2, <1>3, <1>4, NegotiationStaysInStep
<1>15. Covers(offer)
  BY <1>6 DEF Covers
<1>16. CASE Fits(offer)
  <2>1. Negotiated(offer, TRUE)
    BY <1>7, <1>16
  <2> QED  BY <2>1, <1>1, <1>3, <1>4, <1>8, <1>9, <1>11, <1>12, <1>13, <1>14, <1>15, NegotiationKeeps
<1>17. CASE ~Fits(offer)
  <2>1. Negotiated(offer, FALSE)
    BY <1>7, <1>17
  <2> QED  BY <2>1, <1>1, <1>3, <1>4, <1>8, <1>9, <1>11, <1>12, <1>13, <1>14, <1>15, NegotiationKeeps
<1> QED  BY <1>16, <1>17
\* StopSending closes the section of its own producer, and the offer that is
\* made without the sender is answered with the sections there are.
LEMMA ClosesProducer ==
  ASSUME IInv, NEW localId \in mapMidTransceiver, CloseProducer(localId)
  PROVE  IInv'
<1> PICK start, offer, p : /\ start = Pc!StopSender(peer, localId)
                           /\ offer = Pc!CreateOffer(start)
                           /\ p = Pc!SetLocalOffer(start, offer)
  OBVIOUS
<1>1. /\ call = Idle /\ ~peer.closed
      /\ Tr(localId).mid # NoMid
      /\ Remote!CloseMediaSection(Tr(localId).mid)
      /\ ApplyAnswer(p)
      /\ stopped' = stopped \cup {localId}
      /\ UNCHANGED <<forcedLocalDtlsRole, transportReady, mapMidTransceiver,
                     hasDataChannelMediaSection, nextSendSctpStreamId, call, failed>>
  BY DEF CloseProducer, StopSending, Tr, handlerVars
<1>2. /\ Typed /\ Offers!WellFormed(peer) /\ Table /\ Aligned /\ Waiting /\ Producers
      /\ Roles /\ InStep
  BY DEF IInv
<1>3. localId \in Transceivers /\ stopped' \subseteq mapMidTransceiver /\ stopped \subseteq stopped'
  BY <1>1, <1>2 DEF Typed
<1>4. localId # DataMid
  BY <1>2, <1>3, TransceiversFacts
<1>5. Tr(localId).mid = localId
  BY <1>1, <1>2, <1>3 DEF Offers!WellFormed, Transceivers, Tr
<1>6. localId \in DOMAIN midToIndex
  <2>1. PICK i \in Sections : mediaSections[i].mid = localId
    BY <1>2, <1>5 DEF Producers, AnsweredMids
  <2> QED  BY <2>1, <1>2 DEF Table
<1>7. /\ Remote!TypeOK' /\ Table' /\ SameMids
      /\ UNCHANGED dtlsRole
      /\ \A i \in Sections :
           /\ mediaSections[i].mid # localId => mediaSections'[i] = mediaSections[i]
           /\ mediaSections[i].mid = localId => /\ mediaSections'[i].direction = "inactive"
                                                /\ mediaSections[i].closed => mediaSections'[i].closed
  BY <1>1, <1>2, <1>4, <1>5, <1>6, TableCloses DEF Typed
<1>8. Starts(start)
  BY <1>1, <1>2, <1>3, StoppedSenderStarts DEF Producers
<1>9. /\ offer \in Offers!Lines(Mids)
      /\ Offers!OfferOf(start, offer) /\ Offers!OfferOf(peer, offer)
      /\ DataMid \in Offers!MidsOf(offer) <=> peer.channels # {} \/ DataMid \in LocalMids
  BY <1>2, <1>8, OfferMade
<1>10. /\ Fits(offer) => Negotiated(offer, TRUE)
       /\ ~Fits(offer) => Negotiated(offer, FALSE)
  BY <1>1, <1>2, <1>7, <1>8, <1>9, Negotiation
<1>11. /\ Sections' = Sections
       /\ \A i \in Sections : mediaSections'[i].mid = mediaSections[i].mid
  BY <1>7 DEF SameMids, Sections
<1>12. Covers(offer) /\ AnsweredMids' = AnsweredMids
  BY <1>11 DEF Covers, AnsweredMids
<1>13. \A i \in Sections' : mediaSections'[i].closed => mediaSections'[i].mid \in stopped'
  BY <1>1, <1>2, <1>7, <1>11 DEF Producers
<1>14. \A i \in Sections' :
         mediaSections'[i].mid \in mapMidTransceiver /\ mediaSections'[i].mid \notin stopped'
           => mediaSections'[i].direction = "open"
  BY <1>1, <1>2, <1>7, <1>11 DEF Producers
<1>15. ASSUME ~failed PROVE InStep' /\ Fits(offer)
  <2>1. /\ Fits(offer)
        /\ peer.channels # {} => DataMid \in Offers!MidsOf(offer)
        /\ hasDataChannelMediaSection <=> DataMid \in Offers!MidsOf(offer)
    BY <1>1, <1>7, <1>9, <1>15, SameOfferFits DEF Idle
  <2>2. \A i \in Sections :
             /\ mediaSections[i].mid # DataMid =>
                  (mediaSections[i].closed <=> Tr(mediaSections[i].mid).stopped)
             /\ mediaSections[i].mid \in stopped => mediaSections[i].direction = "inactive"
    BY <1>2, <1>15 DEF InStep
  <2>3. \A i \in Sections' :
            /\ mediaSections'[i].mid # DataMid /\ Tr(mediaSections'[i].mid).stopped =>
                 mediaSections'[i].closed
            /\ mediaSections'[i].mid \in stopped' => mediaSections'[i].direction = "inactive"
    BY <2>2, <1>1, <1>7, <1>11
  <2> QED  BY <2>1, <2>3, <1>1, <1>2, <1>7, <1>9, <1>10, NegotiationStaysInStep
<1>16. transportReady /\ hasDataChannelMediaSection' \in BOOLEAN /\ call' = Idle
  BY <1>1, <1>2 DEF Roles, Typed
<1>17. CASE Fits(offer)
  <2>1. Negotiated(offer, TRUE)
    BY <1>10, <1>17
  <2> QED  BY <2>1, <1>1, <1>3, <1>7, <1>9, <1>12, <1>13, <1>14, <1>15, <1>16, NegotiationKeeps
<1>18. CASE ~Fits(offer)
  <2>1. Negotiated(offer, FALSE)
    BY <1>10, <1>18
  <2> QED  BY <2>1, <1>1, <1>3, <1>7, <1>9, <1>12, <1>13, <1>14, <1>15, <1>16, NegotiationKeeps
<1> QED  BY <1>17, <1>18

\* An ICE restart, which negotiates only once the transport is connected.
LEMMA RestartsIce ==
  ASSUME IInv, NEW ice \in IceParams, RestartIce(ice)
  PROVE  IInv'
<1>1. /\ call = Idle /\ ~peer.closed
      /\ Remote!UpdateIceParameters(ice)
      /\ UNCHANGED <<forcedLocalDtlsRole, transportReady, mapMidTransceiver,
                     hasDataChannelMediaSection, nextSendSctpStreamId, call, stopped, failed>>
  BY DEF RestartIce, HandlerRestartIce, handlerVars
<1>2. /\ Typed /\ Offers!WellFormed(peer) /\ Table /\ Aligned /\ Waiting /\ Producers
      /\ Roles /\ InStep
  BY DEF IInv
<1>3. Remote!TypeOK' /\ Table' /\ Rewritten /\ UNCHANGED dtlsRole
  BY <1>1, <1>2, TableIce DEF Typed
<1>4. /\ Sections' = Sections /\ SameMids
      /\ \A i \in Sections : /\ mediaSections'[i].mid = mediaSections[i].mid
                             /\ mediaSections'[i].closed = mediaSections[i].closed
                             /\ mediaSections'[i].direction = mediaSections[i].direction
  BY <1>3 DEF Rewritten, SameMids, Sections
<1>5. call'.op = "none" /\ call.op = "none"
  BY <1>1 DEF Idle
<1>6. CASE ~transportReady
  <2>1. peer' = peer
    BY <1>6 DEF RestartIce, HandlerRestartIce
  <2>2. peer' \in Offers!Peers(Mids)
    BY <2>1, <1>2 DEF Typed
  <2>3. Offers!WellFormed(peer') /\ Aligned' /\ Producers'
    BY <2>1, <2>2, <1>1, <1>3, QuietKeeps
  <2>4. InStep' /\ Lagging'
    BY <2>1, <2>2, <1>1, <1>3, <1>5, QuietInStep
  <2>5. Typed'
    BY <2>1, <1>1, <1>2, <1>3 DEF Typed, Transceivers
  <2>6. Waiting'
    BY <1>5 DEF Waiting
  <2>7. Roles'
    <3>1. mediaSections' = <<>> <=> mediaSections = <<>>
      BY <1>2, <1>3, EmptyStays DEF Typed, Rewritten
    <3>2. LocalDtlsRole' = LocalDtlsRole
      BY <1>1 DEF LocalDtlsRole
    <3> QED  BY <2>1, <3>1, <3>2, <1>1, <1>2, <1>3, <1>5 DEF Roles
  <2> QED  BY <2>3, <2>4, <2>5, <2>6, <2>7, <1>3 DEF IInv
<1>7. CASE transportReady
  <2> PICK offer, p : offer = Pc!CreateOffer(peer) /\ p = Pc!SetLocalOffer(peer, offer)
    OBVIOUS
  <2>1. ApplyAnswer(p)
    BY <1>7 DEF RestartIce, HandlerRestartIce
  <2>2. Starts(peer)
    BY <1>1, <1>2, PeerStarts DEF Producers
  <2>3. /\ offer \in Offers!Lines(Mids) /\ Offers!OfferOf(peer, offer)
        /\ DataMid \in Offers!MidsOf(offer) <=> peer.channels # {} \/ DataMid \in LocalMids
    BY <2>2, <1>2, OfferMade
  <2>4. /\ Fits(offer) => Negotiated(offer, TRUE)
        /\ ~Fits(offer) => Negotiated(offer, FALSE)
    BY <2>1, <2>2, <2>3, <1>1, <1>2, <1>3, Negotiation
  <2>5. Covers(offer) /\ AnsweredMids' = AnsweredMids
    BY <1>4 DEF Covers, AnsweredMids
  <2>6. stopped' = stopped /\ stopped \subseteq mapMidTransceiver
    BY <1>1, <1>2 DEF Typed
  <2>7. \A i \in Sections' : mediaSections'[i].closed => mediaSections'[i].mid \in stopped'
    BY <2>6, <1>2, <1>4 DEF Producers
  <2>8. \A i \in Sections' :
          mediaSections'[i].mid \in mapMidTransceiver /\ mediaSections'[i].mid \notin stopped'
            => mediaSections'[i].direction = "open"
    BY <2>6, <1>2, <1>4 DEF Producers
  <2>9. ASSUME ~failed PROVE InStep' /\ Fits(offer)
    <3>1. /\ Fits(offer)
          /\ peer.channels # {} => DataMid \in Offers!MidsOf(offer)
          /\ hasDataChannelMediaSection <=> DataMid \in Offers!MidsOf(offer)
      BY <2>3, <2>9, <1>4, <1>5, SameOfferFits
    <3>2. \A i \in Sections' :
            /\ mediaSections'[i].mid # DataMid /\ Tr(mediaSections'[i].mid).stopped =>
                 mediaSections'[i].closed
            /\ mediaSections'[i].mid \in stopped' => mediaSections'[i].direction = "inactive"
      BY <2>6, <2>9, <1>2, <1>4 DEF InStep
    <3> QED  BY <3>1, <3>2, <2>3, <2>4, <1>1, <1>2, <1>3, NegotiationStaysInStep
  <2>10. hasDataChannelMediaSection' \in BOOLEAN /\ call' = Idle
    BY <1>1, <1>2 DEF Typed
  <2>11. CASE Fits(offer)
    <3>1. Negotiated(offer, TRUE)
      BY <2>4, <2>11
    <3> QED  BY <3>1, <2>3, <2>5, <2>6, <2>7, <2>8, <2>9, <2>10, <1>1, <1>3, <1>7, NegotiationKeeps
  <2>12. CASE ~Fits(offer)
    <3>1. Negotiated(offer, FALSE)
      BY <2>4, <2>12
    <3> QED  BY <3>1, <2>3, <2>5, <2>6, <2>7, <2>8, <2>9, <2>10, <1>1, <1>3, <1>7, NegotiationKeeps
  <2> QED  BY <2>11, <2>12
<1> QED  BY <1>6, <1>7
-----------------------------------------------------------------------------
(* The invariant.                                                          *)

\* It holds before the first call.
LEMMA Initial == Init => IInv
<1> SUFFICES ASSUME Init PROVE IInv
  OBVIOUS
<1>1. /\ mediaSections = <<>> /\ midToIndex = [m \in {} |-> 1] /\ firstMid = NoMid
      /\ sdpMedia = <<>> /\ bundleMids = {}
      /\ iceParameters \in IceParams /\ dtlsRole \in Remote!DtlsRoles
      /\ peer = Pc!NewPeer
      /\ forcedLocalDtlsRole = IF dtlsRole = "auto" THEN "" ELSE Opposite(dtlsRole)
      /\ ~transportReady /\ transportReady = FALSE
      /\ mapMidTransceiver = {} /\ stopped = {}
      /\ hasDataChannelMediaSection = FALSE /\ failed = FALSE
      /\ nextSendSctpStreamId = 0 /\ call = Idle
  BY DEF Init, Remote!Init
<1>2. /\ peer.closed = FALSE /\ peer.signaling = "stable" /\ peer.transceivers = <<>>
      /\ peer.local = <<>> /\ peer.remote = <<>> /\ peer.channels = {}
      /\ peer \in Offers!Peers(Mids)
  <2>1. peer = [closed |-> FALSE, signaling |-> "stable", transceivers |-> <<>>,
                local |-> <<>>, remote |-> <<>>, channels |-> {}]
    BY <1>1 DEF Pc!NewPeer
  <2>2. \A S : <<>> \in Seq(S)
    OBVIOUS
  <2>3. {} \in SUBSET Nat
    OBVIOUS
  <2> QED  BY <2>1, <2>2, <2>3 DEF Offers!Peers, Offers!Lines
<1>3. Transceivers = {} /\ Sections = {} /\ DOMAIN peer.local = {}
  <2>1. DOMAIN <<>> = {}
    OBVIOUS
  <2> QED  BY <2>1, <1>1, <1>2, Zenon DEF Transceivers, Sections
<1>4. Remote!TypeOK
  <2>1. DOMAIN midToIndex = {} /\ midToIndex \in [{} -> Nat \ {0}]
    BY <1>1
  <2>2. <<>> \in Seq(Remote!Section)
    OBVIOUS
  <2> QED  BY <1>1, <2>1, <2>2 DEF Remote!TypeOK
<1>5. Typed
  <2>1. 0 \in 0..SctpNumStreams - 1
    BY SendHandlerAssumption DEF SendHandlerAssumption
  <2>2. forcedLocalDtlsRole \in {"", "client", "server"}
    BY <1>1 DEF Opposite
  <2> QED  BY <2>1, <2>2, <1>1, <1>2, <1>3, <1>4 DEF Typed
<1>6. LocalMids = {} /\ Pending = {}
  BY <1>2, <1>3 DEF LocalMids, Offers!MidsOf, Pending, Offers!NewTransceivers, Transceivers
<1>7. Offers!WellFormed(peer)
  BY <1>2, <1>3, <1>6 DEF Offers!WellFormed, Offers!UniqueMids, Transceivers, LocalMids
<1>8. Table
  BY <1>1, <1>3 DEF Table
<1>9. Aligned /\ Producers
  BY <1>1, <1>3 DEF Aligned, Producers
<1>10. call.op = "none"
  BY <1>1 DEF Idle
<1>11. Waiting /\ Roles
  BY <1>1, <1>2, <1>10 DEF Waiting, Roles
<1>12. InStep
  <2>1. Answer = <<>>
    <3>1. DOMAIN sdpMedia = {}
      BY <1>1, <1>3 DEF Sections
    <3>2. Answer = [i \in {} |-> [mid |-> sdpMedia[i].mid, rejected |-> sdpMedia[i].closed]]
      BY <3>1 DEF Answer
    <3> QED  BY <3>2
  <2> QED  BY <2>1, <1>1, <1>2, <1>3, <1>6, <1>10 DEF InStep
<1>13. Lagging
  BY <1>3 DEF Lagging, Abandoned, Transceivers
<1> QED  BY <1>5, <1>7, <1>8, <1>9, <1>11, <1>12, <1>13 DEF IInv

\* Every step keeps it.
LEMMA Inductive == IInv /\ [Next]_vars => IInv'
<1> SUFFICES ASSUME IInv, [Next]_vars PROVE IInv'
  OBVIOUS
<1>1. ASSUME NEW simulcast \in BOOLEAN, NEW prepares \in BOOLEAN, Produce(simulcast, prepares)
      PROVE  IInv'
  BY <1>1, Produces
<1>2. CASE ProduceData
  BY <1>2, ProducesData
<1>3. CASE OnConnectResolves
  BY <1>3, Resolves
<1>4. CASE OnConnectRejects
  BY <1>4, Throws DEF OnConnectRejects
<1>5. CASE SendThrows
  BY <1>5, Throws DEF SendThrows
<1>6. CASE SendNegotiates
  BY <1>6, SendsOffer
<1>7. CASE DataThrows
  BY <1>7, Throws DEF DataThrows
<1>8. CASE DataNegotiates
  BY <1>8, DataOffers
<1>9. ASSUME NEW id \in peer.channels, CloseDataChannel(id) PROVE IInv'
  BY <1>9, ClosesDataChannel
<1>10. ASSUME NEW localId \in mapMidTransceiver, CloseProducer(localId) PROVE IInv'
  BY <1>10, ClosesProducer
<1>11. ASSUME NEW ice \in IceParams, RestartIce(ice) PROVE IInv'
  BY <1>11, RestartsIce
<1>12. CASE Close
  BY <1>12, Closes
<1>13. CASE UNCHANGED vars
  BY <1>13, Stuttering
<1> QED  BY <1>1, <1>2, <1>3, <1>4, <1>5, <1>6, <1>7, <1>8, <1>9, <1>10, <1>11, <1>12, <1>13 DEF Next

\* IInv holds in every reachable state, whatever calls failed before.
THEOREM Invariance == Spec => []IInv
<1> QED  BY Initial, Inductive, PTL DEF Spec

\* Every variable keeps its type, however many producers, m= lines and stream
\* ids there are; in particular the id of the next data channel stays below
\* SctpNumStreams.
THEOREM TypeCorrect == Spec => []TypeOK
<1>1. IInv => TypeOK
  <2> SUFFICES ASSUME IInv PROVE TypeOK
    OBVIOUS
  <2>1. peer \in Offers!Peers(Mids)
    BY DEF IInv, Typed
  <2>2. /\ peer.closed \in BOOLEAN
        /\ peer.signaling \in {"stable", "have-local-offer"}
        /\ peer.transceivers \in Seq([mid : Mids \cup {NoMid}, sending : BOOLEAN, stopped : BOOLEAN])
        /\ peer.local \in Seq(Line) /\ peer.remote \in Seq(Line)
    BY <2>1 DEF Offers!Peers, Offers!Lines, Offers!Transceiver, Line
  <2>3. call.op \in {"none", "send", "data"}
    BY CallCases DEF IInv
  <2>4. mapMidTransceiver \subseteq 1..MaxTransceivers
    BY DEF IInv, Typed
  <2> QED  BY <2>2, <2>3, <2>4 DEF IInv, Typed, TypeOK
<1> QED  BY <1>1, Invariance, PTL

\* NegotiationInStep: as long as no call failed halfway, the peer connection
\* and RemoteSdp hold the same m= lines at the same places.
THEOREM AlwaysInStep == Spec => []NegotiationInStep
<1>1. IInv => NegotiationInStep
  <2> SUFFICES ASSUME IInv, ~failed
               PROVE  /\ peer.signaling = "stable"
                      /\ peer.remote = Answer
                      /\ Len(peer.local) = Len(Answer)
                      /\ \A i \in DOMAIN Answer : peer.local[i].mid = Answer[i].mid
    BY DEF NegotiationInStep
  <2>1. /\ peer.signaling = "stable"
        /\ peer.remote = Answer
        /\ Len(peer.local) = Len(mediaSections)
        /\ \A i \in Sections : peer.local[i].mid = mediaSections[i].mid
    BY DEF IInv, InStep
  <2>2. sdpMedia = mediaSections /\ mediaSections \in Seq(Remote!Section)
    BY DEF IInv, Typed, Table, Remote!TypeOK
  <2>3. /\ DOMAIN Answer = Sections
        /\ \A i \in Sections : Answer[i].mid = mediaSections[i].mid
    BY <2>2 DEF Answer, Sections
  <2>4. Answer \in Seq([mid : Mids, rejected : BOOLEAN])
    BY <2>1 DEF IInv, Typed, Offers!Peers, Offers!Lines
  <2>5. Len(Answer) = Len(mediaSections)
    BY <2>2, <2>3, <2>4 DEF Sections
  <2> QED  BY <2>1, <2>3, <2>5
<1> QED  BY <1>1, Invariance, PTL

\* ProducersMatchSections: no call touches a producer other than its own, even
\* when calls fail.
THEOREM ProducersAlwaysMatch == Spec => []ProducersMatchSections
<1>1. IInv => ProducersMatchSections
  <2> SUFFICES ASSUME IInv, NEW localId \in mapMidTransceiver
               PROVE  LET transceiver == peer.transceivers[localId]
                          sections == {i \in DOMAIN sdpMedia : sdpMedia[i].mid = localId}
                      IN  IF localId \in stopped
                          THEN /\ ~transceiver.sending
                               /\ failed \/ \A i \in sections : sdpMedia[i].direction = "inactive"
                          ELSE /\ transceiver.mid = localId
                               /\ transceiver.sending
                               /\ sections # {}
                               /\ \A i \in sections : sdpMedia[i].direction = "open" /\ ~sdpMedia[i].closed
    BY DEF ProducersMatchSections
  <2>1. sdpMedia = mediaSections
    BY DEF IInv, Table
  <2>2. CASE localId \in stopped
    <3>1. ~Tr(localId).sending
      BY <2>2 DEF IInv, Producers
    <3>2. ~failed => \A i \in Sections : mediaSections[i].mid = localId =>
                                           mediaSections[i].direction = "inactive"
      BY <2>2 DEF IInv, InStep
    <3> QED  BY <2>1, <2>2, <3>1, <3>2 DEF Tr, Sections
  <2>3. CASE localId \notin stopped
    <3>1. Tr(localId).mid = localId /\ Tr(localId).sending /\ localId \in AnsweredMids
      BY <2>3 DEF IInv, Producers
    <3>2. \A i \in Sections : mediaSections[i].mid = localId =>
                                mediaSections[i].direction = "open" /\ ~mediaSections[i].closed
      BY <2>3 DEF IInv, Producers
    <3> QED  BY <2>1, <2>3, <3>1, <3>2 DEF Tr, Sections, AnsweredMids
  <2> QED  BY <2>2, <2>3
<1> QED  BY <1>1, Invariance, PTL

\* DtlsRoleSettled: no answer is applied before the DTLS parameters were
\* accepted, and every section presents the role opposite to ours.
THEOREM DtlsRoleAlwaysSettled == Spec => []DtlsRoleSettled
<1>1. IInv => DtlsRoleSettled
  <2> SUFFICES ASSUME IInv PROVE DtlsRoleSettled
    OBVIOUS
  <2>1. /\ peer.remote # <<>> => transportReady
        /\ transportReady => dtlsRole = Opposite(LocalDtlsRole)
    BY DEF IInv, Roles
  <2>2. sdpMedia = mediaSections /\ \A i \in Sections : mediaSections[i].setup = Remote!SetupFor(dtlsRole)
    BY DEF IInv, Table
  <2>3. LocalDtlsRole \in {"client", "server"}
    BY DEF LocalDtlsRole, IInv, Typed
  <2>4. transportReady =>
          Remote!SetupFor(dtlsRole) = IF LocalDtlsRole = "server" THEN "active" ELSE "passive"
    BY <2>1, <2>3 DEF Opposite, Remote!SetupFor
  <2> QED  BY <2>1, <2>2, <2>4 DEF DtlsRoleSettled, Sections
<1> QED  BY <1>1, Invariance, PTL

\* FailedSendIsFinal: while an abandoned transceiver waits for its m= line, no
\* answer fits, so that no Send adds a producer.
THEOREM FailedSendAlwaysFinal == Spec => FailedSendIsFinal
<1>1. IInv /\ [Next]_vars => [Abandoned => mapMidTransceiver' = mapMidTransceiver]_vars
  <2> SUFFICES ASSUME IInv, Next, Abandoned PROVE mapMidTransceiver' = mapMidTransceiver
    OBVIOUS
  <2>1. ASSUME NEW simulcast \in BOOLEAN, NEW prepares \in BOOLEAN, Produce(simulcast, prepares)
        PROVE  mapMidTransceiver' = mapMidTransceiver
    BY <2>1 DEF Produce, Send, handlerVars
  <2>2. CASE ProduceData
    BY <2>2 DEF ProduceData, SendDataChannel
  <2>3. CASE OnConnectResolves
    BY <2>3 DEF OnConnectResolves
  <2>4. CASE OnConnectRejects \/ SendThrows \/ DataThrows
    BY <2>4 DEF OnConnectRejects, SendThrows, DataThrows, Throw, handlerVars
  <2>5. CASE SendNegotiates
    BY <2>5, SendsOffer
  <2>6. CASE DataNegotiates
    BY <2>6 DEF DataNegotiates
  <2>7. ASSUME NEW id \in peer.channels, CloseDataChannel(id)
        PROVE  mapMidTransceiver' = mapMidTransceiver
    BY <2>7 DEF CloseDataChannel, handlerVars
  <2>8. ASSUME NEW localId \in mapMidTransceiver, CloseProducer(localId)
        PROVE  mapMidTransceiver' = mapMidTransceiver
    BY <2>8 DEF CloseProducer, StopSending, handlerVars
  <2>9. ASSUME NEW ice \in IceParams, RestartIce(ice)
        PROVE  mapMidTransceiver' = mapMidTransceiver
    BY <2>9 DEF RestartIce, HandlerRestartIce, handlerVars
  <2>10. CASE Close
    BY <2>10 DEF Close, handlerVars
  <2> QED  BY <2>1, <2>2, <2>3, <2>4, <2>5, <2>6, <2>7, <2>8, <2>9, <2>10 DEF Next
<1> QED  BY <1>1, Invariance, PTL DEF Spec, FailedSendIsFinal

-----------------------------------------------------------------------------
(* RemoteSdp is used as RemoteSdp!Spec assumes.                            *)

\* The mids that RemoteSdp knows are the ones of its sections.
LEMMA KnownMids ==
  ASSUME IInv
  PROVE  DOMAIN midToIndex = AnsweredMids
<1>1. \A mid \in DOMAIN midToIndex : midToIndex[mid] \in Sections /\ mediaSections[midToIndex[mid]].mid = mid
  BY DEF IInv, Table
<1>2. \A i \in Sections : mediaSections[i].mid \in DOMAIN midToIndex
  BY DEF IInv, Table
<1> QED  BY <1>1, <1>2 DEF AnsweredMids

\* Before the first offer it is told the role of the remote side.
LEMMA BeginUses ==
  ASSUME NEW c, Begin(c)
  PROVE  [Remote!Next]_remoteVars
<1>1. CASE transportReady
  BY <1>1 DEF Begin
<1>2. CASE ~transportReady
  <2>1. PICK role : role = Opposite(LocalDtlsRole)
    OBVIOUS
  <2>2. Remote!UpdateDtlsRole(role) /\ role \in {"client", "server"}
    BY <1>2, <2>1 DEF Begin, TellRemoteRole, Opposite
  <2> QED  BY <2>2 DEF Remote!SetupTransport, Remote!Next
<1> QED  BY <1>1, <1>2

\* RemoteSdpUsedAsSpecified: as long as no call failed, every mid that is added
\* is new, at the index that was announced, and every mid that is closed known.
THEOREM RemoteSdpAlwaysUsedAsSpecified == Spec => RemoteSdpUsedAsSpecified
<1>1. IInv /\ [Next]_vars => [~failed => [Remote!Next]_remoteVars]_vars
  <2> SUFFICES ASSUME IInv, Next, ~failed PROVE [Remote!Next]_remoteVars
    OBVIOUS
  <2>1. ASSUME NEW simulcast \in BOOLEAN, NEW prepares \in BOOLEAN, Produce(simulcast, prepares)
        PROVE  [Remote!Next]_remoteVars
    BY <2>1, BeginUses DEF Produce, Send
  <2>2. CASE ProduceData
    BY <2>2, BeginUses DEF ProduceData, SendDataChannel
  <2>3. CASE OnConnectResolves
    BY <2>3 DEF OnConnectResolves
  <2>4. CASE OnConnectRejects \/ SendThrows \/ DataThrows
    BY <2>4 DEF OnConnectRejects, SendThrows, DataThrows, Throw
  <2>5. CASE SendNegotiates
    <3> PICK offer, idx, t : offer = call.offer /\ idx = call.idx /\ t = call.transceiver
      OBVIOUS
    <3>1. call.op = "send"
      BY <2>5 DEF SendNegotiates
    <3>2. offer[idx].mid = t /\ t # DataMid
      BY <3>1, SendFits
    <3>3. UNCHANGED remoteVars \/ Remote!Send(offer[idx].mid, call.reuseMid)
      <4>1. Pc!SetLocalOffer(peer, call.offer).local = offer
        <5>1. peer \in Offers!Peers(Mids)
          BY DEF IInv, Typed
        <5> QED  BY <5>1 DEF Pc!SetLocalOffer, Offers!Peers
      <4> QED  BY <4>1, <2>5 DEF SendNegotiates
    <3>4. CASE UNCHANGED remoteVars
      BY <3>4
    <3>5. CASE Remote!Send(offer[idx].mid, call.reuseMid)
      <4>1. /\ t \in Pending /\ t \notin AnsweredMids /\ t \in Transceivers
            /\ call.reuseMid = Remote!GetNextMediaSectionIdx.reuseMid
        BY <3>1, PendingUnanswered DEF IInv, Waiting
      <4>2. t \in Mids
        BY <4>1, TransceiversFacts DEF IInv
      <4>3. t \in Remote!FreshMids \ {DataMid}
        BY <3>2, <4>1, <4>2, KnownMids DEF Remote!FreshMids
      <4> QED  BY <3>2, <3>5, <4>1, <4>3 DEF Remote!AddRtp, Remote!Next
    <3> QED  BY <3>3, <3>4, <3>5
  <2>6. CASE DataNegotiates
    <3>1. call.op = "data" /\ Remote!SendSctpAssociation(DataMid)
      BY <2>6 DEF DataNegotiates
    <3>2. DataMid \notin LocalMids /\ \A i \in Sections : peer.local[i].mid = mediaSections[i].mid
      BY <3>1 DEF IInv, InStep
    <3>3. DOMAIN peer.local = Sections
      BY ClosedIsRecyclable DEF IInv
    <3>4. DataMid \notin AnsweredMids
      BY <3>2, <3>3 DEF AnsweredMids, LocalMids, Offers!MidsOf
    <3>5. DataMid \in Remote!FreshMids
      BY <3>4, KnownMids, MidsFacts DEF Remote!FreshMids
    <3> QED  BY <3>1, <3>5 DEF Remote!AddSctp, Remote!Next
  <2>7. ASSUME NEW id \in peer.channels, CloseDataChannel(id)
        PROVE  [Remote!Next]_remoteVars
    BY <2>7 DEF CloseDataChannel
  <2>8. ASSUME NEW localId \in mapMidTransceiver, CloseProducer(localId)
        PROVE  [Remote!Next]_remoteVars
    <3>1. Tr(localId).mid # NoMid /\ Remote!CloseMediaSection(Tr(localId).mid)
      BY <2>8 DEF CloseProducer, StopSending, Tr
    <3>2. localId \in Transceivers /\ localId # DataMid
      BY TransceiversFacts DEF IInv, Typed
    <3>3. Tr(localId).mid = localId
      BY <3>1, <3>2 DEF IInv, Offers!WellFormed, Transceivers, Tr
    <3>4. localId \in DOMAIN midToIndex
      BY <3>3, KnownMids DEF IInv, Producers
    <3> QED  BY <3>1, <3>2, <3>3, <3>4 DEF Remote!CloseRtp, Remote!Next
  <2>9. ASSUME NEW ice \in IceParams, RestartIce(ice)
        PROVE  [Remote!Next]_remoteVars
    <3>1. Remote!UpdateIceParameters(ice)
      BY <2>9 DEF RestartIce, HandlerRestartIce
    <3> QED  BY <3>1 DEF Remote!RestartIce, Remote!Next
  <2>10. CASE Close
    BY <2>10 DEF Close
  <2> QED  BY <2>1, <2>2, <2>3, <2>4, <2>5, <2>6, <2>7, <2>8, <2>9, <2>10 DEF Next
<1> QED  BY <1>1, Invariance, PTL DEF Spec, RemoteSdpUsedAsSpecified
=============================================================================
