-------------------------- MODULE RemoteSdpProofs ---------------------------
(***************************************************************************)
(* Every invariant of RemoteSdp, and that it implements MLineTable, for    *)
(* any set of mids and of ICE credentials and any number of sections.      *)
(*                                                                         *)
(* The invariants need one another: recycling a section is safe because    *)
(* the map is exact (the mid of the closed section leads back to it), the  *)
(* first section stays open because the map leads there from firstMid      *)
(* only, and what is published is current because both arrays are changed  *)
(* at the same index.  Their conjunction IInv is inductive.                *)
(***************************************************************************)
EXTENDS RemoteSdp, TLAPS, SequenceTheorems, WellFoundedInduction

IInv ==
    /\ TypeOK
    /\ MidIndexExact
    /\ PublishedSdpIsCurrent
    /\ FirstSectionKeepsBundle
    /\ SectionsShareTransport

\* Every set of indices that is not empty has a least one.
LEMMA LeastIndex ==
  ASSUME NEW T, T \subseteq Nat, T # {}
  PROVE  \E i \in T : \A j \in T : i <= j
<1>1. PICK i \in T : \A j \in T : ~ (<<j, i>> \in OpToRel(<, Nat))
  BY NatLessThanWellFounded, WFMin, Zenon
<1>2. ASSUME NEW j \in T, j < i PROVE FALSE
  <2>1. <<j, i>> \in Nat \X Nat
    BY i \in T, j \in T, SMT
  <2>2. <<j, i>>[1] < <<j, i>>[2]
    BY <1>2
  <2>3. <<j, i>> \in OpToRel(<, Nat)
    BY <2>1, <2>2, Zenon DEF OpToRel
  <2> QED BY <1>1, <2>3
<1> QED BY <1>2

\* A function from 1..n is a sequence of n elements.
LEMMA FunctionIsSeq ==
  ASSUME NEW S, NEW n \in Nat, NEW f \in [1..n -> S]
  PROVE  f \in Seq(S) /\ Len(f) = n
OBVIOUS

\* GetNextMediaSectionIdx and Receive find a closed section if there is one.
LEMMA FirstClosedIsLeast ==
  ASSUME TypeOK, ClosedSections # {}
  PROVE  /\ FirstClosed \in ClosedSections
         /\ \A j \in ClosedSections : FirstClosed <= j
<1>1. ClosedSections \subseteq Nat
  BY DEF TypeOK, ClosedSections
<1>2. \E i \in ClosedSections : \A j \in ClosedSections : i <= j
  BY <1>1, LeastIndex
<1> QED BY <1>2, Zenon DEF FirstClosed

\* A new section is open and has the transport parameters of its RemoteSdp.
LEMMA NewSectionType ==
  ASSUME TypeOK, NEW mid \in Mids
  PROVE  /\ NewSection(mid) \in Section
         /\ NewSection(mid).mid = mid
         /\ ~NewSection(mid).closed
         /\ NewSection(mid).ice = iceParameters
         /\ NewSection(mid).setup = SetupFor(dtlsRole)
BY DEF TypeOK, NewSection, Section, SetupFor, Setups, DtlsRoles

\* The BUNDLE group names mids only.
LEMMA OpenMidsType ==
  ASSUME NEW sections \in Seq(Section)
  PROVE  OpenMids(sections) \subseteq Mids
<1>1. \A i \in DOMAIN sections : sections[i] \in Section
  OBVIOUS
<1>2. \A section \in Section : section.mid \in Mids
  BY DEF Section
<1> QED BY <1>1, <1>2 DEF OpenMids

\* An empty RemoteSdp satisfies all parts of the invariant.
THEOREM InitIInv == Init => IInv
<1> SUFFICES ASSUME Init PROVE IInv
  OBVIOUS
<1>1. TypeOK
  BY RemoteSdpAssumption DEF Init, TypeOK
<1>2. MidIndexExact
  BY DEF Init, MidIndexExact
<1>3. PublishedSdpIsCurrent
  BY DEF Init, PublishedSdpIsCurrent, OpenMids
<1>4. FirstSectionKeepsBundle
  BY DEF Init, FirstSectionKeepsBundle
<1>5. SectionsShareTransport
  BY DEF Init, SectionsShareTransport
<1> QED BY <1>1, <1>2, <1>3, <1>4, <1>5 DEF IInv

-----------------------------------------------------------------------------
(* One lemma per operation that changes the table of sections.             *)

\* AddMediaSection of a section with a new mid keeps the invariant.
LEMMA AddKeepsIInv ==
  ASSUME IInv, NEW mid \in Mids, mid \notin DOMAIN midToIndex,
         AddMediaSection(NewSection(mid)),
         UNCHANGED <<answering, iceParameters, dtlsRole>>
  PROVE  IInv'
<1> DEFINE n == Len(mediaSections)
           new == NewSection(mid)
<1>1. /\ new \in Section /\ new.mid = mid /\ ~new.closed
      /\ new.ice = iceParameters /\ new.setup = SetupFor(dtlsRole)
  BY NewSectionType DEF IInv
<1>2. /\ mediaSections' \in Seq(Section)
      /\ DOMAIN mediaSections = 1..n /\ n \in Nat
      /\ DOMAIN mediaSections' = 1..(n + 1)
      /\ \A i \in 1..n : mediaSections'[i] = mediaSections[i]
      /\ mediaSections'[n + 1] = new
  BY <1>1 DEF IInv, TypeOK, AddMediaSection
<1>3. /\ midToIndex' = [m \in DOMAIN midToIndex \cup {mid} |->
                          IF m = mid THEN n + 1 ELSE midToIndex[m]]
  BY <1>1 DEF AddMediaSection, Put
<1>4. /\ firstMid' = IF firstMid = NoMid THEN mid ELSE firstMid
      /\ sdpMedia' = mediaSections'
      /\ bundleMids' = OpenMids(mediaSections')
  BY <1>1 DEF AddMediaSection, RegenerateBundleMids, IInv, PublishedSdpIsCurrent
<1> HIDE DEF n, new
<1>5. MidIndexExact'
  <2>1. DOMAIN midToIndex' = {mediaSections'[i].mid : i \in DOMAIN mediaSections'}
    BY <1>1, <1>2, <1>3 DEF IInv, MidIndexExact
  <2>2. \A i \in DOMAIN mediaSections' : midToIndex'[mediaSections'[i].mid] = i
    BY <1>1, <1>2, <1>3 DEF IInv, MidIndexExact
  <2> QED BY <2>1, <2>2 DEF MidIndexExact
<1>6. TypeOK'
  <2>1. midToIndex' \in [DOMAIN midToIndex' -> Nat \ {0}] /\ DOMAIN midToIndex' \subseteq Mids
    BY <1>2, <1>3 DEF IInv, TypeOK
  <2>2. bundleMids' \subseteq Mids
    BY <1>2, <1>4, OpenMidsType
  <2> QED BY <1>2, <1>4, <2>1, <2>2 DEF IInv, TypeOK
<1>7. PublishedSdpIsCurrent'
  BY <1>4 DEF PublishedSdpIsCurrent
<1>8. FirstSectionKeepsBundle'
  <2>1. CASE mediaSections = <<>>
    BY <2>1, <1>1, <1>2, <1>4, RemoteSdpAssumption
      DEF IInv, FirstSectionKeepsBundle, OpenMids, TypeOK
  <2>2. CASE mediaSections # <<>>
    BY <2>2, <1>1, <1>2, <1>4 DEF IInv, FirstSectionKeepsBundle, OpenMids, TypeOK
  <2> QED BY <2>1, <2>2
<1>9. SectionsShareTransport'
  BY <1>1, <1>2 DEF IInv, SectionsShareTransport, SetupFor
<1> QED BY <1>5, <1>6, <1>7, <1>8, <1>9 DEF IInv

\* ReplaceMediaSection of the first closed section keeps the invariant: the
\* map leads from its mid to its own index, which is not the first.
LEMMA ReplaceKeepsIInv ==
  ASSUME IInv, NEW mid \in Mids, mid \notin DOMAIN midToIndex, ClosedSections # {},
         ReplaceMediaSection(NewSection(mid), mediaSections[FirstClosed].mid),
         UNCHANGED <<answering, iceParameters, dtlsRole>>
  PROVE  IInv'
<1> DEFINE n == Len(mediaSections)
           k == FirstClosed
           old == mediaSections[k].mid
           new == NewSection(mid)
<1>1. /\ new \in Section /\ new.mid = mid /\ ~new.closed
      /\ new.ice = iceParameters /\ new.setup = SetupFor(dtlsRole)
  BY NewSectionType DEF IInv
<1>2. /\ DOMAIN mediaSections = 1..n /\ n \in Nat
      /\ k \in 1..n /\ mediaSections[k].closed
  BY FirstClosedIsLeast DEF IInv, TypeOK, ClosedSections
<1>3. k # 1 /\ mediaSections # <<>>
  BY <1>2 DEF IInv, FirstSectionKeepsBundle
<1>4. old \in DOMAIN midToIndex /\ IndexOf(old) = k
  BY <1>2 DEF IInv, MidIndexExact, IndexOf
<1>5. /\ mediaSections' = [mediaSections EXCEPT ![k] = new]
      /\ sdpMedia' = [sdpMedia EXCEPT ![k] = new]
      /\ bundleMids' = OpenMids(mediaSections')
      /\ firstMid' = firstMid
      /\ midToIndex' = Put(Erase(Put(midToIndex, old, k), old), new.mid, k)
  BY <1>2, <1>4 DEF ReplaceMediaSection, RegenerateBundleMids
<1>6. midToIndex' = [m \in (DOMAIN midToIndex \ {old}) \cup {mid} |->
                       IF m = mid THEN k ELSE midToIndex[m]]
  BY <1>1, <1>4, <1>5 DEF Put, Erase
<1>7. /\ mediaSections' \in Seq(Section)
      /\ DOMAIN mediaSections' = 1..n
      /\ \A i \in 1..n : mediaSections'[i] = IF i = k THEN new ELSE mediaSections[i]
      /\ sdpMedia' = mediaSections'
  BY <1>1, <1>2, <1>5 DEF IInv, TypeOK, PublishedSdpIsCurrent
<1> HIDE DEF n, k, old, new
<1>8. MidIndexExact'
  <2>1. \A i, j \in 1..n : mediaSections[i].mid = mediaSections[j].mid => i = j
    BY <1>2 DEF IInv, MidIndexExact
  <2>2. \A i \in 1..n : mediaSections[i].mid \in DOMAIN midToIndex
    BY <1>2 DEF IInv, MidIndexExact
  <2>3. DOMAIN midToIndex' = {mediaSections'[i].mid : i \in DOMAIN mediaSections'}
    BY <1>1, <1>2, <1>6, <1>7, <2>1 DEF IInv, MidIndexExact, old
  <2>4. \A i \in DOMAIN mediaSections' : midToIndex'[mediaSections'[i].mid] = i
    BY <1>1, <1>2, <1>6, <1>7, <2>1, <2>2 DEF IInv, MidIndexExact, old
  <2> QED BY <2>3, <2>4 DEF MidIndexExact
<1>9. TypeOK'
  <2>1. midToIndex' \in [DOMAIN midToIndex' -> Nat \ {0}] /\ DOMAIN midToIndex' \subseteq Mids
    BY <1>2, <1>6 DEF IInv, TypeOK
  <2>2. bundleMids' \subseteq Mids
    BY <1>5, <1>7, OpenMidsType
  <2> QED BY <1>5, <1>7, <2>1, <2>2 DEF IInv, TypeOK
<1>10. PublishedSdpIsCurrent'
  BY <1>5, <1>7 DEF PublishedSdpIsCurrent
<1>11. FirstSectionKeepsBundle'
  BY <1>2, <1>3, <1>5, <1>7 DEF IInv, FirstSectionKeepsBundle, OpenMids, TypeOK
<1>12. SectionsShareTransport'
  BY <1>1, <1>2, <1>7 DEF IInv, SectionsShareTransport, SetupFor
<1> QED BY <1>8, <1>9, <1>10, <1>11, <1>12 DEF IInv

\* CloseMediaSection of a known mid keeps the invariant: it disables the
\* first section instead of closing it.
LEMMA CloseKeepsIInv ==
  ASSUME IInv, NEW mid \in DOMAIN midToIndex, CloseMediaSection(mid), UNCHANGED answering
  PROVE  IInv'
<1> DEFINE n == Len(mediaSections)
           k == IndexOf(mid)
           new == IF mid = firstMid THEN Disabled(mediaSections[k]) ELSE Closed(mediaSections[k])
<1>1. /\ DOMAIN mediaSections = 1..n /\ n \in Nat
      /\ k \in 1..n /\ k = midToIndex[mid] /\ mediaSections[k].mid = mid
  BY DEF IInv, TypeOK, MidIndexExact, IndexOf
<1>2. mediaSections[k] \in Section
  BY <1>1 DEF IInv, TypeOK
<1>3. /\ new \in Section /\ new.mid = mid
      /\ new.ice = mediaSections[k].ice /\ new.setup = mediaSections[k].setup
      /\ mid = firstMid => new.closed = mediaSections[k].closed
  BY <1>1, <1>2 DEF Section, Disabled, Closed
<1>4. /\ mediaSections' = [mediaSections EXCEPT ![k] = new]
      /\ sdpMedia' = [sdpMedia EXCEPT ![k] = mediaSections'[k]]
      /\ bundleMids' = OpenMids(mediaSections')
      /\ UNCHANGED <<firstMid, iceParameters, dtlsRole>>
  BY DEF CloseMediaSection, RegenerateBundleMids
<1>5. midToIndex' = midToIndex
  BY <1>1 DEF CloseMediaSection, Put, IInv, TypeOK
<1> HIDE DEF n, k, new
<1>6. /\ mediaSections' \in Seq(Section)
      /\ DOMAIN mediaSections' = 1..n
      /\ \A i \in 1..n : mediaSections'[i] = IF i = k THEN new ELSE mediaSections[i]
      /\ sdpMedia' = mediaSections'
  BY <1>1, <1>3, <1>4 DEF IInv, TypeOK, PublishedSdpIsCurrent
<1>7. MidIndexExact'
  BY <1>1, <1>3, <1>5, <1>6 DEF IInv, MidIndexExact
<1>8. TypeOK'
  <2>1. bundleMids' \subseteq Mids
    BY <1>4, <1>6, OpenMidsType
  <2> QED BY <1>4, <1>5, <1>6, <2>1 DEF IInv, TypeOK
<1>9. PublishedSdpIsCurrent'
  BY <1>4, <1>6 DEF PublishedSdpIsCurrent
<1>10. FirstSectionKeepsBundle'
  <2>1. mediaSections # <<>> /\ 1 \in 1..n /\ firstMid = mediaSections[1].mid
    BY <1>1 DEF IInv, FirstSectionKeepsBundle
  <2>2. k = 1 => mid = firstMid
    BY <1>1, <2>1
  <2>3. mediaSections' # <<>> /\ mediaSections'[1].mid = firstMid' /\ ~mediaSections'[1].closed
    BY <1>1, <1>3, <1>4, <1>6, <2>1, <2>2 DEF IInv, FirstSectionKeepsBundle
  <2>4. firstMid' \in bundleMids'
    BY <1>4, <1>6, <2>1, <2>3 DEF OpenMids
  <2>5. firstMid' # NoMid
    BY <1>4, <2>1, RemoteSdpAssumption DEF IInv, FirstSectionKeepsBundle
  <2> QED BY <2>3, <2>4, <2>5 DEF FirstSectionKeepsBundle
<1>11. SectionsShareTransport'
  BY <1>1, <1>3, <1>4, <1>6 DEF IInv, SectionsShareTransport, SetupFor
<1> QED BY <1>7, <1>8, <1>9, <1>10, <1>11 DEF IInv

\* What the two updates of all sections have in common: the mids and the
\* closed flags stay.
LEMMA UpdateKeepsIInv ==
  ASSUME IInv, UNCHANGED <<answering, midToIndex, firstMid, bundleMids>>,
         iceParameters' \in IceParams, dtlsRole' \in DtlsRoles,
         mediaSections' \in Seq(Section), sdpMedia' = mediaSections',
         DOMAIN mediaSections' = DOMAIN mediaSections,
         \A i \in DOMAIN mediaSections :
           /\ mediaSections'[i].mid = mediaSections[i].mid
           /\ mediaSections'[i].closed = mediaSections[i].closed
           /\ mediaSections'[i].ice = iceParameters'
           /\ mediaSections'[i].setup = SetupFor(dtlsRole')
  PROVE  IInv'
<1>1. TypeOK'
  BY DEF IInv, TypeOK
<1>2. MidIndexExact'
  BY DEF IInv, MidIndexExact
<1>3. PublishedSdpIsCurrent'
  BY DEF IInv, PublishedSdpIsCurrent, OpenMids
<1>4. FirstSectionKeepsBundle'
  <2>1. mediaSections' = <<>> <=> mediaSections = <<>>
    BY DEF IInv, TypeOK
  <2>2. mediaSections # <<>> => 1 \in DOMAIN mediaSections
    BY DEF IInv, TypeOK
  <2> QED BY <2>1, <2>2 DEF IInv, FirstSectionKeepsBundle
<1>5. SectionsShareTransport'
  BY DEF SectionsShareTransport, SetupFor
<1> QED BY <1>1, <1>2, <1>3, <1>4, <1>5 DEF IInv

\* Every section with its transport parameters rewritten.
Rewritten(ice, setup) ==
    [i \in DOMAIN mediaSections |->
       [mediaSections[i] EXCEPT !.ice = ice, !.setup = setup]]

\* Rewriting the fields of every section leaves a sequence of sections.
LEMMA RewrittenSections ==
  ASSUME TypeOK, NEW ice \in IceParams, NEW setup \in Setups
  PROVE  /\ Rewritten(ice, setup) \in Seq(Section)
         /\ DOMAIN Rewritten(ice, setup) = DOMAIN mediaSections
         /\ \A i \in DOMAIN mediaSections :
              /\ Rewritten(ice, setup)[i].mid = mediaSections[i].mid
              /\ Rewritten(ice, setup)[i].closed = mediaSections[i].closed
              /\ Rewritten(ice, setup)[i].ice = ice
              /\ Rewritten(ice, setup)[i].setup = setup
<1> DEFINE n == Len(mediaSections)
<1>1. DOMAIN mediaSections = 1..n /\ n \in Nat
  BY LenProperties DEF TypeOK
<1>2. \A i \in 1..n : mediaSections[i] \in Section
  BY <1>1, ElementOfSeq DEF TypeOK
<1>3. \A section \in Section :
        /\ [section EXCEPT !.ice = ice, !.setup = setup] \in Section
        /\ [section EXCEPT !.ice = ice, !.setup = setup].mid = section.mid
        /\ [section EXCEPT !.ice = ice, !.setup = setup].closed = section.closed
        /\ [section EXCEPT !.ice = ice, !.setup = setup].ice = ice
        /\ [section EXCEPT !.ice = ice, !.setup = setup].setup = setup
  BY DEF Section
<1>4. Rewritten(ice, setup) \in [1..n -> Section] /\ DOMAIN Rewritten(ice, setup) = 1..n
  BY <1>1, <1>2, <1>3, Zenon DEF Rewritten
<1>5. Rewritten(ice, setup) \in Seq(Section)
  BY <1>1, <1>4, FunctionIsSeq
<1> QED BY <1>1, <1>2, <1>3, <1>4, <1>5 DEF Rewritten

\* An ICE restart keeps the invariant: no section is left with old credentials.
LEMMA UpdateIceKeepsIInv ==
  ASSUME IInv, NEW ice \in IceParams, UpdateIceParameters(ice), UNCHANGED answering
  PROVE  IInv'
<1>1. \A i \in DOMAIN mediaSections :
        mediaSections[i] \in Section /\ mediaSections[i].setup = SetupFor(dtlsRole)
  BY DEF IInv, TypeOK, SectionsShareTransport
<1>2. \A section \in Section : section.setup = SetupFor(dtlsRole) =>
        [section EXCEPT !.ice = ice]
          = [section EXCEPT !.ice = ice, !.setup = SetupFor(dtlsRole)]
  BY DEF Section
<1>3. mediaSections' = Rewritten(ice, SetupFor(dtlsRole))
  BY <1>1, <1>2, Zenon DEF UpdateIceParameters, Rewritten
<1>4. sdpMedia' = mediaSections'
  BY DEF UpdateIceParameters
<1>5. /\ SetupFor(dtlsRole) \in Setups /\ dtlsRole \in DtlsRoles
      /\ iceParameters' = ice
      /\ UNCHANGED <<midToIndex, firstMid, bundleMids, dtlsRole>>
      /\ SetupFor(dtlsRole)' = SetupFor(dtlsRole)
  BY DEF UpdateIceParameters, SetupFor, Setups, IInv, TypeOK
<1>6. /\ mediaSections' \in Seq(Section)
      /\ DOMAIN mediaSections' = DOMAIN mediaSections
      /\ \A i \in DOMAIN mediaSections :
           /\ mediaSections'[i].mid = mediaSections[i].mid
           /\ mediaSections'[i].closed = mediaSections[i].closed
           /\ mediaSections'[i].ice = ice
           /\ mediaSections'[i].setup = SetupFor(dtlsRole)
  BY <1>3, <1>5, RewrittenSections DEF IInv
<1>7. \A i \in DOMAIN mediaSections :
        /\ mediaSections'[i].ice = iceParameters'
        /\ mediaSections'[i].setup = SetupFor(dtlsRole')
  BY <1>5, <1>6 DEF SetupFor
<1>8. iceParameters' \in IceParams /\ dtlsRole' \in DtlsRoles
  BY <1>5
<1> QED BY <1>4, <1>5, <1>6, <1>7, <1>8, UpdateKeepsIInv, Zenon

\* A change of the DTLS role keeps the invariant, as it reaches every section.
LEMMA UpdateDtlsKeepsIInv ==
  ASSUME IInv, NEW role \in {"client", "server"}, UpdateDtlsRole(role), UNCHANGED answering
  PROVE  IInv'
<1>1. \A i \in DOMAIN mediaSections :
        mediaSections[i] \in Section /\ mediaSections[i].ice = iceParameters
  BY DEF IInv, TypeOK, SectionsShareTransport
<1>2. \A section \in Section : section.ice = iceParameters =>
        [section EXCEPT !.setup = SetupFor(role)]
          = [section EXCEPT !.ice = iceParameters, !.setup = SetupFor(role)]
  BY DEF Section
<1>3. mediaSections' = Rewritten(iceParameters, SetupFor(role))
  BY <1>1, <1>2, Zenon DEF UpdateDtlsRole, Rewritten
<1>4. sdpMedia' = mediaSections'
  BY DEF UpdateDtlsRole
<1>5. /\ SetupFor(role) \in Setups /\ role \in DtlsRoles
      /\ iceParameters \in IceParams
      /\ dtlsRole' = role
      /\ UNCHANGED <<midToIndex, firstMid, bundleMids, iceParameters>>
      /\ SetupFor(dtlsRole)' = SetupFor(role)
  BY DEF UpdateDtlsRole, SetupFor, Setups, DtlsRoles, IInv, TypeOK
<1>6. /\ mediaSections' \in Seq(Section)
      /\ DOMAIN mediaSections' = DOMAIN mediaSections
      /\ \A i \in DOMAIN mediaSections :
           /\ mediaSections'[i].mid = mediaSections[i].mid
           /\ mediaSections'[i].closed = mediaSections[i].closed
           /\ mediaSections'[i].ice = iceParameters
           /\ mediaSections'[i].setup = SetupFor(role)
  BY <1>3, <1>5, RewrittenSections DEF IInv
<1>7. \A i \in DOMAIN mediaSections :
        /\ mediaSections'[i].ice = iceParameters'
        /\ mediaSections'[i].setup = SetupFor(dtlsRole')
  BY <1>5, <1>6 DEF SetupFor
<1>8. iceParameters' \in IceParams /\ dtlsRole' \in DtlsRoles
  BY <1>5
<1> QED BY <1>4, <1>5, <1>6, <1>7, <1>8, UpdateKeepsIInv, Zenon

-----------------------------------------------------------------------------
(* The steps of the specification.                                         *)

\* The reuseMid of a Send is the mid of the first closed section, if any.
LEMMA ReuseMid ==
  ASSUME IInv
  PROVE  IF ClosedSections # {}
         THEN /\ GetNextMediaSectionIdx.reuseMid = mediaSections[FirstClosed].mid
              /\ GetNextMediaSectionIdx.reuseMid # NoMid
         ELSE GetNextMediaSectionIdx.reuseMid = NoMid
<1>1. ASSUME ClosedSections # {} PROVE mediaSections[FirstClosed].mid \in Mids
  <2>1. FirstClosed \in DOMAIN mediaSections
    BY <1>1, FirstClosedIsLeast DEF IInv, ClosedSections
  <2>2. mediaSections[FirstClosed] \in Section
    BY <2>1 DEF IInv, TypeOK
  <2> QED BY <2>2 DEF Section
<1> QED BY <1>1, RemoteSdpAssumption DEF GetNextMediaSectionIdx

\* Every step keeps the invariant: the operations, with the arguments that
\* a handler gives them, meet the conditions of the lemmas above.
THEOREM NextIInv == IInv /\ [Next]_vars => IInv'
<1> SUFFICES ASSUME IInv, [Next]_vars PROVE IInv'
  OBVIOUS
<1>1. CASE AddRtp /\ UNCHANGED answering
  <2>1. PICK mid \in FreshMids \ {DataMid} :
          \/ Send(mid, GetNextMediaSectionIdx.reuseMid)
          \/ Receive(mid)
    BY <1>1 DEF AddRtp
  <2>2. mid \in Mids /\ mid \notin DOMAIN midToIndex
    BY DEF FreshMids
  <2>3. UNCHANGED <<answering, iceParameters, dtlsRole>>
    BY <1>1, <2>1 DEF Send, Receive
  <2>4. CASE ClosedSections # {}
    <3>1. ReplaceMediaSection(NewSection(mid), mediaSections[FirstClosed].mid)
      BY <2>1, <2>4, ReuseMid DEF Send, Receive
    <3> QED BY <3>1, <2>2, <2>3, <2>4, ReplaceKeepsIInv
  <2>5. CASE ClosedSections = {}
    <3>1. AddMediaSection(NewSection(mid))
      BY <2>1, <2>5, ReuseMid DEF Send, Receive
    <3> QED BY <3>1, <2>2, <2>3, AddKeepsIInv
  <2> QED BY <2>4, <2>5
<1>2. CASE AddSctp /\ UNCHANGED answering
  <2>1. /\ AddMediaSection(NewSection(DataMid))
        /\ UNCHANGED <<answering, iceParameters, dtlsRole>>
        /\ DataMid \in Mids /\ DataMid \notin DOMAIN midToIndex
    BY <1>2 DEF AddSctp, SendSctpAssociation, RecvSctpAssociation, FreshMids
  <2> QED BY <2>1, AddKeepsIInv
<1>3. CASE CloseRtp /\ UNCHANGED answering
  BY <1>3, CloseKeepsIInv DEF CloseRtp
<1>4. CASE RestartIce /\ UNCHANGED answering
  BY <1>4, UpdateIceKeepsIInv DEF RestartIce
<1>5. CASE SetupTransport /\ UNCHANGED answering
  BY <1>5, UpdateDtlsKeepsIInv DEF SetupTransport
<1>6. CASE UNCHANGED vars
  BY <1>6 DEF vars, sectionVars, IInv, TypeOK, MidIndexExact, PublishedSdpIsCurrent,
     FirstSectionKeepsBundle, SectionsShareTransport, OpenMids, SetupFor
<1> QED BY <1>1, <1>2, <1>3, <1>4, <1>5, <1>6 DEF Next

\* IInv holds in every reachable state.
THEOREM Invariance == Spec => []IInv
<1> QED BY InitIInv, NextIInv, PTL DEF Spec

\* Every variable keeps its type, however many sections there are.
THEOREM TypeCorrect == Spec => []TypeOK
<1>1. IInv => TypeOK
  BY DEF IInv
<1> QED BY <1>1, Invariance, PTL

\* The map and the vector of sections stay inverse of each other.
THEOREM MidIndexAlwaysExact == Spec => []MidIndexExact
<1>1. IInv => MidIndexExact
  BY DEF IInv
<1> QED BY <1>1, Invariance, PTL

\* GetSdp() never writes a stale section or BUNDLE group.
THEOREM PublishedSdpAlwaysCurrent == Spec => []PublishedSdpIsCurrent
<1>1. IInv => PublishedSdpIsCurrent
  BY DEF IInv
<1> QED BY <1>1, Invariance, PTL

\* The section that carries the bundled transport is never closed.
THEOREM FirstSectionAlwaysBundled == Spec => []FirstSectionKeepsBundle
<1>1. IInv => FirstSectionKeepsBundle
  BY DEF IInv
<1> QED BY <1>1, Invariance, PTL

\* All sections always present the current credentials and role.
THEOREM TransportAlwaysShared == Spec => []SectionsShareTransport
<1>1. IInv => SectionsShareTransport
  BY DEF IInv
<1> QED BY <1>1, Invariance, PTL

-----------------------------------------------------------------------------
(* RemoteSdp implements MLineTable.                                        *)

\* The table of m= lines that is published.
Lines == [i \in DOMAIN sdpMedia |-> [mid |-> sdpMedia[i].mid, rejected |-> sdpMedia[i].closed]]

\* The table of m= lines in terms of the sections and of the map.
LEMMA LinesOfSections ==
  ASSUME IInv
  PROVE  /\ DOMAIN Lines = DOMAIN mediaSections
         /\ DOMAIN mediaSections = 1..Len(mediaSections)
         /\ Len(mediaSections) \in Nat
         /\ Lines = [i \in 1..Len(mediaSections) |->
                      [mid |-> mediaSections[i].mid, rejected |-> mediaSections[i].closed]]
         /\ Len(Lines) = Len(mediaSections)
         /\ MLines!UsedMids = DOMAIN midToIndex
         /\ MLines!Rejected = ClosedSections
<1>1. sdpMedia = mediaSections /\ DOMAIN mediaSections = 1..Len(mediaSections)
      /\ Len(mediaSections) \in Nat
  BY LenProperties DEF IInv, PublishedSdpIsCurrent, TypeOK
<1>2. Lines = [i \in 1..Len(mediaSections) |->
                 [mid |-> mediaSections[i].mid, rejected |-> mediaSections[i].closed]]
  BY <1>1 DEF Lines
<1>3. DOMAIN Lines = 1..Len(mediaSections)
  BY <1>2
<1>4. Len(Lines) = Len(mediaSections)
  BY <1>1, <1>2
<1>5. MLines!UsedMids = DOMAIN midToIndex
  BY <1>1, <1>2, <1>3 DEF MLines!UsedMids, Lines, IInv, MidIndexExact
<1>6. MLines!Rejected = ClosedSections
  BY <1>1, <1>2, <1>3 DEF MLines!Rejected, Lines, ClosedSections
<1> QED BY <1>1, <1>2, <1>3, <1>4, <1>5, <1>6

\* Adding a section appends a line.
LEMMA AddIsAddLine ==
  ASSUME IInv, NEW mid \in Mids, mid \notin DOMAIN midToIndex,
         mid = DataMid \/ ClosedSections = {},
         AddMediaSection(NewSection(mid))
  PROVE  MLines!AddLine(mid)
<1> DEFINE n == Len(mediaSections)
           new == NewSection(mid)
           line == [mid |-> mid, rejected |-> FALSE]
<1>1. new \in Section /\ new.mid = mid /\ ~new.closed
  BY NewSectionType DEF IInv
<1>2. /\ sdpMedia \in Seq(Section) /\ Len(sdpMedia) = n /\ n \in Nat
      /\ DOMAIN sdpMedia = 1..n
      /\ sdpMedia' = Append(sdpMedia, new)
  BY DEF IInv, TypeOK, PublishedSdpIsCurrent, AddMediaSection
<1>3. /\ DOMAIN sdpMedia' = 1..(n + 1)
      /\ \A i \in 1..n : sdpMedia'[i] = sdpMedia[i]
      /\ sdpMedia'[n + 1] = new
  BY <1>1, <1>2
<1> HIDE DEF n, new
<1>4. Lines = [i \in 1..n |-> [mid |-> sdpMedia[i].mid, rejected |-> sdpMedia[i].closed]]
  BY <1>2 DEF Lines
<1>5. Lines' = [i \in 1..(n + 1) |-> IF i = n + 1 THEN line ELSE Lines[i]]
  <2>1. Lines' = [i \in 1..(n + 1) |->
                    [mid |-> sdpMedia'[i].mid, rejected |-> sdpMedia'[i].closed]]
    BY <1>3 DEF Lines
  <2>2. \A i \in 1..(n + 1) :
          [mid |-> sdpMedia'[i].mid, rejected |-> sdpMedia'[i].closed]
            = IF i = n + 1 THEN line ELSE Lines[i]
    <3>1. new.closed = FALSE
      BY <1>1 DEF Section
    <3>2. \A i \in 1..n : Lines[i] = [mid |-> sdpMedia'[i].mid, rejected |-> sdpMedia'[i].closed]
      BY <1>3, <1>4
    <3>3. line = [mid |-> sdpMedia'[n + 1].mid, rejected |-> sdpMedia'[n + 1].closed]
      BY <3>1, <1>1, <1>3
    <3> QED BY <3>2, <3>3, <1>2
  <2> QED BY <2>1, <2>2
<1>6. Lines' = Append(Lines, line)
  <2>1. Len(Lines) = n
    BY <1>2, <1>4
  <2> QED BY <1>2, <1>4, <1>5, <2>1
<1> QED BY <1>6, LinesOfSections DEF MLines!AddLine, Lines

\* Replacing the first closed section recycles the first rejected line.
LEMMA ReplaceIsRecycle ==
  ASSUME IInv, NEW mid \in Mids, mid \notin DOMAIN midToIndex, ClosedSections # {},
         ReplaceMediaSection(NewSection(mid), mediaSections[FirstClosed].mid)
  PROVE  MLines!Recycle(mid)
<1> DEFINE n == Len(mediaSections)
           k == FirstClosed
           new == NewSection(mid)
           line == [mid |-> mid, rejected |-> FALSE]
<1>1. new \in Section /\ new.mid = mid /\ new.closed = FALSE
  BY NewSectionType DEF IInv, NewSection
<1>2. /\ k \in ClosedSections /\ k \in 1..n
      /\ \A j \in ClosedSections : k <= j
      /\ DOMAIN sdpMedia = 1..n
  BY FirstClosedIsLeast DEF IInv, TypeOK, ClosedSections, PublishedSdpIsCurrent
<1>3. IndexOf(mediaSections[k].mid) = k
  BY <1>2 DEF IInv, MidIndexExact, IndexOf, ClosedSections
<1>4. sdpMedia' = [sdpMedia EXCEPT ![k] = new]
  BY <1>3 DEF ReplaceMediaSection
<1> HIDE DEF n, k, new
<1>5. Lines = [i \in 1..n |-> [mid |-> sdpMedia[i].mid, rejected |-> sdpMedia[i].closed]]
  BY <1>2 DEF Lines
<1>6. Lines' = [Lines EXCEPT ![k] = line]
  <2>1. DOMAIN sdpMedia' = 1..n
    BY <1>2, <1>4
  <2>2. \A i \in 1..n : sdpMedia'[i] = IF i = k THEN new ELSE sdpMedia[i]
    BY <1>2, <1>4
  <2>3. Lines' = [i \in 1..n |-> [mid |-> sdpMedia'[i].mid, rejected |-> sdpMedia'[i].closed]]
    BY <2>1 DEF Lines
  <2>4. \A i \in 1..n : i # k =>
          [mid |-> sdpMedia'[i].mid, rejected |-> sdpMedia'[i].closed] = Lines[i]
    BY <1>5, <2>2
  <2>5. [mid |-> sdpMedia'[k].mid, rejected |-> sdpMedia'[k].closed] = line
    BY <1>1, <1>2, <2>2
  <2>6. [Lines EXCEPT ![k] = line] = [i \in 1..n |-> IF i = k THEN line ELSE Lines[i]]
    BY <1>5
  <2> QED BY <2>3, <2>4, <2>5, <2>6
<1> QED BY <1>2, <1>6, LinesOfSections DEF MLines!Recycle, Lines

\* The line that differs from another in being rejected.
LEMMA RejectedLine ==
  ASSUME NEW line \in MLines!MLine, NEW other \in MLines!MLine,
         other.mid = line.mid, other.rejected = TRUE
  PROVE  other = [line EXCEPT !.rejected = TRUE]
BY DEF MLines!MLine

\* Closing a section rejects its line, unless it is the first, whose line
\* does not change.
LEMMA CloseIsReject ==
  ASSUME IInv, NEW mid \in DOMAIN midToIndex, CloseMediaSection(mid)
  PROVE  UNCHANGED Lines \/ \E i \in DOMAIN Lines : MLines!Reject(i)
<1> DEFINE n == Len(mediaSections)
           k == IndexOf(mid)
           new == IF mid = firstMid THEN Disabled(mediaSections[k]) ELSE Closed(mediaSections[k])
           line == [mid |-> mid, rejected |-> new.closed]
<1>1. /\ DOMAIN mediaSections = 1..n /\ k \in 1..n /\ n \in Nat
      /\ mediaSections[k].mid = mid /\ mediaSections[k] \in Section
  BY DEF IInv, TypeOK, MidIndexExact, IndexOf
<1>2. /\ new.mid = mid
      /\ new.closed = IF mid = firstMid THEN mediaSections[k].closed ELSE TRUE
  BY <1>1 DEF Section, Disabled, Closed
<1>3. /\ mediaSections' = [mediaSections EXCEPT ![k] = new]
      /\ sdpMedia' = [mediaSections EXCEPT ![k] = mediaSections'[k]]
  BY DEF CloseMediaSection, IInv, PublishedSdpIsCurrent
<1> HIDE DEF n, k, new
<1>4. /\ DOMAIN sdpMedia' = 1..n
      /\ \A i \in 1..n : sdpMedia'[i] = IF i = k THEN new ELSE mediaSections[i]
  BY <1>1, <1>3
<1>5. Lines = [i \in 1..n |-> [mid |-> mediaSections[i].mid, rejected |-> mediaSections[i].closed]]
  BY <1>1 DEF Lines, IInv, PublishedSdpIsCurrent
<1>6. Lines' = [i \in 1..n |-> IF i = k THEN line ELSE Lines[i]]
  <2>1. Lines' = [i \in 1..n |-> [mid |-> sdpMedia'[i].mid, rejected |-> sdpMedia'[i].closed]]
    BY <1>4 DEF Lines
  <2>2. \A i \in 1..n : i # k =>
          [mid |-> sdpMedia'[i].mid, rejected |-> sdpMedia'[i].closed] = Lines[i]
    BY <1>4, <1>5
  <2>3. [mid |-> sdpMedia'[k].mid, rejected |-> sdpMedia'[k].closed] = line
    BY <1>1, <1>2, <1>4
  <2> QED BY <2>1, <2>2, <2>3
<1>7. CASE mid = firstMid
  <2>1. Lines[k] = line
    BY <1>1, <1>2, <1>5, <1>7
  <2> QED BY <1>5, <1>6, <2>1
<1>8. CASE mid # firstMid
  <2>1. k # 1
    BY <1>1, <1>8 DEF IInv, FirstSectionKeepsBundle
  <2>2. line = [Lines[k] EXCEPT !.rejected = TRUE]
    <3>1. Lines[k] = [mid |-> mid, rejected |-> mediaSections[k].closed]
      BY <1>1, <1>5
    <3>2. Lines[k] \in MLines!MLine /\ Lines[k].mid = mid
      BY <1>1, <3>1 DEF Section, MLines!MLine
    <3>3. line \in MLines!MLine /\ line.mid = mid /\ line.rejected = TRUE
      BY <1>1, <1>2, <1>8 DEF Section, MLines!MLine
    <3> QED BY <3>2, <3>3, RejectedLine DEF MLines!MLine
  <2>3. k \in DOMAIN Lines /\ Lines' = [Lines EXCEPT ![k] = line]
    BY <1>1, <1>5, <1>6
  <2>4. Lines' = [Lines EXCEPT ![k].rejected = TRUE]
    BY <2>2, <2>3
  <2> QED BY <2>1, <2>3, <2>4 DEF MLines!Reject, Lines
<1> QED BY <1>7, <1>8

\* An ICE restart changes no line.
LEMMA IceIsStutter ==
  ASSUME IInv, NEW ice \in IceParams, UpdateIceParameters(ice)
  PROVE  UNCHANGED Lines
<1>1. sdpMedia' = [i \in DOMAIN sdpMedia |-> [sdpMedia[i] EXCEPT !.ice = ice]]
  BY DEF UpdateIceParameters, IInv, PublishedSdpIsCurrent
<1>2. \A i \in DOMAIN sdpMedia : sdpMedia[i] \in Section
  BY DEF IInv, TypeOK
<1>3. \A section \in Section :
        /\ [section EXCEPT !.ice = ice].mid = section.mid
        /\ [section EXCEPT !.ice = ice].closed = section.closed
  BY DEF Section
<1> QED BY <1>1, <1>2, <1>3, Zenon DEF Lines

\* A change of the DTLS role changes no line.
LEMMA DtlsIsStutter ==
  ASSUME IInv, NEW role, UpdateDtlsRole(role)
  PROVE  UNCHANGED Lines
<1>1. sdpMedia' = [i \in DOMAIN sdpMedia |-> [sdpMedia[i] EXCEPT !.setup = SetupFor(role)]]
  BY DEF UpdateDtlsRole, IInv, PublishedSdpIsCurrent
<1>2. \A i \in DOMAIN sdpMedia : sdpMedia[i] \in Section
  BY DEF IInv, TypeOK
<1>3. \A section \in Section :
        /\ [section EXCEPT !.setup = SetupFor(role)].mid = section.mid
        /\ [section EXCEPT !.setup = SetupFor(role)].closed = section.closed
  BY DEF Section
<1> QED BY <1>1, <1>2, <1>3, Zenon DEF Lines

\* What RemoteSdp publishes moves only as a table of m= lines may move: lines
\* keep their places, and the first rejected line is the one recycled.
THEOREM Refinement == Spec => ImplementsMLineTable
<1>1. Init => MLines!Init
  BY DEF Init, MLines!Init
<1>2. IInv /\ [Next]_vars => [MLines!Next]_Lines
  <2> SUFFICES ASSUME IInv, [Next]_vars PROVE MLines!Next \/ UNCHANGED Lines
    OBVIOUS
  <2>1. CASE AddRtp
    <3>1. PICK mid \in FreshMids \ {DataMid} :
            \/ Send(mid, GetNextMediaSectionIdx.reuseMid)
            \/ Receive(mid)
      BY <2>1 DEF AddRtp
    <3>2. mid \in Mids /\ mid \notin DOMAIN midToIndex
      BY DEF FreshMids
    <3>3. CASE ClosedSections # {}
      <4>1. ReplaceMediaSection(NewSection(mid), mediaSections[FirstClosed].mid)
        BY <3>1, <3>3, ReuseMid DEF Send, Receive
      <4> QED BY <4>1, <3>2, <3>3, ReplaceIsRecycle DEF MLines!Next
    <3>4. CASE ClosedSections = {}
      <4>1. AddMediaSection(NewSection(mid))
        BY <3>1, <3>4, ReuseMid DEF Send, Receive
      <4> QED BY <4>1, <3>2, <3>4, AddIsAddLine DEF MLines!Next
    <3> QED BY <3>3, <3>4
  <2>2. CASE AddSctp
    <3>1. AddMediaSection(NewSection(DataMid)) /\ DataMid \in Mids \ DOMAIN midToIndex
      BY <2>2 DEF AddSctp, SendSctpAssociation, RecvSctpAssociation, FreshMids
    <3> QED BY <3>1, AddIsAddLine DEF MLines!Next
  <2>3. CASE CloseRtp
    BY <2>3, CloseIsReject DEF CloseRtp, MLines!Next, Lines
  <2>4. CASE RestartIce
    <3>1. PICK ice \in IceParams : UpdateIceParameters(ice)
      BY <2>4 DEF RestartIce
    <3> QED BY <3>1, IceIsStutter
  <2>5. CASE SetupTransport
    <3>1. PICK role \in {"client", "server"} : UpdateDtlsRole(role)
      BY <2>5 DEF SetupTransport
    <3> QED BY <3>1, DtlsIsStutter
  <2>6. CASE UNCHANGED vars
    BY <2>6 DEF vars, sectionVars, Lines
  <2> QED BY <2>1, <2>2, <2>3, <2>4, <2>5, <2>6 DEF Next
<1> QED BY <1>1, <1>2, Invariance, PTL DEF Spec, ImplementsMLineTable, MLines!Spec, Lines
=============================================================================
