-------------------------------- MODULE Jsep --------------------------------
(***************************************************************************)
(* The peer connection as the handlers see it: src/PeerConnection.cpp, a   *)
(* blocking wrapper that waits for the observer of each call and rethrows  *)
(* its error, around libwebrtc's offer/answer machine (outside src/,       *)
(* modelled from what the handlers rely on: JSEP, RFC 8829, unified plan). *)
(*                                                                         *)
(* A peer is a record; each operation is a function from the peer before   *)
(* to the peer after, beside a predicate that says when the call succeeds. *)
(* The m= lines of a description are records [mid, rejected].  A mid that  *)
(* libwebrtc generates is fresh, so the mid of the n-th transceiver of a   *)
(* sending peer is n.                                                      *)
(***************************************************************************)
EXTENDS Naturals, Sequences, FiniteSets

CONSTANTS DataMid, NoMid

NewPeer ==
    [closed |-> FALSE, signaling |-> "stable", transceivers |-> <<>>,
     local |-> <<>>, remote |-> <<>>, channels |-> {}]

\* The numbers of a finite set, in increasing order.
InOrder(S) ==
    CHOOSE s \in [1..Cardinality(S) -> S] :
        /\ \A n \in S : \E k \in DOMAIN s : s[k] = n
        /\ \A j, k \in DOMAIN s : j < k => s[j] < s[k]

MidsOf(lines) == {lines[i].mid : i \in DOMAIN lines}

AssociatedMids(p) == {p.transceivers[t].mid : t \in DOMAIN p.transceivers} \ {NoMid}

Close(p) == [p EXCEPT !.closed = TRUE]

CanCreateDataChannel(p, id) == ~p.closed /\ id \notin p.channels

CreateDataChannel(p, id) == [p EXCEPT !.channels = @ \cup {id}]

-----------------------------------------------------------------------------
(* The offering side (SendHandler).                                        *)

AddTransceiver(p) ==
    [p EXCEPT !.transceivers = Append(@, [mid |-> NoMid, sending |-> TRUE, stopped |-> FALSE])]

\* Direction inactive and no track: RemoveTrack with SetTrack(nullptr).
StopSender(p, t) == [p EXCEPT !.transceivers[t].sending = FALSE]

\* An m= line whose transceiver is gone may be given to a new one.
RecyclableLines(p) ==
    {i \in DOMAIN p.local : p.local[i].mid \notin AssociatedMids(p) \cup {DataMid}}

NewTransceivers(p) ==
    {t \in DOMAIN p.transceivers : p.transceivers[t].mid = NoMid /\ ~p.transceivers[t].stopped}

\* Every line of before in its place, the recyclable ones given to the new
\* transceivers in order and rejected when there is none left, the other new
\* transceivers in lines of their own, and the data channels last.
CreateOffer(p) ==
    LET free == InOrder(RecyclableLines(p))
        new == InOrder(NewTransceivers(p))
        reused == IF Len(free) < Len(new) THEN Len(free) ELSE Len(new)
        kept == [i \in DOMAIN p.local |->
                   IF \E k \in 1..reused : free[k] = i
                   THEN [mid |-> new[CHOOSE k \in 1..reused : free[k] = i], rejected |-> FALSE]
                   ELSE [mid |-> p.local[i].mid, rejected |-> \E k \in DOMAIN free : free[k] = i]]
        added == [k \in 1..Len(new) - reused |-> [mid |-> new[reused + k], rejected |-> FALSE]]
        data == IF p.channels # {} /\ DataMid \notin MidsOf(p.local)
                THEN <<[mid |-> DataMid, rejected |-> FALSE]>> ELSE <<>>
    IN  kept \o added \o data

\* A transceiver that was stopped has no m= line any more, even while the
\* line that it had is offered, as rejected.
Associated(transceivers, offer) ==
    [t \in DOMAIN transceivers |->
       IF t \in MidsOf(offer) /\ ~transceivers[t].stopped
       THEN [transceivers[t] EXCEPT !.mid = t]
       ELSE transceivers[t]]

SetLocalOffer(p, offer) ==
    [p EXCEPT !.signaling = "have-local-offer", !.local = offer,
              !.transceivers = Associated(@, offer)]

\* An answer has the m= lines of the offer, in the order of the offer.
AnswerFits(p, answer) ==
    /\ ~p.closed
    /\ p.signaling = "have-local-offer"
    /\ Len(answer) = Len(p.local)
    /\ \A i \in DOMAIN answer : answer[i].mid = p.local[i].mid

RejectedMids(lines) == {lines[i].mid : i \in {j \in DOMAIN lines : lines[j].rejected}}

\* A line that is rejected stops its transceiver, which loses its mid.
StopRejected(transceivers, lines) ==
    [t \in DOMAIN transceivers |->
       IF transceivers[t].mid \in RejectedMids(lines)
       THEN [transceivers[t] EXCEPT !.stopped = TRUE, !.mid = NoMid]
       ELSE transceivers[t]]

SetRemoteAnswer(p, answer) ==
    [p EXCEPT !.signaling = "stable", !.remote = answer,
              !.transceivers = StopRejected(@, answer)]
=============================================================================
