---------------------------- MODULE JsepAnswerer ----------------------------
(***************************************************************************)
(* The peer connection as the RecvHandler sees it: it is only ever offered *)
(* m= lines, and answers them.  Like Jsep, the offer/answer machine behind *)
(* src/PeerConnection.cpp is libwebrtc's, modelled from what the handler   *)
(* relies on (JSEP, RFC 8829, unified plan).                               *)
(*                                                                         *)
(* Every m= line of RTP that is not rejected has a transceiver with the    *)
(* mid of the line, and a line that is rejected stops its transceiver: the *)
(* transceivers are read off the remote description.                       *)
(***************************************************************************)
EXTENDS Naturals, Sequences

CONSTANT DataMid

NewPeer ==
    [closed |-> FALSE, signaling |-> "stable", local |-> <<>>, remote |-> <<>>,
     channels |-> {}]

Close(p) == [p EXCEPT !.closed = TRUE]

CanCreateDataChannel(p, id) == ~p.closed /\ id \notin p.channels

CreateDataChannel(p, id) == [p EXCEPT !.channels = @ \cup {id}]

UniqueMids(lines) == \A i, j \in DOMAIN lines : lines[i].mid = lines[j].mid => i = j

\* The line may be given to another mid.
Recyclable(p, i) == p.remote[i].rejected \/ (i \in DOMAIN p.local /\ p.local[i].rejected)

\* An offer repeats no mid, and every line of before is in its place or recycled.
OfferFits(p, offer) ==
    /\ ~p.closed
    /\ UniqueMids(offer)
    /\ Len(p.remote) <= Len(offer)
    /\ \A i \in DOMAIN p.remote : offer[i].mid = p.remote[i].mid \/ Recyclable(p, i)

SetRemoteOffer(p, offer) == [p EXCEPT !.signaling = "have-remote-offer", !.remote = offer]

\* CreateAnswer and SetLocalDescription(ANSWER): line for line what was offered.
SetLocalAnswer(p) == [p EXCEPT !.signaling = "stable", !.local = p.remote]

TransceiverMids(p) ==
    {p.remote[i].mid : i \in {j \in DOMAIN p.remote : ~p.remote[j].rejected}} \ {DataMid}
=============================================================================
