----------------------------- MODULE MLineTable -----------------------------
(***************************************************************************)
(* What a session description promises its peer, whatever produces it: the *)
(* table of m= lines only ever grows, a line keeps its place and its mid,  *)
(* and a line is given to another mid only after it has been rejected.     *)
(* The first rejected line is the one that is recycled, because that is    *)
(* the one libwebrtc recycles in its own offers: both sides must agree on  *)
(* the position without exchanging it.  Line 1 carries the bundled         *)
(* transport and is never rejected.                                        *)
(*                                                                         *)
(* RemoteSdp refines this specification (RemoteSdp!ImplementsMLineTable).  *)
(***************************************************************************)
EXTENDS Naturals, Sequences

CONSTANTS Mids, DataMid

VARIABLE lines   \* sequence of [mid, rejected], one record per m= line

MLine == [mid : Mids, rejected : BOOLEAN]

UsedMids == {lines[i].mid : i \in DOMAIN lines}

Rejected == {i \in DOMAIN lines : lines[i].rejected}

Init == lines = <<>>

\* A line is added only when no rejected one is left to recycle, unless it is
\* the data channel's, which both sides always append.
AddLine(mid) ==
    /\ mid \notin UsedMids
    /\ mid = DataMid \/ Rejected = {}
    /\ lines' = Append(lines, [mid |-> mid, rejected |-> FALSE])

Recycle(mid) ==
    /\ mid \notin UsedMids
    /\ \E i \in Rejected :
         /\ \A j \in Rejected : i <= j
         /\ lines' = [lines EXCEPT ![i] = [mid |-> mid, rejected |-> FALSE]]

Reject(i) ==
    /\ i # 1
    /\ lines' = [lines EXCEPT ![i].rejected = TRUE]

Next ==
    \/ \E mid \in Mids : AddLine(mid) \/ Recycle(mid)
    \/ \E i \in DOMAIN lines : Reject(i)

Spec == Init /\ [][Next]_lines
=============================================================================
