--------------------------- MODULE MCRecvHandler ----------------------------
(***************************************************************************)
(* RecvHandler with at most four sections: a first one, the one of the     *)
(* probator, and two more that are closed and recycled, or the data        *)
(* channels'.  Three mids let a mid be new after two were used; mid-less   *)
(* consumers are numbered into the same set.  A state in which a mid was   *)
(* repeated is checked, but nothing is claimed of what follows it.         *)
(***************************************************************************)
EXTENDS RecvHandler

NotRepeated == ~repeated
=============================================================================
