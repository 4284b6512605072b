------------------------------ MODULE MCCalls -------------------------------
(***************************************************************************)
(* One application thread that makes any call, one that closes the         *)
(* transport or restarts ICE at any step of it, and a callback that makes  *)
(* any call.                                                               *)
(***************************************************************************)
EXTENDS Calls

MCMayCall == [t \in Threads |-> IF t = "t2" THEN {"Close", "RestartIce"} ELSE Ops]
=============================================================================
