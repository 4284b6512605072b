---------------------------- MODULE MCRemoteSdp -----------------------------
(***************************************************************************)
(* RemoteSdp on its own.  Four RTP mids let two sections be closed next to *)
(* a first one that stays open, and a fourth mid take the place of one of  *)
(* them; two sets of ICE credentials let a restart fall between those      *)
(* steps.  No other bound is needed: a mid that was replaced is free again.*)
(***************************************************************************)
EXTENDS RemoteSdp

MCMids == {"m1", "m2", "m3", "m4", "data"}
MCDataMid == "data"
MCNoMid == ""
MCIceParams == {"ice1", "ice2"}
=============================================================================
