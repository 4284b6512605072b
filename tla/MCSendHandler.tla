--------------------------- MODULE MCSendHandler ----------------------------
(***************************************************************************)
(* SendHandler with three calls of Send: a first section that cannot be    *)
(* closed, one that is closed, and one that recycles it or meets what a    *)
(* failed call left behind.  Two stream ids make the id wrap around.       *)
(***************************************************************************)
EXTENDS SendHandler
=============================================================================
