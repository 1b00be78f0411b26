------------------------------- MODULE MCPace -------------------------------
(***************************************************************************)
(* Pace for two peers; the cfg files choose the delays and the deadlines.  *)
(***************************************************************************)
EXTENDS Pace
=============================================================================
