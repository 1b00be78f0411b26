------------------------------ MODULE Players -------------------------------
(***************************************************************************)
(* The two colours (core/types.py), shared by the rules and the network.   *)
(***************************************************************************)
Color       == {"W", "B"}
opponent(c) == IF c = "W" THEN "B" ELSE "W"
=============================================================================
