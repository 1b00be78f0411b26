------------------------------- MODULE MCMatch ------------------------------
(***************************************************************************)
(* Match on the positions of Positions: the instances' cfg files choose    *)
(* the starting positions and the menu.  The assumption holds the          *)
(* hypotheses of HarnessSilent (in MatchProofs).                           *)
(***************************************************************************)
EXTENDS Match, Positions

ASSUME HarnessHypotheses ==
  /\ N <= BlackAgeOffset
  /\ CancellationEnabled
  /\ \A s \in InitialStates : check_all_state(s, FALSE)
=============================================================================
