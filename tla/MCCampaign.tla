----------------------------- MODULE MCCampaign -----------------------------
(***************************************************************************)
(* Three specs of one to three games.                                      *)
(***************************************************************************)
EXTENDS Campaign

ThreeSpecs ==
  << [label |-> "pairing", base_seed |-> 0, n_games |-> 3],
     [label |-> "mirror",  base_seed |-> 10, n_games |-> 1],
     [label |-> "arm",     base_seed |-> 20, n_games |-> 3] >>
=============================================================================
