------------------------------- MODULE MCLocal ------------------------------
(***************************************************************************)
(* LocalPlay on small positions: every front end in turn.                  *)
(***************************************************************************)
EXTENDS LocalPlay, Positions

Through(front, white, black, start) ==
  [front |-> front, player |-> [c \in Color |-> IF c = "W" THEN white ELSE black],
   start |-> start]

(***************************************************************************)
(* Home (5 x 4): White may castle on its queen's side; its rook, attacked  *)
(* by a knight, may take a bishop that another knight avenges a phase      *)
(* later.  Facing (5 x 4): two pawns attack each other.  Blocked (5 x 4):  *)
(* no capture is at hand.                                                  *)
(***************************************************************************)
Home == Position(WK :> <<4, 0>> @@ WR :> <<0, 0>> @@ BK :> <<4, 3>>
                   @@ BN :> <<1, 2>> @@ Piece(18, "B", "n") :> <<2, 3>> @@ BB :> <<0, 2>>,
                 {}, <<Stands(WR, WK, 0)>>, <<>>, {<<"W", "queen">>})
Facing == Position(WK :> <<0, 0>> @@ WP :> <<0, 1>> @@ BK :> <<1, 3>> @@ BP :> <<1, 2>>,
                    {}, <<Stands(WK, WP, 0)>>, <<>>, {})

Blocked == Position(WK :> <<1, 0>> @@ WP :> <<0, 1>> @@ WN :> <<0, 0>> @@ BK :> <<3, 3>> @@ BP :> <<0, 2>>,
                     {}, <<Stands(WK, WP, 0)>>, <<>>, {})

(***************************************************************************)
(* Cornered (4 x 4): the king may take a knight, which cools it, and its   *)
(* only companion is a blocked pawn.                                       *)
(***************************************************************************)
Cornered == Position(WK :> <<1, 1>> @@ WP :> <<0, 1>> @@ BK :> <<3, 3>> @@ BN :> <<1, 2>> @@ BP :> <<0, 2>>,
                      {}, <<>>, <<>>, {})

EverySetup == { Through("window", "human", "greedy", Home),
                Through("terminal", "human", "human", Home),
                Through("terminal", "greedy", "human", Facing),
                Through("match", "random_legal", "greedy", Blocked),
                Through("match", "greedy", "greedy", Cornered),
                Through("selfplay", "greedy", "random_legal", Cornered) }
HomeSquares == {<<0, 0>>, <<4, 0>>, <<3, 1>>}

Typed(s, c) == captures(s, c) \cup king_walks(s, c)
=============================================================================
