----------------------------- MODULE Positions ------------------------------
(***************************************************************************)
(* Starting positions and action menus of the bounded instances.  Boards   *)
(* are 4 x 4 unless the name says otherwise; White starts at the bottom.   *)
(***************************************************************************)
EXTENDS Phi

Piece(id, c, typ) == [id |-> id, color |-> c, typ |-> typ]

WK == Piece(1, "W", "k")
WR == Piece(2, "W", "r")
WN == Piece(3, "W", "n")
WP == Piece(4, "W", "p")
WB == Piece(5, "W", "b")
BK == Piece(11, "B", "k")
BR == Piece(12, "B", "r")
BN == Piece(13, "B", "n")
BP == Piece(14, "B", "p")
BB == Piece(15, "B", "b")

Stands(d, q, i) == [defender |-> d, protege |-> q, age |-> <<0, i>>]

\* A state in phase 1 with these pieces and standing reservations.
Position(board, cooled, white_res, black_res, rights) ==
  [board |-> board, cooldown |-> cooled,
   res |-> [c \in Color |-> IF c = "W" THEN white_res ELSE black_res],
   rights |-> rights, ledger |-> << >>, nu |-> 0, phase |-> 1]

(***************************************************************************)
(* Skirmish: few pieces in contact, both kings exposed, a pawn of each     *)
(* colour one or two steps from promotion, and standing reservations.      *)
(***************************************************************************)
SkirmishStart ==
  { Position(WK :> <<0, 0>> @@ WR :> <<2, 0>> @@ WP :> <<2, 2>>
               @@ BK :> <<3, 3>> @@ BN :> <<1, 3>> @@ BP :> <<0, 2>>,
             {}, <<Stands(WR, WP, 0), Stands(WR, WK, 1)>>,
             <<Stands(BK, BN, BlackAgeOffset)>>, {}) }

(***************************************************************************)
(* Clash: captures on several squares at once into standing defences.      *)
(* White's knight and rook attack two black pieces, each backed by a white *)
(* piece; Black's defenders back both, one of them, or each other, and     *)
(* Black strikes back.  The menus hold every capture, the steps of each    *)
(* king along its file, and the reservations of the bishops.               *)
(***************************************************************************)
WQ == Piece(6, "W", "q")
BQ == Piece(16, "B", "q")
SecondBR == Piece(17, "B", "r")

captures(s, c) ==
  {a \in UNION {move_actions(s, t) : t \in own_tokens(s, c)} :
     \E t \in occupants(s.board, destination(a.trajectory)) : t.color # c}
king_walks(s, c) ==
  {a \in UNION {move_actions(s, t) : t \in king_token(s, c)} :
     destination(a.trajectory)[1] = origin(a.trajectory)[1]}
reserves_by(s, c, typs) ==
  {Reserve(x[1], x[2]) : x \in {y \in own_tokens(s, c) \X own_tokens(s, c) :
      y[1] # y[2] /\ y[1].typ \in typs}}

Fighting(s, c) ==
  captures(s, c) \cup {a \in king_walks(s, c) : destination(a.trajectory)[2] < 4}
    \cup reserves_by(s, c, {"b"})

WhiteCamp == WK :> <<3, 0>> @@ WN :> <<0, 0>> @@ WR :> <<2, 0>>
               @@ WB :> <<0, 1>> @@ WQ :> <<3, 1>>
WhiteBacking == <<Stands(WB, WN, 0), Stands(WQ, WR, 1)>>

ClashStart ==
  {Position(WhiteCamp @@ BK :> <<3, 3>> @@ BQ :> <<1, 3>>
              @@ x[1] :> <<1, 2>> @@ BR :> <<2, 2>>,
            {}, WhiteBacking, x[2], {}) :
     x \in { <<BN, <<Stands(BQ, BN, BlackAgeOffset), Stands(BK, BR, BlackAgeOffset + 1)>> >>,
             <<BN, <<Stands(BQ, BN, BlackAgeOffset), Stands(BQ, BR, BlackAgeOffset + 1)>> >>,
             <<SecondBR, <<Stands(BR, SecondBR, BlackAgeOffset),
                           Stands(SecondBR, BR, BlackAgeOffset + 1),
                           Stands(BQ, SecondBR, BlackAgeOffset + 2)>> >>,
             <<SecondBR, <<Stands(BR, SecondBR, BlackAgeOffset),
                           Stands(BQ, BR, BlackAgeOffset + 1)>> >> }}

\* White's queen backs the knight that captures and the rook that is captured.
SharedDefence ==
  {Position(WK :> <<0, 0>> @@ WN :> <<1, 0>> @@ WQ :> <<3, 1>> @@ WR :> <<3, 3>>
              @@ BK :> <<0, 3>> @@ BN :> <<2, 2>> @@ BR :> <<1, 3>> @@ BQ :> <<0, 2>>,
            {}, <<Stands(WQ, WN, 0), Stands(WQ, WR, 1)>>,
            <<Stands(BQ, BN, BlackAgeOffset)>>, {})}

(***************************************************************************)
(* Pawns (8 x 8): convergent pushes, captures of a pawn that leaves, head- *)
(* on exchanges, and pawns one step from promotion by a push or a capture, *)
(* with standing defences of the promotion square.  A promoting pawn       *)
(* becomes a queen or a knight.                                            *)
(***************************************************************************)
Pawn(i)  == Piece(20 + i, "W", "p")
Black(i) == Piece(30 + i, "B", "p")

Marching(s, c) ==
  {a \in UNION {move_actions(s, t) : t \in {u \in own_tokens(s, c) : u.typ = "p"}} :
     a.promotion \in {NoPromotion, "q", "n"}}
  \cup king_walks(s, c) \cup {Cancel(rho) : rho \in ToSet(s.res[c])}

PawnsStart ==
  { Position(WK :> <<0, 0>> @@ Pawn(1) :> <<1, 2>> @@ Pawn(2) :> <<2, 1>>
               @@ Pawn(3) :> <<0, 6>>
               @@ BK :> <<3, 7>> @@ Black(1) :> <<2, 3>> @@ Black(2) :> <<3, 2>>
               @@ BN :> <<1, 7>> @@ BR :> <<1, 6>>,
             {}, <<Stands(Pawn(2), Pawn(1), 0)>>,
             <<Stands(BR, BN, BlackAgeOffset), Stands(Black(1), Black(2), BlackAgeOffset + 1)>>,
             {}) }

(***************************************************************************)
(* Castling (8 x 8): both flanks open, a black bishop and rook bearing on  *)
(* the corners, a second white rook that backs one of them.                *)
(***************************************************************************)
CornerRook == Piece(7, "W", "r")

Castling(s, c) ==
  captures(s, c) \cup {Castle(side) : side \in Sides} \cup
  {a \in UNION {move_actions(s, t) : t \in own_tokens(s, c)} :
     destination(a.trajectory) \in {<<3, 0>>, <<5, 0>>, <<0, 0>>, <<4, 1>>, <<3, 7>>, <<0, 7>>, <<4, 6>>}}

CastlingStart ==
  { Position(WK :> <<4, 0>> @@ WR :> <<0, 0>> @@ CornerRook :> <<7, 0>>
               @@ Piece(8, "W", "r") :> <<3, 0>>
               @@ BK :> <<4, 7>> @@ BR :> <<0, 7>> @@ BB :> <<4, 4>> @@ Black(1) :> <<6, 1>>,
             {}, <<Stands(Piece(8, "W", "r"), WR, 0)>>, <<>>, Flanks \ {<<"B", "king">>}) }

(***************************************************************************)
(* The three together on the full board: the clash in a corner for phases  *)
(* 1 and 2, pawns and castling for phase 5 alone.                          *)
(***************************************************************************)
ClashStarts == ClashStart \cup {[s EXCEPT !.phase = 5] : s \in PawnsStart \cup CastlingStart}
ClashMenu(s, c) ==
  CASE s.phase < 5                     -> Fighting(s, c)
    [] s.phase = 5 /\ s.rights = {}    -> Marching(s, c)
    [] s.phase = 5 /\ s.rights # {}    -> Castling(s, c)
    [] OTHER                           -> {}

(***************************************************************************)
(* Last stand (4 x 4): kings whose only companions are blocked or cooled   *)
(* capture what they can, directly and by firing.                          *)
(***************************************************************************)
LastStandStart ==
  { Position(WK :> <<0, 0>> @@ Pawn(1) :> x[1] @@ WN :> <<0, 1>> @@ BK :> <<3, 3>>
               @@ Black(1) :> x[2] @@ BB :> x[3],
             x[4], <<Stands(WK, WN, 0)>>, <<>>, {}) :
     x \in {<<2, 1>>, <<3, 0>>} \X {<<2, 2>>} \X {<<1, 2>>, <<1, 1>>}
             \X {{}, {WN}} }

(***************************************************************************)
(* The clash for phases 1 and 2, skirmishes and last stands for phase 5    *)
(* alone.                                                                  *)
(***************************************************************************)
\* Captures, steps of the kings and knights, and cancels.
Exposed(s, c) ==
  captures(s, c) \cup {Cancel(rho) : rho \in ToSet(s.res[c])}
  \cup UNION {move_actions(s, t) : t \in {u \in own_tokens(s, c) : u.typ \in {"k", "n"}}}

CloseStart ==
  ClashStart \cup {[s EXCEPT !.phase = 5] : s \in SkirmishStart \cup LastStandStart}
CloseMenu(s, c) ==
  CASE s.phase < 5 -> Fighting(s, c)
    [] s.phase = 5 -> Exposed(s, c)
    [] OTHER       -> {}
=============================================================================
