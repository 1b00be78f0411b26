------------------------------ MODULE Geometry ------------------------------
(***************************************************************************)
(* Squares, tokens, trajectories and the geometric predicates of           *)
(* core/types.py, core/geometry.py and core/collision.py.                  *)
(*                                                                         *)
(* A square is a pair <<file, rank>>, a token the record of its identity,  *)
(* its colour and its current type: two snapshots of one identity (before  *)
(* and after a promotion) are different values, as in the code.  A board   *)
(* is a function from the live tokens to squares.  The code fixes the      *)
(* board at 8 x 8; its size is a parameter here so that small boards can   *)
(* be explored exhaustively.                                               *)
(***************************************************************************)
EXTENDS Integers, Sequences, FiniteSets, Players

CONSTANTS
  MaxFile,   \* the last file, 7 in the code
  MaxRank    \* the last rank, 7 in the code

ASSUME BoardAssumption == MaxFile \in Nat \ {0} /\ MaxRank \in Nat \ {0}

Files   == 0..MaxFile
Ranks   == 0..MaxRank
Squares == Files \X Ranks

PieceType     == {"p", "n", "b", "r", "q", "k"}
Promotable    == {"n", "b", "r", "q"}
Forward(c)    == IF c = "W" THEN 1 ELSE -1
PawnStart(c)  == IF c = "W" THEN 1 ELSE MaxRank - 1
LastRank(c)   == IF c = "W" THEN MaxRank ELSE 0

KingDeltas   == ({-1, 0, 1} \X {-1, 0, 1}) \ {<<0, 0>>}
RookDirs     == {d \in KingDeltas : d[1] = 0 \/ d[2] = 0}
BishopDirs   == KingDeltas \ RookDirs
KnightDeltas == ({-1, 1} \X {-2, 2}) \cup ({-2, 2} \X {-1, 1})

SliderDirs(typ) == CASE typ = "r" -> RookDirs
                     [] typ = "b" -> BishopDirs
                     [] OTHER     -> KingDeltas

Abs(x)         == IF x < 0 THEN -x ELSE x
Shift(s, d, k) == <<s[1] + k * d[1], s[2] + k * d[2]>>
Reach          == 1..(IF MaxFile > MaxRank THEN MaxFile ELSE MaxRank)

-----------------------------------------------------------------------------
(***************************************************************************)
(* Trajectories: the path with its origin first, and whether it is a jump. *)
(***************************************************************************)
Trajectory(path, jump) == [path |-> path, jump |-> jump]
Line(s, d, k)  == Trajectory([i \in 1..(k + 1) |-> Shift(s, d, i - 1)], FALSE)
Leap(s, d)     == Trajectory(<<s, Shift(s, d, 1)>>, TRUE)

origin(tau)      == tau.path[1]
destination(tau) == tau.path[Len(tau.path)]
swept(tau)       == {tau.path[i] : i \in 2..Len(tau.path)}
edges(tau)       == IF tau.jump THEN {}
                    ELSE {<<tau.path[i], tau.path[i + 1]>> :
                            i \in 1..(Len(tau.path) - 1)}

vertex_conflict(t1, t2) == swept(t1) \cap swept(t2) # {}
edge_conflict(t1, t2)   == \E e \in edges(t2) : <<e[2], e[1]>> \in edges(t1)
\* Fault: traversing the same edge in opposite directions is overlooked.
meets_on_squares_only(t1, t2) == vertex_conflict(t1, t2)

conflicts(t1, t2)       == vertex_conflict(t1, t2) \/ edge_conflict(t1, t2)

-----------------------------------------------------------------------------
(***************************************************************************)
(* Boards.                                                                 *)
(***************************************************************************)
live(board)         == DOMAIN board
occupants(board, s) == {t \in live(board) : board[t] = s}
held(board, c)      == {board[t] : t \in {u \in live(board) : u.color = c}}
occupied(board)     == {board[t] : t \in live(board)}

(***************************************************************************)
(* Every geometrically legal trajectory of token t on the declaration-time *)
(* board.                                                                  *)
(***************************************************************************)
slide(s, dirs, own, enemy) ==
  {Line(s, x[1], x[2]) : x \in
     {y \in dirs \X Reach :
        /\ Shift(s, y[1], y[2]) \in Squares \ own
        /\ \A k \in 1..(y[2] - 1) : Shift(s, y[1], k) \notin own \cup enemy}}

\* Fault: a knight's target is not checked to be on the board.
knight_off_board(s, own) ==
  {Leap(s, d) : d \in {e \in KnightDeltas : Shift(s, e, 1) \notin own}}

knight_trajectories(s, own) ==
  {Leap(s, d) : d \in {e \in KnightDeltas : Shift(s, e, 1) \in Squares \ own}}

king_step_trajectories(s, own) ==
  {Line(s, d, 1) : d \in {e \in KingDeltas : Shift(s, e, 1) \in Squares \ own}}

pawn_trajectories(s, c, own, enemy) ==
  LET up      == <<0, Forward(c)>>
      free(q) == q \in Squares \ (own \cup enemy)
      pushes  == {k \in 1..(IF s[2] = PawnStart(c) THEN 2 ELSE 1) :
                    \A j \in 1..k : free(Shift(s, up, j))}
      strikes == {d \in {<<-1, Forward(c)>>, <<1, Forward(c)>>} :
                    Shift(s, d, 1) \in enemy}
  IN  {Line(s, up, k) : k \in pushes} \cup {Line(s, d, 1) : d \in strikes}

pseudo_legal_trajectories(board, t) ==
  LET s     == board[t]
      own   == held(board, t.color)
      enemy == held(board, opponent(t.color))
  IN  CASE t.typ = "n" -> knight_trajectories(s, own)
        [] t.typ = "k" -> king_step_trajectories(s, own)
        [] t.typ = "p" -> pawn_trajectories(s, t.color, own, enemy)
        [] OTHER       -> slide(s, SliderDirs(t.typ), own, enemy)

(***************************************************************************)
(* Whether a piece standing on s has a capturing pattern onto target,      *)
(* whatever stands there; only a slider's interior squares must be free.   *)
(***************************************************************************)
ray_reaches(s, target, dirs, occ) ==
  \E d \in dirs, k \in Reach :
    /\ Shift(s, d, k) = target
    /\ \A j \in 1..(k - 1) : Shift(s, d, j) \notin occ

capturing_pattern_at(typ, c, s, target, occ) ==
  LET delta == <<target[1] - s[1], target[2] - s[2]>>
  IN  CASE typ = "n" -> delta \in KnightDeltas
        [] typ = "k" -> delta \in KingDeltas
        [] typ = "p" -> delta[2] = Forward(c) /\ Abs(delta[1]) = 1
        [] OTHER     -> ray_reaches(s, target, SliderDirs(typ), occ)

-----------------------------------------------------------------------------
(***************************************************************************)
(* Castling: where king and rook stand, where they go, and which squares   *)
(* must be empty (files counted as on the 8-file board).                   *)
(***************************************************************************)
Sides   == {"king", "queen"}
Flanks  == Color \X Sides
HomeRank(c) == IF c = "W" THEN 0 ELSE 7
KingHome(c) == <<4, HomeRank(c)>>
RookHome(c, side) == <<IF side = "king" THEN 7 ELSE 0, HomeRank(c)>>
KingTarget(c, side) == <<IF side = "king" THEN 6 ELSE 2, HomeRank(c)>>
RookTarget(c, side) == <<IF side = "king" THEN 5 ELSE 3, HomeRank(c)>>
CastleGap(c, side) ==
  {<<f, HomeRank(c)>> : f \in IF side = "king" THEN {5, 6} ELSE {1, 2, 3}}

(***************************************************************************)
(* The castling move of colour c on that side: the empty set when illegal, *)
(* a singleton otherwise.  Neither cooldown nor the identity of the rook   *)
(* is looked at.                                                           *)
(***************************************************************************)
castle_move(board, rights, c, side) ==
  {[king |-> x[1], rook |-> x[2],
    king_trajectory |-> Trajectory(<<board[x[1]], KingTarget(c, side)>>, FALSE),
    rook_trajectory |-> Trajectory(<<board[x[2]], RookTarget(c, side)>>, FALSE)] :
     x \in {y \in occupants(board, KingHome(c)) \X occupants(board, RookHome(c, side)) :
              /\ <<c, side>> \in rights
              /\ y[1].typ = "k" /\ y[1].color = c
              /\ y[2].typ = "r" /\ y[2].color = c
              /\ CastleGap(c, side) \cap occupied(board) = {}}}
=============================================================================
