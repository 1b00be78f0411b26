------------------------------ MODULE Legality ------------------------------
(***************************************************************************)
(* Game states, actions and programs, and the declaration-legality         *)
(* predicate L1-L6 of core/legality.py under the switches of               *)
(* rules/ruleset.py.                                                       *)
(***************************************************************************)
EXTENDS Geometry, SequencesExt

CONSTANTS
  N,                    \* RuleSet.n_actions
  Horizon,              \* RuleSet.horizon
  RecaptureCooldown,    \* RuleSet.recapture_cooldown
  CancellationEnabled,  \* RuleSet.cancellation_enabled
  FizzleScope,          \* RuleSet.pawn_same_square_fizzle_scope
  IntermezzoReading,    \* RuleSet.intermezzo_reading
  KingCaptureCooldown   \* RuleSet.king_capture_cooldown

ASSUME RuleSetAssumption ==
  /\ N \in Nat \ {0}
  /\ Horizon \in Nat \ {0}
  /\ RecaptureCooldown \in BOOLEAN
  /\ CancellationEnabled \in BOOLEAN
  /\ FizzleScope \in {"both_pawns", "any_same_square"}
  /\ IntermezzoReading \in {"i", "ii"}
  /\ KingCaptureCooldown \in BOOLEAN

(***************************************************************************)
(* A state has the fields                                                  *)
(*   board     the function from live tokens to squares                    *)
(*   cooldown  the cooled tokens                                           *)
(*   res       for each colour, its reservations, oldest first             *)
(*   rights    the <<colour, side>> flanks that may still castle           *)
(*   ledger    how often each public position occurred                     *)
(*   nu        the no-progress counter                                     *)
(*   phase     the phase index                                             *)
(* A reservation is [defender, protege, age], age = <<phase, index>>.      *)
(***************************************************************************)
\* Known pieces on squares, one to a square, each identity once.
SoundBoard(b) ==
  /\ \A t \in live(b) : /\ t = [id |-> t.id, color |-> t.color, typ |-> t.typ]
                        /\ t.color \in Color /\ t.typ \in PieceType /\ b[t] \in Squares
  /\ \A t, u \in live(b) : b[t] = b[u] \/ t.id = u.id => t = u

Move(t, tau, promo) == [kind |-> "move", token |-> t, trajectory |-> tau,
                        promotion |-> promo]
Reserve(d, q) == [kind |-> "reserve", defender |-> d, protege |-> q]
Castle(side)  == [kind |-> "castle", side |-> side]
Cancel(rho)   == [kind |-> "cancel", reservation |-> rho]
NoPromotion   == "none"

is_displacement(a) == a.kind \in {"move", "castle"}
castle_of(s, c, a) == castle_move(s.board, s.rights, c, a.side)
king_token(s, c)   == {t \in live(s.board) : t.color = c /\ t.typ = "k"}

actors_of(s, c, a) ==
  CASE a.kind = "move"    -> {a.token}
    [] a.kind = "reserve" -> {a.defender}
    [] a.kind = "cancel"  -> {}
    [] a.kind = "castle"  ->
         IF castle_of(s, c, a) = {} THEN king_token(s, c)
         ELSE UNION {{m.king, m.rook} : m \in castle_of(s, c, a)}

-----------------------------------------------------------------------------
(***************************************************************************)
(* The displacements an action list expands to: a castle contributes its   *)
(* king and its rook, and the declared index counts displacements.         *)
(***************************************************************************)
DeclaredMove(t, tau, c) == [token |-> t, trajectory |-> tau, color |-> c]

displacements(s, c, a) ==
  CASE a.kind = "move" -> <<DeclaredMove(a.token, a.trajectory, c)>>
    [] a.kind = "castle" /\ castle_of(s, c, a) # {} ->
         LET m == CHOOSE x \in castle_of(s, c, a) : TRUE
         IN  <<DeclaredMove(m.king, m.king_trajectory, c),
               DeclaredMove(m.rook, m.rook_trajectory, c)>>
    [] OTHER -> <<>>

expand_program(s, c, prog) ==
  LET flat == FlattenSeq([i \in DOMAIN prog |-> displacements(s, c, prog[i])])
  IN  [i \in DOMAIN flat |->
         [token |-> flat[i].token, trajectory |-> flat[i].trajectory,
          color |-> c, index |-> i]]

-----------------------------------------------------------------------------
can_displace(s, c) ==
  \/ \E t \in live(s.board) \ s.cooldown :
        t.color = c /\ pseudo_legal_trajectories(s.board, t) # {}
  \/ \E side \in Sides : castle_move(s.board, s.rights, c, side) # {}

has_any_legal_displacement(s, c) == can_displace(s, c)

can_reserve(s, d, q, target) ==
  capturing_pattern_at(d.typ, d.color, s.board[d], target, occupied(s.board))

has_any_legal_program(s, c) ==
  \/ can_displace(s, c)
  \/ CancellationEnabled /\ s.res[c] # <<>>
  \/ \E d \in live(s.board) \ s.cooldown, q \in live(s.board) :
        /\ d.color = c /\ q.color = c /\ d # q
        /\ can_reserve(s, d, q, s.board[q])

-----------------------------------------------------------------------------
L1_budget(prog) == Len(prog) \in 1..N

L2_mandatory_displacement(s, c, prog) ==
  \/ \E i \in DOMAIN prog : is_displacement(prog[i])
  \/ ~ has_any_legal_displacement(s, c)

L3_distinct_actors(s, c, prog) ==
  \A i, j \in DOMAIN prog : i # j =>
     {t.id : t \in actors_of(s, c, prog[i])}
       \cap {t.id : t \in actors_of(s, c, prog[j])} = {}

\* Fault: only the first action's actors are compared with the cooldown set.
L4_first_action(s, c, prog) ==
  prog # <<>> => actors_of(s, c, prog[1]) \cap s.cooldown = {}

L4_cooldown_respected(s, c, prog) ==
  \A i \in DOMAIN prog : actors_of(s, c, prog[i]) \cap s.cooldown = {}

L5_own_consistency(s, c, prog) ==
  LET own    == expand_program(s, c, prog)
      moving == {own[i].token.id : i \in DOMAIN own}
  IN  /\ \A i, j \in DOMAIN own :
            i < j => ~ conflicts(own[i].trajectory, own[j].trajectory)
      /\ \A i \in DOMAIN own :
            \A t \in occupants(s.board, destination(own[i].trajectory)) :
               t.color = c => t.id \in moving

reaches_last_rank(a) ==
  a.token.typ = "p" /\ destination(a.trajectory)[2] = LastRank(a.token.color)

(***************************************************************************)
(* A protege that moves in the same program is defended where it arrives.  *)
(***************************************************************************)
reserve_target(s, prog, q) ==
  LET moves == {i \in DOMAIN prog : prog[i].kind = "move" /\ prog[i].token = q}
  IN  IF moves = {} THEN s.board[q]
      ELSE destination(prog[Min(moves)].trajectory)

geometrically_legal(s, c, prog, a) ==
  CASE a.kind = "move" ->
         /\ a.trajectory \in pseudo_legal_trajectories(s.board, a.token)
         /\ a.promotion \in (IF reaches_last_rank(a) THEN Promotable
                             ELSE {NoPromotion})
    [] a.kind = "reserve" ->
         /\ {a.defender, a.protege} \subseteq live(s.board)
         /\ can_reserve(s, a.defender, a.protege, reserve_target(s, prog, a.protege))
    [] a.kind = "castle" -> castle_of(s, c, a) # {}
    [] a.kind = "cancel" -> a.reservation \in ToSet(s.res[c])

L6_geometric_legality(s, c, prog) ==
  \A i \in DOMAIN prog : geometrically_legal(s, c, prog, prog[i])

\* The clauses that a program under construction must satisfy already.
check_partial_program(s, c, prog) ==
  /\ L3_distinct_actors(s, c, prog)
  /\ L6_geometric_legality(s, c, prog)
  /\ L4_cooldown_respected(s, c, prog)
  /\ L5_own_consistency(s, c, prog)

is_legal_program(s, c, prog) ==
  /\ L1_budget(prog)
  /\ check_partial_program(s, c, prog)
  /\ L2_mandatory_displacement(s, c, prog)

-----------------------------------------------------------------------------
(***************************************************************************)
(* Every action a player could name on this state: any trajectory of any   *)
(* of its tokens, any pair of its tokens as a reservation (the protege on  *)
(* its square or where it may arrive), both castles, any cancellation.     *)
(***************************************************************************)
own_tokens(s, c) == {t \in live(s.board) : t.color = c}

move_actions(s, t) ==
  UNION {{Move(t, tau, p) :
            p \in IF t.typ = "p" /\ destination(tau)[2] = LastRank(t.color)
                  THEN Promotable ELSE {NoPromotion}} :
           tau \in pseudo_legal_trajectories(s.board, t)}

actions(s, c) ==
  (UNION {move_actions(s, t) : t \in own_tokens(s, c)})
    \cup {Reserve(x[1], x[2]) : x \in {y \in own_tokens(s, c) \X own_tokens(s, c) :
                                        y[1] # y[2]}}
    \cup {Castle(side) : side \in Sides}
    \cup {Cancel(rho) : rho \in ToSet(s.res[c])}
=============================================================================
