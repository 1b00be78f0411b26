------------------------------- MODULE Mirror -------------------------------
(***************************************************************************)
(* The colour-swap involution of core/collision.py: ranks are reflected,   *)
(* files kept, and the two players exchange colours.                       *)
(*                                                                         *)
(* mirror_token makes a new Token each time it is called, so that board    *)
(* and reservations of a mirrored state hold equal tokens that are not one *)
(* object, as those of a match are.  phi_of_copies is phi of such a state. *)
(***************************************************************************)
EXTENDS Phi

mirror_square(q) == <<q[1], MaxRank - q[2]>>
mirror_token(t)  == [t EXCEPT !.color = opponent(@)]
mirror_trajectory(tau) ==
  [tau EXCEPT !.path = [i \in DOMAIN @ |-> mirror_square(@[i])]]
mirror_reservation(rho) ==
  [rho EXCEPT !.defender = mirror_token(@), !.protege = mirror_token(@)]

mirror_action(a) ==
  CASE a.kind = "move"    -> Move(mirror_token(a.token), mirror_trajectory(a.trajectory),
                                  a.promotion)
    [] a.kind = "reserve" -> Reserve(mirror_token(a.defender), mirror_token(a.protege))
    [] a.kind = "cancel"  -> Cancel(mirror_reservation(a.reservation))
    [] a.kind = "castle"  -> a

mirror_program(prog) == [i \in DOMAIN prog |-> mirror_action(prog[i])]

mirror_board(board) ==
  [t \in {mirror_token(u) : u \in live(board)} |-> mirror_square(board[mirror_token(t)])]

\* Ledger, progress counter and phase index pass through unchanged.
mirror_state(s) ==
  [s EXCEPT !.board    = mirror_board(@),
            !.cooldown = {mirror_token(t) : t \in @},
            !.res      = [c \in Color |-> [i \in DOMAIN @[opponent(c)] |->
                                             mirror_reservation(@[opponent(c)][i])]],
            !.rights   = {<<opponent(x[1]), x[2]>> : x \in @}]

(***************************************************************************)
(* The tokens of a match are shared: to be equal is to be one object.  Of  *)
(* copied tokens phi can tell the difference in one place, where           *)
(* mutual_cycle_blacklist asks whether a protege `is` the victim: of a     *)
(* copy it finds no mutual defence, and silences nothing.                  *)
(***************************************************************************)
copied(ctx) == [ctx EXCEPT !.silent = {}]

\* Under reading ii resolve_square calls itself without end when the victims of
\* some batteries defend one another and no reservation among them is silent.
never_returns(ctx) ==
  /\ IntermezzoReading = "ii"
  /\ \E ring \in SUBSET ToSet(ctx.pending) :
       /\ ring # {}
       /\ \A p \in ring : leaves_for(ctx, p, {}) \cap ring # {}

\* What phi returns for a state and programs of copied tokens: nothing if it
\* raises RecursionError.
phi_of_copies(s, white, black) ==
  LET mv == stages_F_A(s.board, expand_program(s, "W", white)
                                  \o expand_program(s, "B", black))
      in_effect == reservations_in_effect(s, new_reservations(s.phase, "W", white)
                                               \o new_reservations(s.phase, "B", black))
      ctx == copied(context(s, mv.executing, mv.survivors, in_effect))
  IN  IF never_returns(ctx) THEN {}
      ELSE {stages_C_D(s, white \o black, mv, in_effect, resolve_defense(ctx))}

mirrored_outcome(o) ==
  CASE o = "white_wins" -> "black_wins"
    [] o = "black_wins" -> "white_wins"
    [] OTHER            -> o
=============================================================================
