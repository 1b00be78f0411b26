------------------------------ MODULE Closure -------------------------------
(***************************************************************************)
(* Stages C and D (core/stages/closure.py): promotion, cooldown, castling  *)
(* rights, reservations, repetition, progress and the terminal test.       *)
(* Stage B's result is a record db with fields occupancy, captured, fired. *)
(***************************************************************************)
EXTENDS Resolution

\* A choice is a pair <<token id, type>>.
promoted(t, choices) ==
  IF \E x \in choices : x[1] = t.id
  THEN [t EXCEPT !.typ = (CHOOSE x \in choices : x[1] = t.id)[2]]
  ELSE t

\* The final board: the occupancy turned around, promotions applied.
apply_promotions(occupancy, choices) ==
  [t \in {promoted(occupancy[q], choices) : q \in DOMAIN occupancy} |->
     CHOOSE q \in DOMAIN occupancy : promoted(occupancy[q], choices) = t]

captured_tokens(db) == {x[1] : x \in ToSet(db.captured)}
captured_ids(db)    == {t.id : t \in captured_tokens(db)}
recapturer_ids(db)  == {f.defender.id : f \in ToSet(db.fired)}

\* Fault: a recapture does not count as a displacement.
movers_only(survivors, db) == token_ids(survivors) \ captured_ids(db)

displaced_ids(survivors, db) ==
  (token_ids(survivors) \ captured_ids(db)) \cup recapturer_ids(db)
compute_displaced_tokens(survivors, db, board) ==
  {t \in live(board) : t.id \in displaced_ids(survivors, db)}

(***************************************************************************)
(* The kings that captured, by their own move or by firing.                *)
(***************************************************************************)
king_capture_candidates(board, survivors, db) ==
  {m.token.id : m \in {x \in ToSet(survivors) :
      /\ x.token.typ = "k"
      /\ occupants(board, destination(x.trajectory)) \cap captured_tokens(db) # {}}}
  \cup {f.defender.id : f \in {x \in ToSet(db.fired) : x.defender.typ = "k"}}

\* Fault: pawns cool like any other piece.
cool_pawns_too(displaced, recapturers, candidates, board) ==
  {t \in displaced : t.typ # "k" \/ t.id \in candidates}

compute_cooldown(displaced, recapturers, candidates, board) ==
  LET eligible == {t \in displaced : RecaptureCooldown \/ t.id \notin recapturers}
      others   == {t \in eligible : t.typ \notin {"p", "k"}}
      kings    == {t \in live(board) : t.typ = "k" /\ t.id \in candidates}
      spare(k) == {t \in live(board) : t.color = k.color} \ (others \cup {k}) # {}
  IN  others \cup {k \in kings : spare(k)}

\* Fault: the safety valve is left out.
never_relaxed(s) == s.cooldown

\* A cooled king whose colour would have no program at all is let go again.
relax_king_cooldown_if_stranding(s) ==
  s.cooldown \ {t \in s.cooldown : t.typ = "k" /\ ~ has_any_legal_program(s, t.color)}

\* Fault: a right is lost with its rook's move only.
rook_moves_only(rights, board, displaced) ==
  {x \in rights : \A t \in occupants(board, RookHome(x[1], x[2])) : t.id \notin displaced}

update_castling_rights(rights, board, displaced) ==
  LET moved(square) == \E t \in occupants(board, square) : t.id \in displaced
  IN  {x \in rights : ~ moved(KingHome(x[1])) /\ ~ moved(RookHome(x[1], x[2]))}

(***************************************************************************)
(* The reservations that stand after the phase, then re-pointed at the     *)
(* current snapshots of their tokens.                                      *)
(***************************************************************************)
\* Fault: a reservation outlives its protege.
dead_protege_kept(res, phase, displaced, dead, cancelled) ==
  only(res, {rho \in ToSet(res) \ cancelled : /\ rho.defender.id \notin dead \cup displaced
                                            /\ rho.protege.id \notin displaced})

\* Fault: a reservation follows a protege that moves on.
moved_protege_kept(res, phase, displaced, dead, cancelled) ==
  only(res, {rho \in ToSet(res) \ cancelled : /\ rho.defender.id \notin dead \cup displaced
                                            /\ rho.protege.id \notin dead})

update_reservations(res, phase, displaced, dead, cancelled) ==
  only(res, {rho \in ToSet(res) :
    /\ ~ (CancellationEnabled /\ rho \in cancelled)
    /\ rho.defender.id \notin dead \cup displaced
    /\ rho.protege.id \notin dead
    /\ rho.age[1] # phase => rho.protege.id \notin displaced})

refresh_reservation_tokens(res, board) ==
  LET current(t) == IF \E u \in live(board) : u.id = t.id
                    THEN CHOOSE u \in live(board) : u.id = t.id ELSE t
  IN  [i \in DOMAIN res |-> [res[i] EXCEPT !.defender = current(@),
                                           !.protege  = current(@)]]

\* Fault: the counter is reset but never advanced.
never_counted(nu, any_capture, any_pawn_displacement) == 0

update_no_progress_counter(nu, any_capture, any_pawn_displacement) ==
  IF any_capture \/ any_pawn_displacement THEN 0 ELSE nu + 1

\* The public position: who stands where and is cooled, identities left out.
public_position_key(board, cooldown) ==
  {<<board[t], t.color, t.typ, t \in cooldown>> : t \in live(board)}

count(ledger, key) == IF key \in DOMAIN ledger THEN ledger[key] ELSE 0
update_repetition_ledger(ledger, key) ==
  [k \in DOMAIN ledger \cup {key} |-> count(ledger, k) + (IF k = key THEN 1 ELSE 0)]

has_king(board, c) == \E t \in live(board) : t.typ = "k" /\ t.color = c

detect_terminal(board) ==
  CASE ~ has_king(board, "W") /\ ~ has_king(board, "B") -> "draw"
    [] ~ has_king(board, "W") /\ has_king(board, "B")   -> "black_wins"
    [] has_king(board, "W") /\ ~ has_king(board, "B")   -> "white_wins"
    [] OTHER -> "ongoing"
=============================================================================
