------------------------------- MODULE Record -------------------------------
(***************************************************************************)
(* How programs are written down and read back: the notation of            *)
(* ui/notation.py, the wire form of net/protocol.py, the phase lines of    *)
(* referee/record.py, and the reason attributed to a finished match.       *)
(*                                                                         *)
(* A clause of the notation is a record of the squares and letters it      *)
(* spells; "p" stands for the missing letter of a pawn.  Reading yields    *)
(* the set of what the text means: empty when it raises NotationError or   *)
(* ProtocolError, else a singleton.                                        *)
(***************************************************************************)
EXTENDS Phi

spells(letter, t) == letter \in {"p", t.typ}
index_of(s, c, rho) == Min({i \in DOMAIN s.res[c] : s.res[c][i] = rho})
reservation_at(s, c, i) == {s.res[c][k] : k \in DOMAIN s.res[c] \cap {i}}
own_occupants(s, c, square) == {t \in occupants(s.board, square) : t.color = c}

\* Fault: a reservation is written with its two squares exchanged.
defender_first(s, a) ==
  [kind |-> "reserve", square |-> s.board[a.defender],
   letter |-> a.protege.typ, from |-> s.board[a.protege]]

\* Written "<protege square> def <piece><defender square>".
reserve_text(s, a) ==
  [kind |-> "reserve", square |-> s.board[a.protege],
   letter |-> a.defender.typ, from |-> s.board[a.defender]]

format_action(s, c, a) ==
  CASE a.kind = "move" ->
         [kind |-> "move", letter |-> a.token.typ, from |-> {origin(a.trajectory)},
          to |-> destination(a.trajectory), promotion |-> a.promotion]
    [] a.kind = "reserve" -> reserve_text(s, a)
    [] a.kind = "cancel"  -> [kind |-> "cancel", index |-> index_of(s, c, a.reservation)]
    [] a.kind = "castle"  -> a

format_program(s, c, prog) == [i \in DOMAIN prog |-> format_action(s, c, prog[i])]

-----------------------------------------------------------------------------
(***************************************************************************)
(* Reading.  The short form names the one piece of its letter that reaches *)
(* the square.                                                             *)
(***************************************************************************)
trajectories_to(s, t, square) ==
  {tau \in pseudo_legal_trajectories(s.board, t) : destination(tau) = square}

mover_named(s, c, clause) ==
  LET reaching == {t \in own_tokens(s, c) : /\ t.typ = clause.letter
                                            /\ trajectories_to(s, t, clause.to) # {}}
  IN  IF clause.from = {}
      THEN {t \in reaching : reaching = {t}}
      ELSE {t \in own_tokens(s, c) : s.board[t] \in clause.from /\ spells(clause.letter, t)}

parse_move(s, c, clause) ==
  UNION {{Move(t, tau, clause.promotion) : tau \in trajectories_to(s, t, clause.to)} :
           t \in mover_named(s, c, clause)}

\* What the clauses that displace bring to a square, the last one winning.
arrivals(s, c, clause, square) ==
  CASE clause.kind = "move" ->
         {a.token : a \in {x \in parse_move(s, c, clause) :
                             destination(x.trajectory) = square}}
    [] clause.kind = "castle" ->
         UNION {{x[1] : x \in {y \in {<<m.king, m.king_trajectory>>,
                                      <<m.rook, m.rook_trajectory>>} :
                                 destination(y[2]) = square}} :
                  m \in castle_of(s, c, clause)}
    [] OTHER -> {}

protege_named(s, c, text, square) ==
  LET moving_in == {i \in DOMAIN text : arrivals(s, c, text[i], square) # {}}
  IN  IF moving_in = {} THEN own_occupants(s, c, square)
      ELSE arrivals(s, c, text[Max(moving_in)], square)

parse_reserve(s, c, text, clause) ==
  {Reserve(x[1], x[2]) : x \in
     {d \in own_occupants(s, c, clause.from) : spells(clause.letter, d)}
       \X protege_named(s, c, text, clause.square)}

parse_cancel(s, c, clause) == {Cancel(rho) : rho \in reservation_at(s, c, clause.index)}

parse_clause(s, c, text, clause) ==
  CASE clause.kind = "move"    -> parse_move(s, c, clause)
    [] clause.kind = "reserve" -> parse_reserve(s, c, text, clause)
    [] clause.kind = "cancel"  -> parse_cancel(s, c, clause)
    [] clause.kind = "castle"  -> {clause}

parse_program(s, c, text) ==
  LET means == [i \in DOMAIN text |-> parse_clause(s, c, text, text[i])]
  IN  IF \E i \in DOMAIN text : means[i] = {} THEN {}
      ELSE {[i \in DOMAIN text |-> CHOOSE a \in means[i] : TRUE]}

-----------------------------------------------------------------------------
(***************************************************************************)
(* The wire: identities instead of snapshots, resolved on arrival against  *)
(* the receiver's own state.                                               *)
(***************************************************************************)
serialize_action(s, c, a) ==
  CASE a.kind = "move"    -> [kind |-> "move", token_id |-> a.token.id,
                              trajectory |-> a.trajectory, promotion |-> a.promotion]
    [] a.kind = "reserve" -> [kind |-> "reserve", defender_id |-> a.defender.id,
                              protege_id |-> a.protege.id]
    [] a.kind = "cancel"  -> [kind |-> "cancel", index |-> index_of(s, c, a.reservation)]
    [] a.kind = "castle"  -> a

token_by_id(s, i) == {t \in live(s.board) : t.id = i}

deserialize_action(s, c, data) ==
  CASE data.kind = "move" ->
         {Move(t, data.trajectory, data.promotion) : t \in token_by_id(s, data.token_id)}
    [] data.kind = "reserve" ->
         {Reserve(x[1], x[2]) : x \in token_by_id(s, data.defender_id)
                                       \X token_by_id(s, data.protege_id)}
    [] data.kind = "cancel" -> {Cancel(rho) : rho \in reservation_at(s, c, data.index)}
    [] data.kind = "castle" -> {data}

-----------------------------------------------------------------------------
(***************************************************************************)
(* Records of games.  A game is [initial, phases, outcome, reason], each   *)
(* phase [white, black, outcome]; its text names the initial state and     *)
(* has a line of notation for each phase.                                  *)
(***************************************************************************)
repeated(s) == count(s.ledger, public_position_key(s.board, s.cooldown)) >= 3

normalize_outcome_and_reason(s, raw) ==
  CASE raw \in {"white_wins", "black_wins"} -> <<raw, "regicide">>
    [] raw = "draw" -> <<"draw", IF detect_terminal(s.board) = "draw" THEN "regicide"
                                 ELSE IF repeated(s) THEN "repetition"
                                 ELSE "no_progress">>
    [] OTHER -> <<"draw", "phase_limit">>

build_record(initial, phases, final, raw) ==
  LET attributed == normalize_outcome_and_reason(final, raw)
  IN  [initial |-> initial, phases |-> phases,
       outcome |-> attributed[1], reason |-> attributed[2]]

phase_line(s, p) ==
  [white |-> format_program(s, "W", p.white), black |-> format_program(s, "B", p.black),
   outcome |-> p.outcome]

\* Each program is written against the state before it, derived through phi.
write_record(game) ==
  LET write(sofar, p) == [lines |-> Append(sofar.lines, phase_line(sofar.state, p)),
                          state |-> phi(sofar.state, p.white, p.black).state]
      written == FoldLeft(write, [lines |-> <<>>, state |-> game.initial], game.phases)
  IN  [game EXCEPT !.phases = written.lines]

\* What the line of a phase means in s and where it leads; refused if a program
\* cannot be read or phi disagrees with the outcome.
replay_phase_line(s, line) ==
  LET meant    == parse_program(s, "W", line.white) \X parse_program(s, "B", line.black)
      resolved == {[programs |-> x, to |-> phi(s, x[1], x[2])] : x \in meant}
  IN  {[phase |-> [white |-> r.programs[1], black |-> r.programs[2], outcome |-> line.outcome],
        state |-> r.to.state] : r \in {y \in resolved : y.to.outcome = line.outcome}}

read_record(text) ==
  LET read(sofar, line) ==
        UNION {{[phases |-> Append(x.phases, r.phase), state |-> r.state] :
                  r \in replay_phase_line(x.state, line)} : x \in sofar}
      replayed == FoldLeft(read, {[phases |-> <<>>, state |-> text.initial]}, text.phases)
  IN  {[game |-> [text EXCEPT !.phases = x.phases], final |-> x.state] : x \in replayed}
=============================================================================
