----------------------------- MODULE Invariants -----------------------------
(***************************************************************************)
(* The invariant harness (invariants/checks.py, resolution_checks.py and   *)
(* harness.py): the code's own runtime statement of the rules, checked     *)
(* around every call of phi.  A check is modelled as the condition under   *)
(* which its list of violations is empty; pre and post are the states      *)
(* around the phase, tr the trace of phi.                                  *)
(***************************************************************************)
EXTENDS Phi

-----------------------------------------------------------------------------
(***************************************************************************)
(* Well-formed states, WF1-WF7.                                            *)
(***************************************************************************)
check_wf1_occupancy_injectivity(s) ==
  \A t, u \in live(s.board) : s.board[t] = s.board[u] => t = u

check_wf2_domain(s) == \A t \in live(s.board) : t.typ \in PieceType

check_wf2_type_constancy(pre, post, promoted_ids) ==
  \A t \in live(pre.board), u \in live(post.board) : t.id = u.id =>
    /\ u.color = t.color
    /\ u.typ # t.typ => t.id \in promoted_ids

check_wf3_cooldown_membership(s) ==
  /\ \A t \in s.cooldown : /\ t \in live(s.board) /\ t.typ # "p"
                           /\ t.typ = "k" => KingCaptureCooldown
  /\ \A c \in Color : has_king(s.board, c) => ~ own_tokens(s, c) \subseteq s.cooldown

check_wf4_king_count(s, allow_terminal) ==
  \A c \in Color :
    LET kings == Cardinality(king_token(s, c))
    IN  kings <= 1 /\ (kings = 0 => allow_terminal)

check_wf5_reservation_order(s) ==
  /\ \A c \in Color : \A i \in 1..(Len(s.res[c]) - 1) :
       is_older(s.res[c][i].age, s.res[c][i + 1].age)
  /\ {r.age : r \in ToSet(s.res["W"])} \cap {r.age : r \in ToSet(s.res["B"])} = {}

check_wf6_reservation_referential_integrity(s) ==
  \A c \in Color : \A r \in ToSet(s.res[c]) :
    /\ {r.defender, r.protege} \subseteq own_tokens(s, c)
    /\ r.defender # r.protege

check_wf7_bookkeeping_ranges(s) == s.nu \in 0..Horizon /\ s.phase >= 0

check_wf7_bookkeeping_monotone(pre, post) ==
  post.rights \subseteq pre.rights /\ post.phase = pre.phase + 1

check_all_state(s, allow_terminal) ==
  /\ check_wf1_occupancy_injectivity(s)
  /\ check_wf2_domain(s)
  /\ check_wf3_cooldown_membership(s)
  /\ check_wf4_king_count(s, allow_terminal)
  /\ check_wf5_reservation_order(s)
  /\ check_wf6_reservation_referential_integrity(s)
  /\ check_wf7_bookkeeping_ranges(s)

-----------------------------------------------------------------------------
(***************************************************************************)
(* The trace of a phase, R1-R18.  A mover is looked up by its identity, a  *)
(* square by the board before the phase.                                   *)
(***************************************************************************)
executing_ids(tr)  == token_ids(tr.executing)
defender_ids(tr)   == {f.defender.id : f \in ToSet(tr.fired)}
fizzled_by(tr, cause) == {o.move : o \in {x \in tr.fizzled : x.cause = cause}}

check_r1_fizzle_f1(pre, tr) ==
  \A m \in fizzled_by(tr, "F1") :
    \E t \in occupants(pre.board, destination(m.trajectory)) : t.id \in executing_ids(tr)

check_r2_fizzle_f2(tr) ==
  \A m \in fizzled_by(tr, "F2") :
    LET movers == {x \in fizzled_by(tr, "F2") :
                     destination(x.trajectory) = destination(m.trajectory)}
    IN  /\ {x.color : x \in movers} = Color
        /\ FizzleScope = "both_pawns" => \A x \in movers : x.token.typ = "p"

check_r3_edge_conflict(tr) ==
  \A e \in tr.events : conflicts(e[1].trajectory, e[2].trajectory)

check_r4_annihilation_matching(tr) ==
  annihilated_in(resolve_annihilation(tr.executing)) = tr.annihilated

check_r5_one_survivor_per_destination(tr) ==
  \A m, x \in tr.survivors : destination(m.trajectory) = destination(x.trajectory) => m = x

check_r6_vacated_square(pre, tr) ==
  \A x \in ToSet(tr.captured), t \in live(pre.board) :
    x[1].id = t.id /\ t.id \in executing_ids(tr) => x[2] # pre.board[t]

check_r7_intermezzo_precedence(pre, tr) ==
  \A x \in ToSet(tr.captured), t \in live(pre.board) :
    x[1].id = t.id /\ t.id \in defender_ids(tr) => x[2] # pre.board[t]

check_r9_defender_fires_once(tr) ==
  \A i, j \in DOMAIN tr.fired :
    tr.fired[i].defender.id = tr.fired[j].defender.id => i = j

check_r10_mover_as_defender_forbidden(tr) == defender_ids(tr) \cap executing_ids(tr) = {}

check_r12_cascade_termination(pre, tr) == Len(tr.captured) < Cardinality(live(pre.board))

\* The harness derives the capturing kings again, without asking closure.py.
king_candidates(pre, tr) ==
  IF ~ KingCaptureCooldown THEN {} ELSE
  {m.token.id : m \in {x \in tr.survivors :
     x.token.typ = "k" /\ \E y \in ToSet(tr.captured) :
       y[1] \in occupants(pre.board, destination(x.trajectory))}}
  \cup {f.defender.id : f \in {g \in ToSet(tr.fired) : g.defender.typ = "k"}}

check_r13_cooldown(pre, post, tr) ==
  LET kings == {k \in live(post.board) : k.typ = "k"}
      could_act(k) == has_any_legal_program([post EXCEPT !.cooldown = @ \cup {k}], k.color)
  IN  /\ \A t \in post.cooldown : t.typ # "p"
      /\ \A t \in post.cooldown \ kings, u \in live(pre.board) :
           t.id = u.id /\ t \in live(post.board) => post.board[t] # pre.board[u]
      /\ \A k \in kings :
           IF k \in post.cooldown
           THEN k.id \in king_candidates(pre, tr) /\ could_act(k)
           ELSE k.id \in king_candidates(pre, tr) => ~ could_act(k)

check_r14_promotion(pre, post, tr) ==
  \A t \in live(pre.board), u \in live(post.board) :
    t.id = u.id /\ t.id \in tr.promoted => t.typ # u.typ /\ u \in post.cooldown

check_r16_fizzled_inertness(pre, post, tr) ==
  \A o \in tr.fizzled : o.move.token.id \notin defender_ids(tr) =>
    /\ \A t \in live(pre.board), u \in live(post.board) :
         t.id = u.id /\ t.id = o.move.token.id => post.board[u] = pre.board[t]
    /\ o.move.token.id \notin {t.id : t \in post.cooldown}

check_r17_cancellation(post, tr) ==
  tr.cancelled \cap (ToSet(post.res["W"]) \cup ToSet(post.res["B"])) = {}

check_r18_token_conservation(pre, post) ==
  {t.id : t \in live(post.board)} \subseteq {t.id : t \in live(pre.board)}

-----------------------------------------------------------------------------
(***************************************************************************)
(* How the outcome follows from the closing state, T1-T4.                  *)
(***************************************************************************)
check_t1_terminal(post, outcome) ==
  detect_terminal(post.board) \in {"ongoing", outcome}

check_t3_repetition(post, outcome) ==
  /\ detect_terminal(post.board) = "ongoing"
  /\ count(post.ledger, public_position_key(post.board, post.cooldown)) >= 3
  => outcome = "draw"

check_t4_no_progress(post, outcome) ==
  detect_terminal(post.board) = "ongoing" /\ post.nu >= Horizon => outcome = "draw"

check_all_trace(pre, post, tr, outcome) ==
  /\ check_r1_fizzle_f1(pre, tr)
  /\ check_r2_fizzle_f2(tr)
  /\ check_r3_edge_conflict(tr)
  /\ check_r4_annihilation_matching(tr)
  /\ check_r5_one_survivor_per_destination(tr)
  /\ check_r6_vacated_square(pre, tr)
  /\ check_r7_intermezzo_precedence(pre, tr)
  /\ check_r9_defender_fires_once(tr)
  /\ check_r10_mover_as_defender_forbidden(tr)
  /\ check_r12_cascade_termination(pre, tr)
  /\ check_r13_cooldown(pre, post, tr)
  /\ check_r14_promotion(pre, post, tr)
  /\ check_r16_fizzled_inertness(pre, post, tr)
  /\ check_r17_cancellation(post, tr)
  /\ check_r18_token_conservation(pre, post)
  /\ check_t1_terminal(post, outcome)
  /\ check_t3_repetition(post, outcome)
  /\ check_t4_no_progress(post, outcome)

\* run_phase in strict mode returns, on the programs and the result of a phase.
run_phase_returns(pre, white, black, post, tr, outcome) ==
  /\ is_legal_program(pre, "W", white) /\ is_legal_program(pre, "B", black)
  /\ check_all_state(pre, FALSE)
  /\ check_all_state(post, outcome # "ongoing")
  /\ check_wf2_type_constancy(pre, post, tr.promoted)
  /\ check_wf7_bookkeeping_monotone(pre, post)
  /\ check_all_trace(pre, post, tr, outcome)
=============================================================================
