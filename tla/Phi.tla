-------------------------------- MODULE Phi ---------------------------------
(***************************************************************************)
(* The transition operator of core/phi.py: the stages in their order, from *)
(* a state and the two players' legal programs to the next state, the      *)
(* outcome, and what the phase's trace records of its events.              *)
(***************************************************************************)
EXTENDS Closure

BlackAgeOffset == 1000000
age_offset(c)  == IF c = "W" THEN 0 ELSE BlackAgeOffset

\* The reservations a program declares; the age counts actions from zero.
new_reservations(phase, c, prog) ==
  FlattenSeq([i \in DOMAIN prog |->
    IF prog[i].kind = "reserve"
    THEN << [defender |-> prog[i].defender, protege |-> prog[i].protege,
             age |-> <<phase, age_offset(c) + i - 1>>] >>
    ELSE <<>>])

promotion_choices(progs, executed) ==
  {<<a.token.id, a.promotion>> : a \in
     {x \in ToSet(progs) : /\ x.kind = "move" /\ x.promotion # NoPromotion
                           /\ x.token.id \in executed}}

cancellations(progs) ==
  {a.reservation : a \in {x \in ToSet(progs) : x.kind = "cancel"}}

(***************************************************************************)
(* Stages F and A: what the declared moves come to.                        *)
(***************************************************************************)
execution(declared, fizzled) ==
  [fizzled |-> {[move |-> m, cause |-> IF m \in resolve_f2(declared) THEN "F2" ELSE "F1"] :
                  m \in fizzled},
   executing |-> only(declared, ToSet(declared) \ fizzled)]

collision(f, events) ==
  [fizzled |-> f.fizzled, executing |-> f.executing, events |-> events,
   annihilated |-> annihilated_in(events),
   survivors |-> only(f.executing, ToSet(f.executing) \ annihilated_in(events))]

stages_F_A(board, declared) ==
  LET f == execution(declared, resolve_fizzles(board, declared))
  IN  collision(f, resolve_annihilation(f.executing))

\* White's reservations in effect, then Black's, those of this phase last.
reservations_in_effect(s, fresh) ==
  LET of(c) == s.res[c] \o only(fresh, {rho \in ToSet(fresh) : rho.defender.color = c})
  IN  of("W") \o of("B")

(***************************************************************************)
(* Stages C and D, from the moves mv, the reservations in effect and stage *)
(* B's result db.                                                          *)
(***************************************************************************)
stages_C_D(s, progs, mv, in_effect, db) ==
  LET choices   == promotion_choices(progs, token_ids(mv.survivors))
      board     == apply_promotions(db.occupancy, choices)
      displaced == compute_displaced_tokens(mv.survivors, db, board)
      moved     == {t.id : t \in displaced}
      dead      == captured_ids(db) \cup {m.token.id : m \in mv.annihilated}
      kept      == refresh_reservation_tokens(
                     update_reservations(in_effect, s.phase, moved, dead,
                                         cancellations(progs)), board)
      res       == [c \in Color |-> only(kept, {rho \in ToSet(kept) : rho.defender.color = c})]
      rights    == update_castling_rights(s.rights, s.board, moved)
      kings     == IF KingCaptureCooldown
                   THEN king_capture_candidates(s.board, mv.survivors, db) ELSE {}
      cooled    == compute_cooldown(displaced, recapturer_ids(db), kings, board)
      after     == [board |-> board, cooldown |-> cooled, res |-> res,
                    rights |-> rights, ledger |-> s.ledger, nu |-> s.nu,
                    phase |-> s.phase + 1]
      cooldown  == IF kings = {} THEN cooled ELSE relax_king_cooldown_if_stranding(after)
      pawn_moved == \E m \in ToSet(mv.survivors) :
                      m.token.typ = "p" /\ m.token.id \notin captured_ids(db)
      nu        == update_no_progress_counter(s.nu, dead # {}, pawn_moved)
      key       == public_position_key(board, cooldown)
      ledger    == update_repetition_ledger(s.ledger, key)
      kings_say == detect_terminal(board)
      outcome   == IF kings_say = "ongoing" /\ (ledger[key] >= 3 \/ nu >= Horizon)
                   THEN "draw" ELSE kings_say
  IN  [state   |-> [after EXCEPT !.cooldown = cooldown, !.ledger = ledger, !.nu = nu],
       outcome |-> outcome,
       trace   |-> [fizzled |-> mv.fizzled, executing |-> mv.executing,
                    events |-> mv.events, annihilated |-> mv.annihilated,
                    survivors |-> ToSet(mv.survivors),
                    captured |-> db.captured, fired |-> db.fired,
                    promoted |-> {x[1] : x \in choices},
                    cancelled |-> cancellations(progs)]]

phi(s, white, black) ==
  LET mv == stages_F_A(s.board, expand_program(s, "W", white)
                                  \o expand_program(s, "B", black))
      in_effect == reservations_in_effect(s, new_reservations(s.phase, "W", white)
                                               \o new_reservations(s.phase, "B", black))
      db == resolve_defense(context(s, mv.executing, mv.survivors, in_effect))
  IN  stages_C_D(s, white \o black, mv, in_effect, db)

-----------------------------------------------------------------------------
(***************************************************************************)
(* The states between two phases (INVARIANTS.md, WF1 to WF7).              *)
(***************************************************************************)
is_older(a, b) == a[1] < b[1] \/ (a[1] = b[1] /\ a[2] < b[2])

\* A colour's reservations between two phases: each names two distinct live
\* tokens of its colour by their current snapshots, its defender is free to
\* fire, it was declared in an earlier phase, and the oldest comes first.
Standing(s, c) ==
  LET R == s.res[c]
  IN  /\ R \in Seq([defender : own_tokens(s, c), protege : own_tokens(s, c), age : Nat \X Nat])
      /\ \A i \in DOMAIN R : /\ R[i].defender # R[i].protege
                            /\ R[i].defender \notin s.cooldown
                            /\ R[i].age[1] < s.phase
      /\ \A i, j \in DOMAIN R : i < j => is_older(R[i].age, R[j].age)

\* A colour that may still castle has its king at home and free to move.
KingsHome(s) ==
  \A x \in s.rights : \A k \in king_token(s, x[1]) :
    s.board[k] = KingHome(x[1]) /\ k \notin s.cooldown

\* The parts of a state fit together.
WellFormed(s) ==
  /\ SoundBoard(s.board)
  /\ s.cooldown \subseteq live(s.board)
  /\ \A c \in Color : Standing(s, c)
  /\ s.rights \subseteq Flanks /\ KingsHome(s)
  /\ s.nu \in Nat /\ s.phase \in Nat
=============================================================================
