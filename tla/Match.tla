-------------------------------- MODULE Match -------------------------------
(***************************************************************************)
(* A match as referee/match.py plays it: two agents hand in a program each *)
(* for the same state, phi resolves the pair, and the loop ends on a       *)
(* terminal outcome or when max_phases phases have been played.            *)
(*                                                                         *)
(* An agent is external: it may return any legal program whose actions     *)
(* come from Considered(s, c) and are its colour's own.                    *)
(***************************************************************************)
EXTENDS Referee, Record, Invariants, Mirror

CONSTANT
  InitialStates  \* the states a match may start from

\* A position to start from: its parts fit together, and each colour may act.
Startable(s) ==
  WellFormed(s) /\ s.nu < Horizon /\ \A c \in Color : has_any_legal_program(s, c)

ASSUME StartsAssumption == \A s \in InitialStates : Startable(s)

vars == <<state, outcome, played, last>>

Init == begins_in(InitialStates)

play_phase ==
  /\ goes_on
  /\ \E w \in legal_programs(state, "W"), b \in legal_programs(state, "B") : plays(w, b)

Next == play_phase \/ phase_limit

Spec == Init /\ [][Next]_vars

-----------------------------------------------------------------------------
\* Vocabulary of the properties.
ids(board)  == {t.id : t \in live(board)}
square_of(board, i) == board[CHOOSE t \in live(board) : t.id = i]
reservations(s)     == ToSet(s.res["W"]) \cup ToSet(s.res["B"])
trace         == last.trace
fired_ids     == {f.defender.id : f \in ToSet(trace.fired)}
captures_of(tr)  == {x[1].id : x \in ToSet(tr.captured)}
died_in(tr)      == captures_of(tr) \cup {m.token.id : m \in tr.annihilated}

-----------------------------------------------------------------------------
(***************************************************************************)
(* Safety of the states (INVARIANTS.md, WF1-WF7 and T1-T4).                *)
(***************************************************************************)
\* Types: tokens are known pieces on squares, counters are naturals.
TypeOK ==
  /\ SoundBoard(state.board)
  /\ state.cooldown \subseteq live(state.board)
  /\ state.rights \subseteq Flanks
  /\ outcome \in Outcomes
  /\ played \in 0..MaxPhases
  /\ state.nu \in 0..Horizon

\* WF6 and WF5: whatever was captured, promoted, displaced or cancelled, each
\* standing reservation names two distinct live tokens of its colour by their
\* current snapshots, its defender is free to fire, and ages strictly increase.
ReservationsStand == \A c \in Color : Standing(state, c)

\* The cooldown safety valve (closure.py): while the game goes on each colour
\* has a legal program, and has_any_legal_program knows exactly whether it has.
SomeProgram(s, c) ==
  \E p \in SeqsUpTo(actions(s, c), 1) : is_legal_program(s, c, p)
AlwaysPlayable ==
  outcome = "ongoing" =>
    \A c \in Color : SomeProgram(state, c) /\ has_any_legal_program(state, c)

\* WF7 and section 6.6: however a king came to leave its home, by a step, a
\* castle or a recapture, its colour keeps no right to castle: castle_move need
\* not look at the king's cooldown, for a king with a right is never cooled.
RightsKeepKingHome == KingsHome(state)

\* R5: the movers that survive stage A share no square of their paths and do
\* not pass through each other.
SurvivorsDoNotMeet ==
  \A m1, m2 \in trace.survivors :
    m1 # m2 => /\ ~ vertex_conflict(m1.trajectory, m2.trajectory)
               /\ ~ edge_conflict(m1.trajectory, m2.trajectory)

-----------------------------------------------------------------------------
(***************************************************************************)
(* What a phase may do to the state (action properties).                   *)
(***************************************************************************)
PhasePlayed == played' # played

\* R18 and R6: exactly the dead leave the board, no identity appears, and every
\* other token is where it stood, where its surviving move took it or where it
\* fired; a token whose move executed is never captured on its origin.
EveryTokenAccounted ==
  /\ ids(state'.board) = ids(state.board) \ died_in(trace')
  /\ died_in(trace') \subseteq ids(state.board)
  /\ \A i \in ids(state'.board) :
       LET moved == {m \in trace'.survivors : m.token.id = i}
           fired == {f \in ToSet(trace'.fired) : f.defender.id = i}
       IN  square_of(state'.board, i) \in
             CASE moved # {} -> {destination(m.trajectory) : m \in moved}
               [] fired # {} -> {f.square : f \in fired}
               [] OTHER      -> {square_of(state.board, i)}
  /\ \A x \in ToSet(trace'.captured), m \in ToSet(trace'.executing) :
       x[1] = m.token => x[2] # origin(m.trajectory)
MaterialAccounted == [][PhasePlayed => EveryTokenAccounted]_vars

\* L4 and section 7: a cooled token is inert: in the next phase it keeps its
\* square or dies, and no reservation of it fires.
CooledStaysPut ==
  \A t \in state.cooldown :
    /\ t \in live(state'.board) => state'.board[t] = state.board[t]
    /\ t.id \notin fired_ids'
CooledIsInert == [][PhasePlayed => CooledStaysPut]_vars

\* R13 and R16: after a phase the cooled pieces are exactly those that changed
\* their square in it, by a move, a castle, a promotion or, where the rules say
\* so, a recapture.  A king cools only if it came to where an enemy fell or from
\* where one fell that it had meant to take.
CooledAsDisplaced ==
  \A t \in live(state'.board) :
    LET displaced == square_of(state.board, t.id) # state'.board[t]
    IN  CASE t.typ = "p" -> t \notin state'.cooldown
          [] t.typ = "k" -> t \in state'.cooldown =>
               /\ KingCaptureCooldown /\ displaced
               /\ \E x \in ToSet(trace'.captured) :
                    state'.board[t] \in {x[2], state.board[x[1]]}
          [] OTHER -> t \in state'.cooldown <=>
               displaced /\ (RecaptureCooldown \/ t.id \notin fired_ids')
CooldownIsExact == [][PhasePlayed => CooledAsDisplaced]_vars

\* Ruling 17b (closure.py): a king cools only if it captured itself, where it
\* stands now; to move to an empty square costs it nothing.
KingCoolsForItsCapture ==
  [][PhasePlayed =>
       \A k \in {t \in state.cooldown' : t.typ = "k"} :
         \E x \in ToSet(trace'.captured) :
           x[1].color # k.color /\ x[2] = state.board'[k]]_vars

\* WF6: a reservation outlives a phase only if neither of its tokens changed
\* its square in it, or it was declared in that phase; its age never changes.
SquaresKept ==
  \A rho \in reservations(state') :
    /\ rho.age[1] < state.phase =>
         /\ rho.age \in {r.age : r \in reservations(state)}
         /\ square_of(state.board, rho.protege.id) = state'.board[rho.protege]
    /\ square_of(state.board, rho.defender.id) = state'.board[rho.defender]
ReservationsKeepTheirSquares == [][SquaresKept]_vars

\* The harness of invariants/ never reports a violation, so that strict mode
\* never raises: every check of a phase's states, trace and outcome passes.
HarnessIsSilent ==
  [][PhasePlayed => run_phase_returns(state, last'.white, last'.black,
                                      state', trace', outcome')]_vars

\* What a player declared survives being written down: the record of a phase is
\* read back as it was built and replays to the state the phase led to, and the
\* wire form is read back as the program that was sent.
RecordsReplay ==
  [][PhasePlayed =>
       /\ LET phases == << [white |-> last'.white, black |-> last'.black, outcome |-> outcome'] >>
              game   == build_record(state, phases, state', outcome')
          IN  read_record(write_record(game)) = {[game |-> game, final |-> state']}
       /\ \A c \in Color : LET prog == IF c = "W" THEN last'.white ELSE last'.black
          IN  \A i \in DOMAIN prog :
                deserialize_action(state, c, serialize_action(state, c, prog[i])) = {prog[i]}]_vars

\* M3 says that no colour has the first move: phi of the mirrored state and
\* programs returns the mirrored phase, up to the ledger, which is not mirrored,
\* and the ages of reservations.
ageless(res) == [i \in DOMAIN res |-> <<res[i].defender, res[i].protege>>]
comparable(s) ==
  [s EXCEPT !.ledger = <<>>, !.res = [c \in Color |-> ageless(@[c])]]
\* The result of the mirrored phase, if phi returns.
mirrored_result ==
  LET s == mirror_state(state)
      w == mirror_program(last'.black)
      b == mirror_program(last'.white)
  IN  IF is_legal_program(s, "W", w) /\ is_legal_program(s, "B", b)
      THEN phi_of_copies(s, w, b) ELSE {}
is_mirrored(results) ==
  \E r \in results :
    /\ comparable(r.state) = comparable(mirror_state(state'))
    /\ r.outcome = mirrored_outcome(outcome')
ColourIsIrrelevant == [][PhasePlayed => is_mirrored(mirrored_result)]_vars

\* The colours may be exchanged but in two cases.  Where two attacked pieces of
\* one colour defend each other, phi of the mirrored state raises RecursionError,
\* and only there, since R11 does not recognise copied tokens.  Where both colours
\* lose stationary pieces and somebody fires back, White's batteries come first.
\* All else favours nobody: stages F and A, the cascade on one colour's pieces,
\* and the closure.
batteries(tr) ==
  ToSet(pending_batteries(state.board, tr.executing,
          only(tr.executing, tr.survivors)))
attacked_colours(tr) == {p.victim.color : p \in batteries(tr)}
declared_defences ==
  {<<a.defender, a.protege>> : a \in
     {x \in ToSet(last'.white \o last'.black) : x.kind = "reserve"}}
mutual_defence(tr) ==
  LET defences == {<<rho.defender, rho.protege>> : rho \in reservations(state)}
                    \cup declared_defences
  IN  \E p, q \in batteries(tr) :
        {<<p.victim, q.victim>>, <<q.victim, p.victim>>} \subseteq defences
ColourBlind ==
  [][PhasePlayed =>
       LET results == mirrored_result
       IN  /\ results = {} <=> mutual_defence(trace')
           /\ \/ results = {}
              \/ attacked_colours(trace') = Color /\ trace'.fired # <<>>
              \/ is_mirrored(results)]_vars

\* M4 under reading i (INVARIANTS.md, rules/variants.py): striking a defender
\* before its protege defuses the reservation.  An attacked piece fires only for
\* a square that is resolved no later than its own, counting by the attackers'
\* declared indices.
FiresBeforeStruck ==
  \A f \in ToSet(trace'.fired), own, other \in batteries(trace') :
    own.victim = f.defender /\ other.square = f.square => other.round <= own.round
StruckFirstIsDefused == [][PhasePlayed => FiresBeforeStruck]_vars
=============================================================================
