------------------------------ MODULE LocalPlay -----------------------------
(***************************************************************************)
(* A local game, the way it is set up: in the Tk window, where a human     *)
(* builds a program by clicks and an agent answers (ui/window.py); at the  *)
(* terminal, where each human types a program until it is legal (ui/       *)
(* session.py, hot-seat or against an agent); or between the code's two    *)
(* agents, by play_match or by the self-play of harness/selfplay.py, which *)
(* aborts a game instead of raising.                                       *)
(*                                                                         *)
(* All of them drive the game of Referee, as Match does.                   *)
(* A program typed at the terminal is any legal one whose actions come     *)
(* from Considered; a refused one changes nothing.                         *)
(***************************************************************************)
EXTENDS Referee, Record

CONSTANTS
  Setups,        \* the front ends, players and starting states
  Clickable,     \* the squares a human clicks on
  MaxActions,    \* bound on the program under construction
  WindowPhases   \* bound on the exploration of the window, which has no cap

ASSUME LocalAssumption ==
  /\ WindowPhases \in Nat /\ MaxActions \in Nat
  /\ \A setup \in Setups :
       /\ setup.front \in {"window", "terminal", "match", "selfplay"}
       /\ \A c \in Color : setup.player[c] \in {"human", "random_legal", "greedy"}
       /\ setup.front = "window" => \E c \in Color : \A d \in Color :
                                      setup.player[d] = "human" <=> d = c
       /\ WellFormed(setup.start)

VARIABLES
  setup,     \* who plays, and through what
  building,  \* ProgramBuilder.actions
  mode,      \* what a click means
  selected,  \* the id of the selected token, if any
  raised     \* phi has raised ValueError

game   == <<state, outcome, played, last>>
window == <<building, mode, selected>>
vars   == <<setup, game, window, raised>>

humans == {c \in Color : setup.player[c] = "human"}
me     == CHOOSE c \in humans : TRUE

Init ==
  /\ setup \in Setups
  /\ begins_in({setup.start})
  /\ building = <<>>
  /\ mode = "move"
  /\ selected = {}
  /\ raised = FALSE

-----------------------------------------------------------------------------
(***************************************************************************)
(* The agents.  A sampled promotion may be any.                            *)
(***************************************************************************)
move_candidates(s, c) ==
  (UNION {move_actions(s, t) : t \in own_tokens(s, c) \ s.cooldown})
    \cup {Castle(side) : side \in {x \in Sides : castle_move(s.board, s.rights, c, x) # {}}}

reserve_candidates(s, c) ==
  {Reserve(x[1], x[2]) : x \in
     {y \in (own_tokens(s, c) \ s.cooldown) \X own_tokens(s, c) :
        y[1] # y[2] /\ can_reserve(s, y[1], y[2], s.board[y[2]])}}

cancel_candidates(s, c) == {Cancel(rho) : rho \in ToSet(s.res[c])}

\* A sample is without replacement, in any order; the attempts may all fail.
random_legal_program(s, c) ==
  LET movers  == move_candidates(s, c)
      all     == movers \cup reserve_candidates(s, c) \cup cancel_candidates(s, c)
      samples == UNION {{p \in [1..k -> all] : IsInjective(p)} : k \in 1..N}
  IN  IF all = {} THEN {<<>>}
      ELSE {p \in samples : is_legal_program(s, c, p)}
             \cup {<<a>> : a \in IF movers # {} THEN movers ELSE all}

PieceValue == [p |-> 1, n |-> 3, b |-> 3, r |-> 5, q |-> 9, k |-> 0]
capture_value(s, a) ==
  Max({-1} \cup IF a.kind # "move" THEN {}
                ELSE {PieceValue[t.typ] : t \in
                        {u \in occupants(s.board, destination(a.trajectory)) :
                           u.color # a.token.color}})

greedy_program(s, c) ==
  LET candidates == move_candidates(s, c)
      best       == Max({capture_value(s, a) : a \in candidates})
  IN  IF candidates = {} THEN {<<>>}
      ELSE {<<a>> : a \in {x \in candidates : best > 0 => capture_value(s, x) = best}}

agent_programs(agent, s, c) ==
  CASE agent = "random_legal" -> random_legal_program(s, c)
    [] agent = "greedy"       -> greedy_program(s, c)

-----------------------------------------------------------------------------
(***************************************************************************)
(* phi checks both programs before it resolves them, and raises; the       *)
(* lenient harness reports, and the game is over, the phase counted.       *)
(***************************************************************************)
abort ==
  /\ outcome' = "aborted"
  /\ played' = played + 1
  /\ UNCHANGED <<state, last>>

resolve(w, b) ==
  IF is_legal_program(state, "W", w) /\ is_legal_program(state, "B", b)
  THEN plays(w, b) /\ UNCHANGED raised
  ELSE IF setup.front = "selfplay" THEN abort /\ UNCHANGED raised
  ELSE raised' = TRUE /\ UNCHANGED game

(***************************************************************************)
(* The terminal loops, play_match and play_one_game: both programs, then   *)
(* the phase.  An exception leaves the loop.                               *)
(***************************************************************************)
handed_in(c) ==
  IF c \in humans THEN legal_programs(state, c)
  ELSE agent_programs(setup.player[c], state, c)

play_phase ==
  /\ setup.front # "window" /\ goes_on /\ ~ raised
  /\ \E w \in handed_in("W"), b \in handed_in("B") : resolve(w, b)
  /\ UNCHANGED <<setup, window>>

stop_at_limit ==
  /\ setup.front # "window" /\ ~ raised
  /\ phase_limit
  /\ UNCHANGED <<setup, window, raised>>

-----------------------------------------------------------------------------
(***************************************************************************)
(* The window: the program under construction, and what may be added.      *)
(***************************************************************************)
extends(a) == check_partial_program(state, me, Append(building, a))
targets(t) ==
  {destination(a.trajectory) : a \in
     {x \in move_actions(state, t) : t \notin state.cooldown /\ extends(x)}}

\* _build_move: the window never passes a promotion.
built_move(t, square) ==
  {Move(t, tau, NoPromotion) : tau \in trajectories_to(state, t, square)}

\* The first reservation of that defender that may be cancelled.
cancel_by(d) ==
  LET mine == {i \in DOMAIN state.res[me] :
                 state.res[me][i].defender.id = d.id /\ extends(Cancel(state.res[me][i]))}
  IN  {Cancel(state.res[me][i]) : i \in {j \in mine : j = Min(mine)}}

\* Fault: a cooled token, which cannot act, is taken to be out of reach.
threat_overlay_of_free(s, c) ==
  {t.id : t \in {u \in own_tokens(s, c) \ s.cooldown :
     \E e \in own_tokens(s, opponent(c)) \ s.cooldown :
        trajectories_to(s, e, s.board[u]) # {}}}

\* The own tokens an opponent's move could capture in this phase.
threat_overlay(s, c) ==
  {t.id : t \in {u \in own_tokens(s, c) :
     \E e \in own_tokens(s, opponent(c)) \ s.cooldown :
        trajectories_to(s, e, s.board[u]) # {}}}

selection == {t \in live(state.board) : t.id \in selected}
mine_on(square) == own_occupants(state, me, square)

\* Fault: _game_over is never set.
window_stays_open == setup.front = "window" /\ played < WindowPhases
open_window == setup.front = "window" /\ outcome = "ongoing" /\ played < WindowPhases
same_game   == UNCHANGED <<setup, game, raised>>

set_mode(m) ==
  /\ open_window
  /\ mode' = m
  /\ selected' = {}
  /\ UNCHANGED building /\ same_game

\* A click on an own piece selects it or lets it go again.
select(t) == selected' = IF t.id \in selected THEN {} ELSE {t.id}

add(a) ==
  /\ Len(building) < MaxActions
  /\ building' = Append(building, a)

click_move(square) ==
  /\ open_window /\ mode = "move"
  /\ \/ \E t \in mine_on(square) : select(t) /\ UNCHANGED building
     \/ /\ mine_on(square) = {}
        /\ \E t \in selection : square \in targets(t) /\ \E a \in built_move(t, square) : add(a)
        /\ selected' = {}
  /\ UNCHANGED mode /\ same_game

click_reserve(square) ==
  /\ open_window /\ mode = "reserve"
  /\ \E q \in mine_on(square) :
       \/ selected \in {{}, {q.id}} /\ select(q) /\ UNCHANGED building
       \/ /\ selected \notin {{}, {q.id}}
          /\ \E d \in selection :
               IF extends(Reserve(d, q)) THEN add(Reserve(d, q))
               ELSE UNCHANGED building
          /\ selected' = {}
  /\ UNCHANGED mode /\ same_game

click_cancel(square) ==
  /\ open_window /\ mode = "cancel"
  /\ \E d \in mine_on(square) : \E a \in cancel_by(d) : add(a)
  /\ UNCHANGED <<mode, selected>> /\ same_game

try_castle(side) ==
  /\ open_window
  /\ IF castle_of(state, me, Castle(side)) # {} /\ extends(Castle(side))
     THEN add(Castle(side)) ELSE UNCHANGED building
  /\ selected' = {}
  /\ UNCHANGED mode /\ same_game

undo ==
  /\ open_window
  /\ building' = IF building = <<>> THEN <<>> ELSE Front(building)
  /\ selected' = {}
  /\ UNCHANGED mode /\ same_game

\* Fault: the selection of the resolved phase is kept.
new_actions_only == building' = <<>> /\ UNCHANGED selected
new_builder == building' = <<>> /\ selected' = {}

\* An exception leaves the window open, the state and the builder as they were.
submit ==
  /\ open_window
  /\ is_legal_program(state, me, building)
  /\ \E p \in agent_programs(setup.player[opponent(me)], state, opponent(me)) :
       LET programs == [c \in Color |-> IF c = me THEN building ELSE p]
       IN  resolve(programs["W"], programs["B"])
  /\ IF played' = played THEN UNCHANGED <<building, selected>> ELSE new_builder
  /\ UNCHANGED <<setup, mode>>
-----------------------------------------------------------------------------
Next ==
  \/ play_phase \/ stop_at_limit
  \/ \E m \in {"move", "reserve", "cancel"} : set_mode(m)
  \/ \E square \in Clickable : click_move(square)
  \/ \E square \in Clickable : click_reserve(square)
  \/ \E square \in Clickable : click_cancel(square)
  \/ \E side \in Sides : try_castle(side)
  \/ undo
  \/ submit

(***************************************************************************)
(* The loops never rest, and a human goes on handing in programs as long   *)
(* as the game asks for them.                                              *)
(***************************************************************************)
asked == /\ outcome = "ongoing" /\ ~ raised
         /\ played < IF setup.front = "window" THEN WindowPhases ELSE MaxPhases
Fairness == WF_vars(stop_at_limit) /\ ([]<>(~ asked) \/ []<><<played' # played>>_vars)

Spec == Init /\ [][Next]_vars /\ Fairness

-----------------------------------------------------------------------------
\* Whatever the front end, the game goes on as a match does: it starts as one,
\* and each step of it is a phase of two legal programs or the phase limit;
\* clicks, refused programs and exceptions leave it alone.  Only self-play,
\* handed an illegal program, closes a game that a match would not.
a_phase ==
  /\ outcome = "ongoing" /\ played' # played
  /\ setup.front # "window" => played < MaxPhases
  /\ is_legal_program(state, "W", last'.white)
  /\ is_legal_program(state, "B", last'.black)
  /\ plays(last'.white, last'.black)
an_abort ==
  /\ setup.front = "selfplay" /\ outcome = "ongoing"
  /\ outcome' = "aborted" /\ UNCHANGED <<state, last>>
PlaysMatch ==
  begins_in({x.start : x \in Setups}) /\ [][a_phase \/ an_abort \/ phase_limit]_game

\* The window never acts on a past position: the selection and every action
\* under construction name live tokens of the human, and they form a legal
\* partial program but for the promotion that the window never declares.
promoting(p) ==
  [i \in DOMAIN p |-> IF p[i].kind = "move" /\ reaches_last_rank(p[i])
                      THEN [p[i] EXCEPT !.promotion = "q"] ELSE p[i]]
BuilderIsCurrent ==
  setup.front = "window" =>
    /\ selected \subseteq {t.id : t \in own_tokens(state, me)}
    /\ \A i \in DOMAIN building :
         building[i].kind # "cancel" => actors_of(state, me, building[i]) \subseteq own_tokens(state, me)
    /\ check_partial_program(state, me, promoting(building))

\* The threat overlay misses nothing: whatever is captured where it stood when
\* the programs were declared was shown as threatened then.
ThreatsShown ==
  [][played' # played =>
       \A x \in ToSet(last'.trace.captured) :
         x[1] \in live(state.board) /\ state.board[x[1]] = x[2] =>
           x[1].id \in threat_overlay(state, x[1].color)]_vars

\* T4: the horizon or the kings decide every game that is played on, in the
\* window without a cap on its phases.
Decided == <>(raised \/ outcome # "ongoing")
=============================================================================
