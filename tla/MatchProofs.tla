---------------------------- MODULE MatchProofs -----------------------------
(***************************************************************************)
(* A match, proved of Match for every board size, rule set, number of      *)
(* phases and set of starting positions that StartsAssumption admits, and  *)
(* for agents that may pick any legal program.                             *)
(*                                                                         *)
(* The inductive invariant IInv says that the state is WellFormed (its     *)
(* board, cooldown, reservations and castling rights fit together)         *)
(* and that each colour has a legal program while the game goes on.  That  *)
(* a phase keeps it, and each action property, follows from what PhiProofs *)
(* proves of a phase.  The last part proves that the harness of Invariants *)
(* has nothing to report of any step of such a match; its invariant HInv   *)
(* adds to IInv that the harness accepts the current state.                *)
(***************************************************************************)
EXTENDS Match, PhiProofs

-----------------------------------------------------------------------------
(***************************************************************************)
(* A program for each colour while the game goes on.                       *)
(***************************************************************************)
\* An action whose one actor is free and that is legal by itself is a program.
LEMMA AloneLegal ==
  ASSUME NEW s, SoundBoard(s.board), NEW c \in Color, NEW a \in actions(s, c),
         \A x, y \in actors_of(s, c, a) : x = y,
         actors_of(s, c, a) \cap s.cooldown = {},
         geometrically_legal(s, c, <<a>>, a),
         is_displacement(a) \/ ~ can_displace(s, c)
  PROVE  SomeProgram(s, c)
<1> DEFINE prog == <<a>>
           own == expand_program(s, c, prog)
<1>1. prog \in Seq(actions(s, c)) /\ Len(prog) = 1 /\ DOMAIN prog = {1} /\ prog[1] = a
  OBVIOUS
<1> HIDE DEF prog
<1>2. L1_budget(prog) /\ L3_distinct_actors(s, c, prog)
  BY <1>1, RuleSetAssumption DEF L1_budget, L3_distinct_actors
<1>3. /\ Declares(s, c, own)
      /\ \A i \in DOMAIN own : own[i].token \in actors_of(s, c, a)
  BY <1>1, <1>2, ExpandFacts
<1> HIDE DEF own
<1>4. \A i, j \in DOMAIN own : i = j
  BY <1>3 DEF Declares
<1>5. \A i \in DOMAIN own : \A t \in occupants(s.board, destination(own[i].trajectory)) : t.color # c
  <2> TAKE i \in DOMAIN own
  <2>1. own[i].token \in own_tokens(s, c) /\ Goes(s.board, own[i].token, own[i].trajectory)
    BY <1>3 DEF Declares
  <2> QED
    BY <2>1 DEF own_tokens, Goes, held, occupants
<1>6. L5_own_consistency(s, c, prog)
  <2>1. \A i, j \in DOMAIN own : i < j => ~ conflicts(own[i].trajectory, own[j].trajectory)
    <3> SUFFICES ASSUME NEW i \in DOMAIN own, NEW j \in DOMAIN own, i < j PROVE FALSE
      OBVIOUS
    <3>1. i = j
      BY <1>4
    <3>2. i \in Nat
      <4>1. own \in Seq(ToSet(own))
        BY <1>1, <1>2, ExpandFacts DEF own
      <4> QED
        BY <4>1
    <3> QED
      BY <3>1, <3>2
  <2> QED
    BY <1>5, <2>1 DEF L5_own_consistency, own
<1>7. L6_geometric_legality(s, c, prog) /\ L4_cooldown_respected(s, c, prog)
  BY <1>1 DEF L6_geometric_legality, L4_cooldown_respected, prog
<1>8. L2_mandatory_displacement(s, c, prog)
  BY <1>1 DEF L2_mandatory_displacement, has_any_legal_displacement
<1>9. is_legal_program(s, c, prog)
  BY <1>2, <1>6, <1>7, <1>8 DEF is_legal_program, check_partial_program
<1>10. prog \in SeqsUpTo(actions(s, c), 1)
  <2>1. prog \in [1..1 -> actions(s, c)]
    BY DEF prog
  <2> QED
    BY <2>1 DEF SeqsUpTo
<1> QED
  BY <1>9, <1>10 DEF SomeProgram

\* A free token with somewhere to go gives its colour a program.
LEMMA MoveLegal ==
  ASSUME NEW s, SoundBoard(s.board), NEW c \in Color,
         NEW t \in live(s.board) \ s.cooldown, t.color = c,
         pseudo_legal_trajectories(s.board, t) # {}
  PROVE  SomeProgram(s, c)
<1>1. PICK tau \in pseudo_legal_trajectories(s.board, t) : TRUE
  OBVIOUS
<1> DEFINE last_rank == t.typ = "p" /\ destination(tau)[2] = LastRank(t.color)
           promo == IF last_rank THEN "q" ELSE NoPromotion
           a == Move(t, tau, promo)
<1>2. /\ a.kind = "move" /\ a.token = t /\ a.trajectory = tau /\ a.promotion = promo
  BY DEF Move
<1>3. promo \in (IF last_rank THEN Promotable ELSE {NoPromotion})
  BY DEF Promotable
<1>4. a \in move_actions(s, t)
  BY <1>3 DEF move_actions
<1>5. a \in actions(s, c)
  BY <1>4 DEF actions, own_tokens
<1> HIDE DEF a, promo
<1>6. actors_of(s, c, a) = {t}
  BY <1>2 DEF actors_of
<1>7. geometrically_legal(s, c, <<a>>, a)
  BY <1>2, <1>3 DEF geometrically_legal, reaches_last_rank
<1>8. is_displacement(a)
  BY <1>2 DEF is_displacement
<1> QED
  BY <1>5, <1>6, <1>7, <1>8, AloneLegal

\* Where a castle is possible the king is free and may as well take one step.
LEMMA CastleSteps ==
  ASSUME NEW s, SoundBoard(s.board), KingsHome(s), NEW c \in Color, NEW side \in Sides,
         castle_move(s.board, s.rights, c, side) # {}
  PROVE  SomeProgram(s, c)
<1>1. PICK m \in castle_move(s.board, s.rights, c, side) : TRUE
  OBVIOUS
<1> DEFINE k == m.king
           q == KingHome(c)
           d == IF side = "king" THEN <<1, 0>> ELSE <<-1, 0>>
           to == Shift(q, d, 1)
           h == HomeRank(c)
<1>2. /\ k \in own_tokens(s, c) /\ k.typ = "k" /\ s.board[k] = q
      /\ m.rook \in own_tokens(s, c) /\ s.board[m.rook] = RookHome(c, side)
      /\ <<c, side>> \in s.rights
  BY <1>1, CastleGoes
<1>3. CastleGap(c, side) \cap occupied(s.board) = {}
  BY <1>1 DEF castle_move
<1>4. k \in live(s.board) /\ k.color = c /\ k \notin s.cooldown
  BY <1>2 DEF own_tokens, king_token, KingsHome
<1>5. RookHome(c, side) \in Squares /\ q \in Squares
  BY <1>2 DEF own_tokens, SoundBoard
<1>6. h \in 0..MaxRank /\ (side = "king" => 7 \in 0..MaxFile) /\ MaxFile \in Nat /\ 4 \in 0..MaxFile
  BY <1>5, BoardAssumption DEF RookHome, KingHome, Squares, Files, Ranks
<1>7. to = <<IF side = "king" THEN 5 ELSE 3, h>> /\ d \in KingDeltas
  <2>1. h \in Int
    BY DEF HomeRank
  <2> QED
    BY <2>1 DEF Shift, KingHome, KingDeltas
<1>8. to \in Squares /\ to \in CastleGap(c, side)
  BY <1>6, <1>7 DEF Squares, Files, Ranks, CastleGap, Sides
<1>9. to \notin held(s.board, c)
  BY <1>3, <1>8 DEF held, occupied
<1> HIDE DEF d, q, to
<1>10. Line(q, d, 1) \in king_step_trajectories(q, held(s.board, c))
  BY <1>7, <1>8, <1>9 DEF king_step_trajectories, to
<1>11. pseudo_legal_trajectories(s.board, k) # {}
  BY <1>2, <1>4, <1>10 DEF pseudo_legal_trajectories
<1> QED
  BY <1>4, <1>11, MoveLegal

\* A colour that cannot move and has a reservation may cancel it.
LEMMA CancelLegal ==
  ASSUME NEW s, SoundBoard(s.board), NEW c \in Color, ~ can_displace(s, c),
         s.res[c] \in Seq(ToSet(s.res[c])), s.res[c] # <<>>
  PROVE  SomeProgram(s, c)
<1>1. PICK rho \in ToSet(s.res[c]) : TRUE
  <2>1. Len(s.res[c]) # 0 /\ Len(s.res[c]) \in Nat /\ DOMAIN s.res[c] = 1..Len(s.res[c])
    OBVIOUS
  <2>2. 1 \in DOMAIN s.res[c]
    BY <2>1
  <2> QED
    BY <2>2 DEF ToSet
<1> DEFINE a == Cancel(rho)
<1>2. a.kind = "cancel" /\ a.reservation = rho
  BY DEF Cancel
<1>3. a \in actions(s, c)
  BY DEF actions
<1> HIDE DEF a
<1>4. actors_of(s, c, a) = {}
  BY <1>2 DEF actors_of
<1>5. geometrically_legal(s, c, <<a>>, a)
  BY <1>2 DEF geometrically_legal
<1> QED
  BY <1>3, <1>4, <1>5, AloneLegal

\* A colour that cannot move may reserve what a free token of its covers.
LEMMA ReserveLegal ==
  ASSUME NEW s, SoundBoard(s.board), NEW c \in Color, ~ can_displace(s, c),
         NEW d \in live(s.board) \ s.cooldown, NEW q \in live(s.board),
         d.color = c, q.color = c, d # q, can_reserve(s, d, q, s.board[q])
  PROVE  SomeProgram(s, c)
<1> DEFINE a == Reserve(d, q)
<1>1. a.kind = "reserve" /\ a.defender = d /\ a.protege = q
  BY DEF Reserve
<1>2. a \in actions(s, c)
  <2>1. <<d, q>> \in {y \in own_tokens(s, c) \X own_tokens(s, c) : y[1] # y[2]}
    BY DEF own_tokens
  <2> DEFINE x == <<d, q>>
  <2>2. a = Reserve(x[1], x[2])
    OBVIOUS
  <2> QED
    BY <2>1, <2>2 DEF actions
<1> HIDE DEF a
<1>3. actors_of(s, c, a) = {d}
  BY <1>1 DEF actors_of
<1>4. reserve_target(s, <<a>>, q) = s.board[q]
  <2>1. {i \in DOMAIN <<a>> : <<a>>[i].kind = "move" /\ <<a>>[i].token = q} = {}
    BY <1>1
  <2> QED
    BY <2>1 DEF reserve_target
<1>5. geometrically_legal(s, c, <<a>>, a)
  BY <1>1, <1>4 DEF geometrically_legal
<1> QED
  BY <1>2, <1>3, <1>5, AloneLegal

\* has_any_legal_program is right when it says that there is one.
LEMMA ProgramExists ==
  ASSUME NEW s, WellFormed(s), NEW c \in Color, has_any_legal_program(s, c)
  PROVE  SomeProgram(s, c)
<1>1. /\ SoundBoard(s.board) /\ KingsHome(s)
      /\ s.res[c] \in Seq([defender : own_tokens(s, c), protege : own_tokens(s, c), age : Nat \X Nat])
  BY DEF WellFormed, Standing
<1>2. CASE can_displace(s, c)
  BY <1>1, <1>2, MoveLegal, CastleSteps DEF can_displace
<1>3. CASE ~ can_displace(s, c) /\ s.res[c] # <<>>
  <2>1. s.res[c] = [i \in 1..Len(s.res[c]) |-> s.res[c][i]] /\ Len(s.res[c]) \in Nat
    BY <1>1
  <2>2. s.res[c] \in Seq(ToSet(s.res[c]))
    BY <2>1, ListOf
  <2> QED
    BY <1>1, <1>3, <2>2, CancelLegal
<1>4. CASE /\ ~ can_displace(s, c)
           /\ \E d \in live(s.board) \ s.cooldown, q \in live(s.board) :
                d.color = c /\ q.color = c /\ d # q /\ can_reserve(s, d, q, s.board[q])
  BY <1>1, <1>4, ReserveLegal
<1> QED
  BY <1>2, <1>3, <1>4 DEF has_any_legal_program

\* While the game goes on each colour has a legal program: its king is alive, and
\* if it is cooled the safety valve has looked for one.
LEMMA StaysPlayable ==
  ASSUME NEW s, NEW w, NEW b, Playable(s, w, b), NEW c \in Color,
         phi(s, w, b).outcome = "ongoing"
  PROVE  has_any_legal_program(phi(s, w, b).state, c)
<1>1. PICK r : r = phi(s, w, b) /\ After(s, w, b, r)
  BY PhaseIs
<1>2. PICK n : n = r.state
  OBVIOUS
<1>3. /\ has_king(n.board, c)
      /\ \A k \in n.cooldown : k.typ = "k" => has_any_legal_program(n, k.color)
  BY <1>1, <1>2 DEF After
<1>4. SoundBoard(n.board)
  BY <1>1, <1>2, StaysWellFormed DEF WellFormed
<1>5. PICK k \in live(n.board) : k.typ = "k" /\ k.color = c
  BY <1>3 DEF has_king
<1>6. CASE k \in n.cooldown
  BY <1>1, <1>2, <1>3, <1>5, <1>6
<1>7. CASE k \notin n.cooldown
  BY <1>1, <1>2, <1>4, <1>5, <1>7, FreeKing DEF king_token
<1> QED
  BY <1>6, <1>7

-----------------------------------------------------------------------------
(***************************************************************************)
(* The invariant of the match.                                             *)
(***************************************************************************)
\* The inductive invariant.
IInv ==
  /\ WellFormed(state)
  /\ outcome \in Outcomes
  /\ outcome = "ongoing" =>
       state.nu < Horizon /\ \A c \in Color : has_any_legal_program(state, c)
  /\ played \in 0..MaxPhases
  /\ state.nu \in 0..Horizon
  /\ SurvivorsDoNotMeet

\* A phase that two legal programs play, as the invariant sees it.
PlayedBy(w, b) ==
  /\ Playable(state, w, b)
  /\ \E r : /\ After(state, w, b, r) /\ r = phi(state, w, b)
            /\ state' = r.state /\ outcome' = r.outcome /\ trace' = r.trace

\* A phase of the match is a phase of phi from a playable state.
LEMMA PhaseStep ==
  ASSUME IInv, play_phase
  PROVE  \E w, b : PlayedBy(w, b)
<1>1. PICK w \in legal_programs(state, "W"), b \in legal_programs(state, "B") : plays(w, b)
  BY DEF play_phase
<1>2. Playable(state, w, b)
  <2>1. \A c \in Color : \A p \in legal_programs(state, c) :
          p \in Seq(actions(state, c)) /\ is_legal_program(state, c, p)
    BY ProgramsOf DEF legal_programs, SeqsUpTo
  <2> QED
    BY <2>1 DEF Playable, IInv, Color
<1>3. PICK r : r = phi(state, w, b)
  OBVIOUS
<1>4. After(state, w, b, r)
  BY <1>3, PhaseIs
<1>5. state' = r.state /\ outcome' = r.outcome
  BY <1>1, <1>3 DEF plays
<1>6. trace' = r.trace
  <2>1. last' = [white |-> w, black |-> b, trace |-> r.trace]
    BY <1>1, <1>3 DEF plays
  <2> QED
    BY <2>1 DEF trace
<1> QED
  BY <1>2, <1>3, <1>4, <1>5, <1>6 DEF PlayedBy

\* A match starts in the invariant.
LEMMA InitInv == Init => IInv
<1> SUFFICES ASSUME Init PROVE IInv
  OBVIOUS
<1>1. Startable(state)
  BY StartsAssumption DEF Init, begins_in
<1>2. Horizon \in Nat \ {0} /\ MaxPhases \in Nat \ {0}
  BY RuleSetAssumption, MaxPhasesAssumption
<1>3. /\ state.nu \in Nat /\ state.nu < Horizon
      /\ \A c \in Color : has_any_legal_program(state, c)
  BY <1>1, <1>2 DEF Startable, WellFormed
<1>4. WellFormed(state)
  BY <1>1 DEF Startable
<1>5. SurvivorsDoNotMeet
  BY DEF Init, begins_in, SurvivorsDoNotMeet, trace, NoTrace
<1>6. outcome \in Outcomes /\ played \in 0..MaxPhases
  BY <1>2 DEF Init, begins_in, Outcomes
<1> QED
  BY <1>2, <1>3, <1>4, <1>5, <1>6 DEF IInv

\* A phase, and the phase limit, keep it.
LEMMA NextInv == IInv /\ [Next]_vars => IInv'
<1> SUFFICES ASSUME IInv, [Next]_vars PROVE IInv'
  OBVIOUS
<1>1. CASE play_phase
  <2>1. PICK w, b : PlayedBy(w, b)
    BY <1>1, PhaseStep
  <2>2. PICK r : /\ After(state, w, b, r) /\ r = phi(state, w, b)
                 /\ state' = r.state /\ outcome' = r.outcome /\ trace' = r.trace
    BY <2>1 DEF PlayedBy
  <2>3. Playable(state, w, b)
    BY <2>1 DEF PlayedBy
  <2>4. WellFormed(state')
    BY <2>2, <2>3, StaysWellFormed
  <2>5. state'.nu \in 0..Horizon /\ (outcome' = "ongoing" => state'.nu < Horizon)
    <3>1. outcome = "ongoing" /\ state.nu \in 0..Horizon /\ state.nu < Horizon
      BY <1>1 DEF play_phase, goes_on, IInv
    <3>2. Horizon \in Nat
      BY RuleSetAssumption
    <3>3. state'.nu \in {0, state.nu + 1} /\ (outcome' = "ongoing" => ~ (state'.nu >= Horizon))
      BY <2>2 DEF After
    <3> QED
      BY <3>1, <3>2, <3>3
  <2>6. outcome' = "ongoing" => \A c \in Color : has_any_legal_program(state', c)
    BY <2>2, <2>3, StaysPlayable
  <2>7. outcome' \in Outcomes
    BY <2>2 DEF After, Outcomes
  <2>8. played' \in 0..MaxPhases
    BY <1>1, MaxPhasesAssumption DEF play_phase, goes_on, plays, IInv
  <2>9. \A m1, m2 \in trace'.survivors : m1 # m2 =>
          ~ vertex_conflict(m1.trajectory, m2.trajectory) /\ ~ edge_conflict(m1.trajectory, m2.trajectory)
    BY <2>2, <2>3, SurvivorsApart
  <2>10. SurvivorsDoNotMeet'
    BY <2>9 DEF SurvivorsDoNotMeet
  <2> QED
    BY <2>4, <2>5, <2>7, <2>6, <2>8, <2>10 DEF IInv
<1>2. CASE phase_limit
  BY <1>2 DEF phase_limit, IInv, Outcomes, SurvivorsDoNotMeet, trace
<1>3. CASE UNCHANGED vars
  BY <1>3 DEF vars, IInv, SurvivorsDoNotMeet, trace
<1> QED
  BY <1>1, <1>2, <1>3 DEF Next

\* The invariant holds throughout every match.
LEMMA Invariance == Spec => []IInv
<1> QED
  BY InitInv, NextInv, PTL DEF Spec

\* Every board of a match is sound, with at most one token on a square, the
\* cooled are among the live, and the counters keep their ranges.
THEOREM TypeCorrect == Spec => []TypeOK
<1>1. IInv => TypeOK
  BY DEF IInv, WellFormed, TypeOK
<1> QED
  BY <1>1, Invariance, PTL

\* The safety valve of closure.py: while the game goes on neither colour is
\* without a legal program, and has_any_legal_program says so.
THEOREM SomeoneCanAct == Spec => []AlwaysPlayable
<1>1. IInv => AlwaysPlayable
  BY ProgramExists DEF IInv, AlwaysPlayable
<1> QED
  BY <1>1, Invariance, PTL

\* WF5 and WF6: after any phase the standing reservations name live tokens of
\* one colour by their current snapshots, with a defender free to fire.
THEOREM StandingReservations == Spec => []ReservationsStand
<1>1. IInv => ReservationsStand
  BY DEF IInv, WellFormed, ReservationsStand
<1> QED
  BY <1>1, Invariance, PTL

\* WF7: a colour with a right to castle has its king at home and free to move.
THEOREM KingHomeKept == Spec => []RightsKeepKingHome
<1>1. IInv => RightsKeepKingHome
  BY DEF IInv, WellFormed, RightsKeepKingHome
<1> QED
  BY <1>1, Invariance, PTL

\* R5: what survives stage A shares no square and does not cross.
THEOREM NoMeeting == Spec => []SurvivorsDoNotMeet
<1>1. IInv => SurvivorsDoNotMeet
  BY DEF IInv
<1> QED
  BY <1>1, Invariance, PTL

-----------------------------------------------------------------------------
(***************************************************************************)
(* Where the tokens of a phase end up.                                     *)
(***************************************************************************)
\* A surviving move that its token outlives took it to its destination.
LEMMA WhereMoved ==
  ASSUME NEW s, NEW w, NEW b, Playable(s, w, b),
         NEW m \in ToSet(Moves(s, w, b).survivors),
         NEW u \in live(Board(s, w, b)), u.id = m.token.id
  PROVE  /\ Board(s, w, b)[u] = destination(m.trajectory)
         /\ m.token \in live(s.board) /\ s.board[m.token] = origin(m.trajectory)
         /\ origin(m.trajectory) # destination(m.trajectory)
         /\ \A f \in ToSet(Resolved(s, w, b).fired) : f.defender.id # u.id
<1> DEFINE ctx == Scene(s, w, b)
           db  == Resolved(s, w, b)
           board == Board(s, w, b)
           mv == Moves(s, w, b)
           dest == destination(m.trajectory)
           t == db.occupancy[board[u]]
<1>1. /\ Setting(ctx) /\ Placed(ctx, db) /\ Fired(ctx, db, ToSet(ctx.pending))
      /\ ctx.moved = token_ids(mv.survivors)
      /\ dest \in DOMAIN ctx.occupancy /\ ctx.occupancy[dest] = m.token
  BY PhaseDefence DEF Running
<1>2. PICK M : Stage(s, M, mv.executing, mv.survivors)
  BY PhaseMoves
<1>3. m \in M
  BY <1>2, SeqElements DEF Stage
<1>4. /\ m.token \in own_tokens(s, m.color) /\ Goes(s.board, m.token, m.trajectory)
      /\ SoundBoard(s.board)
  BY <1>2, <1>3 DEF Stage, Movers
<1>5. m.token \in live(s.board) /\ s.board[m.token] = origin(m.trajectory) /\ origin(m.trajectory) # dest
  BY <1>4 DEF own_tokens, Goes, held, live
<1>6. m.token.id \in ctx.moved
  BY <1>1 DEF token_ids
<1>7. t \in live(s.board) /\ t.id = u.id
  BY CapturedIds
<1>8. board[u] \in DOMAIN db.occupancy
  BY NewBoardFacts DEF Board
<1> HIDE DEF ctx, db, board, mv, dest
<1>9. \A f \in ToSet(db.fired) : f.defender.id # u.id
  BY <1>1, <1>6 DEF Fired
<1>10. t = m.token
  BY <1>4, <1>5, <1>7 DEF SoundBoard
<1>11. t \notin fired_defenders(db)
  BY <1>7, <1>9 DEF fired_defenders
<1>12. board[u] \in DOMAIN ctx.occupancy /\ ctx.occupancy[board[u]] = t
  BY <1>1, <1>8, <1>11 DEF Placed
<1>13. board[u] = dest
  BY <1>1, <1>10, <1>12 DEF Setting
<1> QED
  BY <1>5, <1>9, <1>13 DEF db, board, dest

\* A defender that fired and is alive stands on the square it fired onto.
LEMMA WhereFired ==
  ASSUME NEW s, NEW w, NEW b, Playable(s, w, b),
         NEW f \in ToSet(Resolved(s, w, b).fired),
         NEW u \in live(Board(s, w, b)), u.id = f.defender.id
  PROVE  /\ Board(s, w, b)[u] = f.square
         /\ f.defender \in live(s.board) /\ s.board[f.defender] # f.square
<1> DEFINE ctx == Scene(s, w, b)
           db  == Resolved(s, w, b)
           board == Board(s, w, b)
           t == db.occupancy[board[u]]
<1>1. /\ Placed(ctx, db) /\ Fired(ctx, db, ToSet(ctx.pending)) /\ Setting(ctx)
      /\ ctx.board = s.board /\ SoundBoard(s.board)
  BY PhaseDefence DEF Running, Playable, WellFormed
<1>2. t \in live(s.board) /\ t.id = u.id
  BY CapturedIds
<1>3. board[u] \in DOMAIN db.occupancy
  BY NewBoardFacts DEF Board
<1> HIDE DEF ctx, db, board, t
<1>4. f.defender \in live(s.board) /\ s.board[f.defender] # f.square
  <2>1. f \in ToSet(db.fired)
    BY DEF db
  <2>2. f.defender \in ctx.alive /\ ctx.board[f.defender] # f.square
    BY <1>1, <2>1 DEF Fired
  <2>3. ctx.alive \subseteq live(ctx.board)
    BY <1>1 DEF Setting
  <2> QED
    BY <1>1, <2>2, <2>3
<1>5. t = f.defender
  BY <1>1, <1>2, <1>4 DEF SoundBoard
<1>6. t \in fired_defenders(db)
  BY <1>5 DEF fired_defenders, db
<1>7. PICK g \in ToSet(db.fired) : g.defender = t /\ g.square = board[u]
  BY <1>1, <1>3, <1>6 DEF Placed, t
<1>8. g = f
  <2>1. \A i, j \in DOMAIN db.fired : db.fired[i].defender = db.fired[j].defender => i = j
    BY <1>1 DEF Fired
  <2> QED
    BY <1>5, <1>7, <2>1 DEF ToSet, db
<1> QED
  BY <1>4, <1>7, <1>8 DEF board

\* An identity stands for one token of a sound board.
LEMMA SquareOf ==
  ASSUME NEW board, SoundBoard(board), NEW t \in live(board)
  PROVE  square_of(board, t.id) = board[t]
<1>1. \A u \in live(board) : u.id = t.id => u = t
  BY DEF SoundBoard
<1>2. (CHOOSE u \in live(board) : u.id = t.id) = t
  BY <1>1
<1> QED
  BY <1>2 DEF square_of

-----------------------------------------------------------------------------
(***************************************************************************)
(* What a phase may do to the state.                                       *)
(***************************************************************************)
\* Only tokens that were on the board die.
LEMMA DeadWere ==
  ASSUME NEW s, NEW w, NEW b, Playable(s, w, b)
  PROVE  Dead(Moves(s, w, b), Resolved(s, w, b)) \subseteq ids(s.board)
<1> DEFINE ctx == Scene(s, w, b)
           db  == Resolved(s, w, b)
           mv == Moves(s, w, b)
<1>1. Fallen(ctx, db, ToSet(ctx.pending)) /\ ctx.alive \subseteq live(s.board)
  BY PhaseDefence DEF Running, Setting
<1>2. PICK M : Stage(s, M, mv.executing, mv.survivors) /\ mv.annihilated \subseteq ToSet(mv.executing)
  BY PhaseMoves
<1> HIDE DEF ctx, db, mv
<1>3. captured_ids(db) \subseteq ids(s.board)
  BY <1>1 DEF Fallen, captured_ids, captured_tokens, ids
<1>4. \A m \in mv.annihilated : m.token.id \in ids(s.board)
  BY <1>2, SeqElements DEF Stage, Movers, own_tokens, ids
<1> QED
  BY <1>3, <1>4 DEF Dead, mv, db

\* A token whose move executed is captured where it arrived, never where it was.
LEMMA CapturedOnArrival ==
  ASSUME NEW s, NEW w, NEW b, Playable(s, w, b),
         NEW x \in ToSet(Resolved(s, w, b).captured),
         NEW m \in ToSet(Moves(s, w, b).executing), x[1] = m.token
  PROVE  x[2] # origin(m.trajectory)
<1> DEFINE ctx == Scene(s, w, b)
           db  == Resolved(s, w, b)
           mv == Moves(s, w, b)
           dest == destination(m.trajectory)
<1>1. /\ Setting(ctx) /\ Fallen(ctx, db, ToSet(ctx.pending)) /\ Fired(ctx, db, ToSet(ctx.pending))
      /\ ctx.moved = token_ids(mv.survivors)
      /\ ctx.alive = {t \in live(s.board) : t.id \notin token_ids(mv.executing) \ token_ids(mv.survivors)}
      /\ \A y \in ToSet(mv.survivors) :
           /\ destination(y.trajectory) \in DOMAIN ctx.occupancy
           /\ ctx.occupancy[destination(y.trajectory)] = y.token
  BY PhaseDefence DEF Running
<1>2. PICK M : /\ Stage(s, M, mv.executing, mv.survivors)
               /\ ToSet(mv.survivors) = ToSet(mv.executing) \ mv.annihilated
  BY PhaseMoves
<1> HIDE DEF ctx, db, mv
<1>3. m \in M /\ ToSet(mv.survivors) \subseteq M
  BY <1>2, SeqElements DEF Stage, mv
<1>4. m.token \in own_tokens(s, m.color) /\ Goes(s.board, m.token, m.trajectory)
  BY <1>2, <1>3 DEF Stage, Movers
<1>5. origin(m.trajectory) # dest
  BY <1>4 DEF own_tokens, Goes, held, live
<1>6. m.token.id \in token_ids(mv.survivors)
  <2>1. m.token \in ctx.alive
    BY <1>1 DEF Fallen, db
  <2>2. m.token.id \in token_ids(mv.executing)
    BY DEF token_ids, mv
  <2> QED
    BY <1>1, <2>1, <2>2
<1>7. PICK y \in ToSet(mv.survivors) : y.token.id = m.token.id
  BY <1>6 DEF token_ids
<1>8. y = m
  BY <1>2, <1>3, <1>7 DEF Stage, Movers
<1>9. dest \in DOMAIN ctx.occupancy /\ ctx.occupancy[dest] = m.token
  BY <1>1, <1>7, <1>8
<1>10. PICK p \in ToSet(ctx.pending) :
         /\ x[2] = p.square
         /\ \/ x[1] = p.victim
            \/ x[1] = p.holder
            \/ \E f \in ToSet(db.fired) : f.defender = x[1] /\ f.square = x[2]
  BY <1>1 DEF Fallen, db
<1>11. x[1] # p.victim /\ \A f \in ToSet(db.fired) : f.defender # x[1]
  <2>1. p.victim.id \notin ctx.moved
    BY <1>1 DEF Setting
  <2>2. \A f \in ToSet(db.fired) : f.defender.id \notin ctx.moved
    BY <1>1 DEF Fired
  <2>3. x[1].id \in ctx.moved
    BY <1>1, <1>6
  <2> QED
    BY <2>1, <2>2, <2>3
<1>12. x[1] = p.holder
  BY <1>10, <1>11
<1>13. p.square = dest
  BY <1>1, <1>9, <1>12 DEF Setting
<1> QED
  BY <1>5, <1>10, <1>13

\* A phase loses no token and places none but where it moved or fired.
LEMMA Accounted ==
  ASSUME IInv, NEW w, NEW b, PlayedBy(w, b)
  PROVE  EveryTokenAccounted
<1> DEFINE mv == Moves(state, w, b)
           db == Resolved(state, w, b)
           new == Board(state, w, b)
<1>1. /\ Playable(state, w, b) /\ SoundBoard(state.board)
  BY DEF PlayedBy, Playable, WellFormed
<1>2. /\ state'.board = new
      /\ trace'.survivors = ToSet(mv.survivors) /\ trace'.executing = mv.executing
      /\ trace'.annihilated = mv.annihilated
      /\ trace'.captured = db.captured /\ trace'.fired = db.fired
  BY DEF PlayedBy, After
<1>3. SoundBoard(new)
  BY <1>1, NewBoardFacts DEF Board
<1> HIDE DEF mv, db, new
<1>4. died_in(trace') = Dead(mv, db)
  BY <1>2 DEF died_in, captures_of, Dead, captured_ids, captured_tokens
<1>5. Dead(mv, db) \subseteq ids(state.board)
  BY <1>1, DeadWere DEF mv, db
<1>6. ASSUME NEW u \in live(new)
      PROVE  \E t \in live(state.board) : t.id = u.id
  BY <1>1, CapturedIds DEF new
<1>7. \A t \in live(state.board) : t.id \notin Dead(mv, db) <=> \E u \in live(new) : u.id = t.id
  BY <1>1, Survives DEF mv, db, new
<1>8. ids(new) = ids(state.board) \ Dead(mv, db)
  BY <1>6, <1>7 DEF ids
<1>9. ASSUME NEW i \in ids(new)
      PROVE  LET moved == {m \in ToSet(mv.survivors) : m.token.id = i}
                 fired == {f \in ToSet(db.fired) : f.defender.id = i}
             IN  square_of(new, i) \in
                   CASE moved # {} -> {destination(m.trajectory) : m \in moved}
                     [] fired # {} -> {f.square : f \in fired}
                     [] OTHER      -> {square_of(state.board, i)}
  <2> DEFINE moved == {m \in ToSet(mv.survivors) : m.token.id = i}
             fired == {f \in ToSet(db.fired) : f.defender.id = i}
  <2>1. PICK u \in live(new) : u.id = i
    BY <1>9 DEF ids
  <2>2. square_of(new, i) = new[u]
    BY <1>3, <2>1, SquareOf
  <2>3. \A m \in moved : new[u] = destination(m.trajectory) /\ fired = {}
    BY <1>1, <2>1, WhereMoved DEF mv, db, new
  <2>4. \A f \in fired : new[u] = f.square
    BY <1>1, <2>1, WhereFired DEF db, new
  <2>5. ASSUME moved = {}, fired = {} PROVE new[u] = square_of(state.board, i)
    <3>1. i \notin token_ids(mv.survivors) /\ i \notin recapturer_ids(db)
      BY <2>5 DEF token_ids, recapturer_ids
    <3>2. i \notin displaced_ids(mv.survivors, db)
      BY <3>1 DEF displaced_ids
    <3> DEFINE t == db.occupancy[new[u]]
    <3>3. new[u] = state.board[t]
      BY <1>1, <2>1, <3>2, StandsStill DEF mv, db, new
    <3>4. t \in live(state.board) /\ t.id = i
      BY <1>1, <2>1, CapturedIds DEF db, new
    <3> HIDE DEF t
    <3>5. square_of(state.board, i) = state.board[t]
      BY <1>1, <3>4, SquareOf
    <3> QED
      BY <3>3, <3>5
  <2> HIDE DEF moved, fired
  <2>6. CASE moved # {}
    <3>1. fired = {} /\ new[u] \in {destination(m.trajectory) : m \in moved}
      BY <2>3, <2>6
    <3> QED
      BY <2>2, <2>6, <3>1 DEF moved, fired
  <2>7. CASE moved = {} /\ fired # {}
    <3>1. new[u] \in {f.square : f \in fired}
      BY <2>4, <2>7
    <3> QED
      BY <2>2, <2>7, <3>1 DEF moved, fired
  <2>8. CASE moved = {} /\ fired = {}
    BY <2>2, <2>5, <2>8 DEF moved, fired
  <2> QED
    BY <2>6, <2>7, <2>8
<1>10. \A x \in ToSet(db.captured), m \in ToSet(mv.executing) :
         x[1] = m.token => x[2] # origin(m.trajectory)
  BY <1>1, CapturedOnArrival DEF db, mv
<1> QED
  BY <1>2, <1>4, <1>5, <1>8, <1>9, <1>10 DEF EveryTokenAccounted

\* A phase leaves the cooled where they are, and none fires.
LEMMA Inert ==
  ASSUME IInv, NEW w, NEW b, PlayedBy(w, b)
  PROVE  CooledStaysPut
<1> DEFINE mv == Moves(state, w, b)
           db == Resolved(state, w, b)
           ctx == Scene(state, w, b)
           new == Board(state, w, b)
<1>1. /\ Playable(state, w, b) /\ SoundBoard(state.board) /\ state.cooldown \subseteq live(state.board)
  BY DEF PlayedBy, Playable, WellFormed
<1>2. state'.board = new /\ trace'.fired = db.fired
  BY DEF PlayedBy, After
<1>3. /\ Fired(ctx, db, ToSet(ctx.pending)) /\ ctx.alive \subseteq live(state.board)
      /\ ctx.cooldown = state.cooldown
  BY <1>1, PhaseDefence DEF Running, Setting
<1>4. PICK M : /\ Stage(state, M, mv.executing, mv.survivors)
               /\ \A m \in M : m.token \notin state.cooldown
  BY <1>1, PhaseMoves
<1> HIDE DEF mv, db, ctx, new
<1> SUFFICES ASSUME NEW t \in state.cooldown
             PROVE  /\ t \in live(new) => new[t] = state.board[t]
                    /\ t.id \notin recapturer_ids(db)
  BY <1>2 DEF CooledStaysPut, fired_ids, recapturer_ids
<1>5. t.id \notin recapturer_ids(db)
  <2> SUFFICES ASSUME NEW f \in ToSet(db.fired), f.defender.id = t.id PROVE FALSE
    BY DEF recapturer_ids
  <2>1. f.defender \in live(state.board) /\ f.defender \notin state.cooldown
    BY <1>3 DEF Fired
  <2> QED
    BY <1>1, <2>1 DEF SoundBoard
<1>6. t.id \notin token_ids(mv.survivors)
  <2> SUFFICES ASSUME NEW m \in ToSet(mv.survivors), m.token.id = t.id PROVE FALSE
    BY DEF token_ids
  <2>1. m \in M
    BY <1>4, SeqElements DEF Stage
  <2>2. m.token \in live(state.board) /\ m.token \notin state.cooldown
    BY <1>4, <2>1 DEF Stage, Movers, own_tokens
  <2> QED
    BY <1>1, <2>2 DEF SoundBoard
<1>7. ASSUME t \in live(new) PROVE new[t] = state.board[t]
  <2>1. t.id \notin displaced_ids(mv.survivors, db)
    BY <1>5, <1>6 DEF displaced_ids
  <2> DEFINE o == db.occupancy[new[t]]
  <2>2. o \in live(state.board) /\ o.id = t.id
    BY <1>1, <1>7, CapturedIds DEF db, new
  <2>3. new[t] = state.board[o]
    BY <1>1, <1>7, <2>1, StandsStill DEF db, new, mv
  <2> HIDE DEF o
  <2>4. o = t
    BY <1>1, <2>2 DEF SoundBoard
  <2> QED
    BY <2>3, <2>4
<1> QED
  BY <1>5, <1>7

\* UnmovedStill, said of square_of.
LEMMA StillStands ==
  ASSUME NEW s, NEW w, NEW b, Playable(s, w, b), NEW u \in live(Board(s, w, b)),
         u.id \notin MovedIds(w \o b, Moves(s, w, b), Resolved(s, w, b))
  PROVE  square_of(s.board, u.id) = Board(s, w, b)[u]
<1>1. PICK t \in live(s.board) : t.id = u.id /\ Board(s, w, b)[u] = s.board[t]
  BY UnmovedStill
<1>2. SoundBoard(s.board)
  BY DEF Playable, WellFormed
<1> QED
  BY <1>1, <1>2, SquareOf

\* A phase keeps only the reservations whose tokens kept their squares.
LEMMA KeptSquares ==
  ASSUME IInv, NEW w, NEW b, PlayedBy(w, b)
  PROVE  SquaresKept
<1> DEFINE mv == Moves(state, w, b)
           db == Resolved(state, w, b)
           new == Board(state, w, b)
           moved == MovedIds(w \o b, mv, db)
           kept == Carried(state, w, b)
           left == Left(state, w \o b, mv, Effect(state, w, b), db)
           Link == [defender : live(new), protege : live(new), age : Nat \X Nat]
<1>1. Playable(state, w, b)
  BY DEF PlayedBy
<1>2. /\ state'.board = new
      /\ state'.res = [c \in Color |-> only(kept, {rho \in ToSet(kept) : rho.defender.color = c})]
  BY DEF PlayedBy, After
<1>3. /\ kept \in Seq(Link)
      /\ \A x \in ToSet(kept) : \E rho \in ToSet(left) :
           /\ rho \in Pairs(state) /\ x \in Link
           /\ x.defender.id = rho.defender.id /\ x.protege.id = rho.protege.id /\ x.age = rho.age
  BY <1>1, CarriedFacts
<1>4. \A rho \in ToSet(left) :
        /\ rho.defender.id \notin moved
        /\ rho.age[1] = state.phase \/ rho \in ToSet(state.res[rho.defender.color])
        /\ rho.age[1] # state.phase => rho.protege.id \notin moved
        /\ rho.age[1] \in 0..state.phase
  BY <1>1, LeftFacts
<1>5. \A u \in live(new) : u.id \notin moved => square_of(state.board, u.id) = new[u]
  BY <1>1, StillStands
<1>6. state.phase \in Nat
  BY <1>1 DEF Playable, WellFormed
<1> HIDE DEF mv, db, new, moved, kept, left
<1>7. ASSUME NEW c \in Color PROVE ToSet(state'.res[c]) \subseteq ToSet(kept)
  <2> DEFINE T == {rho \in ToSet(kept) : rho.defender.color = c}
  <2>1. state'.res[c] = only(kept, T)
    BY <1>2
  <2> HIDE DEF T, Link
  <2>2. ToSet(only(kept, T)) = ToSet(kept) \cap T
    BY <1>3, OnlyElements
  <2> QED
    BY <2>1, <2>2
<1> SUFFICES ASSUME NEW x \in reservations(state')
             PROVE  /\ x.age[1] < state.phase =>
                         /\ x.age \in {r.age : r \in reservations(state)}
                         /\ square_of(state.board, x.protege.id) = new[x.protege]
                    /\ square_of(state.board, x.defender.id) = new[x.defender]
  BY <1>2 DEF SquaresKept
<1>8. x \in ToSet(kept)
  BY <1>7 DEF reservations, Color
<1>9. PICK rho \in ToSet(left) :
         /\ rho \in Pairs(state) /\ x \in Link
         /\ x.defender.id = rho.defender.id /\ x.protege.id = rho.protege.id /\ x.age = rho.age
  BY <1>3, <1>8
<1>10. x.defender \in live(new) /\ x.protege \in live(new)
  BY <1>9
<1>11. square_of(state.board, x.defender.id) = new[x.defender]
  BY <1>4, <1>5, <1>9, <1>10
<1>12. ASSUME x.age[1] < state.phase
       PROVE  /\ x.age \in {r.age : r \in reservations(state)}
              /\ square_of(state.board, x.protege.id) = new[x.protege]
  <2>1. rho.age[1] # state.phase
    BY <1>6, <1>9, <1>12
  <2>2. rho \in ToSet(state.res[rho.defender.color]) /\ rho.protege.id \notin moved
    BY <1>4, <2>1
  <2>3. rho.defender.color \in Color
    BY <1>9 DEF Pairs, Held, own_tokens, Color
  <2>4. rho \in reservations(state)
    BY <2>2, <2>3 DEF reservations, Color
  <2> QED
    BY <1>5, <1>9, <1>10, <2>2, <2>4
<1> QED
  BY <1>11, <1>12

\* The displaced of closure.py are the tokens that changed their square: a move
\* and a recapture each end on another square than they began.
LEMMA DisplacedMoved ==
  ASSUME NEW s, NEW w, NEW b, Playable(s, w, b), NEW u \in live(Board(s, w, b))
  PROVE  u.id \in displaced_ids(Moves(s, w, b).survivors, Resolved(s, w, b))
           <=> square_of(s.board, u.id) # Board(s, w, b)[u]
<1> DEFINE mv == Moves(s, w, b)
           db == Resolved(s, w, b)
           new == Board(s, w, b)
           t == db.occupancy[new[u]]
<1>1. SoundBoard(s.board)
  BY DEF Playable, WellFormed
<1>2. t \in live(s.board) /\ t.id = u.id /\ u.id \notin captured_ids(db)
  BY CapturedIds
<1>3. u.id \notin displaced_ids(mv.survivors, db) => new[u] = s.board[t]
  BY StandsStill
<1>4. \A m \in ToSet(mv.survivors) : m.token.id = u.id =>
        m.token \in live(s.board) /\ s.board[m.token] # new[u]
  BY WhereMoved
<1>5. \A f \in ToSet(db.fired) : f.defender.id = u.id =>
        f.defender \in live(s.board) /\ s.board[f.defender] # new[u]
  BY WhereFired
<1> HIDE DEF mv, db, new, t
<1>6. square_of(s.board, u.id) = s.board[t]
  BY <1>1, <1>2, SquareOf
<1>7. \A x \in live(s.board) : x.id = u.id => x = t
  BY <1>1, <1>2 DEF SoundBoard
<1>8. ASSUME u.id \in displaced_ids(mv.survivors, db) PROVE s.board[t] # new[u]
  <2>1. CASE u.id \in token_ids(mv.survivors)
    <3>1. PICK m \in ToSet(mv.survivors) : m.token.id = u.id
      BY <2>1 DEF token_ids
    <3> QED
      BY <1>4, <1>7, <3>1
  <2>2. CASE u.id \in recapturer_ids(db)
    <3>1. PICK f \in ToSet(db.fired) : f.defender.id = u.id
      BY <2>2 DEF recapturer_ids
    <3> QED
      BY <1>5, <1>7, <3>1
  <2> QED
    BY <1>8, <2>1, <2>2 DEF displaced_ids
<1> QED
  BY <1>3, <1>6, <1>8 DEF mv, db, new

\* A king that may cool came to where an enemy fell, or from where one fell that
\* it had meant to take.
LEMMA KingTook ==
  ASSUME NEW s, NEW w, NEW b, Playable(s, w, b), NEW u \in live(Board(s, w, b)),
         u.id \in Kings(s, Moves(s, w, b), Resolved(s, w, b))
  PROVE  /\ KingCaptureCooldown
         /\ \E x \in ToSet(Resolved(s, w, b).captured) :
              Board(s, w, b)[u] \in {x[2], s.board[x[1]]}
<1> DEFINE mv == Moves(s, w, b)
           db == Resolved(s, w, b)
           new == Board(s, w, b)
           ctx == Scene(s, w, b)
<1>1. /\ KingCaptureCooldown
      /\ u.id \in king_capture_candidates(s.board, mv.survivors, db)
  BY DEF Kings
<1>2. Fired(ctx, db, ToSet(ctx.pending))
  BY PhaseDefence DEF Running
<1>3. \A m \in ToSet(mv.survivors) : m.token.id = u.id => new[u] = destination(m.trajectory)
  BY WhereMoved
<1>4. \A f \in ToSet(db.fired) : f.defender.id = u.id => new[u] = f.square
  BY WhereFired
<1> HIDE DEF mv, db, new, ctx
<1>5. CASE \E m \in ToSet(mv.survivors) :
             /\ m.token.id = u.id
             /\ occupants(s.board, destination(m.trajectory)) \cap captured_tokens(db) # {}
  <2>1. PICK m \in ToSet(mv.survivors) :
          /\ m.token.id = u.id
          /\ occupants(s.board, destination(m.trajectory)) \cap captured_tokens(db) # {}
    BY <1>5
  <2>2. PICK x \in ToSet(db.captured) : x[1] \in occupants(s.board, destination(m.trajectory))
    BY <2>1 DEF captured_tokens
  <2>3. s.board[x[1]] = new[u]
    BY <1>3, <2>1, <2>2 DEF occupants
  <2> QED
    BY <1>1, <2>3 DEF db, new
<1>6. CASE \E f \in ToSet(db.fired) : f.defender.id = u.id
  <2>1. PICK f \in ToSet(db.fired) : f.defender.id = u.id
    BY <1>6
  <2>2. <<f.captured, f.square>> \in ToSet(db.captured)
    BY <1>2, <2>1 DEF Fired
  <2>3. PICK x \in ToSet(db.captured) : x = <<f.captured, f.square>>
    BY <2>2
  <2>4. x[2] = new[u]
    BY <1>4, <2>1, <2>3
  <2> QED
    BY <1>1, <2>4 DEF db, new
<1> QED
  BY <1>1, <1>5, <1>6 DEF king_capture_candidates

\* A phase cools the displaced and nobody else.
LEMMA Exact ==
  ASSUME IInv, NEW w, NEW b, PlayedBy(w, b)
  PROVE  CooledAsDisplaced
<1> DEFINE mv == Moves(state, w, b)
           db == Resolved(state, w, b)
           new == Board(state, w, b)
           cooled == Cooled(state, w \o b, mv, db)
           gone == displaced_ids(mv.survivors, db)
<1>1. Playable(state, w, b)
  BY DEF PlayedBy
<1>2. /\ state'.board = new /\ trace'.captured = db.captured
      /\ fired_ids' = recapturer_ids(db)
      /\ state'.cooldown \subseteq cooled
      /\ \A t \in cooled : t.typ # "k" => t \in state'.cooldown
  BY DEF PlayedBy, After, fired_ids, recapturer_ids
<1>3. \A t \in live(new) : t.id \in gone <=> square_of(state.board, t.id) # new[t]
  BY <1>1, DisplacedMoved
<1>4. \A t \in live(new) :
        /\ t.typ = "p" => t \notin cooled
        /\ t.typ = "k" /\ t \in cooled => t.id \in Kings(state, mv, db)
        /\ t.typ \notin {"p", "k"} =>
             (t \in cooled <=> t.id \in gone /\ (RecaptureCooldown \/ t.id \notin recapturer_ids(db)))
  BY DEF Cooled, compute_cooldown, Displaced, compute_displaced_tokens, Board
<1>5. \A t \in cooled : t.id \in gone
  <2> TAKE t \in cooled
  <2>1. t.id \in MovedIds(w \o b, mv, db)
    BY <1>1, CooledMoved
  <2> QED
    BY <2>1 DEF MovedIds, Displaced, compute_displaced_tokens
<1>6. \A t \in live(new) : t.id \in Kings(state, mv, db) =>
        /\ KingCaptureCooldown
        /\ \E x \in ToSet(db.captured) : new[t] \in {x[2], state.board[x[1]]}
  BY <1>1, KingTook
<1> HIDE DEF mv, db, new, cooled, gone
<1>7. ASSUME NEW t \in live(new)
      PROVE  LET displaced == square_of(state.board, t.id) # new[t]
             IN  /\ t.typ = "p" => t \notin state'.cooldown
                 /\ t.typ = "k" /\ t \in state'.cooldown =>
                      /\ KingCaptureCooldown /\ displaced
                      /\ \E x \in ToSet(db.captured) : new[t] \in {x[2], state.board[x[1]]}
                 /\ t.typ \notin {"p", "k"} =>
                      (t \in state'.cooldown <=>
                         displaced /\ (RecaptureCooldown \/ t.id \notin recapturer_ids(db)))
  <2>1. t.typ = "p" => t \notin state'.cooldown
    BY <1>2, <1>4
  <2>2. t.typ = "k" /\ t \in state'.cooldown =>
          /\ KingCaptureCooldown /\ square_of(state.board, t.id) # new[t]
          /\ \E x \in ToSet(db.captured) : new[t] \in {x[2], state.board[x[1]]}
    BY <1>2, <1>3, <1>4, <1>5, <1>6
  <2>3. t.typ \notin {"p", "k"} =>
          (t \in state'.cooldown <=>
             square_of(state.board, t.id) # new[t] /\ (RecaptureCooldown \/ t.id \notin recapturer_ids(db)))
    BY <1>2, <1>3, <1>4
  <2> QED
    BY <2>1, <2>2, <2>3
<1> QED
  BY <1>2, <1>7 DEF CooledAsDisplaced

\* Only a phase changes how many phases were played.
LEMMA OnlyPhases ==
  ASSUME [Next]_vars, PhasePlayed
  PROVE  play_phase
  BY DEF Next, phase_limit, vars, PhasePlayed

\* R18 and R6: in each phase of any match exactly the dead leave the board, and
\* everybody else is where it stood, where its surviving move took it or where it
\* fired; a token whose move executed is never captured on its origin.
THEOREM NothingLost == Spec => MaterialAccounted
<1>1. IInv /\ [Next]_vars => [PhasePlayed => EveryTokenAccounted]_vars
  BY OnlyPhases, PhaseStep, Accounted
<1> QED
  BY <1>1, Invariance, PTL DEF Spec, MaterialAccounted

\* L4: in each phase of any match a cooled token keeps its square or dies, and
\* none fires.
THEOREM CooledInert == Spec => CooledIsInert
<1>1. IInv /\ [Next]_vars => [PhasePlayed => CooledStaysPut]_vars
  BY OnlyPhases, PhaseStep, Inert
<1> QED
  BY <1>1, Invariance, PTL DEF Spec, CooledIsInert

\* R13 and R16: in each phase of any match the pieces that cool are exactly
\* those that changed their square, with the exceptions of closure.py.
THEOREM CooledExactly == Spec => CooldownIsExact
<1>1. IInv /\ [Next]_vars => [PhasePlayed => CooledAsDisplaced]_vars
  BY OnlyPhases, PhaseStep, Exact
<1> QED
  BY <1>1, Invariance, PTL DEF Spec, CooldownIsExact

\* WF6: a reservation outlives a phase only if neither of its tokens changed its
\* square in it, or it was declared in it, and keeps its age.
THEOREM ReservationSquares == Spec => ReservationsKeepTheirSquares
<1>1. IInv /\ [Next]_vars => [SquaresKept]_vars
  <2> SUFFICES ASSUME IInv, Next PROVE SquaresKept
    OBVIOUS
  <2>1. CASE play_phase
    BY <2>1, PhaseStep, KeptSquares
  <2>2. CASE phase_limit
    <3>1. state' = state
      BY <2>2 DEF phase_limit
    <3>2. SoundBoard(state.board) /\ \A c \in Color : Standing(state, c)
      BY DEF IInv, WellFormed
    <3> SUFFICES ASSUME NEW rho \in reservations(state)
                 PROVE  /\ rho.age \in {r.age : r \in reservations(state)}
                        /\ square_of(state.board, rho.protege.id) = state.board[rho.protege]
                        /\ square_of(state.board, rho.defender.id) = state.board[rho.defender]
      BY <3>1 DEF SquaresKept
    <3>3. PICK c \in Color : rho \in ToSet(state.res[c])
      BY DEF reservations, Color
    <3>4. rho \in [defender : own_tokens(state, c), protege : own_tokens(state, c), age : Nat \X Nat]
      BY <3>2, <3>3, SeqElements DEF Standing
    <3>5. rho.defender \in live(state.board) /\ rho.protege \in live(state.board)
      BY <3>4 DEF own_tokens
    <3> QED
      BY <3>2, <3>5, SquareOf
  <2> QED
    BY <2>1, <2>2 DEF Next
<1> QED
  BY <1>1, Invariance, PTL DEF Spec, ReservationsKeepTheirSquares

\* The survivors as the trace has them are those of stage A, in order.
LEMMA BatteriesAre ==
  ASSUME NEW s, NEW w, NEW b, Playable(s, w, b)
  PROVE  LET mv == Moves(s, w, b)
         IN  only(mv.executing, ToSet(mv.survivors)) = mv.survivors
<1> DEFINE mv == Moves(s, w, b)
<1>1. mv.survivors = only(mv.executing, ToSet(mv.executing) \ mv.annihilated)
  BY DEF Moves, stages_F_A, collision
<1>2. ToSet(mv.survivors) = ToSet(mv.executing) \ mv.annihilated
  BY PhaseMoves
<1> QED
  BY <1>1, <1>2

\* A phase under reading i fires nobody that was struck first.
LEMMA Outstruck ==
  ASSUME IInv, NEW w, NEW b, PlayedBy(w, b), IntermezzoReading = "i"
  PROVE  FiresBeforeStruck
<1> DEFINE mv == Moves(state, w, b)
           db == Resolved(state, w, b)
           ctx == Scene(state, w, b)
<1>1. Playable(state, w, b)
  BY DEF PlayedBy
<1>2. trace'.fired = db.fired /\ trace'.executing = mv.executing /\ trace'.survivors = ToSet(mv.survivors)
  BY DEF PlayedBy, After
<1>3. Defused(ctx, db) /\ ctx.pending = pending_batteries(state.board, mv.executing, mv.survivors)
  BY <1>1, PhaseDefence
<1>4. only(mv.executing, ToSet(mv.survivors)) = mv.survivors
  BY <1>1, BatteriesAre
<1> HIDE DEF mv, db, ctx
<1>5. batteries(trace') = ToSet(ctx.pending)
  BY <1>2, <1>3, <1>4 DEF batteries
<1> QED
  BY <1>2, <1>3, <1>5 DEF FiresBeforeStruck, Defused

\* M4 under reading i: whoever strikes a defender by an earlier move than the
\* one that attacks its protege defuses the reservation.
THEOREM DefuseFirst ==
  ASSUME IntermezzoReading = "i"
  PROVE  Spec => StruckFirstIsDefused
<1>1. IInv /\ [Next]_vars => [PhasePlayed => FiresBeforeStruck]_vars
  BY OnlyPhases, PhaseStep, Outstruck
<1> QED
  BY <1>1, Invariance, PTL DEF Spec, StruckFirstIsDefused

-----------------------------------------------------------------------------
(***************************************************************************)
(* The harness.  check_trace and check_state read a phase back from its    *)
(* trace and from the position it left; each of their rules is derived     *)
(* here from the phase itself.  What After of PhiProofs does not tell of a *)
(* phase (the reports in the trace, the order of resolution, the outcome)  *)
(* is collected in Reports and in what MovesAre tells of the moves.        *)
(***************************************************************************)
\* A state has its fields.
StateRecord(s) == {"board", "cooldown", "res", "rights", "nu", "phase"} \subseteq DOMAIN s

\* What a phase reports of itself beside what After says: its fizzled and
\* cancelled, its events, its promotions, and how the outcome follows.
Reports(s, w, b, r) ==
  /\ StateRecord(r.state)
  /\ r.trace.fizzled = Moves(s, w, b).fizzled
  /\ r.trace.events = Moves(s, w, b).events
  /\ r.trace.promoted = {x[1] : x \in Chosen(w \o b, Moves(s, w, b))}
  /\ r.trace.cancelled = cancellations(w \o b)
  /\ detect_terminal(r.state.board) \in {"ongoing", r.outcome}
  /\ LET key == public_position_key(r.state.board, r.state.cooldown)
     IN  detect_terminal(r.state.board) = "ongoing" =>
           /\ count(r.state.ledger, key) >= 3 => r.outcome = "draw"
           /\ r.state.nu >= Horizon => r.outcome = "draw"
  /\ \A k \in Cooled(s, w \o b, Moves(s, w, b), Resolved(s, w, b)) \ r.state.cooldown :
       \E x : /\ x.board = r.state.board /\ x.rights = r.state.rights /\ x.res = r.state.res
              /\ x.cooldown = Cooled(s, w \o b, Moves(s, w, b), Resolved(s, w, b))
              /\ ~ has_any_legal_program(x, k.color)

\* phi reports so.
LEMMA PhaseReports ==
  ASSUME NEW s, NEW w, NEW b
  PROVE  Reports(s, w, b, phi(s, w, b))
<1> DEFINE mv     == Moves(s, w, b)
           db     == Resolved(s, w, b)
           progs  == w \o b
           effect == Effect(s, w, b)
           board  == NewBoard(progs, mv, db)
           moved  == MovedIds(progs, mv, db)
           dead   == Dead(mv, db)
           kept   == Kept(s, progs, mv, effect, db)
           res    == [c \in Color |-> only(kept, {rho \in ToSet(kept) : rho.defender.color = c})]
           rights == update_castling_rights(s.rights, s.board, moved)
           kings  == Kings(s, mv, db)
           cooled == Cooled(s, progs, mv, db)
           after  == [board |-> board, cooldown |-> cooled, res |-> res, rights |-> rights,
                      ledger |-> s.ledger, nu |-> s.nu, phase |-> s.phase + 1]
           cooldown == IF kings = {} THEN cooled ELSE relax_king_cooldown_if_stranding(after)
           pawn_moved == \E m \in ToSet(mv.survivors) :
                           m.token.typ = "p" /\ m.token.id \notin captured_ids(db)
           nu     == update_no_progress_counter(s.nu, dead # {}, pawn_moved)
           key    == public_position_key(board, cooldown)
           ledger == update_repetition_ledger(s.ledger, key)
           kings_say == detect_terminal(board)
           outcome1  == IF kings_say = "ongoing" /\ (ledger[key] >= 3 \/ nu >= Horizon)
                        THEN "draw" ELSE kings_say
           trace1 == [fizzled |-> mv.fizzled, executing |-> mv.executing,
                      events |-> mv.events, annihilated |-> mv.annihilated,
                      survivors |-> ToSet(mv.survivors),
                      captured |-> db.captured, fired |-> db.fired,
                      promoted |-> {x[1] : x \in Chosen(progs, mv)},
                      cancelled |-> cancellations(progs)]
           st == [after EXCEPT !.cooldown = cooldown, !.ledger = ledger, !.nu = nu]
           r  == [state |-> st, outcome |-> outcome1, trace |-> trace1]
<1>1. phi(s, w, b) = r
  <2>1. phi(s, w, b) = stages_C_D(s, progs, mv, effect, db)
    BY PhiIs
  <2> HIDE DEF progs, mv, effect, db
  <2> QED
    BY <2>1 DEF stages_C_D, Chosen, NewBoard, Displaced, MovedIds, Dead, Left, Kept, Kings, Cooled
<1>2. /\ st.board = board /\ st.res = res /\ st.rights = rights /\ st.cooldown = cooldown
      /\ st.ledger = ledger /\ st.nu = nu
  OBVIOUS
<1>3. /\ trace1.fizzled = mv.fizzled /\ trace1.events = mv.events
      /\ trace1.promoted = {x[1] : x \in Chosen(progs, mv)}
      /\ trace1.cancelled = cancellations(progs)
  OBVIOUS
<1>4. /\ after.board = board /\ after.rights = rights /\ after.res = res /\ after.cooldown = cooled
  OBVIOUS
<1>5. kings_say \in {"ongoing", "white_wins", "black_wins", "draw"}
  <2> HIDE DEF board
  <2> QED
    BY DEF detect_terminal
<1>6. count(ledger, key) = ledger[key]
  <2>1. key \in DOMAIN ledger
    <3> HIDE DEF key
    <3> QED
      BY DEF update_repetition_ledger
  <2> HIDE DEF ledger, key
  <2> QED
    BY <2>1 DEF count
<1>7. \A k \in cooled \ cooldown : ~ has_any_legal_program(after, k.color)
  <2> HIDE DEF board, after, cooled
  <2> QED
    BY <1>4 DEF relax_king_cooldown_if_stranding
<1>8. kings_say \in {"ongoing", outcome1}
  <2> HIDE DEF kings_say, ledger, key, nu
  <2> QED
    OBVIOUS
<1>9. kings_say = "ongoing" => /\ count(ledger, key) >= 3 => outcome1 = "draw"
                               /\ nu >= Horizon => outcome1 = "draw"
  <2> HIDE DEF kings_say, ledger, key, nu
  <2> QED
    BY <1>6
<1>10. r.state = st /\ r.outcome = outcome1 /\ r.trace = trace1
  OBVIOUS
<1>11. key = public_position_key(st.board, st.cooldown) /\ kings_say = detect_terminal(st.board)
  BY <1>2
<1>12. \A k \in cooled \ cooldown :
         \E x : /\ x.board = board /\ x.rights = rights /\ x.res = res
                /\ x.cooldown = cooled /\ ~ has_any_legal_program(x, k.color)
  <2> HIDE DEF after, board, rights, res, cooled, cooldown
  <2> QED
    BY <1>4, <1>7
<1>13. StateRecord(st)
  <2>1. DOMAIN st = DOMAIN after
    <3> HIDE DEF after, cooldown, ledger, nu
    <3> QED
      OBVIOUS
  <2>2. {"board", "cooldown", "res", "rights", "nu", "phase"} \subseteq DOMAIN after
    <3> HIDE DEF board, rights, res, cooled
    <3> QED
      OBVIOUS
  <2> QED
    BY <2>1, <2>2 DEF StateRecord
<1> HIDE DEF st, trace1, outcome1, kings_say, key, ledger, nu, board, rights, res, cooled, cooldown, r
<1> QED
  BY <1>1, <1>2, <1>3, <1>8, <1>9, <1>10, <1>11, <1>12, <1>13 DEF Reports, cooled

\* A promotion is of a pawn whose move survived, to a type it may take.
LEMMA PromotionOf ==
  ASSUME NEW s, NEW w, NEW b, Playable(s, w, b), NEW x \in Chosen(w \o b, Moves(s, w, b))
  PROVE  /\ x[2] \in Promotable
         /\ \E m \in ToSet(Moves(s, w, b).survivors) :
              m.token \in live(s.board) /\ m.token.id = x[1] /\ m.token.typ = "p"
<1> DEFINE mv == Moves(s, w, b)
           A  == actions(s, "W") \cup actions(s, "B")
<1>1. /\ w \in Seq(actions(s, "W")) /\ b \in Seq(actions(s, "B")) /\ SoundBoard(s.board)
  BY DEF Playable, WellFormed
<1>2. w \in Seq(A) /\ b \in Seq(A)
  BY <1>1
<1>3. ToSet(w \o b) = ToSet(w) \cup ToSet(b)
  <2> HIDE DEF A
  <2> QED
    BY <1>2, ToSetOfConcat
<1>4. ToSet(w) \subseteq actions(s, "W") /\ ToSet(b) \subseteq actions(s, "B")
  BY <1>1, SeqElements
<1>5. PICK a \in ToSet(w \o b) : /\ a.kind = "move" /\ a.promotion # NoPromotion
                                 /\ a.token.id \in token_ids(mv.survivors) /\ x[1] = a.token.id
  BY DEF Chosen, promotion_choices
<1>6. PICK c : a \in actions(s, c)
  BY <1>3, <1>4
<1>7. PICK t \in own_tokens(s, c) : a \in move_actions(s, t) /\ a.token = t
  BY <1>5, <1>6, ActionKinds
<1>8. t.typ = "p"
  <2>1. PICK tau, p : /\ a = Move(t, tau, p)
                      /\ p \in IF t.typ = "p" /\ destination(tau)[2] = LastRank(t.color)
                               THEN Promotable ELSE {NoPromotion}
    BY <1>7 DEF move_actions
  <2>2. a.promotion = p
    BY <2>1 DEF Move
  <2> QED
    BY <1>5, <2>1, <2>2
<1>9. PICK m \in ToSet(mv.survivors) : m.token.id = a.token.id
  BY <1>5 DEF token_ids
<1>10. PICK M : Stage(s, M, mv.executing, mv.survivors)
  BY PhaseMoves
<1>11. ToSet(mv.survivors) \subseteq M /\ Movers(s, M)
  BY <1>10, SeqElements DEF Stage
<1>12. m.token \in live(s.board) /\ t \in live(s.board)
  BY <1>7, <1>9, <1>11 DEF Movers, own_tokens
<1>13. m.token = t
  BY <1>1, <1>7, <1>9, <1>12 DEF SoundBoard
<1> QED
  BY <1>5, <1>7, <1>8, <1>9, <1>12, <1>13, ChosenFacts

\* A token of the new board is the one of its identity on the old board with its
\* promotion, if it has one; nobody becomes a king.
LEMMA Became ==
  ASSUME NEW s, NEW w, NEW b, Playable(s, w, b), NEW u \in live(Board(s, w, b)),
         NEW t \in live(s.board), t.id = u.id
  PROVE  /\ u = promoted(t, Chosen(w \o b, Moves(s, w, b))) /\ u.color = t.color
         /\ u.typ # t.typ => t.id \in {x[1] : x \in Chosen(w \o b, Moves(s, w, b))}
         /\ u.typ = "k" => t.typ = "k"
         /\ \A v \in live(Board(s, w, b)) : v.id = u.id => v = u
<1> DEFINE ch == Chosen(w \o b, Moves(s, w, b))
           new == Board(s, w, b)
           occ == Resolved(s, w, b).occupancy
           up(q) == promoted(occ[q], ch)
<1>1. t = occ[new[u]]
  BY CapturedIds
<1>2. /\ live(new) = {up(q) : q \in DOMAIN occ}
      /\ \A v \in live(new) : new[v] = CHOOSE q \in DOMAIN occ : up(q) = v
  BY DEF Board, NewBoard, apply_promotions, live
<1>3. /\ promoted(t, ch).typ \in {t.typ} \cup Promotable
      /\ promoted(t, ch).color = t.color
  BY PromotedFacts
<1>4. \A v \in live(new) : v.id = u.id => v = u
  BY NewBoardFacts DEF SoundBoard, Board
<1> HIDE DEF ch, new, occ, up
<1>5. up(new[u]) = u
  <2>1. \E q \in DOMAIN occ : up(q) = u
    BY <1>2 DEF new
  <2> QED
    BY <1>2, <2>1 DEF new
<1>6. u = promoted(t, ch)
  BY <1>1, <1>5 DEF up
<1>7. u.typ # t.typ => \E x \in ch : x[1] = t.id
  BY <1>6 DEF promoted
<1> QED
  BY <1>3, <1>4, <1>6, <1>7 DEF Promotable, ch, new

-----------------------------------------------------------------------------
(***************************************************************************)
(* The states that the harness accepts.                                    *)
(***************************************************************************)
\* A sound board has finitely many tokens.
LEMMA FiniteBoard ==
  ASSUME NEW b, SoundBoard(b)
  PROVE  IsFiniteSet(live(b))
<1>1. IsFiniteSet(Squares)
  <2>1. IsFiniteSet(Files) /\ IsFiniteSet(Ranks)
    BY BoardAssumption, FS_Interval DEF Files, Ranks
  <2> QED
    BY <2>1, FS_Product DEF Squares
<1> DEFINE f == [t \in live(b) |-> b[t]]
<1>2. f \in Injection(live(b), Squares)
  BY DEF SoundBoard, Injection, IsInjective
<1> QED
  BY <1>1, <1>2, FS_Injection

\* has_any_legal_program is right: a colour that may act has a token that is free.
LEMMA SomeoneFree ==
  ASSUME NEW s, WellFormed(s), NEW c \in Color, has_any_legal_program(s, c)
  PROVE  \E t \in own_tokens(s, c) : t \notin s.cooldown
<1>1. CASE \E t \in live(s.board) \ s.cooldown : t.color = c
  BY <1>1 DEF own_tokens
<1>2. ASSUME NEW side \in Sides, castle_move(s.board, s.rights, c, side) # {}
      PROVE  \E t \in own_tokens(s, c) : t \notin s.cooldown
  <2>1. PICK m \in castle_move(s.board, s.rights, c, side) : TRUE
    BY <1>2
  <2>2. m.king \in own_tokens(s, c) /\ m.king.typ = "k" /\ <<c, side>> \in s.rights
    BY <2>1, CastleGoes DEF WellFormed
  <2>3. m.king \notin s.cooldown
    BY <2>2 DEF WellFormed, KingsHome, king_token, own_tokens
  <2> QED
    BY <2>2, <2>3
<1>3. ASSUME s.res[c] # <<>>
      PROVE  \E t \in own_tokens(s, c) : t \notin s.cooldown
  <2> DEFINE R == s.res[c]
             Link == [defender : own_tokens(s, c), protege : own_tokens(s, c), age : Nat \X Nat]
  <2>1. R \in Seq(Link) /\ \A i \in DOMAIN R : R[i].defender \notin s.cooldown
    BY DEF WellFormed, Standing
  <2>2. R # <<>>
    BY <1>3
  <2> HIDE DEF R, Link
  <2>3. 1 \in DOMAIN R
    BY <2>1, <2>2
  <2>4. R[1] \in Link
    BY <2>1, <2>3, SeqElements DEF ToSet
  <2>5. R[1].defender \in own_tokens(s, c)
    BY <2>4 DEF Link
  <2> QED
    BY <2>1, <2>3, <2>5
<1> QED
  BY <1>1, <1>2, <1>3 DEF has_any_legal_program, can_displace

\* Of a finite set without two different elements there is at most one.
LEMMA AtMostOne ==
  ASSUME NEW S, IsFiniteSet(S)
  PROVE  /\ Cardinality(S) \in Nat
         /\ Cardinality(S) <= 1 <=> \A x, y \in S : x = y
         /\ Cardinality(S) = 0 <=> S = {}
<1>1. Cardinality(S) \in Nat
  BY FS_CardinalityType
<1>2. Cardinality(S) = 0 <=> S = {}
  BY FS_EmptySet
<1>3. Cardinality(S) = 1 <=> \E x : S = {x}
  BY FS_Singleton
<1> QED
  BY <1>1, <1>2, <1>3

\* The harness accepts a well-formed state with at most one king a colour, where
\* no pawn is cooled and a cooled king can still act.
LEMMA Accepted ==
  ASSUME NEW s, WellFormed(s), NEW allow \in BOOLEAN,
         \A t \in s.cooldown : t.typ # "p" /\ (t.typ = "k" => KingCaptureCooldown),
         \A k \in s.cooldown : k.typ = "k" => has_any_legal_program(s, k.color),
         \A c \in Color : \A k, l \in king_token(s, c) : k = l,
         ~ allow => \A c \in Color : has_king(s.board, c),
         {r.age : r \in ToSet(s.res["W"])} \cap {r.age : r \in ToSet(s.res["B"])} = {},
         s.nu \in 0..Horizon
  PROVE  check_all_state(s, allow)
<1>1. SoundBoard(s.board) /\ s.cooldown \subseteq live(s.board) /\ s.phase \in Nat
  BY DEF WellFormed
<1>2. check_wf1_occupancy_injectivity(s) /\ check_wf2_domain(s)
  BY <1>1 DEF check_wf1_occupancy_injectivity, check_wf2_domain, SoundBoard
<1>3. check_wf3_cooldown_membership(s)
  <2> SUFFICES ASSUME NEW c \in Color, has_king(s.board, c)
               PROVE  ~ own_tokens(s, c) \subseteq s.cooldown
    BY <1>1 DEF check_wf3_cooldown_membership
  <2>1. PICK k \in live(s.board) : k.typ = "k" /\ k.color = c
    BY DEF has_king
  <2>2. CASE k \in s.cooldown
    BY <2>1, <2>2, SomeoneFree
  <2>3. CASE k \notin s.cooldown
    BY <2>1, <2>3 DEF own_tokens
  <2> QED
    BY <2>2, <2>3
<1>4. check_wf4_king_count(s, allow)
  <2> SUFFICES ASSUME NEW c \in Color
               PROVE  /\ Cardinality(king_token(s, c)) <= 1
                      /\ Cardinality(king_token(s, c)) = 0 => allow
    BY DEF check_wf4_king_count
  <2>1. IsFiniteSet(king_token(s, c))
    BY <1>1, FiniteBoard, FS_Subset DEF king_token
  <2>2. ~ allow => king_token(s, c) # {}
    BY DEF has_king, king_token
  <2> QED
    BY <2>1, <2>2, AtMostOne
<1>5. check_wf5_reservation_order(s)
  <2> SUFFICES ASSUME NEW c \in Color, NEW i \in 1..(Len(s.res[c]) - 1)
               PROVE  is_older(s.res[c][i].age, s.res[c][i + 1].age)
    BY DEF check_wf5_reservation_order
  <2> DEFINE R == s.res[c]
  <2>1. /\ R \in Seq([defender : own_tokens(s, c), protege : own_tokens(s, c), age : Nat \X Nat])
        /\ \A k, j \in DOMAIN R : k < j => is_older(R[k].age, R[j].age)
    BY DEF WellFormed, Standing
  <2> HIDE DEF R
  <2>2. Len(R) \in Nat /\ DOMAIN R = 1..Len(R)
    BY <2>1
  <2>3. i \in 1..(Len(R) - 1)
    BY DEF R
  <2>4. i \in DOMAIN R /\ i + 1 \in DOMAIN R /\ i < i + 1
    BY <2>2, <2>3
  <2> QED
    BY <2>1, <2>4 DEF R
<1>6. check_wf6_reservation_referential_integrity(s)
  <2> SUFFICES ASSUME NEW c \in Color, NEW r \in ToSet(s.res[c])
               PROVE  /\ {r.defender, r.protege} \subseteq own_tokens(s, c)
                      /\ r.defender # r.protege
    BY DEF check_wf6_reservation_referential_integrity
  <2> DEFINE R == s.res[c]
             Link == [defender : own_tokens(s, c), protege : own_tokens(s, c), age : Nat \X Nat]
  <2>1. R \in Seq(Link) /\ \A i \in DOMAIN R : R[i].defender # R[i].protege
    BY DEF WellFormed, Standing
  <2>2. PICK i \in DOMAIN R : r = R[i]
    BY DEF ToSet
  <2> HIDE DEF R, Link
  <2>3. r \in Link
    BY <2>1, <2>2, SeqElements DEF ToSet
  <2> QED
    BY <2>1, <2>2, <2>3 DEF Link
<1>7. check_wf7_bookkeeping_ranges(s)
  BY <1>1 DEF check_wf7_bookkeeping_ranges
<1> QED
  BY <1>2, <1>3, <1>4, <1>5, <1>6, <1>7 DEF check_all_state

-----------------------------------------------------------------------------
(***************************************************************************)
(* The reservations that the harness looks at.                             *)
(***************************************************************************)
\* Each reservation of colour c after a phase follows one that survives it.
LEMMA Followed ==
  ASSUME NEW s, NEW w, NEW b, Playable(s, w, b), NEW c \in Color,
         NEW x \in ToSet(phi(s, w, b).state.res[c])
  PROVE  \E rho \in ToSet(Left(s, w \o b, Moves(s, w, b), Effect(s, w, b), Resolved(s, w, b))) :
           /\ x.age = rho.age /\ x.defender.color = c
           /\ rho.defender.id = x.defender.id /\ rho.defender.color = c
<1> DEFINE kept == Carried(s, w, b)
           left == Left(s, w \o b, Moves(s, w, b), Effect(s, w, b), Resolved(s, w, b))
           T == {rho \in ToSet(kept) : rho.defender.color = c}
           Link == [defender : live(Board(s, w, b)), protege : live(Board(s, w, b)), age : Nat \X Nat]
<1>1. phi(s, w, b).state.res[c] = only(kept, T)
  <2>1. PICK r : r = phi(s, w, b) /\ After(s, w, b, r)
    BY PhaseIs
  <2>2. r.state.res = [e \in Color |-> only(kept, {rho \in ToSet(kept) : rho.defender.color = e})]
    BY <2>1 DEF After
  <2> HIDE DEF kept
  <2> QED
    BY <2>1, <2>2
<1>2. /\ kept \in Seq(Link)
      /\ \A y \in ToSet(kept) : \E rho \in ToSet(left) :
           /\ y.defender.id = rho.defender.id /\ y.age = rho.age
           /\ y.defender.color = rho.defender.color
  BY CarriedFacts
<1> HIDE DEF kept, left, Link
<1>3. ToSet(only(kept, T)) = ToSet(kept) \cap T
  <2> HIDE DEF T
  <2> QED
    BY <1>2, OnlyElements
<1> QED
  BY <1>1, <1>2, <1>3 DEF left

\* The ages of a state's two colours' reservations.
AgesApart(s) == {r.age : r \in ToSet(s.res["W"])} \cap {r.age : r \in ToSet(s.res["B"])} = {}

\* WF5: no reservation of one colour has the age of one of the other, as long as
\* a program cannot declare so many that White's numbers reach Black's.
LEMMA AgesStayApart ==
  ASSUME NEW s, NEW w, NEW b, Playable(s, w, b), AgesApart(s), N <= BlackAgeOffset
  PROVE  AgesApart(phi(s, w, b).state)
<1> DEFINE left == Left(s, w \o b, Moves(s, w, b), Effect(s, w, b), Resolved(s, w, b))
           n == phi(s, w, b).state
<1>1. \A c \in Color : \A x \in ToSet(n.res[c]) : \E rho \in ToSet(left) :
        x.age = rho.age /\ rho.defender.color = c
  BY Followed
<1>2. \A rho \in ToSet(left) :
        /\ rho.age[1] = s.phase \/ rho \in ToSet(s.res[rho.defender.color])
        /\ rho.age[1] = s.phase => Numbered(rho, rho.defender.color)
  BY LeftFacts
<1>3. \A c \in Color : \A rho \in ToSet(s.res[c]) : rho.age[1] # s.phase
  <2> SUFFICES ASSUME NEW c \in Color, NEW i \in DOMAIN s.res[c]
               PROVE  s.res[c][i].age[1] # s.phase
    BY DEF ToSet
  <2> DEFINE R == s.res[c]
             Link == [defender : own_tokens(s, c), protege : own_tokens(s, c), age : Nat \X Nat]
  <2>1. R \in Seq(Link) /\ R[i].age[1] < s.phase /\ s.phase \in Nat
    BY DEF Playable, WellFormed, Standing
  <2> HIDE DEF R, Link
  <2>2. R[i] \in Link
    BY <2>1, SeqElements DEF ToSet, R
  <2>3. R[i].age[1] \in Nat
    BY <2>2 DEF Link
  <2> QED
    BY <2>1, <2>3 DEF R
<1> HIDE DEF n, left
<1> SUFFICES ASSUME NEW x \in ToSet(n.res["W"]), NEW y \in ToSet(n.res["B"]), x.age = y.age
             PROVE  FALSE
  BY DEF AgesApart, n
<1>4. PICK rw \in ToSet(left) : x.age = rw.age /\ rw.defender.color = "W"
  BY <1>1 DEF Color
<1>5. PICK rb \in ToSet(left) : y.age = rb.age /\ rb.defender.color = "B"
  BY <1>1 DEF Color
<1>6. CASE x.age[1] = s.phase
  <2>1. Numbered(rw, "W") /\ Numbered(rb, "B")
    BY <1>2, <1>4, <1>5, <1>6
  <2>2. BlackAgeOffset \in Nat /\ N \in Nat
    BY RuleSetAssumption, SMT DEF BlackAgeOffset
  <2>3. rw.age[2] = rb.age[2]
    BY <1>4, <1>5
  <2>4. rw.age[2] \in 0..(N - 1) /\ rb.age[2] \in BlackAgeOffset..(BlackAgeOffset + N - 1)
    BY <2>1, <2>2 DEF Numbered, age_offset
  <2> QED
    BY <2>2, <2>3, <2>4
<1>7. CASE x.age[1] # s.phase
  BY <1>2, <1>4, <1>5, <1>7 DEF AgesApart
<1> QED
  BY <1>6, <1>7

\* R17: where cancellation is on, no reservation that a phase's programs cancel
\* is among those after it.
LEMMA CancelledGone ==
  ASSUME NEW s, NEW w, NEW b, Playable(s, w, b), CancellationEnabled
  PROVE  check_r17_cancellation(phi(s, w, b).state, phi(s, w, b).trace)
<1> DEFINE left == Left(s, w \o b, Moves(s, w, b), Effect(s, w, b), Resolved(s, w, b))
           n == phi(s, w, b).state
           gone == cancellations(w \o b)
           A  == actions(s, "W") \cup actions(s, "B")
<1>1. phi(s, w, b).trace.cancelled = gone
  BY PhaseReports DEF Reports
<1>2. \A c \in Color : \A x \in ToSet(n.res[c]) : \E rho \in ToSet(left) :
        x.age = rho.age /\ x.defender.color = c /\ rho.defender.color = c
  BY Followed
<1>3. \A rho \in ToSet(left) :
        /\ rho.age[1] = s.phase \/ rho \in ToSet(s.res[rho.defender.color])
        /\ rho \notin gone
  BY LeftFacts
<1>4. /\ w \in Seq(actions(s, "W")) /\ b \in Seq(actions(s, "B"))
  BY DEF Playable
<1>5. \A x \in gone : \E c \in Color : x \in ToSet(s.res[c])
  <2>1. w \in Seq(A) /\ b \in Seq(A)
    BY <1>4
  <2>2. ToSet(w \o b) = ToSet(w) \cup ToSet(b)
    <3> HIDE DEF A
    <3> QED
      BY <2>1, ToSetOfConcat
  <2>3. ToSet(w) \subseteq actions(s, "W") /\ ToSet(b) \subseteq actions(s, "B")
    BY <1>4, SeqElements
  <2> SUFFICES ASSUME NEW a \in ToSet(w \o b), a.kind = "cancel"
               PROVE  \E c \in Color : a.reservation \in ToSet(s.res[c])
    BY DEF cancellations
  <2>4. PICK c \in Color : a \in actions(s, c)
    BY <2>2, <2>3 DEF Color
  <2> QED
    BY <2>4, ActionKinds
<1>6. ASSUME NEW c \in Color, NEW x \in ToSet(s.res[c])
      PROVE  /\ x.defender.color = c /\ x.age[1] # s.phase
             /\ \A y \in ToSet(s.res[c]) : x.age = y.age => x = y
  <2> DEFINE R == s.res[c]
             Link == [defender : own_tokens(s, c), protege : own_tokens(s, c), age : Nat \X Nat]
  <2>1. /\ R \in Seq(Link) /\ s.phase \in Nat
        /\ \A i \in DOMAIN R : R[i].age[1] < s.phase
        /\ \A i, j \in DOMAIN R : i < j => is_older(R[i].age, R[j].age)
    BY DEF Playable, WellFormed, Standing
  <2> HIDE DEF R, Link
  <2>2. \A i \in DOMAIN R : R[i] \in Link /\ i \in Nat
    BY <2>1, SeqElements DEF ToSet
  <2>3. \A i \in DOMAIN R : R[i].age[1] \in Nat /\ R[i].age[2] \in Nat /\ R[i].defender.color = c
    BY <2>2 DEF Link, own_tokens
  <2>4. \A i, j \in DOMAIN R : R[i].age = R[j].age => i = j
    <3> SUFFICES ASSUME NEW i \in DOMAIN R, NEW j \in DOMAIN R, R[i].age = R[j].age, i < j
                 PROVE  FALSE
      BY <2>2
    <3>1. is_older(R[i].age, R[j].age)
      BY <2>1
    <3> QED
      BY <2>3, <3>1 DEF is_older
  <2>5. x \in ToSet(R) /\ ToSet(R) = {R[i] : i \in DOMAIN R}
    BY DEF R, ToSet
  <2> QED
    BY <2>1, <2>3, <2>4, <2>5 DEF R
<1> HIDE DEF n, left, gone
<1> SUFFICES ASSUME NEW c \in Color, NEW x \in ToSet(n.res[c]), x \in gone PROVE FALSE
  BY <1>1 DEF check_r17_cancellation, n, Color
<1>7. PICK rho \in ToSet(left) : x.age = rho.age /\ x.defender.color = c /\ rho.defender.color = c
  BY <1>2
<1>8. x \in ToSet(s.res[c])
  BY <1>5, <1>6, <1>7
<1>9. rho \in ToSet(s.res[c])
  BY <1>3, <1>6, <1>7, <1>8
<1> QED
  BY <1>3, <1>6, <1>7, <1>8, <1>9

-----------------------------------------------------------------------------
(***************************************************************************)
(* The state after a phase is accepted.                                    *)
(***************************************************************************)
\* A colour has at most one king.
OneKing(s) == \A c \in Color : \A k, l \in king_token(s, c) : k = l

\* WF4: a phase leaves a colour with at most one king: nobody becomes one.
LEMMA OneKingKept ==
  ASSUME NEW s, NEW w, NEW b, Playable(s, w, b), OneKing(s)
  PROVE  OneKing(phi(s, w, b).state)
<1>1. phi(s, w, b).state.board = Board(s, w, b)
  <2>1. PICK r : r = phi(s, w, b) /\ After(s, w, b, r)
    BY PhaseIs
  <2> QED
    BY <2>1 DEF After
<1> SUFFICES ASSUME NEW c \in Color, NEW k \in live(Board(s, w, b)), NEW l \in live(Board(s, w, b)),
                    k.typ = "k", l.typ = "k", k.color = c, l.color = c
             PROVE  k = l
  BY <1>1 DEF OneKing, king_token
<1>2. PICK t \in live(s.board) : t.id = k.id
  BY CapturedIds
<1>3. PICK u \in live(s.board) : u.id = l.id
  BY CapturedIds
<1>4. /\ t.typ = "k" /\ t.color = c
      /\ \A v \in live(Board(s, w, b)) : v.id = k.id => v = k
  BY <1>2, Became
<1>5. u.typ = "k" /\ u.color = c
  BY <1>3, Became
<1>6. t = u
  BY <1>4, <1>5 DEF OneKing, king_token
<1> QED
  BY <1>2, <1>3, <1>4, <1>6

\* What compute_cooldown cools are pieces; a king only where the rules cool kings.
LEMMA CooledTypes ==
  ASSUME NEW s, NEW w, NEW b, NEW t \in Cooled(s, w \o b, Moves(s, w, b), Resolved(s, w, b))
  PROVE  /\ t.typ # "p"
         /\ t.typ = "k" => /\ KingCaptureCooldown
                           /\ t.id \in Kings(s, Moves(s, w, b), Resolved(s, w, b))
BY DEF Cooled, compute_cooldown, Kings

\* The harness accepts the state after a phase from a state it accepts.
LEMMA StaysAccepted ==
  ASSUME NEW s, NEW w, NEW b, Playable(s, w, b), NEW allow \in BOOLEAN,
         check_all_state(s, allow), s.nu < Horizon, N <= BlackAgeOffset
  PROVE  check_all_state(phi(s, w, b).state, phi(s, w, b).outcome # "ongoing")
<1> DEFINE n == phi(s, w, b).state
           over == phi(s, w, b).outcome # "ongoing"
<1>1. PICK r : r = phi(s, w, b) /\ After(s, w, b, r)
  BY PhaseIs
<1>2. WellFormed(n)
  BY StaysWellFormed
<1>3. \A t \in n.cooldown : t.typ # "p" /\ (t.typ = "k" => KingCaptureCooldown)
  <2>1. n.cooldown \subseteq Cooled(s, w \o b, Moves(s, w, b), Resolved(s, w, b))
    BY <1>1 DEF After
  <2> QED
    BY <2>1, CooledTypes
<1>4. \A k \in n.cooldown : k.typ = "k" => has_any_legal_program(n, k.color)
  BY <1>1 DEF After
<1>5. OneKing(n)
  <2>1. WellFormed(s) /\ check_wf4_king_count(s, allow)
    BY DEF check_all_state, Playable
  <2>2. \A c \in Color : IsFiniteSet(king_token(s, c))
    BY <2>1, FiniteBoard, FS_Subset DEF king_token, WellFormed
  <2>3. OneKing(s)
    BY <2>1, <2>2, AtMostOne DEF check_wf4_king_count, OneKing
  <2> QED
    BY <2>3, OneKingKept
<1>6. ~ over => \A c \in Color : has_king(n.board, c)
  BY <1>1 DEF After
<1>7. AgesApart(n)
  BY AgesStayApart DEF check_all_state, check_wf5_reservation_order, AgesApart
<1>8. n.nu \in 0..Horizon
  <2>1. n.nu \in {0, s.nu + 1} /\ s.nu \in Nat
    BY <1>1 DEF After, Playable, WellFormed
  <2> HIDE DEF n
  <2> QED
    BY <2>1, RuleSetAssumption
<1>9. over \in BOOLEAN
  OBVIOUS
<1> HIDE DEF n, over
<1> SUFFICES check_all_state(n, over)
  BY DEF n, over
<1> QED
  BY <1>2, <1>3, <1>4, <1>5, <1>6, <1>7, <1>8, <1>9, Accepted DEF OneKing, AgesApart
-----------------------------------------------------------------------------
(***************************************************************************)
(* Stage F, as the harness looks at it.                                    *)
(***************************************************************************)
\* What both colours declare.
Declared(s, w, b) == expand_program(s, "W", w) \o expand_program(s, "B", b)

\* The moves of whoever stands where a move goes, and a head-on exchange.
targets_of(board, declared, m) ==
  {x \in ToSet(declared) : x.token \in occupants(board, destination(m.trajectory))}
exchange(board, declared, m) ==
  \E x \in targets_of(board, declared, m) :
    m \in targets_of(board, declared, x) /\ (\/ is_pawn_diagonal_capture(m)
                                             \/ is_pawn_diagonal_capture(x))

\* The moves that execute by the rule of resolve_fizzles when chains are followed
\* for depth steps, given those for one step less.
Level(board, declared, depth, below) ==
  {m \in ToSet(declared) \ resolve_f2(declared) :
     \/ exchange(board, declared, m)
     \/ ~ is_pawn_diagonal_capture(m)
     \/ depth = 0
     \/ targets_of(board, declared, m) \cap below = {}}

\* f[depth] is those moves, for every depth up to n.
Executes(board, declared, n, f) ==
  f = [depth \in 0..n |-> Level(board, declared, depth, f[depth - 1])]

\* These levels exist for any depth.
LEMMA ExecutesExists ==
  ASSUME NEW board, NEW declared
  PROVE  \A n \in Nat : \E f : Executes(board, declared, n, f)
<1> DEFINE I == {n \in Nat : \E f : Executes(board, declared, n, f)}
           level(depth, below) == Level(board, declared, depth, below)
<1>0. \A x, y : level(0, x) = level(0, y)
  BY DEF Level
<1>1. \A n, f : Executes(board, declared, n, f) <=> f = [d \in 0..n |-> level(d, f[d - 1])]
  BY DEF Executes
<1> HIDE DEF level
<1>2. 0 \in I
  <2> DEFINE f == [d \in 0..0 |-> level(0, 0)]
  <2>1. \A d \in 0..0 : level(d, f[d - 1]) = level(0, 0)
    BY <1>0
  <2>2. f = [d \in 0..0 |-> level(d, f[d - 1])]
    BY <2>1
  <2> HIDE DEF f
  <2> QED
    BY <1>1, <2>2
<1>3. ASSUME NEW n \in I PROVE n + 1 \in I
  <2>1. PICK f : f = [d \in 0..n |-> level(d, f[d - 1])]
    BY <1>1, <1>3
  <2>2. n \in Nat /\ n + 1 \in Nat
    BY <1>3
  <2> DEFINE h == [d \in 0..(n + 1) |-> IF d = n + 1 THEN level(d, f[n]) ELSE f[d]]
  <2>3. ASSUME NEW d \in 0..(n + 1) PROVE h[d] = level(d, h[d - 1])
    <3>1. CASE d = n + 1
      <4>1. n \in 0..(n + 1) /\ n # n + 1 /\ d - 1 = n
        BY <2>2, <3>1
      <4>2. h[n] = f[n] /\ h[d] = level(d, f[n])
        BY <3>1, <4>1
      <4> HIDE DEF h
      <4> QED
        BY <4>1, <4>2
    <3>2. CASE d # n + 1
      <4>1. d \in 0..n
        BY <2>2, <3>2
      <4>2. h[d] = f[d]
        BY <3>2
      <4>3. f[d] = level(d, f[d - 1])
        BY <2>1, <4>1
      <4>4. d # 0 => d - 1 \in 0..(n + 1) /\ d - 1 # n + 1
        BY <2>2, <4>1
      <4>5. d # 0 => h[d - 1] = f[d - 1]
        BY <4>4
      <4> HIDE DEF h
      <4> QED
        BY <1>0, <4>2, <4>3, <4>5
    <3> QED
      BY <3>1, <3>2
  <2>4. h = [d \in 0..(n + 1) |-> h[d]]
    OBVIOUS
  <2> HIDE DEF h
  <2>5. h = [d \in 0..(n + 1) |-> level(d, h[d - 1])]
    BY <2>3, <2>4
  <2> QED
    BY <1>1, <2>2, <2>5
<1> HIDE DEF I
<1>4. I = Nat
  <2>1. I \in SUBSET Nat
    BY DEF I
  <2> QED
    BY <1>2, <1>3, <2>1, Induct
<1> QED
  BY <1>4 DEF I

\* resolve_fizzles takes all moves but those of the last level.
LEMMA FizzlesAre ==
  ASSUME NEW board, NEW declared, Len(declared) \in Nat
  PROVE  \E f : /\ Executes(board, declared, Len(declared), f)
               /\ resolve_fizzles(board, declared) = ToSet(declared) \ f[Len(declared)]
<1> DEFINE n == Len(declared)
           f == CHOOSE g : g = [depth \in 0..n |-> Level(board, declared, depth, g[depth - 1])]
<1>1. resolve_fizzles(board, declared) = ToSet(declared) \ f[n]
  BY DEF resolve_fizzles, Level, targets_of, exchange
<1>2. \E g : g = [depth \in 0..n |-> Level(board, declared, depth, g[depth - 1])]
  <2>1. \E g : Executes(board, declared, n, g)
    BY ExecutesExists
  <2> QED
    BY <2>1 DEF Executes
<1>3. f = [depth \in 0..n |-> Level(board, declared, depth, f[depth - 1])]
  BY <1>2
<1> HIDE DEF f
<1> QED
  BY <1>1, <1>3 DEF Executes

\* What stage F of a phase does, and that stage A matches what executes.
LEMMA MovesAre ==
  ASSUME NEW s, NEW w, NEW b, Playable(s, w, b)
  PROVE  LET d  == Declared(s, w, b)
             mv == Moves(s, w, b)
             fz == resolve_fizzles(s.board, d)
         IN  /\ d \in Seq(ToSet(d)) /\ NoRepeats(d) /\ Movers(s, ToSet(d)) /\ Len(d) \in Nat
             /\ fz \subseteq ToSet(d) /\ resolve_f2(d) \subseteq fz
             /\ mv.fizzled = {[move |-> m, cause |-> IF m \in resolve_f2(d) THEN "F2" ELSE "F1"] : m \in fz}
             /\ ToSet(mv.executing) = ToSet(d) \ fz
             /\ mv.events = resolve_annihilation(mv.executing)
             /\ mv.annihilated = annihilated_in(mv.events)
<1> DEFINE d  == Declared(s, w, b)
           mv == Moves(s, w, b)
           fz == resolve_fizzles(s.board, d)
<1>1. SoundBoard(s.board)
  BY DEF Playable, WellFormed
<1>2. d \in Seq(ToSet(d)) /\ NoRepeats(d) /\ Movers(s, ToSet(d))
  BY <1>1, DeclaredFacts DEF Playable, Declared
<1>3. mv = stages_F_A(s.board, d)
  BY DEF Moves, Declared
<1> HIDE DEF d, mv
<1>4. Len(d) \in Nat
  BY <1>2
<1>5. PICK f : /\ Executes(s.board, d, Len(d), f)
               /\ fz = ToSet(d) \ f[Len(d)]
  BY <1>4, FizzlesAre
<1>6. Len(d) \in 0..Len(d)
  BY <1>4
<1>7. f[Len(d)] = Level(s.board, d, Len(d), f[Len(d) - 1])
  BY <1>5, <1>6 DEF Executes
<1>8. resolve_f2(d) \subseteq fz /\ fz \subseteq ToSet(d)
  BY <1>5, <1>7 DEF Level, resolve_f2
<1> HIDE DEF fz
<1>9. mv = collision(execution(d, fz), resolve_annihilation(execution(d, fz).executing))
  BY <1>3 DEF stages_F_A, fz
<1>10. /\ mv.fizzled = {[move |-> m, cause |-> IF m \in resolve_f2(d) THEN "F2" ELSE "F1"] : m \in fz}
       /\ mv.executing = only(d, ToSet(d) \ fz)
       /\ mv.events = resolve_annihilation(mv.executing)
       /\ mv.annihilated = annihilated_in(mv.events)
  BY <1>9 DEF collision, execution
<1>11. ToSet(mv.executing) = ToSet(d) \ fz
  BY <1>2, <1>10, OnlyElements
<1> HIDE DEF mv
<1> QED
  BY <1>2, <1>4, <1>8, <1>10, <1>11 DEF d, mv, fz

\* What fizzles by F1 and what by F2.
LEMMA FizzledByCause ==
  ASSUME NEW s, NEW w, NEW b, Playable(s, w, b)
  PROVE  LET d  == Declared(s, w, b)
             fz == resolve_fizzles(s.board, d)
         IN  /\ fizzled_by(phi(s, w, b).trace, "F2") = resolve_f2(d)
             /\ fizzled_by(phi(s, w, b).trace, "F1") = fz \ resolve_f2(d)
<1> DEFINE d  == Declared(s, w, b)
           fz == resolve_fizzles(s.board, d)
           fizzled == phi(s, w, b).trace.fizzled
           f2 == resolve_f2(d)
<1>1. f2 \subseteq fz
  BY MovesAre
<1>2. fizzled = {[move |-> m, cause |-> IF m \in f2 THEN "F2" ELSE "F1"] : m \in fz}
  BY PhaseReports, MovesAre DEF Reports
<1> HIDE DEF d, fz, fizzled, f2
<1>3. /\ {o.move : o \in {x \in fizzled : x.cause = "F2"}} = f2
      /\ {o.move : o \in {x \in fizzled : x.cause = "F1"}} = fz \ f2
  <2> DEFINE rec(m) == [move |-> m, cause |-> IF m \in f2 THEN "F2" ELSE "F1"]
  <2>1. \A m : rec(m).move = m /\ (rec(m).cause = "F2" <=> m \in f2)
                /\ (rec(m).cause = "F1" <=> m \notin f2)
    OBVIOUS
  <2>2. fizzled = {rec(m) : m \in fz}
    BY <1>2
  <2> HIDE DEF rec
  <2> QED
    BY <1>1, <2>1, <2>2
<1> QED
  BY <1>3 DEF fizzled_by, d, fz, fizzled, f2

\* R2: moves that fizzle on one square are of both colours and, unless the scope
\* is wider, all pawns'.
LEMMA FizzlesTogether ==
  ASSUME NEW s, NEW w, NEW b, Playable(s, w, b)
  PROVE  check_r2_fizzle_f2(phi(s, w, b).trace)
<1> DEFINE d == Declared(s, w, b)
           f2 == resolve_f2(d)
           at(m) == {x \in ToSet(d) : destination(x.trajectory) = destination(m.trajectory)}
<1>1. fizzled_by(phi(s, w, b).trace, "F2") = f2
  BY FizzledByCause
<1>2. \A m \in ToSet(d) : m.color \in Color
  BY MovesAre DEF Movers
<1> HIDE DEF d
<1>3. \A m \in f2 : /\ m \in ToSet(d) /\ \E x \in at(m) : x.color # m.color
                    /\ FizzleScope = "both_pawns" => \A x \in at(m) : x.token.typ = "p"
  BY DEF resolve_f2
<1>4. ASSUME NEW m \in f2, NEW x \in at(m) PROVE x \in f2
  <2>1. x \in ToSet(d) /\ at(x) = at(m) /\ m \in at(m)
    BY <1>3, <1>4
  <2>2. \E y \in at(x) : y.color # x.color
    BY <1>3, <2>1
  <2> QED
    BY <1>3, <2>1, <2>2 DEF resolve_f2
<1> HIDE DEF f2
<1> SUFFICES ASSUME NEW m \in f2
             PROVE  LET movers == {x \in f2 : destination(x.trajectory) = destination(m.trajectory)}
                    IN  /\ {x.color : x \in movers} = Color
                        /\ FizzleScope = "both_pawns" => \A x \in movers : x.token.typ = "p"
  BY <1>1 DEF check_r2_fizzle_f2
<1>5. {x \in f2 : destination(x.trajectory) = destination(m.trajectory)} = at(m)
  BY <1>3, <1>4
<1>6. PICK x \in at(m) : x.color # m.color
  BY <1>3
<1>7. {y.color : y \in at(m)} = Color
  <2>1. m \in at(m)
    BY <1>3
  <2> QED
    BY <1>2, <1>6, <2>1 DEF Color
<1> HIDE DEF at
<1> QED
  BY <1>3, <1>5, <1>7
\* R16: a token whose move fizzled and that did not fire stays where it was and
\* is not cooled.
LEMMA FizzledInert ==
  ASSUME NEW s, NEW w, NEW b, Playable(s, w, b)
  PROVE  LET r == phi(s, w, b) IN check_r16_fizzled_inertness(s, r.state, r.trace)
<1> DEFINE n == phi(s, w, b).state
           tr == phi(s, w, b).trace
           d  == Declared(s, w, b)
           fz == resolve_fizzles(s.board, d)
           mv == Moves(s, w, b)
           db == Resolved(s, w, b)
<1>1. /\ n.board = Board(s, w, b) /\ tr.fired = db.fired
      /\ n.cooldown \subseteq Cooled(s, w \o b, mv, db)
  <2>1. PICK r : r = phi(s, w, b) /\ After(s, w, b, r)
    BY PhaseIs
  <2> QED
    BY <2>1 DEF After
<1>2. \A o \in tr.fizzled : o.move \in fz
  <2>1. tr.fizzled = {[move |-> m, cause |-> IF m \in resolve_f2(d) THEN "F2" ELSE "F1"] : m \in fz}
    BY PhaseReports, MovesAre DEF Reports
  <2> HIDE DEF d, fz, tr
  <2> QED
    BY <2>1
<1>3. /\ \A m, x \in ToSet(d) : m.token.id = x.token.id => m = x
      /\ fz \subseteq ToSet(d) /\ ToSet(mv.executing) = ToSet(d) \ fz
  BY MovesAre DEF Movers
<1>4. ToSet(mv.survivors) \subseteq ToSet(mv.executing)
  BY PhaseMoves DEF Stage
<1> SUFFICES ASSUME NEW o \in tr.fizzled, o.move.token.id \notin defender_ids(tr)
             PROVE  /\ \A t \in live(s.board), u \in live(n.board) :
                         t.id = u.id /\ t.id = o.move.token.id => n.board[u] = s.board[t]
                    /\ o.move.token.id \notin {t.id : t \in n.cooldown}
  BY DEF check_r16_fizzled_inertness
<1> HIDE DEF n, tr, d, fz
<1>5. o.move.token.id \notin token_ids(mv.survivors)
  BY <1>2, <1>3, <1>4 DEF token_ids
<1>6. o.move.token.id \notin displaced_ids(mv.survivors, db)
  BY <1>1, <1>5 DEF displaced_ids, recapturer_ids, defender_ids
<1>7. ASSUME NEW t \in live(s.board), NEW u \in live(n.board), t.id = u.id, t.id = o.move.token.id
      PROVE  n.board[u] = s.board[t]
  <2>1. u \in live(Board(s, w, b)) /\ u.id \notin displaced_ids(mv.survivors, db)
    BY <1>1, <1>6, <1>7
  <2>2. \A x \in live(s.board) : x.id = u.id => x = db.occupancy[Board(s, w, b)[u]]
    BY <2>1, CapturedIds
  <2>3. Board(s, w, b)[u] = s.board[db.occupancy[Board(s, w, b)[u]]]
    BY <2>1, StandsStill
  <2>4. t = db.occupancy[Board(s, w, b)[u]]
    BY <1>7, <2>2
  <2> QED
    BY <1>1, <2>3, <2>4
<1>8. ASSUME NEW t \in n.cooldown PROVE t.id # o.move.token.id
  <2>1. t.id \in MovedIds(w \o b, mv, db)
    BY <1>1, CooledMoved
  <2>2. MovedIds(w \o b, mv, db) \subseteq displaced_ids(mv.survivors, db)
    BY DEF MovedIds, Displaced, compute_displaced_tokens
  <2> QED
    BY <1>6, <2>1, <2>2
<1> QED
  BY <1>7, <1>8

\* R3: every event is a pair of moves in conflict.
LEMMA EventsConflict ==
  ASSUME NEW executing
  PROVE  \A e \in resolve_annihilation(executing) : conflicts(e[1].trajectory, e[2].trajectory)
<1> DEFINE good(E) == \A e \in E : conflicts(e[1].trajectory, e[2].trajectory)
<1>1. PICK n : n \in Nat /\ DOMAIN RankedPairs = 1..n
  <2>1. Len(RankedPairs) \in Nat /\ DOMAIN RankedPairs = 1..Len(RankedPairs)
    BY RankedPairsElements
  <2> QED
    BY <2>1
<1>2. PICK g : MeetRun(executing, RankedPairs, n, g) /\ resolve_annihilation(executing) = g[n]
  BY <1>1, AnnihilationIs
<1>3. g[0] = {} /\ \A k \in 1..n : g[k] = meets(executing, g[k - 1], RankedPairs[k])
  BY <1>2 DEF MeetRun
<1> DEFINE I == {k \in 0..n : good(g[k])}
<1>4. 0 \in I
  BY <1>1, <1>3
<1>5. \A k \in 0..(n - 1) : k \in I => k + 1 \in I
  <2> SUFFICES ASSUME NEW k \in 0..(n - 1), good(g[k]) PROVE k + 1 \in 0..n /\ good(g[k + 1])
    OBVIOUS
  <2>1. k + 1 \in 1..n /\ (k + 1) - 1 = k /\ k + 1 \in 0..n
    BY <1>1
  <2>2. g[k + 1] = meets(executing, g[k], RankedPairs[k + 1])
    BY <1>3, <2>1
  <2>3. \A x \in meets(executing, g[k], RankedPairs[k + 1]) :
          x \in g[k] \/ conflicts(x[1].trajectory, x[2].trajectory)
    BY DEF meets
  <2> QED
    BY <2>1, <2>2, <2>3
<1> HIDE DEF I
<1>6. \A k \in 0..n : k \in I
  BY <1>1, <1>4, <1>5, InductTo
<1>7. n \in I
  BY <1>1, <1>6
<1> QED
  BY <1>2, <1>7 DEF I

\* R3, R4 and R5, as the trace of a phase has them.
LEMMA StageASilent ==
  ASSUME NEW s, NEW w, NEW b, Playable(s, w, b)
  PROVE  LET tr == phi(s, w, b).trace
         IN  /\ check_r3_edge_conflict(tr) /\ check_r4_annihilation_matching(tr)
             /\ check_r5_one_survivor_per_destination(tr)
<1> DEFINE tr == phi(s, w, b).trace
           mv == Moves(s, w, b)
<1>1. /\ tr.executing = mv.executing /\ tr.annihilated = mv.annihilated
      /\ tr.survivors = ToSet(mv.survivors)
  <2>1. PICK r : r = phi(s, w, b) /\ After(s, w, b, r)
    BY PhaseIs
  <2> QED
    BY <2>1 DEF After
<1>2. tr.events = mv.events
  BY PhaseReports DEF Reports
<1>3. mv.events = resolve_annihilation(mv.executing) /\ mv.annihilated = annihilated_in(mv.events)
  BY MovesAre
<1>4. PICK M : Stage(s, M, mv.executing, mv.survivors)
  BY PhaseMoves
<1> HIDE DEF tr, mv
<1>5. check_r3_edge_conflict(tr)
  BY <1>2, <1>3, EventsConflict DEF check_r3_edge_conflict
<1>6. check_r4_annihilation_matching(tr)
  BY <1>1, <1>3 DEF check_r4_annihilation_matching
<1>7. check_r5_one_survivor_per_destination(tr)
  BY <1>1, <1>4, OneArrival DEF check_r5_one_survivor_per_destination
<1> QED
  BY <1>5, <1>6, <1>7 DEF tr
-----------------------------------------------------------------------------
(***************************************************************************)
(* Stage B, as the harness looks at it.                                    *)
(***************************************************************************)
\* What the trace has of stage B, and who moved or fired.
LEMMA TraceOfB ==
  ASSUME NEW s, NEW w, NEW b, Playable(s, w, b)
  PROVE  LET tr == phi(s, w, b).trace
             db == Resolved(s, w, b)
             mv == Moves(s, w, b)
         IN  /\ tr.captured = db.captured /\ tr.fired = db.fired /\ tr.executing = mv.executing
             /\ tr.survivors = ToSet(mv.survivors)
             /\ \A x \in ToSet(db.captured) : x[1] \in live(s.board)
             /\ \A f \in ToSet(db.fired) :
                  /\ f.defender \in live(s.board) /\ s.board[f.defender] # f.square
                  /\ f.defender.id \notin token_ids(mv.executing)
             /\ \A i, j \in DOMAIN db.fired : db.fired[i].defender = db.fired[j].defender => i = j
<1> DEFINE tr == phi(s, w, b).trace
           db == Resolved(s, w, b)
           mv == Moves(s, w, b)
           ctx == Scene(s, w, b)
<1>1. tr.captured = db.captured /\ tr.fired = db.fired /\ tr.executing = mv.executing
      /\ tr.survivors = ToSet(mv.survivors)
  <2>1. PICK r : r = phi(s, w, b) /\ After(s, w, b, r)
    BY PhaseIs
  <2> QED
    BY <2>1 DEF After
<1>2. /\ Running(ctx, db, ToSet(ctx.pending))
      /\ ctx.board = s.board /\ ctx.moved = token_ids(mv.survivors)
      /\ ctx.alive = {t \in live(s.board) : t.id \notin token_ids(mv.executing) \ token_ids(mv.survivors)}
  BY PhaseDefence
<1> HIDE DEF tr, db, mv, ctx
<1>3. \A x \in ToSet(db.captured) : x[1] \in live(s.board)
  BY <1>2 DEF Running, Fallen
<1>4. \A f \in ToSet(db.fired) :
        /\ f.defender \in live(s.board) /\ s.board[f.defender] # f.square
        /\ f.defender.id \notin token_ids(mv.executing)
  BY <1>2 DEF Running, Fired
<1>5. \A i, j \in DOMAIN db.fired : db.fired[i].defender = db.fired[j].defender => i = j
  BY <1>2 DEF Running, Fired
<1> QED
  BY <1>1, <1>3, <1>4, <1>5 DEF tr, db, mv

\* R6: who moved is not captured where it was.
LEMMA VacatedSquare ==
  ASSUME NEW s, NEW w, NEW b, Playable(s, w, b)
  PROVE  check_r6_vacated_square(s, phi(s, w, b).trace)
<1> DEFINE tr == phi(s, w, b).trace
<1> SUFFICES ASSUME NEW x \in ToSet(tr.captured), NEW t \in live(s.board),
                    x[1].id = t.id, t.id \in executing_ids(tr)
             PROVE  x[2] # s.board[t]
  BY DEF check_r6_vacated_square
<1>1. /\ tr.captured = Resolved(s, w, b).captured /\ tr.executing = Moves(s, w, b).executing
      /\ \A y \in ToSet(Resolved(s, w, b).captured) : y[1] \in live(s.board)
  BY TraceOfB
<1>2. PICK m \in ToSet(Moves(s, w, b).executing) : m.token.id = t.id
  BY <1>1 DEF executing_ids, token_ids
<1>3. m.token \in live(s.board) /\ origin(m.trajectory) = s.board[m.token]
  <2>1. Movers(s, ToSet(Declared(s, w, b)))
        /\ ToSet(Moves(s, w, b).executing) \subseteq ToSet(Declared(s, w, b))
    BY MovesAre
  <2> QED
    BY <1>2, <2>1 DEF Movers, own_tokens, Goes
<1>4. SoundBoard(s.board)
  BY DEF Playable, WellFormed
<1>5. x[1] = t /\ m.token = t
  BY <1>1, <1>2, <1>3, <1>4 DEF SoundBoard
<1> HIDE DEF tr
<1> QED
  BY <1>1, <1>2, <1>3, <1>5, CapturedOnArrival

\* R7: who fired is not captured where it stood.
LEMMA FiredFromHome ==
  ASSUME NEW s, NEW w, NEW b, Playable(s, w, b)
  PROVE  check_r7_intermezzo_precedence(s, phi(s, w, b).trace)
<1> DEFINE tr == phi(s, w, b).trace
           db == Resolved(s, w, b)
           ctx == Scene(s, w, b)
<1>1. /\ Running(ctx, db, ToSet(ctx.pending)) /\ Setting(ctx) /\ ctx.board = s.board
  BY PhaseDefence
<1>2. /\ tr.captured = db.captured /\ tr.fired = db.fired
      /\ \A y \in ToSet(db.captured) : y[1] \in live(s.board)
      /\ \A f \in ToSet(db.fired) : f.defender \in live(s.board) /\ s.board[f.defender] # f.square
  BY TraceOfB
<1>3. SoundBoard(s.board)
  BY DEF Playable, WellFormed
<1> HIDE DEF tr, db, ctx
<1> SUFFICES ASSUME NEW x \in ToSet(tr.captured), NEW t \in live(s.board),
                    x[1].id = t.id, t.id \in defender_ids(tr)
             PROVE  x[2] # s.board[t]
  BY DEF check_r7_intermezzo_precedence, tr
<1>4. PICK f \in ToSet(db.fired) : f.defender.id = t.id
  BY <1>2 DEF defender_ids
<1>5. x[1] = t /\ f.defender = t
  BY <1>2, <1>3, <1>4 DEF SoundBoard
<1>6. f.defender.id \notin ctx.moved
  BY <1>1, <1>4 DEF Running, Fired
<1>7. PICK p \in ToSet(ctx.pending) :
        /\ x[2] = p.square
        /\ \/ x[1] = p.victim /\ x[1] \notin fired_defenders(db)
           \/ x[1] = p.holder
           \/ \E g \in ToSet(db.fired) : g.defender = x[1] /\ g.square = x[2]
  BY <1>1, <1>2 DEF Running, Fallen
<1>8. x[1] \in fired_defenders(db)
  BY <1>4, <1>5 DEF fired_defenders
<1>9. x[1] # p.holder
  BY <1>1, <1>5, <1>6 DEF Setting
<1> QED
  BY <1>2, <1>5, <1>7, <1>8, <1>9

\* R9 and R10: no defender fires twice, and none that moved.
LEMMA FiresOnce ==
  ASSUME NEW s, NEW w, NEW b, Playable(s, w, b)
  PROVE  LET tr == phi(s, w, b).trace
         IN  check_r9_defender_fires_once(tr) /\ check_r10_mover_as_defender_forbidden(tr)
<1> DEFINE tr == phi(s, w, b).trace
           F  == Resolved(s, w, b).fired
<1>1. /\ tr.fired = F /\ tr.executing = Moves(s, w, b).executing
      /\ \A f \in ToSet(F) : f.defender \in live(s.board)
                             /\ f.defender.id \notin token_ids(Moves(s, w, b).executing)
      /\ \A i, j \in DOMAIN F : F[i].defender = F[j].defender => i = j
  BY TraceOfB
<1>2. SoundBoard(s.board)
  BY DEF Playable, WellFormed
<1> HIDE DEF tr, F
<1>3. \A i \in DOMAIN F : F[i].defender \in live(s.board)
  BY <1>1 DEF ToSet
<1>4. check_r9_defender_fires_once(tr)
  BY <1>1, <1>2, <1>3 DEF check_r9_defender_fires_once, SoundBoard
<1>5. check_r10_mover_as_defender_forbidden(tr)
  BY <1>1 DEF check_r10_mover_as_defender_forbidden, defender_ids, executing_ids
<1> QED
  BY <1>4, <1>5 DEF tr
\* R12: the captures are fewer than the tokens: none is captured twice, and
\* whoever holds the square of a capture at the end was not captured.
LEMMA CapturesEnd ==
  ASSUME NEW s, NEW w, NEW b, Playable(s, w, b), live(s.board) # {}
  PROVE  check_r12_cascade_termination(s, phi(s, w, b).trace)
<1> DEFINE cap == Resolved(s, w, b).captured
           db  == Resolved(s, w, b)
           ctx == Scene(s, w, b)
           L   == live(s.board)
           C   == {x[1] : x \in ToSet(cap)}
           u   == [i \in DOMAIN cap |-> cap[i][1]]
<1>1. Running(ctx, db, ToSet(ctx.pending)) /\ ctx.board = s.board
  BY PhaseDefence
<1>2. /\ phi(s, w, b).trace.captured = cap /\ \A x \in ToSet(cap) : x[1] \in L
  BY TraceOfB
<1>3. IsFiniteSet(L)
  BY FiniteBoard DEF Playable, WellFormed
<1>4. /\ cap \in Seq(L \X Squares) /\ db.alive = ctx.alive \ C
      /\ \A i, j \in DOMAIN cap : cap[i][1] = cap[j][1] => i = j
  <2> HIDE DEF db, ctx
  <2> QED
    BY <1>1 DEF Running, Fallen, db
<1>5. Len(cap) \in Nat /\ DOMAIN cap = 1..Len(cap)
  BY <1>4
<1>6. C # L
  <2>1. CASE ToSet(cap) = {}
    BY <2>1
  <2>2. CASE ToSet(cap) # {}
    <3>1. PICK x \in ToSet(cap) : TRUE
      BY <2>2
    <3> HIDE DEF ctx
    <3>2. PICK p \in ToSet(ctx.pending) : x[2] = p.square
      BY <1>1, <3>1 DEF Running, Fallen
    <3>3. p.square \in DOMAIN db.occupancy
      BY <1>1, <3>2 DEF Running, Untouched
    <3>4. db.occupancy[p.square] \in db.alive
      BY <1>1, <3>3 DEF Running, Placed
    <3>5. ctx.alive \subseteq L
      <4>1. Setting(ctx)
        BY PhaseDefence DEF ctx
      <4> QED
        BY <1>1, <4>1 DEF Setting
    <3> HIDE DEF db, L, C
    <3> QED
      BY <1>4, <3>4, <3>5
  <2> QED
    BY <2>1, <2>2
<1> HIDE DEF db, ctx
<1>7. u \in Seq(L) /\ NoRepeats(u) /\ Len(u) = Len(cap) /\ ToSet(u) = C
  <2>1. \A i \in DOMAIN cap : cap[i] \in ToSet(cap)
    BY DEF ToSet
  <2>2. \A i \in 1..Len(cap) : cap[i][1] \in L
    BY <1>2, <1>5, <2>1
  <2>3. u \in [1..Len(cap) -> L] /\ DOMAIN u = 1..Len(cap)
    BY <1>5, <2>2
  <2>4. u \in Seq(L) /\ Len(u) = Len(cap)
    BY <1>5, <2>3
  <2>5. NoRepeats(u)
    BY <1>4 DEF NoRepeats
  <2>6. ToSet(u) = C
    BY DEF ToSet
  <2> QED
    BY <2>4, <2>5, <2>6
<1> HIDE DEF cap, u, C, L
<1>8. Cardinality(C) = Len(cap) /\ IsFiniteSet(C)
  BY <1>7, PendingCount
<1>9. C \subseteq L
  BY <1>2 DEF C
<1>10. Cardinality(L) \in Nat /\ Cardinality(C) \in Nat
  BY <1>3, <1>8, FS_CardinalityType
<1>11. Cardinality(C) <= Cardinality(L) /\ Cardinality(C) # Cardinality(L)
  BY <1>3, <1>6, <1>9, FS_Subset
<1> QED
  BY <1>2, <1>8, <1>10, <1>11 DEF check_r12_cascade_termination, L

-----------------------------------------------------------------------------
(***************************************************************************)
(* Stages C and D, as the harness looks at them.                           *)
(***************************************************************************)
\* R14: a promoted token changed its type and is cooled.
LEMMA PromotedCool ==
  ASSUME NEW s, NEW w, NEW b, Playable(s, w, b)
  PROVE  LET r == phi(s, w, b) IN check_r14_promotion(s, r.state, r.trace)
<1> DEFINE n  == phi(s, w, b).state
           ch == Chosen(w \o b, Moves(s, w, b))
           mv == Moves(s, w, b)
           db == Resolved(s, w, b)
           bd == Board(s, w, b)
<1>1. /\ n.board = bd
      /\ \A t \in Cooled(s, w \o b, mv, db) : t.typ # "k" => t \in n.cooldown
  <2>1. PICK r : r = phi(s, w, b) /\ After(s, w, b, r)
    BY PhaseIs
  <2> QED
    BY <2>1 DEF After
<1>2. phi(s, w, b).trace.promoted = {x[1] : x \in ch}
  BY PhaseReports DEF Reports
<1> SUFFICES ASSUME NEW t \in live(s.board), NEW u \in live(bd), t.id = u.id,
                    NEW x \in ch, x[1] = t.id
             PROVE  t.typ # u.typ /\ u \in n.cooldown
  BY <1>1, <1>2 DEF check_r14_promotion
<1>3. PICK m \in ToSet(mv.survivors) : m.token \in live(s.board) /\ m.token.id = t.id /\ m.token.typ = "p"
  BY PromotionOf
<1>4. t.typ = "p"
  BY <1>3 DEF Playable, WellFormed, SoundBoard
<1>5. u = promoted(t, ch)
  BY Became
<1>6. u.typ \in Promotable
  <2>1. \A y \in ch : y[2] \in Promotable
    BY PromotionOf
  <2>2. t = [id |-> t.id, color |-> t.color, typ |-> t.typ]
    BY DEF Playable, WellFormed, SoundBoard
  <2> HIDE DEF ch
  <2>3. (CHOOSE y \in ch : y[1] = t.id) \in ch
    OBVIOUS
  <2> QED
    BY <1>5, <2>1, <2>2, <2>3 DEF promoted
<1>7. u.id \in token_ids(mv.survivors) /\ u.id \notin captured_ids(db)
  <2>1. u.id \notin captured_ids(db)
    BY CapturedIds
  <2> QED
    BY <1>3, <2>1 DEF token_ids
<1>8. u.id \notin recapturer_ids(db)
  <2>1. \A f \in ToSet(db.fired) : f.defender.id \notin token_ids(mv.executing)
    BY TraceOfB
  <2>2. token_ids(mv.survivors) \subseteq token_ids(mv.executing)
    BY PhaseMoves DEF Stage, token_ids
  <2> QED
    BY <1>7, <2>1, <2>2 DEF recapturer_ids
<1>9. u \in Displaced(w \o b, mv, db)
  <2>1. u \in live(NewBoard(w \o b, mv, db))
    BY DEF Board
  <2> QED
    BY <1>7, <2>1 DEF Displaced, compute_displaced_tokens, displaced_ids
<1>10. u \in Cooled(s, w \o b, mv, db)
  BY <1>6, <1>8, <1>9 DEF Cooled, compute_cooldown, Promotable
<1> QED
  BY <1>1, <1>4, <1>6, <1>10 DEF Promotable

\* WF2, WF7 and R18: identities keep their colours, and their types unless they
\* promoted; none appears, no right to castle comes back and the phase advances.
LEMMA IdentitiesKept ==
  ASSUME NEW s, NEW w, NEW b, Playable(s, w, b)
  PROVE  LET r == phi(s, w, b)
         IN  /\ check_wf2_type_constancy(s, r.state, r.trace.promoted)
             /\ check_wf7_bookkeeping_monotone(s, r.state)
             /\ check_r18_token_conservation(s, r.state)
<1> DEFINE n  == phi(s, w, b).state
           promoted_ids == phi(s, w, b).trace.promoted
           bd == Board(s, w, b)
<1>1. /\ n.board = bd /\ n.phase = s.phase + 1
      /\ n.rights = update_castling_rights(s.rights, s.board, MovedIds(w \o b, Moves(s, w, b), Resolved(s, w, b)))
  <2>1. PICK r : r = phi(s, w, b) /\ After(s, w, b, r)
    BY PhaseIs
  <2> QED
    BY <2>1 DEF After
<1>2. promoted_ids = {x[1] : x \in Chosen(w \o b, Moves(s, w, b))}
  BY PhaseReports DEF Reports
<1> HIDE DEF n, promoted_ids
<1>3. check_wf2_type_constancy(s, n, promoted_ids)
  BY <1>1, <1>2, Became DEF check_wf2_type_constancy
<1>4. check_wf7_bookkeeping_monotone(s, n)
  BY <1>1 DEF check_wf7_bookkeeping_monotone, update_castling_rights
<1>5. check_r18_token_conservation(s, n)
  BY <1>1, CapturedIds DEF check_r18_token_conservation
<1> QED
  BY <1>3, <1>4, <1>5 DEF n, promoted_ids
\* What a colour can do depends on which of its own tokens are cooled.
LEMMA OwnCooled ==
  ASSUME NEW s, NEW x, x.board = s.board, x.rights = s.rights, x.res = s.res,
         NEW c, x.cooldown \cap own_tokens(s, c) \subseteq s.cooldown, has_any_legal_program(s, c)
  PROVE  has_any_legal_program(x, c)
<1>1. CASE can_displace(s, c)
  BY <1>1 DEF can_displace, has_any_legal_program, own_tokens
<1>2. CASE CancellationEnabled /\ s.res[c] # <<>>
  BY <1>2 DEF has_any_legal_program
<1>3. CASE \E d \in live(s.board) \ s.cooldown, q \in live(s.board) :
             d.color = c /\ q.color = c /\ d # q /\ can_reserve(s, d, q, s.board[q])
  BY <1>3 DEF has_any_legal_program, can_reserve, own_tokens
<1> QED
  BY <1>1, <1>2, <1>3 DEF has_any_legal_program

\* A token that moved defends nothing after the phase, and a king that moved
\* leaves its colour no right to castle.
LEMMA MovedToken ==
  ASSUME NEW s, NEW w, NEW b, Playable(s, w, b), NEW k \in live(Board(s, w, b)),
         k.id \in MovedIds(w \o b, Moves(s, w, b), Resolved(s, w, b))
  PROVE  LET n == phi(s, w, b).state
         IN  /\ \A c \in Color : \A rho \in ToSet(n.res[c]) : rho.defender # k
             /\ \A x \in n.rights : k \notin king_token(n, x[1])
<1> DEFINE moved == MovedIds(w \o b, Moves(s, w, b), Resolved(s, w, b))
           n == phi(s, w, b).state
<1>1. n.board = Board(s, w, b) /\ n.rights = update_castling_rights(s.rights, s.board, moved)
  <2>1. PICK r : r = phi(s, w, b) /\ After(s, w, b, r)
    BY PhaseIs
  <2> QED
    BY <2>1 DEF After
<1>2. ASSUME NEW c \in Color, NEW rho \in ToSet(n.res[c]) PROVE rho.defender # k
  <2> DEFINE left == Left(s, w \o b, Moves(s, w, b), Effect(s, w, b), Resolved(s, w, b))
  <2>1. PICK sigma \in ToSet(left) : sigma.defender.id = rho.defender.id
    BY <1>2, Followed
  <2>2. sigma.defender.id \notin moved
    BY <2>1, LeftFacts
  <2> HIDE DEF moved
  <2> QED
    BY <2>1, <2>2 DEF moved
<1>3. ASSUME NEW x \in n.rights, k \in king_token(n, x[1]) PROVE FALSE
  <2>1. PICK t \in live(s.board) : t.id = k.id
    BY CapturedIds
  <2>2. k.typ = "k" /\ k.color = x[1]
    BY <1>3 DEF king_token
  <2>3. t.typ = "k" /\ t.color = x[1]
    BY <2>1, <2>2, Became
  <2>4. x \in s.rights /\ \A u \in occupants(s.board, KingHome(x[1])) : u.id \notin moved
    BY <1>1, <1>3 DEF update_castling_rights
  <2>5. s.board[t] = KingHome(x[1])
    BY <2>1, <2>3, <2>4 DEF Playable, WellFormed, KingsHome, king_token
  <2> HIDE DEF moved
  <2>6. t.id \notin moved
    BY <2>1, <2>4, <2>5 DEF occupants
  <2> QED
    BY <2>1, <2>6 DEF moved
<1> QED
  BY <1>2, <1>3

\* A king on the board that captured moved.
LEMMA CandidateMoved ==
  ASSUME NEW s, NEW w, NEW b, Playable(s, w, b), NEW k \in live(Board(s, w, b)),
         k.id \in Kings(s, Moves(s, w, b), Resolved(s, w, b))
  PROVE  k.id \in MovedIds(w \o b, Moves(s, w, b), Resolved(s, w, b))
<1> DEFINE mv == Moves(s, w, b)
           db == Resolved(s, w, b)
<1>1. k.id \notin captured_ids(db)
  BY CapturedIds
<1> HIDE DEF mv, db
<1>2. k.id \in token_ids(mv.survivors) \cup recapturer_ids(db)
  BY DEF Kings, king_capture_candidates, token_ids, recapturer_ids, mv, db
<1>3. k \in Displaced(w \o b, mv, db)
  BY <1>1, <1>2 DEF Displaced, compute_displaced_tokens, displaced_ids, Board, mv, db
<1> QED
  BY <1>3 DEF MovedIds, mv, db

\* With a king that moved cooled as well, the state after the phase is sound.
LEMMA CooledToo ==
  ASSUME NEW s, NEW w, NEW b, Playable(s, w, b), NEW k \in live(Board(s, w, b)),
         k.id \in MovedIds(w \o b, Moves(s, w, b), Resolved(s, w, b)),
         NEW x, NEW n, n = phi(s, w, b).state, x.board = n.board, x.rights = n.rights, x.res = n.res,
         x.nu = n.nu, x.phase = n.phase, x.cooldown = n.cooldown \cup {k}
  PROVE  WellFormed(x)
<1>1. WellFormed(n)
  BY StaysWellFormed
<1>2. n.board = Board(s, w, b)
  <2>1. PICK r : r = phi(s, w, b) /\ After(s, w, b, r)
    BY PhaseIs
  <2> QED
    BY <2>1 DEF After
<1>3. /\ \A c \in Color : \A rho \in ToSet(n.res[c]) : rho.defender # k
      /\ \A y \in n.rights : k \notin king_token(n, y[1])
  BY MovedToken
<1>4. ASSUME NEW c \in Color PROVE Standing(x, c)
  <2>1. Standing(n, c)
    BY <1>1 DEF WellFormed
  <2>2. own_tokens(x, c) = own_tokens(n, c)
    BY DEF own_tokens
  <2>3. \A i \in DOMAIN n.res[c] : n.res[c][i].defender # k
    BY <1>3 DEF ToSet
  <2> QED
    BY <2>1, <2>2, <2>3 DEF Standing
<1>5. KingsHome(x)
  BY <1>1, <1>3 DEF WellFormed, KingsHome, king_token
<1> QED
  BY <1>1, <1>2, <1>4, <1>5 DEF WellFormed
\* A king that captured and is not cooled is spared because, were it cooled, its
\* colour could not act.
LEMMA SparedKing ==
  ASSUME NEW s, NEW w, NEW b, Playable(s, w, b), OneKing(s), NEW k \in live(Board(s, w, b)),
         k.typ = "k", k.id \in Kings(s, Moves(s, w, b), Resolved(s, w, b)),
         NEW n, n = phi(s, w, b).state, k \notin n.cooldown,
         NEW x, x.board = n.board, x.rights = n.rights, x.res = n.res,
         x.nu = n.nu, x.phase = n.phase, x.cooldown = n.cooldown \cup {k}
  PROVE  ~ has_any_legal_program(x, k.color)
<1> DEFINE cooled == Cooled(s, w \o b, Moves(s, w, b), Resolved(s, w, b))
<1>1. /\ n.board = Board(s, w, b)
      /\ \A t \in cooled : t.typ # "k" => t \in n.cooldown
  <2>1. PICK r : r = phi(s, w, b) /\ After(s, w, b, r)
    BY PhaseIs
  <2> QED
    BY <2>1 DEF After
<1>2. WellFormed(x)
  BY CandidateMoved, CooledToo
<1>3. k.color \in Color
  <2>1. WellFormed(n)
    BY StaysWellFormed
  <2> QED
    BY <1>1, <2>1 DEF WellFormed, SoundBoard
<1>4. OneKing(n)
  BY OneKingKept
<1>5. CASE k \in cooled
  <2>1. PICK y : /\ y.board = n.board /\ y.rights = n.rights /\ y.res = n.res
                 /\ y.cooldown = cooled /\ ~ has_any_legal_program(y, k.color)
    <3>1. k \in cooled \ n.cooldown
      BY <1>5
    <3> QED
      BY <3>1, PhaseReports DEF Reports
  <2>2. ASSUME NEW t \in cooled, t \in own_tokens(x, k.color) PROVE t \in x.cooldown
    <3>1. CASE t.typ = "k"
      BY <1>1, <1>3, <1>4, <2>2, <3>1 DEF OneKing, king_token, own_tokens
    <3>2. CASE t.typ # "k"
      BY <1>1, <3>2
    <3> QED
      BY <3>1, <3>2
  <2> HIDE DEF cooled
  <2>3. y.cooldown \cap own_tokens(x, k.color) \subseteq x.cooldown
    BY <2>1, <2>2
  <2>4. y.board = x.board /\ y.rights = x.rights /\ y.res = x.res
    BY <2>1
  <2> QED
    BY <2>1, <2>3, <2>4, OwnCooled
<1>6. CASE k \notin cooled
  <2>1. own_tokens(x, k.color) \subseteq cooled \cup {k}
    BY <1>1, <1>6 DEF own_tokens, Cooled, compute_cooldown, Board
  <2>2. ASSUME NEW t \in own_tokens(x, k.color) PROVE t \in x.cooldown
    <3>1. CASE t.typ = "k"
      BY <1>1, <1>3, <1>4, <2>2, <3>1 DEF OneKing, king_token, own_tokens
    <3>2. CASE t.typ # "k"
      BY <1>1, <2>1, <2>2, <3>2
    <3> QED
      BY <3>1, <3>2
  <2> QED
    BY <1>2, <1>3, <2>2, SomeoneFree
<1> QED
  BY <1>5, <1>6

\* R13: what is cooled moved and is no pawn; a king is cooled if it captured and
\* its colour can still act, and not otherwise.
LEMMA CoolsRightly ==
  ASSUME NEW s, NEW w, NEW b, Playable(s, w, b), OneKing(s)
  PROVE  LET r == phi(s, w, b) IN check_r13_cooldown(s, r.state, r.trace)
<1> DEFINE n  == phi(s, w, b).state
           tr == phi(s, w, b).trace
           mv == Moves(s, w, b)
           db == Resolved(s, w, b)
           bd == Board(s, w, b)
           with(k) == [n EXCEPT !.cooldown = @ \cup {k}]
<1>1. /\ n.board = bd /\ n.cooldown \subseteq Cooled(s, w \o b, mv, db)
      /\ \A k \in n.cooldown : k.typ = "k" => has_any_legal_program(n, k.color)
  <2>1. PICK r : r = phi(s, w, b) /\ After(s, w, b, r)
    BY PhaseIs
  <2> QED
    BY <2>1 DEF After
<1>2. StateRecord(n)
  BY PhaseReports DEF Reports
<1>3. king_candidates(s, tr) = Kings(s, mv, db)
  <2>1. tr.captured = db.captured /\ tr.fired = db.fired /\ tr.survivors = ToSet(mv.survivors)
    BY TraceOfB
  <2> HIDE DEF tr, mv, db
  <2>2. \A m : (\E y \in ToSet(db.captured) : y[1] \in occupants(s.board, destination(m.trajectory)))
                 <=> occupants(s.board, destination(m.trajectory)) \cap captured_tokens(db) # {}
    BY DEF captured_tokens
  <2> QED
    BY <2>1, <2>2 DEF king_candidates, Kings, king_capture_candidates
<1>4. /\ SoundBoard(s.board)
      /\ \A t \in n.cooldown : t \in live(bd) /\ t.id \in MovedIds(w \o b, mv, db)
  BY <1>1, CooledMoved DEF Playable, WellFormed
<1>5. \A t \in n.cooldown : t.typ # "p" /\ (t.typ = "k" => t.id \in Kings(s, mv, db))
  BY <1>1, CooledTypes
<1>6. ASSUME NEW k PROVE /\ with(k).board = n.board /\ with(k).rights = n.rights /\ with(k).res = n.res
                         /\ with(k).nu = n.nu /\ with(k).phase = n.phase
                         /\ with(k).cooldown = n.cooldown \cup {k}
  <2> HIDE DEF n
  <2> QED
    BY <1>2 DEF StateRecord
<1> HIDE DEF n, tr, mv, db, with
<1>7. ASSUME NEW t \in n.cooldown, NEW u \in live(s.board), t.id = u.id PROVE n.board[t] # s.board[u]
  <2>1. t \in live(bd) /\ t.id \in displaced_ids(mv.survivors, db)
    BY <1>4 DEF MovedIds, Displaced, compute_displaced_tokens
  <2>2. square_of(s.board, t.id) # bd[t]
    BY <2>1, DisplacedMoved DEF mv, db
  <2>3. square_of(s.board, u.id) = s.board[u]
    BY <1>4, SquareOf
  <2> QED
    BY <1>1, <1>7, <2>2, <2>3
<1>8. ASSUME NEW k \in n.cooldown, k.typ = "k"
      PROVE  k.id \in Kings(s, mv, db) /\ has_any_legal_program(with(k), k.color)
  <2>1. has_any_legal_program(n, k.color)
    BY <1>1, <1>8
  <2>2. with(k).cooldown \subseteq n.cooldown
    BY <1>6, <1>8
  <2>3. has_any_legal_program(with(k), k.color)
    BY <1>6, <2>1, <2>2, FewerCooled
  <2> QED
    BY <1>5, <1>8, <2>3
<1>9. ASSUME NEW k \in live(bd), k.typ = "k", k \notin n.cooldown, k.id \in Kings(s, mv, db)
      PROVE  ~ has_any_legal_program(with(k), k.color)
  BY <1>6, <1>9, SparedKing DEF n, mv, db
<1>10. check_r13_cooldown(s, n, tr)
  BY <1>1, <1>3, <1>5, <1>7, <1>8, <1>9 DEF check_r13_cooldown, with
<1> QED
  BY <1>10 DEF n, tr
-----------------------------------------------------------------------------
(***************************************************************************)
(* R1: chains of pawn captures.                                            *)
(***************************************************************************)
\* A pawn's capture goes one file aside and one rank on, onto an enemy.
Strike(board, m) ==
  \E e \in {-1, 1} :
    /\ destination(m.trajectory) =
         <<board[m.token][1] + e, board[m.token][2] + Forward(m.color)>>
    /\ destination(m.trajectory) \in held(board, opponent(m.color))

\* A pawn that changes its file strikes.
LEMMA PawnStrikes ==
  ASSUME NEW b, SoundBoard(b), NEW t \in live(b), t.typ = "p",
         NEW tau \in pseudo_legal_trajectories(b, t), origin(tau)[1] # destination(tau)[1],
         NEW m, m.token = t, m.trajectory = tau, m.color = t.color
  PROVE  Strike(b, m)
<1> DEFINE s     == b[t]
           own   == held(b, t.color)
           enemy == held(b, opponent(t.color))
<1>1. s \in Squares /\ s[1] \in Int /\ s[2] \in Int /\ Forward(t.color) \in Int
  BY BoardAssumption DEF SoundBoard, Squares, Files, Ranks, Forward
<1>2. tau \in pawn_trajectories(s, t.color, own, enemy)
  BY DEF pseudo_legal_trajectories
<1>3. ASSUME NEW k \in 1..2, tau = Line(s, <<0, Forward(t.color)>>, k) PROVE FALSE
  <2>1. origin(tau) = s /\ destination(tau) = Shift(s, <<0, Forward(t.color)>>, k)
    BY <1>1, <1>3, LineGoes
  <2>2. Shift(s, <<0, Forward(t.color)>>, k)[1] = s[1]
    BY <1>1 DEF Shift
  <2> QED
    BY <2>1, <2>2
<1> HIDE DEF s, own, enemy
<1>4. PICK d \in {<<-1, Forward(t.color)>>, <<1, Forward(t.color)>>} :
        tau = Line(s, d, 1) /\ Shift(s, d, 1) \in enemy
  BY <1>2, <1>3 DEF pawn_trajectories
<1>5. PICK e \in {-1, 1} : d = <<e, Forward(t.color)>>
  BY <1>4
<1>6. destination(tau) = Shift(s, d, 1)
  BY <1>1, <1>4, <1>5, LineGoes
<1>7. Shift(s, d, 1) = <<s[1] + e, s[2] + Forward(t.color)>>
  BY <1>1, <1>5 DEF Shift
<1> QED
  BY <1>4, <1>5, <1>6, <1>7 DEF Strike, s, enemy

\* The moves that colour c declares for its pawns go where pawns go.
LEMMA DeclaredPawns ==
  ASSUME NEW s, SoundBoard(s.board), NEW c \in Color, NEW prog \in Seq(actions(s, c)),
         NEW m \in ToSet(expand_program(s, c, prog)), m.token.typ = "p"
  PROVE  m.trajectory \in pseudo_legal_trajectories(s.board, m.token)
<1> DEFINE ss   == [i \in DOMAIN prog |-> displacements(s, c, prog[i])]
           S    == UNION {ToSet(displacements(s, c, a)) : a \in actions(s, c)}
           flat == FlattenSeq(ss)
           own  == expand_program(s, c, prog)
<1>1. /\ DOMAIN prog = 1..Len(prog) /\ Len(prog) \in Nat
      /\ \A i \in 1..Len(prog) : prog[i] \in actions(s, c) /\ ss[i] = displacements(s, c, prog[i])
  OBVIOUS
<1>2. \A i \in 1..Len(prog) : ss[i] \in Seq(S)
  <2> SUFFICES ASSUME NEW i \in 1..Len(prog) PROVE ss[i] \in Seq(S)
    OBVIOUS
  <2> DEFINE ds == displacements(s, c, prog[i])
  <2>1. ds \in Seq(ToSet(ds))
    BY <1>1, DisplacementFacts
  <2>2. ToSet(ds) \subseteq S
    BY <1>1
  <2>3. ss[i] = ds
    BY <1>1
  <2> HIDE DEF ds, S, ss
  <2> QED
    BY <2>1, <2>2, <2>3
<1>3. ss \in Seq(Seq(S)) /\ Len(ss) = Len(prog)
  BY <1>1, <1>2
<1>4. own = [i \in DOMAIN flat |-> [token |-> flat[i].token, trajectory |-> flat[i].trajectory,
                                    color |-> c, index |-> i]]
  BY DEF expand_program
<1> HIDE DEF ss, S, own
<1>5. ToSet(flat) = UNION {ToSet(ss[i]) : i \in 1..Len(ss)}
  BY <1>3, FlattenElements
<1> HIDE DEF flat
<1>6. PICK i \in DOMAIN flat : m.token = flat[i].token /\ m.trajectory = flat[i].trajectory
  BY <1>4 DEF own, ToSet
<1>7. PICK k \in 1..Len(prog) : flat[i] \in ToSet(ss[k])
  BY <1>3, <1>5, <1>6 DEF ToSet
<1> DEFINE a == prog[k]
<1>8. a \in actions(s, c) /\ flat[i] \in ToSet(displacements(s, c, a))
  BY <1>1, <1>7
<1> HIDE DEF a
<1>9. Displaces(s, c, a, displacements(s, c, a))
  BY <1>8, DisplacementIs
<1>10. \/ flat[i] = DeclaredMove(a.token, a.trajectory, c) /\ a.kind = "move"
       \/ flat[i].token.typ \in {"k", "r"}
  <2>1. \A d : ToSet(<<d>>) = {d}
    BY DEF ToSet
  <2>2. \A d, e : ToSet(<<d, e>>) = {d, e}
    BY DEF ToSet
  <2>3. ToSet(<<>>) = {}
    BY DEF ToSet
  <2>4. \A t, tau : DeclaredMove(t, tau, c).token = t
    BY DEF DeclaredMove
  <2> QED
    BY <1>8, <1>9, <2>1, <2>2, <2>3, <2>4 DEF Displaces
<1>11. flat[i] = DeclaredMove(a.token, a.trajectory, c) /\ a.kind = "move"
  BY <1>6, <1>10
<1>12. m.token = a.token /\ m.trajectory = a.trajectory
  BY <1>6, <1>11 DEF DeclaredMove
<1> QED
  BY <1>8, <1>11, <1>12, ActionKinds
\* The pawns' captures among the moves of a phase go where pawns' captures go.
Diagonals(board, M) ==
  \A m \in M : /\ m.token \in live(board) /\ m.color \in Color /\ m.token.color = m.color
               /\ origin(m.trajectory) = board[m.token]
               /\ is_pawn_diagonal_capture(m) => Strike(board, m)

\* So do the captures of every phase of two legal programs.
LEMMA PhaseDiagonals ==
  ASSUME NEW s, NEW w, NEW b, Playable(s, w, b)
  PROVE  Diagonals(s.board, ToSet(Declared(s, w, b)))
<1> DEFINE W == expand_program(s, "W", w)
           B == expand_program(s, "B", b)
<1>1. /\ SoundBoard(s.board)
      /\ w \in Seq(actions(s, "W")) /\ is_legal_program(s, "W", w)
      /\ b \in Seq(actions(s, "B")) /\ is_legal_program(s, "B", b)
      /\ "W" \in Color /\ "B" \in Color
  BY DEF Playable, WellFormed, Color
<1>2. Movers(s, ToSet(Declared(s, w, b)))
  BY MovesAre
<1>3. W \in Seq(ToSet(W)) /\ B \in Seq(ToSet(B))
  BY <1>1, OwnMovers
<1>4. ToSet(Declared(s, w, b)) = ToSet(W) \cup ToSet(B)
  <2> HIDE DEF W, B
  <2>1. W \in Seq(ToSet(W) \cup ToSet(B)) /\ B \in Seq(ToSet(W) \cup ToSet(B))
    BY <1>3
  <2>2. ToSet(W \o B) = ToSet(W) \cup ToSet(B)
    BY <2>1, ToSetOfConcat
  <2> QED
    BY <2>2 DEF Declared, W, B
<1>5. ASSUME NEW m \in ToSet(Declared(s, w, b)), m.token.typ = "p"
      PROVE  m.trajectory \in pseudo_legal_trajectories(s.board, m.token)
  BY <1>1, <1>4, <1>5, DeclaredPawns
<1> SUFFICES ASSUME NEW m \in ToSet(Declared(s, w, b))
             PROVE  /\ m.token \in live(s.board) /\ m.color \in Color /\ m.token.color = m.color
                    /\ origin(m.trajectory) = s.board[m.token]
                    /\ is_pawn_diagonal_capture(m) => Strike(s.board, m)
  BY DEF Diagonals
<1>6. /\ m.token \in live(s.board) /\ m.color \in Color /\ m.token.color = m.color
      /\ origin(m.trajectory) = s.board[m.token]
  BY <1>2 DEF Movers, own_tokens, Goes
<1>7. ASSUME is_pawn_diagonal_capture(m) PROVE Strike(s.board, m)
  <2>1. m.token.typ = "p" /\ origin(m.trajectory)[1] # destination(m.trajectory)[1]
    BY <1>7 DEF is_pawn_diagonal_capture
  <2> QED
    BY <1>1, <1>5, <1>6, <2>1, PawnStrikes
<1> QED
  BY <1>6, <1>7

\* The moves from beyond the file of m, in the direction in which m goes.
Ahead(board, M, m) ==
  {x \in M : IF destination(m.trajectory)[1] > origin(m.trajectory)[1]
             THEN board[x.token][1] > board[m.token][1]
             ELSE board[x.token][1] < board[m.token][1]}

\* The target of a pawn's capture is ahead of it; if it is itself a pawn's capture
\* and no head-on exchange, it goes on in the same direction.
LEMMA ChainGoesOn ==
  ASSUME NEW board, SoundBoard(board), NEW declared, Diagonals(board, ToSet(declared)),
         NEW m \in ToSet(declared), is_pawn_diagonal_capture(m), ~ exchange(board, declared, m),
         NEW x \in targets_of(board, declared, m)
  PROVE  /\ x \in Ahead(board, ToSet(declared), m)
         /\ is_pawn_diagonal_capture(x) =>
              /\ Ahead(board, ToSet(declared), x) \subseteq Ahead(board, ToSet(declared), m)
              /\ x \notin Ahead(board, ToSet(declared), x)
<1> DEFINE M == ToSet(declared)
<1>1. \A y \in M : /\ y.token \in live(board) /\ y.color \in Color /\ y.token.color = y.color
                   /\ origin(y.trajectory) = board[y.token]
                   /\ is_pawn_diagonal_capture(y) => Strike(board, y)
  BY DEF Diagonals
<1>2. x \in M /\ x.token \in live(board) /\ board[x.token] = destination(m.trajectory)
  BY DEF targets_of, occupants
<1> HIDE DEF M
<1>3. \A y \in M : board[y.token] = <<board[y.token][1], board[y.token][2]>>
                   /\ board[y.token][1] \in Int /\ board[y.token][2] \in Int
  <2>1. \A y \in M : board[y.token] \in Squares
    BY <1>1 DEF SoundBoard
  <2> QED
    BY <2>1, BoardAssumption DEF Squares, Files, Ranks
<1>4. m \in M
  BY DEF M
<1>5. PICK e \in {-1, 1} :
        /\ destination(m.trajectory) = <<board[m.token][1] + e, board[m.token][2] + Forward(m.color)>>
        /\ destination(m.trajectory) \in held(board, opponent(m.color))
  BY <1>1, <1>4 DEF Strike
<1>6. /\ board[x.token][1] = board[m.token][1] + e
      /\ board[x.token][2] = board[m.token][2] + Forward(m.color)
      /\ destination(m.trajectory)[1] = board[m.token][1] + e
  BY <1>2, <1>5
<1>7. x \in Ahead(board, M, m)
  BY <1>1, <1>2, <1>3, <1>4, <1>6 DEF Ahead
<1>8. ASSUME is_pawn_diagonal_capture(x)
      PROVE  Ahead(board, M, x) \subseteq Ahead(board, M, m) /\ x \notin Ahead(board, M, x)
  <2>1. PICK f \in {-1, 1} :
          destination(x.trajectory) = <<board[x.token][1] + f, board[x.token][2] + Forward(x.color)>>
    BY <1>1, <1>2, <1>8 DEF Strike
  <2>2. x.color = opponent(m.color)
    <3>1. PICK t \in live(board) : t.color = opponent(m.color) /\ board[t] = destination(m.trajectory)
      BY <1>5 DEF held
    <3>2. t = x.token
      BY <1>2, <3>1 DEF SoundBoard
    <3> QED
      BY <1>1, <1>2, <3>1, <3>2
  <2>3. Forward(m.color) + Forward(x.color) = 0 /\ Forward(m.color) \in Int /\ Forward(x.color) \in Int
    BY <1>1, <1>4, <2>2 DEF Color, opponent, Forward
  <2>4. f = e
    <3> SUFFICES ASSUME f # e PROVE FALSE
      OBVIOUS
    <3>1. destination(x.trajectory)[1] = board[m.token][1] /\ destination(x.trajectory)[2] = board[m.token][2]
      BY <1>3, <1>4, <1>6, <2>1, <2>3
    <3>2. destination(x.trajectory) = board[m.token]
      BY <1>3, <1>4, <2>1, <3>1
    <3>3. m \in targets_of(board, declared, x)
      BY <1>1, <1>4, <3>2 DEF targets_of, occupants, M
    <3> QED
      BY <3>3 DEF exchange
  <2>5. destination(x.trajectory)[1] = board[x.token][1] + e
    BY <2>1, <2>4
  <2> QED
    BY <1>1, <1>2, <1>3, <1>4, <1>6, <2>5 DEF Ahead
<1> QED
  BY <1>7, <1>8 DEF M
\* Following a chain for more steps than there are moves ahead changes nothing.
LEMMA ChainStable ==
  ASSUME NEW board, SoundBoard(board), NEW declared, Diagonals(board, ToSet(declared)),
         IsFiniteSet(ToSet(declared)), NEW n \in Nat, NEW f, Executes(board, declared, n, f)
  PROVE  \A k \in 0..(n - 1) : \A m \in ToSet(declared) :
           Cardinality(Ahead(board, ToSet(declared), m)) <= k => (m \in f[k] <=> m \in f[k + 1])
<1> DEFINE M == ToSet(declared)
           A(m) == Ahead(board, M, m)
           T(m) == targets_of(board, declared, m)
           I == {k \in 0..(n - 1) : \A m \in M : Cardinality(A(m)) <= k => (m \in f[k] <=> m \in f[k + 1])}
           free(m) == m \notin resolve_f2(declared)
                      /\ (exchange(board, declared, m) \/ ~ is_pawn_diagonal_capture(m))
           waits(m) == /\ m \notin resolve_f2(declared) /\ ~ exchange(board, declared, m)
                      /\ is_pawn_diagonal_capture(m)
<1>1. ASSUME NEW k \in 0..n, NEW m \in M
      PROVE  m \in f[k] <=> \/ free(m)
                            \/ waits(m) /\ (k = 0 \/ T(m) \cap f[k - 1] = {})
  <2>1. f[k] = Level(board, declared, k, f[k - 1])
    BY DEF Executes
  <2> QED
    BY <2>1 DEF Level
<1>2. \A m \in M : IsFiniteSet(A(m)) /\ Cardinality(A(m)) \in Nat
  <2> SUFFICES ASSUME NEW m \in M PROVE IsFiniteSet(A(m)) /\ Cardinality(A(m)) \in Nat
    OBVIOUS
  <2>1. A(m) \subseteq M
    BY DEF Ahead
  <2> HIDE DEF A, M
  <2>2. IsFiniteSet(A(m))
    BY <2>1, FS_Subset DEF M
  <2> QED
    BY <2>2, FS_CardinalityType
<1>3. ASSUME NEW m \in M, waits(m), NEW x \in T(m)
      PROVE  /\ x \in M /\ x \in A(m)
             /\ waits(x) => Cardinality(A(x)) < Cardinality(A(m))
  <2>1. /\ x \in A(m)
        /\ is_pawn_diagonal_capture(x) => A(x) \subseteq A(m) /\ x \notin A(x)
    BY <1>3, ChainGoesOn
  <2>2. x \in M
    BY <1>3 DEF targets_of
  <2> HIDE DEF A, M, T
  <2>3. ASSUME waits(x) PROVE Cardinality(A(x)) < Cardinality(A(m))
    <3>1. A(x) \subseteq A(m) /\ A(x) # A(m)
      BY <2>1, <2>3
    <3>2. Cardinality(A(x)) <= Cardinality(A(m)) /\ Cardinality(A(x)) # Cardinality(A(m))
      BY <1>2, <3>1, FS_Subset
    <3> QED
      BY <1>2, <2>2, <3>2
  <2> QED
    BY <2>1, <2>2, <2>3
<1> HIDE DEF A, T, free, waits, M
<1>4. ASSUME 0 \in 0..(n - 1) PROVE 0 \in I
  <2>1. 0 \in 0..n /\ 1 \in 0..n /\ 1 - 1 = 0 /\ 1 # 0 /\ 0 + 1 = 1
    BY <1>4
  <2> SUFFICES ASSUME NEW m \in M, Cardinality(A(m)) <= 0 PROVE m \in f[0] <=> m \in f[1]
    BY <1>4, <2>1
  <2>2. A(m) = {}
    <3>1. Cardinality(A(m)) = 0
      BY <1>2
    <3> QED
      BY <1>2, <3>1, FS_EmptySet
  <2>3. waits(m) => T(m) = {}
    BY <1>3, <2>2
  <2>4. m \in f[0] <=> free(m) \/ waits(m)
    BY <1>1, <2>1
  <2>5. m \in f[1] <=> free(m) \/ (waits(m) /\ T(m) \cap f[0] = {})
    BY <1>1, <2>1
  <2> QED
    BY <2>3, <2>4, <2>5
<1>5. \A k \in 0..((n - 1) - 1) : k \in I => k + 1 \in I
  <2> SUFFICES ASSUME NEW k \in 0..((n - 1) - 1),
                      \A m \in M : Cardinality(A(m)) <= k => (m \in f[k] <=> m \in f[k + 1]),
                      NEW m \in M, Cardinality(A(m)) <= k + 1
               PROVE  m \in f[k + 1] <=> m \in f[(k + 1) + 1]
    OBVIOUS
  <2>1. /\ k \in 0..n /\ k + 1 \in 0..n /\ (k + 1) + 1 \in 0..n /\ k + 1 # 0 /\ (k + 1) + 1 # 0
        /\ (k + 1) - 1 = k /\ ((k + 1) + 1) - 1 = k + 1 /\ k \in Nat
    OBVIOUS
  <2>2. m \in f[k + 1] <=> free(m) \/ (waits(m) /\ T(m) \cap f[k] = {})
    BY <1>1, <2>1
  <2>3. m \in f[(k + 1) + 1] <=> free(m) \/ (waits(m) /\ T(m) \cap f[k + 1] = {})
    <3>1. m \in f[(k + 1) + 1] <=>
            free(m) \/ (waits(m) /\ ((k + 1) + 1 = 0 \/ T(m) \cap f[((k + 1) + 1) - 1] = {}))
      BY <1>1, <2>1
    <3> QED
      BY <2>1, <3>1
  <2>4. ASSUME waits(m), NEW x \in T(m) PROVE x \in f[k] <=> x \in f[k + 1]
    <3>1. x \in M /\ (waits(x) => Cardinality(A(x)) < Cardinality(A(m)))
      BY <1>3, <2>4
    <3>2. CASE waits(x)
      <4>1. Cardinality(A(x)) <= k
        BY <1>2, <2>1, <3>1, <3>2
      <4> QED
        BY <3>1, <4>1
    <3>3. CASE ~ waits(x)
      <4>1. x \in f[k] <=> free(x)
        BY <1>1, <2>1, <3>1, <3>3
      <4>2. x \in f[k + 1] <=> free(x)
        BY <1>1, <2>1, <3>1, <3>3
      <4> QED
        BY <4>1, <4>2
    <3> QED
      BY <3>2, <3>3
  <2> QED
    BY <2>2, <2>3, <2>4
<1> HIDE DEF I
<1>6. \A k \in 0..(n - 1) : k \in I
  <2>1. CASE n = 0
    BY <2>1
  <2>2. CASE n # 0
    <3>1. n - 1 \in Nat /\ 0 \in 0..(n - 1)
      BY <2>2
    <3> QED
      BY <1>4, <1>5, <3>1, InductTo
  <2> QED
    BY <2>1, <2>2
<1> QED
  BY <1>6 DEF I, A, M

\* R1: a move that fizzles by F1 goes where a token stands that moves away.
LEMMA FizzlesForAMover ==
  ASSUME NEW s, NEW w, NEW b, Playable(s, w, b)
  PROVE  check_r1_fizzle_f1(s, phi(s, w, b).trace)
<1> DEFINE d  == Declared(s, w, b)
           M  == ToSet(d)
           n  == Len(d)
           fz == resolve_fizzles(s.board, d)
           tr == phi(s, w, b).trace
<1>1. SoundBoard(s.board)
  BY DEF Playable, WellFormed
<1>2. /\ d \in Seq(M) /\ NoRepeats(d) /\ n \in Nat /\ Movers(s, M)
      /\ ToSet(Moves(s, w, b).executing) = M \ fz
  BY MovesAre
<1>3. tr.executing = Moves(s, w, b).executing
  BY TraceOfB
<1>4. fizzled_by(tr, "F1") = fz \ resolve_f2(d)
  BY FizzledByCause
<1>5. Diagonals(s.board, M)
  BY PhaseDiagonals
<1> HIDE DEF d, tr
<1>6. IsFiniteSet(M) /\ Cardinality(M) = n
  BY <1>2, PendingCount
<1>7. PICK f : Executes(s.board, d, n, f) /\ fz = M \ f[n]
  BY <1>2, FizzlesAre
<1>8. \A k \in 0..(n - 1) : \A m \in M :
        Cardinality(Ahead(s.board, M, m)) <= k => (m \in f[k] <=> m \in f[k + 1])
  BY <1>1, <1>2, <1>5, <1>6, <1>7, ChainStable
<1> HIDE DEF fz, M, n
<1> SUFFICES ASSUME NEW m \in fz \ resolve_f2(d)
             PROVE  \E t \in occupants(s.board, destination(m.trajectory)) : t.id \in executing_ids(tr)
  BY <1>4 DEF check_r1_fizzle_f1, tr
<1>9. m \in M /\ m \notin f[n]
  BY <1>7
<1>10. f[n] = Level(s.board, d, n, f[n - 1])
  BY <1>2, <1>7 DEF Executes
<1>11. PICK x \in targets_of(s.board, d, m) : n # 0 /\ x \in f[n - 1]
  BY <1>9, <1>10 DEF Level, M
<1>12. x \in M /\ x.token \in occupants(s.board, destination(m.trajectory))
  BY <1>11 DEF targets_of, M
<1>13. Cardinality(Ahead(s.board, M, x)) <= n - 1
  <2>1. Ahead(s.board, M, x) \subseteq M \ {x}
    <3>1. s.board[x.token][1] \in Int
      BY <1>1, <1>2, <1>12, BoardAssumption DEF Movers, own_tokens, SoundBoard, Squares, Files
    <3> QED
      BY <3>1 DEF Ahead
  <2>2. IsFiniteSet(M \ {x}) /\ Cardinality(M \ {x}) = n - 1
    BY <1>6, <1>12, FS_RemoveElement
  <2> QED
    BY <2>1, <2>2, FS_Subset
<1>14. x \in f[n]
  <2>1. n - 1 \in 0..(n - 1) /\ (n - 1) + 1 = n
    BY <1>2, <1>11
  <2> QED
    BY <1>8, <1>11, <1>12, <1>13, <2>1
<1>15. x \in ToSet(Moves(s, w, b).executing)
  BY <1>2, <1>7, <1>12, <1>14
<1>16. x.token.id \in executing_ids(tr)
  BY <1>3, <1>15 DEF executing_ids, token_ids
<1> QED
  BY <1>12, <1>16

-----------------------------------------------------------------------------
(***************************************************************************)
(* The harness never reports.                                              *)
(***************************************************************************)
\* All that run_phase checks around a phase passes.
LEMMA PhaseSilent ==
  ASSUME NEW s, NEW w, NEW b, Playable(s, w, b), check_all_state(s, FALSE), s.nu < Horizon,
         N <= BlackAgeOffset, CancellationEnabled \/ cancellations(w \o b) = {},
         NEW r, r = phi(s, w, b)
  PROVE  run_phase_returns(s, w, b, r.state, r.trace, r.outcome)
<1>1. is_legal_program(s, "W", w) /\ is_legal_program(s, "B", b)
  BY DEF Playable
<1>2. check_all_state(r.state, r.outcome # "ongoing")
  BY StaysAccepted
<1>3. \A c \in Color : IsFiniteSet(king_token(s, c))
  BY FiniteBoard, FS_Subset DEF king_token, Playable, WellFormed
<1>4. OneKing(s) /\ live(s.board) # {}
  <2>1. \A c \in Color : Cardinality(king_token(s, c)) <= 1 /\ Cardinality(king_token(s, c)) # 0
    BY DEF check_all_state, check_wf4_king_count
  <2>2. OneKing(s)
    BY <1>3, <2>1, AtMostOne DEF OneKing
  <2>3. king_token(s, "W") # {}
    BY <1>3, <2>1, AtMostOne DEF Color
  <2> QED
    BY <2>2, <2>3 DEF king_token
<1>5. /\ check_wf2_type_constancy(s, r.state, r.trace.promoted)
      /\ check_wf7_bookkeeping_monotone(s, r.state)
      /\ check_r18_token_conservation(s, r.state)
  BY IdentitiesKept
<1>6. check_r1_fizzle_f1(s, r.trace) /\ check_r2_fizzle_f2(r.trace)
  BY FizzlesForAMover, FizzlesTogether
<1>7. /\ check_r3_edge_conflict(r.trace) /\ check_r4_annihilation_matching(r.trace)
      /\ check_r5_one_survivor_per_destination(r.trace)
  BY StageASilent
<1>8. check_r6_vacated_square(s, r.trace) /\ check_r7_intermezzo_precedence(s, r.trace)
  BY VacatedSquare, FiredFromHome
<1>9. check_r9_defender_fires_once(r.trace) /\ check_r10_mover_as_defender_forbidden(r.trace)
  BY FiresOnce
<1>10. check_r12_cascade_termination(s, r.trace)
  BY <1>4, CapturesEnd
<1>11. check_r13_cooldown(s, r.state, r.trace)
  BY <1>4, CoolsRightly
<1>12. check_r14_promotion(s, r.state, r.trace) /\ check_r16_fizzled_inertness(s, r.state, r.trace)
  BY PromotedCool, FizzledInert
<1>13. check_r17_cancellation(r.state, r.trace)
  <2>1. CASE CancellationEnabled
    BY <2>1, CancelledGone
  <2>2. CASE cancellations(w \o b) = {}
    <3>1. r.trace.cancelled = {}
      BY <2>2, PhaseReports DEF Reports
    <3> QED
      BY <3>1 DEF check_r17_cancellation
  <2> QED
    BY <2>1, <2>2
<1>14. check_t1_terminal(r.state, r.outcome) /\ check_t3_repetition(r.state, r.outcome)
       /\ check_t4_no_progress(r.state, r.outcome)
  <2>1. Reports(s, w, b, r)
    BY PhaseReports
  <2> QED
    BY <2>1 DEF Reports, check_t1_terminal, check_t3_repetition, check_t4_no_progress
<1>15. check_all_trace(s, r.state, r.trace, r.outcome)
  BY <1>5, <1>6, <1>7, <1>8, <1>9, <1>10, <1>11, <1>12, <1>13, <1>14 DEF check_all_trace
<1> QED
  BY <1>1, <1>2, <1>5, <1>15 DEF run_phase_returns

\* Players cancel only where the rules let them: with cancellation off, legality.py
\* still finds a cancellation legal, and phi ignores it.
CancelsMean ==
  CancellationEnabled \/ \A s : \A c \in Color : \A a \in Considered(s, c) : a.kind # "cancel"

\* IInv, and the harness accepts the state.
HInv == IInv /\ check_all_state(state, outcome # "ongoing")

\* A phase of the match from a state that the harness accepts.
LEMMA SilentStep ==
  ASSUME HInv, play_phase, N <= BlackAgeOffset, CancelsMean
  PROVE  run_phase_returns(state, last'.white, last'.black, state', trace', outcome')
<1>1. PICK w \in legal_programs(state, "W"), b \in legal_programs(state, "B") : plays(w, b)
  BY DEF play_phase
<1>2. \A c \in Color : \A p \in legal_programs(state, c) :
        p \in Seq(actions(state, c)) /\ is_legal_program(state, c, p)
  BY ProgramsOf DEF legal_programs, SeqsUpTo
<1>3. Playable(state, w, b)
  BY <1>2 DEF Playable, HInv, IInv, Color
<1>4. PICK r : r = phi(state, w, b)
  OBVIOUS
<1>5. last' = [white |-> w, black |-> b, trace |-> r.trace] /\ state' = r.state /\ outcome' = r.outcome
  BY <1>1, <1>4 DEF plays
<1>6. last'.white = w /\ last'.black = b /\ trace' = r.trace
  BY <1>5 DEF trace
<1>7. check_all_state(state, FALSE) /\ state.nu < Horizon
  <2>1. outcome = "ongoing"
    BY DEF play_phase, goes_on
  <2>2. (outcome # "ongoing") = FALSE
    BY <2>1
  <2>3. check_all_state(state, FALSE)
    BY <2>2 DEF HInv
  <2> QED
    BY <2>1, <2>3 DEF HInv, IInv
<1>8. CancellationEnabled \/ cancellations(w \o b) = {}
  <2> SUFFICES ASSUME \A s : \A c \in Color : \A a \in Considered(s, c) : a.kind # "cancel"
               PROVE  cancellations(w \o b) = {}
    BY DEF CancelsMean
  <2>1. \A c \in Color : \A p \in legal_programs(state, c) : \E k \in 0..N :
          p \in [1..k -> Considered(state, c) \cap actions(state, c)]
    BY DEF legal_programs, SeqsUpTo
  <2> DEFINE A == Considered(state, "W") \cup Considered(state, "B")
  <2>2. w \in Seq(A) /\ b \in Seq(A)
    <3>1. PICK k \in 0..N : w \in [1..k -> Considered(state, "W") \cap actions(state, "W")]
      BY <2>1 DEF Color
    <3>2. PICK l \in 0..N : b \in [1..l -> Considered(state, "B") \cap actions(state, "B")]
      BY <2>1 DEF Color
    <3>3. k \in Nat /\ l \in Nat
      BY RuleSetAssumption
    <3>4. w \in [1..k -> A] /\ b \in [1..l -> A]
      BY <3>1, <3>2
    <3> HIDE DEF A
    <3> QED
      BY <3>3, <3>4
  <2>3. \A a \in A : a.kind # "cancel"
    BY DEF Color
  <2> HIDE DEF A
  <2>4. w \o b \in Seq(A)
    BY <2>2
  <2>5. ToSet(w \o b) \subseteq A
    BY <2>4, SeqElements
  <2> QED
    BY <2>3, <2>5 DEF cancellations
<1>9. run_phase_returns(state, w, b, r.state, r.trace, r.outcome)
  BY <1>3, <1>4, <1>7, <1>8, PhaseSilent
<1> QED
  BY <1>5, <1>6, <1>9

\* The harness of invariants/ reports nothing in any match that starts from
\* states it accepts: every one of its checks passes on every phase.  The ages
\* that phi gives to Black's reservations lie BlackAgeOffset above White's, so
\* more actions than that could give one age twice, which WF5 reports.
THEOREM HarnessSilent ==
  ASSUME N <= BlackAgeOffset, CancelsMean,
         \A s \in InitialStates : check_all_state(s, FALSE)
  PROVE  Spec => HarnessIsSilent
<1>1. Init => HInv
  <2> SUFFICES ASSUME Init PROVE HInv
    OBVIOUS
  <2>1. state \in InitialStates /\ (outcome # "ongoing") = FALSE
    BY DEF Init, begins_in
  <2>2. check_all_state(state, outcome # "ongoing")
    BY <2>1
  <2> QED
    BY <2>2, InitInv DEF HInv
<1>2. HInv /\ [Next]_vars => HInv'
  <2> SUFFICES ASSUME HInv, [Next]_vars PROVE HInv'
    OBVIOUS
  <2>1. IInv'
    BY NextInv DEF HInv
  <2>2. CASE play_phase
    <3>1. run_phase_returns(state, last'.white, last'.black, state', trace', outcome')
      BY <2>2, SilentStep
    <3> QED
      BY <2>1, <3>1 DEF run_phase_returns, HInv
  <2>3. CASE phase_limit
    <3>1. state' = state /\ (outcome # "ongoing") = FALSE /\ (outcome' # "ongoing") = TRUE
      BY <2>3 DEF phase_limit
    <3>2. check_all_state(state, FALSE)
      BY <3>1 DEF HInv
    <3>3. check_all_state(state, TRUE)
      BY <3>2 DEF check_all_state, check_wf4_king_count
    <3>4. check_all_state(state', outcome' # "ongoing")
      BY <3>1, <3>3
    <3> QED
      BY <2>1, <3>4 DEF HInv
  <2>4. CASE UNCHANGED vars
    BY <2>1, <2>4 DEF vars, HInv
  <2> QED
    BY <2>2, <2>3, <2>4 DEF Next
<1>3. HInv /\ [Next]_vars => [PhasePlayed => run_phase_returns(state, last'.white, last'.black,
                                                               state', trace', outcome')]_vars
  BY OnlyPhases, SilentStep
<1> QED
  BY <1>1, <1>2, <1>3, PTL DEF Spec, HarnessIsSilent
=============================================================================
