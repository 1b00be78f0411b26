----------------------------- MODULE Resolution -----------------------------
(***************************************************************************)
(* Stages F, A and B of a phase: which declared moves fizzle               *)
(* (core/stages/fizzle.py), which executing moves annihilate each other    *)
(* (core/stages/annihilate.py), and the capture and recapture cascade in   *)
(* both readings (core/stages/defense.py, core/stages/defense_seq.py).     *)
(*                                                                         *)
(* The declared moves come as one sequence, White's first, each colour's   *)
(* in its owner's order; the stages keep that order.                       *)
(***************************************************************************)
EXTENDS Legality

token_ids(moves) == {m.token.id : m \in ToSet(moves)}

\* The members of S in a list, in the order of the list.
only(list, S) == FlattenSeq([i \in DOMAIN list |-> IF list[i] \in S THEN <<list[i]>> ELSE <<>>])

-----------------------------------------------------------------------------
(***************************************************************************)
(* Stage F.                                                                *)
(***************************************************************************)
is_pawn_diagonal_capture(m) ==
  /\ m.token.typ = "p"
  /\ Len(m.trajectory.path) = 2
  /\ origin(m.trajectory)[1] # destination(m.trajectory)[1]

\* Fault: only the second player's move gives way.
black_gives_way(declared) ==
  {m \in ToSet(declared) :
     /\ m.color = "B" /\ m.token.typ = "p"
     /\ \E x \in ToSet(declared) :
          /\ x.color = "W" /\ x.token.typ = "p"
          /\ destination(x.trajectory) = destination(m.trajectory)}

\* F2: opposing moves onto one square, both pawns unless the scope is wider.
resolve_f2(declared) ==
  {m \in ToSet(declared) :
     LET movers == {x \in ToSet(declared) :
                      destination(x.trajectory) = destination(m.trajectory)}
     IN  /\ \E x \in movers : x.color # m.color
         /\ FizzleScope = "both_pawns" => \A x \in movers : x.token.typ = "p"}

(***************************************************************************)
(* F1: a pawn's diagonal capture fizzles when its target executes, except  *)
(* that the two moves of a head-on exchange both execute.  A chain of      *)
(* dependencies visits each move at most once, hence the depth.            *)
(***************************************************************************)
resolve_fizzles(board, declared) ==
  LET moves     == ToSet(declared)
      targets(m) == {x \in moves :
                       x.token \in occupants(board, destination(m.trajectory))}
      exchanged(m) == \E x \in targets(m) :
                        m \in targets(x) /\ (\/ is_pawn_diagonal_capture(m)
                                             \/ is_pawn_diagonal_capture(x))
      executes[depth \in 0..Len(declared)] ==
        {m \in moves \ resolve_f2(declared) :
           \/ exchanged(m)
           \/ ~ is_pawn_diagonal_capture(m)
           \/ depth = 0
           \/ targets(m) \cap executes[depth - 1] = {}}
  IN  moves \ executes[Len(declared)]

-----------------------------------------------------------------------------
(***************************************************************************)
(* Stage A.  Conflicting pairs of opposing moves are matched greedily by   *)
(* rank <<max, min>> of their declared indices, the pair with the lower    *)
(* White index first among equals.  A program of N actions declares at     *)
(* most N + 1 displacements (one castle).                                  *)
(***************************************************************************)
RankedPairs ==
  FlattenSeq([hi \in 1..(N + 1) |->
    FlattenSeq([lo \in 1..hi |->
      IF lo = hi THEN << <<hi, hi>> >> ELSE << <<lo, hi>>, <<hi, lo>> >>])])

annihilated_in(events) == UNION {{e[1], e[2]} : e \in events}

\* The events, each a pair of a White and a Black move.
resolve_annihilation(executing) ==
  LET meet(events, rank) ==
        LET alive == ToSet(executing) \ annihilated_in(events)
        IN  events \cup
              {x \in {m \in alive : m.color = "W" /\ m.index = rank[1]}
                       \X {m \in alive : m.color = "B" /\ m.index = rank[2]} :
                 conflicts(x[1].trajectory, x[2].trajectory)}
  IN  FoldLeft(meet, {}, RankedPairs)

-----------------------------------------------------------------------------
(***************************************************************************)
(* Stage B.  A battery is a contested square with the attacker that        *)
(* arrives there and the stationary enemy it finds there.  The running     *)
(* state of the stage is                                                   *)
(*   occupancy  the function from occupied squares to tokens               *)
(*   alive      the tokens not yet removed                                 *)
(*   captured   the <<token, square>> captures, in order                   *)
(*   fired      the recaptures [defender, captured, square, reservation]   *)
(***************************************************************************)
pending_batteries(board, executing, survivors) ==
  LET victims(m) == {t \in occupants(board, destination(m.trajectory)) :
                       t.color # m.color /\ t.id \notin token_ids(executing)}
      attack(m)  == {[square |-> destination(m.trajectory), holder |-> m.token,
                      victim |-> t, round |-> m.index] : t \in victims(m)}
  IN  FlattenSeq([i \in DOMAIN survivors |-> SetToSeq(attack(survivors[i]))])

initial_occupancy(board, executing, survivors) ==
  LET arrived == {destination(m.trajectory) : m \in ToSet(survivors)}
      stayed  == {t \in live(board) : t.id \notin token_ids(executing)}
  IN  [s \in arrived \cup {board[t] : t \in stayed} |->
         IF s \in arrived
         THEN (CHOOSE m \in ToSet(survivors) : destination(m.trajectory) = s).token
         ELSE CHOOSE t \in stayed : board[t] = s]

\* Fault: only the older of two reservations that defend each other is silenced.
older_is_silent(pending, res) ==
  LET victims == {p.victim : p \in ToSet(pending)}
  IN  {x \in ToSet(res) : \E y \in ToSet(res) :
         /\ x.defender = y.protege /\ y.defender = x.protege
         /\ {x.defender, x.protege} \subseteq victims
         /\ x.age[2] < y.age[2]}

\* Fault: mutual defence is not looked for.
nothing_silent(pending, res) == {}

\* R11: two reservations that defend each other's victim both stay silent.  The
\* code asks whether a protege *is* the victim; board and reservations of a match
\* share their tokens, so that equal ones are the same.  See Mirror for copies.
mutual_cycle_blacklist(pending, res) ==
  LET victims == {p.victim : p \in ToSet(pending)}
  IN  UNION {{x[1], x[2]} : x \in
        {y \in ToSet(res) \X ToSet(res) :
           /\ y[1].defender = y[2].protege /\ y[2].defender = y[1].protege
           /\ {y[1].defender, y[1].protege} \subseteq victims}}

(***************************************************************************)
(* Reading ii resolves a battery after every battery its victim may leave  *)
(* to defend: from the first open battery of pending, descend to the first *)
(* open battery its victim's reservations name.  A descent that revisits a *)
(* square never ends in the code; the depth stops it here.                 *)
(***************************************************************************)
names(ctx, i, p, q) ==
  /\ ctx.res[i].defender = p.victim /\ ctx.res[i].protege = q.victim
  /\ ctx.res[i] \notin ctx.silent

\* Fault: a battery is resolved without regard to what its victim defends.
no_precedence(ctx, p, done) == {}

leaves_for(ctx, p, done) ==
  {q \in ToSet(ctx.pending) \ done : \E i \in DOMAIN ctx.res : names(ctx, i, p, q)}

first_leaf(ctx, p, done) ==
  CHOOSE q \in leaves_for(ctx, p, done) :
    \E i \in DOMAIN ctx.res :
      /\ names(ctx, i, p, q)
      /\ \A r \in leaves_for(ctx, p, done), j \in 1..(i - 1) : ~ names(ctx, j, p, r)

precedence_order(ctx) ==
  LET batteries == ToSet(ctx.pending)
      order[k \in 0..Len(ctx.pending)] ==
        IF k = 0 THEN <<>>
        ELSE LET done == ToSet(order[k - 1])
                 descend[depth \in 0..Len(ctx.pending)] ==
                   [p \in batteries |->
                      IF depth = 0 \/ leaves_for(ctx, p, done) = {} THEN p
                      ELSE descend[depth - 1][first_leaf(ctx, p, done)]]
                 open == only(ctx.pending, batteries \ done)
             IN  Append(order[k - 1], descend[Len(ctx.pending)][Head(open)])
  IN  order[Len(ctx.pending)]

\* Fault: reading i takes the batteries as they come.
as_declared(pending) == pending

\* Reading i resolves the batteries by their attacker's declared index.
attacker_order(pending) ==
  FlattenSeq([r \in 1..(N + 1) |-> only(pending, {p \in ToSet(pending) : p.round = r})])

(***************************************************************************)
(* One battery: if its victim is still there it is captured, and then the  *)
(* oldest reservation of the token last captured that can still fire takes *)
(* the square back, again and again until none can.  A firing defender's   *)
(* origin is cleared unless another battery's attacker holds that entry.   *)
(* ctx is a context, defined below: what the stage only reads.             *)
(***************************************************************************)
fired_defenders(st) == {f.defender : f \in ToSet(st.fired)}
\* Fault: a defender that fired still counts as standing at home.
still_at_home(st) == st.alive

at_hand(st)         == st.alive \ fired_defenders(st)

find_valid_defender(ctx, st, victim, square) ==
  LET valid == {rho \in ToSet(ctx.res) \ ctx.silent :
                  /\ rho.protege = victim
                  /\ rho.defender \in at_hand(st) \ ctx.cooldown
                  /\ rho.defender.id \notin ctx.moved
                  /\ capturing_pattern_at(rho.defender.typ, rho.defender.color,
                       ctx.board[rho.defender], square, DOMAIN st.occupancy)}
  IN  {rho \in valid : \A x \in valid :
         \/ rho.age[1] < x.age[1]
         \/ rho.age[1] = x.age[1] /\ rho.age[2] <= x.age[2]}

\* Fault: the square a firing defender leaves is cleared whoever stands there.
never_contested(ctx, st, square) == FALSE

contested(ctx, st, square) ==
  \E p \in ToSet(ctx.pending) :
    p.square = square /\ (IntermezzoReading = "ii" \/ p \notin st.resolved)

\* The recapture of rho from the holder of the square, who falls.
recapture(ctx, st, rho, holder, square) ==
  LET from == ctx.board[rho.defender]
      left == IF contested(ctx, st, from) THEN {} ELSE {from}
  IN  [st EXCEPT
        !.occupancy = [q \in (DOMAIN @ \ left) \cup {square} |->
                         IF q = square THEN rho.defender ELSE @[q]],
        !.alive     = @ \ {holder},
        !.captured  = Append(@, <<holder, square>>),
        !.fired     = Append(@, [defender |-> rho.defender, captured |-> holder,
                                 square |-> square, reservation |-> rho])]

resolve_square(ctx, st, p) ==
  LET start == [st |-> [st EXCEPT !.alive = @ \ {p.victim},
                                  !.captured = Append(@, <<p.victim, p.square>>)],
                victim |-> p.victim, holder |-> p.holder]
      chain[k \in 0..Len(ctx.res)] ==
        IF k = 0 THEN start
        ELSE LET c   == chain[k - 1]
                 rho == find_valid_defender(ctx, c.st, c.victim, p.square)
             IN  IF rho = {} THEN c
                 ELSE LET r == CHOOSE x \in rho : TRUE
                      IN  [st |-> recapture(ctx, c.st, r, c.holder, p.square),
                           victim |-> c.holder, holder |-> r.defender]
      after == IF p.victim \in at_hand(st) THEN chain[Len(ctx.res)].st ELSE st
  IN  [after EXCEPT !.resolved = @ \cup {p}]

(***************************************************************************)
(* What stage B starts from: the batteries, the reservations in effect,    *)
(* the board with the movers arrived, and the tokens still in the game.    *)
(***************************************************************************)
context(s, executing, survivors, res) ==
  LET pending == pending_batteries(s.board, executing, survivors)
      removed == token_ids(executing) \ token_ids(survivors)
  IN  [board |-> s.board, cooldown |-> s.cooldown, res |-> res,
       moved |-> token_ids(survivors), pending |-> pending,
       silent |-> mutual_cycle_blacklist(pending, res),
       occupancy |-> initial_occupancy(s.board, executing, survivors),
       alive |-> {t \in live(s.board) : t.id \notin removed}]

cascade_start(ctx) ==
  [occupancy |-> ctx.occupancy, alive |-> ctx.alive,
   captured |-> <<>>, fired |-> <<>>, resolved |-> {}]

resolved_in(ctx, order) ==
  FoldLeft(LAMBDA st, p : resolve_square(ctx, st, p), cascade_start(ctx), order)

\* Reading i.  Its lookahead within a round, from a battery to those its victim
\* may leave to defend, finds none: the victims of a round differ in colour.
resolve_defense_seq(ctx) == resolved_in(ctx, attacker_order(ctx.pending))

resolve_defense(ctx) ==
  IF IntermezzoReading = "ii" THEN resolved_in(ctx, precedence_order(ctx))
  ELSE resolve_defense_seq(ctx)
=============================================================================
