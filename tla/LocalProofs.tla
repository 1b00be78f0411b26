---------------------------- MODULE LocalProofs -----------------------------
(***************************************************************************)
(* A local game, proved of LocalPlay for every board size, rule set, cap   *)
(* on the phases, squares clicked and setups that LocalAssumption admits.  *)
(*                                                                         *)
(* The inductive invariant IInv says that the state is WellFormed, that no *)
(* token the last phase captured is on the board any more, and what the    *)
(* window holds: the selection names a token of the human's own, and every *)
(* prefix of the program under construction (undo goes back to each) is    *)
(* legal so far, once its pawns are promoted.                              *)
(***************************************************************************)
EXTENDS LocalPlay, PhiProofs

-----------------------------------------------------------------------------
(***************************************************************************)
(* One path to a square.                                                   *)
(***************************************************************************)
\* Steps of -1, 0 or 1 that come to the same in j and in k repetitions.
LEMMA StepsAlike ==
  ASSUME NEW x \in {-1, 0, 1}, NEW y \in {-1, 0, 1}, NEW j \in Nat \ {0}, NEW k \in Nat \ {0},
         j * x = k * y
  PROVE  x = y /\ (x # 0 => j = k)
<1>1. CASE x = 0
  BY <1>1
<1>2. CASE x = 1
  <2>1. y = -1 => k * y = -k
    OBVIOUS
  <2>2. j * x = j
    BY <1>2
  <2> QED
    BY <1>2, <2>1, <2>2
<1>3. CASE x = -1
  <2>1. j * x = -j
    BY <1>3
  <2> QED
    BY <1>3, <2>1
<1> QED
  BY <1>1, <1>2, <1>3

\* Two straight ways from a square to another are one.
LEMMA OneRay ==
  ASSUME NEW s \in Squares, NEW d \in KingDeltas, NEW e \in KingDeltas,
         NEW j \in Nat \ {0}, NEW k \in Nat \ {0}, Shift(s, d, j) = Shift(s, e, k)
  PROVE  d = e /\ j = k
<1>1. /\ d = <<d[1], d[2]>> /\ d[1] \in {-1, 0, 1} /\ d[2] \in {-1, 0, 1} /\ (d[1] # 0 \/ d[2] # 0)
      /\ e = <<e[1], e[2]>> /\ e[1] \in {-1, 0, 1} /\ e[2] \in {-1, 0, 1}
  BY DEF KingDeltas
<1>2. s[1] \in Int /\ s[2] \in Int
  BY BoardAssumption DEF Squares, Files, Ranks
<1>3. s[1] + j * d[1] = s[1] + k * e[1] /\ s[2] + j * d[2] = s[2] + k * e[2]
  BY DEF Shift
<1>4. j * d[1] \in Int /\ j * d[2] \in Int /\ k * e[1] \in Int /\ k * e[2] \in Int
  BY <1>1
<1>5. j * d[1] = k * e[1] /\ j * d[2] = k * e[2]
  <2>1. \A a, x, y \in Int : a + x = a + y => x = y
    OBVIOUS
  <2> QED
    BY <1>2, <1>3, <1>4, <2>1, Zenon
<1>6. d[1] = e[1] /\ (d[1] # 0 => j = k)
  BY <1>1, <1>5, StepsAlike
<1>7. d[2] = e[2] /\ (d[2] # 0 => j = k)
  BY <1>1, <1>5, StepsAlike
<1> QED
  BY <1>1, <1>6, <1>7

\* Every piece but a knight goes straight.
LEMMA Straight ==
  ASSUME NEW b, SoundBoard(b), NEW t \in live(b), t.typ # "n",
         NEW tau \in pseudo_legal_trajectories(b, t)
  PROVE  \E d \in KingDeltas, k \in Nat \ {0} : tau = Line(b[t], d, k)
<1> DEFINE s     == b[t]
           own   == held(b, t.color)
           enemy == held(b, opponent(t.color))
           Rays  == \E d \in KingDeltas, k \in Nat \ {0} : tau = Line(s, d, k)
<1>1. ASSUME tau \in king_step_trajectories(s, own) PROVE Rays
  BY <1>1 DEF king_step_trajectories
<1>2. ASSUME tau \in pawn_trajectories(s, t.color, own, enemy) PROVE Rays
  <2>1. /\ <<0, Forward(t.color)>> \in KingDeltas
        /\ <<-1, Forward(t.color)>> \in KingDeltas /\ <<1, Forward(t.color)>> \in KingDeltas
    BY DEF Forward, KingDeltas
  <2>2. \/ \E k \in 1..2 : tau = Line(s, <<0, Forward(t.color)>>, k)
        \/ \E d \in {<<-1, Forward(t.color)>>, <<1, Forward(t.color)>>} : tau = Line(s, d, 1)
    BY <1>2 DEF pawn_trajectories
  <2> QED
    BY <2>1, <2>2
<1>3. ASSUME NEW dirs \in SUBSET KingDeltas, tau \in slide(s, dirs, own, enemy) PROVE Rays
  <2>1. Reach \subseteq Nat \ {0}
    BY BoardAssumption DEF Reach
  <2> QED
    BY <1>3, <2>1 DEF slide
<1>4. SliderDirs(t.typ) \in SUBSET KingDeltas
  BY DEF SliderDirs, RookDirs, BishopDirs
<1> QED
  BY <1>1, <1>2, <1>3, <1>4 DEF pseudo_legal_trajectories

\* A token has at most one trajectory to a square: the one the window builds is
\* the one that it looked at.
LEMMA OnePath ==
  ASSUME NEW b, SoundBoard(b), NEW t \in live(b),
         NEW tau \in pseudo_legal_trajectories(b, t), NEW rho \in pseudo_legal_trajectories(b, t),
         destination(tau) = destination(rho)
  PROVE  tau = rho
<1>1. b[t] \in Squares
  BY DEF SoundBoard
<1>2. KingDeltas \subseteq Int \X Int /\ KnightDeltas \subseteq Int \X Int
  BY DEF KingDeltas, KnightDeltas
<1>3. CASE t.typ = "n"
  <2>1. PICK d \in KnightDeltas, e \in KnightDeltas : tau = Leap(b[t], d) /\ rho = Leap(b[t], e)
    BY <1>3 DEF pseudo_legal_trajectories, knight_trajectories
  <2>2. Shift(b[t], d, 1) = Shift(b[t], e, 1)
    BY <1>1, <1>2, <2>1, LeapGoes
  <2>3. Leap(b[t], d) = Leap(b[t], e)
    BY <2>2 DEF Leap
  <2> QED
    BY <2>1, <2>3
<1>4. CASE t.typ # "n"
  <2>1. PICK d \in KingDeltas, j \in Nat \ {0} : tau = Line(b[t], d, j)
    BY <1>4, Straight
  <2>2. PICK e \in KingDeltas, k \in Nat \ {0} : rho = Line(b[t], e, k)
    BY <1>4, Straight
  <2>3. destination(tau) = Shift(b[t], d, j)
    BY <1>1, <1>2, <2>1, LineGoes
  <2>4. destination(rho) = Shift(b[t], e, k)
    BY <1>1, <1>2, <2>2, LineGoes
  <2>5. Shift(b[t], d, j) = Shift(b[t], e, k)
    BY <2>3, <2>4
  <2>6. d = e /\ j = k
    <3>1. PICK s \in Squares : s = b[t]
      BY <1>1
    <3>2. Shift(s, d, j) = Shift(s, e, k)
      BY <2>5, <3>1
    <3> QED
      BY <3>2, OneRay
  <2> QED
    BY <2>1, <2>2, <2>6
<1> QED
  BY <1>3, <1>4

-----------------------------------------------------------------------------
(***************************************************************************)
(* A program under construction.                                           *)
(***************************************************************************)
\* The actions as the window builds them: a player's own, and no promotion.
Drafts(s, c) ==
  (UNION {{Move(t, tau, NoPromotion) : tau \in pseudo_legal_trajectories(s.board, t)} :
            t \in own_tokens(s, c)})
    \cup {Reserve(x[1], x[2]) : x \in {y \in own_tokens(s, c) \X own_tokens(s, c) :
                                        y[1] # y[2]}}
    \cup {Castle(side) : side \in Sides}
    \cup {Cancel(rho) : rho \in ToSet(s.res[c])}

\* The one action of promoting.
crowned(a) ==
  IF a.kind = "move" /\ reaches_last_rank(a) THEN [a EXCEPT !.promotion = "q"] ELSE a

\* Two actions that differ at most in what a pawn is promoted to.
Alike(x, y) ==
  x = y \/ (x.kind = "move" /\ y.kind = "move" /\ x.token = y.token /\ x.trajectory = y.trajectory)

\* A promotion where it must be declared, and only there.
Promotes(a) ==
  a.kind = "move" => a.promotion \in (IF reaches_last_rank(a) THEN Promotable ELSE {NoPromotion})

\* The four kinds of drafts, and what each names.
LEMMA DraftKinds ==
  ASSUME NEW s, NEW c, NEW a \in Drafts(s, c)
  PROVE  \/ /\ a.kind = "move" /\ a.token \in own_tokens(s, c)
            /\ a.trajectory \in pseudo_legal_trajectories(s.board, a.token)
            /\ a = Move(a.token, a.trajectory, NoPromotion)
         \/ /\ a.kind = "reserve"
            /\ a.defender \in own_tokens(s, c) /\ a.protege \in own_tokens(s, c)
            /\ a.defender # a.protege /\ a = Reserve(a.defender, a.protege)
         \/ a.kind = "castle" /\ a.side \in Sides /\ a = Castle(a.side)
         \/ a.kind = "cancel" /\ a.reservation \in ToSet(s.res[c]) /\ a = Cancel(a.reservation)
<1>1. CASE \E t \in own_tokens(s, c) :
             \E tau \in pseudo_legal_trajectories(s.board, t) : a = Move(t, tau, NoPromotion)
  BY <1>1 DEF Move
<1>2. CASE \E x \in own_tokens(s, c) \X own_tokens(s, c) : x[1] # x[2] /\ a = Reserve(x[1], x[2])
  BY <1>2 DEF Reserve
<1>3. CASE \E side \in Sides : a = Castle(side)
  BY <1>3 DEF Castle
<1>4. CASE \E rho \in ToSet(s.res[c]) : a = Cancel(rho)
  BY <1>4 DEF Cancel
<1>5. \/ a \in UNION {{Move(t, tau, NoPromotion) : tau \in pseudo_legal_trajectories(s.board, t)} :
                        t \in own_tokens(s, c)}
      \/ a \in {Reserve(x[1], x[2]) : x \in {y \in own_tokens(s, c) \X own_tokens(s, c) : y[1] # y[2]}}
      \/ a \in {Castle(side) : side \in Sides}
      \/ a \in {Cancel(rho) : rho \in ToSet(s.res[c])}
  BY DEF Drafts
<1> QED
  BY <1>1, <1>2, <1>3, <1>4, <1>5

\* Crowned, a draft is like itself and declares the promotion it must.
LEMMA CrownedFacts ==
  ASSUME NEW s, NEW c, NEW a \in Drafts(s, c)
  PROVE  Alike(crowned(a), a) /\ Promotes(crowned(a))
<1>1. CASE a.kind = "move" /\ reaches_last_rank(a)
  <2>1. a = [kind |-> "move", token |-> a.token, trajectory |-> a.trajectory, promotion |-> NoPromotion]
    BY <1>1, DraftKinds DEF Move
  <2>2. crowned(a) = [kind |-> "move", token |-> a.token, trajectory |-> a.trajectory, promotion |-> "q"]
    BY <1>1, <2>1 DEF crowned
  <2>3. reaches_last_rank(crowned(a))
    BY <1>1, <2>2 DEF reaches_last_rank
  <2> QED
    BY <1>1, <2>2, <2>3 DEF Alike, Promotes, Promotable
<1>2. CASE ~ (a.kind = "move" /\ reaches_last_rank(a))
  <2>1. crowned(a) = a
    BY <1>2 DEF crowned
  <2>2. a.kind = "move" => a.promotion = NoPromotion
    BY DraftKinds DEF Move
  <2> QED
    BY <1>2, <2>1, <2>2 DEF Alike, Promotes
<1> QED
  BY <1>1, <1>2

\* A draft that declares the promotion it must is an action of the colour.
LEMMA DraftActs ==
  ASSUME NEW s, NEW c, NEW a \in Drafts(s, c), Promotes(a)
  PROVE  a \in actions(s, c)
<1>1. CASE a.kind = "move"
  <2>1. PICK t \in own_tokens(s, c) : \E tau \in pseudo_legal_trajectories(s.board, t) :
          a = Move(t, tau, NoPromotion)
    BY <1>1, DraftKinds
  <2>2. PICK tau \in pseudo_legal_trajectories(s.board, t) : a = Move(t, tau, NoPromotion)
    BY <2>1
  <2>3. ~ reaches_last_rank(a)
    <3>1. a.promotion = NoPromotion
      BY <2>2 DEF Move
    <3>2. NoPromotion \notin Promotable
      BY DEF NoPromotion, Promotable
    <3> QED
      BY <1>1, <3>1, <3>2 DEF Promotes
  <2>4. ~ (t.typ = "p" /\ destination(tau)[2] = LastRank(t.color))
    BY <2>2, <2>3 DEF reaches_last_rank, Move
  <2>5. a \in move_actions(s, t)
    BY <2>2, <2>4 DEF move_actions
  <2> QED
    BY <2>5 DEF actions
<1>2. CASE a.kind # "move"
  <2>1. \/ a \in {Reserve(x[1], x[2]) : x \in {y \in own_tokens(s, c) \X own_tokens(s, c) : y[1] # y[2]}}
        \/ a \in {Castle(side) : side \in Sides}
        \/ a \in {Cancel(rho) : rho \in ToSet(s.res[c])}
    BY <1>2 DEF Drafts, Move
  <2> QED
    BY <2>1 DEF actions
<1> QED
  BY <1>1, <1>2

\* What a list of actions declares, whom it moves and which of its actions is
\* legal so far does not depend on what its pawns are promoted to.
LEMMA PromotionIsFree ==
  ASSUME NEW s, NEW c, NEW n \in Nat, NEW p, NEW r, DOMAIN p = 1..n, DOMAIN r = 1..n,
         \A i \in 1..n : Alike(p[i], r[i]) /\ Promotes(r[i]),
         check_partial_program(s, c, p)
  PROVE  check_partial_program(s, c, r)
<1>1. \A i \in 1..n : /\ p[i].kind = r[i].kind
                      /\ p[i].kind # "move" => p[i] = r[i]
                      /\ p[i].kind = "move" => p[i].token = r[i].token /\ p[i].trajectory = r[i].trajectory
  BY DEF Alike
<1>2. \A i \in 1..n : actors_of(s, c, p[i]) = actors_of(s, c, r[i])
  BY <1>1 DEF actors_of
<1>3. expand_program(s, c, p) = expand_program(s, c, r)
  <2>1. \A i \in 1..n : displacements(s, c, p[i]) = displacements(s, c, r[i])
    BY <1>1 DEF displacements
  <2>2. [i \in DOMAIN p |-> displacements(s, c, p[i])] = [i \in DOMAIN r |-> displacements(s, c, r[i])]
    BY <2>1
  <2> QED
    BY <2>2 DEF expand_program
<1>4. ASSUME NEW q PROVE reserve_target(s, p, q) = reserve_target(s, r, q)
  <2> DEFINE moves == {i \in DOMAIN p : p[i].kind = "move" /\ p[i].token = q}
  <2>1. moves = {i \in DOMAIN r : r[i].kind = "move" /\ r[i].token = q}
    BY <1>1
  <2>2. moves # {} => Min(moves) \in moves
    <3>1. moves \in SUBSET Nat
      OBVIOUS
    <3> HIDE DEF moves
    <3>2. ASSUME moves # {} PROVE \E m \in moves : \A k \in moves : m <= k
      BY <3>1, <3>2, LeastNat
    <3> QED
      BY <3>2 DEF Min
  <2>3. reserve_target(s, p, q) = IF moves = {} THEN s.board[q] ELSE destination(p[Min(moves)].trajectory)
    BY DEF reserve_target
  <2>4. reserve_target(s, r, q) = IF moves = {} THEN s.board[q] ELSE destination(r[Min(moves)].trajectory)
    BY <2>1 DEF reserve_target
  <2>5. moves # {} => p[Min(moves)].trajectory = r[Min(moves)].trajectory
    BY <1>1, <2>2
  <2> HIDE DEF moves
  <2> QED
    BY <2>3, <2>4, <2>5
<1>5. L6_geometric_legality(s, c, r)
  <2> SUFFICES ASSUME NEW i \in 1..n PROVE geometrically_legal(s, c, r, r[i])
    BY DEF L6_geometric_legality
  <2>1. geometrically_legal(s, c, p, p[i])
    BY DEF check_partial_program, L6_geometric_legality
  <2>2. CASE r[i].kind = "move"
    <3>1. p[i].trajectory \in pseudo_legal_trajectories(s.board, p[i].token)
      BY <1>1, <2>1, <2>2 DEF geometrically_legal
    <3> QED
      BY <1>1, <2>2, <3>1 DEF geometrically_legal, Promotes
  <2>3. CASE r[i].kind # "move"
    BY <1>1, <1>4, <2>1, <2>3 DEF geometrically_legal
  <2> QED
    BY <2>2, <2>3
<1>6. L3_distinct_actors(s, c, r)
  <2>1. L3_distinct_actors(s, c, p)
    BY DEF check_partial_program
  <2> QED
    BY <1>2, <2>1 DEF L3_distinct_actors
<1>7. L4_cooldown_respected(s, c, r)
  <2>1. L4_cooldown_respected(s, c, p)
    BY DEF check_partial_program
  <2> QED
    BY <1>2, <2>1 DEF L4_cooldown_respected
<1>8. L5_own_consistency(s, c, r)
  BY <1>3 DEF check_partial_program, L5_own_consistency
<1> QED
  BY <1>5, <1>6, <1>7, <1>8 DEF check_partial_program

\* What is legal so far with x added is, once promoted, legal so far with the
\* draft that differs from x at most in the promotion.
LEMMA Grown ==
  ASSUME NEW s, NEW c, NEW p \in Seq(Drafts(s, c)), NEW a \in Drafts(s, c), NEW x, Alike(x, a),
         check_partial_program(s, c, Append(p, x))
  PROVE  check_partial_program(s, c, promoting(Append(p, a)))
<1> DEFINE n == Len(p) + 1
           f == Append(p, x)
           g == Append(p, a)
           r == promoting(g)
<1>1. n \in Nat /\ DOMAIN f = 1..n /\ DOMAIN g = 1..n
  OBVIOUS
<1>2. DOMAIN r = 1..n /\ \A i \in 1..n : r[i] = crowned(g[i])
  BY <1>1 DEF promoting, crowned
<1>3. \A i \in 1..n : g[i] \in Drafts(s, c) /\ Alike(f[i], g[i])
  BY DEF Alike
<1>4. \A i \in 1..n : Alike(f[i], r[i]) /\ Promotes(r[i])
  <2> SUFFICES ASSUME NEW i \in 1..n PROVE Alike(f[i], r[i]) /\ Promotes(r[i])
    OBVIOUS
  <2>1. Alike(crowned(g[i]), g[i]) /\ Promotes(crowned(g[i]))
    BY <1>3, CrownedFacts
  <2> QED
    BY <1>2, <1>3, <2>1 DEF Alike
<1> HIDE DEF n, f, g, r
<1>5. check_partial_program(s, c, f)
  BY DEF f
<1>6. check_partial_program(s, c, r)
  BY <1>1, <1>2, <1>4, <1>5, PromotionIsFree
<1> QED
  BY <1>6 DEF r, g

\* A list of drafts that is legal is a list of actions.
LEMMA LegalDrafts ==
  ASSUME NEW s, NEW c, NEW p \in Seq(Drafts(s, c)), L6_geometric_legality(s, c, p)
  PROVE  p \in Seq(actions(s, c))
<1>1. \A i \in 1..Len(p) : p[i] \in actions(s, c)
  <2> SUFFICES ASSUME NEW i \in 1..Len(p) PROVE p[i] \in actions(s, c)
    OBVIOUS
  <2>1. p[i] \in Drafts(s, c)
    OBVIOUS
  <2>2. geometrically_legal(s, c, p, p[i])
    BY DEF L6_geometric_legality
  <2>3. Promotes(p[i])
    BY <2>2 DEF geometrically_legal, Promotes
  <2> QED
    BY <2>1, <2>3, DraftActs
<1> QED
  BY <1>1

\* Nothing is legal so far.
LEMMA NothingYet ==
  ASSUME NEW s, NEW c
  PROVE  check_partial_program(s, c, <<>>)
<1> DEFINE ss == [i \in DOMAIN <<>> |-> displacements(s, c, <<>>[i])]
           own == expand_program(s, c, <<>>)
<1>1. ss \in Seq(Seq({})) /\ Len(ss) = 0
  OBVIOUS
<1>2. FlattenSeq(ss) \in Seq({})
  BY <1>1, FlattenElements
<1>3. DOMAIN FlattenSeq(ss) = {}
  <2>1. DOMAIN FlattenSeq(ss) = 1..Len(FlattenSeq(ss)) /\ \A i \in 1..Len(FlattenSeq(ss)) : FlattenSeq(ss)[i] \in {}
    BY <1>2
  <2> QED
    BY <2>1
<1>4. DOMAIN own = {}
  BY <1>3 DEF expand_program
<1> HIDE DEF own
<1>5. L5_own_consistency(s, c, <<>>)
  BY <1>4 DEF L5_own_consistency, own
<1> QED
  BY <1>5 DEF check_partial_program, L3_distinct_actors, L4_cooldown_respected, L6_geometric_legality

-----------------------------------------------------------------------------
(***************************************************************************)
(* A phase, whoever handed in its programs.                                *)
(***************************************************************************)
\* Whatever an agent hands in is a list of actions of its colour.
LEMMA AgentActs ==
  ASSUME NEW s, NEW c, NEW agent \in {"random_legal", "greedy"}, NEW p \in agent_programs(agent, s, c)
  PROVE  p \in Seq(actions(s, c))
<1> DEFINE movers == move_candidates(s, c)
           all == movers \cup reserve_candidates(s, c) \cup cancel_candidates(s, c)
           A == actions(s, c)
<1>1. movers \subseteq A
  <2>1. \A t \in own_tokens(s, c) : move_actions(s, t) \subseteq A
    BY DEF actions
  <2>2. \A side \in Sides : Castle(side) \in A
    BY DEF actions
  <2> HIDE DEF A
  <2> QED
    BY <2>1, <2>2 DEF move_candidates
<1>2. reserve_candidates(s, c) \subseteq A
  <2>1. ASSUME NEW x \in own_tokens(s, c) \X own_tokens(s, c), x[1] # x[2]
        PROVE  Reserve(x[1], x[2]) \in A
    BY <2>1 DEF actions
  <2> HIDE DEF A
  <2> QED
    BY <2>1 DEF reserve_candidates
<1>3. cancel_candidates(s, c) \subseteq A
  BY DEF actions, cancel_candidates
<1>4. all \subseteq A
  BY <1>1, <1>2, <1>3
<1>5. ASSUME NEW k \in Nat, NEW f \in [1..k -> all] PROVE f \in Seq(A)
  <2>1. f \in [1..k -> A]
    BY <1>4, <1>5
  <2> QED
    BY <2>1
<1> HIDE DEF movers, all, A
<1>6. <<>> \in Seq(A) /\ \A a \in A : <<a>> \in Seq(A)
  OBVIOUS
<1>7. CASE agent = "random_legal"
  <2>1. p \in random_legal_program(s, c)
    BY <1>7 DEF agent_programs
  <2>2. \/ p = <<>>
        \/ \E k \in 1..N : p \in [1..k -> all]
        \/ \E a \in movers \cup all : p = <<a>>
    BY <2>1 DEF random_legal_program, movers, all
  <2>3. 1..N \subseteq Nat
    BY RuleSetAssumption
  <2>4. \A a \in movers \cup all : <<a>> \in Seq(A)
    BY <1>1, <1>4, <1>6
  <2>5. ASSUME NEW k \in 1..N, p \in [1..k -> all] PROVE p \in Seq(A)
    BY <1>5, <2>3, <2>5
  <2> QED
    BY <1>6, <2>2, <2>4, <2>5 DEF A
<1>8. CASE agent = "greedy"
  <2>1. p \in greedy_program(s, c)
    BY <1>8 DEF agent_programs
  <2>2. p = <<>> \/ \E a \in movers : p = <<a>>
    BY <2>1 DEF greedy_program, movers
  <2> QED
    BY <1>1, <1>6, <2>2 DEF A
<1> QED
  BY <1>7, <1>8

\* No token that a phase captured is on the board after it.
LEMMA CapturedAreGone ==
  ASSUME NEW s, NEW w, NEW b, Playable(s, w, b), NEW x \in ToSet(phi(s, w, b).trace.captured)
  PROVE  x[1] \notin live(phi(s, w, b).state.board)
<1> DEFINE db == Resolved(s, w, b)
           ctx == Scene(s, w, b)
<1>1. /\ phi(s, w, b).trace.captured = db.captured
      /\ phi(s, w, b).state.board = Board(s, w, b)
  <2>1. PICK r : r = phi(s, w, b) /\ After(s, w, b, r)
    BY PhaseIs
  <2> QED
    BY <2>1 DEF After
<1>2. Fallen(ctx, db, ToSet(ctx.pending)) /\ ctx.alive \subseteq live(s.board)
  BY PhaseDefence DEF Running
<1>3. x[1] \in live(s.board)
  BY <1>1, <1>2 DEF Fallen
<1>4. x[1].id \in Dead(Moves(s, w, b), db)
  BY <1>1 DEF Dead, captured_ids, captured_tokens
<1>5. ~ \E u \in live(Board(s, w, b)) : u.id = x[1].id
  BY <1>3, <1>4, Survives
<1> QED
  BY <1>1, <1>5

\* A move that a program declares is pseudo-legal for its token, or a castle's,
\* which ends on an empty square.
Reaches(s, m) ==
  \/ m.trajectory \in pseudo_legal_trajectories(s.board, m.token)
  \/ occupants(s.board, destination(m.trajectory)) = {}

\* So do the moves of one action.
LEMMA ActionReaches ==
  ASSUME NEW s, NEW c \in Color, NEW a \in actions(s, c), NEW d \in ToSet(displacements(s, c, a))
  PROVE  Reaches(s, d)
<1>1. CASE a.kind = "move"
  <2>1. displacements(s, c, a) = <<DeclaredMove(a.token, a.trajectory, c)>>
    BY <1>1 DEF displacements
  <2>2. d.token = a.token /\ d.trajectory = a.trajectory
    BY <2>1 DEF ToSet, DeclaredMove
  <2>3. a.trajectory \in pseudo_legal_trajectories(s.board, a.token)
    BY <1>1, ActionKinds
  <2> QED
    BY <2>2, <2>3 DEF Reaches
<1>2. CASE a.kind = "castle"
  <2>1. castle_of(s, c, a) # {}
    <3>1. castle_of(s, c, a) = {} => displacements(s, c, a) = <<>>
      BY <1>2 DEF displacements
    <3>2. ToSet(<<>>) = {}
      BY DEF ToSet
    <3> QED
      BY <3>1, <3>2
  <2>2. PICK m \in castle_of(s, c, a) :
          displacements(s, c, a) = <<DeclaredMove(m.king, m.king_trajectory, c),
                                     DeclaredMove(m.rook, m.rook_trajectory, c)>>
    BY <1>2, <2>1 DEF displacements
  <2>3. a.side \in Sides
    BY <1>2, ActionKinds
  <2>4. PICK x \in occupants(s.board, KingHome(c)) \X occupants(s.board, RookHome(c, a.side)) :
                 /\ CastleGap(c, a.side) \cap occupied(s.board) = {}
                 /\ m.king_trajectory = Trajectory(<<s.board[x[1]], KingTarget(c, a.side)>>, FALSE)
                 /\ m.rook_trajectory = Trajectory(<<s.board[x[2]], RookTarget(c, a.side)>>, FALSE)
    <3>1. m \in castle_move(s.board, s.rights, c, a.side)
      BY <2>2 DEF castle_of
    <3>2. PICK x \in occupants(s.board, KingHome(c)) \X occupants(s.board, RookHome(c, a.side)) :
            /\ CastleGap(c, a.side) \cap occupied(s.board) = {}
            /\ m = [king |-> x[1], rook |-> x[2],
                    king_trajectory |-> Trajectory(<<s.board[x[1]], KingTarget(c, a.side)>>, FALSE),
                    rook_trajectory |-> Trajectory(<<s.board[x[2]], RookTarget(c, a.side)>>, FALSE)]
      BY <3>1 DEF castle_move
    <3> QED
      BY <3>2
  <2>5. /\ destination(m.king_trajectory) = KingTarget(c, a.side)
        /\ destination(m.rook_trajectory) = RookTarget(c, a.side)
    <3>1. \A q, r : destination(Trajectory(<<q, r>>, FALSE)) = r
      BY DEF Trajectory, destination
    <3> QED
      BY <2>4, <3>1
  <2>6. KingTarget(c, a.side) \in CastleGap(c, a.side) /\ RookTarget(c, a.side) \in CastleGap(c, a.side)
    BY <2>3 DEF KingTarget, RookTarget, CastleGap, Sides
  <2>7. d.trajectory \in {m.king_trajectory, m.rook_trajectory}
    BY <2>2 DEF ToSet, DeclaredMove
  <2>8. destination(d.trajectory) \notin occupied(s.board)
    BY <2>4, <2>5, <2>6, <2>7
  <2> QED
    BY <2>8 DEF Reaches, occupants, occupied
<1>3. CASE a.kind \notin {"move", "castle"}
  <2>1. displacements(s, c, a) = <<>>
    BY <1>3 DEF displacements
  <2> QED
    BY <2>1 DEF ToSet
<1> QED
  BY <1>1, <1>2, <1>3

\* Every move that a list of actions expands to is one of an action's.
LEMMA ProgramReaches ==
  ASSUME NEW s, SoundBoard(s.board), NEW c \in Color, NEW prog \in Seq(actions(s, c)),
         NEW m \in ToSet(expand_program(s, c, prog))
  PROVE  Reaches(s, m)
<1> DEFINE ss == [i \in DOMAIN prog |-> displacements(s, c, prog[i])]
           S  == UNION {ToSet(displacements(s, c, a)) : a \in actions(s, c)}
           flat == FlattenSeq(ss)
<1>1. /\ DOMAIN prog = 1..Len(prog) /\ Len(prog) \in Nat
      /\ \A i \in 1..Len(prog) : prog[i] \in actions(s, c) /\ ss[i] = displacements(s, c, prog[i])
  OBVIOUS
<1>2. \A i \in 1..Len(prog) : ss[i] \in Seq(S)
  <2> SUFFICES ASSUME NEW i \in 1..Len(prog) PROVE ss[i] \in Seq(S)
    OBVIOUS
  <2> DEFINE ds == displacements(s, c, prog[i])
  <2>1. ds \in Seq(ToSet(ds))
    BY <1>1, DisplacementFacts
  <2>2. ToSet(ds) \subseteq S
    BY <1>1
  <2>3. ss[i] = ds
    BY <1>1
  <2> HIDE DEF ds, S, ss
  <2> QED
    BY <2>1, <2>2, <2>3
<1>3. ss \in Seq(Seq(S)) /\ Len(ss) = Len(prog)
  BY <1>1, <1>2
<1>4. \A x \in S : Reaches(s, x)
  BY ActionReaches
<1> HIDE DEF ss, S
<1>5. flat \in Seq(S)
  BY <1>3, FlattenElements
<1>6. expand_program(s, c, prog) =
        [i \in DOMAIN flat |-> [token |-> flat[i].token, trajectory |-> flat[i].trajectory,
                                color |-> c, index |-> i]]
  BY DEF expand_program, ss
<1> HIDE DEF flat
<1>7. PICK i \in DOMAIN flat : m.token = flat[i].token /\ m.trajectory = flat[i].trajectory
  BY <1>6 DEF ToSet
<1>8. Reaches(s, flat[i])
  BY <1>4, <1>5
<1> QED
  BY <1>7, <1>8 DEF Reaches

\* Who strikes a token where it stands has a pseudo-legal trajectory to it, and
\* is not cooled.
LEMMA StrikersReach ==
  ASSUME NEW s, NEW w, NEW b, Playable(s, w, b), NEW m \in ToSet(Moves(s, w, b).survivors)
  PROVE  /\ m.token \in own_tokens(s, m.color) \ s.cooldown /\ m.color \in Color
         /\ Goes(s.board, m.token, m.trajectory)
         /\ Reaches(s, m)
<1> DEFINE u == expand_program(s, "W", w)
           v == expand_program(s, "B", b)
           declared == u \o v
           M == ToSet(declared)
           mv == Moves(s, w, b)
<1>1. SoundBoard(s.board)
  BY DEF Playable, WellFormed
<1>2. /\ declared \in Seq(M) /\ NoRepeats(declared) /\ Movers(s, M)
      /\ \A x \in M : x.token \notin s.cooldown
  BY <1>1, DeclaredFacts DEF Playable
<1>3. u \in Seq(ToSet(u)) /\ v \in Seq(ToSet(v))
  BY <1>1, OwnMovers DEF Playable, Color
<1>4. \A x \in ToSet(u) \cup ToSet(v) : Reaches(s, x)
  BY <1>1, ProgramReaches DEF Playable, Color
<1>5. mv = stages_F_A(s.board, declared)
  BY DEF Moves
<1> HIDE DEF u, v, mv
<1>6. M = ToSet(u) \cup ToSet(v)
  <2>1. u \in Seq(ToSet(u) \cup ToSet(v)) /\ v \in Seq(ToSet(u) \cup ToSet(v))
    BY <1>3
  <2> QED
    BY <2>1, ToSetOfConcat
<1> HIDE DEF declared, M
<1>7. mv.survivors \in Seq(M)
  BY <1>2, <1>5, StagesFA DEF M
<1>8. m \in M
  BY <1>7, SeqElements DEF mv
<1> QED
  BY <1>2, <1>4, <1>6, <1>8 DEF Movers

\* Who is captured where it stood was in reach of an enemy free to move.
LEMMA CapturedWereInReach ==
  ASSUME NEW s, NEW w, NEW b, Playable(s, w, b),
         NEW x \in ToSet(phi(s, w, b).trace.captured),
         x[1] \in live(s.board), s.board[x[1]] = x[2]
  PROVE  x[1].id \in threat_overlay(s, x[1].color)
<1> DEFINE db == Resolved(s, w, b)
           ctx == Scene(s, w, b)
           mv == Moves(s, w, b)
           t == x[1]
<1>1. x \in ToSet(db.captured)
  <2>1. PICK r : r = phi(s, w, b) /\ After(s, w, b, r)
    BY PhaseIs
  <2> QED
    BY <2>1 DEF After
<1>2. /\ Fallen(ctx, db, ToSet(ctx.pending)) /\ Fired(ctx, db, ToSet(ctx.pending))
      /\ ctx.board = s.board
      /\ ctx.pending = pending_batteries(s.board, mv.executing, mv.survivors)
  BY PhaseDefence DEF Running
<1>3. PICK M : Stage(s, M, mv.executing, mv.survivors)
  BY PhaseMoves
<1> HIDE DEF db, ctx, mv
<1>4. PICK p \in ToSet(ctx.pending) :
        /\ x[2] = p.square
        /\ \/ t = p.victim
           \/ t = p.holder
           \/ \E f \in ToSet(db.fired) : f.defender = t /\ f.square = x[2]
  BY <1>1, <1>2 DEF Fallen
<1>5. PICK m \in ToSet(mv.survivors), v \in live(s.board) :
        Strikes(s, mv.executing, m, v) /\ p = Battery(m, v)
  <2>1. \A y : y \in ToSet(pending_batteries(s.board, mv.executing, mv.survivors)) <=>
          \E m \in ToSet(mv.survivors), v \in live(s.board) :
            Strikes(s, mv.executing, m, v) /\ y = Battery(m, v)
    BY <1>3, PendingFacts
  <2> QED
    BY <1>2, <1>4, <2>1
<1>6. /\ m.token \in own_tokens(s, m.color) \ s.cooldown /\ m.color \in Color
      /\ Goes(s.board, m.token, m.trajectory) /\ Reaches(s, m)
  BY StrikersReach DEF mv
<1>7. p.square = destination(m.trajectory) /\ p.holder = m.token /\ p.victim = v
  BY <1>5 DEF Battery
<1>8. t # p.holder
  BY <1>4, <1>6, <1>7 DEF Goes, held, own_tokens
<1>9. ~ \E f \in ToSet(db.fired) : f.defender = t /\ f.square = x[2]
  BY <1>2 DEF Fired
<1>10. t = v
  BY <1>4, <1>7, <1>8, <1>9
<1>11. t.color # m.color /\ t \in occupants(s.board, destination(m.trajectory))
  BY <1>5, <1>10 DEF Strikes
<1>12. t.color \in Color /\ opponent(t.color) = m.color
  <2>1. t.color \in Color
    BY <1>3 DEF Stage, SoundBoard
  <2> QED
    BY <1>6, <1>11, <2>1 DEF Color, opponent
<1>13. m.trajectory \in trajectories_to(s, m.token, s.board[t])
  BY <1>4, <1>6, <1>7, <1>11 DEF trajectories_to, Reaches
<1>14. t \in own_tokens(s, t.color)
  BY DEF own_tokens
<1> QED
  BY <1>6, <1>12, <1>13, <1>14 DEF threat_overlay

-----------------------------------------------------------------------------
(***************************************************************************)
(* The inductive invariant.                                                *)
(***************************************************************************)
\* The first k actions of a program.
Prefix(p, k) == [i \in 1..k |-> p[i]]

\* A program under construction: drafts, legal so far when promoted, and it was
\* so at each of its lengths.
SoFar(s, c, p) ==
  /\ p \in Seq(Drafts(s, c))
  /\ \A k \in 0..Len(p) : check_partial_program(s, c, promoting(Prefix(p, k)))

Picks(s, c, sel) == sel = {} \/ \E t \in own_tokens(s, c) : sel = {t.id}

InWindow ==
  setup.front = "window" => Picks(state, me, selected) /\ SoFar(state, me, building)

IInv ==
  /\ WellFormed(state)
  /\ played \in Nat
  /\ setup \in Setups
  /\ \A x \in ToSet(last.trace.captured) : x[1] \notin live(state.board)
  /\ InWindow

\* In the window there is one human, and the other player is an agent.
LEMMA OneHuman ==
  ASSUME setup \in Setups, setup.front = "window"
  PROVE  /\ me \in Color
         /\ setup.player[opponent(me)] \in {"random_legal", "greedy"}
<1>1. PICK c \in Color : \A d \in Color : setup.player[d] = "human" <=> d = c
  BY LocalAssumption
<1>2. humans = {c}
  BY <1>1 DEF humans
<1>3. me = c
  BY <1>2 DEF me
<1>4. opponent(c) \in Color /\ opponent(c) # c
  BY Colours
<1>5. setup.player[opponent(c)] \in {"human", "random_legal", "greedy"}
  BY <1>4, LocalAssumption
<1> QED
  BY <1>1, <1>3, <1>4, <1>5

\* A program of no actions.
LEMMA SoFarEmpty ==
  ASSUME NEW s, NEW c
  PROVE  SoFar(s, c, <<>>)
<1>1. \A k \in 0..Len(<<>>) : Prefix(<<>>, k) = <<>>
  BY DEF Prefix
<1>2. promoting(<<>>) = <<>>
  BY DEF promoting
<1> QED
  BY <1>1, <1>2, NothingYet DEF SoFar

\* One action more.
LEMMA SoFarGrows ==
  ASSUME NEW s, NEW c, NEW p, SoFar(s, c, p), NEW a \in Drafts(s, c), NEW x, Alike(x, a),
         check_partial_program(s, c, Append(p, x))
  PROVE  SoFar(s, c, Append(p, a))
<1> DEFINE g == Append(p, a)
<1>1. p \in Seq(Drafts(s, c))
  BY DEF SoFar
<1>2. g \in Seq(Drafts(s, c)) /\ Len(g) = Len(p) + 1 /\ Len(p) \in Nat
  BY <1>1
<1>3. check_partial_program(s, c, promoting(g))
  BY <1>1, Grown
<1>4. Prefix(g, Len(g)) = g
  <2> HIDE DEF g
  <2>1. g = [i \in 1..Len(g) |-> g[i]]
    BY <1>2
  <2> QED
    BY <2>1 DEF Prefix
<1>5. \A k \in 0..Len(p) : Prefix(g, k) = Prefix(p, k)
  BY <1>1 DEF Prefix
<1> HIDE DEF g
<1>6. \A k \in 0..Len(g) : check_partial_program(s, c, promoting(Prefix(g, k)))
  BY <1>2, <1>3, <1>4, <1>5 DEF SoFar
<1> QED
  BY <1>2, <1>6 DEF SoFar, g

\* One action less.
LEMMA SoFarShrinks ==
  ASSUME NEW s, NEW c, NEW p, SoFar(s, c, p), p # <<>>
  PROVE  SoFar(s, c, Front(p))
<1> DEFINE g == Front(p)
<1>1. p \in Seq(Drafts(s, c)) /\ Len(p) \in Nat /\ Len(p) # 0
  BY DEF SoFar
<1>2. PICK n \in Nat : Len(p) - 1 = n
  BY <1>1
<1>3. Len(p) = n + 1 /\ g = SubSeq(p, 1, n)
  BY <1>1, <1>2 DEF Front
<1>4. g \in Seq(Drafts(s, c)) /\ Len(g) = n /\ \A i \in 1..n : g[i] = p[i]
  <2>1. \A i \in 1..n : p[i] \in Drafts(s, c)
    BY <1>1, <1>3
  <2>2. /\ g \in Seq(Drafts(s, c))
        /\ Len(g) = IF 1 <= n THEN n - 1 + 1 ELSE 0
        /\ \A i \in 1..(n - 1 + 1) : g[i] = p[1 + i - 1]
    BY <1>3, <2>1, SubSeqProperties
  <2>3. n - 1 + 1 = n /\ \A i \in 1..n : 1 + i - 1 = i
    OBVIOUS
  <2>4. ~ (1 <= n) => n = 0
    OBVIOUS
  <2> QED
    BY <2>2, <2>3, <2>4
<1> HIDE DEF g
<1>5. \A k \in 0..n : Prefix(g, k) = Prefix(p, k)
  BY <1>4 DEF Prefix
<1>6. \A k \in 0..Len(g) : check_partial_program(s, c, promoting(Prefix(g, k)))
  BY <1>1, <1>3, <1>4, <1>5 DEF SoFar
<1> QED
  BY <1>4, <1>6 DEF SoFar, g

\* The selection is of one token at most, the human's own.
LEMMA SelectionFacts ==
  ASSUME IInv, setup.front = "window", NEW t \in selection
  PROVE  t \in own_tokens(state, me) /\ selected = {t.id}
<1>1. PICK u \in own_tokens(state, me) : selected = {u.id}
  BY DEF IInv, InWindow, Picks, selection
<1>2. t \in live(state.board) /\ t.id = u.id /\ u \in live(state.board)
  BY <1>1 DEF selection, own_tokens
<1>3. t = u
  BY <1>2 DEF IInv, WellFormed, SoundBoard
<1> QED
  BY <1>1, <1>3

-----------------------------------------------------------------------------
(***************************************************************************)
(* The steps.                                                              *)
(***************************************************************************)
\* A step of the window that leaves the game alone.
Edits ==
  /\ setup.front = "window" /\ UNCHANGED setup /\ UNCHANGED game
  /\ Picks(state, me, selected') /\ SoFar(state, me, building')

\* Selecting a piece of one's own, or letting it go.
LEMMA SelectFacts ==
  ASSUME NEW square, NEW t \in mine_on(square), select(t)
  PROVE  Picks(state, me, selected')
<1>1. t \in own_tokens(state, me)
  BY DEF mine_on, own_occupants, occupants, own_tokens
<1> QED
  BY <1>1 DEF select, Picks

\* A click in move mode.
LEMMA MoveClicked ==
  ASSUME IInv, NEW square, click_move(square)
  PROVE  Edits
<1>1. setup.front = "window" /\ UNCHANGED setup /\ UNCHANGED game
  BY DEF click_move, open_window, same_game
<1>2. Picks(state, me, selected) /\ SoFar(state, me, building)
  BY <1>1 DEF IInv, InWindow
<1>3. CASE \E t \in mine_on(square) : select(t) /\ UNCHANGED building
  BY <1>1, <1>2, <1>3, SelectFacts DEF Edits
<1>4. CASE /\ \E t \in selection : square \in targets(t) /\ \E a \in built_move(t, square) : add(a)
           /\ selected' = {}
  <2>0. PICK t \in selection : square \in targets(t) /\ \E a \in built_move(t, square) : add(a)
    BY <1>4
  <2>1. PICK a \in built_move(t, square) : add(a)
    BY <2>0
  <2>2. t \in own_tokens(state, me) /\ t \in live(state.board)
    BY <1>1, SelectionFacts DEF own_tokens
  <2>3. PICK x \in move_actions(state, t) : extends(x) /\ destination(x.trajectory) = square
    BY <2>0 DEF targets
  <2>4. PICK tau \in pseudo_legal_trajectories(state.board, t) :
          destination(tau) = square /\ a = Move(t, tau, NoPromotion)
    BY <2>1 DEF built_move, trajectories_to
  <2>5. /\ x.kind = "move" /\ x.token = t
        /\ x.trajectory \in pseudo_legal_trajectories(state.board, t)
    BY <2>3 DEF move_actions, Move
  <2>6. SoundBoard(state.board)
    BY DEF IInv, WellFormed
  <2>7. x.trajectory = tau
    BY <2>2, <2>3, <2>4, <2>5, <2>6, OnePath
  <2>8. Alike(x, a)
    BY <2>4, <2>5, <2>7 DEF Alike, Move
  <2>9. a \in Drafts(state, me)
    BY <2>2, <2>4 DEF Drafts
  <2>10. SoFar(state, me, Append(building, a))
    BY <1>2, <2>3, <2>8, <2>9, SoFarGrows DEF extends
  <2> QED
    BY <1>1, <1>4, <2>1, <2>10 DEF Edits, Picks, add
<1> QED
  BY <1>3, <1>4 DEF click_move

\* A click in reserve mode.
LEMMA ReserveClicked ==
  ASSUME IInv, NEW square, click_reserve(square)
  PROVE  Edits
<1>1. setup.front = "window" /\ UNCHANGED setup /\ UNCHANGED game
  BY DEF click_reserve, open_window, same_game
<1>2. Picks(state, me, selected) /\ SoFar(state, me, building)
  BY <1>1 DEF IInv, InWindow
<1>3. PICK q \in mine_on(square) :
       \/ selected \in {{}, {q.id}} /\ select(q) /\ UNCHANGED building
       \/ /\ selected \notin {{}, {q.id}}
          /\ \E d \in selection :
               IF extends(Reserve(d, q)) THEN add(Reserve(d, q))
               ELSE UNCHANGED building
          /\ selected' = {}
  BY DEF click_reserve
<1>4. CASE select(q) /\ UNCHANGED building
  BY <1>1, <1>2, <1>4, SelectFacts DEF Edits
<1>5. CASE /\ selected \notin {{}, {q.id}} /\ selected' = {}
           /\ \E d \in selection : IF extends(Reserve(d, q)) THEN add(Reserve(d, q))
                                   ELSE UNCHANGED building
  <2>1. PICK d \in selection : IF extends(Reserve(d, q)) THEN add(Reserve(d, q)) ELSE UNCHANGED building
    BY <1>5
  <2>2. CASE ~ extends(Reserve(d, q))
    BY <1>1, <1>2, <1>5, <2>1, <2>2 DEF Edits, Picks
  <2>3. CASE extends(Reserve(d, q))
    <3>1. d \in own_tokens(state, me) /\ selected = {d.id}
      BY <1>1, SelectionFacts
    <3>2. q \in own_tokens(state, me)
      BY DEF mine_on, own_occupants, occupants, own_tokens
    <3>3. d # q
      BY <1>5, <3>1
    <3>4. Reserve(d, q) \in Drafts(state, me)
      <4>1. <<d, q>> \in {y \in own_tokens(state, me) \X own_tokens(state, me) : y[1] # y[2]}
        BY <3>1, <3>2, <3>3
      <4> QED
        BY <4>1 DEF Drafts
    <3>5. SoFar(state, me, Append(building, Reserve(d, q)))
      BY <1>2, <2>3, <3>4, SoFarGrows DEF extends, Alike
    <3> QED
      BY <1>1, <1>5, <2>1, <2>3, <3>5 DEF Edits, Picks, add
  <2> QED
    BY <2>2, <2>3
<1> QED
  BY <1>3, <1>4, <1>5

\* A click in cancel mode.
LEMMA CancelClicked ==
  ASSUME IInv, NEW square, click_cancel(square)
  PROVE  Edits
<1>1. setup.front = "window" /\ UNCHANGED setup /\ UNCHANGED game /\ selected' = selected
  BY DEF click_cancel, open_window, same_game
<1>2. Picks(state, me, selected) /\ SoFar(state, me, building)
  BY <1>1 DEF IInv, InWindow
<1>3. \E d \in mine_on(square) : \E x \in cancel_by(d) : add(x)
  BY DEF click_cancel
<1> DEFINE drop(i) == Cancel(state.res[me][i])
<1>4. PICK i \in DOMAIN state.res[me] : add(drop(i)) /\ extends(drop(i))
  BY <1>3 DEF cancel_by
<1> DEFINE a == drop(i)
<1>5. a \in Drafts(state, me)
  <2>1. state.res[me][i] \in ToSet(state.res[me])
    BY DEF ToSet
  <2> QED
    BY <1>4, <2>1 DEF Drafts
<1>6. SoFar(state, me, Append(building, a))
  BY <1>2, <1>4, <1>5, SoFarGrows DEF extends, Alike
<1> QED
  BY <1>1, <1>2, <1>4, <1>6 DEF Edits, add

\* A castle.
LEMMA CastleTried ==
  ASSUME IInv, NEW side \in Sides, try_castle(side)
  PROVE  Edits
<1>1. setup.front = "window" /\ UNCHANGED setup /\ UNCHANGED game /\ selected' = {}
  BY DEF try_castle, open_window, same_game
<1>2. SoFar(state, me, building)
  BY <1>1 DEF IInv, InWindow
<1>3. CASE extends(Castle(side)) /\ add(Castle(side))
  <2>1. Castle(side) \in Drafts(state, me)
    BY DEF Drafts
  <2>2. SoFar(state, me, Append(building, Castle(side)))
    BY <1>2, <1>3, <2>1, SoFarGrows DEF extends, Alike
  <2> QED
    BY <1>1, <1>3, <2>2 DEF Edits, Picks, add
<1>4. CASE UNCHANGED building
  BY <1>1, <1>2, <1>4 DEF Edits, Picks
<1> QED
  BY <1>3, <1>4 DEF try_castle

\* Undo, and a change of mode.
LEMMA UndoneOrSwitched ==
  ASSUME IInv, undo \/ \E m \in {"move", "reserve", "cancel"} : set_mode(m)
  PROVE  Edits
<1>1. setup.front = "window" /\ UNCHANGED setup /\ UNCHANGED game /\ selected' = {}
  BY DEF undo, set_mode, open_window, same_game
<1>2. SoFar(state, me, building)
  BY <1>1 DEF IInv, InWindow
<1>3. SoFar(state, me, building')
  BY <1>2, SoFarEmpty, SoFarShrinks DEF undo, set_mode
<1> QED
  BY <1>1, <1>3 DEF Edits, Picks

\* A phase of two legal programs; the window forgets what it was building.
Phased ==
  /\ outcome = "ongoing"
  /\ setup.front # "window" => played < MaxPhases
  /\ \E w, b : Playable(state, w, b) /\ plays(w, b)
  /\ setup.front = "window" => building' = <<>> /\ selected' = {}

\* A game that self-play gives up.
Aborted == setup.front = "selfplay" /\ outcome = "ongoing" /\ abort

\* A step that leaves the game alone.
Unplayed == UNCHANGED game /\ (setup.front = "window" => Edits)

\* Two lists of actions are resolved as a phase if they are legal.
LEMMA Resolves ==
  ASSUME IInv, NEW w, NEW b, resolve(w, b),
         is_legal_program(state, "W", w) => w \in Seq(actions(state, "W")),
         is_legal_program(state, "B", b) => b \in Seq(actions(state, "B"))
  PROVE  \/ Playable(state, w, b) /\ plays(w, b)
         \/ setup.front = "selfplay" /\ abort
         \/ UNCHANGED game
BY DEF resolve, IInv, Playable

\* What a player of the terminal or of a match hands in, if it is legal, is a
\* list of actions.
LEMMA HandedIn ==
  ASSUME IInv, NEW c \in Color, NEW p \in handed_in(c)
  PROVE  p \in Seq(actions(state, c))
<1>1. CASE c \in humans
  BY <1>1, ProgramsOf DEF handed_in, legal_programs, SeqsUpTo
<1>2. CASE c \notin humans
  <2>1. setup.player[c] \in {"random_legal", "greedy"}
    BY <1>2, LocalAssumption DEF humans, IInv
  <2>2. p \in agent_programs(setup.player[c], state, c)
    BY <1>2 DEF handed_in
  <2> QED
    BY <2>1, <2>2, AgentActs
<1> QED
  BY <1>1, <1>2

\* The loops.
LEMMA LoopStep ==
  ASSUME IInv, play_phase
  PROVE  UNCHANGED setup /\ (Phased \/ Aborted \/ Unplayed)
<1>1. /\ setup.front # "window" /\ outcome = "ongoing" /\ played < MaxPhases /\ UNCHANGED setup
      /\ \E w \in handed_in("W"), b \in handed_in("B") : resolve(w, b)
  BY DEF play_phase, goes_on
<1>2. PICK w \in handed_in("W"), b \in handed_in("B") : resolve(w, b)
  BY <1>1
<1>3. w \in Seq(actions(state, "W")) /\ b \in Seq(actions(state, "B"))
  BY HandedIn DEF Color
<1>4. \/ Playable(state, w, b) /\ plays(w, b)
      \/ setup.front = "selfplay" /\ abort
      \/ UNCHANGED game
  BY <1>2, <1>3, Resolves
<1> QED
  BY <1>1, <1>4 DEF Phased, Aborted, Unplayed

\* The window's programs go to phi as they are, and a phase counts.
LEMMA SubmitStep ==
  ASSUME IInv, submit
  PROVE  UNCHANGED setup /\ (Phased \/ Unplayed)
<1>1. setup.front = "window" /\ outcome = "ongoing" /\ UNCHANGED setup
  BY DEF submit, open_window
<1>2. is_legal_program(state, me, building)
  BY DEF submit
<1>3. PICK p \in agent_programs(setup.player[opponent(me)], state, opponent(me)) :
        LET programs == [c \in Color |-> IF c = me THEN building ELSE p]
        IN  resolve(programs["W"], programs["B"])
  BY DEF submit
<1>4. IF played' = played THEN UNCHANGED <<building, selected>> ELSE new_builder
  BY DEF submit
<1>5. /\ me \in Color /\ setup.player[opponent(me)] \in {"random_legal", "greedy"}
      /\ Picks(state, me, selected) /\ SoFar(state, me, building)
  BY <1>1, OneHuman DEF IInv, InWindow
<1>6. building \in Seq(actions(state, me))
  BY <1>2, <1>5, LegalDrafts DEF SoFar, is_legal_program, check_partial_program
<1>7. p \in Seq(actions(state, opponent(me)))
  BY <1>5, AgentActs
<1> DEFINE w == IF "W" = me THEN building ELSE p
           b == IF "B" = me THEN building ELSE p
<1>8. resolve(w, b)
  BY <1>3 DEF Color
<1>9. w \in Seq(actions(state, "W")) /\ b \in Seq(actions(state, "B"))
  BY <1>5, <1>6, <1>7 DEF Color, opponent
<1> HIDE DEF w, b
<1>10. \/ Playable(state, w, b) /\ plays(w, b)
       \/ UNCHANGED game
  BY <1>1, <1>8, <1>9, Resolves
<1>11. CASE Playable(state, w, b) /\ plays(w, b)
  <2>1. played' # played
    BY <1>11 DEF plays, IInv
  <2>2. building' = <<>> /\ selected' = {}
    BY <1>4, <2>1 DEF new_builder
  <2> QED
    BY <1>1, <1>11, <2>2 DEF Phased
<1>12. CASE UNCHANGED game
  <2>1. building' = building /\ selected' = selected
    BY <1>4, <1>12 DEF game
  <2> QED
    BY <1>1, <1>5, <1>12, <2>1 DEF Unplayed, Edits
<1> QED
  BY <1>10, <1>11, <1>12

\* Every step is one of these.
LEMMA StepIs ==
  ASSUME IInv, Next
  PROVE  UNCHANGED setup /\ (Phased \/ Aborted \/ (setup.front # "window" /\ phase_limit) \/ Unplayed)
<1>1. CASE play_phase
  BY <1>1, LoopStep
<1>2. CASE stop_at_limit
  BY <1>2 DEF stop_at_limit
<1>3. CASE submit
  BY <1>3, SubmitStep
<1>4. ASSUME Edits PROVE UNCHANGED setup /\ Unplayed
  BY <1>4 DEF Edits, Unplayed
<1>5. CASE \E m \in {"move", "reserve", "cancel"} : set_mode(m)
  BY <1>4, <1>5, UndoneOrSwitched
<1>6. CASE \E square \in Clickable : click_move(square)
  BY <1>4, <1>6, MoveClicked
<1>7. CASE \E square \in Clickable : click_reserve(square)
  BY <1>4, <1>7, ReserveClicked
<1>8. CASE \E square \in Clickable : click_cancel(square)
  BY <1>4, <1>8, CancelClicked
<1>9. CASE \E side \in Sides : try_castle(side)
  BY <1>4, <1>9, CastleTried
<1>10. CASE undo
  BY <1>4, <1>10, UndoneOrSwitched
<1> QED
  BY <1>1, <1>2, <1>3, <1>5, <1>6, <1>7, <1>8, <1>9, <1>10 DEF Next

\* The game starts in a well-formed state, with nothing selected or built.
LEMMA Starts == Init => IInv
<1> SUFFICES ASSUME Init PROVE IInv
  OBVIOUS
<1>1. setup \in Setups /\ state = setup.start /\ played = 0 /\ last.trace = NoTrace
  BY DEF Init, begins_in
<1>2. WellFormed(state)
  BY <1>1, LocalAssumption
<1>3. ToSet(last.trace.captured) = {}
  BY <1>1 DEF NoTrace, ToSet
<1>4. Picks(state, me, selected) /\ SoFar(state, me, building)
  BY SoFarEmpty DEF Init, Picks
<1> QED
  BY <1>1, <1>2, <1>3, <1>4 DEF IInv, InWindow

\* Every step keeps the invariant.
LEMMA Keeps == IInv /\ [Next]_vars => IInv'
<1> SUFFICES ASSUME IInv, [Next]_vars PROVE IInv'
  OBVIOUS
<1>1. CASE UNCHANGED vars
  <2>1. /\ state' = state /\ played' = played /\ setup' = setup /\ last' = last
        /\ selected' = selected /\ building' = building
    BY <1>1 DEF vars, game, window
  <2>2. me' = me
    BY <2>1 DEF me, humans
  <2> QED
    BY <2>1, <2>2 DEF IInv, InWindow
<1>2. CASE Next
  <2>1. setup' = setup /\ setup \in Setups /\ setup' \in Setups /\ me' = me
    BY <1>2, StepIs DEF IInv, me, humans
  <2>2. CASE Phased
    <3>1. PICK w, b : Playable(state, w, b) /\ plays(w, b)
      BY <2>2 DEF Phased
    <3>2. state' = phi(state, w, b).state /\ last'.trace = phi(state, w, b).trace /\ played' = played + 1
      BY <3>1 DEF plays
    <3>3. WellFormed(state')
      BY <3>1, <3>2, StaysWellFormed
    <3>4. \A x \in ToSet(last'.trace.captured) : x[1] \notin live(state'.board)
      BY <3>1, <3>2, CapturedAreGone
    <3>5. setup.front = "window" => Picks(state', me, selected') /\ SoFar(state', me, building')
      BY <2>2, SoFarEmpty DEF Phased, Picks
    <3>6. played' \in Nat
      BY <3>2 DEF IInv
    <3> QED
      BY <2>1, <3>3, <3>4, <3>5, <3>6 DEF IInv, InWindow
  <2>3. CASE Aborted \/ (setup.front # "window" /\ phase_limit)
    <3>1. setup.front # "window" /\ state' = state /\ last' = last /\ played' \in Nat
      BY <2>3 DEF Aborted, abort, phase_limit, IInv
    <3> QED
      BY <2>1, <3>1 DEF IInv, InWindow
  <2>4. CASE Unplayed
    <3>1. state' = state /\ last' = last /\ played' = played
      BY <2>4 DEF Unplayed, game
    <3>2. setup.front = "window" => Picks(state, me, selected') /\ SoFar(state, me, building')
      BY <2>4 DEF Unplayed, Edits
    <3> QED
      BY <2>1, <3>1, <3>2 DEF IInv, InWindow
  <2> QED
    BY <1>2, <2>2, <2>3, <2>4, StepIs
<1> QED
  BY <1>1, <1>2

\* The invariant holds throughout.
LEMMA Invariance == Spec => []IInv
<1> QED
  BY Starts, Keeps, PTL DEF Spec

-----------------------------------------------------------------------------
(***************************************************************************)
(* What it comes to.                                                       *)
(***************************************************************************)
\* The window never acts on a past position: what is selected and what is being
\* built belongs to the human in the current state, and is legal so far.
THEOREM BuilderKept == Spec => []BuilderIsCurrent
<1>1. IInv => BuilderIsCurrent
  <2> SUFFICES ASSUME IInv, setup.front = "window"
               PROVE  /\ selected \subseteq {t.id : t \in own_tokens(state, me)}
                      /\ \A i \in DOMAIN building : building[i].kind # "cancel" =>
                           actors_of(state, me, building[i]) \subseteq own_tokens(state, me)
                      /\ check_partial_program(state, me, promoting(building))
    BY DEF BuilderIsCurrent
  <2>1. Picks(state, me, selected) /\ SoFar(state, me, building) /\ me \in Color
    BY OneHuman DEF IInv, InWindow
  <2>2. selected \subseteq {t.id : t \in own_tokens(state, me)}
    BY <2>1 DEF Picks
  <2>3. SoundBoard(state.board)
    BY DEF IInv, WellFormed
  <2>4. ASSUME NEW i \in DOMAIN building
        PROVE  actors_of(state, me, building[i]) \subseteq own_tokens(state, me)
    <3>1. PICK a \in Drafts(state, me) : a = building[i]
      BY <2>1 DEF SoFar
    <3>2. CASE a.kind = "castle"
      <4>1. a.side \in Sides
        BY <3>2, DraftKinds
      <4>2. \A m \in castle_of(state, me, a) : m.king \in own_tokens(state, me) /\ m.rook \in own_tokens(state, me)
        BY <2>1, <2>3, <4>1, CastleGoes DEF castle_of
      <4>3. king_token(state, me) \subseteq own_tokens(state, me)
        BY DEF king_token, own_tokens
      <4> QED
        BY <3>1, <3>2, <4>2, <4>3 DEF actors_of
    <3>3. CASE a.kind # "castle"
      BY <3>1, <3>3, DraftKinds DEF actors_of
    <3> QED
      BY <3>2, <3>3
  <2>5. check_partial_program(state, me, promoting(building))
    <3>1. building \in Seq(Drafts(state, me))
      BY <2>1 DEF SoFar
    <3>2. building = [i \in 1..Len(building) |-> building[i]] /\ Len(building) \in 0..Len(building)
      BY <3>1
    <3>3. Prefix(building, Len(building)) = building
      BY <3>2 DEF Prefix
    <3> QED
      BY <2>1, <3>2, <3>3 DEF SoFar
  <2> QED
    BY <2>2, <2>4, <2>5
<1> QED
  BY <1>1, Invariance, PTL

\* Whatever the front end, the game goes on as a match does, but for the games
\* that self-play aborts.
THEOREM EveryFrontEndPlaysMatch == Spec => PlaysMatch
<1>1. Init => begins_in({x.start : x \in Setups})
  BY DEF Init, begins_in
<1>2. IInv /\ [Next]_vars => [a_phase \/ an_abort \/ phase_limit]_game
  <2> SUFFICES ASSUME IInv, [Next]_vars PROVE [a_phase \/ an_abort \/ phase_limit]_game
    OBVIOUS
  <2>1. CASE UNCHANGED vars
    BY <2>1 DEF vars
  <2>2. CASE Next
    <3>1. CASE Phased
      <4>1. PICK w, b : Playable(state, w, b) /\ plays(w, b)
        BY <3>1 DEF Phased
      <4>2. last'.white = w /\ last'.black = b /\ played' # played
        BY <4>1 DEF plays, IInv
      <4> QED
        BY <3>1, <4>1, <4>2 DEF Phased, a_phase, Playable
    <3>2. CASE Aborted
      BY <3>2 DEF Aborted, abort, an_abort
    <3>3. CASE phase_limit
      BY <3>3
    <3>4. CASE Unplayed
      BY <3>4 DEF Unplayed
    <3> QED
      BY <2>2, <3>1, <3>2, <3>3, <3>4, StepIs
  <2> QED
    BY <2>1, <2>2
<1> QED
  BY <1>1, <1>2, Invariance, PTL DEF Spec, PlaysMatch

\* The threat overlay misses nothing: whatever is captured where it stood when
\* the programs were declared was shown as threatened then.
THEOREM OverlayMissesNothing == Spec => ThreatsShown
<1>1. ASSUME IInv, Next, played' # played, NEW x \in ToSet(last'.trace.captured),
             x[1] \in live(state.board), state.board[x[1]] = x[2]
      PROVE  x[1].id \in threat_overlay(state, x[1].color)
  <2>1. CASE Phased
    <3>1. PICK w, b : Playable(state, w, b) /\ plays(w, b)
      BY <2>1 DEF Phased
    <3>2. x \in ToSet(phi(state, w, b).trace.captured)
      BY <3>1, <1>1 DEF plays
    <3> QED
      BY <1>1, <3>1, <3>2, CapturedWereInReach
  <2>2. CASE Aborted
    <3>1. last' = last
      BY <2>2 DEF Aborted, abort
    <3> QED
      BY <1>1, <3>1 DEF IInv
  <2>3. CASE phase_limit \/ Unplayed
    BY <1>1, <2>3 DEF phase_limit, Unplayed, game
  <2> QED
    BY <1>1, <2>1, <2>2, <2>3, StepIs
<1>2. IInv /\ [Next]_vars =>
        [played' # played =>
           \A x \in ToSet(last'.trace.captured) :
             x[1] \in live(state.board) /\ state.board[x[1]] = x[2] =>
               x[1].id \in threat_overlay(state, x[1].color)]_vars
  BY <1>1
<1> QED
  BY <1>2, Invariance, PTL DEF Spec, ThreatsShown
=============================================================================
