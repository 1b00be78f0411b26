----------------------------- MODULE PhiProofs ------------------------------
(***************************************************************************)
(* What one phase does, proved of phi's stages for boards of every size,   *)
(* every number of actions and every rule set: what two legal programs     *)
(* come to as declared moves, that the survivors of stage A do not meet,   *)
(* the invariant of stage B (Running) from its first battery to its last,  *)
(* in both readings, and what the phase leaves behind, part by part        *)
(* (After): a state that is well-formed if the state before it was.        *)
(*                                                                         *)
(* Folds and recursive functions are taken step by step: a function with   *)
(* the equation of the recursion exists for every number of steps (the     *)
(* lemmas ...Exists), and what holds of its first value and is kept by its *)
(* equation holds of its last (Induct, InductTo).                          *)
(***************************************************************************)
EXTENDS Phi, FiniteSetTheorems, SequenceTheorems, WellFoundedInduction, TLAPS

-----------------------------------------------------------------------------
(***************************************************************************)
(* Induction, and lists.                                                   *)
(***************************************************************************)
\* A non-empty set of naturals has a least element.
LEMMA LeastNat ==
  ASSUME NEW S \in SUBSET Nat, S # {}
  PROVE  \E m \in S : \A k \in S : m <= k
<1> DEFINE T == {0..n : n \in S}
<1>1. \A n \in Nat : 0..n \in FiniteSubsetsOf(Nat)
  <2> SUFFICES ASSUME NEW n \in Nat PROVE 0..n \in FiniteSubsetsOf(Nat)
    OBVIOUS
  <2>1. IsFiniteSet(0..n)
    BY FS_Interval
  <2> QED
    BY <2>1 DEF FiniteSubsetsOf
<1>2. T \subseteq FiniteSubsetsOf(Nat) /\ T # {}
  BY <1>1
<1>3. PICK x \in T : \A y \in T : ~ (<<y, x>> \in StrictSubsetOrdering(Nat))
  BY <1>2, FS_StrictSubsetOrderingWellFounded, WFMin
<1>4. PICK m \in S : x = 0..m
  BY <1>3
<1>5. ASSUME NEW k \in S PROVE m <= k
  <2>1. ~ (<<0..k, 0..m>> \in StrictSubsetOrdering(Nat))
    BY <1>3, <1>4, <1>5
  <2>2. ~ (0..k \subseteq 0..m /\ 0..k # 0..m)
    BY <2>1 DEF StrictSubsetOrdering
  <2>3. m \in Nat /\ k \in Nat
    BY <1>5
  <2> QED
    BY <2>2, <2>3
<1> QED
  BY <1>5

\* Induction over the naturals, for the set of those with the property.
LEMMA Induct ==
  ASSUME NEW S \in SUBSET Nat, 0 \in S, \A n \in S : n + 1 \in S
  PROVE  S = Nat
<1> SUFFICES ASSUME Nat \ S # {} PROVE FALSE
  OBVIOUS
<1>1. PICK m \in Nat \ S : \A k \in Nat \ S : m <= k
  BY LeastNat
<1>2. m - 1 \in Nat /\ m - 1 \notin Nat \ S
  BY <1>1
<1> QED
  BY <1>1, <1>2

\* Induction up to a number.
LEMMA InductTo ==
  ASSUME NEW n \in Nat, NEW S, 0 \in S, \A k \in 0..(n - 1) : k \in S => k + 1 \in S
  PROVE  \A k \in 0..n : k \in S
<1> DEFINE T == {k \in Nat : k <= n => k \in S}
<1>1. 0 \in T /\ T \in SUBSET Nat
  OBVIOUS
<1>2. \A k \in T : k + 1 \in T
  OBVIOUS
<1>3. T = Nat
  <2> HIDE DEF T
  <2> QED
    BY <1>1, <1>2, Induct
<1> QED
  BY <1>3

\* Induction from one up to a number.
LEMMA InductFromOne ==
  ASSUME NEW n \in Nat, NEW S, 1 \in S, \A k \in 1..(n - 1) : k \in S => k + 1 \in S
  PROVE  \A k \in 1..n : k \in S
<1> DEFINE T == {k \in Nat : k = 0 \/ k \in S}
<1>1. 0 \in T
  OBVIOUS
<1>2. \A k \in 0..(n - 1) : k \in T => k + 1 \in T
  OBVIOUS
<1>3. \A k \in 0..n : k \in T
  <2> HIDE DEF T
  <2> QED
    BY <1>1, <1>2, InductTo
<1> QED
  BY <1>3

\* Two lists, one after the other, hold what either holds.
LEMMA ToSetOfConcat ==
  ASSUME NEW S, NEW s \in Seq(S), NEW t \in Seq(S)
  PROVE  ToSet(s \o t) = ToSet(s) \cup ToSet(t)
<1>1. DOMAIN s = 1..Len(s) /\ DOMAIN t = 1..Len(t) /\ DOMAIN (s \o t) = 1..(Len(s) + Len(t))
  OBVIOUS
<1>2. \A i \in 1..Len(s) : (s \o t)[i] = s[i]
  OBVIOUS
<1>3. \A i \in 1..Len(t) : (s \o t)[Len(s) + i] = t[i]
  OBVIOUS
<1>4. ToSet(s \o t) \subseteq ToSet(s) \cup ToSet(t)
  <2> SUFFICES ASSUME NEW i \in 1..(Len(s) + Len(t)) PROVE (s \o t)[i] \in ToSet(s) \cup ToSet(t)
    BY <1>1 DEF ToSet
  <2>1. CASE i \in 1..Len(s)
    BY <2>1, <1>1, <1>2 DEF ToSet
  <2>2. CASE i \notin 1..Len(s)
    <3>1. i - Len(s) \in 1..Len(t) /\ i = Len(s) + (i - Len(s))
      BY <2>2
    <3>2. (s \o t)[i] = t[i - Len(s)]
      BY <3>1, <1>3
    <3> QED
      BY <3>1, <3>2, <1>1 DEF ToSet
  <2> QED
    BY <2>1, <2>2
<1>5. \A i \in 1..Len(s) : i \in 1..(Len(s) + Len(t))
  OBVIOUS
<1>6. \A i \in 1..Len(t) : Len(s) + i \in 1..(Len(s) + Len(t))
  OBVIOUS
<1>7. ToSet(s) \subseteq ToSet(s \o t)
  BY <1>1, <1>2, <1>5 DEF ToSet
<1>8. ToSet(t) \subseteq ToSet(s \o t)
  BY <1>1, <1>3, <1>6 DEF ToSet
<1> QED
  BY <1>4, <1>7, <1>8

\* g[i] is the first i lists of ss, one after the other.
FlatOf(ss, n, g) == g = [i \in 1..n |-> IF i = 1 THEN ss[i] ELSE g[i - 1] \o ss[i]]

\* The concatenations of the first lists exist for any number of lists.
LEMMA FlattenExists ==
  ASSUME NEW ss
  PROVE  \A n \in Nat : \E g : FlatOf(ss, n, g)
<1> DEFINE S == {n \in Nat : \E g : FlatOf(ss, n, g)}
<1>1. 0 \in S
  <2>1. FlatOf(ss, 0, [i \in 1..0 |-> ss[i]])
    BY DEF FlatOf
  <2> QED
    BY <2>1
<1>2. ASSUME NEW n \in S PROVE n + 1 \in S
  <2>1. PICK g : FlatOf(ss, n, g)
    BY <1>2
  <2> DEFINE h == [i \in 1..(n+1) |-> IF i = n + 1 THEN (IF i = 1 THEN ss[i] ELSE g[n] \o ss[n+1]) ELSE g[i]]
  <2>2. n \in Nat
    BY <1>2
  <2>3. ASSUME NEW i \in 1..(n+1)
        PROVE  h[i] = IF i = 1 THEN ss[i] ELSE h[i - 1] \o ss[i]
    <3>1. CASE i = n + 1
      BY <2>2, <3>1
    <3>2. CASE i # n + 1
      <4>1. i \in 1..n
        BY <2>2, <3>2
      <4>2. h[i] = g[i]
        BY <2>2, <3>2
      <4>3. g[i] = IF i = 1 THEN ss[i] ELSE g[i - 1] \o ss[i]
        BY <2>1, <4>1 DEF FlatOf
      <4>4. i # 1 => h[i - 1] = g[i - 1]
        BY <2>2, <4>1
      <4> QED
        BY <4>2, <4>3, <4>4
    <3> QED
      BY <3>1, <3>2
  <2>4. FlatOf(ss, n + 1, h)
    <3>1. h = [i \in 1..(n+1) |-> h[i]]
      OBVIOUS
    <3> HIDE DEF h
    <3>2. h = [i \in 1..(n+1) |-> IF i = 1 THEN ss[i] ELSE h[i - 1] \o ss[i]]
      BY <3>1, <2>3
    <3> QED
      BY <3>2 DEF FlatOf
  <2> QED
    BY <2>2, <2>4
<1>3. S = Nat
  <2> HIDE DEF S
  <2>1. S \in SUBSET Nat
    BY DEF S
  <2> QED
    BY <1>1, <1>2, <2>1, Induct
<1> QED
  BY <1>3

\* FlattenSeq gives the last of these concatenations.
LEMMA FlattenIs ==
  ASSUME NEW ss, Len(ss) \in Nat, Len(ss) # 0
  PROVE  \E g : FlatOf(ss, Len(ss), g) /\ FlattenSeq(ss) = g[Len(ss)]
<1> DEFINE f == CHOOSE g : g = [i \in 1..Len(ss) |-> IF i = 1 THEN ss[i] ELSE g[i - 1] \o ss[i]]
<1>1. \E g : g = [i \in 1..Len(ss) |-> IF i = 1 THEN ss[i] ELSE g[i - 1] \o ss[i]]
  BY FlattenExists DEF FlatOf
<1>2. f = [i \in 1..Len(ss) |-> IF i = 1 THEN ss[i] ELSE f[i - 1] \o ss[i]]
  BY <1>1
<1>3. FlattenSeq(ss) = f[Len(ss)]
  BY DEF FlattenSeq
<1> QED
  BY <1>2, <1>3 DEF FlatOf

\* A flattened list of lists holds what its lists hold.
LEMMA FlattenElements ==
  ASSUME NEW S, NEW ss \in Seq(Seq(S))
  PROVE  /\ FlattenSeq(ss) \in Seq(S)
         /\ ToSet(FlattenSeq(ss)) = UNION {ToSet(ss[i]) : i \in 1..Len(ss)}
<1>1. CASE Len(ss) = 0
  <2>1. ss = <<>> /\ FlattenSeq(ss) = ss
    BY <1>1 DEF FlattenSeq
  <2>2. ToSet(<<>>) = {}
    BY DEF ToSet
  <2>3. UNION {ToSet(ss[i]) : i \in 1..Len(ss)} = {}
    <3>1. 1..Len(ss) = {}
      BY <1>1
    <3> QED
      BY <3>1
  <2>4. <<>> \in Seq(S)
    OBVIOUS
  <2> QED
    BY <2>1, <2>2, <2>3, <2>4
<1>2. CASE Len(ss) # 0
  <2> DEFINE n == Len(ss)
  <2>1. n \in Nat \ {0} /\ DOMAIN ss = 1..n
    BY <1>2
  <2>2. PICK g : FlatOf(ss, n, g) /\ FlattenSeq(ss) = g[n]
    BY <2>1, <1>2, FlattenIs
  <2> DEFINE P(k) == /\ g[k] \in Seq(S)
                     /\ ToSet(g[k]) = UNION {ToSet(ss[i]) : i \in 1..k}
             G    == {k \in Nat : P(k)}
  <2>3. P(1)
    <3>1. g[1] = ss[1]
      BY <2>1, <2>2 DEF FlatOf
    <3>2. ss[1] \in Seq(S)
      BY <2>1
    <3> QED
      BY <3>1, <3>2
  <2>4. ASSUME NEW k \in 1..(n - 1), P(k) PROVE P(k + 1)
    <3>1. k + 1 \in 1..n /\ k + 1 # 1 /\ (k + 1) - 1 = k
      BY <2>1
    <3>2. g[k + 1] = g[k] \o ss[k + 1]
      BY <2>2, <3>1 DEF FlatOf
    <3>3. ss[k + 1] \in Seq(S)
      BY <2>1, <3>1
    <3>4. ToSet(g[k] \o ss[k + 1]) = ToSet(g[k]) \cup ToSet(ss[k + 1])
      BY <2>4, <3>3, ToSetOfConcat
    <3>5. 1..(k + 1) = (1..k) \cup {k + 1}
      BY <2>1
    <3>6. g[k + 1] \in Seq(S)
      BY <2>4, <3>2, <3>3
    <3> QED
      BY <2>4, <3>2, <3>4, <3>5, <3>6
  <2> HIDE DEF P, n
  <2>5. n \in G
    <3>1. 1 \in G
      BY <2>3
    <3>2. \A k \in 1..(n - 1) : k \in G => k + 1 \in G
      BY <2>1, <2>4
    <3> HIDE DEF G
    <3>3. \A k \in 1..n : k \in G
      BY <2>1, <3>1, <3>2, InductFromOne
    <3> QED
      BY <2>1, <3>3
  <2>6. P(n)
    BY <2>5
  <2> QED
    BY <2>2, <2>6 DEF P, n
<1> QED
  BY <1>1, <1>2

\* only(list, S) holds the elements of the list that are in S.
LEMMA OnlyElements ==
  ASSUME NEW T, NEW list \in Seq(T), NEW S
  PROVE  /\ only(list, S) \in Seq(T)
         /\ ToSet(only(list, S)) = ToSet(list) \cap S
<1> DEFINE ss == [i \in DOMAIN list |-> IF list[i] \in S THEN <<list[i]>> ELSE <<>>]
<1>1. DOMAIN list = 1..Len(list) /\ Len(list) \in Nat /\ \A i \in 1..Len(list) : list[i] \in T
  OBVIOUS
<1>2. \A i \in 1..Len(list) : ss[i] \in Seq(T)
  BY <1>1
<1>3. ss \in Seq(Seq(T)) /\ Len(ss) = Len(list)
  BY <1>1, <1>2
<1>4. \A i \in 1..Len(list) : ToSet(ss[i]) = {list[i]} \cap S
  <2> SUFFICES ASSUME NEW i \in 1..Len(list) PROVE ToSet(ss[i]) = {list[i]} \cap S
    OBVIOUS
  <2>1. CASE list[i] \in S
    <3>1. ss[i] = <<list[i]>>
      BY <1>1, <2>1
    <3>2. ToSet(<<list[i]>>) = {list[i]}
      BY DEF ToSet
    <3> QED
      BY <3>1, <3>2, <2>1
  <2>2. CASE list[i] \notin S
    <3>1. ss[i] = <<>>
      BY <1>1, <2>2
    <3> QED
      BY <3>1, <2>2 DEF ToSet
  <2> QED
    BY <2>1, <2>2
<1>5. only(list, S) = FlattenSeq(ss)
  BY DEF only
<1> HIDE DEF ss
<1>6. /\ only(list, S) \in Seq(T)
      /\ ToSet(only(list, S)) = UNION {ToSet(ss[i]) : i \in 1..Len(list)}
  BY <1>3, <1>5, FlattenElements
<1>7. UNION {ToSet(ss[i]) : i \in 1..Len(list)} = ToSet(list) \cap S
  BY <1>1, <1>4 DEF ToSet
<1> QED
  BY <1>6, <1>7

-----------------------------------------------------------------------------
(***************************************************************************)
(* Paths.                                                                  *)
(***************************************************************************)
\* A path of token t: at least two squares, from where t stands to a square
\* of the board that none of its colour holds, and that the path sweeps.
Goes(b, t, tau) ==
  /\ Len(tau.path) \in Nat /\ Len(tau.path) >= 2
  /\ origin(tau) = b[t]
  /\ destination(tau) \in Squares \ held(b, t.color)
  /\ destination(tau) \in swept(tau)

\* Each colour has another as its opponent.
LEMMA Colours ==
  ASSUME NEW c \in Color
  PROVE  opponent(c) \in Color /\ opponent(c) # c
  BY DEF Color, opponent

\* A ray of k steps starts at its square, ends k steps on and sweeps its end.
LEMMA LineGoes ==
  ASSUME NEW s \in Squares, NEW d \in Int \X Int, NEW k \in Nat \ {0}
  PROVE  LET tau == Line(s, d, k)
         IN  /\ Len(tau.path) = k + 1
             /\ origin(tau) = s
             /\ destination(tau) = Shift(s, d, k)
             /\ destination(tau) \in swept(tau)
<1> DEFINE tau == Line(s, d, k)
<1>1. tau.path = [i \in 1..(k + 1) |-> Shift(s, d, i - 1)]
  BY DEF Line, Trajectory
<1>2. Len(tau.path) = k + 1
  BY <1>1
<1>3. tau.path[1] = Shift(s, d, 0)
  BY <1>1
<1>4. Shift(s, d, 0) = s
  BY DEF Shift, Squares, Files, Ranks
<1>5. tau.path[k + 1] = Shift(s, d, k)
  BY <1>1
<1>6. k + 1 \in 2..(k + 1)
  OBVIOUS
<1> QED
  BY <1>2, <1>3, <1>4, <1>5, <1>6 DEF origin, destination, swept

\* A jump has two squares, its start and its end, and sweeps its end.
LEMMA LeapGoes ==
  ASSUME NEW s \in Squares, NEW d \in Int \X Int
  PROVE  LET tau == Leap(s, d)
         IN  /\ Len(tau.path) = 2
             /\ origin(tau) = s
             /\ destination(tau) = Shift(s, d, 1)
             /\ destination(tau) \in swept(tau)
<1>1. Leap(s, d).path = <<s, Shift(s, d, 1)>>
  BY DEF Leap, Trajectory
<1> QED
  BY <1>1 DEF origin, destination, swept

\* Every pseudo-legal trajectory of a token is a path of it, whatever its type.
LEMMA PseudoLegalGoes ==
  ASSUME NEW b, SoundBoard(b), NEW t \in live(b),
         NEW tau \in pseudo_legal_trajectories(b, t)
  PROVE  Goes(b, t, tau)
<1> DEFINE s     == b[t]
           own   == held(b, t.color)
           enemy == held(b, opponent(t.color))
<1>1. s \in Squares /\ t.color \in Color
  BY DEF SoundBoard
<1>2. KingDeltas \subseteq Int \X Int /\ KnightDeltas \subseteq Int \X Int
  BY DEF KingDeltas, KnightDeltas
<1>3. ASSUME NEW d \in Int \X Int, NEW k \in Nat \ {0}, tau = Line(s, d, k), Shift(s, d, k) \in Squares \ own
      PROVE  Goes(b, t, tau)
  BY <1>1, <1>3, LineGoes DEF Goes
<1>4. ASSUME NEW d \in Int \X Int, tau = Leap(s, d), Shift(s, d, 1) \in Squares \ own
      PROVE  Goes(b, t, tau)
  <2>1. /\ Len(tau.path) = 2
        /\ origin(tau) = s
        /\ destination(tau) = Shift(s, d, 1)
        /\ destination(tau) \in swept(tau)
    BY <1>1, <1>4, LeapGoes
  <2> QED
    BY <2>1, <1>4 DEF Goes
<1>5. ASSUME tau \in knight_trajectories(s, own) PROVE Goes(b, t, tau)
  BY <1>2, <1>4, <1>5 DEF knight_trajectories
<1>6. ASSUME tau \in king_step_trajectories(s, own) PROVE Goes(b, t, tau)
  BY <1>2, <1>3, <1>6 DEF king_step_trajectories
<1>7. ASSUME tau \in pawn_trajectories(s, t.color, own, enemy) PROVE Goes(b, t, tau)
  <2>1. Forward(t.color) \in Int
    BY DEF Forward
  <2>2. CASE \E k \in 1..2 : /\ tau = Line(s, <<0, Forward(t.color)>>, k)
                             /\ Shift(s, <<0, Forward(t.color)>>, k) \in Squares \ (own \cup enemy)
    BY <1>3, <2>1, <2>2
  <2>3. CASE \E d \in {<<-1, Forward(t.color)>>, <<1, Forward(t.color)>>} :
               tau = Line(s, d, 1) /\ Shift(s, d, 1) \in enemy
    <3>1. enemy \subseteq Squares \ own
      BY <1>1, Colours DEF held, SoundBoard
    <3> QED
      BY <1>3, <2>1, <2>3, <3>1
  <2> QED
    BY <1>7, <2>2, <2>3 DEF pawn_trajectories
<1>8. ASSUME NEW dirs \in SUBSET KingDeltas, tau \in slide(s, dirs, own, enemy) PROVE Goes(b, t, tau)
  <2>1. Reach \subseteq Nat \ {0}
    BY BoardAssumption DEF Reach
  <2> QED
    BY <1>2, <1>3, <1>8, <2>1 DEF slide
<1>9. SliderDirs(t.typ) \in SUBSET KingDeltas
  BY DEF SliderDirs, RookDirs, BishopDirs
<1> QED
  BY <1>5, <1>6, <1>7, <1>8, <1>9 DEF pseudo_legal_trajectories

-----------------------------------------------------------------------------
(***************************************************************************)
(* The order of a flattened list.                                          *)
(***************************************************************************)
\* Places <<list, position in it>> in the order in which lists are flattened.
Before(x, y) == x[1] < y[1] \/ (x[1] = y[1] /\ x[2] < y[2])

\* h says from which list of ss, and from where in it, each element of flat
\* comes, in order.
Places(ss, flat, n, h) ==
  /\ h \in [1..Len(flat) -> (1..n) \X Nat]
  /\ \A x \in 1..Len(flat) : /\ h[x][2] \in 1..Len(ss[h[x][1]])
                             /\ flat[x] = ss[h[x][1]][h[x][2]]
  /\ \A x, y \in 1..Len(flat) : x < y => Before(h[x], h[y])

\* The origins of a flattened list extend to one more list at its end.
LEMMA ConcatPlaces ==
  ASSUME NEW S, NEW n \in Nat, NEW ss, NEW f \in Seq(S), ss[n + 1] \in Seq(S),
         NEW h, Places(ss, f, n, h)
  PROVE  \E e : Places(ss, f \o ss[n + 1], n + 1, e)
<1> DEFINE t == ss[n + 1]
           m == Len(f)
           e == [x \in 1..(m + Len(t)) |-> IF x <= m THEN h[x] ELSE <<n + 1, x - m>>]
<1>1. m \in Nat /\ Len(t) \in Nat /\ Len(f \o t) = m + Len(t)
  OBVIOUS
<1>2. \A x \in 1..m : x \in 1..(m + Len(t)) /\ e[x] = h[x] /\ (f \o t)[x] = f[x]
  BY <1>1
<1>3. \A x \in 1..(m + Len(t)) : x > m =>
        e[x] = <<n + 1, x - m>> /\ (f \o t)[x] = t[x - m] /\ x - m \in 1..Len(t)
  BY <1>1
<1>4. \A x \in 1..m : h[x] \in (1..n) \X Nat
  BY DEF Places
<1>5. ASSUME NEW x \in 1..(m + Len(t))
      PROVE  /\ e[x] \in (1..(n + 1)) \X Nat
             /\ e[x][2] \in 1..Len(ss[e[x][1]])
             /\ (f \o t)[x] = ss[e[x][1]][e[x][2]]
  <2>1. CASE x <= m
    <3>1. x \in 1..m
      BY <2>1, <1>1
    <3>2. h[x] \in (1..(n + 1)) \X Nat
      BY <3>1, <1>4
    <3>3. h[x][2] \in 1..Len(ss[h[x][1]]) /\ f[x] = ss[h[x][1]][h[x][2]]
      BY <3>1 DEF Places
    <3> QED
      BY <3>1, <3>2, <3>3, <1>2
  <2>2. CASE x > m
    <3>1. e[x] = <<n + 1, x - m>> /\ (f \o t)[x] = t[x - m] /\ x - m \in 1..Len(t)
      BY <2>2, <1>3
    <3> HIDE DEF e
    <3>2. e[x][1] = n + 1 /\ e[x][2] = x - m
      BY <3>1
    <3> QED
      BY <3>1, <3>2
  <2>3. x <= m \/ x > m
    BY <1>1
  <2> HIDE DEF m, t, e
  <2> QED
    BY <2>1, <2>2, <2>3
<1>6. ASSUME NEW x \in 1..(m + Len(t)), NEW y \in 1..(m + Len(t)), x < y
      PROVE  Before(e[x], e[y])
  <2>1. CASE y <= m
    <3>1. x \in 1..m /\ y \in 1..m
      BY <2>1, <1>1, <1>6
    <3> QED
      BY <3>1, <1>2, <1>6 DEF Places
  <2>2. CASE x <= m /\ y > m
    <3>1. x \in 1..m
      BY <2>2, <1>1
    <3>2. h[x][1] \in 1..n
      BY <3>1, <1>4
    <3>3. e[x] = h[x] /\ e[y] = <<n + 1, y - m>>
      BY <3>1, <1>2, <1>3, <2>2
    <3> HIDE DEF e
    <3>4. e[y][1] = n + 1 /\ e[x][1] \in 1..n
      BY <3>2, <3>3
    <3>5. e[x][1] < e[y][1]
      BY <3>4
    <3> QED
      BY <3>5 DEF Before
  <2>3. CASE x > m
    <3>1. e[x] = <<n + 1, x - m>> /\ e[y] = <<n + 1, y - m>>
      BY <2>3, <1>1, <1>3, <1>6
    <3> HIDE DEF e
    <3> QED
      BY <3>1, <1>1, <1>6 DEF Before
  <2> QED
    BY <2>1, <2>2, <2>3, <1>1
<1>7. e \in [1..Len(f \o t) -> (1..(n + 1)) \X Nat]
  BY <1>1, <1>5
<1> HIDE DEF e
<1> QED
  BY <1>1, <1>5, <1>6, <1>7 DEF Places

\* Every element of a flattened list has an origin, and the order is kept.
LEMMA FlattenPlaces ==
  ASSUME NEW S, NEW ss \in Seq(Seq(S))
  PROVE  \E h : Places(ss, FlattenSeq(ss), Len(ss), h)
<1>1. CASE Len(ss) = 0
  <2>1. ss = <<>> /\ FlattenSeq(ss) = <<>>
    BY <1>1 DEF FlattenSeq
  <2>2. Places(ss, <<>>, 0, [x \in 1..0 |-> <<1, 1>>])
    BY DEF Places
  <2> QED
    BY <1>1, <2>1, <2>2
<1>2. CASE Len(ss) # 0
  <2> DEFINE n == Len(ss)
  <2>1. n \in Nat \ {0} /\ DOMAIN ss = 1..n
    BY <1>2
  <2>2. PICK g : FlatOf(ss, n, g) /\ FlattenSeq(ss) = g[n]
    BY <2>1, <1>2, FlattenIs
  <2> DEFINE P(k) == g[k] \in Seq(S) /\ \E h : Places(ss, g[k], k, h)
             G    == {k \in Nat : P(k)}
  <2>3. P(1)
    <3>1. g[1] = ss[1]
      BY <2>1, <2>2 DEF FlatOf
    <3>2. ss[1] \in Seq(S)
      BY <2>1
    <3> DEFINE e == [x \in 1..Len(ss[1]) |-> <<1, x>>]
    <3>3. Len(ss[1]) \in Nat
      BY <3>2
    <3>4. \A x \in 1..Len(ss[1]) : e[x] = <<1, x>> /\ e[x][1] = 1 /\ e[x][2] = x
      OBVIOUS
    <3>5. e \in [1..Len(ss[1]) -> (1..1) \X Nat]
      BY <3>3
    <3> HIDE DEF e
    <3>6. Places(ss, ss[1], 1, e)
      BY <3>3, <3>4, <3>5 DEF Places, Before
    <3> QED
      BY <3>1, <3>2, <3>6
  <2>4. ASSUME NEW k \in 1..(n - 1), P(k) PROVE P(k + 1)
    <3>1. k \in Nat /\ k + 1 \in 1..n /\ k + 1 # 1 /\ (k + 1) - 1 = k
      BY <2>1
    <3>2. g[k + 1] = g[k] \o ss[k + 1]
      BY <2>2, <3>1 DEF FlatOf
    <3>3. ss[k + 1] \in Seq(S)
      BY <2>1, <3>1
    <3>4. PICK h : Places(ss, g[k], k, h)
      BY <2>4
    <3>5. g[k] \in Seq(S)
      BY <2>4
    <3>6. \E e : Places(ss, g[k] \o ss[k + 1], k + 1, e)
      BY <3>1, <3>3, <3>4, <3>5, ConcatPlaces
    <3>7. g[k + 1] \in Seq(S)
      BY <3>2, <3>3, <3>5
    <3> QED
      BY <3>2, <3>6, <3>7
  <2> HIDE DEF P, n
  <2>5. n \in G
    <3>1. 1 \in G
      BY <2>3
    <3>2. \A k \in 1..(n - 1) : k \in G => k + 1 \in G
      BY <2>1, <2>4
    <3> HIDE DEF G
    <3>3. \A k \in 1..n : k \in G
      BY <2>1, <3>1, <3>2, InductFromOne
    <3> QED
      BY <2>1, <3>3
  <2>6. P(n)
    BY <2>5
  <2> QED
    BY <2>2, <2>6 DEF P, n
<1> QED
  BY <1>1, <1>2

\* Lists of at most one element, and one of at most two, flatten to at most
\* one more element than there are lists.
LEMMA FlattenLength ==
  ASSUME NEW S, NEW ss \in Seq(Seq(S)), NEW big,
         \A i \in 1..Len(ss) : Len(ss[i]) <= (IF i = big THEN 2 ELSE 1)
  PROVE  Len(FlattenSeq(ss)) <= Len(ss) + 1
<1>1. CASE Len(ss) = 0
  BY <1>1 DEF FlattenSeq
<1>2. CASE Len(ss) # 0
  <2> DEFINE n == Len(ss)
  <2>1. n \in Nat \ {0} /\ DOMAIN ss = 1..n
    BY <1>2
  <2>2. PICK g : FlatOf(ss, n, g) /\ FlattenSeq(ss) = g[n]
    BY <2>1, <1>2, FlattenIs
  <2> DEFINE P(k) == /\ g[k] \in Seq(S)
                     /\ Len(g[k]) <= k + (IF big \in 1..k THEN 1 ELSE 0)
             G    == {k \in Nat : P(k)}
  <2>3. P(1)
    <3>1. g[1] = ss[1]
      BY <2>1, <2>2 DEF FlatOf
    <3>2. ss[1] \in Seq(S) /\ Len(ss[1]) <= (IF 1 = big THEN 2 ELSE 1)
      BY <2>1
    <3> QED
      BY <3>1, <3>2
  <2>4. ASSUME NEW k \in 1..(n - 1), P(k) PROVE P(k + 1)
    <3>1. k + 1 \in 1..n /\ k + 1 # 1 /\ (k + 1) - 1 = k
      BY <2>1
    <3>2. g[k + 1] = g[k] \o ss[k + 1]
      BY <2>2, <3>1 DEF FlatOf
    <3>3. ss[k + 1] \in Seq(S) /\ Len(ss[k + 1]) <= (IF k + 1 = big THEN 2 ELSE 1)
      BY <2>1, <3>1
    <3>4. g[k] \in Seq(S) /\ Len(g[k]) <= k + (IF big \in 1..k THEN 1 ELSE 0)
      BY <2>4
    <3>5. g[k + 1] \in Seq(S) /\ Len(g[k + 1]) = Len(g[k]) + Len(ss[k + 1])
      BY <3>2, <3>3, <3>4
    <3>6. Len(g[k]) \in Nat /\ Len(ss[k + 1]) \in Nat
      BY <3>3, <3>4
    <3>7. big \in 1..k => big \in 1..(k + 1) /\ big # k + 1
      OBVIOUS
    <3>8. big = k + 1 => big \in 1..(k + 1) /\ big \notin 1..k
      OBVIOUS
    <3>9. Len(g[k]) + Len(ss[k + 1]) <= (k + 1) + (IF big \in 1..(k + 1) THEN 1 ELSE 0)
      <4> DEFINE a == Len(g[k])
                 b == Len(ss[k + 1])
                 r == IF big \in 1..(k + 1) THEN 1 ELSE 0
      <4>1. a \in Nat /\ b \in Nat /\ k \in Nat
        BY <3>6
      <4>2. \/ a <= k + 1 /\ b <= 1 /\ r = 1
            \/ a <= k /\ b <= 2 /\ r = 1
            \/ a <= k /\ b <= 1 /\ r = 0
        <5>1. CASE big \in 1..k
          BY <5>1, <3>3, <3>4, <3>7
        <5>2. CASE big = k + 1
          BY <4>1, <5>2, <3>3, <3>4, <3>8
        <5>3. CASE big \notin 1..k /\ big # k + 1
          <6>1. a <= k /\ b <= 1
            BY <4>1, <5>3, <3>3, <3>4
          <6>2. big \notin 1..(k + 1)
            BY <4>1, <5>3
          <6> QED
            BY <6>1, <6>2
        <5> QED
          BY <5>1, <5>2, <5>3
      <4> HIDE DEF a, b, r
      <4>3. a + b <= (k + 1) + r
        BY <4>1, <4>2
      <4> QED
        BY <4>3 DEF a, b, r
    <3> QED
      BY <3>5, <3>9
  <2> HIDE DEF P, n
  <2>5. n \in G
    <3>1. 1 \in G
      BY <2>3
    <3>2. \A k \in 1..(n - 1) : k \in G => k + 1 \in G
      BY <2>1, <2>4
    <3> HIDE DEF G
    <3>3. \A k \in 1..n : k \in G
      BY <2>1, <3>1, <3>2, InductFromOne
    <3> QED
      BY <2>1, <3>3
  <2>6. P(n)
    BY <2>5
  <2>7. Len(g[n]) <= n + (IF big \in 1..n THEN 1 ELSE 0) /\ g[n] \in Seq(S)
    BY <2>6 DEF P
  <2>8. Len(g[n]) \in Nat
    BY <2>7
  <2>9. Len(g[n]) <= n + 1
    BY <2>1, <2>7, <2>8
  <2> QED
    BY <2>2, <2>9 DEF n
<1> QED
  BY <1>1, <1>2

-----------------------------------------------------------------------------
(***************************************************************************)
(* What a program declares.                                                *)
(***************************************************************************)
\* The moves that action a of colour c declares: none, the one of a move
\* action, or the king's and the rook's of a castle from the king's home.
Displaces(s, c, a, ds) ==
  \/ ds = <<>> /\ a.kind # "move"
  \/ /\ a.kind = "move" /\ ds = <<DeclaredMove(a.token, a.trajectory, c)>>
     /\ a.token \in own_tokens(s, c) /\ Goes(s.board, a.token, a.trajectory)
  \/ /\ a.kind = "castle"
     /\ \E m \in castle_of(s, c, a) :
          /\ ds = <<DeclaredMove(m.king, m.king_trajectory, c), DeclaredMove(m.rook, m.rook_trajectory, c)>>
          /\ m.king \in own_tokens(s, c) /\ Goes(s.board, m.king, m.king_trajectory)
          /\ m.rook \in own_tokens(s, c) /\ Goes(s.board, m.rook, m.rook_trajectory)
          /\ m.king.typ = "k" /\ m.rook.typ = "r"
          /\ s.board[m.king] = KingHome(c)

\* A castle that castle_move offers moves the king and the rook of its colour
\* from their homes, on paths of theirs, while the right is still held.
LEMMA CastleGoes ==
  ASSUME NEW s, SoundBoard(s.board), NEW c \in Color, NEW side \in Sides,
         NEW m \in castle_move(s.board, s.rights, c, side)
  PROVE  /\ m.king \in own_tokens(s, c) /\ Goes(s.board, m.king, m.king_trajectory)
         /\ m.rook \in own_tokens(s, c) /\ Goes(s.board, m.rook, m.rook_trajectory)
         /\ m.king.typ = "k" /\ m.rook.typ = "r"
         /\ s.board[m.king] = KingHome(c) /\ s.board[m.rook] = RookHome(c, side)
         /\ <<c, side>> \in s.rights
<1> DEFINE b == s.board
<1>1. PICK x \in occupants(b, KingHome(c)) \X occupants(b, RookHome(c, side)) :
        /\ <<c, side>> \in s.rights
        /\ x[1].typ = "k" /\ x[1].color = c
        /\ x[2].typ = "r" /\ x[2].color = c
        /\ CastleGap(c, side) \cap occupied(b) = {}
        /\ m = [king |-> x[1], rook |-> x[2],
                king_trajectory |-> Trajectory(<<b[x[1]], KingTarget(c, side)>>, FALSE),
                rook_trajectory |-> Trajectory(<<b[x[2]], RookTarget(c, side)>>, FALSE)]
  BY DEF castle_move
<1>2. /\ x[1] \in live(b) /\ b[x[1]] = KingHome(c)
      /\ x[2] \in live(b) /\ b[x[2]] = RookHome(c, side)
  BY <1>1 DEF occupants
<1>3. KingHome(c) \in Squares /\ RookHome(c, side) \in Squares
  BY <1>2 DEF SoundBoard
<1>4. KingTarget(c, side) \in Squares /\ RookTarget(c, side) \in Squares
  BY <1>3, BoardAssumption DEF Squares, Files, Ranks, KingHome, RookHome, KingTarget, RookTarget, HomeRank, Sides
<1>5. KingTarget(c, side) \in CastleGap(c, side) /\ RookTarget(c, side) \in CastleGap(c, side)
  BY DEF KingTarget, RookTarget, CastleGap, Sides
<1>6. held(b, c) \subseteq occupied(b)
  BY DEF held, occupied
<1>7. ASSUME NEW t, NEW square \in Squares \ held(b, c), t.color = c
      PROVE  Goes(b, t, Trajectory(<<b[t], square>>, FALSE))
  <2> DEFINE tau == Trajectory(<<b[t], square>>, FALSE)
  <2>1. tau.path = <<b[t], square>>
    BY DEF Trajectory
  <2> HIDE DEF tau
  <2>2. /\ Len(tau.path) = 2 /\ origin(tau) = b[t] /\ destination(tau) = square
        /\ square \in swept(tau)
    BY <2>1 DEF origin, destination, swept
  <2>3. Goes(b, t, tau)
    BY <2>2, <1>7 DEF Goes
  <2> QED
    BY <2>3 DEF tau
<1>8. /\ m.king = x[1] /\ m.king_trajectory = Trajectory(<<b[x[1]], KingTarget(c, side)>>, FALSE)
      /\ m.rook = x[2] /\ m.rook_trajectory = Trajectory(<<b[x[2]], RookTarget(c, side)>>, FALSE)
  BY <1>1
<1>9. KingTarget(c, side) \in Squares \ held(b, c) /\ RookTarget(c, side) \in Squares \ held(b, c)
  BY <1>1, <1>4, <1>5, <1>6
<1>10. Goes(b, m.king, m.king_trajectory) /\ Goes(b, m.rook, m.rook_trajectory)
  BY <1>1, <1>7, <1>8, <1>9
<1> QED
  BY <1>1, <1>2, <1>8, <1>10 DEF own_tokens

\* The four kinds of actions, and what each kind names.
LEMMA ActionKinds ==
  ASSUME NEW s, NEW c, NEW a \in actions(s, c)
  PROVE  \/ /\ a.kind = "move"
            /\ \E t \in own_tokens(s, c) : /\ a \in move_actions(s, t) /\ a.token = t
                 /\ a.trajectory \in pseudo_legal_trajectories(s.board, t)
                 /\ a.promotion \in Promotable \cup {NoPromotion}
         \/ /\ a.kind = "reserve"
            /\ a.defender \in own_tokens(s, c) /\ a.protege \in own_tokens(s, c)
            /\ a.defender # a.protege
         \/ a.kind = "castle" /\ a.side \in Sides /\ a = Castle(a.side)
         \/ a.kind = "cancel" /\ a.reservation \in ToSet(s.res[c])
<1>1. CASE \E t \in own_tokens(s, c) : a \in move_actions(s, t)
  <2>1. PICK t \in own_tokens(s, c) : a \in move_actions(s, t)
    BY <1>1
  <2>2. PICK tau \in pseudo_legal_trajectories(s.board, t) :
          \E p \in Promotable \cup {NoPromotion} : a = Move(t, tau, p)
    BY <2>1 DEF move_actions
  <2> QED
    BY <2>1, <2>2 DEF Move
<1>2. CASE \E x \in own_tokens(s, c) \X own_tokens(s, c) : x[1] # x[2] /\ a = Reserve(x[1], x[2])
  BY <1>2 DEF Reserve
<1>3. CASE \E side \in Sides : a = Castle(side)
  BY <1>3 DEF Castle
<1>4. CASE \E rho \in ToSet(s.res[c]) : a = Cancel(rho)
  BY <1>4 DEF Cancel
<1>5. \/ a \in UNION {move_actions(s, t) : t \in own_tokens(s, c)}
      \/ a \in {Reserve(x[1], x[2]) : x \in {y \in own_tokens(s, c) \X own_tokens(s, c) : y[1] # y[2]}}
      \/ a \in {Castle(side) : side \in Sides}
      \/ a \in {Cancel(rho) : rho \in ToSet(s.res[c])}
  BY DEF actions
<1> QED
  BY <1>1, <1>2, <1>3, <1>4, <1>5

\* Every action of a colour declares moves as Displaces says.
LEMMA DisplacementIs ==
  ASSUME NEW s, SoundBoard(s.board), NEW c \in Color, NEW a \in actions(s, c)
  PROVE  Displaces(s, c, a, displacements(s, c, a))
<1>1. CASE a.kind = "move"
  <2>1. PICK t \in own_tokens(s, c) : /\ a.token = t
           /\ a.trajectory \in pseudo_legal_trajectories(s.board, t)
    BY <1>1, ActionKinds
  <2>2. t \in live(s.board)
    BY DEF own_tokens
  <2>3. Goes(s.board, t, a.trajectory)
    BY <2>1, <2>2, PseudoLegalGoes
  <2>4. displacements(s, c, a) = <<DeclaredMove(a.token, a.trajectory, c)>>
    BY <1>1 DEF displacements
  <2> QED
    BY <1>1, <2>1, <2>3, <2>4 DEF Displaces
<1>2. CASE a.kind = "castle"
  <2>1. CASE castle_of(s, c, a) = {}
    <3>1. displacements(s, c, a) = <<>>
      BY <1>2, <2>1 DEF displacements
    <3> QED
      BY <1>2, <3>1 DEF Displaces
  <2>2. CASE castle_of(s, c, a) # {}
    <3>1. PICK m : /\ m = CHOOSE x \in castle_of(s, c, a) : TRUE
                   /\ m \in castle_of(s, c, a)
      BY <2>2
    <3>2. displacements(s, c, a) = <<DeclaredMove(m.king, m.king_trajectory, c),
                                     DeclaredMove(m.rook, m.rook_trajectory, c)>>
      BY <1>2, <2>2, <3>1 DEF displacements
    <3>3. a.side \in Sides
      BY <1>2, ActionKinds
    <3>4. m \in castle_move(s.board, s.rights, c, a.side)
      BY <3>1 DEF castle_of
    <3>5. /\ m.king \in own_tokens(s, c) /\ Goes(s.board, m.king, m.king_trajectory)
          /\ m.rook \in own_tokens(s, c) /\ Goes(s.board, m.rook, m.rook_trajectory)
          /\ m.king.typ = "k" /\ m.rook.typ = "r" /\ s.board[m.king] = KingHome(c)
      <4>1. \A x \in castle_move(s.board, s.rights, c, a.side) :
              /\ x.king \in own_tokens(s, c) /\ Goes(s.board, x.king, x.king_trajectory)
              /\ x.rook \in own_tokens(s, c) /\ Goes(s.board, x.rook, x.rook_trajectory)
              /\ x.king.typ = "k" /\ x.rook.typ = "r" /\ s.board[x.king] = KingHome(c)
        <5>1. SoundBoard(s.board) /\ c \in Color
          OBVIOUS
        <5>2. ASSUME NEW side \in Sides, NEW x \in castle_move(s.board, s.rights, c, side)
              PROVE  /\ x.king \in own_tokens(s, c) /\ Goes(s.board, x.king, x.king_trajectory)
                     /\ x.rook \in own_tokens(s, c) /\ Goes(s.board, x.rook, x.rook_trajectory)
                     /\ x.king.typ = "k" /\ x.rook.typ = "r"
          BY <5>1, CastleGoes
        <5>3. ASSUME NEW side \in Sides, NEW x \in castle_move(s.board, s.rights, c, side)
              PROVE  s.board[x.king] = KingHome(c)
          BY <5>1, CastleGoes, Zenon
        <5> QED BY <5>2, <5>3, <3>3
      <4> QED
        BY <3>4, <4>1
    <3> QED
      BY <1>2, <3>1, <3>2, <3>5 DEF Displaces
  <2> QED
    BY <2>1, <2>2
<1>3. CASE a.kind \notin {"move", "castle"}
  BY <1>3 DEF displacements, Displaces
<1> QED
  BY <1>1, <1>2, <1>3

\* Move d is declared by action a: one of its actors on a path of that token.
Stirred(s, c, a, d) ==
  /\ d = DeclaredMove(d.token, d.trajectory, c)
  /\ d.token \in actors_of(s, c, a) \cap own_tokens(s, c)
  /\ Goes(s.board, d.token, d.trajectory)

\* An action declares at most two moves, of its own actors; the two of a castle
\* move two tokens, one from the king's home square.
LEMMA DisplacementFacts ==
  ASSUME NEW s, SoundBoard(s.board), NEW c \in Color, NEW a \in actions(s, c)
  PROVE  LET ds == displacements(s, c, a)
         IN  /\ ds \in Seq(ToSet(ds))
             /\ Len(ds) \in {0, 1, 2}
             /\ \A i \in 1..Len(ds) : Stirred(s, c, a, ds[i])
             /\ Len(ds) = 2 =>
                  /\ a.kind = "castle" /\ ds[1].token # ds[2].token
                  /\ ds[1].token \in occupants(s.board, KingHome(c))
<1> DEFINE ds == displacements(s, c, a)
<1>1. Displaces(s, c, a, ds)
  BY DisplacementIs
<1> HIDE DEF ds
<1> DEFINE Facts == /\ ds \in Seq(ToSet(ds))
                    /\ Len(ds) \in {0, 1, 2}
                    /\ \A i \in 1..Len(ds) : Stirred(s, c, a, ds[i])
                    /\ Len(ds) = 2 =>
                         /\ a.kind = "castle" /\ ds[1].token # ds[2].token
                         /\ ds[1].token \in occupants(s.board, KingHome(c))
<1>2. ASSUME ds = <<>> PROVE Facts
  <2>1. Len(ds) = 0 /\ ds \in Seq(ToSet(ds))
    BY <1>2
  <2> QED
    BY <2>1
<1>3. ASSUME a.kind = "move", ds = <<DeclaredMove(a.token, a.trajectory, c)>>,
             a.token \in own_tokens(s, c), Goes(s.board, a.token, a.trajectory)
      PROVE  Facts
  <2>1. actors_of(s, c, a) = {a.token}
    BY <1>3 DEF actors_of
  <2>2. Stirred(s, c, a, DeclaredMove(a.token, a.trajectory, c))
    BY <1>3, <2>1 DEF Stirred, DeclaredMove
  <2>3. Len(ds) = 1 /\ ds[1] = DeclaredMove(a.token, a.trajectory, c) /\ DOMAIN ds = {1}
    BY <1>3
  <2>4. ds[1] \in ToSet(ds)
    BY <2>3 DEF ToSet
  <2>5. ds \in Seq(ToSet(ds))
    BY <1>3, <2>3, <2>4
  <2>6. \A i \in 1..Len(ds) : i = 1
    BY <2>3
  <2> QED
    BY <2>2, <2>3, <2>5, <2>6
<1>4. ASSUME NEW m \in castle_of(s, c, a), a.kind = "castle",
             ds = <<DeclaredMove(m.king, m.king_trajectory, c), DeclaredMove(m.rook, m.rook_trajectory, c)>>,
             m.king \in own_tokens(s, c), Goes(s.board, m.king, m.king_trajectory),
             m.rook \in own_tokens(s, c), Goes(s.board, m.rook, m.rook_trajectory),
             m.king.typ = "k", m.rook.typ = "r",
             s.board[m.king] = KingHome(c)
      PROVE  Facts
  <2>1. {m.king, m.rook} \subseteq actors_of(s, c, a)
    BY <1>4 DEF actors_of
  <2>2. /\ Stirred(s, c, a, DeclaredMove(m.king, m.king_trajectory, c))
        /\ Stirred(s, c, a, DeclaredMove(m.rook, m.rook_trajectory, c))
    BY <1>4, <2>1 DEF Stirred, DeclaredMove
  <2>3. /\ Len(ds) = 2 /\ ds[1] = DeclaredMove(m.king, m.king_trajectory, c)
        /\ ds[2] = DeclaredMove(m.rook, m.rook_trajectory, c)
        /\ DOMAIN ds = {1, 2}
    BY <1>4
  <2>4. ds[1] \in ToSet(ds) /\ ds[2] \in ToSet(ds)
    BY <2>3 DEF ToSet
  <2>5. ds \in Seq(ToSet(ds))
    BY <1>4, <2>3, <2>4
  <2>6. \A i \in 1..Len(ds) : i = 1 \/ i = 2
    BY <2>3
  <2>7. ds[1].token # ds[2].token /\ ds[1].token \in occupants(s.board, KingHome(c))
    BY <1>4, <2>3 DEF DeclaredMove, occupants, own_tokens
  <2> QED
    BY <1>4, <2>2, <2>3, <2>5, <2>6, <2>7
<1>5. \/ ds = <<>>
      \/ /\ a.kind = "move" /\ ds = <<DeclaredMove(a.token, a.trajectory, c)>>
         /\ a.token \in own_tokens(s, c) /\ Goes(s.board, a.token, a.trajectory)
      \/ /\ a.kind = "castle"
         /\ \E m \in castle_of(s, c, a) :
              /\ ds = <<DeclaredMove(m.king, m.king_trajectory, c), DeclaredMove(m.rook, m.rook_trajectory, c)>>
              /\ m.king \in own_tokens(s, c) /\ Goes(s.board, m.king, m.king_trajectory)
              /\ m.rook \in own_tokens(s, c) /\ Goes(s.board, m.rook, m.rook_trajectory)
              /\ m.king.typ = "k" /\ m.rook.typ = "r"
              /\ s.board[m.king] = KingHome(c)
  BY <1>1 DEF Displaces
<1>6. Facts
  <2> HIDE DEF Facts
  <2> QED
    BY <1>2, <1>3, <1>4, <1>5
<1> QED
  BY <1>6 DEF ds

\* The declared moves of one colour are numbered in order, move tokens of that
\* colour along their paths, and no token twice.
Declares(s, c, own) ==
  /\ \A i \in DOMAIN own :
       /\ own[i] = [token |-> own[i].token, trajectory |-> own[i].trajectory,
                    color |-> c, index |-> i]
       /\ own[i].token \in own_tokens(s, c)
       /\ Goes(s.board, own[i].token, own[i].trajectory)
  /\ \A i, j \in DOMAIN own : own[i].token.id = own[j].token.id => i = j

\* A function on 1..n is a list of its values.
LEMMA ListOf ==
  ASSUME NEW n \in Nat, NEW f, f = [i \in 1..n |-> f[i]]
  PROVE  f \in Seq(ToSet(f)) /\ Len(f) = n /\ DOMAIN f = 1..n
<1>1. DOMAIN f = 1..n
  OBVIOUS
<1>2. \A i \in 1..n : f[i] \in ToSet(f)
  BY <1>1 DEF ToSet
<1>3. f \in [1..n -> ToSet(f)]
  BY <1>2
<1> QED
  BY <1>1, <1>3

\* L1 and L3: a program declares at most N + 1 moves, since only one of its
\* actions can be a castle (all castles move the one king).
LEMMA FewDisplacements ==
  ASSUME NEW s, SoundBoard(s.board), NEW c \in Color, NEW prog \in Seq(actions(s, c)),
         L1_budget(prog), L3_distinct_actors(s, c, prog)
  PROVE  LET ss == [i \in DOMAIN prog |-> displacements(s, c, prog[i])]
         IN  Len(FlattenSeq(ss)) <= N + 1
<1> DEFINE ss == [i \in DOMAIN prog |-> displacements(s, c, prog[i])]
           S  == UNION {ToSet(displacements(s, c, a)) : a \in actions(s, c)}
           double(i) == i \in 1..Len(prog) /\ Len(ss[i]) = 2
           big == CHOOSE i \in 1..Len(prog) : double(i)
<1>1. /\ DOMAIN prog = 1..Len(prog) /\ Len(prog) \in Nat
      /\ \A i \in 1..Len(prog) : prog[i] \in actions(s, c) /\ ss[i] = displacements(s, c, prog[i])
  OBVIOUS
<1>2. Len(prog) <= N /\ N \in Nat
  BY <1>1, RuleSetAssumption DEF L1_budget
<1>3. \A i \in 1..Len(prog) : ss[i] \in Seq(S) /\ Len(ss[i]) \in {0, 1, 2}
  <2> SUFFICES ASSUME NEW i \in 1..Len(prog) PROVE ss[i] \in Seq(S) /\ Len(ss[i]) \in {0, 1, 2}
    OBVIOUS
  <2> DEFINE ds == displacements(s, c, prog[i])
  <2>1. ds \in Seq(ToSet(ds)) /\ Len(ds) \in {0, 1, 2}
    BY <1>1, DisplacementFacts
  <2>2. ToSet(ds) \subseteq S
    BY <1>1
  <2>3. ss[i] = ds
    BY <1>1
  <2> HIDE DEF ds, S, ss
  <2> QED
    BY <2>1, <2>2, <2>3
<1>4. ASSUME NEW i \in 1..Len(prog), NEW j \in 1..Len(prog), double(i), double(j)
      PROVE  i = j
  <2>0. ASSUME NEW k \in 1..Len(prog), double(k)
        PROVE  /\ ss[k][1].token \in occupants(s.board, KingHome(c))
               /\ Stirred(s, c, prog[k], ss[k][1])
    <3> DEFINE ds == displacements(s, c, prog[k])
    <3>1. /\ \A x \in 1..Len(ds) : Stirred(s, c, prog[k], ds[x])
          /\ Len(ds) = 2 => ds[1].token \in occupants(s.board, KingHome(c))
      BY <1>1, DisplacementFacts
    <3>2. ss[k] = ds /\ Len(ds) = 2 /\ 1 \in 1..2
      BY <1>1, <2>0
    <3> HIDE DEF ds, ss
    <3> QED
      BY <3>1, <3>2
  <2>1. /\ ss[i][1].token \in occupants(s.board, KingHome(c))
        /\ Stirred(s, c, prog[i], ss[i][1])
    BY <1>4, <2>0
  <2>2. /\ ss[j][1].token \in occupants(s.board, KingHome(c))
        /\ Stirred(s, c, prog[j], ss[j][1])
    BY <1>4, <2>0
  <2>3. ss[i][1].token = ss[j][1].token
    BY <2>1, <2>2 DEF occupants, SoundBoard
  <2>4. ss[i][1].token \in actors_of(s, c, prog[i]) /\ ss[i][1].token \in actors_of(s, c, prog[j])
    BY <2>1, <2>2, <2>3 DEF Stirred
  <2>5. i # j => {t.id : t \in actors_of(s, c, prog[i])} \cap {t.id : t \in actors_of(s, c, prog[j])} = {}
    BY <1>1 DEF L3_distinct_actors
  <2> HIDE DEF ss
  <2> QED
    BY <2>4, <2>5
<1>5. ss \in Seq(Seq(S)) /\ Len(ss) = Len(prog)
  BY <1>1, <1>3
<1>6. \A i \in 1..Len(ss) : Len(ss[i]) <= (IF i = big THEN 2 ELSE 1)
  <2> SUFFICES ASSUME NEW i \in 1..Len(prog) PROVE Len(ss[i]) <= (IF i = big THEN 2 ELSE 1)
    BY <1>5
  <2>1. CASE double(i)
    <3>1. big \in 1..Len(prog) /\ double(big)
      BY <2>1
    <3> HIDE DEF big, double
    <3>2. big = i
      BY <3>1, <2>1, <1>4
    <3>3. Len(ss[i]) = 2
      BY <2>1 DEF double
    <3>4. \A n : n = 2 => n <= (IF i = big THEN 2 ELSE 1)
      BY <3>2
    <3> HIDE DEF ss
    <3> QED
      BY <3>3, <3>4
  <2>2. CASE ~ double(i)
    <3>1. Len(ss[i]) \in {0, 1}
      BY <2>2, <1>3
    <3>2. \A n \in {0, 1} : n <= (IF i = big THEN 2 ELSE 1)
      OBVIOUS
    <3> HIDE DEF ss, big
    <3> QED
      BY <3>1, <3>2
  <2> QED
    BY <2>1, <2>2
<1> HIDE DEF ss, S, big
<1>7. Len(FlattenSeq(ss)) <= Len(ss) + 1
  BY <1>5, <1>6, FlattenLength
<1>8. FlattenSeq(ss) \in Seq(S)
  BY <1>5, FlattenElements
<1>9. Len(FlattenSeq(ss)) <= N + 1
  BY <1>1, <1>2, <1>5, <1>7, <1>8
<1> QED
  BY <1>9 DEF ss

\* What expand_program makes of a legal program: at most N + 1 moves, as
\* Declares says, each of an actor of one of its actions.
LEMMA ExpandFacts ==
  ASSUME NEW s, SoundBoard(s.board), NEW c \in Color, NEW prog \in Seq(actions(s, c)),
         L1_budget(prog), L3_distinct_actors(s, c, prog)
  PROVE  LET own == expand_program(s, c, prog)
         IN  /\ own \in Seq(ToSet(own)) /\ Len(own) <= N + 1
             /\ Declares(s, c, own)
             /\ \A i \in DOMAIN own : \E k \in DOMAIN prog :
                  own[i].token \in actors_of(s, c, prog[k])
<1> DEFINE ss   == [i \in DOMAIN prog |-> displacements(s, c, prog[i])]
           S    == UNION {ToSet(displacements(s, c, a)) : a \in actions(s, c)}
           flat == FlattenSeq(ss)
           own  == expand_program(s, c, prog)
<1>1. /\ DOMAIN prog = 1..Len(prog) /\ Len(prog) \in Nat
      /\ \A i \in 1..Len(prog) : prog[i] \in actions(s, c) /\ ss[i] = displacements(s, c, prog[i])
  OBVIOUS
<1>2. \A i \in 1..Len(prog) : /\ ss[i] \in Seq(S) /\ Len(ss[i]) \in {0, 1, 2}
                              /\ \A k \in 1..Len(ss[i]) : Stirred(s, c, prog[i], ss[i][k])
                              /\ Len(ss[i]) = 2 => ss[i][1].token # ss[i][2].token
  <2> SUFFICES ASSUME NEW i \in 1..Len(prog)
               PROVE  /\ ss[i] \in Seq(S) /\ Len(ss[i]) \in {0, 1, 2}
                      /\ \A k \in 1..Len(ss[i]) : Stirred(s, c, prog[i], ss[i][k])
                      /\ Len(ss[i]) = 2 => ss[i][1].token # ss[i][2].token
    OBVIOUS
  <2> DEFINE ds == displacements(s, c, prog[i])
  <2>1. /\ ds \in Seq(ToSet(ds)) /\ Len(ds) \in {0, 1, 2}
        /\ \A k \in 1..Len(ds) : Stirred(s, c, prog[i], ds[k])
        /\ Len(ds) = 2 => ds[1].token # ds[2].token
    BY <1>1, DisplacementFacts
  <2>2. ToSet(ds) \subseteq S
    BY <1>1
  <2>3. ss[i] = ds
    BY <1>1
  <2> HIDE DEF ds, S, ss
  <2> QED
    BY <2>1, <2>2, <2>3
<1>3. ss \in Seq(Seq(S)) /\ Len(ss) = Len(prog)
  BY <1>1, <1>2
<1>4. own = [i \in DOMAIN flat |-> [token |-> flat[i].token, trajectory |-> flat[i].trajectory,
                                    color |-> c, index |-> i]]
  BY DEF expand_program
<1>5. Len(flat) <= N + 1
  BY FewDisplacements
<1> HIDE DEF ss, S, own
<1>6. PICK h : Places(ss, flat, Len(ss), h)
  BY <1>3, FlattenPlaces
<1>7. flat \in Seq(S)
  BY <1>3, FlattenElements
<1> HIDE DEF flat
<1>8. /\ DOMAIN flat = 1..Len(flat) /\ Len(flat) \in Nat
  BY <1>7
<1>9. own \in Seq(ToSet(own)) /\ Len(own) = Len(flat) /\ DOMAIN own = 1..Len(flat)
  <2>1. own = [i \in 1..Len(flat) |-> own[i]]
    BY <1>4, <1>8
  <2> QED
    BY <2>1, <1>8, ListOf
<1>10. \A i \in 1..Len(flat) : /\ h[i][1] \in 1..Len(prog) /\ h[i][2] \in 1..Len(ss[h[i][1]])
                               /\ flat[i] = ss[h[i][1]][h[i][2]]
                               /\ Stirred(s, c, prog[h[i][1]], flat[i])
  <2> SUFFICES ASSUME NEW i \in 1..Len(flat)
               PROVE  /\ h[i][1] \in 1..Len(prog) /\ h[i][2] \in 1..Len(ss[h[i][1]])
                      /\ flat[i] = ss[h[i][1]][h[i][2]]
                      /\ Stirred(s, c, prog[h[i][1]], flat[i])
    OBVIOUS
  <2>1. h[i] \in (1..Len(prog)) \X Nat
    BY <1>3, <1>6 DEF Places
  <2>2. h[i][2] \in 1..Len(ss[h[i][1]]) /\ flat[i] = ss[h[i][1]][h[i][2]]
    BY <1>6 DEF Places
  <2> QED
    BY <2>1, <2>2, <1>2
<1>11. \A i \in 1..Len(flat) :
         /\ own[i] = [token |-> flat[i].token, trajectory |-> flat[i].trajectory, color |-> c, index |-> i]
         /\ own[i].token = flat[i].token /\ own[i].trajectory = flat[i].trajectory
  BY <1>4, <1>8
<1>12. ASSUME NEW i \in 1..Len(flat), NEW j \in 1..Len(flat), i < j
       PROVE  flat[i].token.id # flat[j].token.id
  <2>1. Before(h[i], h[j])
    BY <1>6, <1>12 DEF Places
  <2>2. /\ flat[i].token \in actors_of(s, c, prog[h[i][1]]) \cap own_tokens(s, c)
        /\ flat[j].token \in actors_of(s, c, prog[h[j][1]]) \cap own_tokens(s, c)
    BY <1>10 DEF Stirred
  <2>3. CASE h[i][1] # h[j][1]
    <3>1. {t.id : t \in actors_of(s, c, prog[h[i][1]])} \cap {t.id : t \in actors_of(s, c, prog[h[j][1]])} = {}
      BY <1>1, <1>10, <2>3 DEF L3_distinct_actors
    <3> QED
      BY <2>2, <3>1
  <2>4. CASE h[i][1] = h[j][1]
    <3>1. h[i][1] \in 1..Len(prog) /\ h[i][2] \in 1..Len(ss[h[i][1]]) /\ h[j][2] \in 1..Len(ss[h[i][1]])
      BY <1>10, <2>4
    <3>2. h[i][2] < h[j][2]
      BY <2>1, <2>4, <3>1 DEF Before
    <3>3. Len(ss[h[i][1]]) \in {0, 1, 2}
      BY <1>2, <3>1
    <3>4. \A n \in {0, 1, 2} : \A x, y \in 1..n : x < y => x = 1 /\ y = 2 /\ n = 2
      OBVIOUS
    <3>5. h[i][2] = 1 /\ h[j][2] = 2 /\ Len(ss[h[i][1]]) = 2
      BY <3>1, <3>2, <3>3, <3>4
    <3>6. flat[i].token # flat[j].token
      <4> DEFINE d == ss[h[i][1]]
      <4>1. flat[i] = d[1] /\ flat[j] = d[2]
        BY <1>10, <2>4, <3>5
      <4>2. d[1].token # d[2].token
        BY <1>2, <3>1, <3>5
      <4> QED
        BY <4>1, <4>2
    <3> QED
      BY <2>2, <3>6 DEF SoundBoard, own_tokens
  <2> QED
    BY <2>3, <2>4
<1>13. \A i, j \in DOMAIN own : own[i].token.id = own[j].token.id => i = j
  <2> SUFFICES ASSUME NEW i \in 1..Len(flat), NEW j \in 1..Len(flat), own[i].token.id = own[j].token.id
               PROVE  i = j
    BY <1>9
  <2>1. flat[i].token.id = flat[j].token.id
    BY <1>11
  <2>2. ~ (i < j) /\ ~ (j < i)
    BY <2>1, <1>12
  <2> QED
    BY <2>2, <1>8
<1>14. ASSUME NEW i \in DOMAIN own
       PROVE  /\ own[i] = [token |-> own[i].token, trajectory |-> own[i].trajectory, color |-> c, index |-> i]
              /\ own[i].token \in own_tokens(s, c)
              /\ Goes(s.board, own[i].token, own[i].trajectory)
              /\ \E k \in DOMAIN prog : own[i].token \in actors_of(s, c, prog[k])
  <2>1. i \in 1..Len(flat)
    BY <1>9
  <2>2. own[i] = [token |-> own[i].token, trajectory |-> own[i].trajectory, color |-> c, index |-> i]
    BY <2>1, <1>11
  <2>3. Stirred(s, c, prog[h[i][1]], flat[i]) /\ h[i][1] \in DOMAIN prog
    BY <2>1, <1>10, <1>1
  <2> QED
    BY <2>1, <2>2, <2>3, <1>11 DEF Stirred
<1>15. Declares(s, c, own)
  BY <1>13, <1>14 DEF Declares
<1>16. /\ own \in Seq(ToSet(own)) /\ Len(own) <= N + 1
       /\ Declares(s, c, own)
       /\ \A i \in DOMAIN own : \E k \in DOMAIN prog : own[i].token \in actors_of(s, c, prog[k])
  BY <1>5, <1>9, <1>14, <1>15
<1> QED
  BY <1>16 DEF own

-----------------------------------------------------------------------------
(***************************************************************************)
(* Stages F and A.                                                         *)
(***************************************************************************)
\* The step of resolve_annihilation: the events after the pair at this rank was
\* looked at.
meets(executing, events, rank) ==
  LET alive == ToSet(executing) \ annihilated_in(events)
  IN  events \cup
        {x \in {m \in alive : m.color = "W" /\ m.index = rank[1]}
                 \X {m \in alive : m.color = "B" /\ m.index = rank[2]} :
           conflicts(x[1].trajectory, x[2].trajectory)}

\* g[S] is the events after the ranks of seq at the places in S.
MeetIter(executing, seq, D, g) ==
  g = [S \in SUBSET D |-> IF S = {} THEN {}
                          ELSE meets(executing, g[S \ {Max(S)}], seq[Max(S)])]

\* The greatest member of a set of numbers up to n that has n is n.
LEMMA MaxOfTop ==
  ASSUME NEW n \in Nat, NEW S \in SUBSET (1..n), n \in S
  PROVE  Max(S) = n
<1> DEFINE top(x) == x \in S /\ \A y \in S : x >= y
<1>1. top(n)
  OBVIOUS
<1>2. \A x : top(x) => x = n
  OBVIOUS
<1>3. Max(S) = CHOOSE x : top(x)
  BY DEF Max
<1> HIDE DEF top
<1> QED
  BY <1>1, <1>2, <1>3

\* The fold over the ranks exists for any number of ranks.
LEMMA MeetIterExists ==
  ASSUME NEW executing, NEW seq
  PROVE  \A n \in Nat : \E g : MeetIter(executing, seq, 1..n, g)
<1> DEFINE I == {n \in Nat : \E g : MeetIter(executing, seq, 1..n, g)}
<1>1. 0 \in I
  <2>1. MeetIter(executing, seq, 1..0, [S \in SUBSET (1..0) |-> {}])
    <3>1. SUBSET (1..0) = {{}}
      OBVIOUS
    <3> QED
      BY <3>1 DEF MeetIter
  <2> QED
    BY <2>1
<1>2. ASSUME NEW n \in I PROVE n + 1 \in I
  <2>1. PICK g : MeetIter(executing, seq, 1..n, g)
    BY <1>2
  <2>2. n \in Nat /\ n + 1 \in Nat
    BY <1>2
  <2> DEFINE h == [S \in SUBSET (1..(n + 1)) |->
                     IF n + 1 \in S THEN meets(executing, g[S \ {n + 1}], seq[n + 1]) ELSE g[S]]
  <2>3. ASSUME NEW S \in SUBSET (1..(n + 1))
        PROVE  h[S] = IF S = {} THEN {} ELSE meets(executing, h[S \ {Max(S)}], seq[Max(S)])
    <3>1. CASE n + 1 \in S
      <4>1. Max(S) = n + 1
        BY <2>2, <3>1, MaxOfTop
      <4>2. S \ {n + 1} \in SUBSET (1..(n + 1)) /\ n + 1 \notin S \ {n + 1}
        OBVIOUS
      <4>3. h[S \ {n + 1}] = g[S \ {n + 1}]
        BY <4>2
      <4>4. h[S] = meets(executing, g[S \ {n + 1}], seq[n + 1])
        BY <3>1
      <4> HIDE DEF h
      <4> QED
        BY <3>1, <4>1, <4>3, <4>4
    <3>2. CASE n + 1 \notin S
      <4>1. \A k \in S : k \in 1..n
        BY <2>2, <3>2
      <4>2. S \in SUBSET (1..n)
        BY <4>1
      <4>3. g[S] = IF S = {} THEN {} ELSE meets(executing, g[S \ {Max(S)}], seq[Max(S)])
        BY <2>1, <4>2 DEF MeetIter
      <4>4. S \ {Max(S)} \in SUBSET (1..(n + 1)) /\ n + 1 \notin S \ {Max(S)}
        BY <3>2
      <4>5. h[S] = g[S] /\ h[S \ {Max(S)}] = g[S \ {Max(S)}]
        BY <3>2, <4>4
      <4> HIDE DEF h
      <4> QED
        BY <4>3, <4>5
    <3> QED
      BY <3>1, <3>2
  <2>4. h = [S \in SUBSET (1..(n + 1)) |-> h[S]]
    OBVIOUS
  <2> HIDE DEF h
  <2>5. MeetIter(executing, seq, 1..(n + 1), h)
    BY <2>3, <2>4 DEF MeetIter
  <2> QED
    BY <2>2, <2>5
<1> HIDE DEF I
<1>3. I = Nat
  <2>1. I \in SUBSET Nat
    BY DEF I
  <2> QED
    BY <1>1, <1>2, <2>1, Induct
<1> QED
  BY <1>3 DEF I

\* ev[k] is the events after the first k ranks.
MeetRun(executing, seq, n, ev) ==
  ev[0] = {} /\ \A k \in 1..n : ev[k] = meets(executing, ev[k - 1], seq[k])

\* The fold over the ranks taken step by step.
LEMMA MeetSteps ==
  ASSUME NEW executing, NEW seq, NEW n \in Nat, NEW g, MeetIter(executing, seq, 1..n, g)
  PROVE  \E ev : MeetRun(executing, seq, n, ev) /\ ev[n] = g[1..n]
<1> DEFINE ev == [k \in 0..n |-> g[1..k]]
<1>1. g[1..0] = {}
  <2>1. 1..0 = {} /\ {} \in SUBSET (1..n)
    OBVIOUS
  <2> QED
    BY <2>1 DEF MeetIter
<1>2. ASSUME NEW k \in 1..n PROVE g[1..k] = meets(executing, g[1..(k - 1)], seq[k])
  <2>1. 1..k \in SUBSET (1..n) /\ 1..k # {} /\ k \in 1..k /\ k \in Nat
    OBVIOUS
  <2>2. Max(1..k) = k
    BY <2>1, MaxOfTop
  <2>3. (1..k) \ {k} = 1..(k - 1)
    OBVIOUS
  <2> QED
    BY <2>1, <2>2, <2>3 DEF MeetIter
<1>3. \A k \in 1..n : k \in 0..n /\ k - 1 \in 0..n
  OBVIOUS
<1>4. \A k \in 0..n : ev[k] = g[1..k]
  OBVIOUS
<1>5. 0 \in 0..n /\ n \in 0..n
  OBVIOUS
<1> HIDE DEF ev
<1>6. MeetRun(executing, seq, n, ev) /\ ev[n] = g[1..n]
  BY <1>1, <1>2, <1>3, <1>4, <1>5 DEF MeetRun
<1> QED
  BY <1>6

\* resolve_annihilation looks at the ranked pairs one after the other.
LEMMA AnnihilationIs ==
  ASSUME NEW executing, NEW n \in Nat, DOMAIN RankedPairs = 1..n
  PROVE  \E ev : MeetRun(executing, RankedPairs, n, ev) /\ resolve_annihilation(executing) = ev[n]
<1> DEFINE S == DOMAIN RankedPairs
           iter == CHOOSE g : g = [T \in SUBSET S |->
                     IF T = {} THEN {} ELSE meets(executing, g[T \ {Max(T)}], RankedPairs[Max(T)])]
<1>1. \E g : g = [T \in SUBSET S |->
        IF T = {} THEN {} ELSE meets(executing, g[T \ {Max(T)}], RankedPairs[Max(T)])]
  <2>1. \E g : MeetIter(executing, RankedPairs, 1..n, g)
    BY MeetIterExists
  <2>2. \E g : MeetIter(executing, RankedPairs, S, g)
    BY <2>1
  <2> QED
    BY <2>2 DEF MeetIter
<1>2. iter = [T \in SUBSET S |->
        IF T = {} THEN {} ELSE meets(executing, iter[T \ {Max(T)}], RankedPairs[Max(T)])]
  BY <1>1
<1>3. resolve_annihilation(executing) = iter[S]
  BY DEF resolve_annihilation, FoldLeft, MapThenFoldSet, meets
<1> HIDE DEF iter
<1>4. PICK g : MeetIter(executing, RankedPairs, 1..n, g) /\ resolve_annihilation(executing) = g[1..n]
  BY <1>2, <1>3 DEF MeetIter
<1> QED
  BY <1>4, MeetSteps

\* Every pair of declared indices has its rank.
LEMMA RankedPairsElements ==
  RankedPairs \in Seq(Nat \X Nat) /\ (1..(N + 1)) \X (1..(N + 1)) \subseteq ToSet(RankedPairs)
<1> DEFINE S == Nat \X Nat
           cell(lo, hi) == IF lo = hi THEN << <<hi, hi>> >> ELSE << <<lo, hi>>, <<hi, lo>> >>
           row(hi) == [lo \in 1..hi |-> cell(lo, hi)]
           rows == [hi \in 1..(N + 1) |-> FlattenSeq(row(hi))]
<1>1. N + 1 \in Nat
  BY RuleSetAssumption
<1>2. \A hi \in Nat : \A lo \in 1..hi : /\ cell(lo, hi) \in Seq(S)
                                        /\ <<lo, hi>> \in ToSet(cell(lo, hi))
                                        /\ <<hi, lo>> \in ToSet(cell(lo, hi))
  <2> SUFFICES ASSUME NEW hi \in Nat, NEW lo \in 1..hi
               PROVE  /\ cell(lo, hi) \in Seq(S)
                      /\ <<lo, hi>> \in ToSet(cell(lo, hi))
                      /\ <<hi, lo>> \in ToSet(cell(lo, hi))
    OBVIOUS
  <2>1. CASE lo = hi
    <3>1. cell(lo, hi) = << <<hi, hi>> >>
      BY <2>1
    <3>2. DOMAIN << <<hi, hi>> >> = {1} /\ << <<hi, hi>> >> [1] = <<hi, hi>>
      OBVIOUS
    <3>3. << <<hi, hi>> >> \in Seq(S)
      OBVIOUS
    <3> HIDE DEF cell
    <3> QED
      BY <2>1, <3>1, <3>2, <3>3 DEF ToSet
  <2>2. CASE lo # hi
    <3>1. cell(lo, hi) = << <<lo, hi>>, <<hi, lo>> >>
      BY <2>2
    <3>2. /\ DOMAIN << <<lo, hi>>, <<hi, lo>> >> = {1, 2}
          /\ << <<lo, hi>>, <<hi, lo>> >> [1] = <<lo, hi>>
          /\ << <<lo, hi>>, <<hi, lo>> >> [2] = <<hi, lo>>
      OBVIOUS
    <3>3. << <<lo, hi>>, <<hi, lo>> >> \in Seq(S)
      OBVIOUS
    <3> HIDE DEF cell
    <3> QED
      BY <3>1, <3>2, <3>3 DEF ToSet
  <2> QED
    BY <2>1, <2>2
<1> HIDE DEF S, cell
<1>3. \A hi \in Nat : /\ FlattenSeq(row(hi)) \in Seq(S)
                      /\ \A lo \in 1..hi : {<<lo, hi>>, <<hi, lo>>} \subseteq ToSet(FlattenSeq(row(hi)))
  <2> SUFFICES ASSUME NEW hi \in Nat
               PROVE  /\ FlattenSeq(row(hi)) \in Seq(S)
                      /\ \A lo \in 1..hi : {<<lo, hi>>, <<hi, lo>>} \subseteq ToSet(FlattenSeq(row(hi)))
    OBVIOUS
  <2>1. row(hi) \in Seq(Seq(S)) /\ Len(row(hi)) = hi /\ \A lo \in 1..hi : row(hi)[lo] = cell(lo, hi)
    <3>1. \A lo \in 1..hi : cell(lo, hi) \in Seq(S)
      BY <1>2
    <3> QED
      BY <3>1
  <2> HIDE DEF row
  <2>2. /\ FlattenSeq(row(hi)) \in Seq(S)
        /\ ToSet(FlattenSeq(row(hi))) = UNION {ToSet(row(hi)[i]) : i \in 1..hi}
    BY <2>1, FlattenElements
  <2> QED
    BY <2>1, <2>2, <1>2
<1> HIDE DEF row
<1>4. rows \in Seq(Seq(S)) /\ Len(rows) = N + 1
      /\ \A hi \in 1..(N + 1) : rows[hi] = FlattenSeq(row(hi))
  <2>1. \A hi \in 1..(N + 1) : FlattenSeq(row(hi)) \in Seq(S)
    BY <1>1, <1>3
  <2> QED
    BY <1>1, <2>1
<1>5. RankedPairs = FlattenSeq(rows)
  BY DEF RankedPairs, row, cell
<1> HIDE DEF rows
<1>6. RankedPairs \in Seq(S) /\ ToSet(RankedPairs) = UNION {ToSet(rows[i]) : i \in 1..(N + 1)}
  BY <1>4, <1>5, FlattenElements
<1>7. ASSUME NEW a \in 1..(N + 1), NEW b \in 1..(N + 1) PROVE <<a, b>> \in ToSet(RankedPairs)
  <2>1. CASE a <= b
    <3>1. a \in 1..b /\ b \in Nat
      BY <1>1, <2>1
    <3>2. <<a, b>> \in ToSet(FlattenSeq(row(b)))
      BY <3>1, <1>3
    <3> QED
      BY <3>2, <1>4, <1>6
  <2>2. CASE b <= a
    <3>1. b \in 1..a /\ a \in Nat
      BY <1>1, <2>2
    <3>2. <<a, b>> \in ToSet(FlattenSeq(row(a)))
      BY <3>1, <1>3
    <3> QED
      BY <3>2, <1>4, <1>6
  <2> QED
    BY <2>1, <2>2
<1> QED
  BY <1>6, <1>7 DEF S

\* The moves of a phase: each of a token of its colour along its path, no token
\* twice, and no two of one colour in conflict (L5).
Movers(s, M) ==
  /\ \A m \in M :
       /\ m = [token |-> m.token, trajectory |-> m.trajectory, color |-> m.color, index |-> m.index]
       /\ m.color \in Color /\ m.index \in 1..(N + 1)
       /\ m.token \in own_tokens(s, m.color)
       /\ Goes(s.board, m.token, m.trajectory)
  /\ \A m, x \in M : m.token.id = x.token.id => m = x
  /\ \A m, x \in M : m.color = x.color /\ m # x => ~ conflicts(m.trajectory, x.trajectory)

\* To conflict is mutual.
LEMMA ConflictsSymmetric ==
  ASSUME NEW t1, NEW t2, conflicts(t1, t2) PROVE conflicts(t2, t1)
<1>1. CASE vertex_conflict(t1, t2)
  BY <1>1 DEF conflicts, vertex_conflict
<1>2. CASE edge_conflict(t1, t2)
  <2>1. PICK e \in edges(t2) : <<e[2], e[1]>> \in edges(t1)
    BY <1>2 DEF edge_conflict
  <2>2. e = <<e[1], e[2]>>
    BY <2>1 DEF edges
  <2> DEFINE d == <<e[2], e[1]>>
  <2>3. d \in edges(t1) /\ <<d[2], d[1]>> \in edges(t2)
    BY <2>1, <2>2
  <2> HIDE DEF d
  <2> QED
    BY <2>3 DEF conflicts, edge_conflict
<1> QED
  BY <1>1, <1>2 DEF conflicts

\* R5: two different executing moves that outlive stage A do not conflict. Of
\* one colour they are kept apart by L5; of two, the pair was looked at at its
\* rank, and a pair in conflict of which both are alive is an event.
LEMMA NoSurvivorsMeet ==
  ASSUME NEW s, NEW executing, Movers(s, ToSet(executing)),
         NEW m1 \in ToSet(executing) \ annihilated_in(resolve_annihilation(executing)),
         NEW m2 \in ToSet(executing) \ annihilated_in(resolve_annihilation(executing)),
         m1 # m2
  PROVE  ~ conflicts(m1.trajectory, m2.trajectory)
<1>1. PICK n : n \in Nat /\ DOMAIN RankedPairs = 1..n
  <2>1. Len(RankedPairs) \in Nat /\ DOMAIN RankedPairs = 1..Len(RankedPairs)
    BY RankedPairsElements
  <2> QED
    BY <2>1
<1>2. PICK g : MeetRun(executing, RankedPairs, n, g) /\ resolve_annihilation(executing) = g[n]
  BY <1>1, AnnihilationIs
<1>3. \A k \in 1..n : g[k] = meets(executing, g[k - 1], RankedPairs[k])
  BY <1>2 DEF MeetRun
<1>4. \A k \in 0..n : g[k] \subseteq g[n]
  <2> DEFINE I == {k \in 0..n : g[n - k] \subseteq g[n]}
  <2>1. 0 \in I
    BY <1>1
  <2>2. \A k \in 0..(n - 1) : k \in I => k + 1 \in I
    <3> SUFFICES ASSUME NEW k \in 0..(n - 1), k \in I PROVE k + 1 \in I
      OBVIOUS
    <3>1. n - k \in 1..n /\ (n - k) - 1 = n - (k + 1)
      BY <1>1
    <3>2. g[n - (k + 1)] \subseteq g[n - k]
      BY <3>1, <1>3 DEF meets
    <3> QED
      BY <1>1, <3>2
  <2> HIDE DEF I
  <2>3. \A k \in 0..n : k \in I
    BY <1>1, <2>1, <2>2, InductTo
  <2> SUFFICES ASSUME NEW k \in 0..n PROVE g[k] \subseteq g[n]
    OBVIOUS
  <2>4. n - k \in 0..n /\ n - (n - k) = k
    BY <1>1
  <2>5. g[n - (n - k)] \subseteq g[n]
    BY <2>3, <2>4 DEF I
  <2> QED
    BY <2>4, <2>5
<1>5. ASSUME NEW w \in ToSet(executing) \ annihilated_in(g[n]), w.color = "W",
             NEW b \in ToSet(executing) \ annihilated_in(g[n]), b.color = "B"
      PROVE  ~ conflicts(w.trajectory, b.trajectory)
  <2>1. w.index \in 1..(N + 1) /\ b.index \in 1..(N + 1)
    BY DEF Movers
  <2>2. PICK k \in 1..n : RankedPairs[k] = <<w.index, b.index>>
    BY <1>1, <2>1, RankedPairsElements DEF ToSet
  <2>3. k - 1 \in 0..n /\ k \in 0..n
    BY <1>1
  <2>4. annihilated_in(g[k - 1]) \subseteq annihilated_in(g[n])
    BY <1>4, <2>3 DEF annihilated_in
  <2> SUFFICES ASSUME conflicts(w.trajectory, b.trajectory) PROVE FALSE
    OBVIOUS
  <2>5. RankedPairs[k][1] = w.index /\ RankedPairs[k][2] = b.index
    BY <2>2
  <2> DEFINE alive == ToSet(executing) \ annihilated_in(g[k - 1])
             x == <<w, b>>
  <2>6. w \in alive /\ b \in alive /\ x[1] = w /\ x[2] = b
    BY <2>4
  <2>7. x \in {y \in {m \in alive : m.color = "W" /\ m.index = RankedPairs[k][1]}
                      \X {m \in alive : m.color = "B" /\ m.index = RankedPairs[k][2]} :
                conflicts(y[1].trajectory, y[2].trajectory)}
    BY <1>5, <2>5, <2>6
  <2>8. x \in meets(executing, g[k - 1], RankedPairs[k])
    BY <2>7 DEF meets
  <2>9. x \in g[n]
    BY <2>3, <2>8, <1>3, <1>4
  <2> QED
    BY <2>6, <2>9 DEF annihilated_in
<1>6. m1.color \in {"W", "B"} /\ m2.color \in {"W", "B"}
  BY DEF Movers, Color
<1>7. CASE m1.color = m2.color
  BY <1>7 DEF Movers
<1>8. CASE m1.color = "W" /\ m2.color = "B"
  BY <1>2, <1>5, <1>8
<1>9. CASE m1.color = "B" /\ m2.color = "W"
  <2>1. ~ conflicts(m2.trajectory, m1.trajectory)
    BY <1>2, <1>5, <1>9
  <2> QED
    BY <2>1, ConflictsSymmetric
<1> QED
  BY <1>6, <1>7, <1>8, <1>9

\* A list without repetitions.
NoRepeats(list) == \A i, j \in DOMAIN list : list[i] = list[j] => i = j

\* Only executing moves annihilate each other.
LEMMA EventsWithin ==
  ASSUME NEW executing
  PROVE  resolve_annihilation(executing) \subseteq ToSet(executing) \X ToSet(executing)
<1> DEFINE E == ToSet(executing) \X ToSet(executing)
<1>1. PICK n : n \in Nat /\ DOMAIN RankedPairs = 1..n
  <2>1. Len(RankedPairs) \in Nat /\ DOMAIN RankedPairs = 1..Len(RankedPairs)
    BY RankedPairsElements
  <2> QED
    BY <2>1
<1>2. PICK g : MeetRun(executing, RankedPairs, n, g) /\ resolve_annihilation(executing) = g[n]
  BY <1>1, AnnihilationIs
<1>3. g[0] = {} /\ \A k \in 1..n : g[k] = meets(executing, g[k - 1], RankedPairs[k])
  BY <1>2 DEF MeetRun
<1> DEFINE I == {k \in 0..n : g[k] \subseteq E}
<1>4. 0 \in I
  BY <1>1, <1>3
<1>5. \A k \in 0..(n - 1) : k \in I => k + 1 \in I
  <2> SUFFICES ASSUME NEW k \in 0..(n - 1), g[k] \subseteq E PROVE k + 1 \in 0..n /\ g[k + 1] \subseteq E
    OBVIOUS
  <2>1. k + 1 \in 1..n /\ (k + 1) - 1 = k /\ k + 1 \in 0..n
    BY <1>1
  <2>2. g[k + 1] = meets(executing, g[k], RankedPairs[k + 1])
    BY <1>3, <2>1
  <2>3. meets(executing, g[k], RankedPairs[k + 1]) \subseteq g[k] \cup E
    BY DEF meets
  <2> QED
    BY <2>1, <2>2, <2>3
<1> HIDE DEF I
<1>6. \A k \in 0..n : k \in I
  BY <1>1, <1>4, <1>5, InductTo
<1>7. n \in I
  BY <1>1, <1>6
<1> QED
  BY <1>2, <1>7 DEF I

\* part is what list has at the places f, in the same order.
Picked(list, part, f) ==
  /\ \A x \in DOMAIN part : f[x] \in DOMAIN list /\ part[x] = list[f[x]]
  /\ \A x, y \in DOMAIN part : x < y => f[x] < f[y]

\* only(list, S) keeps the order of the list.
LEMMA OnlyPlaces ==
  ASSUME NEW T, NEW list \in Seq(T), NEW S
  PROVE  \E f : Picked(list, only(list, S), f)
<1> DEFINE ss == [i \in DOMAIN list |-> IF list[i] \in S THEN <<list[i]>> ELSE <<>>]
           flat == only(list, S)
<1>1. DOMAIN list = 1..Len(list) /\ Len(list) \in Nat /\ \A i \in 1..Len(list) : list[i] \in T
  OBVIOUS
<1>2. \A i \in 1..Len(list) : ss[i] \in Seq(T)
  BY <1>1
<1>3. ss \in Seq(Seq(T)) /\ Len(ss) = Len(list)
  BY <1>1, <1>2
<1>4. flat = FlattenSeq(ss)
  BY DEF only
<1>5. \A i \in 1..Len(list) : \A k \in 1..Len(ss[i]) : k = 1 /\ ss[i][k] = list[i]
  <2> SUFFICES ASSUME NEW i \in 1..Len(list), NEW k \in 1..Len(ss[i]) PROVE k = 1 /\ ss[i][k] = list[i]
    OBVIOUS
  <2>1. CASE list[i] \in S
    <3>1. ss[i] = <<list[i]>>
      BY <1>1, <2>1
    <3> HIDE DEF ss
    <3> QED
      BY <3>1
  <2>2. CASE list[i] \notin S
    <3>1. ss[i] = <<>>
      BY <1>1, <2>2
    <3> HIDE DEF ss
    <3> QED
      BY <3>1
  <2> QED
    BY <2>1, <2>2
<1> HIDE DEF ss, flat
<1>6. PICK h : Places(ss, flat, Len(ss), h)
  BY <1>3, <1>4, FlattenPlaces
<1>7. flat \in Seq(T)
  BY <1>3, <1>4, FlattenElements
<1>8. DOMAIN flat = 1..Len(flat) /\ Len(flat) \in Nat
  BY <1>7
<1>9. \A x \in 1..Len(flat) : h[x][1] \in 1..Len(list) /\ h[x][2] = 1 /\ flat[x] = list[h[x][1]]
  <2> SUFFICES ASSUME NEW x \in 1..Len(flat)
               PROVE  h[x][1] \in 1..Len(list) /\ h[x][2] = 1 /\ flat[x] = list[h[x][1]]
    OBVIOUS
  <2>1. h[x] \in (1..Len(list)) \X Nat
    BY <1>3, <1>6 DEF Places
  <2>2. h[x][2] \in 1..Len(ss[h[x][1]]) /\ flat[x] = ss[h[x][1]][h[x][2]]
    BY <1>6 DEF Places
  <2> QED
    BY <2>1, <2>2, <1>5
<1>10. \A x, y \in 1..Len(flat) : x < y => h[x][1] < h[y][1]
  <2> SUFFICES ASSUME NEW x \in 1..Len(flat), NEW y \in 1..Len(flat), x < y
               PROVE  h[x][1] < h[y][1]
    OBVIOUS
  <2>1. Before(h[x], h[y])
    BY <1>6 DEF Places
  <2> QED
    BY <2>1, <1>9 DEF Before
<1> DEFINE f == [x \in 1..Len(flat) |-> h[x][1]]
<1>11. \A x \in 1..Len(flat) : f[x] = h[x][1]
  OBVIOUS
<1> HIDE DEF f
<1>12. Picked(list, flat, f)
  BY <1>1, <1>8, <1>9, <1>10, <1>11 DEF Picked
<1> QED
  BY <1>12 DEF flat

\* only adds no repetition.
LEMMA OnlyKeepsApart ==
  ASSUME NEW T, NEW list \in Seq(T), NEW S, NoRepeats(list)
  PROVE  NoRepeats(only(list, S))
<1>1. PICK f : Picked(list, only(list, S), f)
  BY OnlyPlaces
<1>2. only(list, S) \in Seq(T)
  BY OnlyElements
<1> DEFINE part == only(list, S)
<1>3. DOMAIN part = 1..Len(part) /\ Len(part) \in Nat /\ DOMAIN list = 1..Len(list) /\ Len(list) \in Nat
  BY <1>2
<1> HIDE DEF part
<1>4. Picked(list, part, f)
  BY <1>1 DEF part
<1>5. ASSUME NEW x \in DOMAIN part, NEW y \in DOMAIN part, part[x] = part[y] PROVE x = y
  <2>1. f[x] \in DOMAIN list /\ f[y] \in DOMAIN list /\ list[f[x]] = list[f[y]]
    BY <1>4, <1>5 DEF Picked
  <2>2. f[x] = f[y]
    BY <2>1 DEF NoRepeats
  <2>3. ~ (f[x] < f[y]) /\ ~ (f[y] < f[x])
    BY <2>1, <2>2, <1>3
  <2>4. ~ (x < y) /\ ~ (y < x)
    BY <2>3, <1>4 DEF Picked
  <2> QED
    BY <2>4, <1>3
<1>6. NoRepeats(part)
  BY <1>5 DEF NoRepeats
<1> QED
  BY <1>6 DEF part

\* Two lists without repetitions and with nothing in common have none together.
LEMMA ConcatKeepsApart ==
  ASSUME NEW S, NEW u \in Seq(S), NEW v \in Seq(S), NoRepeats(u), NoRepeats(v),
         ToSet(u) \cap ToSet(v) = {}
  PROVE  NoRepeats(u \o v)
<1> DEFINE m == Len(u)
           z == u \o v
<1>1. m \in Nat /\ Len(v) \in Nat /\ DOMAIN u = 1..m /\ DOMAIN v = 1..Len(v) /\ DOMAIN z = 1..(m + Len(v))
  OBVIOUS
<1>2. \A i \in 1..(m + Len(v)) : i <= m => i \in 1..m /\ z[i] = u[i]
  OBVIOUS
<1>3. \A i \in 1..(m + Len(v)) : ~ (i <= m) => i - m \in 1..Len(v) /\ z[i] = v[i - m]
  OBVIOUS
<1> HIDE DEF z, m
<1>4. ASSUME NEW i \in 1..(m + Len(v)), NEW j \in 1..(m + Len(v)), z[i] = z[j] PROVE i = j
  <2>1. CASE i <= m /\ j <= m
    BY <1>1, <1>2, <1>4, <2>1 DEF NoRepeats
  <2>2. CASE i <= m /\ ~ (j <= m)
    BY <1>1, <1>2, <1>3, <1>4, <2>2 DEF ToSet
  <2>3. CASE ~ (i <= m) /\ j <= m
    BY <1>1, <1>2, <1>3, <1>4, <2>3 DEF ToSet
  <2>4. CASE ~ (i <= m) /\ ~ (j <= m)
    <3>1. i - m = j - m
      BY <1>1, <1>3, <1>4, <2>4 DEF NoRepeats
    <3> QED
      BY <3>1, <1>1
  <2> QED
    BY <2>1, <2>2, <2>3, <2>4
<1>5. NoRepeats(z)
  BY <1>1, <1>4 DEF NoRepeats
<1> QED
  BY <1>5 DEF z

\* What one colour declares by a legal program are moves of its colour by
\* tokens that are not cooled (L4).
LEMMA OwnMovers ==
  ASSUME NEW s, SoundBoard(s.board), NEW c \in Color,
         NEW prog \in Seq(actions(s, c)), is_legal_program(s, c, prog)
  PROVE  LET own == expand_program(s, c, prog)
         IN  /\ own \in Seq(ToSet(own)) /\ NoRepeats(own) /\ Movers(s, ToSet(own))
             /\ \A m \in ToSet(own) : m.color = c /\ m.token \notin s.cooldown
<1> DEFINE own == expand_program(s, c, prog)
<1>1. /\ L1_budget(prog) /\ L3_distinct_actors(s, c, prog)
      /\ L4_cooldown_respected(s, c, prog) /\ L5_own_consistency(s, c, prog)
  BY DEF is_legal_program, check_partial_program
<1>2. /\ own \in Seq(ToSet(own)) /\ Len(own) <= N + 1
      /\ Declares(s, c, own)
      /\ \A i \in DOMAIN own : \E k \in DOMAIN prog : own[i].token \in actors_of(s, c, prog[k])
  BY <1>1, ExpandFacts
<1>3. \A i, j \in DOMAIN own : i < j => ~ conflicts(own[i].trajectory, own[j].trajectory)
  BY <1>1 DEF L5_own_consistency
<1> HIDE DEF own
<1>4. DOMAIN own = 1..Len(own) /\ Len(own) \in Nat
  BY <1>2
<1>5. \A i \in DOMAIN own :
         /\ own[i] = [token |-> own[i].token, trajectory |-> own[i].trajectory, color |-> c, index |-> i]
         /\ own[i].token \in own_tokens(s, c)
         /\ Goes(s.board, own[i].token, own[i].trajectory)
  BY <1>2 DEF Declares
<1>6. \A i, j \in DOMAIN own : own[i].token.id = own[j].token.id => i = j
  BY <1>2 DEF Declares
<1>7. NoRepeats(own)
  BY <1>6 DEF NoRepeats
<1>8. ASSUME NEW m \in ToSet(own)
      PROVE  /\ m = [token |-> m.token, trajectory |-> m.trajectory, color |-> m.color, index |-> m.index]
             /\ m.color = c /\ m.index \in 1..(N + 1)
             /\ m.token \in own_tokens(s, m.color)
             /\ Goes(s.board, m.token, m.trajectory)
             /\ m.token \notin s.cooldown
  <2>1. PICK i \in DOMAIN own : m = own[i]
    BY DEF ToSet
  <2>2. m = [token |-> m.token, trajectory |-> m.trajectory, color |-> c, index |-> i]
    BY <2>1, <1>5
  <2>3. m.color = c /\ m.index = i
    BY <2>2
  <2>4. i \in 1..(N + 1)
    BY <1>2, <1>4, RuleSetAssumption
  <2>5. m.token \notin s.cooldown
    BY <1>1, <1>2, <2>1 DEF L4_cooldown_respected
  <2>6. m.token \in own_tokens(s, c) /\ Goes(s.board, m.token, m.trajectory)
    BY <2>1, <1>5
  <2> QED
    BY <2>2, <2>3, <2>4, <2>5, <2>6
<1>9. ASSUME NEW m \in ToSet(own), NEW x \in ToSet(own)
      PROVE  /\ m.token.id = x.token.id => m = x
             /\ m # x => ~ conflicts(m.trajectory, x.trajectory)
  <2>1. PICK i \in DOMAIN own : m = own[i]
    BY DEF ToSet
  <2>2. PICK j \in DOMAIN own : x = own[j]
    BY DEF ToSet
  <2>3. m.token.id = x.token.id => m = x
    BY <2>1, <2>2, <1>6
  <2>4. ASSUME m # x PROVE ~ conflicts(m.trajectory, x.trajectory)
    <3>1. i < j \/ j < i
      BY <1>4, <2>1, <2>2, <2>4
    <3>2. ~ conflicts(m.trajectory, x.trajectory) \/ ~ conflicts(x.trajectory, m.trajectory)
      BY <3>1, <1>3, <2>1, <2>2
    <3> QED
      BY <3>2, ConflictsSymmetric
  <2> QED
    BY <2>3, <2>4
<1>10. Movers(s, ToSet(own))
  BY <1>8, <1>9 DEF Movers
<1>11. \A m \in ToSet(own) : m.color = c /\ m.token \notin s.cooldown
  BY <1>8
<1> QED
  BY <1>2, <1>7, <1>10, <1>11 DEF own

\* What both colours declare together are the moves of a phase.
LEMMA DeclaredFacts ==
  ASSUME NEW s, SoundBoard(s.board),
         NEW white \in Seq(actions(s, "W")), is_legal_program(s, "W", white),
         NEW black \in Seq(actions(s, "B")), is_legal_program(s, "B", black)
  PROVE  LET declared == expand_program(s, "W", white) \o expand_program(s, "B", black)
         IN  /\ declared \in Seq(ToSet(declared)) /\ NoRepeats(declared)
             /\ Movers(s, ToSet(declared))
             /\ \A m \in ToSet(declared) : m.token \notin s.cooldown
<1> DEFINE u == expand_program(s, "W", white)
           v == expand_program(s, "B", black)
           declared == u \o v
<1>1. /\ u \in Seq(ToSet(u)) /\ NoRepeats(u) /\ Movers(s, ToSet(u))
      /\ \A m \in ToSet(u) : m.color = "W" /\ m.token \notin s.cooldown
  BY OwnMovers DEF Color
<1>2. /\ v \in Seq(ToSet(v)) /\ NoRepeats(v) /\ Movers(s, ToSet(v))
      /\ \A m \in ToSet(v) : m.color = "B" /\ m.token \notin s.cooldown
  BY OwnMovers DEF Color
<1> HIDE DEF u, v
<1> DEFINE S == ToSet(u) \cup ToSet(v)
<1>3. u \in Seq(S) /\ v \in Seq(S)
  BY <1>1, <1>2
<1> HIDE DEF S
<1>4. declared \in Seq(S) /\ ToSet(declared) = ToSet(u) \cup ToSet(v)
  BY <1>3, ToSetOfConcat
<1>5. declared \in Seq(ToSet(declared))
  BY <1>4 DEF S
<1>6. NoRepeats(declared)
  <2>1. ToSet(u) \cap ToSet(v) = {}
    BY <1>1, <1>2
  <2> QED
    BY <1>1, <1>2, <1>3, <2>1, ConcatKeepsApart
<1> HIDE DEF declared
<1>7. Movers(s, ToSet(u) \cup ToSet(v))
  <2>1. \A m \in ToSet(u), x \in ToSet(v) : m.color # x.color /\ m.token.id # x.token.id
    <3> SUFFICES ASSUME NEW m \in ToSet(u), NEW x \in ToSet(v)
                 PROVE  m.color # x.color /\ m.token.id # x.token.id
      OBVIOUS
    <3>1. m.color = "W" /\ x.color = "B"
      BY <1>1, <1>2
    <3>2. m.token \in own_tokens(s, "W") /\ x.token \in own_tokens(s, "B")
      BY <1>1, <1>2, <3>1 DEF Movers
    <3> QED
      BY <3>1, <3>2 DEF own_tokens, SoundBoard
  <2> QED
    BY <1>1, <1>2, <2>1 DEF Movers
<1>8. \A m \in ToSet(declared) : m.token \notin s.cooldown
  BY <1>1, <1>2, <1>4
<1> QED
  BY <1>4, <1>5, <1>6, <1>7, <1>8 DEF declared, u, v

\* Stages F and A only take moves away, and what is left is free of conflicts.
LEMMA StagesFA ==
  ASSUME NEW s, NEW M, NEW declared \in Seq(M), NoRepeats(declared), M = ToSet(declared),
         Movers(s, M)
  PROVE  LET mv == stages_F_A(s.board, declared)
         IN  /\ mv.executing \in Seq(M) /\ mv.survivors \in Seq(M)
             /\ ToSet(mv.survivors) = ToSet(mv.executing) \ mv.annihilated
             /\ mv.annihilated \subseteq ToSet(mv.executing)
             /\ NoRepeats(mv.survivors)
             /\ \A m, x \in ToSet(mv.survivors) :
                  m # x => ~ conflicts(m.trajectory, x.trajectory)
<1> DEFINE gone == resolve_fizzles(s.board, declared)
           executing == only(declared, ToSet(declared) \ gone)
           events == resolve_annihilation(executing)
           dead == annihilated_in(events)
           survivors == only(executing, ToSet(executing) \ dead)
           mv == stages_F_A(s.board, declared)
<1>1. mv.executing = executing /\ mv.survivors = survivors /\ mv.annihilated = dead
  BY DEF stages_F_A, execution, collision
<1>2. executing \in Seq(M) /\ ToSet(executing) = M \ gone
  <2> HIDE DEF gone
  <2> QED
    BY OnlyElements
<1>3. NoRepeats(executing)
  <2> HIDE DEF gone
  <2> QED
    BY OnlyKeepsApart
<1> HIDE DEF executing, mv
<1>4. Movers(s, ToSet(executing))
  BY <1>2 DEF Movers
<1>5. events \subseteq ToSet(executing) \X ToSet(executing)
  BY EventsWithin
<1>6. \A m, x \in ToSet(executing) \ dead : m # x => ~ conflicts(m.trajectory, x.trajectory)
  BY <1>4, NoSurvivorsMeet
<1> HIDE DEF events
<1>7. dead \subseteq ToSet(executing)
  BY <1>5 DEF annihilated_in
<1> HIDE DEF dead
<1>8. survivors \in Seq(M) /\ ToSet(survivors) = ToSet(executing) \ dead
  BY <1>2, OnlyElements
<1>9. NoRepeats(survivors)
  BY <1>2, <1>3, OnlyKeepsApart
<1> HIDE DEF survivors
<1>10. /\ mv.executing \in Seq(M) /\ mv.survivors \in Seq(M)
       /\ ToSet(mv.survivors) = ToSet(mv.executing) \ mv.annihilated
       /\ mv.annihilated \subseteq ToSet(mv.executing)
       /\ NoRepeats(mv.survivors)
       /\ \A m, x \in ToSet(mv.survivors) : m # x => ~ conflicts(m.trajectory, x.trajectory)
  BY <1>1, <1>2, <1>6, <1>7, <1>8, <1>9
<1> QED
  BY <1>10 DEF mv

-----------------------------------------------------------------------------
(***************************************************************************)
(* The context of stage B.                                                 *)
(***************************************************************************)
\* The only way to list no element, or one.
LEMMA SetToSeqSmall ==
  /\ SetToSeq({}) = <<>>
  /\ \A a : SetToSeq({a}) = <<a>>
<1>1. SetToSeq({}) = <<>>
  <2>1. Cardinality({}) = 0
    BY FS_EmptySet
  <2>2. <<>> \in [1..0 -> {}] /\ \A f \in [1..0 -> {}] : f = <<>>
    <3>1. 1..0 = {}
      OBVIOUS
    <3>2. <<>> \in [1..0 -> {}]
      BY <3>1
    <3>3. \A f \in [{} -> {}] : f = <<>>
      OBVIOUS
    <3> QED
      BY <3>1, <3>2, <3>3
  <2>3. IsInjective(<<>>)
    BY DEF IsInjective
  <2> QED
    BY <2>1, <2>2, <2>3 DEF SetToSeq
<1>2. ASSUME NEW a PROVE SetToSeq({a}) = <<a>>
  <2>1. Cardinality({a}) = 1
    BY FS_Singleton
  <2>2. \A f \in [1..1 -> {a}] : f = <<a>>
    OBVIOUS
  <2>3. <<a>> \in [1..1 -> {a}] /\ IsInjective(<<a>>)
    BY DEF IsInjective
  <2> QED
    BY <2>1, <2>2, <2>3 DEF SetToSeq
<1> QED
  BY <1>1, <1>2

\* The moves M of a phase, the executing ones and the survivors among these,
\* as stages F and A leave them for stage B.
Stage(s, M, executing, survivors) ==
  /\ SoundBoard(s.board) /\ Movers(s, M)
  /\ executing \in Seq(M) /\ survivors \in Seq(M)
  /\ ToSet(survivors) \subseteq ToSet(executing)
  /\ NoRepeats(survivors)
  /\ \A m, x \in ToSet(survivors) : m # x => ~ conflicts(m.trajectory, x.trajectory)

\* The battery of move m against the token t it finds.
Battery(m, t) == [square |-> destination(m.trajectory), holder |-> m.token, victim |-> t, round |-> m.index]

\* Move m arrives on a stationary enemy t.
Strikes(s, executing, m, t) ==
  /\ t \in occupants(s.board, destination(m.trajectory))
  /\ t.color # m.color /\ t.id \notin token_ids(executing)

\* The elements of a list are in the set it is a list over.
LEMMA SeqElements ==
  ASSUME NEW S, NEW u \in Seq(S)
  PROVE  ToSet(u) \subseteq S /\ DOMAIN u = 1..Len(u) /\ Len(u) \in Nat
  BY DEF ToSet

\* The pending batteries are one for each survivor and stationary enemy on its
\* destination, none twice.
LEMMA PendingFacts ==
  ASSUME NEW s, NEW M, NEW executing, NEW survivors, Stage(s, M, executing, survivors)
  PROVE  LET pending == pending_batteries(s.board, executing, survivors)
         IN  /\ pending \in Seq(ToSet(pending)) /\ NoRepeats(pending)
             /\ \A p : p \in ToSet(pending) <=>
                  \E m \in ToSet(survivors), t \in live(s.board) :
                    Strikes(s, executing, m, t) /\ p = Battery(m, t)
<1> DEFINE attack(m) == {Battery(m, t) : t \in {u \in occupants(s.board, destination(m.trajectory)) :
                                                  u.color # m.color /\ u.id \notin token_ids(executing)}}
           ss == [i \in DOMAIN survivors |-> SetToSeq(attack(survivors[i]))]
           S == UNION {attack(m) : m \in ToSet(survivors)}
           pending == pending_batteries(s.board, executing, survivors)
<1>1. pending = FlattenSeq(ss)
  BY DEF pending_batteries, Battery
<1>2. DOMAIN survivors = 1..Len(survivors) /\ Len(survivors) \in Nat
  BY SeqElements DEF Stage
<1>3. ASSUME NEW m
      PROVE  /\ \A p : p \in attack(m) <=> \E t \in live(s.board) : Strikes(s, executing, m, t) /\ p = Battery(m, t)
             /\ attack(m) = {} \/ \E p : attack(m) = {p}
  <2>1. \A p : p \in attack(m) <=> \E t \in live(s.board) : Strikes(s, executing, m, t) /\ p = Battery(m, t)
    BY DEF Strikes, occupants
  <2>2. \A t, u \in live(s.board) : Strikes(s, executing, m, t) /\ Strikes(s, executing, m, u) => t = u
    BY DEF Strikes, occupants, Stage, SoundBoard
  <2> HIDE DEF attack
  <2>3. ASSUME NEW p \in attack(m) PROVE attack(m) = {p}
    BY <2>1, <2>2
  <2> QED
    BY <2>1, <2>3
<1> HIDE DEF attack
<1>4. ASSUME NEW m \in ToSet(survivors)
      PROVE  /\ SetToSeq(attack(m)) \in Seq(S) /\ ToSet(SetToSeq(attack(m))) = attack(m)
             /\ Len(SetToSeq(attack(m))) <= 1 /\ Len(SetToSeq(attack(m))) \in Nat
  <2>1. attack(m) \subseteq S
    OBVIOUS
  <2> HIDE DEF S
  <2>0. PICK q : q = SetToSeq(attack(m))
    OBVIOUS
  <2> SUFFICES q \in Seq(S) /\ ToSet(q) = attack(m) /\ Len(q) <= 1 /\ Len(q) \in Nat
    BY <2>0
  <2>2. CASE attack(m) = {}
    <3>1. q = <<>>
      BY <2>0, <2>2, SetToSeqSmall
    <3>2. Len(<<>>) = 0 /\ ToSet(<<>>) = {} /\ <<>> \in Seq(S)
      BY DEF ToSet
    <3> QED
      BY <2>2, <3>1, <3>2
  <2>3. ASSUME NEW p, attack(m) = {p}
        PROVE  q \in Seq(S) /\ ToSet(q) = attack(m) /\ Len(q) <= 1 /\ Len(q) \in Nat
    <3>1. q = <<p>>
      BY <2>0, <2>3, SetToSeqSmall
    <3>2. p \in S
      BY <2>1, <2>3
    <3>3. Len(<<p>>) = 1 /\ <<p>> \in Seq(S) /\ DOMAIN <<p>> = {1} /\ <<p>>[1] = p
      BY <3>2
    <3>4. ToSet(<<p>>) = {p}
      BY <3>3 DEF ToSet
    <3> QED
      BY <2>3, <3>1, <3>3, <3>4
  <2> QED
    BY <2>2, <2>3, <1>3
<1>5. \A i \in 1..Len(survivors) : survivors[i] \in ToSet(survivors)
  BY <1>2 DEF ToSet
<1>6. ss \in Seq(Seq(S)) /\ Len(ss) = Len(survivors)
      /\ \A i \in 1..Len(survivors) : ss[i] = SetToSeq(attack(survivors[i]))
  <2> HIDE DEF S
  <2>1. \A i \in 1..Len(survivors) : SetToSeq(attack(survivors[i])) \in Seq(S)
    BY <1>4, <1>5
  <2> QED
    BY <1>2, <2>1
<1> HIDE DEF ss, pending
<1>7. pending \in Seq(S) /\ ToSet(pending) = UNION {ToSet(ss[i]) : i \in 1..Len(survivors)}
  <2> HIDE DEF S
  <2> QED
    BY <1>1, <1>6, FlattenElements
<1>8. ToSet(pending) = S
  <2>1. ToSet(pending) = UNION {attack(survivors[i]) : i \in 1..Len(survivors)}
    BY <1>4, <1>5, <1>6, <1>7
  <2>2. ToSet(survivors) = {survivors[i] : i \in 1..Len(survivors)}
    BY <1>2 DEF ToSet
  <2> QED
    BY <2>1, <2>2
<1>9. \A p : p \in ToSet(pending) <=>
          \E m \in ToSet(survivors), t \in live(s.board) : Strikes(s, executing, m, t) /\ p = Battery(m, t)
  BY <1>3, <1>8
<1> HIDE DEF S
<1>10. NoRepeats(pending)
  <2>1. PICK h : Places(ss, pending, Len(ss), h)
    BY <1>1, <1>6, FlattenPlaces
  <2>2. DOMAIN pending = 1..Len(pending) /\ Len(pending) \in Nat
    BY <1>7
  <2>3. ASSUME NEW x \in 1..Len(pending)
        PROVE  /\ h[x][1] \in 1..Len(survivors) /\ h[x][2] = 1
               /\ pending[x] \in attack(survivors[h[x][1]])
    <3>1. h[x] \in (1..Len(survivors)) \X Nat
      BY <1>6, <2>1 DEF Places
    <3>2. h[x][2] \in 1..Len(ss[h[x][1]]) /\ pending[x] = ss[h[x][1]][h[x][2]]
      BY <2>1 DEF Places
    <3>3. PICK i \in 1..Len(survivors), k \in Nat : h[x][1] = i /\ h[x][2] = k
      BY <3>1
    <3>4. Len(ss[i]) <= 1 /\ Len(ss[i]) \in Nat /\ ss[i] \in Seq(S) /\ ToSet(ss[i]) = attack(survivors[i])
      BY <1>4, <1>5, <1>6
    <3>5. k \in 1..Len(ss[i]) /\ pending[x] = ss[i][k]
      BY <3>2, <3>3
    <3>6. k = 1
      BY <3>4, <3>5
    <3>7. ss[i][k] \in ToSet(ss[i])
      BY <3>4, <3>5 DEF ToSet
    <3> QED
      BY <3>3, <3>4, <3>5, <3>6, <3>7
  <2>4. ASSUME NEW x \in 1..Len(pending), NEW y \in 1..Len(pending), pending[x] = pending[y]
        PROVE  h[x][1] = h[y][1]
    <3>1. pending[x].holder = survivors[h[x][1]].token /\ pending[y].holder = survivors[h[y][1]].token
      BY <1>3, <2>3 DEF Battery
    <3>2. survivors[h[x][1]] \in M /\ survivors[h[y][1]] \in M
      BY <2>3 DEF Stage
    <3>3. survivors[h[x][1]] = survivors[h[y][1]]
      BY <2>4, <3>1, <3>2 DEF Stage, Movers
    <3> QED
      BY <2>3, <3>3, <1>2 DEF Stage, NoRepeats
  <2>5. ASSUME NEW x \in 1..Len(pending), NEW y \in 1..Len(pending), x < y
        PROVE  pending[x] # pending[y]
    <3>1. Before(h[x], h[y])
      BY <2>1, <2>5 DEF Places
    <3>2. h[x][1] # h[y][1]
      <4> SUFFICES ASSUME h[x][1] = h[y][1] PROVE FALSE
        OBVIOUS
      <4>1. h[x][1] \in Nat /\ h[x][2] = 1 /\ h[y][2] = 1
        BY <2>3, <1>2
      <4> QED
        BY <3>1, <4>1 DEF Before
    <3> QED
      BY <2>4, <3>2
  <2>6. \A x, y \in 1..Len(pending) : pending[x] = pending[y] => ~ (x < y) /\ ~ (y < x)
    BY <2>5
  <2>7. \A x, y \in 1..Len(pending) : pending[x] = pending[y] => x = y
    BY <2>2, <2>6
  <2> QED
    BY <2>2, <2>7 DEF NoRepeats
<1>11. pending \in Seq(ToSet(pending))
  BY <1>7, <1>8
<1> QED
  BY <1>9, <1>10, <1>11 DEF pending

\* What a context of stage B that a phase builds has in common: whoever holds a
\* square of the occupancy is alive, and stands there if it did not move; every
\* live token holds a square or is the victim of a battery; a battery is a
\* moved attacker against a stationary enemy on its square, one per square.
Setting(ctx) ==
  /\ SoundBoard(ctx.board)
  /\ ctx.alive \subseteq live(ctx.board)
  /\ ctx.pending \in Seq(ToSet(ctx.pending)) /\ NoRepeats(ctx.pending)
  /\ DOMAIN ctx.occupancy \subseteq Squares
  /\ \A q \in DOMAIN ctx.occupancy :
       /\ ctx.occupancy[q] \in ctx.alive
       /\ ctx.occupancy[q].id \notin ctx.moved => ctx.board[ctx.occupancy[q]] = q
  /\ \A q, r \in DOMAIN ctx.occupancy : ctx.occupancy[q] = ctx.occupancy[r] => q = r
  /\ \A t \in ctx.alive :
       \/ \E q \in DOMAIN ctx.occupancy : ctx.occupancy[q] = t
       \/ \E p \in ToSet(ctx.pending) : p.victim = t
  /\ \A p \in ToSet(ctx.pending) :
       /\ p.square \in DOMAIN ctx.occupancy /\ ctx.occupancy[p.square] = p.holder
       /\ p.holder.id \in ctx.moved
       /\ p.victim \in ctx.alive /\ p.victim.id \notin ctx.moved
       /\ ctx.board[p.victim] = p.square
       /\ p.holder.color # p.victim.color /\ p.round \in 1..(N + 1)
  /\ \A p, x \in ToSet(ctx.pending) : p.square = x.square => p = x

\* No two survivors arrive at one square.
LEMMA OneArrival ==
  ASSUME NEW s, NEW M, NEW executing, NEW survivors, Stage(s, M, executing, survivors),
         NEW m \in ToSet(survivors), NEW x \in ToSet(survivors),
         destination(m.trajectory) = destination(x.trajectory)
  PROVE  m = x
<1>1. m \in M /\ x \in M
  BY SeqElements DEF Stage
<1>2. Goes(s.board, m.token, m.trajectory) /\ Goes(s.board, x.token, x.trajectory)
  BY <1>1 DEF Stage, Movers
<1>3. vertex_conflict(m.trajectory, x.trajectory)
  BY <1>2 DEF Goes, vertex_conflict
<1> QED
  BY <1>3 DEF Stage, conflicts

\* The context that a phase builds is a Setting in which each survivor holds its
\* destination.
LEMMA ContextFacts ==
  ASSUME NEW s, NEW M, NEW executing, NEW survivors, Stage(s, M, executing, survivors), NEW res
  PROVE  /\ Setting(context(s, executing, survivors, res))
         /\ \A m \in ToSet(survivors) :
              /\ destination(m.trajectory) \in DOMAIN context(s, executing, survivors, res).occupancy
              /\ context(s, executing, survivors, res).occupancy[destination(m.trajectory)] = m.token
<1> DEFINE ctx == context(s, executing, survivors, res)
           b == s.board
           moved == token_ids(survivors)
           gone == token_ids(executing) \ token_ids(survivors)
           alive == {t \in live(b) : t.id \notin gone}
           pending == pending_batteries(b, executing, survivors)
           occ == initial_occupancy(b, executing, survivors)
           arrived == {destination(m.trajectory) : m \in ToSet(survivors)}
           stayed == {t \in live(b) : t.id \notin token_ids(executing)}
<1>1. /\ ctx.board = b /\ ctx.alive = alive /\ ctx.moved = moved
      /\ ctx.pending = pending /\ ctx.occupancy = occ
  BY DEF context
<1>2. ToSet(survivors) \subseteq M /\ ToSet(executing) \subseteq M /\ ToSet(survivors) \subseteq ToSet(executing)
  BY SeqElements DEF Stage
<1>3. /\ DOMAIN occ = arrived \cup {b[t] : t \in stayed}
      /\ \A q \in DOMAIN occ : occ[q] = IF q \in arrived
           THEN (CHOOSE m \in ToSet(survivors) : destination(m.trajectory) = q).token
           ELSE CHOOSE t \in stayed : b[t] = q
  BY DEF initial_occupancy
<1>4. /\ pending \in Seq(ToSet(pending)) /\ NoRepeats(pending)
      /\ \A p : p \in ToSet(pending) <=>
           \E m \in ToSet(survivors), t \in live(b) : Strikes(s, executing, m, t) /\ p = Battery(m, t)
  BY PendingFacts
<1>5. SoundBoard(b) /\ Movers(s, M)
  BY DEF Stage
<1> HIDE DEF ctx, occ, pending
<1>6. \A m \in M : /\ m.token \in live(b) /\ m.token.color = m.color
                   /\ Goes(b, m.token, m.trajectory) /\ m.index \in 1..(N + 1)
  BY <1>5 DEF Movers, own_tokens
<1>7. \A m \in ToSet(survivors) : m.token.id \in moved /\ m.token \in alive
  BY <1>2, <1>6 DEF token_ids
<1>8. ASSUME NEW m \in ToSet(survivors)
      PROVE  destination(m.trajectory) \in DOMAIN occ /\ occ[destination(m.trajectory)] = m.token
  <2> DEFINE q == destination(m.trajectory)
  <2>1. q \in arrived /\ q \in DOMAIN occ
    BY <1>3
  <2>2. \A x \in ToSet(survivors) : destination(x.trajectory) = q => x = m
    BY OneArrival
  <2>3. (CHOOSE x \in ToSet(survivors) : destination(x.trajectory) = q) = m
    BY <2>2
  <2> QED
    BY <1>3, <2>1, <2>3
<1>9. ASSUME NEW q \in DOMAIN occ, q \notin arrived
      PROVE  occ[q] \in stayed /\ b[occ[q]] = q
  <2>1. \E t \in stayed : b[t] = q
    BY <1>3, <1>9
  <2>2. occ[q] = CHOOSE t \in stayed : b[t] = q
    BY <1>3, <1>9
  <2> QED
    BY <2>1, <2>2
<1>10. \A t \in stayed : t \in alive /\ t.id \notin moved
  BY <1>2 DEF token_ids
<1>11. DOMAIN occ \subseteq Squares
  <2>1. arrived \subseteq Squares
    BY <1>2, <1>6 DEF Goes
  <2>2. {b[t] : t \in stayed} \subseteq Squares
    BY <1>5 DEF SoundBoard
  <2> QED
    BY <1>3, <2>1, <2>2
<1>12. \A q \in DOMAIN occ : /\ occ[q] \in alive
                             /\ occ[q].id \notin moved => b[occ[q]] = q
  <2> SUFFICES ASSUME NEW q \in DOMAIN occ
               PROVE  occ[q] \in alive /\ (occ[q].id \notin moved => b[occ[q]] = q)
    OBVIOUS
  <2>1. CASE q \in arrived
    <3>1. PICK m \in ToSet(survivors) : destination(m.trajectory) = q
      BY <2>1
    <3>2. occ[q] = m.token
      BY <3>1, <1>8
    <3> QED
      BY <3>2, <1>7
  <2>2. CASE q \notin arrived
    BY <2>2, <1>9, <1>10
  <2> QED
    BY <2>1, <2>2
<1>13. \A q, r \in DOMAIN occ : occ[q] = occ[r] => q = r
  <2> SUFFICES ASSUME NEW q \in DOMAIN occ, NEW r \in DOMAIN occ, occ[q] = occ[r]
               PROVE  q = r
    OBVIOUS
  <2>1. CASE q \in arrived /\ r \in arrived
    <3>1. PICK m \in ToSet(survivors) : destination(m.trajectory) = q
      BY <2>1
    <3>2. PICK x \in ToSet(survivors) : destination(x.trajectory) = r
      BY <2>1
    <3>3. m.token = x.token
      BY <3>1, <3>2, <1>8
    <3>4. m = x
      BY <3>3, <1>2, <1>5 DEF Movers
    <3> QED
      BY <3>1, <3>2, <3>4
  <2>2. ASSUME NEW u \in DOMAIN occ, NEW v \in DOMAIN occ, u \in arrived, v \notin arrived PROVE occ[u] # occ[v]
    <3>1. PICK m \in ToSet(survivors) : destination(m.trajectory) = u
      BY <2>2
    <3>2. occ[u].id \in moved
      BY <3>1, <1>7, <1>8
    <3> QED
      BY <2>2, <3>2, <1>9, <1>10
  <2>3. CASE q \notin arrived /\ r \notin arrived
    BY <2>3, <1>9
  <2> QED
    BY <2>1, <2>2, <2>3
<1>14. ASSUME NEW t \in alive
       PROVE  \/ \E q \in DOMAIN occ : occ[q] = t
              \/ \E p \in ToSet(pending) : p.victim = t
  <2>1. CASE t.id \in token_ids(executing)
    <3>1. t.id \in token_ids(survivors)
      BY <2>1
    <3>2. PICK m \in ToSet(survivors) : m.token.id = t.id
      BY <3>1 DEF token_ids
    <3>3. m.token = t
      BY <3>2, <1>2, <1>5, <1>6 DEF SoundBoard
    <3> QED
      BY <3>3, <1>8
  <2>2. CASE t.id \notin token_ids(executing) /\ b[t] \in arrived
    <3>1. PICK m \in ToSet(survivors) : destination(m.trajectory) = b[t]
      BY <2>2
    <3>2. b[t] \notin held(b, m.token.color)
      BY <3>1, <1>2, <1>6 DEF Goes
    <3>3. t.color # m.color
      BY <3>2, <1>2, <1>6 DEF held
    <3>4. Strikes(s, executing, m, t)
      BY <2>2, <3>1, <3>3 DEF Strikes, occupants
    <3>5. Battery(m, t) \in ToSet(pending) /\ Battery(m, t).victim = t
      BY <3>4, <1>4 DEF Battery
    <3> QED
      BY <3>5
  <2>3. CASE t.id \notin token_ids(executing) /\ b[t] \notin arrived
    <3>1. t \in stayed /\ b[t] \in DOMAIN occ
      BY <2>3, <1>3
    <3>2. occ[b[t]] \in stayed /\ b[occ[b[t]]] = b[t]
      BY <3>1, <2>3, <1>9
    <3>3. occ[b[t]] = t
      BY <3>1, <3>2, <1>5 DEF SoundBoard
    <3> QED
      BY <3>1, <3>3
  <2> QED
    BY <2>1, <2>2, <2>3
<1>15. ASSUME NEW p \in ToSet(pending)
       PROVE  /\ p.square \in DOMAIN occ /\ occ[p.square] = p.holder
              /\ p.holder.id \in moved
              /\ p.victim \in alive /\ p.victim.id \notin moved
              /\ b[p.victim] = p.square
              /\ p.holder.color # p.victim.color /\ p.round \in 1..(N + 1)
              /\ \E m \in ToSet(survivors) : p = Battery(m, p.victim)
  <2>1. PICK m \in ToSet(survivors), t \in live(b) : Strikes(s, executing, m, t) /\ p = Battery(m, t)
    BY <1>4
  <2>2. p.square = destination(m.trajectory) /\ p.holder = m.token /\ p.victim = t /\ p.round = m.index
    BY <2>1 DEF Battery
  <2>3. t \in stayed /\ b[t] = destination(m.trajectory) /\ t.color # m.color
    BY <2>1 DEF Strikes, occupants
  <2> QED
    BY <2>1, <2>2, <2>3, <1>2, <1>6, <1>7, <1>8, <1>10
<1>16. \A p, x \in ToSet(pending) : p.square = x.square => p = x
  <2> SUFFICES ASSUME NEW p \in ToSet(pending), NEW x \in ToSet(pending), p.square = x.square
               PROVE  p = x
    OBVIOUS
  <2>1. PICK m \in ToSet(survivors) : p = Battery(m, p.victim)
    BY <1>15
  <2>2. PICK n \in ToSet(survivors) : x = Battery(n, x.victim)
    BY <1>15
  <2>3. p.square = destination(m.trajectory) /\ x.square = destination(n.trajectory)
    BY <2>1, <2>2 DEF Battery
  <2>4. m = n
    BY <2>3, OneArrival
  <2>5. p.victim = x.victim
    BY <1>5, <1>15 DEF SoundBoard
  <2> QED
    BY <2>1, <2>2, <2>4, <2>5
<1>17. alive \subseteq live(b)
  OBVIOUS
<1> HIDE DEF moved, alive
<1>18. Setting(ctx)
  BY <1>1, <1>4, <1>5, <1>11, <1>12, <1>13, <1>14, <1>15, <1>16, <1>17 DEF Setting
<1> QED
  BY <1>1, <1>8, <1>18 DEF ctx

-----------------------------------------------------------------------------
(***************************************************************************)
(* Stage B, battery by battery.                                            *)
(***************************************************************************)
\* The running state of stage B is a record of five parts.
StageRecord(st) ==
  st = [occupancy |-> st.occupancy, alive |-> st.alive, captured |-> st.captured,
        fired |-> st.fired, resolved |-> st.resolved]

\* The recaptures there can be.
Shots(ctx) == [defender : live(ctx.board), captured : live(ctx.board), square : Squares,
               reservation : ToSet(ctx.res)]

\* A square of the occupancy is held by a live token, by one that fired onto it
\* or by the one that held it from the start; no token holds two.
Placed(ctx, st) ==
  /\ DOMAIN st.occupancy \subseteq Squares
  /\ \A q \in DOMAIN st.occupancy :
       /\ st.occupancy[q] \in st.alive
       /\ st.occupancy[q] \in fired_defenders(st) =>
            \E f \in ToSet(st.fired) : f.defender = st.occupancy[q] /\ f.square = q
       /\ st.occupancy[q] \notin fired_defenders(st) =>
            q \in DOMAIN ctx.occupancy /\ ctx.occupancy[q] = st.occupancy[q]
  /\ \A q, r \in DOMAIN st.occupancy : st.occupancy[q] = st.occupancy[r] => q = r

\* The captured are the tokens no longer alive, none twice, each the victim, which
\* never fired, the attacker or a defender of the battery of a square in D.
Fallen(ctx, st, D) ==
  /\ st.captured \in Seq(live(ctx.board) \X Squares)
  /\ st.alive = ctx.alive \ {x[1] : x \in ToSet(st.captured)}
  /\ \A i, j \in DOMAIN st.captured : st.captured[i][1] = st.captured[j][1] => i = j
  /\ \A x \in ToSet(st.captured) :
       /\ x[1] \in ctx.alive
       /\ \E p \in D : /\ x[2] = p.square
                       /\ \/ x[1] = p.victim /\ x[1] \notin fired_defenders(st)
                          \/ x[1] = p.holder
                          \/ \E f \in ToSet(st.fired) : f.defender = x[1] /\ f.square = x[2]

\* A recapture is made by a live, free and unmoved defender, which did not stand
\* on the square, against an enemy that it captures there, on a square in D; no
\* defender fires twice.
Fired(ctx, st, D) ==
  /\ st.fired \in Seq(Shots(ctx))
  /\ \A f \in ToSet(st.fired) :
       /\ f.defender \in ctx.alive \ ctx.cooldown /\ f.defender.id \notin ctx.moved
       /\ f.captured.color # f.defender.color /\ ctx.board[f.defender] # f.square
       /\ <<f.captured, f.square>> \in ToSet(st.captured)
       /\ \E p \in D : f.square = p.square
  /\ \A i, j \in DOMAIN st.fired : st.fired[i].defender = st.fired[j].defender => i = j

\* The batteries outside D are as at the start, the victims of those in D are no
\* longer at hand and somebody holds their squares, and a live token holds a
\* square or still faces its battery.
Untouched(ctx, st, D) ==
  /\ D \subseteq ToSet(ctx.pending) /\ st.resolved \subseteq D
  /\ \A p \in ToSet(ctx.pending) \ D :
       p.square \in DOMAIN st.occupancy /\ st.occupancy[p.square] = p.holder
  /\ \A p \in D : p.victim \notin at_hand(st) /\ p.square \in DOMAIN st.occupancy
  /\ \A t \in st.alive :
       \/ \E q \in DOMAIN st.occupancy : st.occupancy[q] = t
       \/ t \notin fired_defenders(st) /\ \E p \in ToSet(ctx.pending) \ D : p.victim = t

\* The invariant of stage B when the batteries in D have been resolved.
Running(ctx, st, D) ==
  StageRecord(st) /\ Placed(ctx, st) /\ Fallen(ctx, st, D) /\ Fired(ctx, st, D) /\ Untouched(ctx, st, D)

\* Appending adds one element at the end and to the set of the elements.
LEMMA AppendElements ==
  ASSUME NEW S, NEW u \in Seq(S), NEW e \in S
  PROVE  /\ Append(u, e) \in Seq(S)
         /\ DOMAIN u = 1..Len(u) /\ Len(u) \in Nat /\ DOMAIN Append(u, e) = 1..(Len(u) + 1)
         /\ \A i \in 1..Len(u) : Append(u, e)[i] = u[i]
         /\ Append(u, e)[Len(u) + 1] = e
         /\ ToSet(Append(u, e)) = ToSet(u) \cup {e}
<1>1. /\ Append(u, e) \in Seq(S) /\ DOMAIN u = 1..Len(u) /\ Len(u) \in Nat
      /\ DOMAIN Append(u, e) = 1..(Len(u) + 1)
      /\ \A i \in 1..Len(u) : Append(u, e)[i] = u[i]
      /\ Append(u, e)[Len(u) + 1] = e
  OBVIOUS
<1>2. ToSet(Append(u, e)) = ToSet(u) \cup {e}
  <2>1. \A i \in 1..(Len(u) + 1) : i \in 1..Len(u) \/ i = Len(u) + 1
    BY <1>1
  <2>2. 1..Len(u) \subseteq 1..(Len(u) + 1) /\ Len(u) + 1 \in 1..(Len(u) + 1)
    BY <1>1
  <2> QED
    BY <1>1, <2>1, <2>2 DEF ToSet
<1> QED
  BY <1>1, <1>2

\* To capture a token not captured before captures none twice.
LEMMA CaptureOnce ==
  ASSUME NEW S, NEW u \in Seq(S), NEW e \in S,
         \A i, j \in DOMAIN u : u[i][1] = u[j][1] => i = j,
         e[1] \notin {x[1] : x \in ToSet(u)}
  PROVE  \A i, j \in DOMAIN Append(u, e) : Append(u, e)[i][1] = Append(u, e)[j][1] => i = j
<1> DEFINE v == Append(u, e)
<1>1. /\ DOMAIN u = 1..Len(u) /\ Len(u) \in Nat /\ DOMAIN v = 1..(Len(u) + 1)
      /\ \A i \in 1..Len(u) : v[i] = u[i]
      /\ v[Len(u) + 1] = e
  BY AppendElements
<1> HIDE DEF v
<1>2. \A i \in 1..Len(u) : v[i][1] # e[1]
  <2>1. \A i \in 1..Len(u) : u[i] \in ToSet(u)
    BY <1>1 DEF ToSet
  <2> QED
    BY <1>1, <2>1
<1>3. ASSUME NEW i \in DOMAIN v, NEW j \in DOMAIN v, v[i][1] = v[j][1]
      PROVE  i = j
  <2>1. i \in 1..Len(u) \/ i = Len(u) + 1
    BY <1>1
  <2>2. j \in 1..Len(u) \/ j = Len(u) + 1
    BY <1>1
  <2> QED
    BY <1>1, <1>2, <1>3, <2>1, <2>2
<1> QED
  BY <1>3 DEF v

\* A recapture by a defender at hand keeps the invariant, and the defender takes
\* the square from its captive.
LEMMA RecaptureKeeps ==
  ASSUME NEW ctx, Setting(ctx), NEW st, NEW D, Running(ctx, st, D),
         NEW p \in D, p.square \in DOMAIN st.occupancy,
         NEW rho \in ToSet(ctx.res), rho.defender \in at_hand(st) \ ctx.cooldown,
         rho.defender.id \notin ctx.moved,
         rho.defender.color # st.occupancy[p.square].color
  PROVE  LET nst == recapture(ctx, st, rho, st.occupancy[p.square], p.square)
         IN  /\ Running(ctx, nst, D)
             /\ p.square \in DOMAIN nst.occupancy
             /\ nst.occupancy[p.square] = rho.defender
             /\ st.occupancy[p.square] \notin nst.alive
<1> DEFINE nst == recapture(ctx, st, rho, st.occupancy[p.square], p.square)
           d == rho.defender
           sq == p.square
           holder == st.occupancy[p.square]
           from == ctx.board[rho.defender]
           busy == contested(ctx, st, from)
           left == IF busy THEN {} ELSE {from}
           o == st.occupancy
           shot == [defender |-> d, captured |-> holder, square |-> sq, reservation |-> rho]
           fall == <<holder, sq>>
           P == ToSet(ctx.pending)
<1>1. /\ nst.occupancy = [q \in (DOMAIN o \ left) \cup {sq} |-> IF q = sq THEN d ELSE o[q]]
      /\ nst.alive = st.alive \ {holder}
      /\ nst.captured = Append(st.captured, fall)
      /\ nst.fired = Append(st.fired, shot)
      /\ nst.resolved = st.resolved
      /\ StageRecord(nst)
  <2>1. nst = [st EXCEPT !.occupancy = [q \in (DOMAIN o \ left) \cup {sq} |-> IF q = sq THEN d ELSE o[q]],
                         !.alive = st.alive \ {holder},
                         !.captured = Append(st.captured, fall),
                         !.fired = Append(st.fired, shot)]
    BY DEF recapture
  <2>2. st = [occupancy |-> st.occupancy, alive |-> st.alive, captured |-> st.captured,
              fired |-> st.fired, resolved |-> st.resolved]
    BY DEF Running, StageRecord
  <2> HIDE DEF nst, shot, fall, d, sq, holder, left, o
  <2>3. nst = [occupancy |-> [q \in (DOMAIN o \ left) \cup {sq} |-> IF q = sq THEN d ELSE o[q]],
               alive |-> st.alive \ {holder},
               captured |-> Append(st.captured, fall),
               fired |-> Append(st.fired, shot),
               resolved |-> st.resolved]
    BY <2>1, <2>2
  <2> QED
    BY <2>3 DEF StageRecord
<1> HIDE DEF nst
<1>2. /\ Placed(ctx, st) /\ Fallen(ctx, st, D) /\ Fired(ctx, st, D) /\ Untouched(ctx, st, D)
  BY DEF Running
<1>3. /\ D \subseteq P /\ p \in P
      /\ sq \in DOMAIN ctx.occupancy /\ ctx.occupancy[sq] = p.holder /\ p.holder.id \in ctx.moved
      /\ p.victim.id \notin ctx.moved /\ ctx.board[p.victim] = sq
      /\ p.victim \in live(ctx.board)
  BY <1>2 DEF Untouched, Setting
<1>4. /\ d \in st.alive /\ d \notin fired_defenders(st) /\ d \in ctx.alive /\ d \in live(ctx.board)
      /\ holder \in st.alive /\ holder \in live(ctx.board) /\ sq \in Squares
  BY <1>2 DEF at_hand, Placed, Fallen, Setting
<1>5. holder # d
  <2>1. holder \notin fired_defenders(st) => holder = p.holder
    BY <1>2, <1>3 DEF Placed
  <2> QED
    BY <2>1, <1>3, <1>4
<1>6. from # sq
  BY <1>2, <1>3, <1>4 DEF Setting, SoundBoard, Untouched
<1>7. \A q \in DOMAIN o : o[q] = d => q = from
  BY <1>2, <1>4 DEF Placed, Setting
<1>8. \A x \in P : x.square = from => x.victim = d /\ x \notin D
  BY <1>2, <1>4 DEF Setting, SoundBoard, Untouched
<1>9. busy => \A q \in DOMAIN o : o[q] # d
  <2> SUFFICES ASSUME busy, NEW q \in DOMAIN o, o[q] = d PROVE FALSE
    OBVIOUS
  <2>1. PICK x \in P : x.square = from
    BY DEF contested
  <2>2. o[from] = x.holder /\ x.holder.id \in ctx.moved
    BY <1>2, <1>8, <2>1 DEF Untouched, Setting
  <2> QED
    BY <1>7, <2>2
<1>10. ~ busy => \A x \in P : x.square # from
  BY <1>2, <1>8 DEF contested, Untouched
<1>11. \A q \in DOMAIN o : q # sq => o[q] # holder
  BY <1>2 DEF Placed
<1>12. /\ DOMAIN nst.occupancy = (DOMAIN o \ left) \cup {sq}
       /\ nst.occupancy[sq] = d
       /\ \A q \in DOMAIN nst.occupancy : q # sq =>
            /\ q \in DOMAIN o /\ nst.occupancy[q] = o[q]
            /\ o[q] \in nst.alive /\ o[q] # d
  <2>1. DOMAIN nst.occupancy = (DOMAIN o \ left) \cup {sq} /\ nst.occupancy[sq] = d
    BY <1>1
  <2>2. ASSUME NEW q \in DOMAIN nst.occupancy, q # sq
        PROVE  q \in DOMAIN o /\ nst.occupancy[q] = o[q] /\ o[q] \in nst.alive /\ o[q] # d
    <3>1. q \in DOMAIN o /\ nst.occupancy[q] = o[q] /\ q \notin left
      BY <1>1, <2>2
    <3>2. o[q] \in nst.alive
      BY <1>1, <1>2, <1>11, <2>2, <3>1 DEF Placed
    <3>3. o[q] # d
      BY <1>7, <1>9, <3>1
    <3> QED
      BY <3>1, <3>2, <3>3
  <2> QED
    BY <2>1, <2>2
<1>13. fall \in live(ctx.board) \X Squares /\ shot \in Shots(ctx)
  BY <1>4 DEF Shots
<1>14. /\ nst.captured \in Seq(live(ctx.board) \X Squares)
       /\ ToSet(nst.captured) = ToSet(st.captured) \cup {fall}
  <2> HIDE DEF fall
  <2>1. st.captured \in Seq(live(ctx.board) \X Squares)
    BY <1>2 DEF Fallen
  <2> QED
    BY <1>1, <1>13, <2>1, AppendElements
<1>15. /\ nst.fired \in Seq(Shots(ctx))
       /\ ToSet(nst.fired) = ToSet(st.fired) \cup {shot}
       /\ DOMAIN st.fired = 1..Len(st.fired) /\ Len(st.fired) \in Nat
       /\ DOMAIN nst.fired = 1..(Len(st.fired) + 1)
       /\ \A i \in 1..Len(st.fired) : nst.fired[i] = st.fired[i]
       /\ nst.fired[Len(st.fired) + 1] = shot
  <2> HIDE DEF shot
  <2> QED
    BY <1>1, <1>2, <1>13, AppendElements DEF Fired
<1>16. fired_defenders(nst) = fired_defenders(st) \cup {d}
  BY <1>15 DEF fired_defenders
<1>17. Placed(ctx, nst)
  <2>1. DOMAIN nst.occupancy \subseteq Squares
    BY <1>2, <1>4, <1>12 DEF Placed
  <2>2. ASSUME NEW q \in DOMAIN nst.occupancy, q # sq
        PROVE  /\ nst.occupancy[q] \in nst.alive
               /\ nst.occupancy[q] \in fired_defenders(nst) =>
                    \E f \in ToSet(nst.fired) : f.defender = nst.occupancy[q] /\ f.square = q
               /\ nst.occupancy[q] \notin fired_defenders(nst) =>
                    q \in DOMAIN ctx.occupancy /\ ctx.occupancy[q] = nst.occupancy[q]
    BY <1>2, <1>12, <1>15, <1>16, <2>2 DEF Placed
  <2>3. /\ nst.occupancy[sq] \in nst.alive
        /\ \E f \in ToSet(nst.fired) : f.defender = nst.occupancy[sq] /\ f.square = sq
        /\ nst.occupancy[sq] \in fired_defenders(nst)
    <3>1. nst.occupancy[sq] = d /\ d \in nst.alive
      BY <1>1, <1>4, <1>5, <1>12
    <3>2. shot \in ToSet(nst.fired) /\ shot.defender = d /\ shot.square = sq
      BY <1>15
    <3>3. d \in fired_defenders(nst)
      BY <1>16
    <3> HIDE DEF shot, d, sq
    <3> QED
      BY <3>1, <3>2, <3>3
  <2>4. \A q, r \in DOMAIN nst.occupancy : nst.occupancy[q] = nst.occupancy[r] => q = r
    BY <1>2, <1>12 DEF Placed
  <2> QED
    BY <2>1, <2>2, <2>3, <2>4 DEF Placed
<1>18. Fallen(ctx, nst, D)
  <2>1. nst.alive = ctx.alive \ {x[1] : x \in ToSet(nst.captured)}
    <3>1. fall[1] = holder
      OBVIOUS
    <3>2. st.alive = ctx.alive \ {x[1] : x \in ToSet(st.captured)}
      BY <1>2 DEF Fallen
    <3> HIDE DEF fall, holder
    <3>3. {x[1] : x \in ToSet(nst.captured)} = {x[1] : x \in ToSet(st.captured)} \cup {holder}
      BY <1>14, <3>1
    <3> QED
      BY <1>1, <3>2, <3>3
  <2>2. ASSUME NEW x \in ToSet(st.captured)
        PROVE  /\ x[1] \in ctx.alive
               /\ \E e \in D : /\ x[2] = e.square
                               /\ \/ x[1] = e.victim /\ x[1] \notin fired_defenders(nst)
                                  \/ x[1] = e.holder
                                  \/ \E f \in ToSet(nst.fired) : f.defender = x[1] /\ f.square = x[2]
    <3>1. x[1] # d
      BY <1>2, <1>4 DEF Fallen
    <3> QED
      BY <1>2, <1>15, <1>16, <3>1 DEF Fallen
  <2>3. /\ holder \in ctx.alive
        /\ holder = p.holder \/ \E f \in ToSet(nst.fired) : f.defender = holder /\ f.square = sq
    BY <1>2, <1>3, <1>4, <1>15 DEF Fallen, Placed
  <2>4. \A i, j \in DOMAIN nst.captured : nst.captured[i][1] = nst.captured[j][1] => i = j
    <3>1. fall[1] = holder
      OBVIOUS
    <3>2. /\ fall[1] \notin {x[1] : x \in ToSet(st.captured)}
          /\ st.captured \in Seq(live(ctx.board) \X Squares)
          /\ \A i, j \in DOMAIN st.captured : st.captured[i][1] = st.captured[j][1] => i = j
      BY <1>2, <1>4, <3>1 DEF Fallen
    <3>3. fall \in live(ctx.board) \X Squares
      BY <1>13
    <3> DEFINE S == live(ctx.board) \X Squares
               u == st.captured
    <3>4. /\ u \in Seq(S) /\ fall \in S /\ fall[1] \notin {x[1] : x \in ToSet(u)}
          /\ \A i, j \in DOMAIN u : u[i][1] = u[j][1] => i = j
      BY <3>2, <3>3
    <3>5. nst.captured = Append(u, fall)
      BY <1>1
    <3> HIDE DEF fall, S, u
    <3>6. \A i, j \in DOMAIN Append(u, fall) : Append(u, fall)[i][1] = Append(u, fall)[j][1] => i = j
      BY <3>4, CaptureOnce
    <3> QED
      BY <3>5, <3>6
  <2> QED
    BY <1>14, <2>1, <2>2, <2>3, <2>4 DEF Fallen
<1>19. Fired(ctx, nst, D)
  <2>1. ASSUME NEW f \in ToSet(nst.fired)
        PROVE  /\ f.defender \in ctx.alive \ ctx.cooldown /\ f.defender.id \notin ctx.moved
               /\ f.captured.color # f.defender.color /\ ctx.board[f.defender] # f.square
               /\ <<f.captured, f.square>> \in ToSet(nst.captured)
               /\ \E x \in D : f.square = x.square
    <3>1. CASE f \in ToSet(st.fired)
      BY <1>2, <1>14, <3>1 DEF Fired
    <3>2. CASE f = shot
      <4>1. f.defender = d /\ f.captured = holder /\ f.square = sq
        BY <3>2
      <4>2. d \in ctx.alive \ ctx.cooldown /\ d.id \notin ctx.moved /\ holder.color # d.color
        BY <1>4
      <4>3. fall \in ToSet(nst.captured) /\ fall = <<holder, sq>>
        BY <1>14
      <4> QED
        BY <1>6, <4>1, <4>2, <4>3
    <3> QED
      BY <1>15, <3>1, <3>2
  <2>2. \A i \in 1..Len(st.fired) : st.fired[i].defender # d
    <3>1. \A i \in 1..Len(st.fired) : st.fired[i] \in ToSet(st.fired)
      BY <1>15 DEF ToSet
    <3> QED
      BY <1>4, <3>1 DEF fired_defenders
  <2>3. ASSUME NEW i \in DOMAIN nst.fired, NEW j \in DOMAIN nst.fired,
               nst.fired[i].defender = nst.fired[j].defender
        PROVE  i = j
    <3>1. i \in 1..Len(st.fired) \/ i = Len(st.fired) + 1
      BY <1>15
    <3>2. j \in 1..Len(st.fired) \/ j = Len(st.fired) + 1
      BY <1>15
    <3>3. nst.fired[Len(st.fired) + 1].defender = d
      BY <1>15
    <3>4. \A k, l \in DOMAIN st.fired : st.fired[k].defender = st.fired[l].defender => k = l
      BY <1>2 DEF Fired
    <3> QED
      BY <1>15, <2>2, <2>3, <3>1, <3>2, <3>3, <3>4
  <2> QED
    BY <1>15, <2>1, <2>3 DEF Fired
<1>20. Untouched(ctx, nst, D)
  <2>1. D \subseteq P /\ nst.resolved \subseteq D
    BY <1>1, <1>2 DEF Untouched
  <2>2. ASSUME NEW x \in P \ D
        PROVE  x.square \in DOMAIN nst.occupancy /\ nst.occupancy[x.square] = x.holder
    <3>1. x.square \in DOMAIN o /\ o[x.square] = x.holder
      BY <1>2 DEF Untouched
    <3>2. x.square # sq
      BY <1>3 DEF Setting
    <3>3. x.square \notin left
      BY <1>10
    <3> QED
      BY <1>12, <3>1, <3>2, <3>3
  <2>3. at_hand(nst) \subseteq at_hand(st)
    BY <1>1, <1>16 DEF at_hand
  <2>4. ASSUME NEW x \in D
        PROVE  x.victim \notin at_hand(nst) /\ x.square \in DOMAIN nst.occupancy
    <3>1. x \in P /\ x.victim \notin at_hand(st) /\ x.square \in DOMAIN o
      BY <1>2, <1>3 DEF Untouched
    <3>2. x.square # from
      BY <1>8, <3>1
    <3> QED
      BY <1>12, <2>3, <3>1, <3>2
  <2>5. ASSUME NEW t \in nst.alive
        PROVE  \/ \E q \in DOMAIN nst.occupancy : nst.occupancy[q] = t
               \/ t \notin fired_defenders(nst) /\ \E x \in P \ D : x.victim = t
    <3>1. t \in st.alive /\ t # holder
      BY <1>1
    <3>2. CASE t = d
      BY <1>12, <3>2
    <3>3. ASSUME t # d, NEW q \in DOMAIN o, o[q] = t
          PROVE  \E r \in DOMAIN nst.occupancy : nst.occupancy[r] = t
      <4>1. q # sq
        BY <3>1, <3>3
      <4>2. q \notin left
        <5> SUFFICES ASSUME q \in left PROVE FALSE
          OBVIOUS
        <5>1. q = from /\ ~ busy
          OBVIOUS
        <5>2. t \notin fired_defenders(st)
          <6> SUFFICES ASSUME t \in fired_defenders(st) PROVE FALSE
            OBVIOUS
          <6>1. PICK f \in ToSet(st.fired) : f.square = from
            BY <1>2, <3>3, <5>1 DEF Placed
          <6>2. PICK x \in D : x.square = from
            BY <1>2, <6>1 DEF Fired
          <6> QED
            BY <1>3, <1>8, <6>2
        <5>3. from \in DOMAIN ctx.occupancy /\ ctx.occupancy[from] = t
          BY <1>2, <3>3, <5>1, <5>2 DEF Placed
        <5>4. ~ \E x \in P : x.victim = d
          BY <1>10, <5>1 DEF Setting
        <5>5. PICK r \in DOMAIN ctx.occupancy : ctx.occupancy[r] = d
          BY <1>4, <5>4 DEF Setting
        <5>6. r = from
          BY <5>5 DEF Setting
        <5> QED
          BY <3>3, <5>3, <5>5, <5>6
      <4>3. q \in DOMAIN nst.occupancy
        BY <1>12, <4>2
      <4> QED
        BY <1>12, <3>3, <4>1, <4>3
    <3>4. ASSUME t # d, t \notin fired_defenders(st), NEW x \in P \ D, x.victim = t
          PROVE  t \notin fired_defenders(nst) /\ \E y \in P \ D : y.victim = t
      BY <1>16, <3>4
    <3>5. \/ \E q \in DOMAIN o : o[q] = t
          \/ t \notin fired_defenders(st) /\ \E x \in P \ D : x.victim = t
      BY <1>2, <3>1 DEF Untouched
    <3> QED
      BY <3>2, <3>3, <3>4, <3>5
  <2> QED
    BY <2>1, <2>2, <2>4, <2>5 DEF Untouched
<1>21. /\ Running(ctx, nst, D)
       /\ p.square \in DOMAIN nst.occupancy
       /\ nst.occupancy[p.square] = rho.defender
       /\ st.occupancy[p.square] \notin nst.alive
  BY <1>1, <1>12, <1>17, <1>18, <1>19, <1>20 DEF Running
<1> QED
  BY <1>21 DEF nst

\* Each reservation of the context is of one colour.
Backed(ctx) ==
  /\ ctx.res \in Seq(ToSet(ctx.res))
  /\ \A rho \in ToSet(ctx.res) : rho.defender.color = rho.protege.color

\* One exchange of the chain on a square: the oldest valid defender of the last
\* victim, if there is one, captures the holder.
answer(ctx, square, c) ==
  LET rho == find_valid_defender(ctx, c.st, c.victim, square)
  IN  IF rho = {} THEN c
      ELSE LET r == CHOOSE x \in rho : TRUE
           IN  [st |-> recapture(ctx, c.st, r, c.holder, square),
                victim |-> c.holder, holder |-> r.defender]

\* g[k] is the chain on a square after k exchanges.
ChainOf(ctx, square, start, n, g) ==
  g = [k \in 0..n |-> IF k = 0 THEN start ELSE answer(ctx, square, g[k - 1])]

\* The chain exists for any number of exchanges.
LEMMA ChainExists ==
  ASSUME NEW ctx, NEW square, NEW start
  PROVE  \A n \in Nat : \E g : ChainOf(ctx, square, start, n, g)
<1> DEFINE I == {n \in Nat : \E g : ChainOf(ctx, square, start, n, g)}
<1>1. 0 \in I
  <2>1. ChainOf(ctx, square, start, 0, [k \in 0..0 |-> start])
    <3>1. \A k \in 0..0 : k = 0
      OBVIOUS
    <3> QED
      BY <3>1 DEF ChainOf
  <2> QED
    BY <2>1
<1>2. ASSUME NEW n \in I PROVE n + 1 \in I
  <2>1. PICK g : ChainOf(ctx, square, start, n, g)
    BY <1>2
  <2>2. n \in Nat /\ n + 1 \in Nat
    BY <1>2
  <2> DEFINE h == [k \in 0..(n + 1) |-> IF k = n + 1 THEN answer(ctx, square, g[n]) ELSE g[k]]
  <2>3. ASSUME NEW k \in 0..(n + 1)
        PROVE  h[k] = IF k = 0 THEN start ELSE answer(ctx, square, h[k - 1])
    <3>1. CASE k = n + 1
      <4>1. n \in 0..(n + 1) /\ n # n + 1 /\ k - 1 = n /\ k # 0
        BY <2>2, <3>1
      <4>2. h[n] = g[n] /\ h[k] = answer(ctx, square, g[n])
        BY <3>1, <4>1
      <4> HIDE DEF h
      <4> QED
        BY <4>1, <4>2
    <3>2. CASE k # n + 1
      <4>1. k \in 0..n
        BY <2>2, <3>2
      <4>2. h[k] = g[k]
        BY <3>2
      <4>3. g[k] = IF k = 0 THEN start ELSE answer(ctx, square, g[k - 1])
        BY <2>1, <4>1 DEF ChainOf
      <4>4. k # 0 => k - 1 \in 0..(n + 1) /\ k - 1 # n + 1
        BY <2>2, <4>1
      <4>5. k # 0 => h[k - 1] = g[k - 1]
        BY <4>4
      <4> HIDE DEF h
      <4> QED
        BY <4>2, <4>3, <4>5
    <3> QED
      BY <3>1, <3>2
  <2>4. h = [k \in 0..(n + 1) |-> h[k]]
    OBVIOUS
  <2> HIDE DEF h
  <2>5. ChainOf(ctx, square, start, n + 1, h)
    BY <2>3, <2>4 DEF ChainOf
  <2> QED
    BY <2>2, <2>5
<1> HIDE DEF I
<1>3. I = Nat
  <2>1. I \in SUBSET Nat
    BY DEF I
  <2> QED
    BY <1>1, <1>2, <2>1, Induct
<1> QED
  BY <1>3 DEF I

\* In the chain on the square of battery p the holder stands on the square and
\* is an enemy of the last victim.
ChainState(ctx, D, p, c) ==
  /\ Running(ctx, c.st, D)
  /\ p.square \in DOMAIN c.st.occupancy
  /\ c.st.occupancy[p.square] = c.holder
  /\ c.victim.color # c.holder.color

\* An exchange keeps the invariant of the chain.
LEMMA AnswerKeeps ==
  ASSUME NEW ctx, Setting(ctx), Backed(ctx), NEW D, NEW p \in D, NEW c, ChainState(ctx, D, p, c)
  PROVE  ChainState(ctx, D, p, answer(ctx, p.square, c))
<1> DEFINE valid == find_valid_defender(ctx, c.st, c.victim, p.square)
<1>1. CASE valid = {}
  BY <1>1 DEF answer
<1>2. CASE valid # {}
  <2>1. PICK r : r = (CHOOSE x \in valid : TRUE) /\ r \in valid
    BY <1>2
  <2>2. /\ r \in ToSet(ctx.res) /\ r.protege = c.victim
        /\ r.defender \in at_hand(c.st) \ ctx.cooldown
        /\ r.defender.id \notin ctx.moved
    BY <2>1 DEF find_valid_defender
  <2> HIDE DEF valid
  <2>3. r.defender.color # c.holder.color /\ r.defender.color = c.victim.color
    BY <2>2 DEF Backed, ChainState
  <2> DEFINE nst == recapture(ctx, c.st, r, c.holder, p.square)
             e == [st |-> nst, victim |-> c.holder, holder |-> r.defender]
  <2>4. answer(ctx, p.square, c) = e
    BY <1>2, <2>1 DEF answer, valid
  <2>5. /\ Running(ctx, nst, D)
        /\ p.square \in DOMAIN nst.occupancy
        /\ nst.occupancy[p.square] = r.defender
    BY <2>2, <2>3, RecaptureKeeps DEF ChainState
  <2>6. e.st = nst /\ e.victim = c.holder /\ e.holder = r.defender
    OBVIOUS
  <2> HIDE DEF e, nst
  <2>7. ChainState(ctx, D, p, e)
    BY <2>3, <2>5, <2>6 DEF ChainState
  <2> QED
    BY <2>4, <2>7
<1> QED
  BY <1>1, <1>2

\* With a battery, D has those of the attackers with a lower index.
Closed(ctx, D) ==
  \A p \in D : \A x \in ToSet(ctx.pending) : x.round < p.round => x \in D

\* Reading i: who fired was not itself attacked by a move of a lower index than
\* the attacker of the square it fired onto.
Defused(ctx, st) ==
  \A f \in ToSet(st.fired) : \A own, other \in ToSet(ctx.pending) :
    own.victim = f.defender /\ other.square = f.square => other.round <= own.round

\* When batteries are resolved in the attackers' order, a defender at hand was
\* not attacked yet, so that an exchange leaves the struck defused.
LEMMA AnswerDefuses ==
  ASSUME NEW ctx, Setting(ctx), NEW D, NEW p \in D, NEW c, ChainState(ctx, D, p, c),
         Closed(ctx, D), Defused(ctx, c.st)
  PROVE  Defused(ctx, answer(ctx, p.square, c).st)
<1> DEFINE valid == find_valid_defender(ctx, c.st, c.victim, p.square)
<1>1. CASE valid = {}
  BY <1>1 DEF answer
<1>2. CASE valid # {}
  <2>1. PICK r : r = (CHOOSE x \in valid : TRUE) /\ r \in valid
    BY <1>2
  <2>2. r.defender \in at_hand(c.st)
    BY <2>1 DEF find_valid_defender
  <2>3. Untouched(ctx, c.st, D) /\ Fired(ctx, c.st, D) /\ StageRecord(c.st)
    BY DEF ChainState, Running
  <2> DEFINE nst == recapture(ctx, c.st, r, c.holder, p.square)
             shot == [defender |-> r.defender, captured |-> c.holder, square |-> p.square, reservation |-> r]
  <2>4. answer(ctx, p.square, c).st = nst
    BY <1>2, <2>1 DEF answer
  <2>5. nst.fired = Append(c.st.fired, shot)
    BY <2>3 DEF recapture, StageRecord
  <2>6. \A f \in ToSet(nst.fired) : f \in ToSet(c.st.fired) \/ f = shot
    <3>1. c.st.fired \in Seq(Shots(ctx))
      BY <2>3 DEF Fired
    <3> HIDE DEF nst, shot
    <3>2. DOMAIN nst.fired = 1..(Len(c.st.fired) + 1) /\ DOMAIN c.st.fired = 1..Len(c.st.fired) /\ Len(c.st.fired) \in Nat
      BY <2>5, <3>1
    <3>3. nst.fired[Len(c.st.fired) + 1] = shot
      BY <2>5, <3>1
    <3>4. \A i \in 1..Len(c.st.fired) : nst.fired[i] = c.st.fired[i]
      BY <2>5, <3>1
    <3>5. \A i \in 1..(Len(c.st.fired) + 1) : i \in 1..Len(c.st.fired) \/ i = Len(c.st.fired) + 1
      BY <3>2
    <3> QED
      BY <3>2, <3>3, <3>4, <3>5 DEF ToSet
  <2>7. shot.defender = r.defender /\ shot.square = p.square
    OBVIOUS
  <2> HIDE DEF shot, nst, valid
  <2>8. ASSUME NEW own \in ToSet(ctx.pending), NEW other \in ToSet(ctx.pending),
               own.victim = r.defender, other.square = p.square
        PROVE  other.round <= own.round
    <3>1. own \notin D
      BY <2>2, <2>3, <2>8 DEF Untouched
    <3>2. p \in ToSet(ctx.pending)
      BY <2>3 DEF Untouched
    <3>3. other = p
      BY <2>8, <3>2 DEF Setting
    <3>4. ~ (own.round < p.round)
      BY <3>1 DEF Closed
    <3>5. own.round \in 1..(N + 1) /\ p.round \in 1..(N + 1)
      BY <3>2 DEF Setting
    <3> QED
      BY <3>3, <3>4, <3>5, RuleSetAssumption
  <2> QED
    BY <2>4, <2>6, <2>7, <2>8 DEF Defused
<1> QED
  BY <1>1, <1>2

\* A battery's capture of its victim starts a chain.
LEMMA CaptureKeeps ==
  ASSUME NEW ctx, Setting(ctx), NEW st, NEW D, Running(ctx, st, D),
         NEW p \in ToSet(ctx.pending), p.victim \in at_hand(st)
  PROVE  LET nst == [st EXCEPT !.alive = @ \ {p.victim},
                               !.captured = Append(@, <<p.victim, p.square>>)]
         IN  ChainState(ctx, D \cup {p}, p, [st |-> nst, victim |-> p.victim, holder |-> p.holder])
<1> DEFINE nst == [st EXCEPT !.alive = @ \ {p.victim},
                             !.captured = Append(@, <<p.victim, p.square>>)]
           E == D \cup {p}
           fall == <<p.victim, p.square>>
           P == ToSet(ctx.pending)
<1>1. /\ nst.occupancy = st.occupancy /\ nst.fired = st.fired /\ nst.resolved = st.resolved
      /\ nst.alive = st.alive \ {p.victim}
      /\ nst.captured = Append(st.captured, fall)
      /\ StageRecord(nst)
  <2>1. st = [occupancy |-> st.occupancy, alive |-> st.alive, captured |-> st.captured,
              fired |-> st.fired, resolved |-> st.resolved]
    BY DEF Running, StageRecord
  <2>0. nst = [st EXCEPT !.alive = st.alive \ {p.victim}, !.captured = Append(st.captured, fall)]
    OBVIOUS
  <2> HIDE DEF fall, nst
  <2>2. nst = [occupancy |-> st.occupancy, alive |-> st.alive \ {p.victim},
               captured |-> Append(st.captured, fall), fired |-> st.fired, resolved |-> st.resolved]
    BY <2>0, <2>1
  <2> QED
    BY <2>2 DEF StageRecord
<1> HIDE DEF nst
<1>2. /\ Placed(ctx, st) /\ Fallen(ctx, st, D) /\ Fired(ctx, st, D) /\ Untouched(ctx, st, D)
  BY DEF Running
<1>3. /\ p \notin D /\ D \subseteq P
      /\ p.victim \in st.alive /\ p.victim \notin fired_defenders(st)
  BY <1>2 DEF Untouched, at_hand
<1>4. /\ p.square \in DOMAIN ctx.occupancy /\ ctx.occupancy[p.square] = p.holder
      /\ p.holder.id \in ctx.moved
      /\ p.victim \in ctx.alive /\ p.victim.id \notin ctx.moved
      /\ ctx.board[p.victim] = p.square /\ p.holder.color # p.victim.color
      /\ p.victim \in live(ctx.board) /\ p.square \in Squares
  BY DEF Setting
<1>5. p.square \in DOMAIN st.occupancy /\ st.occupancy[p.square] = p.holder
  BY <1>2, <1>3 DEF Untouched
<1>6. \A q \in DOMAIN st.occupancy : st.occupancy[q] # p.victim
  <2> SUFFICES ASSUME NEW q \in DOMAIN st.occupancy, st.occupancy[q] = p.victim PROVE FALSE
    OBVIOUS
  <2>1. q \in DOMAIN ctx.occupancy /\ ctx.occupancy[q] = p.victim
    BY <1>2, <1>3 DEF Placed
  <2>2. q = p.square
    BY <1>4, <2>1 DEF Setting
  <2> QED
    BY <1>4, <1>5, <2>2
<1>7. fall \in live(ctx.board) \X Squares
  BY <1>4
<1>8. /\ nst.captured \in Seq(live(ctx.board) \X Squares)
      /\ ToSet(nst.captured) = ToSet(st.captured) \cup {fall}
  <2> HIDE DEF fall
  <2>1. st.captured \in Seq(live(ctx.board) \X Squares)
    BY <1>2 DEF Fallen
  <2> QED
    BY <1>1, <1>7, <2>1, AppendElements
<1>9. fired_defenders(nst) = fired_defenders(st)
  BY <1>1 DEF fired_defenders
<1>10. Placed(ctx, nst)
  BY <1>1, <1>2, <1>6, <1>9 DEF Placed
<1>11. Fallen(ctx, nst, E)
  <2>1. nst.alive = ctx.alive \ {x[1] : x \in ToSet(nst.captured)}
    <3>1. fall[1] = p.victim
      OBVIOUS
    <3>2. st.alive = ctx.alive \ {x[1] : x \in ToSet(st.captured)}
      BY <1>2 DEF Fallen
    <3> HIDE DEF fall
    <3>3. {x[1] : x \in ToSet(nst.captured)} = {x[1] : x \in ToSet(st.captured)} \cup {p.victim}
      BY <1>8, <3>1
    <3> QED
      BY <1>1, <3>2, <3>3
  <2>2. ASSUME NEW x \in ToSet(nst.captured)
        PROVE  /\ x[1] \in ctx.alive
               /\ \E e \in E : /\ x[2] = e.square
                               /\ \/ x[1] = e.victim /\ x[1] \notin fired_defenders(nst)
                                  \/ x[1] = e.holder
                                  \/ \E f \in ToSet(nst.fired) : f.defender = x[1] /\ f.square = x[2]
    <3>1. CASE x \in ToSet(st.captured)
      BY <1>1, <1>2, <1>9, <3>1 DEF Fallen
    <3>2. CASE x = fall
      BY <1>3, <1>4, <1>9, <3>2
    <3> QED
      BY <1>8, <3>1, <3>2
  <2>3. \A i, j \in DOMAIN nst.captured : nst.captured[i][1] = nst.captured[j][1] => i = j
    <3>1. fall[1] = p.victim
      OBVIOUS
    <3>2. /\ fall[1] \notin {x[1] : x \in ToSet(st.captured)}
          /\ st.captured \in Seq(live(ctx.board) \X Squares)
          /\ \A i, j \in DOMAIN st.captured : st.captured[i][1] = st.captured[j][1] => i = j
      BY <1>2, <1>3, <3>1 DEF Fallen
    <3>3. fall \in live(ctx.board) \X Squares
      BY <1>7
    <3> DEFINE S == live(ctx.board) \X Squares
               u == st.captured
    <3>4. /\ u \in Seq(S) /\ fall \in S /\ fall[1] \notin {x[1] : x \in ToSet(u)}
          /\ \A i, j \in DOMAIN u : u[i][1] = u[j][1] => i = j
      BY <3>2, <3>3
    <3>5. nst.captured = Append(u, fall)
      BY <1>1
    <3> HIDE DEF fall, S, u
    <3>6. \A i, j \in DOMAIN Append(u, fall) : Append(u, fall)[i][1] = Append(u, fall)[j][1] => i = j
      BY <3>4, CaptureOnce
    <3> QED
      BY <3>5, <3>6
  <2> QED
    BY <1>8, <2>1, <2>2, <2>3 DEF Fallen
<1>12. Fired(ctx, nst, E)
  BY <1>1, <1>2, <1>8 DEF Fired
<1>13. Untouched(ctx, nst, E)
  <2>1. at_hand(nst) = at_hand(st) \ {p.victim}
    BY <1>1, <1>9 DEF at_hand
  <2>2. \A x \in E : x.victim \notin at_hand(nst) /\ x.square \in DOMAIN nst.occupancy
    BY <1>1, <1>2, <2>1 DEF Untouched, Setting
  <2>3. \A t \in nst.alive : \/ \E q \in DOMAIN nst.occupancy : nst.occupancy[q] = t
                             \/ t \notin fired_defenders(nst) /\ \E x \in P \ E : x.victim = t
    BY <1>1, <1>2, <1>9 DEF Untouched
  <2> QED
    BY <1>1, <1>2, <2>2, <2>3 DEF Untouched
<1> DEFINE c == [st |-> nst, victim |-> p.victim, holder |-> p.holder]
<1>14. c.st = nst /\ c.victim = p.victim /\ c.holder = p.holder
  OBVIOUS
<1>15. ChainState(ctx, E, p, c)
  <2> HIDE DEF c
  <2> QED
    BY <1>1, <1>4, <1>5, <1>10, <1>11, <1>12, <1>13, <1>14 DEF ChainState, Running
<1> QED
  BY <1>15 DEF nst

\* Resolving one battery keeps the invariant, its chain included.
LEMMA ResolveKeeps ==
  ASSUME NEW ctx, Setting(ctx), Backed(ctx), NEW st, NEW D, Running(ctx, st, D),
         NEW p \in ToSet(ctx.pending)
  PROVE  /\ Running(ctx, resolve_square(ctx, st, p), D \cup {p})
         /\ Closed(ctx, D \cup {p}) /\ Defused(ctx, st) => Defused(ctx, resolve_square(ctx, st, p))
<1> DEFINE L == Len(ctx.res)
           E == D \cup {p}
           start == [st |-> [st EXCEPT !.alive = @ \ {p.victim},
                                       !.captured = Append(@, <<p.victim, p.square>>)],
                     victim |-> p.victim, holder |-> p.holder]
           chain == CHOOSE g : g = [k \in 0..L |-> IF k = 0 THEN start ELSE answer(ctx, p.square, g[k - 1])]
           after == IF p.victim \in at_hand(st) THEN chain[L].st ELSE st
<1>1. resolve_square(ctx, st, p) = [after EXCEPT !.resolved = @ \cup {p}]
  BY DEF resolve_square, answer
<1>2. L \in Nat
  BY DEF Backed
<1>3. ASSUME p.victim \in at_hand(st)
      PROVE  Running(ctx, after, E) /\ (Closed(ctx, E) /\ Defused(ctx, st) => Defused(ctx, after))
  <2>1. ChainState(ctx, E, p, start)
    BY <1>3, CaptureKeeps
  <2>11. Defused(ctx, st) => Defused(ctx, start.st)
    <3>1. StageRecord(st)
      BY DEF Running
    <3>2. start.st.fired = st.fired
      BY <3>1 DEF StageRecord
    <3> HIDE DEF start
    <3> QED
      BY <3>2 DEF Defused
  <2> HIDE DEF start
  <2>9. \E g : ChainOf(ctx, p.square, start, L, g)
    BY <1>2, ChainExists
  <2>2. \E g : g = [k \in 0..L |-> IF k = 0 THEN start ELSE answer(ctx, p.square, g[k - 1])]
    BY <2>9 DEF ChainOf
  <2>3. chain = [k \in 0..L |-> IF k = 0 THEN start ELSE answer(ctx, p.square, chain[k - 1])]
    BY <2>2
  <2>10. after = chain[L].st
    BY <1>3
  <2> HIDE DEF chain, after
  <2> DEFINE I == {k \in 0..L :
                    /\ ChainState(ctx, E, p, chain[k])
                    /\ Closed(ctx, E) /\ Defused(ctx, st) => Defused(ctx, chain[k].st)}
  <2>4. 0 \in I
    <3>1. 0 \in 0..L
      BY <1>2
    <3>2. chain[0] = start
      BY <2>3, <3>1
    <3> QED
      BY <2>1, <2>11, <3>1, <3>2
  <2>5. \A k \in 0..(L - 1) : k \in I => k + 1 \in I
    <3> SUFFICES ASSUME NEW k \in 0..(L - 1), k \in I PROVE k + 1 \in I
      OBVIOUS
    <3>1. k + 1 \in 0..L /\ k + 1 # 0 /\ (k + 1) - 1 = k
      BY <1>2
    <3>2. chain[k + 1] = answer(ctx, p.square, chain[k])
      BY <2>3, <3>1
    <3>3. ChainState(ctx, E, p, chain[k]) /\ p \in E
      OBVIOUS
    <3>4. ChainState(ctx, E, p, answer(ctx, p.square, chain[k]))
      BY <3>3, AnswerKeeps
    <3>5. Closed(ctx, E) /\ Defused(ctx, st) => Defused(ctx, answer(ctx, p.square, chain[k]).st)
      BY <3>3, AnswerDefuses
    <3> QED
      BY <3>1, <3>2, <3>4, <3>5
  <2> HIDE DEF I
  <2>6. \A k \in 0..L : k \in I
    BY <1>2, <2>4, <2>5, InductTo
  <2>7. L \in I
    BY <1>2, <2>6
  <2>8. /\ Running(ctx, chain[L].st, E)
        /\ Closed(ctx, E) /\ Defused(ctx, st) => Defused(ctx, chain[L].st)
    BY <2>7 DEF I, ChainState
  <2> QED
    BY <2>8, <2>10
<1>4. ASSUME p.victim \notin at_hand(st) PROVE Running(ctx, after, E) /\ after = st
  <2>1. /\ StageRecord(st) /\ Placed(ctx, st) /\ Fallen(ctx, st, D) /\ Fired(ctx, st, D) /\ Untouched(ctx, st, D)
    BY DEF Running
  <2>2. Fallen(ctx, st, E) /\ Fired(ctx, st, E)
    <3>1. Fallen(ctx, st, E)
      BY <2>1 DEF Fallen
    <3> QED
      BY <2>1, <3>1 DEF Fired
  <2>3. Untouched(ctx, st, E)
    BY <1>4, <2>1 DEF Untouched, at_hand
  <2>4. after = st
    BY <1>4
  <2> HIDE DEF after
  <2> QED
    BY <2>1, <2>2, <2>3, <2>4 DEF Running
<1> HIDE DEF after
<1>5. Running(ctx, after, E) /\ (Closed(ctx, E) /\ Defused(ctx, st) => Defused(ctx, after))
  BY <1>3, <1>4
<1> DEFINE nst == [after EXCEPT !.resolved = @ \cup {p}]
<1>6. /\ nst.occupancy = after.occupancy /\ nst.alive = after.alive /\ nst.captured = after.captured
      /\ nst.fired = after.fired /\ nst.resolved = after.resolved \cup {p} /\ StageRecord(nst)
  <2>1. after = [occupancy |-> after.occupancy, alive |-> after.alive, captured |-> after.captured,
                 fired |-> after.fired, resolved |-> after.resolved]
    BY <1>5 DEF Running, StageRecord
  <2>2. nst = [occupancy |-> after.occupancy, alive |-> after.alive, captured |-> after.captured,
               fired |-> after.fired, resolved |-> after.resolved \cup {p}]
    BY <2>1
  <2> HIDE DEF nst
  <2> QED
    BY <2>2 DEF StageRecord
<1> HIDE DEF nst
<1>7. Placed(ctx, nst) /\ Fallen(ctx, nst, E) /\ Fired(ctx, nst, E)
  <2>1. Placed(ctx, nst) /\ Fallen(ctx, nst, E)
    <3>1. fired_defenders(nst) = fired_defenders(after)
      BY <1>6 DEF fired_defenders
    <3>2. Placed(ctx, after) /\ Fallen(ctx, after, E)
      BY <1>5 DEF Running
    <3>3. Placed(ctx, nst)
      BY <1>6, <3>1, <3>2 DEF Placed
    <3>4. Fallen(ctx, nst, E)
      BY <1>6, <3>1, <3>2 DEF Fallen
    <3> QED
      BY <3>3, <3>4
  <2>2. Fired(ctx, after, E)
    BY <1>5 DEF Running
  <2>3. Fired(ctx, nst, E)
    BY <1>6, <2>2 DEF Fired
  <2> QED
    BY <2>1, <2>3
<1>8. Untouched(ctx, nst, E)
  BY <1>5, <1>6 DEF Running, Untouched, at_hand, fired_defenders
<1>9. Running(ctx, nst, E)
  BY <1>6, <1>7, <1>8 DEF Running
<1>10. Closed(ctx, E) /\ Defused(ctx, st) => Defused(ctx, nst)
  BY <1>5, <1>6 DEF Defused
<1> QED
  BY <1>1, <1>9, <1>10 DEF nst

\* The invariant holds before any battery is resolved.
LEMMA StartRunning ==
  ASSUME NEW ctx, Setting(ctx)
  PROVE  Running(ctx, cascade_start(ctx), {})
<1> DEFINE st == cascade_start(ctx)
<1>1. /\ st.occupancy = ctx.occupancy /\ st.alive = ctx.alive
      /\ st.captured = <<>> /\ st.fired = <<>> /\ st.resolved = {} /\ StageRecord(st)
  BY DEF cascade_start, StageRecord
<1> HIDE DEF st
<1>2. ToSet(<<>>) = {} /\ \A S : <<>> \in Seq(S)
  BY DEF ToSet
<1>3. fired_defenders(st) = {} /\ ToSet(st.captured) = {} /\ ToSet(st.fired) = {}
  BY <1>1, <1>2 DEF fired_defenders
<1>4. Placed(ctx, st)
  BY <1>1, <1>3 DEF Placed, Setting
<1>5. Fallen(ctx, st, {}) /\ Fired(ctx, st, {})
  <2>1. DOMAIN st.captured = {} /\ DOMAIN st.fired = {}
    BY <1>1
  <2> QED
    BY <1>1, <1>2, <1>3, <2>1 DEF Fallen, Fired
<1>6. Untouched(ctx, st, {})
  BY <1>1, <1>3 DEF Untouched, Setting
<1>7. Running(ctx, st, {})
  BY <1>1, <1>4, <1>5, <1>6 DEF Running
<1> QED
  BY <1>7 DEF st

-----------------------------------------------------------------------------
(***************************************************************************)
(* The orders in which stage B resolves the batteries.                     *)
(***************************************************************************)
\* g[S] is the state after the batteries of seq at the places in S.
ResolveIter(ctx, seq, D, g) ==
  g = [S \in SUBSET D |-> IF S = {} THEN cascade_start(ctx)
                          ELSE resolve_square(ctx, g[S \ {Max(S)}], seq[Max(S)])]

\* The fold over the batteries exists for any list of them.
LEMMA ResolveIterExists ==
  ASSUME NEW ctx, NEW seq
  PROVE  \A n \in Nat : \E g : ResolveIter(ctx, seq, 1..n, g)
<1> DEFINE I == {n \in Nat : \E g : ResolveIter(ctx, seq, 1..n, g)}
<1>1. 0 \in I
  <2>1. ResolveIter(ctx, seq, 1..0, [S \in SUBSET (1..0) |-> cascade_start(ctx)])
    <3>1. SUBSET (1..0) = {{}}
      OBVIOUS
    <3> QED
      BY <3>1 DEF ResolveIter
  <2> QED
    BY <2>1
<1>2. ASSUME NEW n \in I PROVE n + 1 \in I
  <2>1. PICK g : ResolveIter(ctx, seq, 1..n, g)
    BY <1>2
  <2>2. n \in Nat /\ n + 1 \in Nat
    BY <1>2
  <2> DEFINE h == [S \in SUBSET (1..(n + 1)) |->
                     IF n + 1 \in S THEN resolve_square(ctx, g[S \ {n + 1}], seq[n + 1]) ELSE g[S]]
  <2>3. ASSUME NEW S \in SUBSET (1..(n + 1))
        PROVE  h[S] = IF S = {} THEN cascade_start(ctx)
                      ELSE resolve_square(ctx, h[S \ {Max(S)}], seq[Max(S)])
    <3>1. CASE n + 1 \in S
      <4>1. Max(S) = n + 1
        BY <2>2, <3>1, MaxOfTop
      <4>2. S \ {n + 1} \in SUBSET (1..(n + 1)) /\ n + 1 \notin S \ {n + 1}
        OBVIOUS
      <4>3. h[S \ {n + 1}] = g[S \ {n + 1}]
        BY <4>2
      <4>4. h[S] = resolve_square(ctx, g[S \ {n + 1}], seq[n + 1])
        BY <3>1
      <4> HIDE DEF h
      <4> QED
        BY <3>1, <4>1, <4>3, <4>4
    <3>2. CASE n + 1 \notin S
      <4>1. \A k \in S : k \in 1..n
        BY <2>2, <3>2
      <4>2. S \in SUBSET (1..n)
        BY <4>1
      <4>3. g[S] = IF S = {} THEN cascade_start(ctx)
                   ELSE resolve_square(ctx, g[S \ {Max(S)}], seq[Max(S)])
        BY <2>1, <4>2 DEF ResolveIter
      <4>4. S \ {Max(S)} \in SUBSET (1..(n + 1)) /\ n + 1 \notin S \ {Max(S)}
        BY <3>2
      <4>5. h[S] = g[S] /\ h[S \ {Max(S)}] = g[S \ {Max(S)}]
        BY <3>2, <4>4
      <4> HIDE DEF h
      <4> QED
        BY <4>3, <4>5
    <3> QED
      BY <3>1, <3>2
  <2>4. h = [S \in SUBSET (1..(n + 1)) |-> h[S]]
    OBVIOUS
  <2> HIDE DEF h
  <2>5. ResolveIter(ctx, seq, 1..(n + 1), h)
    BY <2>3, <2>4 DEF ResolveIter
  <2> QED
    BY <2>2, <2>5
<1> HIDE DEF I
<1>3. I = Nat
  <2>1. I \in SUBSET Nat
    BY DEF I
  <2> QED
    BY <1>1, <1>2, <2>1, Induct
<1> QED
  BY <1>3 DEF I

\* The first k batteries of an order.
Upto(order, k) == {order[j] : j \in 1..k}

\* Whatever the order, stage B ends with its invariant for the batteries of that
\* order; and an order that never skips a lower index leaves the struck defused.
LEMMA ResolvedRunning ==
  ASSUME NEW ctx, Setting(ctx), Backed(ctx), NEW order \in Seq(ToSet(ctx.pending))
  PROVE  /\ Running(ctx, resolved_in(ctx, order), ToSet(order))
         /\ (\A k \in 1..Len(order) : Closed(ctx, Upto(order, k))) => Defused(ctx, resolved_in(ctx, order))
<1> DEFINE n == Len(order)
           S == DOMAIN order
           iter == CHOOSE g : g = [T \in SUBSET S |->
                     IF T = {} THEN cascade_start(ctx)
                     ELSE resolve_square(ctx, g[T \ {Max(T)}], order[Max(T)])]
<1>1. n \in Nat /\ S = 1..n /\ \A k \in 1..n : order[k] \in ToSet(ctx.pending)
  OBVIOUS
<1>2. \E g : g = [T \in SUBSET S |->
        IF T = {} THEN cascade_start(ctx) ELSE resolve_square(ctx, g[T \ {Max(T)}], order[Max(T)])]
  <2>1. \E g : ResolveIter(ctx, order, 1..n, g)
    BY <1>1, ResolveIterExists
  <2>2. \E g : ResolveIter(ctx, order, S, g)
    BY <1>1, <2>1
  <2> QED
    BY <2>2 DEF ResolveIter
<1>3. iter = [T \in SUBSET S |->
        IF T = {} THEN cascade_start(ctx) ELSE resolve_square(ctx, iter[T \ {Max(T)}], order[Max(T)])]
  BY <1>2
<1>4. resolved_in(ctx, order) = iter[S]
  BY DEF resolved_in, FoldLeft, MapThenFoldSet
<1> HIDE DEF iter
<1>5. PICK g : ResolveIter(ctx, order, 1..n, g) /\ resolved_in(ctx, order) = g[1..n]
  BY <1>1, <1>3, <1>4 DEF ResolveIter
<1> DEFINE InOrder == \A k \in 1..n : Closed(ctx, Upto(order, k))
           I == {k \in 0..n : /\ Running(ctx, g[1..k], Upto(order, k))
                              /\ InOrder => Defused(ctx, g[1..k])}
<1>6. 0 \in I
  <2>1. g[1..0] = cascade_start(ctx)
    <3>1. 1..0 = {} /\ {} \in SUBSET (1..n)
      OBVIOUS
    <3> QED
      BY <1>5, <3>1 DEF ResolveIter
  <2>2. Upto(order, 0) = {} /\ 0 \in 0..n
    BY <1>1 DEF Upto
  <2>3. Defused(ctx, cascade_start(ctx))
    <3>1. cascade_start(ctx).fired = <<>> /\ ToSet(<<>>) = {}
      BY DEF cascade_start, ToSet
    <3> QED
      BY <3>1 DEF Defused
  <2> HIDE DEF InOrder
  <2> QED
    BY <2>1, <2>2, <2>3, StartRunning
<1>7. \A k \in 0..(n - 1) : k \in I => k + 1 \in I
  <2> SUFFICES ASSUME NEW k \in 0..(n - 1), k \in I PROVE k + 1 \in I
    OBVIOUS
  <2>1. k + 1 \in 1..n /\ k + 1 \in 0..n /\ k \in Nat /\ (k + 1) - 1 = k
    BY <1>1
  <2>2. 1..(k + 1) \in SUBSET (1..n) /\ 1..(k + 1) # {} /\ k + 1 \in 1..(k + 1)
    <3>1. \A x \in 1..(k + 1) : x \in 1..n
      BY <1>1, <2>1
    <3>2. k + 1 \in 1..(k + 1)
      BY <2>1
    <3> QED
      BY <3>1, <3>2
  <2>3. Max(1..(k + 1)) = k + 1
    BY <2>1, <2>2, MaxOfTop
  <2>4. (1..(k + 1)) \ {k + 1} = 1..k
    BY <2>1
  <2>5. g[1..(k + 1)] = resolve_square(ctx, g[1..k], order[k + 1])
    BY <1>5, <2>2, <2>3, <2>4 DEF ResolveIter
  <2>6. Upto(order, k + 1) = Upto(order, k) \cup {order[k + 1]}
    <3>1. 1..(k + 1) = (1..k) \cup {k + 1}
      BY <2>1
    <3> QED
      BY <3>1 DEF Upto
  <2>7. /\ Running(ctx, g[1..(k + 1)], Upto(order, k + 1))
        /\ InOrder => Defused(ctx, g[1..(k + 1)])
    <3>1. InOrder => Closed(ctx, Upto(order, k + 1))
      BY <2>1
    <3>2. order[k + 1] \in ToSet(ctx.pending)
      BY <1>1, <2>1
    <3> HIDE DEF InOrder
    <3>3. Running(ctx, g[1..k], Upto(order, k)) /\ (InOrder => Defused(ctx, g[1..k]))
      <4>1. k \in I
        OBVIOUS
      <4> QED
        BY <4>1
    <3> HIDE DEF I
    <3> QED
      BY <2>5, <2>6, <3>1, <3>2, <3>3, ResolveKeeps
  <2> HIDE DEF InOrder
  <2> QED
    BY <2>1, <2>7
<1> HIDE DEF I, InOrder
<1>8. \A k \in 0..n : k \in I
  BY <1>1, <1>6, <1>7, InductTo
<1>9. Running(ctx, g[1..n], Upto(order, n)) /\ (InOrder => Defused(ctx, g[1..n]))
  <2>1. n \in I
    BY <1>1, <1>8
  <2> QED
    BY <2>1 DEF I
<1>10. Upto(order, n) = ToSet(order)
  BY <1>1 DEF Upto, ToSet
<1> QED
  BY <1>5, <1>9, <1>10 DEF InOrder

\* The attackers' order has every battery, and those of lower index first.
LEMMA AttackerOrder ==
  ASSUME NEW ctx, Setting(ctx)
  PROVE  /\ attacker_order(ctx.pending) \in Seq(ToSet(ctx.pending))
         /\ ToSet(attacker_order(ctx.pending)) = ToSet(ctx.pending)
         /\ \A k \in 1..Len(attacker_order(ctx.pending)) : Closed(ctx, Upto(attacker_order(ctx.pending), k))
<1> DEFINE P == ToSet(ctx.pending)
           part(r) == only(ctx.pending, {p \in P : p.round = r})
           ss == [r \in 1..(N + 1) |-> part(r)]
<1>1. ctx.pending \in Seq(P)
  BY DEF Setting
<1>2. \A r : part(r) \in Seq(P) /\ ToSet(part(r)) = P \cap {p \in P : p.round = r}
  <2> HIDE DEF P
  <2> QED
    BY <1>1, OnlyElements DEF P
<1>3. N + 1 \in Nat
  BY RuleSetAssumption
<1> HIDE DEF part, P
<1>4. ss \in Seq(Seq(P)) /\ Len(ss) = N + 1 /\ \A r \in 1..(N + 1) : ss[r] = part(r)
  BY <1>2, <1>3
<1>5. attacker_order(ctx.pending) = FlattenSeq(ss)
  BY DEF attacker_order, part, P
<1> HIDE DEF ss
<1>6. /\ FlattenSeq(ss) \in Seq(P)
      /\ ToSet(FlattenSeq(ss)) = UNION {ToSet(ss[i]) : i \in 1..(N + 1)}
  BY <1>4, FlattenElements
<1>7. \A p \in P : p.round \in 1..(N + 1)
  BY DEF Setting, P
<1>8. UNION {ToSet(ss[i]) : i \in 1..(N + 1)} = P
  <2>1. ASSUME NEW p \in P PROVE \E i \in 1..(N + 1) : p \in ToSet(ss[i])
    BY <1>2, <1>4, <1>7
  <2>2. ASSUME NEW i \in 1..(N + 1) PROVE ToSet(ss[i]) \subseteq P
    BY <1>2, <1>4
  <2> QED
    BY <2>1, <2>2
<1> DEFINE order == FlattenSeq(ss)
<1>9. PICK h : Places(ss, order, N + 1, h)
  BY <1>4, FlattenPlaces
<1>10. DOMAIN order = 1..Len(order) /\ Len(order) \in Nat
  BY <1>6
<1> HIDE DEF order
<1>11. ASSUME NEW x \in 1..Len(order)
       PROVE  h[x][1] \in 1..(N + 1) /\ order[x].round = h[x][1]
  <2>1. h[x][1] \in 1..(N + 1) /\ h[x][2] \in 1..Len(ss[h[x][1]]) /\ order[x] = ss[h[x][1]][h[x][2]]
    BY <1>9 DEF Places
  <2>2. ss[h[x][1]] \in Seq(P) /\ ToSet(ss[h[x][1]]) \subseteq {p \in P : p.round = h[x][1]}
    BY <1>2, <1>4, <2>1
  <2>3. order[x] \in ToSet(ss[h[x][1]])
    BY <2>1, <2>2 DEF ToSet
  <2> QED
    BY <2>1, <2>2, <2>3
<1>12. ASSUME NEW x \in 1..Len(order), NEW y \in 1..Len(order), x < y
       PROVE  order[x].round <= order[y].round
  <2>1. Before(h[x], h[y])
    BY <1>9, <1>12 DEF Places
  <2> QED
    BY <1>3, <1>11, <2>1 DEF Before
<1>13. ASSUME NEW k \in 1..Len(order) PROVE Closed(ctx, Upto(order, k))
  <2> SUFFICES ASSUME NEW i \in 1..k, NEW x \in P, x.round < order[i].round
               PROVE  x \in Upto(order, k)
    BY DEF Closed, Upto, P
  <2>1. PICK j \in 1..Len(order) : x = order[j]
    BY <1>6, <1>8, <1>10 DEF ToSet, order
  <2>2. i \in 1..Len(order)
    BY <1>10
  <2>3. order[i].round \in Int /\ order[j].round \in Int
    BY <1>3, <1>11, <2>1, <2>2
  <2>4. ~ (i < j) /\ i # j
    BY <1>12, <2>1, <2>2, <2>3
  <2>5. j \in 1..k
    BY <1>10, <2>1, <2>2, <2>4
  <2> QED
    BY <2>1, <2>5 DEF Upto
<1> QED
  BY <1>5, <1>6, <1>8, <1>13 DEF P, order

(***************************************************************************)
(* Reading ii.                                                             *)
(***************************************************************************)
\* A battery that has to go first is an open one.
LEMMA LeafFacts ==
  ASSUME NEW ctx, Backed(ctx), NEW p, NEW done, leaves_for(ctx, p, done) # {}
  PROVE  first_leaf(ctx, p, done) \in ToSet(ctx.pending) \ done
<1> DEFINE leaves == leaves_for(ctx, p, done)
           first(q, i) == names(ctx, i, p, q) /\ \A r \in leaves, j \in 1..(i - 1) : ~ names(ctx, j, p, r)
           I == {i \in DOMAIN ctx.res : \E q \in leaves : names(ctx, i, p, q)}
<1>1. leaves \subseteq ToSet(ctx.pending) \ done
  BY DEF leaves_for
<1>2. \A q \in leaves : \E i \in DOMAIN ctx.res : names(ctx, i, p, q)
  BY DEF leaves_for
<1>3. Len(ctx.res) \in Nat /\ DOMAIN ctx.res = 1..Len(ctx.res)
  BY DEF Backed
<1>4. first_leaf(ctx, p, done) = CHOOSE q \in leaves : \E i \in DOMAIN ctx.res : first(q, i)
  BY DEF first_leaf
<1> HIDE DEF leaves
<1>5. I \in SUBSET Nat /\ I # {}
  BY <1>2, <1>3 DEF leaves
<1>6. PICK i \in I : \A k \in I : i <= k
  BY <1>5, LeastNat
<1>7. PICK q \in leaves : names(ctx, i, p, q)
  BY <1>6
<1>8. first(q, i)
  <2> SUFFICES ASSUME NEW r \in leaves, NEW j \in 1..(i - 1), names(ctx, j, p, r) PROVE FALSE
    BY <1>7
  <2>1. i \in 1..Len(ctx.res)
    BY <1>3, <1>6
  <2>2. j \in DOMAIN ctx.res /\ ~ (i <= j)
    BY <1>3, <2>1
  <2>3. j \in I
    BY <2>2
  <2> QED
    BY <1>6, <2>2, <2>3
<1>9. i \in DOMAIN ctx.res
  BY <1>6
<1> HIDE DEF first
<1>10. first_leaf(ctx, p, done) \in leaves
  BY <1>4, <1>8, <1>9
<1> QED
  BY <1>1, <1>10 DEF leaves

\* f[d][p] is where d steps down the precedence lead from battery p.
Descent(ctx, done, B, n, f) ==
  f = [depth \in 0..n |->
         [p \in B |-> IF depth = 0 \/ leaves_for(ctx, p, done) = {} THEN p
                      ELSE f[depth - 1][first_leaf(ctx, p, done)]]]

\* The descent exists for any number of steps.
LEMMA DescentExists ==
  ASSUME NEW ctx, NEW done, NEW B
  PROVE  \A n \in Nat : \E f : Descent(ctx, done, B, n, f)
<1> DEFINE I == {n \in Nat : \E f : Descent(ctx, done, B, n, f)}
           level(depth, below) ==
             [p \in B |-> IF depth = 0 \/ leaves_for(ctx, p, done) = {} THEN p
                          ELSE below[first_leaf(ctx, p, done)]]
<1>0. \A d, x, y : d = 0 => level(d, x) = level(d, y)
  OBVIOUS
<1>10. \A n, f : Descent(ctx, done, B, n, f) <=> f = [d \in 0..n |-> level(d, f[d - 1])]
  BY DEF Descent
<1> HIDE DEF level
<1>1. 0 \in I
  <2> DEFINE f == [d \in 0..0 |-> level(0, 0)]
  <2>1. \A d \in 0..0 : level(d, f[d - 1]) = level(0, 0)
    BY <1>0
  <2>2. f = [d \in 0..0 |-> level(d, f[d - 1])]
    BY <2>1
  <2> HIDE DEF f
  <2> QED
    BY <1>10, <2>2
<1>2. ASSUME NEW n \in I PROVE n + 1 \in I
  <2>1. PICK f : f = [d \in 0..n |-> level(d, f[d - 1])]
    BY <1>2, <1>10
  <2>2. n \in Nat /\ n + 1 \in Nat
    BY <1>2
  <2> DEFINE h == [d \in 0..(n + 1) |-> IF d = n + 1 THEN level(d, f[n]) ELSE f[d]]
  <2>3. ASSUME NEW d \in 0..(n + 1) PROVE h[d] = level(d, h[d - 1])
    <3>1. CASE d = n + 1
      <4>1. n \in 0..(n + 1) /\ n # n + 1 /\ d - 1 = n
        BY <2>2, <3>1
      <4>2. h[n] = f[n] /\ h[d] = level(d, f[n])
        BY <3>1, <4>1
      <4> HIDE DEF h
      <4> QED
        BY <4>1, <4>2
    <3>2. CASE d # n + 1
      <4>1. d \in 0..n
        BY <2>2, <3>2
      <4>2. h[d] = f[d]
        BY <3>2
      <4>3. f[d] = level(d, f[d - 1])
        BY <2>1, <4>1
      <4>4. d # 0 => d - 1 \in 0..(n + 1) /\ d - 1 # n + 1
        BY <2>2, <4>1
      <4>5. d # 0 => h[d - 1] = f[d - 1]
        BY <4>4
      <4> HIDE DEF h
      <4> QED
        BY <1>0, <4>2, <4>3, <4>5
    <3> QED
      BY <3>1, <3>2
  <2>4. h = [d \in 0..(n + 1) |-> h[d]]
    OBVIOUS
  <2> HIDE DEF h
  <2>5. h = [d \in 0..(n + 1) |-> level(d, h[d - 1])]
    BY <2>3, <2>4
  <2> QED
    BY <1>10, <2>2, <2>5
<1> HIDE DEF I
<1>3. I = Nat
  <2>1. I \in SUBSET Nat
    BY DEF I
  <2> QED
    BY <1>1, <1>2, <2>1, Induct
<1> QED
  BY <1>3 DEF I

\* The descent from an open battery leads to an open battery.
LEMMA DescentStays ==
  ASSUME NEW ctx, Backed(ctx), NEW done, NEW n \in Nat, NEW f,
         Descent(ctx, done, ToSet(ctx.pending), n, f), NEW p \in ToSet(ctx.pending) \ done
  PROVE  f[n][p] \in ToSet(ctx.pending) \ done
<1> DEFINE B == ToSet(ctx.pending)
           I == {k \in 0..n : \A q \in B \ done : f[k][q] \in B \ done}
<1>1. \A q \in B \ done : leaves_for(ctx, q, done) # {} => first_leaf(ctx, q, done) \in B \ done
  BY LeafFacts
<1> HIDE DEF B
<1>2. \A q \in B, k \in 0..n :
        f[k][q] = IF k = 0 \/ leaves_for(ctx, q, done) = {} THEN q ELSE f[k - 1][first_leaf(ctx, q, done)]
  <2> SUFFICES ASSUME NEW q \in B, NEW k \in 0..n
               PROVE  f[k][q] = IF k = 0 \/ leaves_for(ctx, q, done) = {} THEN q
                                ELSE f[k - 1][first_leaf(ctx, q, done)]
    OBVIOUS
  <2>1. f = [depth \in 0..n |->
               [p1 \in B |-> IF depth = 0 \/ leaves_for(ctx, p1, done) = {} THEN p1
                             ELSE f[depth - 1][first_leaf(ctx, p1, done)]]]
    BY DEF Descent, B
  <2>2. f[k] = [p1 \in B |-> IF k = 0 \/ leaves_for(ctx, p1, done) = {} THEN p1
                             ELSE f[k - 1][first_leaf(ctx, p1, done)]]
    BY <2>1
  <2> QED
    BY <2>2
<1>3. 0 \in I
  <2>1. 0 \in 0..n
    OBVIOUS
  <2> QED
    BY <1>2, <2>1
<1>4. \A k \in 0..(n - 1) : k \in I => k + 1 \in I
  <2> SUFFICES ASSUME NEW k \in 0..(n - 1), k \in I PROVE k + 1 \in I
    OBVIOUS
  <2>1. k + 1 \in 0..n /\ k + 1 # 0 /\ (k + 1) - 1 = k
    OBVIOUS
  <2>2. \A q \in B \ done : f[k + 1][q] \in B \ done
    BY <1>1, <1>2, <2>1
  <2> QED
    BY <2>1, <2>2
<1> HIDE DEF I
<1>5. \A k \in 0..n : k \in I
  BY <1>3, <1>4, InductTo
<1>6. n \in I
  BY <1>5
<1> QED
  BY <1>6 DEF I, B

\* The order with the next battery of precedence_order at its end.
next_of(ctx, sofar) ==
  LET batteries == ToSet(ctx.pending)
      done == ToSet(sofar)
      descend[depth \in 0..Len(ctx.pending)] ==
        [p \in batteries |->
           IF depth = 0 \/ leaves_for(ctx, p, done) = {} THEN p
           ELSE descend[depth - 1][first_leaf(ctx, p, done)]]
      open == only(ctx.pending, batteries \ done)
  IN  Append(sofar, descend[Len(ctx.pending)][Head(open)])

\* A list without repetitions has as many elements as places.
LEMMA PendingCount ==
  ASSUME NEW S, NEW u \in Seq(S), NoRepeats(u)
  PROVE  IsFiniteSet(ToSet(u)) /\ Cardinality(ToSet(u)) = Len(u)
<1>1. Len(u) \in Nat /\ DOMAIN u = 1..Len(u)
  OBVIOUS
<1>2. u = [i \in 1..Len(u) |-> u[i]]
  OBVIOUS
<1>3. ToSet(u) = {u[i] : i \in 1..Len(u)}
  BY <1>1 DEF ToSet
<1>4. u \in Bijection(1..Len(u), ToSet(u))
  BY <1>1, <1>2, <1>3 DEF Bijection, Injection, Surjection, IsInjective, NoRepeats
<1>5. IsFiniteSet(1..Len(u)) /\ Cardinality(1..Len(u)) = Len(u)
  BY <1>1, FS_Interval
<1>6. ExistsBijection(1..Len(u), ToSet(u))
  BY <1>4 DEF ExistsBijection
<1> QED
  BY <1>5, <1>6, FS_Bijection

\* u has k of the pending batteries, no two the same.
Sorted(ctx, k, u) ==
  u \in Seq(ToSet(ctx.pending)) /\ IsFiniteSet(ToSet(u)) /\ Cardinality(ToSet(u)) = k

\* The next battery is a new one.
LEMMA NextKeeps ==
  ASSUME NEW ctx, Setting(ctx), Backed(ctx), NEW k \in 0..(Len(ctx.pending) - 1), NEW u,
         Sorted(ctx, k, u)
  PROVE  Sorted(ctx, k + 1, next_of(ctx, u))
<1> DEFINE B == ToSet(ctx.pending)
           done == ToSet(u)
           n == Len(ctx.pending)
           open == only(ctx.pending, B \ done)
           descend == CHOOSE f : f = [depth \in 0..n |->
             [p \in B |-> IF depth = 0 \/ leaves_for(ctx, p, done) = {} THEN p
                          ELSE f[depth - 1][first_leaf(ctx, p, done)]]]
<1>1. ctx.pending \in Seq(B) /\ n \in Nat
  BY DEF Setting
<1>2. Cardinality(B) = n /\ IsFiniteSet(B)
  BY <1>1, PendingCount DEF Setting
<1>3. next_of(ctx, u) = Append(u, descend[n][Head(open)])
  BY DEF next_of
<1>4. \E f : f = [depth \in 0..n |->
             [p \in B |-> IF depth = 0 \/ leaves_for(ctx, p, done) = {} THEN p
                          ELSE f[depth - 1][first_leaf(ctx, p, done)]]]
  <2>1. \E f : Descent(ctx, done, B, n, f)
    BY <1>1, DescentExists
  <2> QED
    BY <2>1 DEF Descent
<1>5. Descent(ctx, done, B, n, descend)
  <2>1. descend = [depth \in 0..n |->
             [p \in B |-> IF depth = 0 \/ leaves_for(ctx, p, done) = {} THEN p
                          ELSE descend[depth - 1][first_leaf(ctx, p, done)]]]
    BY <1>4
  <2> HIDE DEF descend
  <2> QED
    BY <2>1 DEF Descent
<1> HIDE DEF descend, B
<1>6. open \in Seq(B) /\ ToSet(open) = B \cap (B \ done)
  BY <1>1, OnlyElements DEF B
<1> HIDE DEF open
<1>7. /\ u \in Seq(B) /\ IsFiniteSet(done) /\ Cardinality(done) = k
  BY DEF Sorted, B
<1>8. B \ done # {}
  <2> SUFFICES ASSUME B \subseteq done PROVE FALSE
    OBVIOUS
  <2>1. B \in SUBSET done
    OBVIOUS
  <2>2. Cardinality(B) <= Cardinality(done)
    BY <1>7, <2>1, FS_Subset
  <2> QED
    BY <1>1, <1>2, <1>7, <2>2
<1>9. Head(open) \in B \ done
  <2>1. open # <<>>
    BY <1>6, <1>8 DEF ToSet
  <2>2. Head(open) \in ToSet(open)
    <3>1. 1 \in DOMAIN open /\ Head(open) = open[1]
      BY <1>6, <2>1
    <3> QED
      BY <3>1 DEF ToSet
  <2> QED
    BY <1>6, <2>2
<1> DEFINE q == descend[n][Head(open)]
<1>10. q \in B \ done
  BY <1>1, <1>5, <1>9, DescentStays DEF B
<1> HIDE DEF q
<1>11. Append(u, q) \in Seq(B) /\ ToSet(Append(u, q)) = done \cup {q}
  BY <1>7, <1>10, AppendElements
<1>12. IsFiniteSet(done \cup {q}) /\ Cardinality(done \cup {q}) = k + 1
  BY <1>7, <1>10, FS_AddElement
<1>13. next_of(ctx, u) = Append(u, q)
  BY <1>3 DEF q
<1> QED
  BY <1>11, <1>12, <1>13 DEF Sorted, B

\* order[k] is the first k batteries of the order of precedence.
OrderOf(ctx, n, g) == g = [k \in 0..n |-> IF k = 0 THEN <<>> ELSE next_of(ctx, g[k - 1])]

\* The order of precedence exists, for any number of batteries.
LEMMA OrderExists ==
  ASSUME NEW ctx
  PROVE  \A n \in Nat : \E g : OrderOf(ctx, n, g)
<1> DEFINE I == {n \in Nat : \E g : OrderOf(ctx, n, g)}
<1>1. 0 \in I
  <2>1. OrderOf(ctx, 0, [k \in 0..0 |-> <<>>])
    <3>1. \A k \in 0..0 : k = 0
      OBVIOUS
    <3> QED
      BY <3>1 DEF OrderOf
  <2> QED
    BY <2>1
<1>2. ASSUME NEW n \in I PROVE n + 1 \in I
  <2>1. PICK g : OrderOf(ctx, n, g)
    BY <1>2
  <2>2. n \in Nat /\ n + 1 \in Nat
    BY <1>2
  <2> DEFINE h == [k \in 0..(n + 1) |-> IF k = n + 1 THEN next_of(ctx, g[n]) ELSE g[k]]
  <2>3. ASSUME NEW k \in 0..(n + 1)
        PROVE  h[k] = IF k = 0 THEN <<>> ELSE next_of(ctx, h[k - 1])
    <3>1. CASE k = n + 1
      <4>1. n \in 0..(n + 1) /\ n # n + 1 /\ k - 1 = n /\ k # 0
        BY <2>2, <3>1
      <4>2. h[n] = g[n] /\ h[k] = next_of(ctx, g[n])
        BY <3>1, <4>1
      <4> HIDE DEF h
      <4> QED
        BY <4>1, <4>2
    <3>2. CASE k # n + 1
      <4>1. k \in 0..n
        BY <2>2, <3>2
      <4>2. h[k] = g[k]
        BY <3>2
      <4>3. g[k] = IF k = 0 THEN <<>> ELSE next_of(ctx, g[k - 1])
        BY <2>1, <4>1 DEF OrderOf
      <4>4. k # 0 => k - 1 \in 0..(n + 1) /\ k - 1 # n + 1
        BY <2>2, <4>1
      <4>5. k # 0 => h[k - 1] = g[k - 1]
        BY <4>4
      <4> HIDE DEF h
      <4> QED
        BY <4>2, <4>3, <4>5
    <3> QED
      BY <3>1, <3>2
  <2>4. h = [k \in 0..(n + 1) |-> h[k]]
    OBVIOUS
  <2> HIDE DEF h
  <2>5. OrderOf(ctx, n + 1, h)
    BY <2>3, <2>4 DEF OrderOf
  <2> QED
    BY <2>2, <2>5
<1> HIDE DEF I
<1>3. I = Nat
  <2>1. I \in SUBSET Nat
    BY DEF I
  <2> QED
    BY <1>1, <1>2, <2>1, Induct
<1> QED
  BY <1>3 DEF I

\* The order of precedence has every battery.
LEMMA PrecedenceOrder ==
  ASSUME NEW ctx, Setting(ctx), Backed(ctx)
  PROVE  /\ precedence_order(ctx) \in Seq(ToSet(ctx.pending))
         /\ ToSet(precedence_order(ctx)) = ToSet(ctx.pending)
<1> DEFINE n == Len(ctx.pending)
           B == ToSet(ctx.pending)
           order == CHOOSE g : g = [k \in 0..n |-> IF k = 0 THEN <<>> ELSE next_of(ctx, g[k - 1])]
<1>1. ctx.pending \in Seq(B) /\ n \in Nat
  BY DEF Setting
<1>2. Cardinality(B) = n /\ IsFiniteSet(B)
  BY <1>1, PendingCount DEF Setting
<1>3. precedence_order(ctx) = order[n]
  BY DEF precedence_order, next_of
<1>4. \E g : g = [k \in 0..n |-> IF k = 0 THEN <<>> ELSE next_of(ctx, g[k - 1])]
  <2>1. \E g : OrderOf(ctx, n, g)
    BY <1>1, OrderExists
  <2> QED
    BY <2>1 DEF OrderOf
<1>5. order = [k \in 0..n |-> IF k = 0 THEN <<>> ELSE next_of(ctx, order[k - 1])]
  BY <1>4
<1> HIDE DEF order
<1> DEFINE I == {k \in 0..n : Sorted(ctx, k, order[k])}
<1>6. 0 \in I
  <2>1. 0 \in 0..n /\ order[0] = <<>>
    BY <1>1, <1>5
  <2>2. <<>> \in Seq(B) /\ ToSet(<<>>) = {}
    BY DEF ToSet
  <2> QED
    BY <2>1, <2>2, FS_EmptySet DEF Sorted
<1>7. \A k \in 0..(n - 1) : k \in I => k + 1 \in I
  <2> SUFFICES ASSUME NEW k \in 0..(n - 1), k \in I PROVE k + 1 \in I
    OBVIOUS
  <2>1. k + 1 \in 0..n /\ k + 1 # 0 /\ (k + 1) - 1 = k
    BY <1>1
  <2>2. order[k + 1] = next_of(ctx, order[k])
    BY <1>5, <2>1
  <2>3. Sorted(ctx, k + 1, order[k + 1])
    BY <2>2, NextKeeps
  <2> QED
    BY <2>1, <2>3
<1> HIDE DEF I
<1>8. \A k \in 0..n : k \in I
  BY <1>1, <1>6, <1>7, InductTo
<1>9. n \in I
  BY <1>1, <1>8
<1>10. order[n] \in Seq(B) /\ IsFiniteSet(ToSet(order[n])) /\ Cardinality(ToSet(order[n])) = n
  BY <1>9 DEF I, Sorted
<1>11. ToSet(order[n]) \in SUBSET B
  BY <1>10, SeqElements
<1>12. ToSet(order[n]) = B
  BY <1>2, <1>10, <1>11, FS_Subset
<1> QED
  BY <1>3, <1>10, <1>12

\* Stage B, in either reading, ends with its invariant for all batteries; in
\* reading i the struck are defused.
LEMMA DefenseRunning ==
  ASSUME NEW ctx, Setting(ctx), Backed(ctx)
  PROVE  /\ Running(ctx, resolve_defense(ctx), ToSet(ctx.pending))
         /\ IntermezzoReading = "i" => Defused(ctx, resolve_defense(ctx))
<1>1. CASE IntermezzoReading = "ii"
  BY <1>1, PrecedenceOrder, ResolvedRunning DEF resolve_defense
<1>2. CASE IntermezzoReading # "ii"
  BY <1>2, AttackerOrder, ResolvedRunning DEF resolve_defense, resolve_defense_seq
<1> QED
  BY <1>1, <1>2
-----------------------------------------------------------------------------
(***************************************************************************)
(* What stages C and D compute, named.                                     *)
(***************************************************************************)
\* The promotions, the board, the displaced tokens, their identities and the
\* dead of stages C and D.
Chosen(progs, mv)        == promotion_choices(progs, token_ids(mv.survivors))
NewBoard(progs, mv, db)   == apply_promotions(db.occupancy, Chosen(progs, mv))
Displaced(progs, mv, db)  == compute_displaced_tokens(mv.survivors, db, NewBoard(progs, mv, db))
MovedIds(progs, mv, db)   == {t.id : t \in Displaced(progs, mv, db)}
Dead(mv, db)              == captured_ids(db) \cup {m.token.id : m \in mv.annihilated}

\* The reservations that survive the phase, with the tokens of its start.
Left(s, progs, mv, effect, db) ==
  update_reservations(effect, s.phase, MovedIds(progs, mv, db), Dead(mv, db), cancellations(progs))

\* They with the tokens of its end.
Kept(s, progs, mv, effect, db) ==
  refresh_reservation_tokens(Left(s, progs, mv, effect, db), NewBoard(progs, mv, db))

\* The kings that may cool.
Kings(s, mv, db) ==
  IF KingCaptureCooldown THEN king_capture_candidates(s.board, mv.survivors, db) ELSE {}

\* The cooldown before the safety valve.
Cooled(s, progs, mv, db) ==
  compute_cooldown(Displaced(progs, mv, db), recapturer_ids(db), Kings(s, mv, db), NewBoard(progs, mv, db))

\* To cool fewer tokens takes no legal program away.
LEMMA FewerCooled ==
  ASSUME NEW s, NEW x, x.board = s.board, x.rights = s.rights, x.res = s.res,
         x.cooldown \subseteq s.cooldown, NEW c, has_any_legal_program(s, c)
  PROVE  has_any_legal_program(x, c)
<1>1. CASE can_displace(s, c)
  BY <1>1 DEF can_displace, has_any_legal_program
<1>2. CASE CancellationEnabled /\ s.res[c] # <<>>
  BY <1>2 DEF has_any_legal_program
<1>3. CASE \E d \in live(s.board) \ s.cooldown, q \in live(s.board) :
             d.color = c /\ q.color = c /\ d # q /\ can_reserve(s, d, q, s.board[q])
  BY <1>3 DEF has_any_legal_program, can_reserve
<1> QED
  BY <1>1, <1>2, <1>3 DEF has_any_legal_program

\* The safety valve is sound: a colour whose king is not cooled has a legal
\* program. Beside the king is a square to step onto, or a piece of its own on it
\* that the king may defend.
LEMMA FreeKing ==
  ASSUME NEW s, SoundBoard(s.board), NEW c \in Color,
         NEW k \in king_token(s, c), k \notin s.cooldown
  PROVE  has_any_legal_program(s, c)
<1> DEFINE q == s.board[k]
           d == IF q[1] < MaxFile THEN <<1, 0>> ELSE <<-1, 0>>
           to == Shift(q, d, 1)
<1>1. k \in live(s.board) /\ k.color = c /\ k.typ = "k"
  BY DEF king_token
<1>2. q \in Squares
  BY <1>1 DEF SoundBoard
<1>3. /\ d \in KingDeltas /\ d[1] \in {-1, 1} /\ d[2] = 0
      /\ q[1] \in 0..MaxFile /\ q[2] \in 0..MaxRank /\ q = <<q[1], q[2]>>
      /\ d[1] = 1 => q[1] < MaxFile
      /\ d[1] = -1 => q[1] = MaxFile
  BY <1>2, BoardAssumption DEF Squares, Files, Ranks, KingDeltas
<1> HIDE DEF q, d
<1>4. to = <<q[1] + d[1], q[2]>>
  <2>1. q[1] \in Int /\ q[2] \in Int /\ d[1] \in Int
    BY <1>3, BoardAssumption
  <2>2. 1 * d[1] = d[1] /\ 1 * d[2] = 0
    BY <1>3, <2>1
  <2> QED
    BY <1>3, <2>1, <2>2 DEF Shift
<1>5. to \in Squares /\ to # q
  BY <1>3, <1>4, BoardAssumption DEF Squares, Files, Ranks
<1>6. <<to[1] - q[1], to[2] - q[2]>> \in KingDeltas
  <2>1. to[1] - q[1] = d[1] /\ to[2] - q[2] = 0
    BY <1>3, <1>4, BoardAssumption
  <2> QED
    BY <1>3, <2>1 DEF KingDeltas
<1> HIDE DEF to
<1>7. CASE to \in held(s.board, c)
  <2>1. PICK x \in live(s.board) : x.color = c /\ s.board[x] = to
    BY <1>7 DEF held
  <2>2. x # k
    BY <1>5, <2>1 DEF q
  <2>3. can_reserve(s, k, x, s.board[x])
    BY <1>1, <1>6, <2>1 DEF can_reserve, capturing_pattern_at, q
  <2> QED
    BY <1>1, <2>1, <2>2, <2>3 DEF has_any_legal_program
<1>8. CASE to \notin held(s.board, c)
  <2>1. Line(q, d, 1) \in king_step_trajectories(q, held(s.board, c))
    BY <1>3, <1>5, <1>8 DEF king_step_trajectories, to
  <2>2. pseudo_legal_trajectories(s.board, k) # {}
    BY <1>1, <2>1 DEF pseudo_legal_trajectories, q
  <2> QED
    BY <1>1, <2>2 DEF has_any_legal_program, can_displace
<1> QED
  BY <1>7, <1>8

\* What stages C and D do to the parts of the state.
LEMMA ClosureIs ==
  ASSUME NEW s, NEW progs, NEW mv, NEW effect, NEW db
  PROVE  LET r    == stages_C_D(s, progs, mv, effect, db)
             kept == Kept(s, progs, mv, effect, db)
         IN  /\ r.state.board = NewBoard(progs, mv, db)
             /\ r.state.res = [c \in Color |-> only(kept, {rho \in ToSet(kept) : rho.defender.color = c})]
             /\ r.state.rights = update_castling_rights(s.rights, s.board, MovedIds(progs, mv, db))
             /\ r.state.cooldown \subseteq Cooled(s, progs, mv, db)
             /\ \A t \in Cooled(s, progs, mv, db) : t.typ # "k" => t \in r.state.cooldown
             /\ r.state.phase = s.phase + 1
             /\ r.state.nu \in {0, s.nu + 1}
             /\ r.outcome \in {"ongoing", "white_wins", "black_wins", "draw"}
             /\ r.outcome = "ongoing" => ~ (r.state.nu >= Horizon)
             /\ r.outcome = "ongoing" => \A c \in Color : has_king(r.state.board, c)
             /\ \A k \in r.state.cooldown : k.typ = "k" => has_any_legal_program(r.state, k.color)
             /\ r.trace.survivors = ToSet(mv.survivors)
             /\ r.trace.executing = mv.executing
             /\ r.trace.annihilated = mv.annihilated
             /\ r.trace.captured = db.captured
             /\ r.trace.fired = db.fired
<1> DEFINE board  == NewBoard(progs, mv, db)
           moved  == MovedIds(progs, mv, db)
           dead   == Dead(mv, db)
           kept   == Kept(s, progs, mv, effect, db)
           res    == [c \in Color |-> only(kept, {rho \in ToSet(kept) : rho.defender.color = c})]
           rights == update_castling_rights(s.rights, s.board, moved)
           kings  == Kings(s, mv, db)
           cooled == Cooled(s, progs, mv, db)
           after  == [board |-> board, cooldown |-> cooled, res |-> res, rights |-> rights,
                      ledger |-> s.ledger, nu |-> s.nu, phase |-> s.phase + 1]
           cooldown == IF kings = {} THEN cooled ELSE relax_king_cooldown_if_stranding(after)
           pawn_moved == \E m \in ToSet(mv.survivors) :
                           m.token.typ = "p" /\ m.token.id \notin captured_ids(db)
           nu     == update_no_progress_counter(s.nu, dead # {}, pawn_moved)
           key    == public_position_key(board, cooldown)
           ledger == update_repetition_ledger(s.ledger, key)
           kings_say == detect_terminal(board)
           outcome1  == IF kings_say = "ongoing" /\ (ledger[key] >= 3 \/ nu >= Horizon)
                        THEN "draw" ELSE kings_say
           trace1 == [fizzled |-> mv.fizzled, executing |-> mv.executing,
                      events |-> mv.events, annihilated |-> mv.annihilated,
                      survivors |-> ToSet(mv.survivors),
                      captured |-> db.captured, fired |-> db.fired,
                      promoted |-> {x[1] : x \in Chosen(progs, mv)},
                      cancelled |-> cancellations(progs)]
<1>1. stages_C_D(s, progs, mv, effect, db) =
        [state |-> [after EXCEPT !.cooldown = cooldown, !.ledger = ledger, !.nu = nu],
         outcome |-> outcome1, trace |-> trace1]
  BY DEF stages_C_D, Chosen, NewBoard, Displaced, MovedIds, Dead, Left, Kept, Kings, Cooled
<1>2. cooldown \subseteq cooled /\ \A t \in cooled : t.typ # "k" => t \in cooldown
  <2>1. after.cooldown = cooled
    OBVIOUS
  <2> HIDE DEF after
  <2> QED
    BY <2>1 DEF relax_king_cooldown_if_stranding
<1>3. nu \in {0, s.nu + 1}
  BY DEF update_no_progress_counter
<1>4. /\ kings_say \in {"ongoing", "white_wins", "black_wins", "draw"}
      /\ kings_say = "ongoing" => \A c \in Color : has_king(board, c)
  <2> HIDE DEF board
  <2> QED
    BY DEF detect_terminal, Color
<1>5. \A k \in cooldown : k.typ = "k" => has_any_legal_program(after, k.color)
  <2>1. CASE kings = {}
    <3>1. cooldown = cooled
      BY <2>1
    <3>2. \A k \in cooled : k.typ # "k"
      <4> HIDE DEF board, moved, dead, kept, res, rights, nu, key
      <4> QED
        BY <2>1 DEF Cooled, compute_cooldown
    <3> QED
      BY <3>1, <3>2
  <2>2. CASE kings # {}
    <3>1. after.cooldown = cooled /\ cooldown = relax_king_cooldown_if_stranding(after)
      BY <2>2
    <3> HIDE DEF after, cooldown
    <3> QED
      BY <3>1 DEF relax_king_cooldown_if_stranding
  <2> QED
    BY <2>1, <2>2
<1>6. /\ after.board = board /\ after.rights = rights /\ after.res = res /\ after.cooldown = cooled
  OBVIOUS
<1> HIDE DEF board, moved, dead, kept, res, rights, kings, cooled, cooldown, nu, ledger, key, kings_say
<1>7. /\ outcome1 \in {"ongoing", "white_wins", "black_wins", "draw"}
      /\ outcome1 = "ongoing" => ~ (nu >= Horizon) /\ kings_say = "ongoing"
  BY <1>4
<1> DEFINE st == [after EXCEPT !.cooldown = cooldown, !.ledger = ledger, !.nu = nu]
<1>8. /\ st.board = board /\ st.res = res /\ st.rights = rights /\ st.cooldown = cooldown
      /\ st.phase = s.phase + 1 /\ st.nu = nu
  OBVIOUS
<1>9. /\ trace1.survivors = ToSet(mv.survivors) /\ trace1.executing = mv.executing
      /\ trace1.annihilated = mv.annihilated /\ trace1.captured = db.captured /\ trace1.fired = db.fired
  OBVIOUS
<1> HIDE DEF after
<1>10. \A k \in st.cooldown : k.typ = "k" => has_any_legal_program(st, k.color)
  <2> HIDE DEF st
  <2> QED
    BY <1>2, <1>5, <1>8, <1>6, FewerCooled
<1> HIDE DEF st, trace1, outcome1
<1> DEFINE r == [state |-> st, outcome |-> outcome1, trace |-> trace1]
<1>11. stages_C_D(s, progs, mv, effect, db) = r
  BY <1>1 DEF st
<1>12. r.state = st /\ r.outcome = outcome1 /\ r.trace = trace1
  OBVIOUS
<1> HIDE DEF r
<1> QED
  BY <1>2, <1>3, <1>4, <1>7, <1>8, <1>9, <1>10, <1>11, <1>12 DEF board, moved, kept, res, rights, cooled

\* The parts of a phase: what stages F and A come to, the reservations in effect,
\* the context of stage B and what it comes to.
Moves(s, w, b) == stages_F_A(s.board, expand_program(s, "W", w) \o expand_program(s, "B", b))
Effect(s, w, b) ==
  reservations_in_effect(s, new_reservations(s.phase, "W", w) \o new_reservations(s.phase, "B", b))
Scene(s, w, b) ==
  context(s, Moves(s, w, b).executing, Moves(s, w, b).survivors, Effect(s, w, b))
Resolved(s, w, b) == resolve_defense(Scene(s, w, b))

\* phi runs stages C and D on these parts.
LEMMA PhiIs ==
  ASSUME NEW s, NEW w, NEW b
  PROVE  phi(s, w, b) = stages_C_D(s, w \o b, Moves(s, w, b), Effect(s, w, b), Resolved(s, w, b))
  BY DEF phi, Moves, Effect, Scene, Resolved

-----------------------------------------------------------------------------
(***************************************************************************)
(* Reservations in effect.                                                 *)
(***************************************************************************)
\* The reservations a colour may have in a phase: distinct tokens of its own,
\* the defender free to fire.
Held(s, c) ==
  {rho \in [defender : own_tokens(s, c), protege : own_tokens(s, c), age : Nat \X Nat] :
     rho.defender # rho.protege /\ rho.defender \notin s.cooldown}

Pairs(s) == Held(s, "W") \cup Held(s, "B")

\* Of one colour, the oldest reservation comes first.
Aged(list) ==
  \A i, j \in DOMAIN list :
    i < j /\ list[i].defender.color = list[j].defender.color => is_older(list[i].age, list[j].age)

\* Older reservations before younger ones are in order of age.
LEMMA ConcatAged ==
  ASSUME NEW S, NEW u \in Seq(S), NEW v \in Seq(S), Aged(u), Aged(v),
         \A x \in ToSet(u), y \in ToSet(v) :
           x.defender.color = y.defender.color => is_older(x.age, y.age)
  PROVE  Aged(u \o v)
<1> DEFINE m == Len(u)
           z == u \o v
<1>1. m \in Nat /\ Len(v) \in Nat /\ DOMAIN u = 1..m /\ DOMAIN v = 1..Len(v) /\ DOMAIN z = 1..(m + Len(v))
  OBVIOUS
<1>2. \A i \in 1..(m + Len(v)) : i <= m => i \in 1..m /\ z[i] = u[i]
  OBVIOUS
<1>3. \A i \in 1..(m + Len(v)) : ~ (i <= m) => i - m \in 1..Len(v) /\ z[i] = v[i - m]
  OBVIOUS
<1>4. (\A i \in 1..m : u[i] \in ToSet(u)) /\ (\A i \in 1..Len(v) : v[i] \in ToSet(v))
  BY <1>1 DEF ToSet
<1> HIDE DEF z, m
<1>5. ASSUME NEW i \in 1..(m + Len(v)), NEW j \in 1..(m + Len(v)), i < j,
             z[i].defender.color = z[j].defender.color
      PROVE  is_older(z[i].age, z[j].age)
  <2>1. CASE i <= m /\ j <= m
    BY <2>1, <1>1, <1>2, <1>5 DEF Aged
  <2>2. CASE i <= m /\ ~ (j <= m)
    BY <2>2, <1>2, <1>3, <1>4, <1>5
  <2>3. CASE ~ (i <= m)
    <3>1. ~ (j <= m) /\ i - m < j - m
      BY <2>3, <1>1, <1>5
    <3>2. i - m \in DOMAIN v /\ j - m \in DOMAIN v /\ z[i] = v[i - m] /\ z[j] = v[j - m]
      BY <2>3, <3>1, <1>1, <1>3
    <3> QED
      BY <3>1, <3>2, <1>5 DEF Aged
  <2> QED
    BY <2>1, <2>2, <2>3
<1> QED
  BY <1>1, <1>5 DEF Aged, z

\* A selection keeps the order of age.
LEMMA OnlyAged ==
  ASSUME NEW S, NEW list \in Seq(S), NEW T, Aged(list)
  PROVE  Aged(only(list, T))
<1>1. PICK f : Picked(list, only(list, T), f)
  BY OnlyPlaces
<1> QED
  BY <1>1 DEF Picked, Aged

\* The age of a reservation that colour c declares: the place of its action, apart
\* from those of the other colour.
Numbered(rho, c) == rho.age[2] \in age_offset(c)..(age_offset(c) + N - 1)

\* The reservations that a legal program declares are the phase's, in order, of
\* tokens free to fire (L4).
LEMMA FreshFacts ==
  ASSUME NEW s, s.phase \in Nat, NEW c \in Color,
         NEW prog \in Seq(actions(s, c)), is_legal_program(s, c, prog)
  PROVE  LET fresh == new_reservations(s.phase, c, prog)
         IN  /\ fresh \in Seq(Held(s, c))
             /\ \A rho \in ToSet(fresh) : rho.age[1] = s.phase /\ Numbered(rho, c)
             /\ Aged(fresh)
<1> DEFINE n == Len(prog)
           rho(i) == [defender |-> prog[i].defender, protege |-> prog[i].protege,
                      age |-> <<s.phase, age_offset(c) + i - 1>>]
           part(i) == IF prog[i].kind = "reserve" THEN <<rho(i)>> ELSE <<>>
           ss == [i \in 1..n |-> part(i)]
           fresh == new_reservations(s.phase, c, prog)
<1>1. n \in Nat /\ DOMAIN prog = 1..n /\ \A i \in 1..n : prog[i] \in actions(s, c)
  OBVIOUS
<1>2. age_offset(c) \in Nat
  BY DEF age_offset, BlackAgeOffset
<1>3. ASSUME NEW i \in 1..n, prog[i].kind = "reserve"
      PROVE  /\ rho(i) \in Held(s, c)
             /\ rho(i).age[1] = s.phase /\ rho(i).age[2] = age_offset(c) + i - 1
  <2>1. /\ prog[i].defender \in own_tokens(s, c) /\ prog[i].protege \in own_tokens(s, c)
        /\ prog[i].defender # prog[i].protege
    BY <1>1, <1>3, ActionKinds
  <2>2. prog[i].defender \notin s.cooldown
    <3>1. actors_of(s, c, prog[i]) = {prog[i].defender}
      BY <1>3 DEF actors_of
    <3>2. actors_of(s, c, prog[i]) \cap s.cooldown = {}
      BY <1>1 DEF is_legal_program, check_partial_program, L4_cooldown_respected
    <3> QED
      BY <3>1, <3>2
  <2>3. <<s.phase, age_offset(c) + i - 1>> \in Nat \X Nat
    BY <1>1, <1>2
  <2> QED
    BY <2>1, <2>2, <2>3 DEF Held
<1>4. fresh = FlattenSeq(ss)
  BY <1>1 DEF new_reservations
<1> HIDE DEF rho, fresh, n
<1>5. \A i \in 1..n : ss[i] \in Seq(Held(s, c)) /\ ss[i] = part(i)
  BY <1>3
<1> HIDE DEF ss
<1>6. ss \in Seq(Seq(Held(s, c))) /\ Len(ss) = n
  BY <1>1, <1>5 DEF ss
<1>7. fresh \in Seq(Held(s, c))
  BY <1>4, <1>6, FlattenElements
<1>8. PICK h : Places(ss, fresh, n, h)
  BY <1>4, <1>6, FlattenPlaces
<1>9. ASSUME NEW x \in 1..Len(fresh)
      PROVE  /\ h[x][1] \in 1..n /\ h[x][2] = 1
             /\ prog[h[x][1]].kind = "reserve" /\ fresh[x] = rho(h[x][1])
  <2>1. h[x][1] \in 1..n /\ h[x][2] \in 1..Len(ss[h[x][1]]) /\ fresh[x] = ss[h[x][1]][h[x][2]]
    BY <1>8 DEF Places
  <2>2. ss[h[x][1]] = part(h[x][1])
    BY <2>1, <1>5
  <2>3. prog[h[x][1]].kind = "reserve"
    <3> SUFFICES ASSUME prog[h[x][1]].kind # "reserve" PROVE FALSE
      OBVIOUS
    <3>1. Len(ss[h[x][1]]) = 0
      BY <2>2
    <3> QED
      BY <2>1, <3>1
  <2>4. ss[h[x][1]] = <<rho(h[x][1])>>
    BY <2>2, <2>3
  <2>5. h[x][2] = 1
    BY <2>1, <2>4
  <2> QED
    BY <2>1, <2>3, <2>4, <2>5
<1>10. DOMAIN fresh = 1..Len(fresh) /\ Len(fresh) \in Nat
  BY <1>7
<1>11. \A r \in ToSet(fresh) : r.age[1] = s.phase /\ Numbered(r, c)
  <2>1. n <= N
    BY DEF n, is_legal_program, L1_budget
  <2> SUFFICES ASSUME NEW x \in 1..Len(fresh)
               PROVE  fresh[x].age[1] = s.phase /\ Numbered(fresh[x], c)
    BY <1>10 DEF ToSet
  <2>2. h[x][1] \in 1..n /\ prog[h[x][1]].kind = "reserve" /\ fresh[x] = rho(h[x][1])
    BY <1>9
  <2>3. rho(h[x][1]).age[1] = s.phase /\ rho(h[x][1]).age[2] = age_offset(c) + h[x][1] - 1
    BY <1>3, <2>2
  <2> QED
    BY <1>1, <1>2, <2>1, <2>2, <2>3, RuleSetAssumption DEF Numbered
<1>12. ASSUME NEW x \in 1..Len(fresh), NEW y \in 1..Len(fresh), x < y
       PROVE  is_older(fresh[x].age, fresh[y].age)
  <2>1. Before(h[x], h[y])
    BY <1>8, <1>12 DEF Places
  <2>2. h[x][1] < h[y][1]
    <3>1. h[x][2] = 1 /\ h[y][2] = 1
      BY <1>9
    <3> QED
      BY <2>1, <3>1 DEF Before
  <2>3. fresh[x].age[1] = s.phase /\ fresh[x].age[2] = age_offset(c) + h[x][1] - 1
    <3>1. h[x][1] \in 1..n /\ prog[h[x][1]].kind = "reserve" /\ fresh[x] = rho(h[x][1])
      BY <1>9
    <3>2. rho(h[x][1]).age[1] = s.phase /\ rho(h[x][1]).age[2] = age_offset(c) + h[x][1] - 1
      BY <1>3, <3>1
    <3> QED
      BY <3>1, <3>2
  <2>4. fresh[y].age[1] = s.phase /\ fresh[y].age[2] = age_offset(c) + h[y][1] - 1
    <3>1. h[y][1] \in 1..n /\ prog[h[y][1]].kind = "reserve" /\ fresh[y] = rho(h[y][1])
      BY <1>9
    <3>2. rho(h[y][1]).age[1] = s.phase /\ rho(h[y][1]).age[2] = age_offset(c) + h[y][1] - 1
      BY <1>3, <3>1
    <3> QED
      BY <3>1, <3>2
  <2>5. \A o \in Nat, i, j \in 1..n : i < j => o + i - 1 < o + j - 1
    BY <1>1
  <2>6. fresh[x].age[2] < fresh[y].age[2]
    BY <1>2, <1>9, <2>2, <2>3, <2>4, <2>5
  <2> QED
    BY <2>3, <2>4, <2>6 DEF is_older
<1>13. Aged(fresh)
  BY <1>10, <1>12 DEF Aged
<1> QED
  BY <1>7, <1>11, <1>13 DEF fresh

\* The reservations in effect are in order of age: the standing ones of a colour
\* are of earlier phases than those it declares in this one.
LEMMA EffectFacts ==
  ASSUME NEW s, s.phase \in Nat, \A c \in Color : Standing(s, c),
         NEW w \in Seq(actions(s, "W")), is_legal_program(s, "W", w),
         NEW b \in Seq(actions(s, "B")), is_legal_program(s, "B", b)
  PROVE  LET effect == Effect(s, w, b)
         IN  /\ effect \in Seq(Pairs(s))
             /\ Aged(effect)
             /\ \A rho \in ToSet(effect) :
                  /\ rho.age[1] = s.phase \/ rho \in ToSet(s.res[rho.defender.color])
                  /\ rho.age[1] = s.phase => Numbered(rho, rho.defender.color)
                  /\ rho.age[1] \in 0..s.phase
<1> DEFINE fw == new_reservations(s.phase, "W", w)
           fb == new_reservations(s.phase, "B", b)
           z  == fw \o fb
           new(k) == only(z, {rho \in ToSet(z) : rho.defender.color = k})
           of(k) == s.res[k] \o new(k)
           P == Pairs(s)
<1>1. /\ fw \in Seq(Held(s, "W")) /\ Aged(fw)
      /\ \A rho \in ToSet(fw) : rho.age[1] = s.phase /\ Numbered(rho, "W")
      /\ fb \in Seq(Held(s, "B")) /\ Aged(fb)
      /\ \A rho \in ToSet(fb) : rho.age[1] = s.phase /\ Numbered(rho, "B")
  BY FreshFacts DEF Color
<1>2. Effect(s, w, b) = of("W") \o of("B")
  BY DEF Effect, reservations_in_effect
<1> HIDE DEF fw, fb
<1>3. \A c \in Color : Held(s, c) \subseteq P
  BY DEF Color, Pairs
<1>4. \A c \in Color : \A rho \in Held(s, c) :
        rho.defender.color = c /\ rho.age[1] \in Nat
  BY DEF Held, own_tokens
<1> HIDE DEF P
<1>5. fw \in Seq(P) /\ fb \in Seq(P) /\ z \in Seq(P)
  BY <1>1, <1>3 DEF Color
<1>6. /\ ToSet(z) = ToSet(fw) \cup ToSet(fb)
      /\ ToSet(fw) \subseteq Held(s, "W") /\ ToSet(fb) \subseteq Held(s, "B")
  BY <1>1, <1>5, ToSetOfConcat, SeqElements
<1>7. Aged(z)
  <2>1. \A x \in ToSet(fw), y \in ToSet(fb) : x.defender.color # y.defender.color
    BY <1>4, <1>6 DEF Color
  <2> QED
    BY <1>1, <1>5, <2>1, ConcatAged
<1>8. \A rho \in ToSet(z) : rho.age[1] = s.phase /\ Numbered(rho, rho.defender.color)
  BY <1>1, <1>4, <1>6 DEF Color
<1>9. ASSUME NEW c \in Color
      PROVE  /\ new(c) \in Seq(P) /\ Aged(new(c))
             /\ \A rho \in ToSet(new(c)) :
                  rho.defender.color = c /\ rho.age[1] = s.phase /\ Numbered(rho, c)
  <2>1. new(c) \in Seq(P) /\ ToSet(new(c)) = ToSet(z) \cap {rho \in ToSet(z) : rho.defender.color = c}
    <3> HIDE DEF z
    <3> QED
      BY <1>5, OnlyElements
  <2>2. Aged(new(c))
    <3> HIDE DEF z
    <3> QED
      BY <1>5, <1>7, OnlyAged
  <2> HIDE DEF new
  <2> QED
    BY <1>8, <2>1, <2>2
<1>10. ASSUME NEW c \in Color
       PROVE  /\ s.res[c] \in Seq(P) /\ Aged(s.res[c])
              /\ \A rho \in ToSet(s.res[c]) : rho.defender.color = c /\ rho.age[1] \in Nat /\ rho.age[1] < s.phase
  <2> DEFINE R == s.res[c]
             T == [defender : own_tokens(s, c), protege : own_tokens(s, c), age : Nat \X Nat]
  <2>1. /\ R \in Seq(T)
        /\ \A i \in DOMAIN R : /\ R[i].defender # R[i].protege
                               /\ R[i].defender \notin s.cooldown
                               /\ R[i].age[1] < s.phase
        /\ \A i, j \in DOMAIN R : i < j => is_older(R[i].age, R[j].age)
    BY DEF Standing
  <2>2. \A i \in DOMAIN R : R[i] \in T
    <3> HIDE DEF R, T
    <3> QED
      BY <2>1
  <2>3. \A i \in DOMAIN R : R[i] \in Held(s, c)
    BY <2>1, <2>2 DEF Held
  <2>4. R \in Seq(Held(s, c))
    <3> HIDE DEF R, T
    <3>1. DOMAIN R = 1..Len(R) /\ Len(R) \in Nat
      BY <2>1
    <3>2. R = [i \in 1..Len(R) |-> R[i]]
      BY <2>1
    <3> QED
      BY <2>3, <3>1, <3>2
  <2>5. Aged(R)
    BY <2>1 DEF Aged
  <2>6. \A rho \in ToSet(R) : rho \in Held(s, c) /\ rho.age[1] < s.phase
    BY <2>1, <2>3 DEF ToSet
  <2> HIDE DEF R, T
  <2>7. R \in Seq(P)
    BY <1>3, <2>4
  <2> QED
    BY <1>4, <2>5, <2>6, <2>7 DEF R
<1>11. s.phase \in Nat
  OBVIOUS
<1> HIDE DEF new
<1>12. ASSUME NEW c \in Color
       PROVE  /\ of(c) \in Seq(P) /\ Aged(of(c))
              /\ \A rho \in ToSet(of(c)) :
                   /\ rho.defender.color = c
                   /\ rho.age[1] = s.phase \/ rho \in ToSet(s.res[c])
                   /\ rho.age[1] = s.phase => Numbered(rho, c)
                   /\ rho.age[1] \in 0..s.phase
  <2>1. \A x \in ToSet(s.res[c]), y \in ToSet(new(c)) : is_older(x.age, y.age)
    BY <1>9, <1>10 DEF is_older
  <2>2. s.res[c] \in Seq(P) /\ new(c) \in Seq(P) /\ Aged(s.res[c]) /\ Aged(new(c))
    BY <1>9, <1>10
  <2>3. Aged(of(c))
    BY <2>1, <2>2, ConcatAged
  <2>4. ToSet(of(c)) = ToSet(s.res[c]) \cup ToSet(new(c))
    BY <2>2, ToSetOfConcat
  <2>5. of(c) \in Seq(P)
    BY <2>2
  <2> HIDE DEF of
  <2>6. \A rho \in ToSet(s.res[c]) : rho.age[1] \in 0..s.phase
    BY <1>10, <1>11
  <2> QED
    BY <1>9, <1>10, <1>11, <2>3, <2>4, <2>5, <2>6
<1> HIDE DEF of
<1> DEFINE e == of("W") \o of("B")
<1>13. /\ of("W") \in Seq(P) /\ Aged(of("W")) /\ of("B") \in Seq(P) /\ Aged(of("B"))
       /\ \A x \in ToSet(of("W")), y \in ToSet(of("B")) : x.defender.color # y.defender.color
  BY <1>12 DEF Color
<1>14. e \in Seq(P) /\ Aged(e) /\ ToSet(e) = ToSet(of("W")) \cup ToSet(of("B"))
  BY <1>13, ConcatAged, ToSetOfConcat
<1> HIDE DEF e
<1>15. \A rho \in ToSet(e) : /\ rho.age[1] = s.phase \/ rho \in ToSet(s.res[rho.defender.color])
                             /\ rho.age[1] = s.phase => Numbered(rho, rho.defender.color)
                             /\ rho.age[1] \in 0..s.phase
  BY <1>12, <1>14 DEF Color
<1> QED
  BY <1>2, <1>14, <1>15 DEF e, P

-----------------------------------------------------------------------------
(***************************************************************************)
(* A phase.                                                                *)
(***************************************************************************)
\* A list of at most N actions of a colour's own.
LEMMA ProgramsOf ==
  ASSUME NEW s, NEW c, NEW A, NEW p \in UNION {[1..k -> A \cap actions(s, c)] : k \in 0..N}
  PROVE  p \in Seq(actions(s, c))
<1>1. N \in Nat
  BY RuleSetAssumption
<1>2. PICK k \in 0..N : p \in [1..k -> A \cap actions(s, c)]
  OBVIOUS
<1>3. k \in Nat
  BY <1>1, <1>2
<1>4. p \in [1..k -> actions(s, c)]
  BY <1>2
<1> QED
  BY <1>3, <1>4

\* A well-formed state and two legal programs for it.
Playable(s, w, b) ==
  /\ WellFormed(s)
  /\ w \in Seq(actions(s, "W")) /\ is_legal_program(s, "W", w)
  /\ b \in Seq(actions(s, "B")) /\ is_legal_program(s, "B", b)

\* Stages F and A of a phase do as StagesFA says, and no mover is cooled.
LEMMA PhaseMoves ==
  ASSUME NEW s, NEW w, NEW b, Playable(s, w, b)
  PROVE  LET mv == Moves(s, w, b)
         IN  \E M : /\ Stage(s, M, mv.executing, mv.survivors)
                    /\ ToSet(mv.survivors) = ToSet(mv.executing) \ mv.annihilated
                    /\ mv.annihilated \subseteq ToSet(mv.executing)
                    /\ \A m \in M : m.token \notin s.cooldown
<1> DEFINE declared == expand_program(s, "W", w) \o expand_program(s, "B", b)
           mv == Moves(s, w, b)
           M == ToSet(declared)
<1>1. SoundBoard(s.board)
  BY DEF Playable, WellFormed
<1>2. /\ declared \in Seq(M) /\ NoRepeats(declared) /\ Movers(s, M)
      /\ \A m \in M : m.token \notin s.cooldown
  BY <1>1, DeclaredFacts DEF Playable
<1>3. mv = stages_F_A(s.board, declared)
  BY DEF Moves
<1> HIDE DEF declared, M, mv
<1>4. M = ToSet(declared)
  BY DEF M
<1>5. /\ mv.executing \in Seq(M) /\ mv.survivors \in Seq(M)
      /\ ToSet(mv.survivors) = ToSet(mv.executing) \ mv.annihilated
      /\ mv.annihilated \subseteq ToSet(mv.executing)
      /\ NoRepeats(mv.survivors)
      /\ \A m, x \in ToSet(mv.survivors) : m # x => ~ conflicts(m.trajectory, x.trajectory)
  BY <1>2, <1>3, <1>4, StagesFA
<1>6. Stage(s, M, mv.executing, mv.survivors)
  BY <1>1, <1>2, <1>5 DEF Stage
<1> QED
  BY <1>2, <1>5, <1>6 DEF mv

\* Stage B of a phase does as DefenseRunning says, in a context that comes from
\* its moves and its reservations.
LEMMA PhaseDefence ==
  ASSUME NEW s, NEW w, NEW b, Playable(s, w, b)
  PROVE  LET ctx == Scene(s, w, b)
             mv  == Moves(s, w, b)
         IN  /\ Setting(ctx) /\ Backed(ctx)
             /\ Running(ctx, Resolved(s, w, b), ToSet(ctx.pending))
             /\ IntermezzoReading = "i" => Defused(ctx, Resolved(s, w, b))
             /\ ctx.board = s.board /\ ctx.cooldown = s.cooldown /\ ctx.res = Effect(s, w, b)
             /\ ctx.moved = token_ids(mv.survivors)
             /\ ctx.alive = {t \in live(s.board) : t.id \notin token_ids(mv.executing) \ token_ids(mv.survivors)}
             /\ ctx.pending = pending_batteries(s.board, mv.executing, mv.survivors)
             /\ \A m \in ToSet(mv.survivors) :
                  /\ destination(m.trajectory) \in DOMAIN ctx.occupancy
                  /\ ctx.occupancy[destination(m.trajectory)] = m.token
<1> DEFINE ctx == Scene(s, w, b)
           mv  == Moves(s, w, b)
           effect == Effect(s, w, b)
<1>1. PICK M : Stage(s, M, mv.executing, mv.survivors)
  BY PhaseMoves
<1>2. ctx = context(s, mv.executing, mv.survivors, effect)
  BY DEF Scene
<1>3. effect \in Seq(Pairs(s))
  BY EffectFacts DEF Playable, WellFormed
<1> HIDE DEF effect, mv
<1>4. /\ Setting(ctx)
      /\ \A m \in ToSet(mv.survivors) :
           /\ destination(m.trajectory) \in DOMAIN ctx.occupancy
           /\ ctx.occupancy[destination(m.trajectory)] = m.token
  BY <1>1, <1>2, ContextFacts
<1>5. /\ ctx.board = s.board /\ ctx.cooldown = s.cooldown /\ ctx.res = effect
      /\ ctx.moved = token_ids(mv.survivors)
      /\ ctx.alive = {t \in live(s.board) : t.id \notin token_ids(mv.executing) \ token_ids(mv.survivors)}
      /\ ctx.pending = pending_batteries(s.board, mv.executing, mv.survivors)
  BY <1>2 DEF context
<1> HIDE DEF ctx
<1>6. Backed(ctx)
  <2>1. \A rho \in Pairs(s) : rho.defender.color = rho.protege.color
    BY DEF Pairs, Held, own_tokens
  <2>2. ToSet(effect) \subseteq Pairs(s) /\ effect \in Seq(ToSet(effect))
    <3>1. DOMAIN effect = 1..Len(effect) /\ Len(effect) \in Nat /\ effect = [i \in 1..Len(effect) |-> effect[i]]
      BY <1>3
    <3>2. effect \in Seq(ToSet(effect))
      BY <3>1, ListOf
    <3> QED
      BY <1>3, <3>2, SeqElements
  <2> QED
    BY <1>5, <2>1, <2>2 DEF Backed
<1>7. /\ Running(ctx, resolve_defense(ctx), ToSet(ctx.pending))
      /\ IntermezzoReading = "i" => Defused(ctx, resolve_defense(ctx))
  BY <1>4, <1>6, DefenseRunning
<1>8. Resolved(s, w, b) = resolve_defense(ctx)
  BY DEF Resolved, ctx
<1> QED
  BY <1>4, <1>5, <1>6, <1>7, <1>8 DEF ctx, mv, effect

-----------------------------------------------------------------------------
(***************************************************************************)
(* The board after the phase.                                              *)
(***************************************************************************)
\* A token promotes to a type it may promote to.
LEMMA ChosenFacts ==
  ASSUME NEW s, NEW w, NEW b, Playable(s, w, b), NEW x \in Chosen(w \o b, Moves(s, w, b))
  PROVE  x[2] \in Promotable
<1>1. /\ w \in Seq(actions(s, "W")) /\ b \in Seq(actions(s, "B"))
  BY DEF Playable
<1> DEFINE A == actions(s, "W") \cup actions(s, "B")
<1>2. w \in Seq(A) /\ b \in Seq(A)
  BY <1>1
<1>3. ToSet(w \o b) = ToSet(w) \cup ToSet(b)
  <2> HIDE DEF A
  <2> QED
    BY <1>2, ToSetOfConcat
<1>4. ToSet(w) \subseteq actions(s, "W") /\ ToSet(b) \subseteq actions(s, "B")
  BY <1>1, SeqElements
<1>5. PICK a \in ToSet(w \o b) : a.kind = "move" /\ a.promotion # NoPromotion /\ x[2] = a.promotion
  BY DEF Chosen, promotion_choices
<1>6. PICK c : a \in actions(s, c)
  BY <1>3, <1>4
<1>7. a.promotion \in Promotable \cup {NoPromotion}
  BY <1>5, <1>6, ActionKinds
<1> QED
  BY <1>5, <1>7

\* A promotion changes the type of a token and nothing else.
LEMMA PromotedFacts ==
  ASSUME NEW s, NEW w, NEW b, Playable(s, w, b), NEW t \in live(s.board)
  PROVE  LET u == promoted(t, Chosen(w \o b, Moves(s, w, b)))
         IN  /\ u = [id |-> t.id, color |-> t.color, typ |-> u.typ]
             /\ u.id = t.id /\ u.color = t.color
             /\ u.typ \in {t.typ} \cup Promotable
<1> DEFINE ch == Chosen(w \o b, Moves(s, w, b))
           u == promoted(t, ch)
<1>1. t = [id |-> t.id, color |-> t.color, typ |-> t.typ]
  BY DEF Playable, WellFormed, SoundBoard
<1>2. \A x \in ch : x[2] \in Promotable
  BY ChosenFacts
<1> HIDE DEF ch
<1>3. CASE \E x \in ch : x[1] = t.id
  <2>1. PICK x : x = (CHOOSE y \in ch : y[1] = t.id) /\ x \in ch
    BY <1>3
  <2>2. u = [t EXCEPT !.typ = x[2]]
    BY <1>3, <2>1 DEF promoted
  <2>3. u = [id |-> t.id, color |-> t.color, typ |-> x[2]]
    <3> HIDE DEF u
    <3> QED
      BY <1>1, <2>2
  <2> HIDE DEF u
  <2>4. u.id = t.id /\ u.color = t.color /\ u.typ = x[2]
    BY <2>3
  <2> QED
    BY <1>2, <2>1, <2>3, <2>4 DEF u, ch
<1>4. CASE ~ \E x \in ch : x[1] = t.id
  <2>1. u = t
    BY <1>4 DEF promoted
  <2> QED
    BY <1>1, <2>1 DEF ch
<1> QED
  BY <1>3, <1>4

\* Token u of the new board is the one that stage B left on square q.
Lands(s, w, b, u, q) ==
  LET t == Resolved(s, w, b).occupancy[q]
  IN  /\ u.id = t.id /\ u.color = t.color /\ u.typ \in {t.typ} \cup Promotable
      /\ u = [id |-> u.id, color |-> u.color, typ |-> u.typ]

\* The new board is sound: one token for each square that is held after stage
\* B, the one that holds it.
LEMMA NewBoardFacts ==
  ASSUME NEW s, NEW w, NEW b, Playable(s, w, b)
  PROVE  LET board == NewBoard(w \o b, Moves(s, w, b), Resolved(s, w, b))
             occ   == Resolved(s, w, b).occupancy
         IN  /\ SoundBoard(board)
             /\ \A u \in live(board) : board[u] \in DOMAIN occ /\ Lands(s, w, b, u, board[u])
             /\ \A q \in DOMAIN occ : \E u \in live(board) : board[u] = q
             /\ \A q \in DOMAIN occ : /\ occ[q] \in Resolved(s, w, b).alive
                                      /\ occ[q] \in live(s.board)
<1> DEFINE ctx == Scene(s, w, b)
           db  == Resolved(s, w, b)
           occ == db.occupancy
           ch  == Chosen(w \o b, Moves(s, w, b))
           up(q) == promoted(occ[q], ch)
           board == NewBoard(w \o b, Moves(s, w, b), Resolved(s, w, b))
<1>1. /\ Placed(ctx, db) /\ Fallen(ctx, db, ToSet(ctx.pending))
      /\ ctx.board = s.board /\ ctx.alive \subseteq live(s.board)
  BY PhaseDefence DEF Running, Setting
<1>2. SoundBoard(s.board)
  BY DEF Playable, WellFormed
<1> HIDE DEF ctx, db
<1>3. /\ DOMAIN occ \subseteq Squares
      /\ \A q \in DOMAIN occ : occ[q] \in db.alive /\ occ[q] \in live(s.board)
      /\ \A q, r \in DOMAIN occ : occ[q] = occ[r] => q = r
  BY <1>1 DEF Placed, Fallen
<1>4. \A q \in DOMAIN occ : /\ up(q) = [id |-> occ[q].id, color |-> occ[q].color, typ |-> up(q).typ]
                            /\ up(q).id = occ[q].id /\ up(q).color = occ[q].color
                            /\ up(q).typ \in {occ[q].typ} \cup Promotable
  BY <1>3, PromotedFacts
<1>5. /\ live(board) = {up(q) : q \in DOMAIN occ}
      /\ \A u \in live(board) : board[u] = CHOOSE q \in DOMAIN occ : up(q) = u
  BY DEF NewBoard, apply_promotions, live, db
<1> HIDE DEF board, occ, up, ch
<1>6. \A q, r \in DOMAIN occ : up(q).id = up(r).id => q = r
  BY <1>2, <1>3, <1>4 DEF SoundBoard
<1>7. ASSUME NEW u \in live(board) PROVE board[u] \in DOMAIN occ /\ up(board[u]) = u
  <2>1. \E q \in DOMAIN occ : up(q) = u
    BY <1>5
  <2> QED
    BY <1>5, <2>1
<1>8. ASSUME NEW q \in DOMAIN occ PROVE up(q) \in live(board) /\ board[up(q)] = q
  <2>1. up(q) \in live(board)
    BY <1>5
  <2> QED
    BY <1>6, <1>7, <2>1
<1>9. ASSUME NEW u \in live(board)
      PROVE  /\ Lands(s, w, b, u, board[u])
             /\ u = [id |-> u.id, color |-> u.color, typ |-> u.typ]
             /\ u.color \in Color /\ u.typ \in PieceType /\ board[u] \in Squares
  <2>1. board[u] \in DOMAIN occ /\ up(board[u]) = u
    BY <1>7
  <2>2. /\ u = [id |-> occ[board[u]].id, color |-> occ[board[u]].color, typ |-> u.typ]
        /\ u.id = occ[board[u]].id /\ u.color = occ[board[u]].color
        /\ u.typ \in {occ[board[u]].typ} \cup Promotable
    BY <1>4, <2>1
  <2>3. occ[board[u]].color \in Color /\ occ[board[u]].typ \in PieceType
    BY <1>2, <1>3, <2>1 DEF SoundBoard
  <2>4. Promotable \subseteq PieceType
    BY DEF Promotable, PieceType
  <2>5. Lands(s, w, b, u, board[u])
    BY <2>2 DEF Lands, occ, db
  <2> QED
    BY <1>3, <2>1, <2>2, <2>3, <2>4, <2>5
<1>10. \A t, u \in live(board) : board[t] = board[u] \/ t.id = u.id => t = u
  BY <1>6, <1>7
<1>11. SoundBoard(board)
  BY <1>9, <1>10 DEF SoundBoard
<1>12. \A q \in DOMAIN occ : \E u \in live(board) : board[u] = q
  BY <1>8
<1> QED
  BY <1>3, <1>7, <1>9, <1>11, <1>12 DEF board, occ, db

\* The board after the phase.
Board(s, w, b) == NewBoard(w \o b, Moves(s, w, b), Resolved(s, w, b))

\* A token of the new board is the only one of its identity on the old board,
\* and was not captured.
LEMMA CapturedIds ==
  ASSUME NEW s, NEW w, NEW b, Playable(s, w, b), NEW u \in live(Board(s, w, b))
  PROVE  LET db == Resolved(s, w, b)
             t  == db.occupancy[Board(s, w, b)[u]]
         IN  /\ t \in live(s.board) /\ t \in db.alive /\ t.id = u.id
             /\ \A x \in live(s.board) : x.id = u.id => x = t
             /\ u.id \notin captured_ids(db)
             /\ t \in Scene(s, w, b).alive
<1> DEFINE ctx == Scene(s, w, b)
           db  == Resolved(s, w, b)
           board == Board(s, w, b)
           t == db.occupancy[board[u]]
<1>1. /\ board[u] \in DOMAIN db.occupancy /\ Lands(s, w, b, u, board[u])
      /\ t \in db.alive /\ t \in live(s.board)
  BY NewBoardFacts DEF Board
<1>2. t.id = u.id
  BY <1>1 DEF Lands
<1>3. SoundBoard(s.board)
  BY DEF Playable, WellFormed
<1>4. Fallen(ctx, db, ToSet(ctx.pending)) /\ ctx.alive \subseteq live(s.board)
  BY PhaseDefence DEF Running, Setting
<1> HIDE DEF ctx, db, board, t
<1>5. \A x \in live(s.board) : x.id = u.id => x = t
  BY <1>1, <1>2, <1>3 DEF SoundBoard
<1>6. u.id \notin captured_ids(db)
  <2> SUFFICES ASSUME u.id \in captured_ids(db) PROVE FALSE
    OBVIOUS
  <2>1. PICK x \in ToSet(db.captured) : x[1].id = u.id
    BY DEF captured_ids, captured_tokens
  <2>2. x[1] = t
    BY <1>4, <1>5, <2>1 DEF Fallen
  <2> QED
    BY <1>1, <1>4, <2>2 DEF Fallen
<1>7. t \in ctx.alive
  BY <1>1, <1>4 DEF Fallen
<1> QED
  BY <1>1, <1>2, <1>5, <1>6, <1>7 DEF t, board, db, ctx

\* A token that no stage displaced is where it was.
LEMMA StandsStill ==
  ASSUME NEW s, NEW w, NEW b, Playable(s, w, b), NEW u \in live(Board(s, w, b)),
         u.id \notin displaced_ids(Moves(s, w, b).survivors, Resolved(s, w, b))
  PROVE  LET t == Resolved(s, w, b).occupancy[Board(s, w, b)[u]]
         IN  Board(s, w, b)[u] = s.board[t]
<1> DEFINE ctx == Scene(s, w, b)
           db  == Resolved(s, w, b)
           board == Board(s, w, b)
           mv == Moves(s, w, b)
           t == db.occupancy[board[u]]
<1>1. /\ Setting(ctx) /\ Placed(ctx, db) /\ ctx.board = s.board /\ ctx.moved = token_ids(mv.survivors)
  BY PhaseDefence DEF Running
<1>2. /\ t \in live(s.board) /\ t.id = u.id /\ u.id \notin captured_ids(db)
  BY CapturedIds
<1>3. board[u] \in DOMAIN db.occupancy
  BY NewBoardFacts DEF Board
<1>4. t.id \notin token_ids(mv.survivors) /\ t.id \notin recapturer_ids(db)
  BY <1>2 DEF displaced_ids
<1> HIDE DEF ctx, db, board, mv
<1>5. t \notin fired_defenders(db)
  BY <1>4 DEF fired_defenders, recapturer_ids
<1>6. board[u] \in DOMAIN ctx.occupancy /\ ctx.occupancy[board[u]] = t
  BY <1>1, <1>3, <1>5 DEF Placed
<1>7. ctx.board[t] = board[u]
  BY <1>1, <1>4, <1>6 DEF Setting
<1> QED
  BY <1>1, <1>7 DEF board, db

\* The new board has exactly the tokens that did not die.
LEMMA Survives ==
  ASSUME NEW s, NEW w, NEW b, Playable(s, w, b), NEW t \in live(s.board)
  PROVE  t.id \notin Dead(Moves(s, w, b), Resolved(s, w, b))
           <=> \E u \in live(Board(s, w, b)) : u.id = t.id
<1> DEFINE ctx == Scene(s, w, b)
           db  == Resolved(s, w, b)
           board == Board(s, w, b)
           mv == Moves(s, w, b)
<1>1. /\ Fallen(ctx, db, ToSet(ctx.pending)) /\ Untouched(ctx, db, ToSet(ctx.pending))
      /\ ctx.alive = {x \in live(s.board) : x.id \notin token_ids(mv.executing) \ token_ids(mv.survivors)}
  BY PhaseDefence DEF Running
<1>2. PICK M : /\ Stage(s, M, mv.executing, mv.survivors)
               /\ ToSet(mv.survivors) = ToSet(mv.executing) \ mv.annihilated
               /\ mv.annihilated \subseteq ToSet(mv.executing)
  BY PhaseMoves
<1>3. SoundBoard(s.board)
  BY DEF Playable, WellFormed
<1>4. ASSUME t.id \notin Dead(mv, db) PROVE \E u \in live(board) : u.id = t.id
  <2>1. t \notin captured_tokens(db) /\ \A m \in mv.annihilated : m.token.id # t.id
    BY <1>4 DEF Dead, captured_ids
  <2>2. t \in ctx.alive
    <3> HIDE DEF mv, ctx
    <3>1. t.id \in token_ids(mv.executing) => t.id \in token_ids(mv.survivors)
      BY <1>2, <2>1 DEF token_ids
    <3> QED
      BY <1>1, <3>1
  <2>3. t \in db.alive
    <3> HIDE DEF db, ctx
    <3> QED
      BY <1>1, <2>1, <2>2 DEF Fallen, captured_tokens
  <2>4. PICK q \in DOMAIN db.occupancy : db.occupancy[q] = t
    <3> HIDE DEF db, ctx
    <3> QED
      BY <1>1, <2>3 DEF Untouched
  <2>5. PICK u \in live(board) : board[u] = q
    BY <2>4, NewBoardFacts DEF Board
  <2>6. Lands(s, w, b, u, board[u])
    BY NewBoardFacts DEF Board
  <2>7. u.id = t.id
    BY <2>4, <2>5, <2>6 DEF Lands
  <2> QED
    BY <2>7
<1>5. ASSUME NEW u \in live(board), u.id = t.id PROVE t.id \notin Dead(mv, db)
  <2>1. t \in ctx.alive /\ t.id \notin captured_ids(db)
    BY <1>5, CapturedIds
  <2>2. ASSUME NEW m \in mv.annihilated, m.token.id = t.id PROVE FALSE
    <3> HIDE DEF mv, ctx
    <3>1. t.id \in token_ids(mv.executing)
      BY <1>2, <2>2 DEF token_ids
    <3>2. t.id \in token_ids(mv.survivors)
      BY <1>1, <2>1, <3>1
    <3>3. PICK x \in ToSet(mv.survivors) : x.token.id = t.id
      BY <3>2 DEF token_ids
    <3>4. m \in M /\ x \in M
      BY <1>2, SeqElements DEF Stage
    <3>5. x = m
      BY <1>2, <2>2, <3>3, <3>4 DEF Stage, Movers
    <3> QED
      BY <1>2, <2>2, <3>3, <3>5
  <2> QED
    BY <2>1, <2>2 DEF Dead
<1> QED
  BY <1>4, <1>5

\* Only a token on the new board that moved is cooled.
LEMMA CooledMoved ==
  ASSUME NEW s, NEW w, NEW b, Playable(s, w, b),
         NEW u \in Cooled(s, w \o b, Moves(s, w, b), Resolved(s, w, b))
  PROVE  /\ u \in live(Board(s, w, b))
         /\ u.id \in MovedIds(w \o b, Moves(s, w, b), Resolved(s, w, b))
<1> DEFINE db  == Resolved(s, w, b)
           board == Board(s, w, b)
           mv == Moves(s, w, b)
           displaced == Displaced(w \o b, mv, db)
<1>1. displaced = {t \in live(board) : t.id \in displaced_ids(mv.survivors, db)}
  BY DEF Displaced, compute_displaced_tokens, Board
<1>2. \/ u \in displaced
      \/ u \in live(board) /\ u.id \in Kings(s, mv, db)
  BY DEF Cooled, compute_cooldown, Board
<1>3. u \in live(board)
  BY <1>1, <1>2
<1>4. u.id \notin captured_ids(db)
  BY <1>3, CapturedIds
<1>5. u.id \in Kings(s, mv, db) => u.id \in token_ids(mv.survivors) \cup recapturer_ids(db)
  <2> HIDE DEF mv, db
  <2> QED
    BY DEF Kings, king_capture_candidates, token_ids, recapturer_ids
<1>6. u \in displaced
  <2> HIDE DEF mv, db, board, displaced
  <2> QED
    BY <1>1, <1>2, <1>3, <1>4, <1>5 DEF displaced_ids
<1> QED
  BY <1>3, <1>6 DEF MovedIds

-----------------------------------------------------------------------------
(***************************************************************************)
(* The reservations after the phase.                                       *)
(***************************************************************************)
\* The reservations after the phase.
Carried(s, w, b) == Kept(s, w \o b, Moves(s, w, b), Effect(s, w, b), Resolved(s, w, b))

\* A reservation that survives was not cancelled and lost neither token, its
\* defender did not move, and its protege moved only if it was declared in this
\* phase.
LEMMA LeftFacts ==
  ASSUME NEW s, NEW w, NEW b, Playable(s, w, b)
  PROVE  LET mv   == Moves(s, w, b)
             db   == Resolved(s, w, b)
             left == Left(s, w \o b, mv, Effect(s, w, b), db)
         IN  /\ left \in Seq(Pairs(s)) /\ Aged(left)
             /\ \A rho \in ToSet(left) :
                  /\ rho \in Pairs(s)
                  /\ rho.defender.id \notin Dead(mv, db) \cup MovedIds(w \o b, mv, db)
                  /\ rho.protege.id \notin Dead(mv, db)
                  /\ rho.age[1] = s.phase \/ rho \in ToSet(s.res[rho.defender.color])
                  /\ rho.age[1] # s.phase => rho.protege.id \notin MovedIds(w \o b, mv, db)
                  /\ rho.age[1] = s.phase => Numbered(rho, rho.defender.color)
                  /\ rho.age[1] \in 0..s.phase
                  /\ ~ (CancellationEnabled /\ rho \in cancellations(w \o b))
<1> DEFINE mv   == Moves(s, w, b)
           db   == Resolved(s, w, b)
           effect == Effect(s, w, b)
           T == {rho \in ToSet(effect) :
                  /\ ~ (CancellationEnabled /\ rho \in cancellations(w \o b))
                  /\ rho.defender.id \notin Dead(mv, db) \cup MovedIds(w \o b, mv, db)
                  /\ rho.protege.id \notin Dead(mv, db)
                  /\ rho.age[1] # s.phase => rho.protege.id \notin MovedIds(w \o b, mv, db)}
           left == Left(s, w \o b, mv, effect, db)
<1>1. /\ effect \in Seq(Pairs(s)) /\ Aged(effect)
      /\ \A rho \in ToSet(effect) : /\ rho.age[1] = s.phase \/ rho \in ToSet(s.res[rho.defender.color])
                                    /\ rho.age[1] = s.phase => Numbered(rho, rho.defender.color)
                                    /\ rho.age[1] \in 0..s.phase
  BY EffectFacts DEF Playable, WellFormed
<1>2. left = only(effect, T)
  BY DEF Left, update_reservations
<1> HIDE DEF effect, left, mv, db
<1>3. left \in Seq(Pairs(s)) /\ ToSet(left) = ToSet(effect) \cap T
  <2> HIDE DEF T
  <2> QED
    BY <1>1, <1>2, OnlyElements
<1>4. Aged(left)
  <2> HIDE DEF T
  <2> QED
    BY <1>1, <1>2, OnlyAged
<1>5. ToSet(left) \subseteq Pairs(s)
  BY <1>3, SeqElements
<1> QED
  BY <1>1, <1>3, <1>4, <1>5 DEF left, effect, mv, db

\* The token of the new board with t's identity.
Current(s, w, b, t) ==
  IF \E u \in live(Board(s, w, b)) : u.id = t.id
  THEN CHOOSE u \in live(Board(s, w, b)) : u.id = t.id ELSE t

\* A token that did not die has one.
LEMMA CurrentFacts ==
  ASSUME NEW s, NEW w, NEW b, Playable(s, w, b), NEW t \in live(s.board),
         t.id \notin Dead(Moves(s, w, b), Resolved(s, w, b))
  PROVE  /\ Current(s, w, b, t) \in live(Board(s, w, b))
         /\ Current(s, w, b, t).id = t.id
         /\ Current(s, w, b, t).color = t.color
<1> DEFINE board == Board(s, w, b)
           u == Current(s, w, b, t)
<1>1. \E x \in live(board) : x.id = t.id
  BY Survives
<1>2. u = CHOOSE x \in live(board) : x.id = t.id
  BY <1>1 DEF Current
<1> HIDE DEF u
<1>3. u \in live(board) /\ u.id = t.id
  BY <1>1, <1>2
<1> DEFINE o == Resolved(s, w, b).occupancy[board[u]]
<1>4. o \in live(s.board) /\ o.id = u.id
  BY <1>3, CapturedIds
<1>5. Lands(s, w, b, u, board[u])
  BY <1>3, NewBoardFacts DEF Board
<1>6. u.color = o.color
  BY <1>5 DEF Lands
<1>7. o = t
  BY <1>3, <1>4 DEF Playable, WellFormed, SoundBoard
<1> QED
  BY <1>3, <1>6, <1>7 DEF u

\* Reservation x is rho with the tokens of the new board.
Follows(s, w, b, rho, x) ==
  /\ x = [defender |-> Current(s, w, b, rho.defender),
          protege  |-> Current(s, w, b, rho.protege), age |-> rho.age]

\* Each reservation is carried over in its place.
LEMMA CarriedIs ==
  ASSUME NEW s, NEW w, NEW b, Playable(s, w, b)
  PROVE  LET left == Left(s, w \o b, Moves(s, w, b), Effect(s, w, b), Resolved(s, w, b))
         IN  /\ DOMAIN Carried(s, w, b) = 1..Len(left) /\ DOMAIN left = 1..Len(left) /\ Len(left) \in Nat
             /\ Carried(s, w, b) = [i \in 1..Len(left) |-> Carried(s, w, b)[i]]
             /\ \A i \in 1..Len(left) :
                  left[i] \in ToSet(left) /\ Follows(s, w, b, left[i], Carried(s, w, b)[i])
<1> DEFINE left == Left(s, w \o b, Moves(s, w, b), Effect(s, w, b), Resolved(s, w, b))
           k == Carried(s, w, b)
<1>1. left \in Seq(Pairs(s)) /\ \A rho \in ToSet(left) : rho \in Pairs(s)
  BY LeftFacts
<1>2. k = [i \in DOMAIN left |-> [left[i] EXCEPT !.defender = Current(s, w, b, @),
                                                 !.protege  = Current(s, w, b, @)]]
  BY DEF Carried, Kept, refresh_reservation_tokens, Current, Board
<1> HIDE DEF left, k
<1>3. DOMAIN left = 1..Len(left) /\ Len(left) \in Nat
  BY <1>1
<1>4. DOMAIN k = 1..Len(left) /\ k = [i \in 1..Len(left) |-> k[i]]
  BY <1>2, <1>3
<1>5. ASSUME NEW i \in 1..Len(left) PROVE left[i] \in ToSet(left) /\ Follows(s, w, b, left[i], k[i])
  <2>1. left[i] \in ToSet(left)
    BY <1>3 DEF ToSet
  <2>2. PICK rho : rho = left[i]
    OBVIOUS
  <2>3. rho \in [defender : live(s.board), protege : live(s.board), age : Nat \X Nat]
    BY <1>1, <2>1, <2>2 DEF Pairs, Held, own_tokens
  <2>4. k[i] = [rho EXCEPT !.defender = Current(s, w, b, @), !.protege  = Current(s, w, b, @)]
    BY <1>2, <1>3, <2>2
  <2>5. k[i] = [defender |-> Current(s, w, b, rho.defender),
                protege  |-> Current(s, w, b, rho.protege), age |-> rho.age]
    BY <2>3, <2>4
  <2> QED
    BY <2>1, <2>2, <2>5 DEF Follows
<1> QED
  BY <1>3, <1>4, <1>5 DEF left, k

\* The reservations after the phase are in order of age and name two distinct
\* tokens of the new board, of the colours they had.
LEMMA CarriedFacts ==
  ASSUME NEW s, NEW w, NEW b, Playable(s, w, b)
  PROVE  LET kept  == Carried(s, w, b)
             board == Board(s, w, b)
             left  == Left(s, w \o b, Moves(s, w, b), Effect(s, w, b), Resolved(s, w, b))
             Link  == [defender : live(board), protege : live(board), age : Nat \X Nat]
         IN  /\ kept \in Seq(Link) /\ Aged(kept)
             /\ \A x \in ToSet(kept) : \E rho \in ToSet(left) :
                  /\ rho \in Pairs(s) /\ Follows(s, w, b, rho, x)
                  /\ x \in Link
                  /\ x.defender.id = rho.defender.id /\ x.protege.id = rho.protege.id /\ x.age = rho.age
                  /\ x.defender.color = rho.defender.color /\ x.protege.color = rho.protege.color
                  /\ x.defender # x.protege
<1> DEFINE kept  == Carried(s, w, b)
           board == Board(s, w, b)
           left  == Left(s, w \o b, Moves(s, w, b), Effect(s, w, b), Resolved(s, w, b))
           Link  == [defender : live(board), protege : live(board), age : Nat \X Nat]
           n == Len(left)
           Good(x, rho) ==
                  /\ rho \in Pairs(s) /\ Follows(s, w, b, rho, x)
                  /\ x \in Link
                  /\ x.defender.id = rho.defender.id /\ x.protege.id = rho.protege.id /\ x.age = rho.age
                  /\ x.defender.color = rho.defender.color /\ x.protege.color = rho.protege.color
                  /\ x.defender # x.protege
<1>1. /\ DOMAIN kept = 1..n /\ DOMAIN left = 1..n /\ n \in Nat /\ kept = [i \in 1..n |-> kept[i]]
      /\ \A i \in 1..n : left[i] \in ToSet(left) /\ Follows(s, w, b, left[i], kept[i])
  BY CarriedIs
<1>2. /\ Aged(left)
      /\ \A rho \in ToSet(left) : /\ rho \in Pairs(s)
                                  /\ rho.defender.id \notin Dead(Moves(s, w, b), Resolved(s, w, b))
                                  /\ rho.protege.id \notin Dead(Moves(s, w, b), Resolved(s, w, b))
  BY LeftFacts
<1>3. SoundBoard(s.board)
  BY DEF Playable, WellFormed
<1> HIDE DEF kept, board, left, n
<1>4. ASSUME NEW i \in 1..n PROVE Good(kept[i], left[i])
  <2> DEFINE rho == left[i]
             x == kept[i]
  <2>1. rho \in Pairs(s) /\ Follows(s, w, b, rho, x)
    BY <1>1, <1>2
  <2>2. /\ rho.defender \in live(s.board) /\ rho.protege \in live(s.board)
        /\ rho.defender # rho.protege /\ rho.age \in Nat \X Nat
    BY <2>1 DEF Pairs, Held, own_tokens
  <2>3. rho.defender.id # rho.protege.id
    BY <1>3, <2>2 DEF SoundBoard
  <2>4. /\ Current(s, w, b, rho.defender) \in live(board)
        /\ Current(s, w, b, rho.defender).id = rho.defender.id
        /\ Current(s, w, b, rho.defender).color = rho.defender.color
    BY <1>1, <1>2, <2>2, CurrentFacts DEF board
  <2>5. /\ Current(s, w, b, rho.protege) \in live(board)
        /\ Current(s, w, b, rho.protege).id = rho.protege.id
        /\ Current(s, w, b, rho.protege).color = rho.protege.color
    BY <1>1, <1>2, <2>2, CurrentFacts DEF board
  <2> HIDE DEF rho, x
  <2>6. x = [defender |-> Current(s, w, b, rho.defender),
             protege  |-> Current(s, w, b, rho.protege), age |-> rho.age]
    BY <2>1 DEF Follows
  <2>7. x.defender = Current(s, w, b, rho.defender) /\ x.protege = Current(s, w, b, rho.protege) /\ x.age = rho.age
    BY <2>6
  <2>8. x \in Link
    BY <2>2, <2>4, <2>5, <2>6
  <2>9. x.defender # x.protege
    BY <2>3, <2>4, <2>5, <2>7
  <2>10. Good(x, rho)
    BY <2>1, <2>4, <2>5, <2>7, <2>8, <2>9
  <2> QED
    BY <2>10 DEF x, rho
<1> HIDE DEF Link
<1>5. \A i \in 1..n : kept[i] \in Link /\ kept[i].age = left[i].age
                        /\ kept[i].defender.color = left[i].defender.color
  BY <1>4
<1>6. kept \in Seq(Link)
  BY <1>1, <1>5
<1>7. Aged(kept)
  BY <1>1, <1>2, <1>5 DEF Aged
<1>8. \A x \in ToSet(kept) : \E rho \in ToSet(left) : Good(x, rho)
  <2> HIDE DEF Good
  <2>1. \A i \in 1..n : left[i] \in ToSet(left)
    BY <1>1
  <2> QED
    BY <1>1, <1>4, <2>1 DEF ToSet
<1> QED
  BY <1>6, <1>7, <1>8 DEF kept, board, left, Link, n

-----------------------------------------------------------------------------
(***************************************************************************)
(* The state after the phase.                                              *)
(***************************************************************************)
\* What a phase does to the parts of the state, its outcome and its trace.
After(s, w, b, r) ==
  /\ r.state.board = Board(s, w, b)
  /\ r.state.res = [c \in Color |->
       only(Carried(s, w, b), {rho \in ToSet(Carried(s, w, b)) : rho.defender.color = c})]
  /\ r.state.rights =
       update_castling_rights(s.rights, s.board, MovedIds(w \o b, Moves(s, w, b), Resolved(s, w, b)))
  /\ r.state.cooldown \subseteq Cooled(s, w \o b, Moves(s, w, b), Resolved(s, w, b))
  /\ \A t \in Cooled(s, w \o b, Moves(s, w, b), Resolved(s, w, b)) :
       t.typ # "k" => t \in r.state.cooldown
  /\ r.state.phase = s.phase + 1
  /\ r.state.nu \in {0, s.nu + 1}
  /\ r.outcome \in {"ongoing", "white_wins", "black_wins", "draw"}
  /\ r.outcome = "ongoing" => ~ (r.state.nu >= Horizon)
  /\ r.outcome = "ongoing" => \A c \in Color : has_king(r.state.board, c)
  /\ \A k \in r.state.cooldown : k.typ = "k" => has_any_legal_program(r.state, k.color)
  /\ r.trace.survivors = ToSet(Moves(s, w, b).survivors)
  /\ r.trace.executing = Moves(s, w, b).executing
  /\ r.trace.annihilated = Moves(s, w, b).annihilated
  /\ r.trace.captured = Resolved(s, w, b).captured
  /\ r.trace.fired = Resolved(s, w, b).fired

\* phi does what After says.
LEMMA PhaseIs ==
  ASSUME NEW s, NEW w, NEW b
  PROVE  After(s, w, b, phi(s, w, b))
<1> DEFINE mv == Moves(s, w, b)
           db == Resolved(s, w, b)
           e  == Effect(s, w, b)
           p  == w \o b
<1>1. phi(s, w, b) = stages_C_D(s, p, mv, e, db)
  BY PhiIs
<1>2. Board(s, w, b) = NewBoard(p, mv, db) /\ Carried(s, w, b) = Kept(s, p, mv, e, db)
  BY DEF Board, Carried
<1> HIDE DEF p, mv, e, db
<1>3. PICK r : r = stages_C_D(s, p, mv, e, db)
  OBVIOUS
<1>4. /\ r.state.board = NewBoard(p, mv, db)
      /\ r.state.res = [c \in Color |-> only(Kept(s, p, mv, e, db),
                          {rho \in ToSet(Kept(s, p, mv, e, db)) : rho.defender.color = c})]
      /\ r.state.rights = update_castling_rights(s.rights, s.board, MovedIds(p, mv, db))
      /\ r.state.cooldown \subseteq Cooled(s, p, mv, db)
      /\ \A t \in Cooled(s, p, mv, db) : t.typ # "k" => t \in r.state.cooldown
      /\ r.state.phase = s.phase + 1
      /\ r.state.nu \in {0, s.nu + 1}
      /\ r.outcome \in {"ongoing", "white_wins", "black_wins", "draw"}
      /\ r.outcome = "ongoing" => ~ (r.state.nu >= Horizon)
      /\ r.outcome = "ongoing" => \A c \in Color : has_king(r.state.board, c)
      /\ \A k \in r.state.cooldown : k.typ = "k" => has_any_legal_program(r.state, k.color)
      /\ r.trace.survivors = ToSet(mv.survivors)
      /\ r.trace.executing = mv.executing
      /\ r.trace.annihilated = mv.annihilated
      /\ r.trace.captured = db.captured
      /\ r.trace.fired = db.fired
  BY <1>3, ClosureIs
<1> QED
  BY <1>1, <1>2, <1>3, <1>4 DEF After, p, mv, e, db

\* WF5 and WF6 after the phase. That a defender is free to fire is because only
\* the tokens that moved are cooled, and their reservations were dropped.
LEMMA StandingKept ==
  ASSUME NEW s, NEW w, NEW b, Playable(s, w, b), NEW c \in Color
  PROVE  Standing(phi(s, w, b).state, c)
<1> DEFINE n    == phi(s, w, b).state
           kept == Carried(s, w, b)
           T    == {rho \in ToSet(kept) : rho.defender.color = c}
           R    == n.res[c]
           mv   == Moves(s, w, b)
           db   == Resolved(s, w, b)
           moved == MovedIds(w \o b, mv, db)
           left == Left(s, w \o b, mv, Effect(s, w, b), db)
           Link == [defender : live(n.board), protege : live(n.board), age : Nat \X Nat]
           Own  == [defender : own_tokens(n, c), protege : own_tokens(n, c), age : Nat \X Nat]
<1> HIDE DEF moved, left, Link, Own
<1>1. /\ n.board = Board(s, w, b) /\ R = only(kept, T) /\ n.phase = s.phase + 1
      /\ n.cooldown \subseteq Cooled(s, w \o b, mv, db)
  <2>1. PICK r : r = phi(s, w, b) /\ After(s, w, b, r)
    BY PhaseIs
  <2>2. PICK x : x = r.state
    OBVIOUS
  <2>3. n = x
    BY <2>1, <2>2
  <2> HIDE DEF n
  <2>4. /\ x.board = Board(s, w, b) /\ x.phase = s.phase + 1
        /\ x.cooldown \subseteq Cooled(s, w \o b, mv, db)
        /\ x.res = [k \in Color |-> only(kept, {rho \in ToSet(kept) : rho.defender.color = k})]
    BY <2>1, <2>2 DEF After
  <2> HIDE DEF kept
  <2>5. x.res[c] = only(kept, T)
    BY <2>4
  <2> QED
    BY <2>3, <2>4, <2>5
<1>2. /\ kept \in Seq(Link) /\ Aged(kept)
      /\ \A x \in ToSet(kept) : \E rho \in ToSet(left) :
           /\ rho \in Pairs(s) /\ x \in Link
           /\ x.defender.id = rho.defender.id /\ x.protege.id = rho.protege.id /\ x.age = rho.age
           /\ x.defender.color = rho.defender.color /\ x.protege.color = rho.protege.color
           /\ x.defender # x.protege
  BY <1>1, CarriedFacts DEF left, Link
<1>3. \A rho \in ToSet(left) : rho.defender.id \notin moved /\ rho.age[1] \in 0..s.phase
  BY LeftFacts DEF left, moved
<1>4. s.phase \in Nat
  BY DEF Playable, WellFormed
<1>5. \A u \in n.cooldown : u.id \in moved
  BY <1>1, CooledMoved DEF moved
<1>6. \A rho \in Pairs(s) : rho.defender.color = rho.protege.color
  BY DEF Pairs, Held, own_tokens
<1> HIDE DEF n, kept, R, mv, db
<1>7. /\ R \in Seq(Link) /\ ToSet(R) = ToSet(kept) \cap T /\ Aged(R)
  <2> HIDE DEF T, Link
  <2> QED
    BY <1>1, <1>2, OnlyElements, OnlyAged
<1>8. \A x \in ToSet(R) : /\ x \in Own /\ x.defender # x.protege /\ x.defender.color = c
                          /\ x.defender \notin n.cooldown /\ x.age[1] < n.phase
  <2> TAKE x \in ToSet(R)
  <2>1. x \in ToSet(kept) /\ x.defender.color = c
    BY <1>7
  <2>2. PICK rho \in ToSet(left) :
           /\ rho \in Pairs(s) /\ x \in Link
           /\ x.defender.id = rho.defender.id /\ x.protege.id = rho.protege.id /\ x.age = rho.age
           /\ x.defender.color = rho.defender.color /\ x.protege.color = rho.protege.color
           /\ x.defender # x.protege
    BY <1>2, <2>1
  <2>3. x.protege.color = c
    BY <1>6, <2>1, <2>2
  <2>4. x \in Own
    BY <2>1, <2>2, <2>3 DEF own_tokens, Own, Link
  <2>5. x.defender \notin n.cooldown
    BY <1>3, <1>5, <2>2
  <2>6. x.age[1] < n.phase
    <3>1. x.age[1] \in 0..s.phase
      BY <1>3, <2>2
    <3> QED
      BY <1>1, <1>4, <3>1
  <2> QED
    BY <2>1, <2>2, <2>4, <2>5, <2>6
<1> HIDE DEF Own, Link, T
<1>9. DOMAIN R = 1..Len(R) /\ Len(R) \in Nat /\ R = [i \in 1..Len(R) |-> R[i]]
  BY <1>7
<1>10. \A i \in 1..Len(R) : R[i] \in ToSet(R)
  BY <1>9 DEF ToSet
<1>11. R \in Seq(Own)
  BY <1>8, <1>9, <1>10
<1>12. \A i, j \in DOMAIN R : i < j => is_older(R[i].age, R[j].age)
  BY <1>7, <1>8, <1>9, <1>10 DEF Aged
<1> QED
  BY <1>8, <1>9, <1>10, <1>11, <1>12 DEF Standing, n, R, Own

\* A token that did not move is where it was.
LEMMA UnmovedStill ==
  ASSUME NEW s, NEW w, NEW b, Playable(s, w, b), NEW u \in live(Board(s, w, b)),
         u.id \notin MovedIds(w \o b, Moves(s, w, b), Resolved(s, w, b))
  PROVE  \E t \in live(s.board) :
           /\ t.id = u.id /\ t.color = u.color /\ u.typ \in {t.typ} \cup Promotable
           /\ Board(s, w, b)[u] = s.board[t]
<1> DEFINE board == Board(s, w, b)
           t == Resolved(s, w, b).occupancy[board[u]]
<1>1. t \in live(s.board) /\ t.id = u.id
  BY CapturedIds
<1>2. Lands(s, w, b, u, board[u])
  BY NewBoardFacts DEF Board
<1>3. u.color = t.color /\ u.typ \in {t.typ} \cup Promotable
  BY <1>2 DEF Lands
<1>4. u.id \notin displaced_ids(Moves(s, w, b).survivors, Resolved(s, w, b))
  BY DEF MovedIds, Displaced, compute_displaced_tokens, Board
<1>5. board[u] = s.board[t]
  BY <1>4, StandsStill
<1> HIDE DEF t, board
<1> QED
  BY <1>1, <1>3, <1>5 DEF board

\* WF7 after the phase. A king that moved loses the rights of its colour, and one
\* that did not is not cooled.
LEMMA KingsStayHome ==
  ASSUME NEW s, NEW w, NEW b, Playable(s, w, b)
  PROVE  KingsHome(phi(s, w, b).state)
<1> DEFINE moved == MovedIds(w \o b, Moves(s, w, b), Resolved(s, w, b))
<1>1. PICK r : r = phi(s, w, b) /\ After(s, w, b, r)
  BY PhaseIs
<1>2. PICK n : n = r.state
  OBVIOUS
<1>3. n.board = Board(s, w, b) /\ n.rights = update_castling_rights(s.rights, s.board, moved)
  BY <1>1, <1>2 DEF After
<1>4. KingsHome(s)
  BY DEF Playable, WellFormed
<1> SUFFICES ASSUME NEW x \in n.rights, NEW k \in king_token(n, x[1])
             PROVE  n.board[k] = KingHome(x[1]) /\ k \notin n.cooldown
  BY <1>1, <1>2 DEF KingsHome
<1>5. k \in live(Board(s, w, b)) /\ k.color = x[1] /\ k.typ = "k"
  BY <1>3 DEF king_token
<1>6. x \in s.rights /\ \A t \in occupants(s.board, KingHome(x[1])) : t.id \notin moved
  BY <1>3 DEF update_castling_rights
<1> HIDE DEF moved
<1>7. ASSUME NEW t \in live(s.board), t.id = k.id, t.color = k.color, k.typ \in {t.typ} \cup Promotable
      PROVE  s.board[t] = KingHome(x[1]) /\ t.id \notin moved
  <2>1. t.typ = "k"
    BY <1>5, <1>7 DEF Promotable
  <2>2. s.board[t] = KingHome(x[1])
    BY <1>4, <1>5, <1>6, <1>7, <2>1 DEF KingsHome, king_token
  <2> QED
    BY <1>6, <2>2 DEF occupants
<1>8. k.id \notin moved
  <2> DEFINE t == Resolved(s, w, b).occupancy[Board(s, w, b)[k]]
  <2>1. t \in live(s.board) /\ t.id = k.id
    BY <1>5, CapturedIds
  <2>2. Lands(s, w, b, k, Board(s, w, b)[k])
    BY <1>5, NewBoardFacts DEF Board
  <2>3. t.color = k.color /\ k.typ \in {t.typ} \cup Promotable
    BY <2>2 DEF Lands
  <2> HIDE DEF t
  <2> QED
    BY <1>7, <2>1, <2>3
<1>9. PICK t \in live(s.board) : /\ t.id = k.id /\ t.color = k.color /\ k.typ \in {t.typ} \cup Promotable
                                 /\ Board(s, w, b)[k] = s.board[t]
  BY <1>5, <1>8, UnmovedStill DEF moved
<1>10. k \notin n.cooldown
  BY <1>1, <1>2, <1>8, CooledMoved DEF After, moved
<1> QED
  BY <1>3, <1>7, <1>9, <1>10

\* A phase keeps the state sound.
LEMMA StaysWellFormed ==
  ASSUME NEW s, NEW w, NEW b, Playable(s, w, b)
  PROVE  WellFormed(phi(s, w, b).state)
<1>1. PICK r : r = phi(s, w, b) /\ After(s, w, b, r)
  BY PhaseIs
<1>2. PICK n : n = r.state
  OBVIOUS
<1>3. SoundBoard(n.board)
  BY <1>1, <1>2, NewBoardFacts DEF After, Board
<1>4. n.cooldown \subseteq live(n.board)
  BY <1>1, <1>2, CooledMoved DEF After
<1>5. \A c \in Color : Standing(n, c)
  BY <1>1, <1>2, StandingKept
<1>6. n.rights \subseteq Flanks
  <2>1. n.rights \subseteq s.rights
    BY <1>1, <1>2 DEF After, update_castling_rights
  <2> QED
    BY <2>1 DEF Playable, WellFormed
<1>7. KingsHome(n)
  BY <1>1, <1>2, KingsStayHome
<1>8. n.nu \in Nat /\ n.phase \in Nat
  <2>1. s.nu \in Nat /\ s.phase \in Nat
    BY DEF Playable, WellFormed
  <2>2. n.nu \in {0, s.nu + 1} /\ n.phase = s.phase + 1
    BY <1>1, <1>2 DEF After
  <2> QED
    BY <2>1, <2>2
<1> QED
  BY <1>1, <1>2, <1>3, <1>4, <1>5, <1>6, <1>7, <1>8 DEF WellFormed

\* R5: the surviving moves of a phase share no square and do not cross.
LEMMA SurvivorsApart ==
  ASSUME NEW s, NEW w, NEW b, Playable(s, w, b),
         NEW m1 \in phi(s, w, b).trace.survivors, NEW m2 \in phi(s, w, b).trace.survivors, m1 # m2
  PROVE  ~ vertex_conflict(m1.trajectory, m2.trajectory) /\ ~ edge_conflict(m1.trajectory, m2.trajectory)
<1>1. PICK r : r = phi(s, w, b) /\ After(s, w, b, r)
  BY PhaseIs
<1>2. r.trace.survivors = ToSet(Moves(s, w, b).survivors)
  BY <1>1 DEF After
<1>3. m1 \in ToSet(Moves(s, w, b).survivors) /\ m2 \in ToSet(Moves(s, w, b).survivors)
  BY <1>1, <1>2
<1>4. PICK M : Stage(s, M, Moves(s, w, b).executing, Moves(s, w, b).survivors)
  BY PhaseMoves
<1>5. ~ conflicts(m1.trajectory, m2.trajectory)
  BY <1>3, <1>4 DEF Stage
<1> QED
  BY <1>5 DEF conflicts
=============================================================================
